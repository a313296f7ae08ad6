----------------------------- MODULE HttpSession -----------------------------
(***************************************************************************)
(* One HttpServer::Session of src/asio/http_server.cpp, the worker threads *)
(* that run its completion handlers (HttpServer::run, io_context without a *)
(* strand), its steady_timer and its client.                               *)
(*                                                                         *)
(* The byte stream is a sequence of units <<"head", i>> and <<"body", i>>: *)
(* a head unit ends with the blank line async_read_until looks for.  What  *)
(* a request asks for (parse errors, Connection: close, an exception of    *)
(* the request handler) is a choice made when the code looks at it.        *)
(*                                                                         *)
(* Completion handlers touch the timer and the socket call by call; two    *)
(* of them (an I/O completion and a timer wait) may run on two workers at  *)
(* once.                                                                   *)
(***************************************************************************)
EXTENDS Naturals, Sequences, FiniteSets

CONSTANTS
  Workers,      \* threads that run the io_context
  MaxRequests,  \* bound: requests the client sends
  MaxBody,      \* bound: body units of a request
  MaxUnits      \* bound: units the client sends in all

ASSUME WorkersAssumption == Workers # {}
ASSUME BoundAssumption == MaxRequests \in Nat /\ MaxBody \in Nat /\ MaxUnits \in Nat

VARIABLES
  \* the client and the connection
  lengths,    \* Content-Length of each request the client sends
  stream,     \* units the client has not sent yet
  inbox,      \* units in the socket's receive buffer
  peer,       \* "open", "eof" (sent FIN) or "reset"
  open,       \* socket_ is open on our side
  \* the session
  buf,        \* buffer_
  current,    \* the request being served; 0 before the first
  body,       \* units of its body received so far
  next,       \* the operation the running I/O handler starts next
  closeAfter, \* closeAfterWrite of the response being written
  answered,   \* history: requests whose response was handed to async_write
  \* the io_context
  op,         \* the asynchronous read or write: "none", "head", "body", "write"
  opState,    \* "kernel", or "ok" / "error": its handler is queued
  wait,       \* a timer wait is pending
  expired,    \* the latest wait expired, its handler is queued
  stale,      \* queued handlers of waits that expired before a later armTimer
  aborted,    \* queued handlers of cancelled waits
  worker      \* what each worker is in the middle of

clientVars == <<lengths, stream, peer>>
timerVars  == <<wait, expired, stale, aborted>>
vars == <<lengths, stream, inbox, peer, open, buf, current, body, next, closeAfter,
          answered, op, opState, wait, expired, stale, aborted, worker>>

Units == {"head", "body"} \X (1..MaxRequests)
WorkerSteps == {"idle", "arm", "startOp", "cancelTimer", "cancelTimerLate", "closeSocket"}

TypeOK ==
  /\ lengths \in Seq(0..MaxBody)
  /\ stream \in Seq(Units) /\ inbox \in Seq(Units) /\ buf \in Seq(Units)
  /\ body \in Seq(Units)
  /\ peer \in {"open", "eof", "reset"}
  /\ open \in BOOLEAN
  /\ current \in 0..MaxRequests
  /\ next \in {"none", "head", "body", "write"}
  /\ closeAfter \in BOOLEAN
  /\ answered \in Seq(0..MaxRequests)
  /\ op \in {"none", "head", "body", "write"}
  /\ opState \in {"kernel", "ok", "error"}
  /\ wait \in BOOLEAN /\ expired \in BOOLEAN
  /\ stale \in Nat /\ aborted \in Nat
  /\ worker \in [Workers -> WorkerSteps]

\* Where n requests may begin in what a client sends, and where the last ends.
Cuts(n) == {at \in [1..(n + 1) -> 1..(MaxUnits + 1)] :
              at[1] = 1 /\ \A i, j \in 1..(n + 1) : i < j => at[i] < at[j]}

\* What a client sends whose n requests are cut like that: a head and a body.
UnitsOf(n, at) ==
  [p \in 1..(at[n + 1] - 1) |->
     IF \E i \in 1..n : at[i] = p THEN <<"head", CHOOSE i \in 1..n : at[i] = p>>
     ELSE <<"body", CHOOSE i \in 1..n : at[i] < p /\ p < at[i + 1]>>]

\* start(): the timer is armed and the first head is being read.
Init ==
  /\ \E n \in 0..MaxRequests : \E at \in Cuts(n) :
       /\ lengths = [i \in 1..n |-> at[i + 1] - at[i] - 1] /\ lengths \in Seq(0..MaxBody)
       /\ stream = UnitsOf(n, at)
  /\ inbox = <<>> /\ buf = <<>> /\ body = <<>>
  /\ peer = "open" /\ open = TRUE
  /\ current = 0 /\ next = "none" /\ closeAfter = FALSE /\ answered = <<>>
  /\ op = "head" /\ opState = "kernel"
  /\ wait = TRUE /\ expired = FALSE /\ stale = 0 /\ aborted = 0
  /\ worker = [w \in Workers |-> "idle"]

-----------------------------------------------------------------------------
(* The client and the kernel.                                              *)

Send ==
  /\ peer = "open"
  /\ stream # <<>>
  /\ stream' = Tail(stream)
  /\ inbox' = Append(inbox, Head(stream))
  /\ UNCHANGED <<lengths, peer, open, buf, current, body, next, closeAfter, answered,
                 op, opState, timerVars, worker>>

\* The client closes its side, or resets the connection.
Hangup(how) ==
  /\ peer = "open"
  /\ peer' = how
  /\ inbox' = IF how = "reset" THEN <<>> ELSE inbox
  /\ UNCHANGED <<lengths, stream, open, buf, current, body, next, closeAfter, answered,
                 op, opState, timerVars, worker>>

HasHead(units) == \E k \in 1..Len(units) : units[k][1] = "head"

\* A bug: the last blank line in the buffer is found.
LastHeadLength(units) ==
  CHOOSE k \in 1..Len(units) :
    units[k][1] = "head" /\ \A j \in (k + 1)..Len(units) : units[j][1] # "head"

\* What async_read_until reports: the length of the prefix up to the first
\* blank line.
HeadLength(units) ==
  CHOOSE k \in 1..Len(units) :
    units[k][1] = "head" /\ \A j \in 1..(k - 1) : units[j][1] # "head"

\* async_read_until takes what has arrived and completes at the first head.
ReadUntil ==
  /\ op = "head" /\ opState = "kernel"
  /\ inbox # <<>>
  /\ buf' = buf \o inbox
  /\ inbox' = <<>>
  /\ opState' = IF HasHead(buf') THEN "ok" ELSE "kernel"
  /\ UNCHANGED <<clientVars, open, current, body, next, closeAfter, answered,
                 op, timerVars, worker>>

\* What the current request still lacks.
Remaining == lengths[current] - Len(body)

\* transfer_exactly(remaining): never takes more than the body lacks.
ReadExactly ==
  /\ op = "body" /\ opState = "kernel"
  /\ inbox # <<>>
  /\ LET lack == Remaining - Len(buf)
         n == IF Len(inbox) < lack THEN Len(inbox) ELSE lack
     IN  /\ buf' = buf \o SubSeq(inbox, 1, n)
         /\ inbox' = SubSeq(inbox, n + 1, Len(inbox))
         /\ opState' = IF n = lack THEN "ok" ELSE "kernel"
  /\ UNCHANGED <<clientVars, open, current, body, next, closeAfter, answered,
                 op, timerVars, worker>>

\* The client takes the whole response.
WriteDone ==
  /\ op = "write" /\ opState = "kernel"
  /\ peer # "reset"
  /\ opState' = "ok"
  /\ UNCHANGED <<clientVars, inbox, open, buf, current, body, next, closeAfter,
                 answered, op, timerVars, worker>>

\* The operation fails: end of file on a read, or a reset connection.
OpFails ==
  /\ op # "none" /\ opState = "kernel"
  /\ peer = "reset" \/ (peer = "eof" /\ inbox = <<>> /\ op # "write")
  /\ opState' = "error"
  /\ UNCHANGED <<clientVars, inbox, open, buf, current, body, next, closeAfter,
                 answered, op, timerVars, worker>>

\* keepAliveTimeoutMs have passed: the wait leaves the timer's queue, and no
\* later expires_after() can cancel it any more.
TimerExpires ==
  /\ wait
  /\ wait' = FALSE
  /\ expired' = TRUE
  /\ UNCHANGED <<clientVars, inbox, open, buf, current, body, next, closeAfter,
                 answered, op, opState, stale, aborted, worker>>

-----------------------------------------------------------------------------
(* The completion handler of the read or write.                            *)

Goto(w, step) == worker' = [worker EXCEPT ![w] = step]

\* A bug: the read or write is repeated although its handler runs.
CompletedAgain(w, what, result) ==
  /\ worker[w] = "idle"
  /\ op = what /\ opState = result
  /\ UNCHANGED <<clientVars, inbox, open, op, opState, timerVars>>

\* The handler of the outstanding operation is taken from the queue by w.
Completed(w, what, result) ==
  /\ worker[w] = "idle"
  /\ op = what /\ opState = result
  /\ op' = "none"
  /\ UNCHANGED <<clientVars, inbox, open, opState, timerVars>>

\* Every handler that gets an error closes the session.
OnError(w) ==
  /\ \E what \in {"head", "body", "write"} : Completed(w, what, "error")
  /\ Goto(w, "cancelTimer")
  /\ UNCHANGED <<buf, current, body, next, closeAfter, answered>>

\* writeResponse for request i, up to its armTimer.
Respond(w, i, close) ==
  /\ next' = "write"
  /\ closeAfter' = close
  /\ answered' = Append(answered, i)
  /\ Goto(w, "arm")

\* handleHead answers 431 without consuming the head, or consumes it and
\* answers a parse error: both close after the response.
OnBadHead(w) ==
  /\ Completed(w, "head", "ok")
  /\ LET n == HeadLength(buf)
     IN  /\ buf' \in {buf, SubSeq(buf, n + 1, Len(buf))}
         /\ current' = buf[n][2]
         /\ body' = <<>>
         /\ Respond(w, buf[n][2], TRUE)

\* handleHead: the head is consumed, then as much of the body as is buffered.
\* A short body is read (doReadBody), a complete one is handled: whether the
\* response closes is up to the request, the body check and the handler.
OnHead(w) ==
  /\ Completed(w, "head", "ok")
  /\ LET n == HeadLength(buf)
         i == buf[n][2]
         rest == SubSeq(buf, n + 1, Len(buf))
         already == IF Len(rest) < lengths[i] THEN Len(rest) ELSE lengths[i]
     IN  /\ current' = i
         /\ body' = SubSeq(rest, 1, already)
         /\ buf' = SubSeq(rest, already + 1, Len(rest))
         /\ \/ /\ already < lengths[i]
               /\ next' = "body"
               /\ Goto(w, "arm")
               /\ UNCHANGED <<closeAfter, answered>>
            \/ /\ already = lengths[i]
               /\ \E close \in BOOLEAN : Respond(w, i, close)

\* A bug: the body stays in the buffer after it was read.
OnBodyKept(w) ==
  /\ Completed(w, "body", "ok")
  /\ body' = body \o SubSeq(buf, 1, Remaining)
  /\ \E close \in BOOLEAN : Respond(w, current, close)
  /\ UNCHANGED <<buf, current>>

\* doReadBody's handler.
OnBody(w) ==
  /\ Completed(w, "body", "ok")
  /\ body' = body \o SubSeq(buf, 1, Remaining)
  /\ buf' = SubSeq(buf, Remaining + 1, Len(buf))
  /\ \E close \in BOOLEAN : Respond(w, current, close)
  /\ UNCHANGED current

\* writeResponse's handler: read the next request, or close.
OnWritten(w) ==
  /\ Completed(w, "write", "ok")
  /\ next' = IF closeAfter THEN "none" ELSE "head"
  /\ Goto(w, IF closeAfter THEN "cancelTimer" ELSE "arm")
  /\ UNCHANGED <<buf, current, body, closeAfter, answered>>

\* A bug: the expiry is set, but nobody waits for it.
ArmWithoutWait(w) ==
  /\ worker[w] = "arm"
  /\ aborted' = IF wait THEN aborted + 1 ELSE aborted
  /\ stale' = IF expired THEN stale + 1 ELSE stale
  /\ expired' = FALSE
  /\ wait' = FALSE
  /\ Goto(w, "startOp")
  /\ UNCHANGED <<clientVars, inbox, open, buf, current, body, next, closeAfter,
                 answered, op, opState>>

\* armTimer: expires_after cancels a pending wait, then a new wait starts.  A
\* wait that has already expired keeps its handler in the queue.
ArmTimer(w) ==
  /\ worker[w] = "arm"
  /\ aborted' = IF wait THEN aborted + 1 ELSE aborted
  /\ stale' = IF expired THEN stale + 1 ELSE stale
  /\ expired' = FALSE
  /\ wait' = TRUE
  /\ Goto(w, "startOp")
  /\ UNCHANGED <<clientVars, inbox, open, buf, current, body, next, closeAfter,
                 answered, op, opState>>

\* The async_ call that ends the handler.  On a closed socket it fails, except
\* a read_until that finds its delimiter in the buffer without any read.
StartOp(w) ==
  /\ worker[w] = "startOp"
  /\ op' = next
  /\ opState' = IF next = "head" /\ HasHead(buf) THEN "ok"
                ELSE IF open THEN "kernel" ELSE "error"
  /\ next' = "none"
  /\ Goto(w, "idle")
  /\ UNCHANGED <<clientVars, inbox, open, buf, current, body, closeAfter, answered,
                 timerVars>>

-----------------------------------------------------------------------------
(* The timer's handler, and close().                                       *)

\* A bug: a timeout is logged and nothing else.
LogTimeout(w) ==
  /\ worker[w] = "idle"
  /\ \/ expired /\ expired' = FALSE /\ UNCHANGED stale
     \/ stale > 0 /\ stale' = stale - 1 /\ UNCHANGED expired
  /\ UNCHANGED <<clientVars, inbox, open, buf, current, body, next, closeAfter,
                 answered, op, opState, wait, aborted, worker>>

\* The wait's handler runs with success: the session is closed.
OnTimeout(w) ==
  /\ worker[w] = "idle"
  /\ \/ /\ expired
        /\ expired' = FALSE
        /\ Goto(w, "cancelTimer")
        /\ UNCHANGED stale
     \/ /\ stale > 0
        /\ stale' = stale - 1
        /\ Goto(w, "cancelTimerLate")
        /\ UNCHANGED expired
  /\ UNCHANGED <<clientVars, inbox, open, buf, current, body, next, closeAfter,
                 answered, op, opState, wait, aborted>>

\* A cancelled wait's handler does nothing.
OnAborted(w) ==
  /\ worker[w] = "idle"
  /\ aborted > 0
  /\ aborted' = aborted - 1
  /\ UNCHANGED <<clientVars, inbox, open, buf, current, body, next, closeAfter,
                 answered, op, opState, wait, expired, stale, worker>>

\* A bug: close() only cancels the timer.
CancelTimerOnly(w) ==
  /\ worker[w] \in {"cancelTimer", "cancelTimerLate"}
  /\ wait' = FALSE
  /\ aborted' = IF wait THEN aborted + 1 ELSE aborted
  /\ Goto(w, "idle")
  /\ UNCHANGED <<clientVars, inbox, open, buf, current, body, next, closeAfter,
                 answered, op, opState, expired, stale>>

\* close(): timer_.cancel()...
CancelTimer(w) ==
  /\ worker[w] \in {"cancelTimer", "cancelTimerLate"}
  /\ wait' = FALSE
  /\ aborted' = IF wait THEN aborted + 1 ELSE aborted
  /\ Goto(w, "closeSocket")
  /\ UNCHANGED <<clientVars, inbox, open, buf, current, body, next, closeAfter,
                 answered, op, opState, expired, stale>>

\* ...then shutdown and close of the socket, which abort the operation on it.
CloseSocket(w) ==
  /\ worker[w] = "closeSocket"
  /\ open' = FALSE
  /\ opState' = IF op # "none" /\ opState = "kernel" THEN "error" ELSE opState
  /\ Goto(w, "idle")
  /\ UNCHANGED <<clientVars, inbox, buf, current, body, next, closeAfter, answered,
                 op, timerVars>>

-----------------------------------------------------------------------------
KernelStep == ReadUntil \/ ReadExactly \/ OpFails

WorkerStep(w) ==
  \/ OnError(w) \/ OnBadHead(w) \/ OnHead(w) \/ OnBody(w) \/ OnWritten(w)
  \/ ArmTimer(w) \/ StartOp(w)
  \/ OnTimeout(w) \/ OnAborted(w) \/ CancelTimer(w) \/ CloseSocket(w)

Next ==
  \/ Send \/ Hangup("eof") \/ Hangup("reset") \/ WriteDone
  \/ KernelStep \/ TimerExpires
  \/ \E w \in Workers : WorkerStep(w)

Spec == Init /\ [][Next]_vars

\* The kernel delivers what has arrived, a timer nobody resets expires, and
\* the workers run queued handlers.  The client owes nothing: it may stop
\* sending or stop reading for ever.
FairSpec == /\ Spec
            /\ WF_vars(KernelStep)
            /\ WF_vars(TimerExpires)
            /\ \A w \in Workers : WF_vars(WorkerStep(w))

-----------------------------------------------------------------------------
(* Properties.                                                             *)

Closing(w) == worker[w] \in {"cancelTimer", "cancelTimerLate", "closeSocket"}
InIoHandler(w) == worker[w] \in {"arm", "startOp"}

\* What keeps the Session object alive: handlers that hold its shared_ptr.
Held == op # "none" \/ wait \/ expired \/ stale > 0 \/ aborted > 0
          \/ \E w \in Workers : worker[w] # "idle"

\* The chain of reads and writes is never doubled: no worker is about to start
\* an operation while another is outstanding or another worker is about to
\* start one (async_write calls on one socket must not overlap).
OneOperation ==
  \A w \in Workers : InIoHandler(w) =>
    op = "none" /\ \A v \in Workers \ {w} : ~InIoHandler(v)

\* Requests are cut where the client ended them: after a keep-alive response,
\* with pipelined data in the buffer, the next head is looked for exactly
\* where the last body ended (handleHead, doReadBody and their consume calls).
RequestsAreCut ==
  /\ op = "head" /\ opState = "ok" => HeadLength(buf) = 1
  /\ next = "write" /\ ~closeAfter =>
       /\ Len(body) = lengths[current]
       /\ \A k \in 1..Len(body) : body[k] = <<"body", current>>

\* Responses go out one per request, in the order of the requests.
AnsweredInOrder == \A k \in 1..Len(answered) : answered[k] = k

\* No read or write waits for the client without a timeout: while one is
\* outstanding on an open socket, a wait is pending, or its expiry is queued,
\* or a worker is closing the session already.
NoUntimedWait ==
  op # "none" /\ opState = "kernel" /\ open =>
    wait \/ expired \/ stale > 0 \/ \E w \in Workers : Closing(w)

\* While the server runs, a session ends by close() only: the last handler that
\* holds it has called it.
\* One that neither closes nor starts the next call would leave the end of a
\* kept connection to the destructor of the socket.
NotForgotten == ~Held => ~open

\* Liveness: a client that stalls at any point loses its connection, and once
\* it is closed the chain of handlers comes to its end and frees the session.
EventuallyFreed == <>[](~open /\ ~Held)

\* "The timeout is set again before every read and write, and the socket is
\* closed after the timeout" (http_server.cpp:87-89): a wait that a later
\* armTimer replaced does not close the session.
OnlyCurrentTimeoutCloses == \A w \in Workers : worker[w] # "cancelTimerLate"
=============================================================================
