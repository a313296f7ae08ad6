-------------------------- MODULE HttpSessionProof ---------------------------
(***************************************************************************)
(* For any workers and bounds: the chain of operations of a Session is     *)
(* never doubled, never waits without a timeout, and is never dropped      *)
(* open, whatever the client sends (IInv, of the control state alone); and *)
(* its requests are cut where the client ended them and answered in order  *)
(* (StreamInv, of the bytes that were not taken yet).                      *)
(***************************************************************************)
EXTENDS HttpSession, NaturalsInduction, WellFoundedInduction, SequenceTheorems, TLAPS

Ops == {"head", "body", "write"}

\* The types of the control state.
ControlOK ==
  /\ open \in BOOLEAN
  /\ next \in Ops \union {"none"}
  /\ op \in Ops \union {"none"}
  /\ wait \in BOOLEAN /\ expired \in BOOLEAN
  /\ stale \in Nat /\ aborted \in Nat
  /\ worker \in [Workers -> WorkerSteps]

\* A timeout is on its way, or a close.
Timed == wait \/ expired \/ stale > 0 \/ \E w \in Workers : Closing(w)

\* A handler that goes on has chosen its next operation.
KnowsNext == \A w \in Workers : InIoHandler(w) => next # "none"

\* armTimer comes before the operation, and nothing in between takes the
\* timeout away but a close.
ArmedFirst == \A w \in Workers : worker[w] = "startOp" /\ open => Timed

\* While the socket is open an operation is outstanding or a handler runs.
KeptAlive == open => op # "none" \/ \E w \in Workers : worker[w] # "idle"

IInv ==
  ControlOK /\ OneOperation /\ KnowsNext /\ ArmedFirst /\ NoUntimedWait /\ KeptAlive

-----------------------------------------------------------------------------
\* start() arms the timer before the first read.
LEMMA InitHolds == Init => IInv
<1> SUFFICES ASSUME Init PROVE IInv
  OBVIOUS
<1>1. /\ open = TRUE /\ next = "none" /\ op = "head" /\ wait = TRUE
      /\ expired = FALSE /\ stale = 0 /\ aborted = 0
      /\ worker = [w \in Workers |-> "idle"]
  BY DEF Init
<1>2. ControlOK
  BY <1>1 DEF ControlOK, Ops, WorkerSteps
<1>3. \A w \in Workers : worker[w] = "idle" /\ ~InIoHandler(w)
  BY <1>1 DEF InIoHandler
<1>4. OneOperation /\ KnowsNext /\ ArmedFirst
  BY <1>1, <1>3 DEF OneOperation, KnowsNext, ArmedFirst
<1>5. NoUntimedWait /\ KeptAlive
  BY <1>1 DEF NoUntimedWait, KeptAlive
<1> QED BY <1>2, <1>4, <1>5 DEF IInv

\* What the five completion handlers of reads and writes have in common: they
\* end the operation and either go on, with a next one, or close.
Handled(w) ==
  /\ worker[w] = "idle" /\ op # "none" /\ op' = "none"
  /\ \/ worker' = [worker EXCEPT ![w] = "arm"] /\ next' \in Ops
     \/ worker' = [worker EXCEPT ![w] = "cancelTimer"] /\ next' \in {next, "none"}
  /\ UNCHANGED <<open, opState, wait, expired, stale, aborted>>

\* Each completion handler is of that form.
LEMMA HandlersHandle ==
  ASSUME NEW w \in Workers,
         OnError(w) \/ OnBadHead(w) \/ OnHead(w) \/ OnBody(w) \/ OnWritten(w)
  PROVE  Handled(w)
<1>1. CASE OnError(w)
  BY <1>1 DEF OnError, Completed, Goto, Handled, timerVars
<1>2. CASE OnBadHead(w)
  BY <1>2 DEF OnBadHead, Respond, Completed, Goto, Handled, timerVars, Ops
<1>3. CASE OnHead(w)
  BY <1>3 DEF OnHead, Respond, Completed, Goto, Handled, timerVars, Ops
<1>4. CASE OnBody(w)
  BY <1>4 DEF OnBody, Respond, Completed, Goto, Handled, timerVars, Ops
<1>5. CASE OnWritten(w)
  BY <1>5 DEF OnWritten, Completed, Goto, Handled, timerVars, Ops
<1> QED BY <1>1, <1>2, <1>3, <1>4, <1>5

\* The invariant survives a completion handler: no other worker was in one.
LEMMA HandledKeeps ==
  ASSUME IInv, NEW w \in Workers, Handled(w)
  PROVE  IInv'
<1> USE DEF IInv, Handled
<1>1. ControlOK'
  BY DEF ControlOK, Ops, WorkerSteps
<1>2. worker'[w] \in {"arm", "cancelTimer"} /\ \A v \in Workers \ {w} : worker'[v] = worker[v]
  BY DEF ControlOK
<1>3. \A v \in Workers \ {w} : ~InIoHandler(v)
  BY DEF OneOperation
<1>4. OneOperation'
  BY <1>2, <1>3 DEF OneOperation, InIoHandler
<1>5. KnowsNext'
  <2>1. CASE worker'[w] = "arm"
    BY <1>2, <1>3, <2>1 DEF KnowsNext, InIoHandler, Ops, ControlOK
  <2>2. CASE worker'[w] = "cancelTimer"
    BY <1>2, <1>3, <2>2 DEF KnowsNext, InIoHandler
  <2> QED BY <1>2, <2>1, <2>2
<1>6. ArmedFirst'
  BY <1>2, <1>3 DEF ArmedFirst, InIoHandler
<1>7. NoUntimedWait'
  BY DEF NoUntimedWait
<1>8. KeptAlive'
  BY <1>2 DEF KeptAlive
<1> QED BY <1>1, <1>4, <1>5, <1>6, <1>7, <1>8

\* armTimer leaves a pending wait, so that its handler may start the operation.
LEMMA ArmKeeps ==
  ASSUME IInv, NEW w \in Workers, ArmTimer(w)
  PROVE  IInv'
<1> USE DEF IInv, ArmTimer, Goto
<1>1. ControlOK'
  <2>1. worker' \in [Workers -> WorkerSteps]
    BY DEF ControlOK, WorkerSteps
  <2>2. stale' \in Nat /\ aborted' \in Nat
    BY DEF ControlOK
  <2>3. wait' \in BOOLEAN /\ expired' \in BOOLEAN
    BY DEF ControlOK
  <2>4. open' \in BOOLEAN /\ next' \in Ops \union {"none"} /\ op' \in Ops \union {"none"}
    BY DEF ControlOK
  <2> QED BY <2>1, <2>2, <2>3, <2>4 DEF ControlOK
<1>2. worker'[w] = "startOp" /\ \A v \in Workers \ {w} : worker'[v] = worker[v]
  BY DEF ControlOK
<1>3. OneOperation'
  BY <1>2 DEF OneOperation, InIoHandler
<1>4. KnowsNext'
  BY <1>2 DEF KnowsNext, InIoHandler
<1>5. ArmedFirst' /\ NoUntimedWait'
  BY DEF ArmedFirst, NoUntimedWait, Timed
<1>6. KeptAlive'
  BY <1>2 DEF KeptAlive
<1> QED BY <1>1, <1>3, <1>4, <1>5, <1>6

\* The operation starts with its timeout set, and takes over from the handler.
LEMMA StartKeeps ==
  ASSUME IInv, NEW w \in Workers, StartOp(w)
  PROVE  IInv'
<1> USE DEF IInv, StartOp, Goto, timerVars
<1>1. ControlOK'
  BY DEF ControlOK, WorkerSteps
<1>2. worker'[w] = "idle" /\ \A v \in Workers \ {w} : worker'[v] = worker[v]
  BY DEF ControlOK
<1>3. \A v \in Workers : ~InIoHandler(v)'
  BY <1>2 DEF OneOperation, InIoHandler
<1>4. OneOperation' /\ KnowsNext' /\ ArmedFirst'
  BY <1>3 DEF OneOperation, KnowsNext, ArmedFirst, InIoHandler
<1>5. op' # "none"
  BY DEF KnowsNext, InIoHandler
<1>6. NoUntimedWait'
  <2>1. open => Timed
    BY DEF ArmedFirst
  <2>2. \A v \in Workers : Closing(v) => Closing(v)'
    BY <1>2 DEF Closing
  <2> QED BY <2>1, <2>2 DEF NoUntimedWait, Timed
<1>7. KeptAlive'
  BY <1>5 DEF KeptAlive
<1> QED BY <1>1, <1>4, <1>6, <1>7

\* A timeout becomes a close before anything else can take it away.
LEMMA TimeoutKeeps ==
  ASSUME IInv, NEW w \in Workers, OnTimeout(w)
  PROVE  IInv'
<1> USE DEF IInv, OnTimeout, Goto
<1>1. ControlOK'
  <2>1. worker' \in [Workers -> WorkerSteps]
    BY DEF ControlOK, WorkerSteps
  <2>2. stale' \in Nat /\ aborted' \in Nat
    BY DEF ControlOK
  <2>3. wait' \in BOOLEAN /\ expired' \in BOOLEAN
    BY DEF ControlOK
  <2>4. open' \in BOOLEAN /\ next' \in Ops \union {"none"} /\ op' \in Ops \union {"none"}
    BY DEF ControlOK
  <2> QED BY <2>1, <2>2, <2>3, <2>4 DEF ControlOK
<1>2. /\ worker'[w] \in {"cancelTimer", "cancelTimerLate"}
      /\ \A v \in Workers \ {w} : worker'[v] = worker[v]
  BY DEF ControlOK
<1>3. OneOperation' /\ KnowsNext'
  BY <1>2 DEF OneOperation, KnowsNext, InIoHandler
<1>4. ArmedFirst' /\ NoUntimedWait'
  BY <1>2 DEF ArmedFirst, NoUntimedWait, Timed, Closing
<1>5. KeptAlive'
  BY <1>2 DEF KeptAlive
<1> QED BY <1>1, <1>3, <1>4, <1>5

\* close() first cancels the wait; the worker that does is still closing.
LEMMA CancelKeeps ==
  ASSUME IInv, NEW w \in Workers, CancelTimer(w)
  PROVE  IInv'
<1> USE DEF IInv, CancelTimer, Goto
<1>1. ControlOK'
  <2>1. worker' \in [Workers -> WorkerSteps]
    BY DEF ControlOK, WorkerSteps
  <2>2. stale' \in Nat /\ aborted' \in Nat
    BY DEF ControlOK
  <2>3. wait' \in BOOLEAN /\ expired' \in BOOLEAN
    BY DEF ControlOK
  <2>4. open' \in BOOLEAN /\ next' \in Ops \union {"none"} /\ op' \in Ops \union {"none"}
    BY DEF ControlOK
  <2> QED BY <2>1, <2>2, <2>3, <2>4 DEF ControlOK
<1>2. worker'[w] = "closeSocket" /\ \A v \in Workers \ {w} : worker'[v] = worker[v]
  BY DEF ControlOK
<1>3. OneOperation' /\ KnowsNext'
  BY <1>2 DEF OneOperation, KnowsNext, InIoHandler
<1>4. ArmedFirst' /\ NoUntimedWait'
  BY <1>2 DEF ArmedFirst, NoUntimedWait, Timed, Closing
<1>5. KeptAlive'
  BY <1>2 DEF KeptAlive
<1> QED BY <1>1, <1>3, <1>4, <1>5

\* After the close nothing is asked of the timer or of the handlers.
LEMMA CloseKeeps ==
  ASSUME IInv, NEW w \in Workers, CloseSocket(w)
  PROVE  IInv'
<1> USE DEF IInv, CloseSocket, Goto, timerVars
<1>1. ControlOK'
  BY DEF ControlOK, WorkerSteps
<1>2. worker'[w] = "idle" /\ \A v \in Workers \ {w} : worker'[v] = worker[v]
  BY DEF ControlOK
<1>3. OneOperation' /\ KnowsNext'
  BY <1>2 DEF OneOperation, KnowsNext, InIoHandler
<1>4. ArmedFirst' /\ NoUntimedWait' /\ KeptAlive'
  BY DEF ArmedFirst, NoUntimedWait, KeptAlive
<1> QED BY <1>1, <1>3, <1>4

\* The client, the kernel and an expiring timer touch neither the handlers nor
\* the choice of the next operation.
LEMMA OthersKeep ==
  ASSUME IInv,
         \/ Send \/ Hangup("eof") \/ Hangup("reset") \/ WriteDone \/ KernelStep
         \/ TimerExpires \/ \E w \in Workers : OnAborted(w)
  PROVE  IInv'
<1>1. /\ UNCHANGED <<open, next, op, stale, worker>>
      /\ opState' = "kernel" => opState = "kernel"
      /\ aborted' \in Nat
      /\ UNCHANGED <<wait, expired>> \/ (wait' = FALSE /\ expired' = TRUE)
  BY DEF Send, Hangup, WriteDone, KernelStep, ReadUntil, ReadExactly, OpFails, TimerExpires,
         OnAborted, clientVars, timerVars, IInv, ControlOK
<1>2. ControlOK'
  BY <1>1 DEF IInv, ControlOK
<1>3. (OneOperation /\ KnowsNext /\ KeptAlive)'
  BY <1>1 DEF IInv, OneOperation, KnowsNext, KeptAlive, InIoHandler
<1>4. Timed => Timed'
  BY <1>1 DEF Timed, Closing
<1>5. (ArmedFirst /\ NoUntimedWait)'
  BY <1>1, <1>4 DEF IInv, ArmedFirst, NoUntimedWait, Timed, Closing
<1> QED BY <1>2, <1>3, <1>5 DEF IInv

\* Every step keeps the invariant.
LEMMA NextKeeps == IInv /\ [Next]_vars => IInv'
<1> SUFFICES ASSUME IInv, [Next]_vars PROVE IInv'
  OBVIOUS
<1>1. CASE UNCHANGED vars
  BY <1>1 DEF vars, IInv, ControlOK, OneOperation, KnowsNext, ArmedFirst, NoUntimedWait,
              KeptAlive, Timed, InIoHandler, Closing
<1>2. CASE \E w \in Workers : WorkerStep(w)
  <2> PICK w \in Workers : WorkerStep(w)
    BY <1>2
  <2>1. CASE OnError(w) \/ OnBadHead(w) \/ OnHead(w) \/ OnBody(w) \/ OnWritten(w)
    BY <2>1, HandlersHandle, HandledKeeps
  <2>2. CASE ArmTimer(w)     BY <2>2, ArmKeeps
  <2>3. CASE StartOp(w)      BY <2>3, StartKeeps
  <2>4. CASE OnTimeout(w)    BY <2>4, TimeoutKeeps
  <2>5. CASE OnAborted(w)    BY <2>5, OthersKeep
  <2>6. CASE CancelTimer(w)  BY <2>6, CancelKeeps
  <2>7. CASE CloseSocket(w)  BY <2>7, CloseKeeps
  <2> QED BY <2>1, <2>2, <2>3, <2>4, <2>5, <2>6, <2>7 DEF WorkerStep
<1>3. CASE Send \/ Hangup("eof") \/ Hangup("reset") \/ WriteDone \/ KernelStep \/ TimerExpires
  BY <1>3, OthersKeep
<1> QED BY <1>1, <1>2, <1>3 DEF Next

-----------------------------------------------------------------------------
\* The inductive invariant of a session.
THEOREM SessionInvariant == Spec => []IInv
  BY InitHolds, NextKeeps, PTL DEF Spec

\* Two operations of one session never overlap, for any number of workers,
\* though the io_context has no strand (Session's handlers).
THEOREM OperationsNeverOverlap == Spec => []OneOperation
<1>1. IInv => OneOperation
  BY DEF IInv
<1> QED BY <1>1, SessionInvariant, PTL

\* A read or write on an open socket always has a timeout or a close to come
\* (armTimer, close).
THEOREM WaitsAreTimed == Spec => []NoUntimedWait
<1>1. IInv => NoUntimedWait
  BY DEF IInv
<1> QED BY <1>1, SessionInvariant, PTL

\* The last handler that holds a session has closed its socket (close), so the
\* destructor never ends a kept connection.
THEOREM NeverForgotten == Spec => []NotForgotten
<1>1. IInv => NotForgotten
  BY DEF IInv, KeptAlive, NotForgotten, Held
<1> QED BY <1>1, SessionInvariant, PTL
-----------------------------------------------------------------------------
(* The byte stream.  What the session has not taken yet is what the client *)
(* sent, from some unit on: in it every head is followed by its body and   *)
(* by the next head, until it ends.                                        *)

Unread == IF peer = "reset" THEN buf ELSE buf \o (inbox \o stream)

\* After position k of s come m units of the body of request i, and then the
\* next head, as far as s goes.
Goes(s, k, i, m) ==
  /\ \A j \in 1..m : k + j <= Len(s) => s[k + j] = <<"body", i>>
  /\ k + m + 1 <= Len(s) => s[k + m + 1] = <<"head", i + 1>>

Cut(s, ls) ==
  \A k \in 1..Len(s) : s[k][1] = "head" =>
    s[k][2] \in 1..Len(ls) /\ Goes(s, k, s[k][2], ls[s[k][2]])

\* The session is going to look for a head, or for the rest of a body.
Heading == op = "head" \/ next = "head" \/ ("write" \in {op, next} /\ ~closeAfter)
InBody == "body" \in {op, next}

BodyIsItsOwn == \A k \in 1..Len(body) : body[k] = <<"body", current>>

DataOK ==
  /\ lengths \in Seq(0..MaxBody)
  /\ stream \in Seq(Units) /\ inbox \in Seq(Units) /\ buf \in Seq(Units)
  /\ body \in Seq(Units)
  /\ peer \in {"open", "eof", "reset"}
  /\ current \in 0..MaxRequests
  /\ closeAfter \in BOOLEAN
  /\ answered \in Seq(0..MaxRequests)
  /\ opState \in {"kernel", "ok", "error"}

\* The stream is at the head that comes next, and everything before it was
\* answered.
HeadingInv == Heading => Goes(Unread, 0, current, 0) /\ Len(answered) = current

\* The rest of the body comes first, and the buffer holds no more than that.
BodyInv ==
  InBody =>
    /\ current \in 1..Len(lengths) /\ Len(body) < lengths[current] /\ BodyIsItsOwn
    /\ Len(buf) <= Remaining /\ Goes(Unread, 0, current, Remaining)
    /\ Len(answered) = current - 1

\* A read that succeeded has put into the buffer what its handler takes out.
ReadInv ==
  /\ op = "body" /\ opState = "ok" => Len(buf) = Remaining
  /\ op = "head" /\ opState = "ok" => HasHead(buf)

\* A request is answered, and the connection kept, with its whole body.
KeptInv == next = "write" /\ ~closeAfter => Len(body) = lengths[current] /\ BodyIsItsOwn

StreamInv ==
  /\ DataOK
  /\ Cut(Unread, lengths)
  /\ peer = "reset" => inbox = <<>>
  /\ HeadingInv /\ BodyInv /\ ReadInv /\ KeptInv /\ AnsweredInOrder

-----------------------------------------------------------------------------
\* t is what s has behind its first d units, or the beginning of that.
PartOf(t, s, d) == Len(t) + d <= Len(s) /\ \A k \in 1..Len(t) : t[k] = s[k + d]

\* A part of a stream goes on as the stream does.
LEMMA PartGoesOn ==
  ASSUME NEW s \in Seq(Units), NEW t \in Seq(Units), NEW d \in Nat, PartOf(t, s, d),
         NEW k \in Nat, NEW i \in Nat, NEW m \in Nat, Goes(s, d + k, i, m)
  PROVE  Goes(t, k, i, m)
<1>1. PICK x, y \in Nat : x = Len(s) /\ y = Len(t)
  OBVIOUS
<1>2. y + d <= x /\ \A j \in 1..y : t[j] = s[j + d]
  BY <1>1 DEF PartOf
<1>3. ASSUME NEW j \in 1..m, k + j <= y PROVE t[k + j] = <<"body", i>>
  <2>1. k + j \in 1..y /\ (d + k) + j <= x /\ (k + j) + d = (d + k) + j
    BY <1>2, <1>3
  <2>2. s[(d + k) + j] = <<"body", i>>
    BY <1>1, <2>1 DEF Goes
  <2> QED  BY <1>2, <2>1, <2>2
<1>4. ASSUME k + m + 1 <= y PROVE t[k + m + 1] = <<"head", i + 1>>
  <2>1. k + m + 1 \in 1..y /\ (d + k) + m + 1 <= x /\ (k + m + 1) + d = (d + k) + m + 1
    BY <1>2, <1>4
  <2>2. s[(d + k) + m + 1] = <<"head", i + 1>>
    BY <1>1, <2>1 DEF Goes
  <2> QED  BY <1>2, <2>1, <2>2
<1> QED  BY <1>1, <1>3, <1>4 DEF Goes

LEMMA PartIsCut ==
  ASSUME NEW s \in Seq(Units), NEW t \in Seq(Units), NEW d \in Nat, PartOf(t, s, d),
         NEW ls \in Seq(0..MaxBody), Cut(s, ls)
  PROVE  Cut(t, ls)
<1> SUFFICES ASSUME NEW k \in 1..Len(t), t[k][1] = "head"
             PROVE  t[k][2] \in 1..Len(ls) /\ Goes(t, k, t[k][2], ls[t[k][2]])
  BY DEF Cut
<1>1. k \in Nat /\ k + d \in 1..Len(s) /\ t[k] = s[k + d] /\ k + d = d + k
  <2>1. PICK x, y \in Nat : x = Len(s) /\ y = Len(t)
    OBVIOUS
  <2>2. y + d <= x /\ k \in 1..y
    BY <2>1 DEF PartOf
  <2>3. k \in Nat /\ k + d \in 1..x /\ k + d = d + k
    BY <2>1, <2>2
  <2> QED  BY <2>1, <2>3 DEF PartOf
<1>2. PICK i : i = t[k][2]
  OBVIOUS
<1>3. i \in 1..Len(ls) /\ Goes(s, d + k, i, ls[i])
  BY <1>1, <1>2 DEF Cut
<1>4. i \in Nat /\ ls[i] \in Nat
  BY <1>3, BoundAssumption
<1>5. Goes(t, k, i, ls[i])
  BY <1>1, <1>3, <1>4, PartGoesOn
<1> QED  BY <1>2, <1>3, <1>5

\* The buffer is the beginning of what is unread, and what is taken out of it
\* is taken off that.
LEMMA UnreadIs ==
  ASSUME DataOK
  PROVE  /\ Unread \in Seq(Units)
         /\ Len(buf) <= Len(Unread) /\ \A k \in 1..Len(buf) : buf[k] = Unread[k]
<1>1. CASE peer = "reset"
  BY <1>1 DEF DataOK, Unread
<1>2. CASE peer # "reset"
  <2>1. buf \in Seq(Units) /\ inbox \o stream \in Seq(Units) /\ Unread = buf \o (inbox \o stream)
    BY <1>2, SMTT(30) DEF DataOK, Unread
  <2> QED  BY <2>1
<1> QED  BY <1>1, <1>2

LEMMA Behind ==
  ASSUME NEW b \in Seq(Units), NEW n \in Nat, n = Len(b), NEW d \in 0..n
  PROVE  \E c \in Seq(Units) : /\ c = SubSeq(b, d + 1, n) /\ Len(c) = n - d
                              /\ \A k \in 1..(n - d) : c[k] = b[k + d]
<1>1. PICK c : c = SubSeq(b, d + 1, n)
  OBVIOUS
<1>2. d + 1 \in 1..(n + 1) /\ n \in (d + 1) - 1 .. n /\ n - (d + 1) + 1 = n - d
  OBVIOUS
<1>3. c \in Seq(Units)
  BY <1>1, <1>2, SubSeqProperties
<1>4. Len(c) = n - d
  BY <1>1
<1>5. ASSUME NEW k \in 1..(n - d) PROVE c[k] = b[k + d]
  BY <1>1
<1> QED  BY <1>1, <1>3, <1>4, <1>5, Zenon

LEMMA FrontDropped ==
  ASSUME NEW b \in Seq(Units), NEW x \in Seq(Units), NEW d \in 0..Len(b)
  PROVE  PartOf(SubSeq(b, d + 1, Len(b)) \o x, b \o x, d)
<1>1. PICK n, m \in Nat : n = Len(b) /\ m = Len(x)
  OBVIOUS
<1>2. PICK c \in Seq(Units) : /\ c = SubSeq(b, d + 1, n) /\ Len(c) = n - d
                             /\ \A k \in 1..(n - d) : c[k] = b[k + d]
  BY <1>1, Behind
<1>3. d \in 0..n /\ Len(c) = n - d /\ \A k \in 1..(n - d) : c[k] = b[k + d]
  BY <1>1, <1>2
<1>4. PICK y, z : y = b \o x /\ z = c \o x
  OBVIOUS
<1>5. Len(y) = n + m /\ \A k \in 1..(n + m) : y[k] = IF k <= n THEN b[k] ELSE x[k - n]
  BY <1>1, <1>4, ConcatProperties
<1>6. PICK e \in Nat : e = n - d
  BY <1>3
<1>7. Len(z) = e + m /\ \A k \in 1..(e + m) : z[k] = IF k <= e THEN c[k] ELSE x[k - e]
  <2>1. PICK f : f = c
    OBVIOUS
  <2>2. f \in Seq(Units) /\ Len(f) = e /\ z = f \o x
    BY <1>2, <1>3, <1>4, <1>6, <2>1, Zenon
  <2>3. Len(z) = e + m /\ \A k \in 1..(e + m) : z[k] = IF k <= e THEN f[k] ELSE x[k - e]
    BY <1>1, <2>2, ConcatProperties
  <2> QED  BY <2>1, <2>3
<1>8. ASSUME NEW k \in 1..(e + m) PROVE z[k] = y[k + d]
  <2>1. k + d \in 1..(n + m) /\ (k <= e <=> k + d <= n) /\ k + d - n = k - e
    BY <1>3, <1>6
  <2>2. CASE k <= e
    <3>1. z[k] = c[k] /\ y[k + d] = b[k + d] /\ k \in 1..(n - d)
      BY <1>5, <1>6, <1>7, <2>1, <2>2
    <3> QED  BY <1>3, <3>1
  <2>3. CASE ~(k <= e)
    <3>1. PICK j : j = k + d
      OBVIOUS
    <3>2. j \in 1..(n + m) /\ ~(j <= n) /\ j - n = k - e
      BY <2>1, <2>3, <3>1
    <3>3. y[j] = x[j - n] /\ z[k] = x[k - e]
      BY <1>5, <1>7, <2>3, <3>2
    <3> QED  BY <3>1, <3>2, <3>3
  <2> QED  BY <2>2, <2>3
<1>9. (e + m) + d <= n + m
  BY <1>3, <1>6
<1>10. PartOf(z, y, d)
  BY <1>5, <1>7, <1>8, <1>9 DEF PartOf
<1> QED  BY <1>1, <1>2, <1>4, <1>10, Zenon

LEMMA TakenOff ==
  ASSUME DataOK, NEW d \in 0..Len(buf), buf' = SubSeq(buf, d + 1, Len(buf)),
         UNCHANGED <<inbox, stream, peer>>
  PROVE  PartOf(Unread', Unread, d) /\ buf' \in Seq(Units)
<1>1. buf \in Seq(Units) /\ inbox \o stream \in Seq(Units) /\ d \in Nat
  BY DEF DataOK
<1>2. buf' \in Seq(Units) /\ PartOf(buf', buf, d)
  <2>1. PICK b \in Seq(Units) : b = buf
    BY <1>1
  <2>2. PICK n \in Nat : n = Len(b)
    OBVIOUS
  <2>3. PICK c \in Seq(Units) : /\ c = SubSeq(b, d + 1, n) /\ Len(c) = n - d
                               /\ \A k \in 1..(n - d) : c[k] = b[k + d]
    BY <2>1, <2>2, Behind
  <2>4. d <= n
    BY <2>1, <2>2
  <2>5. PartOf(c, b, d)
    BY <2>2, <2>3, <2>4 DEF PartOf
  <2> QED  BY <2>1, <2>2, <2>3, <2>5, Zenon
<1>3. CASE peer = "reset"
  BY <1>2, <1>3 DEF Unread
<1>4. CASE peer # "reset"
  <2>1. PartOf(buf' \o (inbox \o stream), buf \o (inbox \o stream), d)
    BY <1>1, FrontDropped
  <2> QED  BY <1>2, <1>4, <2>1 DEF Unread
<1> QED  BY <1>3, <1>4


\* The client's and the kernel's steps move units along or lose the last ones.
LEMMA WholeIsPart ==
  ASSUME NEW s \in Seq(Units)
  PROVE  PartOf(s, s, 0)
<1>1. PICK n \in Nat : n = Len(s)
  OBVIOUS
<1>2. \A k \in 1..n : k + 0 = k
  OBVIOUS
<1>3. n + 0 <= n
  OBVIOUS
<1> QED  BY <1>1, <1>2, <1>3 DEF PartOf

LEMMA SendMoves ==
  ASSUME DataOK, Send
  PROVE  DataOK' /\ Unread' = Unread /\ UNCHANGED <<lengths, peer, buf>>
<1>1. /\ stream \in Seq(Units) /\ inbox \in Seq(Units) /\ stream # <<>> /\ peer = "open"
      /\ stream' = Tail(stream) /\ inbox' = Append(inbox, Head(stream))
      /\ UNCHANGED <<lengths, peer, buf, body, current, closeAfter, answered, opState>>
  BY DEF DataOK, Send
<1>2. Head(stream) \in Units /\ stream' \in Seq(Units) /\ inbox' \in Seq(Units)
  BY <1>1, HeadTailProperties, AppendProperties
<1>3. inbox' \o stream' = inbox \o stream
  <2>1. PICK h, r : h = Head(stream) /\ r = Tail(stream)
    OBVIOUS
  <2>2. h \in Units /\ r \in Seq(Units) /\ <<h>> \in Seq(Units)
    BY <1>1, <1>2, <2>1
  <2>3. Append(inbox, h) = inbox \o <<h>>
    BY <1>1, <2>2, AppendIsConcat
  <2>4. stream = <<h>> \o r
    BY <1>1, <2>1
  <2>5. (inbox \o <<h>>) \o r = inbox \o (<<h>> \o r)
    BY <1>1, <2>2, ConcatAssociative
  <2> QED  BY <1>1, <2>1, <2>3, <2>4, <2>5
<1>4. Unread' = Unread
  BY <1>1, <1>3 DEF Unread
<1>5. DataOK'
  BY <1>1, <1>2 DEF DataOK
<1> QED  BY <1>1, <1>4, <1>5

LEMMA HangupLoses ==
  ASSUME DataOK, NEW how \in {"eof", "reset"}, Hangup(how)
  PROVE  /\ DataOK' /\ PartOf(Unread', Unread, 0) /\ UNCHANGED <<lengths, buf>>
         /\ peer' = "reset" => inbox' = <<>>
<1>1. /\ peer = "open" /\ peer' = how /\ inbox' = IF how = "reset" THEN <<>> ELSE inbox
      /\ UNCHANGED <<lengths, stream, buf, body, current, closeAfter, answered, opState>>
  BY DEF Hangup
<1>2. DataOK'
  BY <1>1 DEF DataOK
<1>3. Unread \in Seq(Units) /\ Len(buf) <= Len(Unread) /\ \A k \in 1..Len(buf) : buf[k] = Unread[k]
  BY UnreadIs
<1>4. CASE how = "reset"
  <2>1. PartOf(buf, Unread, 0)
    <3>1. PICK n, m \in Nat : n = Len(buf) /\ m = Len(Unread)
      BY <1>3 DEF DataOK
    <3>2. n + 0 <= m /\ \A k \in 1..n : k + 0 = k
      BY <1>3, <3>1
    <3> QED  BY <1>3, <3>1, <3>2 DEF PartOf
  <2>2. Unread' = buf
    BY <1>1, <1>4 DEF Unread
  <2> QED  BY <1>1, <1>2, <1>4, <2>1, <2>2
<1>5. CASE how = "eof"
  <2>1. Unread' = Unread
    BY <1>1, <1>5 DEF Unread
  <2> QED  BY <1>1, <1>2, <1>3, <1>5, <2>1, WholeIsPart
<1> QED  BY <1>4, <1>5

LEMMA ReadUntilMoves ==
  ASSUME DataOK, peer = "reset" => inbox = <<>>, ReadUntil
  PROVE  /\ DataOK' /\ Unread' = Unread /\ inbox' = <<>> /\ UNCHANGED <<lengths, peer>>
         /\ op' = "head" /\ opState' = "ok" => HasHead(buf')
<1>1. /\ op' = "head" /\ inbox # <<>> /\ buf' = buf \o inbox /\ inbox' = <<>>
      /\ opState' = IF HasHead(buf') THEN "ok" ELSE "kernel"
      /\ UNCHANGED <<lengths, stream, peer, body, current, closeAfter, answered>>
  BY DEF ReadUntil, clientVars
<1>2. buf \in Seq(Units) /\ inbox \in Seq(Units) /\ stream \in Seq(Units)
  BY DEF DataOK
<1>3. buf' \in Seq(Units) /\ inbox' \in Seq(Units)
  BY <1>1, <1>2
<1>4. Unread' = Unread
  <2>1. (buf \o inbox) \o stream = buf \o (inbox \o stream)
    BY <1>2, ConcatAssociative
  <2>2. <<>> \o stream = stream
    BY <1>2, ConcatEmptySeq
  <2> QED  BY <1>1, <2>1, <2>2 DEF Unread
<1>5. opState' \in {"kernel", "ok"} /\ (opState' = "ok" => HasHead(buf'))
  BY <1>1
<1>6. DataOK'
  BY <1>1, <1>3, <1>5 DEF DataOK
<1> QED  BY <1>1, <1>4, <1>5, <1>6

LEMMA SplitsAt ==
  ASSUME NEW s \in Seq(Units), NEW x \in Nat, x = Len(s), NEW n \in 0..x
  PROVE  \E p, q \in Seq(Units) : /\ p = SubSeq(s, 1, n) /\ q = SubSeq(s, n + 1, x)
                                 /\ Len(p) = n /\ p \o q = s
<1>1. PICK q \in Seq(Units) : /\ q = SubSeq(s, n + 1, x) /\ Len(q) = x - n
                              /\ \A k \in 1..(x - n) : q[k] = s[k + n]
  BY Behind, Zenon
<1>2. PICK p : p = SubSeq(s, 1, n)
  OBVIOUS
<1>3. p \in Seq(Units)
  <2>1. \A i \in 1..n : s[i] \in Units
    OBVIOUS
  <2> QED  BY <1>2, <2>1, SubSeqProperties
<1>4. Len(p) = n
  BY <1>2
<1>5. SubSeq(s, 1, n) \o SubSeq(s, n + 1, x) = SubSeq(s, 1, x)
  <2>1. 1 \in 1..x + 1 /\ n \in (1 - 1)..x /\ x \in n..x
    OBVIOUS
  <2> QED  BY <2>1, ConcatAdjacentSubSeq
<1>6. SubSeq(s, 1, x) = s
  BY SubSeqFull
<1> QED  BY <1>1, <1>2, <1>3, <1>4, <1>5, <1>6, Zenon

LEMMA Regroups ==
  ASSUME NEW a \in Seq(Units), NEW p \in Seq(Units), NEW q \in Seq(Units), NEW t \in Seq(Units)
  PROVE  (a \o p) \o (q \o t) = a \o ((p \o q) \o t)
<1>1. q \o t \in Seq(Units)
  BY ConcatProperties
<1>2. (p \o q) \o t = p \o (q \o t)
  BY ConcatAssociative
<1>3. \A u \in Seq(Units) : (a \o p) \o u = a \o (p \o u)
  BY ConcatAssociative
<1> QED  BY <1>1, <1>2, <1>3, Zenon

\* transfer_exactly takes what has come, and never more than the body lacks.
LEMMA ReadExactlyMoves ==
  ASSUME DataOK, peer = "reset" => inbox = <<>>, ReadExactly,
         Remaining \in Nat, Len(buf) <= Remaining
  PROVE  /\ DataOK' /\ Unread' = Unread /\ UNCHANGED <<lengths, peer>>
         /\ op' = "body" /\ Len(buf') <= Remaining /\ (opState' = "ok" => Len(buf') = Remaining)
<1>1. PICK b, x \in Nat : b = Len(buf) /\ x = Len(inbox)
  BY DEF DataOK
<1>2. PICK r \in Nat : r = Remaining /\ b <= r
  BY <1>1
<1>3. PICK n : n = IF x < r - b THEN x ELSE r - b
  OBVIOUS
<1>4. /\ op' = "body" /\ inbox # <<>> /\ buf' = buf \o SubSeq(inbox, 1, n)
      /\ inbox' = SubSeq(inbox, n + 1, x)
      /\ opState' = IF n = r - b THEN "ok" ELSE "kernel"
      /\ UNCHANGED <<lengths, stream, peer, body, current, closeAfter, answered>>
  BY <1>1, <1>2, <1>3 DEF ReadExactly, clientVars
<1>5. n \in 0..x /\ b + n <= r /\ (n = r - b => b + n = r)
  BY <1>2, <1>3
<1>6. buf \in Seq(Units) /\ inbox \in Seq(Units) /\ stream \in Seq(Units)
  BY DEF DataOK
<1>7. PICK p, q \in Seq(Units) : /\ p = SubSeq(inbox, 1, n) /\ q = SubSeq(inbox, n + 1, x)
                                /\ Len(p) = n /\ p \o q = inbox
  BY <1>1, <1>5, <1>6, SplitsAt, ZenonT(40)
<1>10. buf' = buf \o p /\ inbox' = q /\ buf' \in Seq(Units) /\ inbox' \in Seq(Units) /\ Len(buf') = b + n
  BY <1>1, <1>4, <1>6, <1>7, ConcatProperties
<1>11. Unread' = Unread
  <2>1. (buf \o p) \o (q \o stream) = buf \o ((p \o q) \o stream)
    <3>1. \A a, t \in Seq(Units) : (a \o p) \o (q \o t) = a \o ((p \o q) \o t)
      BY Regroups
    <3> QED  BY <1>6, <3>1, Zenon
  <2>3. peer # "reset" /\ peer' # "reset"
    BY <1>4
  <2> QED  BY <1>4, <1>7, <1>10, <2>1, <2>3 DEF Unread
<1>12. opState' \in {"kernel", "ok"}
  BY <1>4
<1>13. DataOK'
  BY <1>4, <1>10, <1>12 DEF DataOK
<1>14. Len(buf') <= Remaining /\ (opState' = "ok" => Len(buf') = Remaining)
  BY <1>2, <1>4, <1>5, <1>10
<1> QED  BY <1>4, <1>11, <1>13, <1>14

-----------------------------------------------------------------------------
\* What is unread is a sequence, before and after a step.
LEMMA UnreadTyped ==
  ASSUME DataOK, DataOK'
  PROVE  Unread \in Seq(Units) /\ Unread' \in Seq(Units)
<1>1. Unread \in Seq(Units)
  BY UnreadIs
<1>2. Unread' \in Seq(Units)
  <2>1. CASE peer' = "reset"
    BY <2>1 DEF DataOK, Unread
  <2>2. CASE peer' # "reset"
    <3>1. buf' \in Seq(Units) /\ inbox' \in Seq(Units) /\ stream' \in Seq(Units)
      BY DEF DataOK
    <3>2. Unread' = buf' \o (inbox' \o stream')
      BY <2>2 DEF Unread
    <3> QED  BY <3>1, <3>2
  <2> QED  BY <2>1, <2>2
<1> QED  BY <1>1, <1>2

\* The stream of the next state is cut as this one's.
LEMMA StaysCut ==
  ASSUME StreamInv, DataOK', lengths' = lengths, NEW d \in Nat, PartOf(Unread', Unread, d)
  PROVE  Cut(Unread, lengths)'
<1>1. DataOK /\ Cut(Unread, lengths) /\ lengths \in Seq(0..MaxBody)
  BY DEF StreamInv, DataOK
<1>2. PICK s, t \in Seq(Units) : s = Unread /\ t = Unread'
  BY <1>1, UnreadTyped
<1>3. Cut(t, lengths)
  BY <1>1, <1>2, PartIsCut
<1> QED  BY <1>2, <1>3, Zenon

\* And goes on as this one does behind the d units that were taken.
LEMMA StaysAt ==
  ASSUME StreamInv, DataOK', NEW d \in Nat, PartOf(Unread', Unread, d),
         NEW i \in Nat, NEW m \in Nat, Goes(Unread, d, i, m)
  PROVE  Goes(Unread', 0, i, m)
<1>1. DataOK
  BY DEF StreamInv
<1>2. PICK s, t \in Seq(Units) : s = Unread /\ t = Unread'
  BY <1>1, UnreadTyped
<1>3. Goes(s, d + 0, i, m)
  <2>1. d + 0 = d
    OBVIOUS
  <2> QED  BY <1>2, <2>1
<1>4. PartOf(t, s, d)
  BY <1>2
<1>5. Goes(t, 0, i, m)
  BY <1>3, <1>4, PartGoesOn
<1> QED  BY <1>2, <1>5

\* What a step has to show that takes nothing off the stream.
LEMMA FlowKeeps ==
  ASSUME StreamInv, DataOK', PartOf(Unread', Unread, 0),
         UNCHANGED <<lengths, current, body, answered>>,
         peer' = "reset" => inbox' = <<>>,
         Heading' => Heading, InBody' => InBody /\ Len(buf') <= Remaining,
         ReadInv', KeptInv'
  PROVE  StreamInv'
<1>1. lengths \in Seq(0..MaxBody) /\ current \in Nat /\ body \in Seq(Units)
  BY BoundAssumption DEF StreamInv, DataOK
<1>2. Cut(Unread, lengths)'
  BY StaysCut
<1>3. PICK c : c = current
  OBVIOUS
<1>4. HeadingInv'
  <2>1. CASE Heading'
    <3>1. Goes(Unread, 0, c, 0) /\ Len(answered) = c
      BY <1>3, <2>1 DEF StreamInv, HeadingInv
    <3>2. Goes(Unread', 0, c, 0)
      BY <1>1, <1>3, <3>1, StaysAt
    <3> QED  BY <1>3, <3>1, <3>2 DEF HeadingInv
  <2>2. CASE ~Heading'
    BY <2>2 DEF HeadingInv
  <2> QED  BY <2>1, <2>2
<1>5. BodyInv'
  <2>1. CASE InBody'
    <3>1. /\ c \in 1..Len(lengths) /\ Len(body) < lengths[c] /\ BodyIsItsOwn
          /\ Goes(Unread, 0, c, Remaining) /\ Len(answered) = c - 1
      BY <1>3, <2>1 DEF StreamInv, BodyInv
    <3>2. PICK r : r = Remaining
      OBVIOUS
    <3>3. r \in Nat
      <4>1. lengths[c] \in Nat /\ Len(body) \in Nat
        BY <1>1, <3>1, BoundAssumption
      <4> QED  BY <1>3, <3>1, <3>2, <4>1 DEF Remaining
    <3>4. Goes(Unread', 0, c, r)
      BY <1>1, <1>3, <3>1, <3>2, <3>3, StaysAt
    <3>5. Remaining' = r /\ BodyIsItsOwn'
      BY <3>1, <3>2 DEF Remaining, BodyIsItsOwn
    <3> QED  BY <1>3, <2>1, <3>1, <3>2, <3>4, <3>5 DEF BodyInv
  <2>2. CASE ~InBody'
    BY <2>2 DEF BodyInv
  <2> QED  BY <2>1, <2>2
<1>6. AnsweredInOrder'
  BY DEF StreamInv, AnsweredInOrder
<1> QED  BY <1>2, <1>4, <1>5, <1>6, Zenon DEF StreamInv

\* The client's steps and the kernel's.
LEMMA ArrivalKeeps ==
  ASSUME StreamInv,
         Send \/ Hangup("eof") \/ Hangup("reset") \/ ReadUntil \/ ReadExactly
  PROVE  StreamInv'
<1>1. DataOK /\ (peer = "reset" => inbox = <<>>) /\ Unread \in Seq(Units)
  BY UnreadIs DEF StreamInv
<1>2. PartOf(Unread, Unread, 0)
  BY <1>1, WholeIsPart
<1>3. CASE Send
  <2>1. DataOK' /\ Unread' = Unread /\ UNCHANGED <<lengths, peer, buf>>
    BY <1>1, <1>3, SendMoves
  <2>2. peer = "open" /\ UNCHANGED <<current, body, answered, op, next, closeAfter, opState>>
    BY <1>3 DEF Send
  <2>3. Heading' = Heading /\ InBody' = InBody /\ Remaining' = Remaining
    BY <2>1, <2>2 DEF Heading, InBody, Remaining
  <2>4. ReadInv' /\ KeptInv' /\ (InBody => Len(buf') <= Remaining)
    BY <2>1, <2>2, <2>3 DEF StreamInv, ReadInv, KeptInv, BodyInv, BodyIsItsOwn, HasHead
  <2>5. PartOf(Unread', Unread, 0)
    BY <1>2, <2>1, Zenon
  <2>6. peer' = "reset" => inbox' = <<>>
    BY <2>1, <2>2
  <2> QED  BY <2>1, <2>2, <2>3, <2>4, <2>5, <2>6, FlowKeeps
<1>4. ASSUME NEW how \in {"eof", "reset"}, Hangup(how) PROVE StreamInv'
  <2>1. /\ DataOK' /\ PartOf(Unread', Unread, 0) /\ UNCHANGED <<lengths, buf>>
        /\ peer' = "reset" => inbox' = <<>>
    BY <1>1, <1>4, HangupLoses
  <2>2. UNCHANGED <<current, body, answered, op, next, closeAfter, opState>>
    BY <1>4 DEF Hangup
  <2>3. Heading' = Heading /\ InBody' = InBody /\ Remaining' = Remaining
    BY <2>1, <2>2 DEF Heading, InBody, Remaining
  <2>4. ReadInv' /\ KeptInv' /\ (InBody => Len(buf') <= Remaining)
    BY <2>1, <2>2, <2>3 DEF StreamInv, ReadInv, KeptInv, BodyInv, BodyIsItsOwn, HasHead
  <2> QED  BY <2>1, <2>2, <2>3, <2>4, FlowKeeps
<1>5. CASE ReadUntil
  <2>1. /\ DataOK' /\ Unread' = Unread /\ inbox' = <<>> /\ UNCHANGED <<lengths, peer>>
        /\ op' = "head" /\ opState' = "ok" => HasHead(buf')
    BY <1>1, <1>5, ReadUntilMoves
  <2>2. op = "head" /\ UNCHANGED <<current, body, answered, op, next, closeAfter>>
    BY <1>5 DEF ReadUntil
  <2>3. ~InBody
    <3>1. Heading
      BY <2>2 DEF Heading
    <3>2. Len(answered) = current /\ current \in Nat
      BY <3>1, BoundAssumption DEF StreamInv, HeadingInv, DataOK
    <3> QED  BY <3>2 DEF StreamInv, BodyInv
  <2>4. Heading' = Heading /\ InBody' = InBody
    BY <2>2 DEF Heading, InBody
  <2>5. ReadInv'
    BY <2>1, <2>2 DEF ReadInv
  <2>6. KeptInv'
    BY <2>1, <2>2 DEF StreamInv, KeptInv, BodyIsItsOwn
  <2>7. PartOf(Unread', Unread, 0)
    BY <1>2, <2>1, Zenon
  <2> QED  BY <2>1, <2>2, <2>3, <2>4, <2>5, <2>6, <2>7, FlowKeeps
<1>6. CASE ReadExactly
  <2>1. op = "body" /\ UNCHANGED <<current, body, answered, op, next, closeAfter>>
    BY <1>6 DEF ReadExactly, clientVars
  <2>2. InBody
    BY <2>1 DEF InBody
  <2>3. current \in 1..Len(lengths) /\ Len(body) < lengths[current] /\ Len(buf) <= Remaining
    BY <2>2 DEF StreamInv, BodyInv
  <2>4. Remaining \in Nat
    <3>1. lengths[current] \in Nat /\ Len(body) \in Nat
      BY <1>1, <2>3, BoundAssumption DEF DataOK
    <3> QED  BY <2>3, <3>1 DEF Remaining
  <2>5. /\ DataOK' /\ Unread' = Unread /\ UNCHANGED <<lengths, peer>>
        /\ Len(buf') <= Remaining /\ (opState' = "ok" => Len(buf') = Remaining)
    BY <1>1, <1>6, <2>3, <2>4, ReadExactlyMoves
  <2>6. inbox # <<>> /\ peer # "reset"
    BY <1>1, <1>6 DEF ReadExactly
  <2>7. Heading' = Heading /\ InBody' = InBody /\ Remaining' = Remaining
    BY <2>1, <2>5 DEF Heading, InBody, Remaining
  <2>8. ReadInv'
    BY <2>1, <2>5, <2>7 DEF ReadInv
  <2>9. KeptInv'
    BY <2>1, <2>5 DEF StreamInv, KeptInv, BodyIsItsOwn
  <2>10. PartOf(Unread', Unread, 0)
    BY <1>2, <2>5, Zenon
  <2>11. peer' = "reset" => inbox' = <<>>
    BY <2>5, <2>6
  <2> QED  BY <2>1, <2>2, <2>5, <2>7, <2>8, <2>9, <2>10, <2>11, FlowKeeps
<1> QED  BY <1>3, <1>4, <1>5, <1>6

\* The steps that leave the stream and the request alone, and at most drop the
\* operation, fail it, or go on from the one that ended.
Carries ==
  /\ UNCHANGED <<lengths, stream, inbox, peer, buf, current, body, answered, closeAfter>>
  /\ \/ UNCHANGED <<op, next>> /\ (opState' \in {opState, "error"} \/ (op = "write" /\ opState' = "ok"))
     \/ op' = "none" /\ UNCHANGED <<next, opState>>
     \/ /\ op = "write" /\ op' = "none" /\ next' = IF closeAfter THEN "none" ELSE "head"
        /\ UNCHANGED opState
     \/ /\ op' = next /\ next' = "none" /\ opState' \in {"kernel", "ok", "error"}
        /\ opState' = "ok" => op' = "head" /\ HasHead(buf)

LEMMA CarriesKeeps ==
  ASSUME StreamInv, Carries
  PROVE  StreamInv'
<1>1. DataOK /\ (peer = "reset" => inbox = <<>>) /\ Unread \in Seq(Units)
  BY UnreadIs DEF StreamInv
<1>2. UNCHANGED <<lengths, stream, inbox, peer, buf, current, body, answered, closeAfter>>
  BY DEF Carries
<1>3. opState' \in {"kernel", "ok", "error"}
  BY <1>1 DEF Carries, DataOK
<1>4. DataOK'
  BY <1>1, <1>2, <1>3 DEF DataOK
<1>5. Unread' = Unread /\ Remaining' = Remaining /\ BodyIsItsOwn' = BodyIsItsOwn
  BY <1>2 DEF Unread, Remaining, BodyIsItsOwn
<1>6. PartOf(Unread', Unread, 0)
  BY <1>1, <1>5, WholeIsPart
<1>7. Heading' => Heading
  BY DEF Carries, Heading
<1>8. InBody' => InBody
  BY DEF Carries, InBody
<1>9. InBody' => Len(buf') <= Remaining
  BY <1>2, <1>8 DEF StreamInv, BodyInv
<1>10. ReadInv'
  BY <1>2, <1>5 DEF StreamInv, ReadInv, Carries, HasHead
<1>11. KeptInv'
  BY <1>2, <1>5 DEF StreamInv, KeptInv, Carries
<1> QED  BY <1>1, <1>2, <1>4, <1>6, <1>7, <1>8, <1>9, <1>10, <1>11, FlowKeeps

LEMMA QuietCarries ==
  ASSUME \/ WriteDone \/ OpFails \/ TimerExpires
         \/ \E w \in Workers :
              \/ OnError(w) \/ OnWritten(w) \/ ArmTimer(w) \/ StartOp(w) \/ OnTimeout(w)
              \/ OnAborted(w) \/ CancelTimer(w) \/ CloseSocket(w)
         \/ UNCHANGED vars
  PROVE  Carries
<1>1. CASE WriteDone \/ OpFails \/ TimerExpires \/ UNCHANGED vars
  BY <1>1 DEF WriteDone, OpFails, TimerExpires, Carries, clientVars, vars
<1>2. ASSUME NEW w \in Workers, OnError(w) \/ OnWritten(w) PROVE Carries
  BY <1>2 DEF OnError, OnWritten, Completed, Carries, clientVars
<1>3. ASSUME NEW w \in Workers, ArmTimer(w) \/ OnTimeout(w) \/ OnAborted(w) \/ CancelTimer(w)
      PROVE  Carries
  BY <1>3 DEF ArmTimer, OnTimeout, OnAborted, CancelTimer, Carries, clientVars
<1>4. ASSUME NEW w \in Workers, StartOp(w) PROVE Carries
  BY <1>4 DEF StartOp, Carries, clientVars
<1>5. ASSUME NEW w \in Workers, CloseSocket(w) PROVE Carries
  BY <1>5 DEF CloseSocket, Carries, clientVars
<1> QED  BY <1>1, <1>2, <1>3, <1>4, <1>5

\* The head that was found is the next one, and begins the buffer.
LEMMA HeadIsFirst ==
  ASSUME StreamInv, op = "head", opState = "ok"
  PROVE  /\ Len(buf) \in Nat /\ Len(buf) >= 1 /\ HeadLength(buf) = 1
         /\ buf[1] = <<"head", current + 1>> /\ buf[1][2] = current + 1
         /\ Unread[1] = buf[1] /\ Len(Unread) >= 1
         /\ current + 1 \in 1..MaxRequests /\ Len(answered) = current
<1>1. HasHead(buf) /\ Goes(Unread, 0, current, 0) /\ Len(answered) = current /\ DataOK
  BY DEF StreamInv, ReadInv, HeadingInv, Heading
<1>2. /\ Unread \in Seq(Units) /\ buf \in Seq(Units)
      /\ Len(buf) <= Len(Unread) /\ \A k \in 1..Len(buf) : buf[k] = Unread[k]
  BY <1>1, UnreadIs DEF DataOK
<1>3. PICK n, m \in Nat : n = Len(buf) /\ m = Len(Unread)
  BY <1>2
<1>4. n >= 1 /\ m >= 1
  BY <1>1, <1>2, <1>3 DEF HasHead
<1>5. Unread[1] = <<"head", current + 1>>
  <2>1. 0 + 0 + 1 = 1
    OBVIOUS
  <2> QED  BY <1>1, <1>3, <1>4, <2>1 DEF Goes
<1>6. buf[1] = <<"head", current + 1>> /\ buf[1] \in Units
  BY <1>2, <1>3, <1>4, <1>5
<1>7. buf[1][1] = "head" /\ buf[1][2] = current + 1
  BY <1>6
<1>8. current + 1 \in 1..MaxRequests
  BY <1>6, <1>7 DEF Units
<1>9. HeadLength(buf) = 1
  <2>1. \A k \in 1..n : (buf[k][1] = "head" /\ \A j \in 1..(k - 1) : buf[j][1] # "head") <=> k = 1
    <3>1. ASSUME NEW k \in 1..n, k # 1, \A j \in 1..(k - 1) : buf[j][1] # "head" PROVE FALSE
      <4>1. 1 \in 1..(k - 1)
        BY <3>1
      <4> QED  BY <1>7, <3>1, <4>1
    <3>2. \A j : j \notin 1..(1 - 1)
      OBVIOUS
    <3> QED  BY <1>7, <3>1, <3>2
  <2>2. 1 \in 1..n
    BY <1>4
  <2>3. HeadLength(buf) = CHOOSE k \in 1..n : k = 1
    BY <1>3, <2>1 DEF HeadLength
  <2> QED  BY <2>2, <2>3
<1> QED  BY <1>1, <1>2, <1>3, <1>4, <1>5, <1>6, <1>7, <1>8, <1>9

\* The response of the next request keeps the order.
LEMMA AnsweredNext ==
  ASSUME StreamInv, NEW i \in 1..MaxRequests, Len(answered) = i - 1,
         answered' = Append(answered, i)
  PROVE  AnsweredInOrder' /\ Len(answered') = i /\ answered' \in Seq(0..MaxRequests)
<1>1. answered \in Seq(0..MaxRequests) /\ i \in 0..MaxRequests /\ \A k \in 1..Len(answered) : answered[k] = k
  BY BoundAssumption DEF StreamInv, DataOK, AnsweredInOrder
<1>2. PICK n \in Nat : n = Len(answered) /\ i = n + 1
  BY <1>1, BoundAssumption
<1>3. /\ answered' \in Seq(0..MaxRequests) /\ Len(answered') = n + 1
      /\ \A k \in 1..n : answered'[k] = answered[k]
      /\ answered'[n + 1] = i
  BY <1>1, <1>2, AppendProperties
<1>4. ASSUME NEW k \in 1..(n + 1) PROVE answered'[k] = k
  <2>1. k \in 1..n \/ k = n + 1
    BY <1>2
  <2> QED  BY <1>1, <1>2, <1>3, <2>1
<1> QED  BY <1>2, <1>3, <1>4 DEF AnsweredInOrder

\* handleHead refuses the head: nothing is read any more.
LEMMA BadHeadKeeps ==
  ASSUME StreamInv, NEW w \in Workers, OnBadHead(w)
  PROVE  StreamInv'
<1>1. op = "head" /\ opState = "ok"
  BY DEF OnBadHead, Completed
<1>2. /\ Len(buf) \in Nat /\ Len(buf) >= 1 /\ HeadLength(buf) = 1 /\ buf[1][2] = current + 1
      /\ current + 1 \in 1..MaxRequests /\ Len(answered) = current
  BY <1>1, HeadIsFirst
<1>3. PICK i \in 1..MaxRequests : i = current + 1
  BY <1>2
<1>4. /\ op' = "none" /\ next' = "write" /\ closeAfter' = TRUE /\ body' = <<>> /\ current' = i
      /\ answered' = Append(answered, i) /\ buf' \in {buf, SubSeq(buf, 1 + 1, Len(buf))}
      /\ UNCHANGED <<lengths, stream, inbox, peer, opState>>
  BY <1>2, <1>3 DEF OnBadHead, Completed, Respond, clientVars
<1>5. DataOK /\ Unread \in Seq(Units) /\ current \in Nat
  BY UnreadIs, BoundAssumption DEF StreamInv, DataOK
<1>6. \E d \in Nat : PartOf(Unread', Unread, d) /\ buf' \in Seq(Units)
  <2>1. CASE buf' = buf
    <3>1. Unread' = Unread
      BY <1>4, <2>1 DEF Unread
    <3> QED  BY <1>5, <2>1, <3>1, WholeIsPart DEF DataOK
  <2>2. CASE buf' = SubSeq(buf, 1 + 1, Len(buf))
    <3>1. 1 \in 0..Len(buf)
      BY <1>2
    <3> QED  BY <1>4, <1>5, <2>2, <3>1, TakenOff
  <2> QED  BY <1>4, <2>1, <2>2
<1>7. AnsweredInOrder' /\ answered' \in Seq(0..MaxRequests)
  <2>1. Len(answered) = i - 1
    BY <1>2, <1>3, <1>5
  <2> QED  BY <1>4, <2>1, AnsweredNext
<1>8. DataOK'
  <2>1. body' \in Seq(Units) /\ current' \in 0..MaxRequests
    BY <1>4, BoundAssumption
  <2> QED  BY <1>4, <1>5, <1>6, <1>7, <2>1 DEF DataOK
<1>9. Cut(Unread, lengths)'
  BY <1>4, <1>6, <1>8, StaysCut
<1>10. ~Heading' /\ ~InBody'
  BY <1>4 DEF Heading, InBody
<1>11. HeadingInv' /\ BodyInv' /\ ReadInv' /\ KeptInv'
  BY <1>4, <1>10 DEF HeadingInv, BodyInv, ReadInv, KeptInv
<1>12. peer' = "reset" => inbox' = <<>>
  BY <1>4 DEF StreamInv
<1> QED  BY <1>7, <1>8, <1>9, <1>11, <1>12, Zenon DEF StreamInv

\* What follows a part of the body is the rest of it.
LEMMA GoesFrom ==
  ASSUME NEW s \in Seq(Units), NEW k \in Nat, NEW i \in Nat, NEW m \in Nat, NEW a \in 0..m,
         Goes(s, k, i, m)
  PROVE  Goes(s, k + a, i, m - a)
<1>1. PICK x \in Nat : x = Len(s)
  OBVIOUS
<1>2. ASSUME NEW j \in 1..(m - a), (k + a) + j <= x PROVE s[(k + a) + j] = <<"body", i>>
  <2>1. a + j \in 1..m /\ k + (a + j) = (k + a) + j
    OBVIOUS
  <2>2. s[k + (a + j)] = <<"body", i>>
    BY <1>1, <1>2, <2>1 DEF Goes
  <2> QED  BY <2>1, <2>2
<1>3. ASSUME (k + a) + (m - a) + 1 <= x PROVE s[(k + a) + (m - a) + 1] = <<"head", i + 1>>
  <2>1. (k + a) + (m - a) + 1 = k + m + 1
    OBVIOUS
  <2> QED  BY <1>1, <1>3, <2>1 DEF Goes
<1> QED  BY <1>1, <1>2, <1>3 DEF Goes

\* The buffer behind a head, divided into a part of the body and the rest.
LEMMA BehindHead ==
  ASSUME NEW b \in Seq(Units), NEW n \in Nat, n = Len(b), n >= 1, NEW a \in 0..(n - 1)
  PROVE  \E rest \in Seq(Units) :
           /\ rest = SubSeq(b, 1 + 1, n) /\ Len(rest) = n - 1
           /\ SubSeq(rest, 1, a) \in Seq(Units) /\ Len(SubSeq(rest, 1, a)) = a
           /\ \A j \in 1..a : SubSeq(rest, 1, a)[j] = b[1 + j]
           /\ SubSeq(rest, a + 1, n - 1) = SubSeq(b, (1 + a) + 1, n)
<1>1. PICK rest \in Seq(Units) : /\ rest = SubSeq(b, 1 + 1, n) /\ Len(rest) = n - 1
                                 /\ \A k \in 1..(n - 1) : rest[k] = b[k + 1]
  <2>1. 1 \in 0..n
    OBVIOUS
  <2> QED  BY <2>1, Behind
<1>2. PICK x \in Nat : x = n - 1 /\ a \in 0..x
  OBVIOUS
<1>3. PICK p : p = SubSeq(rest, 1, a) /\ p \in Seq(Units) /\ Len(p) = a /\ \A j \in 1..a : p[j] = rest[j]
  <2>1. \A j \in 1..a : rest[j] \in Units
    BY <1>1, <1>2
  <2>2. SubSeq(rest, 1, a) \in Seq(Units)
    BY <2>1, SubSeqProperties
  <2>3. Len(SubSeq(rest, 1, a)) = a
    BY <1>1
  <2>4. \A j \in 1..a : SubSeq(rest, 1, a)[j] = rest[j]
    BY <1>1
  <2> QED  BY <2>2, <2>3, <2>4, Zenon
<1>4. PICK q2 \in Seq(Units) : /\ q2 = SubSeq(rest, a + 1, x) /\ Len(q2) = x - a
                               /\ \A k \in 1..(x - a) : q2[k] = rest[k + a]
  BY <1>1, <1>2, Behind, Zenon
<1>5. PICK r \in Seq(Units) : /\ r = SubSeq(b, (1 + a) + 1, n) /\ Len(r) = n - (1 + a)
                              /\ \A k \in 1..(n - (1 + a)) : r[k] = b[k + (1 + a)]
  <2>1. 1 + a \in 0..n
    OBVIOUS
  <2> QED  BY <2>1, Behind, Zenon
<1>6. q2 = r
  <2>1. x - a = n - (1 + a)
    BY <1>2
  <2>2. ASSUME NEW k \in 1..(x - a) PROVE q2[k] = r[k]
    <3>1. k + a \in 1..(n - 1) /\ (k + a) + 1 = k + (1 + a)
      BY <1>2
    <3> QED  BY <1>1, <1>4, <1>5, <2>1, <3>1
  <2>3. Len(q2) = Len(r) /\ \A k \in 1..Len(q2) : q2[k] = r[k]
    BY <1>4, <1>5, <2>1, <2>2
  <2> QED  BY <2>3, SeqEqual
<1>7. \A j \in 1..a : p[j] = b[1 + j]
  <2> TAKE j \in 1..a
  <2>1. j \in 1..(n - 1) /\ j + 1 = 1 + j
    OBVIOUS
  <2>2. p[j] = rest[j]
    BY <1>1, <1>3
  <2> QED  BY <1>1, <2>1, <2>2
<1> QED  BY <1>1, <1>2, <1>3, <1>4, <1>5, <1>6, <1>7, Zenon

\* handleHead: the head is taken, and as much of the body as is there.
LEMMA HeadKeeps ==
  ASSUME StreamInv, NEW w \in Workers, OnHead(w)
  PROVE  StreamInv'
<1>1. op = "head" /\ opState = "ok"
  BY DEF OnHead, Completed
<1>2. /\ Len(buf) \in Nat /\ Len(buf) >= 1 /\ HeadLength(buf) = 1
      /\ buf[1] = <<"head", current + 1>> /\ buf[1][2] = current + 1
      /\ Unread[1] = buf[1] /\ Len(Unread) >= 1
      /\ current + 1 \in 1..MaxRequests /\ Len(answered) = current
  BY <1>1, HeadIsFirst
<1>3. /\ DataOK /\ Unread \in Seq(Units) /\ current \in Nat /\ lengths \in Seq(0..MaxBody)
      /\ buf \in Seq(Units)
      /\ Len(buf) <= Len(Unread) /\ \A k \in 1..Len(buf) : buf[k] = Unread[k]
  BY UnreadIs, BoundAssumption DEF StreamInv, DataOK
<1>4. PICK i \in 1..MaxRequests : i = current + 1
  BY <1>2
<1>5. PICK n, x \in Nat : n = Len(buf) /\ x = Len(Unread)
  BY <1>3
<1>6. n >= 1 /\ n <= x
  BY <1>2, <1>3, <1>5
<1>7. PICK m \in Nat : m = lengths[i] /\ i \in 1..Len(lengths) /\ Goes(Unread, 1, i, m)
  <2>1. 1 \in 1..Len(Unread) /\ Unread[1][1] = "head" /\ Unread[1][2] = i
    BY <1>2, <1>4, <1>5, <1>6
  <2>2. i \in 1..Len(lengths) /\ Goes(Unread, 1, i, lengths[i])
    BY <2>1 DEF StreamInv, Cut
  <2> QED  BY <1>3, <2>2, BoundAssumption
<1>8. PICK a : a = IF n - 1 < m THEN n - 1 ELSE m
  OBVIOUS
<1>9. a \in 0..(n - 1) /\ a \in 0..m /\ (a < m => a = n - 1)
  BY <1>6, <1>8
<1>10. PICK rest \in Seq(Units) :
         /\ rest = SubSeq(buf, 1 + 1, n) /\ Len(rest) = n - 1
         /\ SubSeq(rest, 1, a) \in Seq(Units) /\ Len(SubSeq(rest, 1, a)) = a
         /\ \A j \in 1..a : SubSeq(rest, 1, a)[j] = buf[1 + j]
         /\ SubSeq(rest, a + 1, n - 1) = SubSeq(buf, (1 + a) + 1, n)
  BY <1>3, <1>5, <1>6, <1>9, BehindHead
<1>11. /\ current' = i /\ body' = SubSeq(rest, 1, a) /\ buf' = SubSeq(rest, a + 1, n - 1)
       /\ op' = "none" /\ UNCHANGED <<lengths, stream, inbox, peer, opState>>
       /\ \/ a < m /\ next' = "body" /\ UNCHANGED <<closeAfter, answered>>
          \/ /\ a = m /\ next' = "write" /\ closeAfter' \in BOOLEAN
             /\ answered' = Append(answered, i)
  <2>1. current + 1 = i /\ Len(buf) = n
    BY <1>4, <1>5
  <2>2. SubSeq(buf, HeadLength(buf) + 1, Len(buf)) = rest /\ buf[HeadLength(buf)][2] = i
    BY <1>2, <1>5, <1>10, <2>1, Zenon
  <2> QED  BY <1>7, <1>8, <1>10, <2>2 DEF OnHead, Completed, Respond, clientVars
<1>12. /\ body' \in Seq(Units) /\ Len(body') = a /\ \A j \in 1..a : body'[j] = buf[1 + j]
       /\ buf' = SubSeq(buf, (1 + a) + 1, n)
  BY <1>10, <1>11, Zenon
<1>13. PICK d \in Nat : d = 1 + a /\ d \in 0..n
  BY <1>9
<1>14. PartOf(Unread', Unread, d) /\ buf' \in Seq(Units)
  BY <1>3, <1>5, <1>11, <1>12, <1>13, TakenOff
<1>15. AnsweredInOrder' /\ answered' \in Seq(0..MaxRequests) /\ (a = m => Len(answered') = i)
  <2>1. CASE a < m
    BY <1>3, <1>9, <1>11, <2>1 DEF StreamInv, AnsweredInOrder, DataOK
  <2>2. CASE a = m
    <3>1. Len(answered) = i - 1
      BY <1>2, <1>3, <1>4
    <3>2. answered' = Append(answered, i)
      BY <1>9, <1>11, <2>2
    <3> QED  BY <3>1, <3>2, AnsweredNext
  <2> QED  BY <1>9, <2>1, <2>2
<1>16. DataOK'
  <2>1. current' \in 0..MaxRequests
    BY <1>11, BoundAssumption
  <2>2. closeAfter' \in BOOLEAN
    BY <1>3, <1>11 DEF DataOK
  <2> QED  BY <1>3, <1>11, <1>12, <1>14, <1>15, <2>1, <2>2 DEF DataOK
<1>17. Cut(Unread, lengths)'
  BY <1>11, <1>14, <1>16, StaysCut
<1>18. PICK r \in Nat : r = m - a
  BY <1>9
<1>19. Goes(Unread', 0, i, r)
  <2>1. Goes(Unread, d, i, r)
    <3>1. PICK s \in Seq(Units) : s = Unread
      BY <1>3
    <3>2. Goes(s, 1 + a, i, m - a)
      BY <1>7, <1>9, <3>1, GoesFrom
    <3> QED  BY <1>13, <1>18, <3>1, <3>2
  <2> QED  BY <1>14, <1>16, <2>1, StaysAt
<1>20. BodyIsItsOwn'
  <2>1. ASSUME NEW j \in 1..a PROVE body'[j] = <<"body", i>>
    <3>1. j \in 1..m /\ 1 + j \in 1..n /\ 1 + j <= x
      BY <1>6, <1>9
    <3>2. Unread[1 + j] = <<"body", i>>
      BY <1>5, <1>7, <3>1 DEF Goes
    <3> QED  BY <1>3, <1>5, <1>12, <3>1, <3>2
  <2> QED  BY <1>11, <1>12, <2>1 DEF BodyIsItsOwn
<1>21. Remaining' = r
  BY <1>7, <1>11, <1>12, <1>18 DEF Remaining
<1>22. CASE a < m
  <2>1. next' = "body" /\ op' = "none" /\ answered' = answered
    BY <1>11, <1>22
  <2>2. ~Heading' /\ HeadingInv' /\ ReadInv' /\ KeptInv'
    BY <2>1 DEF Heading, HeadingInv, ReadInv, KeptInv
  <2>3. Len(buf') <= r
    <3>1. d = n
      BY <1>9, <1>13, <1>22
    <3>2. SubSeq(buf, n + 1, n) = <<>>
      <4>1. n < n + 1 /\ n + 1 \in Int /\ n \in Int
        OBVIOUS
      <4> QED  BY <4>1, SubSeqEmpty
    <3> QED  BY <1>12, <1>13, <3>1, <3>2
  <2>4. Len(answered') = i - 1 /\ Len(body') < m
    BY <1>2, <1>3, <1>4, <1>12, <1>22, <2>1
  <2>5. BodyInv'
    BY <1>7, <1>11, <1>19, <1>20, <1>21, <2>3, <2>4 DEF BodyInv
  <2> QED  BY <1>11, <1>15, <1>16, <1>17, <2>2, <2>5 DEF StreamInv
<1>23. CASE a = m
  <2>1. next' = "write" /\ op' = "none" /\ Len(answered') = i
    BY <1>11, <1>15, <1>23
  <2>2. ~InBody' /\ BodyInv' /\ ReadInv'
    BY <2>1 DEF InBody, BodyInv, ReadInv
  <2>3. HeadingInv'
    <3>1. r = 0
      BY <1>18, <1>23
    <3> QED  BY <1>11, <1>19, <2>1, <3>1 DEF HeadingInv
  <2>4. KeptInv'
    BY <1>7, <1>11, <1>12, <1>20, <1>23 DEF KeptInv
  <2> QED  BY <1>11, <1>15, <1>16, <1>17, <2>2, <2>3, <2>4 DEF StreamInv
<1> QED  BY <1>9, <1>22, <1>23

\* doReadBody's handler: the buffer holds the rest of the body and no more.
LEMMA BodyKeeps ==
  ASSUME StreamInv, NEW w \in Workers, OnBody(w)
  PROVE  StreamInv'
<1>1. op = "body" /\ opState = "ok"
  BY DEF OnBody, Completed
<1>2. /\ current \in 1..Len(lengths) /\ Len(body) < lengths[current] /\ BodyIsItsOwn
      /\ Goes(Unread, 0, current, Remaining) /\ Len(answered) = current - 1
      /\ Len(buf) = Remaining
  BY <1>1 DEF StreamInv, BodyInv, InBody, ReadInv
<1>3. /\ DataOK /\ Unread \in Seq(Units) /\ lengths \in Seq(0..MaxBody)
      /\ buf \in Seq(Units) /\ body \in Seq(Units)
      /\ Len(buf) <= Len(Unread) /\ \A k \in 1..Len(buf) : buf[k] = Unread[k]
  BY UnreadIs DEF StreamInv, DataOK
<1>4. PICK i \in Nat : i = current /\ i \in 1..Len(lengths) /\ i \in 0..MaxRequests /\ i >= 1
  BY <1>2, <1>3, BoundAssumption DEF DataOK
<1>5. PICK m, y \in Nat : m = lengths[i] /\ y = Len(body) /\ y < m
  BY <1>2, <1>3, <1>4, BoundAssumption
<1>6. PICK r \in Nat : r = Remaining /\ r = m - y /\ r >= 1
  BY <1>4, <1>5 DEF Remaining
<1>7. PICK b \in Seq(Units) : b = buf /\ Len(b) = r
  BY <1>2, <1>3, <1>6
<1>8. SubSeq(buf, 1, r) = b /\ SubSeq(buf, r + 1, r) = <<>>
  <2>1. r < r + 1 /\ r \in Int /\ r + 1 \in Int
    OBVIOUS
  <2> QED  BY <1>7, <2>1, SubSeqFull, SubSeqEmpty
<1>9. /\ op' = "none" /\ next' = "write" /\ closeAfter' \in BOOLEAN /\ current' = i
      /\ body' = body \o b /\ buf' = SubSeq(buf, r + 1, Len(buf)) /\ buf' = <<>>
      /\ answered' = Append(answered, i)
      /\ UNCHANGED <<lengths, stream, inbox, peer, opState>>
  BY <1>4, <1>6, <1>7, <1>8 DEF OnBody, Completed, Respond, clientVars
<1>10. /\ body' \in Seq(Units) /\ Len(body') = y + r
       /\ \A k \in 1..(y + r) : body'[k] = IF k <= y THEN body[k] ELSE b[k - y]
  <2>1. PICK c \in Seq(Units) : c = body
    BY <1>3
  <2> PICK z : z = c \o b
    OBVIOUS
  <2>2. Len(c) = y /\ body' = z
    BY <1>5, <1>9, <2>1
  <2>3. /\ z \in Seq(Units) /\ Len(z) = y + r
        /\ \A k \in 1..(y + r) : z[k] = IF k <= y THEN c[k] ELSE b[k - y]
    BY <1>7, <2>1, <2>2, ConcatProperties
  <2> QED  BY <2>1, <2>2, <2>3, Zenon
<1>11. y + r = m
  BY <1>5, <1>6
<1>12. PartOf(Unread', Unread, r) /\ buf' \in Seq(Units)
  <2>1. r \in 0..Len(buf)
    BY <1>7
  <2> QED  BY <1>3, <1>9, <2>1, TakenOff
<1>13. AnsweredInOrder' /\ Len(answered') = i /\ answered' \in Seq(0..MaxRequests)
  <2>1. i \in 1..MaxRequests /\ Len(answered) = i - 1
    BY <1>2, <1>4, BoundAssumption
  <2> QED  BY <1>9, <2>1, AnsweredNext
<1>14. DataOK'
  BY <1>3, <1>4, <1>9, <1>10, <1>12, <1>13 DEF DataOK
<1>15. Cut(Unread, lengths)'
  BY <1>9, <1>12, <1>14, StaysCut
<1>16. Goes(Unread', 0, i, 0)
  <2>1. PICK s \in Seq(Units) : s = Unread
    BY <1>3
  <2>2. Goes(s, 0, i, r)
    BY <1>2, <1>4, <1>6, <2>1
  <2>3. Goes(s, 0 + r, i, r - r)
    <3>1. r \in 0..r
      OBVIOUS
    <3> QED  BY <1>4, <2>2, <3>1, GoesFrom
  <2>4. 0 + r = r /\ r - r = 0
    OBVIOUS
  <2>5. Goes(Unread, r, i, 0)
    BY <2>1, <2>3, <2>4
  <2> QED  BY <1>12, <1>14, <2>5, StaysAt
<1>17. BodyIsItsOwn'
  <2>1. ASSUME NEW k \in 1..(y + r) PROVE body'[k] = <<"body", i>>
    <3>1. CASE k <= y
      <4>1. k \in 1..y
        BY <3>1
      <4> QED  BY <1>2, <1>4, <1>5, <1>10, <3>1, <4>1 DEF BodyIsItsOwn
    <3>2. CASE ~(k <= y)
      <4>1. PICK j : j = k - y /\ j \in 1..r
        BY <3>2
      <4>2. body'[k] = b[j]
        BY <1>10, <3>2, <4>1
      <4>3. b[j] = Unread[j] /\ j <= Len(Unread) /\ 0 + j = j
        <5>1. PICK x \in Nat : x = Len(Unread)
          BY <1>3
        <5>2. r <= x
          BY <1>3, <1>7, <5>1
        <5>3. j <= x /\ 0 + j = j
          BY <4>1, <5>2
        <5> QED  BY <1>3, <1>7, <4>1, <5>1, <5>3
      <4>4. Unread[j] = <<"body", i>>
        BY <1>2, <1>4, <1>6, <4>1, <4>3 DEF Goes
      <4> QED  BY <4>2, <4>3, <4>4
    <3> QED  BY <3>1, <3>2
  <2> QED  BY <1>9, <1>10, <2>1 DEF BodyIsItsOwn
<1>18. ~InBody' /\ BodyInv' /\ ReadInv'
  BY <1>9 DEF InBody, BodyInv, ReadInv
<1>19. HeadingInv'
  BY <1>9, <1>13, <1>16 DEF HeadingInv
<1>20. KeptInv'
  BY <1>4, <1>5, <1>9, <1>10, <1>11, <1>17 DEF KeptInv
<1>21. peer' = "reset" => inbox' = <<>>
  BY <1>9 DEF StreamInv
<1> QED  BY <1>13, <1>14, <1>15, <1>18, <1>19, <1>20, <1>21, Zenon DEF StreamInv

-----------------------------------------------------------------------------
\* A set of naturals has a least element.
LEMMA LeastOf ==
  ASSUME NEW T, T \subseteq Nat, T # {}
  PROVE  \E x \in T : \A y \in T : ~(y < x)
<1>1. PICK x \in T : \A y \in T : ~(<<y, x>> \in OpToRel(<, Nat))
  BY NatLessThanWellFounded, WFMin
<1>2. ASSUME NEW k \in Nat, NEW l \in Nat, k < l PROVE <<k, l>> \in OpToRel(<, Nat)
  BY <1>2, Zenon DEF OpToRel
<1> QED  BY <1>1, <1>2

\* Where the requests begin: every position belongs to one of them.
LEMMA CutsAre ==
  ASSUME NEW n \in Nat, NEW at \in Cuts(n)
  PROVE  /\ at[1] = 1 /\ \A i \in 1..(n + 1) : at[i] \in Nat /\ at[i] >= 1
         /\ \A i, j \in 1..(n + 1) : i < j => at[i] < at[j]
  BY BoundAssumption DEF Cuts

Within(at, i, p) == at[i] <= p /\ p < at[i + 1]

LEMMA OneRequest ==
  ASSUME NEW n \in Nat, NEW at \in Cuts(n), NEW i \in 1..n, NEW j \in 1..n, NEW p \in Nat,
         Within(at, i, p), Within(at, j, p)
  PROVE  i = j
<1>1. ASSUME NEW k \in 1..n, NEW l \in 1..n, Within(at, k, p), Within(at, l, p) PROVE ~(k < l)
  <2> SUFFICES ASSUME k < l PROVE FALSE
    OBVIOUS
  <2>1. k + 1 \in 1..(n + 1) /\ l \in 1..(n + 1) /\ (k + 1 = l \/ k + 1 < l)
    OBVIOUS
  <2>2. PICK x, y \in Nat : x = at[k + 1] /\ y = at[l]
    BY <2>1, CutsAre
  <2>3. x <= y
    BY <2>1, <2>2, CutsAre
  <2>4. p < x /\ y <= p
    BY <1>1, <2>2 DEF Within
  <2> QED  BY <2>2, <2>3, <2>4
<1>2. ~(i < j) /\ ~(j < i)
  BY <1>1
<1> QED  BY <1>2

LEMMA SomeRequest ==
  ASSUME NEW n \in Nat, NEW at \in Cuts(n), NEW p \in 1..(at[n + 1] - 1)
  PROVE  \E i \in 1..n : Within(at, i, p)
<1> DEFINE T == {j \in 1..(n + 1) : p < at[j]}
<1>1. n + 1 \in T /\ T \subseteq Nat
  <2>1. n + 1 \in 1..(n + 1) /\ at[n + 1] \in Nat
    BY CutsAre
  <2> QED  BY <2>1
<1>2. PICK j \in T : \A k \in T : ~(k < j)
  <2> HIDE DEF T
  <2>1. T # {}
    BY <1>1
  <2> QED  BY <1>1, <2>1, LeastOf
<1>3. j # 1
  BY CutsAre
<1>4. PICK i : i = j - 1 /\ i \in 1..n /\ i \in 1..(n + 1) /\ i + 1 = j /\ i < j
  BY <1>3
<1>5. i \notin T
  BY <1>2, <1>4
<1>6. at[i] <= p
  <2>1. at[i] \in Nat
    BY <1>4, CutsAre
  <2> QED  BY <1>4, <1>5, <2>1
<1> QED  BY <1>4, <1>6 DEF Within

\* What the client sends, position by position.
LEMMA UnitsAre ==
  ASSUME NEW n \in Nat, NEW at \in Cuts(n), NEW i \in 1..n, NEW p \in Nat, Within(at, i, p)
  PROVE  /\ p \in 1..(at[n + 1] - 1)
         /\ UnitsOf(n, at)[p] = IF p = at[i] THEN <<"head", i>> ELSE <<"body", i>>
<1>1. PICK x, y, z \in Nat : x = at[i] /\ y = at[i + 1] /\ z = at[n + 1]
  BY CutsAre
<1>2. x >= 1 /\ x <= p /\ p < y /\ y <= z
  <2>1. i + 1 = n + 1 \/ i + 1 < n + 1
    OBVIOUS
  <2>2. y <= z
    BY <1>1, <2>1, CutsAre
  <2> QED  BY <1>1, <2>2, CutsAre DEF Within
<1>3. p \in 1..(z - 1)
  BY <1>2
<1>4. ASSUME NEW j \in 1..n, at[j] = p PROVE j = i
  <2>1. at[j] < at[j + 1]
    BY CutsAre
  <2>2. Within(at, j, p)
    BY <1>4, <2>1 DEF Within
  <2> QED  BY <2>2, OneRequest
<1>5. ASSUME NEW j \in 1..n, at[j] < p, p < at[j + 1] PROVE j = i
  <2>1. Within(at, j, p)
    <3>1. at[j] \in Nat
      BY CutsAre
    <3> QED  BY <1>5, <3>1 DEF Within
  <2> QED  BY <2>1, OneRequest
<1>6. CASE p = at[i]
  <2>1. (CHOOSE j \in 1..n : at[j] = p) = i
    BY <1>4, <1>6
  <2> QED  BY <1>1, <1>3, <1>6, <2>1 DEF UnitsOf
<1>7. CASE p # at[i]
  <2>1. at[i] < p /\ p < at[i + 1]
    BY <1>1, <1>2, <1>7
  <2>2. (CHOOSE j \in 1..n : at[j] < p /\ p < at[j + 1]) = i
    BY <1>5, <2>1
  <2>3. ~\E j \in 1..n : at[j] = p
    BY <1>4, <1>7
  <2>4. UnitsOf(n, at)[p] = IF \E j \in 1..n : at[j] = p
                           THEN <<"head", CHOOSE j \in 1..n : at[j] = p>>
                           ELSE <<"body", CHOOSE j \in 1..n : at[j] < p /\ p < at[j + 1]>>
    BY <1>1, <1>3 DEF UnitsOf
  <2>5. p \in 1..(at[n + 1] - 1)
    BY <1>1, <1>3
  <2> QED  BY <1>7, <2>2, <2>3, <2>4, <2>5, Zenon
<1> QED  BY <1>1, <1>3, <1>6, <1>7

\* The client's stream is cut by its requests.
LEMMA ClientSends ==
  ASSUME NEW n \in Nat, n <= MaxRequests, NEW at \in Cuts(n), NEW ls,
         ls = [i \in 1..n |-> at[i + 1] - at[i] - 1], ls \in Seq(0..MaxBody)
  PROVE  /\ UnitsOf(n, at) \in Seq(Units)
         /\ Cut(UnitsOf(n, at), ls) /\ Goes(UnitsOf(n, at), 0, 0, 0)
<1>1. n \in Nat /\ n + 1 \in 1..(n + 1) /\ Len(ls) = n
  BY BoundAssumption
<1>2. PICK s : s = UnitsOf(n, at)
  OBVIOUS
<1>3. PICK x \in Nat : x = at[n + 1] - 1 /\ at[n + 1] = x + 1
  BY <1>1, CutsAre
<1>4. ASSUME NEW p \in 1..x
      PROVE  \E i \in 1..n : Within(at, i, p) /\ s[p] = IF p = at[i] THEN <<"head", i>> ELSE <<"body", i>>
  <2>1. PICK i \in 1..n : Within(at, i, p)
    BY <1>1, <1>3, SomeRequest
  <2>2. p \in Nat
    OBVIOUS
  <2>3. UnitsOf(n, at)[p] = IF p = at[i] THEN <<"head", i>> ELSE <<"body", i>>
    BY <2>1, <2>2, UnitsAre
  <2> QED  BY <1>2, <2>1, <2>3, Zenon
<1>5. ASSUME NEW i \in 1..n, NEW p \in Nat, Within(at, i, p)
      PROVE  p \in 1..x /\ s[p] = IF p = at[i] THEN <<"head", i>> ELSE <<"body", i>>
  <2>1. /\ p \in 1..(at[n + 1] - 1)
        /\ UnitsOf(n, at)[p] = IF p = at[i] THEN <<"head", i>> ELSE <<"body", i>>
    BY <1>5, UnitsAre
  <2> QED  BY <1>2, <1>3, <2>1, Zenon
<1>6. s \in Seq(Units) /\ Len(s) = x
  <2>1. s = [p \in 1..x |-> s[p]]
    BY <1>2, <1>3 DEF UnitsOf
  <2>2. ASSUME NEW p \in 1..x PROVE s[p] \in Units
    <3>1. PICK i \in 1..n : s[p] = IF p = at[i] THEN <<"head", i>> ELSE <<"body", i>>
      BY <1>4
    <3>2. i \in 1..MaxRequests
      BY BoundAssumption
    <3> QED  BY <3>1, <3>2 DEF Units
  <2>3. s \in [1..x -> Units]
    BY <2>1, <2>2, Zenon
  <2> QED  BY <2>3
<1>7. ASSUME NEW i \in 1..n
      PROVE  /\ at[i] \in 1..x /\ s[at[i]] = <<"head", i>> /\ at[i + 1] = at[i] + ls[i] + 1
             /\ ls[i] \in Nat /\ Goes(s, at[i], i, ls[i])
  <2>1. PICK a, b \in Nat : a = at[i] /\ b = at[i + 1]
    BY <1>1, CutsAre
  <2>2. a < b
    <3>1. i \in 1..(n + 1) /\ i + 1 \in 1..(n + 1) /\ i < i + 1
      BY <1>1
    <3> QED  BY <2>1, <3>1, CutsAre
  <2>3. PICK m \in Nat : m = ls[i] /\ b = a + m + 1
    BY <2>1, <2>2
  <2>4. ASSUME NEW j \in 0..m PROVE Within(at, i, a + j) /\ a + j \in Nat
    <3>1. a <= a + j /\ a + j < b /\ a + j \in Nat
      BY <2>3
    <3> QED  BY <2>1, <3>1, Zenon DEF Within
  <2>5. a \in 1..x /\ s[a] = <<"head", i>>
    <3>1. a + 0 = a /\ 0 \in 0..m
      BY <2>1
    <3>2. Within(at, i, a)
      BY <2>4, <3>1
    <3> QED  BY <1>5, <2>1, <3>2, Zenon
  <2>6. ASSUME NEW j \in 1..m PROVE s[a + j] = <<"body", i>>
    <3>1. a + j # a /\ j \in 0..m
      BY <2>1, SMTT(30)
    <3>2. PICK p \in Nat : p = a + j /\ p # a /\ Within(at, i, p)
      BY <2>4, <3>1, Zenon
    <3> QED  BY <1>5, <2>1, <3>2, Zenon
  <2>7. ASSUME a + m + 1 <= x PROVE s[a + m + 1] = <<"head", i + 1>>
    <3>1. i # n
      <4>1. b # x + 1
        BY <2>3, <2>7
      <4> QED  BY <1>3, <2>1, <4>1, Zenon
    <3>2. i + 1 \in 1..n
      BY <1>1, <3>1
    <3>3. PICK k \in 1..n : k = i + 1 /\ at[k] = b
      BY <2>1, <3>2
    <3>4. b < at[k + 1] /\ b <= b
      <4>1. k \in 1..(n + 1) /\ k + 1 \in 1..(n + 1) /\ k < k + 1
        BY <1>1
      <4> QED  BY <2>1, <3>3, <4>1, CutsAre
    <3>5. Within(at, k, b)
      BY <3>3, <3>4, Zenon DEF Within
    <3>6. s[b] = <<"head", k>>
      BY <1>5, <3>3, <3>5, Zenon
    <3> QED  BY <2>3, <3>3, <3>6, Zenon
  <2>8. Goes(s, a, i, m)
    BY <1>6, <2>6, <2>7 DEF Goes
  <2> QED  BY <2>1, <2>3, <2>5, <2>8
<1>8. Cut(s, ls)
  <2> SUFFICES ASSUME NEW p \in 1..x, s[p][1] = "head"
               PROVE  s[p][2] \in 1..n /\ Goes(s, p, s[p][2], ls[s[p][2]])
    BY <1>1, <1>6 DEF Cut
  <2>1. PICK i \in 1..n : s[p] = IF p = at[i] THEN <<"head", i>> ELSE <<"body", i>>
    BY <1>4
  <2>2. p = at[i] /\ s[p][2] = i
    BY <2>1
  <2> QED  BY <1>7, <2>2
<1>9. Goes(s, 0, 0, 0)
  <2>1. ASSUME 0 + 0 + 1 <= x PROVE s[1] = <<"head", 1>>
    <3>1. at[1] = 1
      BY <1>1, CutsAre
    <3>2. n # 0
      BY <1>3, <2>1, <3>1
    <3>3. 1 \in 1..n
      BY <1>1, <3>2
    <3> QED  BY <1>7, <3>1, <3>3
  <2>2. 0 + 0 + 1 = 1 /\ 0 + 1 = 1 /\ \A j : j \notin 1..0
    OBVIOUS
  <2> QED  BY <1>6, <2>1, <2>2 DEF Goes
<1> QED  BY <1>2, <1>6, <1>8, <1>9

LEMMA InitStream == Init => StreamInv
<1> SUFFICES ASSUME Init PROVE StreamInv
  OBVIOUS
<1>1. PICK n \in 0..MaxRequests : \E at \in Cuts(n) :
        /\ lengths = [i \in 1..n |-> at[i + 1] - at[i] - 1] /\ lengths \in Seq(0..MaxBody)
        /\ stream = UnitsOf(n, at)
  BY Zenon DEF Init
<1>2. n \in Nat /\ n <= MaxRequests
  BY BoundAssumption
<1>3. /\ lengths \in Seq(0..MaxBody) /\ stream \in Seq(Units)
      /\ Cut(stream, lengths) /\ Goes(stream, 0, 0, 0)
  <2>1. PICK at \in Cuts(n) :
          /\ lengths = [i \in 1..n |-> at[i + 1] - at[i] - 1] /\ lengths \in Seq(0..MaxBody)
          /\ stream = UnitsOf(n, at)
    BY <1>1
  <2>2. PICK ls : ls = lengths
    OBVIOUS
  <2>3. UnitsOf(n, at) \in Seq(Units) /\ Cut(UnitsOf(n, at), ls) /\ Goes(UnitsOf(n, at), 0, 0, 0)
    BY <1>2, <2>1, <2>2, ClientSends
  <2> QED  BY <2>1, <2>2, <2>3
<1>4. /\ inbox = <<>> /\ buf = <<>> /\ body = <<>> /\ peer = "open" /\ current = 0 /\ next = "none"
      /\ closeAfter = FALSE /\ answered = <<>> /\ op = "head" /\ opState = "kernel"
  BY DEF Init
<1>5. DataOK
  <2>1. /\ inbox \in Seq(Units) /\ buf \in Seq(Units) /\ body \in Seq(Units)
        /\ answered \in Seq(0..MaxRequests)
    BY <1>4, EmptySeq, Zenon
  <2>2. current \in 0..MaxRequests
    BY <1>4, BoundAssumption
  <2> QED  BY <1>3, <1>4, <2>1, <2>2 DEF DataOK
<1>6. Unread = stream
  BY <1>3, <1>4, ConcatEmptySeq DEF Unread
<1>7. HeadingInv /\ BodyInv /\ ReadInv /\ KeptInv /\ AnsweredInOrder
  <2>1. HeadingInv
    BY <1>3, <1>4, <1>6 DEF HeadingInv
  <2>2. BodyInv /\ ReadInv /\ KeptInv /\ AnsweredInOrder
    BY <1>4 DEF BodyInv, InBody, ReadInv, KeptInv, AnsweredInOrder
  <2> QED  BY <2>1, <2>2
<1> QED  BY <1>3, <1>4, <1>5, <1>6, <1>7 DEF StreamInv

LEMMA NextStream == StreamInv /\ [Next]_vars => StreamInv'
<1> SUFFICES ASSUME StreamInv, [Next]_vars PROVE StreamInv'
  OBVIOUS
<1>1. CASE Send \/ Hangup("eof") \/ Hangup("reset") \/ ReadUntil \/ ReadExactly
  BY <1>1, ArrivalKeeps
<1>2. CASE WriteDone \/ OpFails \/ TimerExpires \/ UNCHANGED vars
  BY <1>2, QuietCarries, CarriesKeeps
<1>3. ASSUME NEW w \in Workers, WorkerStep(w) PROVE StreamInv'
  <2>1. CASE OnBadHead(w)  BY <2>1, BadHeadKeeps
  <2>2. CASE OnHead(w)     BY <2>2, HeadKeeps
  <2>3. CASE OnBody(w)     BY <2>3, BodyKeeps
  <2>4. CASE \/ OnError(w) \/ OnWritten(w) \/ ArmTimer(w) \/ StartOp(w) \/ OnTimeout(w)
             \/ OnAborted(w) \/ CancelTimer(w) \/ CloseSocket(w)
    BY <2>4, QuietCarries, CarriesKeeps
  <2> QED  BY <1>3, <2>1, <2>2, <2>3, <2>4 DEF WorkerStep
<1> QED  BY <1>1, <1>2, <1>3 DEF Next, KernelStep

LEMMA StreamInvariant == Spec => []StreamInv
  BY InitStream, NextStream, PTL DEF Spec

\* Every variable of a session has its type, in every state.
THEOREM SessionTypes == Spec => []TypeOK
<1>1. IInv /\ StreamInv => TypeOK
  BY DEF IInv, ControlOK, StreamInv, DataOK, TypeOK, Ops
<1> QED  BY <1>1, SessionInvariant, StreamInvariant, PTL

\* However a client's bytes arrive, the next head is looked for exactly where
\* the last body ended, and no request is answered, and its connection kept,
\* without its own whole body (handleHead, doReadBody).
THEOREM RequestsAreCutRight == Spec => []RequestsAreCut
<1>1. StreamInv => RequestsAreCut
  BY HeadIsFirst DEF StreamInv, KeptInv, BodyIsItsOwn, RequestsAreCut
<1> QED  BY <1>1, StreamInvariant, PTL

\* The responses go out one per request and in the order of the requests.
THEOREM ResponsesKeepTheOrder == Spec => []AnsweredInOrder
<1>1. StreamInv => AnsweredInOrder
  BY DEF StreamInv
<1> QED  BY <1>1, StreamInvariant, PTL
=============================================================================
