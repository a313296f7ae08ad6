----------------------------- MODULE EchoServer ------------------------------
(***************************************************************************)
(* EchoServer's sessions (src/asio/echo_server.cpp) over the accept loop   *)
(* of AsioServer: each reads into its one buffer, writes that back, and    *)
(* only then reads again.  Bytes of a client are numbered.                 *)
(***************************************************************************)
EXTENDS AsioServer

CONSTANTS
  BufferSize,  \* sizeof(buffer_)
  MaxBytes     \* per client: bound on what it sends

ASSUME BufferAssumption == BufferSize \in Nat

VARIABLES
  sent,     \* per client: bytes it has sent
  hungUp,   \* per client: it has closed
  session,  \* per client: [ops, taken, buffer, left]
  echoed    \* per client: bytes it has got back

vars == <<serverVars, sent, hungUp, session, echoed>>
sessionVars == <<sent, hungUp, session, echoed>>

\* ops: operations outstanding; taken: bytes read so far; buffer: the cells of
\* buffer_ in use; left: those an async_write has still to send.
NewSession == [ops |-> {}, taken |-> 0, buffer |-> <<>>, left |-> {}]

Init ==
  /\ ServerInit
  /\ sent = [c \in Clients |-> 0] /\ hungUp = [c \in Clients |-> FALSE]
  /\ session = [c \in Clients |-> NewSession]
  /\ echoed = [c \in Clients |-> <<>>]

DoRead(s) == [s EXCEPT !.ops = @ \union {"read"}]

DoWrite(s, n) == [s EXCEPT !.ops = @ \union {"write"}, !.left = 1..n]

\* Session::start.
Start(w) ==
  /\ HandleAccept(w)
  /\ session' = [c \in Clients |->
       IF c = worker[w].got THEN DoRead(session[c]) ELSE session[c]]
  /\ UNCHANGED <<sent, hungUp, echoed>>

Take(w, kind) ==
  /\ At(w) = "idle" /\ ~stopped /\ ready # <<>> /\ Head(ready).kind = kind
  /\ ready' = Tail(ready)
  /\ UNCHANGED <<open, accepts, stopped, worker, caller, signalled, failures,
                 sent, hungUp, echoed>>

\* Mutant: the next read is not put off until the write is done.
OnReadEagerly(s, n) == DoRead(DoWrite(s, n))

\* The handlers: the read's writes what came, the write's reads again.  A
\* handler that gets an error (length 0) drops the last reference.
OnRead(s, n) == DoWrite(s, n)

OnWritten(s, n) == DoRead(s)

HandleRead(w) ==
  /\ Take(w, "read")
  /\ LET c == Head(ready).client  n == Head(ready).length IN
       /\ session' = IF n > 0 THEN [session EXCEPT ![c] = OnRead(@, n)] ELSE session
       /\ client' = IF n > 0 THEN client ELSE [client EXCEPT ![c] = "gone"]

HandleWritten(w) ==
  /\ Take(w, "write")
  /\ LET c == Head(ready).client  n == Head(ready).length IN
       /\ session' = IF n > 0 THEN [session EXCEPT ![c] = OnWritten(@, n)] ELSE session
       /\ client' = IF n > 0 THEN client ELSE [client EXCEPT ![c] = "gone"]

-----------------------------------------------------------------------------
\* The system: asio's operations and the clients.

\* The reactor performs operations inside run(): none after stop().
Completes(c, op, n) ==
  /\ ~stopped
  /\ ready' = Append(ready, Completion(op, c, n))
  /\ UNCHANGED <<client, open, accepts, stopped, worker, caller, signalled, failures>>

\* async_read_some: up to BufferSize of the bytes that have come, into the
\* front of buffer_.
ReadSome(c, n) ==
  /\ "read" \in session[c].ops
  /\ n <= BufferSize /\ session[c].taken + n <= sent[c]
  /\ Completes(c, "read", n)
  /\ session' = [session EXCEPT ![c].ops = @ \ {"read"},
                   ![c].taken = @ + n,
                   ![c].buffer = [i \in 1..n |-> session[c].taken + i]
                                 \o SubSeq(@, n + 1, Len(@))]
  /\ UNCHANGED <<sent, hungUp, echoed>>

ReadEnds(c) ==
  /\ "read" \in session[c].ops /\ hungUp[c] /\ session[c].taken = sent[c]
  /\ Completes(c, "read", 0)
  /\ session' = [session EXCEPT ![c].ops = @ \ {"read"}]
  /\ UNCHANGED <<sent, hungUp, echoed>>

\* async_write sends the cells in order, some at a time.
WriteSome(c) ==
  /\ "write" \in session[c].ops /\ ~hungUp[c]
  /\ LET s == session[c]
         i == CHOOSE i \in s.left : \A j \in s.left : i <= j IN
       /\ echoed' = [echoed EXCEPT ![c] = Append(@, s.buffer[i])]
       /\ session' = [session EXCEPT ![c].left = @ \ {i},
                        ![c].ops = IF s.left = {i} THEN @ \ {"write"} ELSE @]
       /\ IF s.left = {i} THEN Completes(c, "write", i) ELSE ~stopped /\ UNCHANGED serverVars
  /\ UNCHANGED <<sent, hungUp>>

WriteFails(c) ==
  /\ "write" \in session[c].ops /\ hungUp[c]
  /\ Completes(c, "write", 0)
  /\ session' = [session EXCEPT ![c].ops = @ \ {"write"}]
  /\ UNCHANGED <<sent, hungUp, echoed>>

\* What clients do after stop() is not told apart.
Send(c) ==
  /\ ~stopped
  /\ client[c] = "live" /\ ~hungUp[c] /\ sent[c] < MaxBytes[c]
  /\ sent' = [sent EXCEPT ![c] = @ + 1]
  /\ UNCHANGED <<serverVars, hungUp, session, echoed>>

HangUp(c) ==
  /\ ~stopped
  /\ client[c] = "live" /\ ~hungUp[c]
  /\ hungUp' = [hungUp EXCEPT ![c] = TRUE]
  /\ UNCHANGED <<serverVars, sent, session, echoed>>

Destroy == Join /\ session' = [c \in Clients |-> [session[c] EXCEPT !.ops = {}]]
                /\ UNCHANGED <<sent, hungUp, echoed>>

SessionStep(w) == Start(w) \/ HandleRead(w) \/ HandleWritten(w)

Io(c) == \/ \E n \in 1..BufferSize : ReadSome(c, n)
         \/ ReadEnds(c) \/ WriteSome(c) \/ WriteFails(c)

Next ==
  \/ \E w \in Workers : SessionStep(w) \/ (WorkerStep(w) /\ UNCHANGED sessionVars)
  \/ (Run \/ Spawn \/ BeginDestroy \/ CallerCloses \/ CallerStops
       \/ AcceptFails \/ Signal) /\ UNCHANGED sessionVars
  \/ Destroy
  \/ \E c \in Clients :
       \/ (Connect(c) \/ AcceptCompletes(c)) /\ UNCHANGED sessionVars
       \/ Io(c) \/ Send(c) \/ HangUp(c)

Spec == Init /\ [][Next]_vars

\* Threads that can run do; the kernel completes what it can; a stop() once
\* begun is finished.  Nothing is asked of the clients, signals or callers.
FairSpec ==
  /\ Spec
  /\ \A w \in Workers :
       WF_vars(SessionStep(w) \/ (WorkerStep(w) /\ UNCHANGED sessionVars))
  /\ WF_vars((Run \/ Spawn \/ CallerStops) /\ UNCHANGED sessionVars)
  /\ WF_vars(Destroy)
  /\ \A c \in Clients : /\ WF_vars(AcceptCompletes(c) /\ UNCHANGED sessionVars)
                        /\ WF_vars(Io(c))

-----------------------------------------------------------------------------
(* A client gets its own bytes back, each once and in order: the buffer is *)
(* not read into before it has been written out.                           *)
EchoesInOrder ==
  \A c \in Clients : echoed[c] = [i \in 1..Len(echoed[c]) |-> i]

(* A client that connects is accepted, after accepts that failed too,      *)
(* unless the server is stopped.                                           *)
ClientsAreAccepted ==
  \A c \in Clients : client[c] = "queued" ~> client[c] # "queued" \/ ~open

(* include/csl/asio/http_server.h:91: run() blocks until stop() is called  *)
(* or a signal comes.  Whoever stops the server, at whatever step of the   *)
(* accept loop and once or twice, every thread leaves run().               *)
StopEndsRun ==
  (stopped \/ signalled) /\ At(Main) # "constructed"
    ~> \A w \in Workers :
         At(w) \in {"unborn", "left", "destroy", "destroyStop", "join", "destroyed"}
=============================================================================
