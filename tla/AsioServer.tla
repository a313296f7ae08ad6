----------------------------- MODULE AsioServer ------------------------------
(***************************************************************************)
(* What the asio HttpServer and EchoServer share (src/asio/http_server.cpp,*)
(* echo_server.cpp): the accept loop run by a pool of threads, and stop(), *)
(* which a signal's handler, the destructor or another thread may call     *)
(* between any two steps of it.  What a session does is left to the module *)
(* that extends this one.                                                  *)
(***************************************************************************)
EXTENDS Naturals, Sequences, FiniteSets, SequencesExt

CONSTANTS
  Workers,      \* the threads in ioContext_.run(), Main among them
  Main,         \* the thread that constructs, runs and destroys the server
  Clients,
  NoClient,
  MaxFailures,  \* bound on accepts that fail (EMFILE, ECONNABORTED)
  MaxStops      \* bound on stops, by a signal or by another thread, that come
                \* besides the destructor's

ASSUME ServerAssumption == Main \in Workers /\ NoClient \notin Clients

VARIABLES
  client,    \* per client: "away", "queued" (by listen), "live", "gone"
  open,      \* acceptor_.is_open()
  accepts,   \* how many async_accept are outstanding
  ready,     \* completions queued in ioContext_, oldest first
  stopped,   \* ioContext_.stopped()
  worker,    \* per worker: [at, got], got the client its accept has brought
  caller,    \* where a stop() of yet another thread is
  signalled, \* a signal has come
  failures   \* accepts that have failed

serverVars ==
  <<client, open, accepts, ready, stopped, worker, caller, signalled, failures>>

At(w) == worker[w].at
Goto(w, at) == worker' = [worker EXCEPT ![w].at = at]

Completion(kind, c, n) == [kind |-> kind, client |-> c, length |-> n]

\* The constructor: a listening acceptor and a wait for a signal.
ServerInit ==
  /\ client = [c \in Clients |-> "away"]
  /\ open = TRUE /\ accepts = 0 /\ ready = <<>> /\ stopped = FALSE
  /\ worker = [w \in Workers |->
       [at |-> IF w = Main THEN "constructed" ELSE "unborn", got |-> NoClient]]
  /\ caller = "none" /\ signalled = FALSE /\ failures = 0

-----------------------------------------------------------------------------
\* acceptor_.async_accept.  On a closed acceptor it fails at once.
DoAccept ==
  IF open THEN accepts' = accepts + 1 /\ UNCHANGED ready
  ELSE ready' = Append(ready, Completion("accept", NoClient, 0)) /\ UNCHANGED accepts

\* acceptor_.close(): outstanding accepts are aborted.
CloseAcceptor ==
  /\ open' = FALSE /\ accepts' = 0
  /\ ready' = ready \o [i \in 1..accepts |-> Completion("accept", NoClient, 0)]

Run ==
  /\ At(Main) = "constructed"
  /\ DoAccept
  /\ Goto(Main, "spawn")
  /\ UNCHANGED <<client, open, stopped, caller, signalled, failures>>

\* run() starts the other threads, then enters ioContext_.run() itself.
Spawn ==
  /\ At(Main) = "spawn"
  /\ worker' =
       IF \E w \in Workers : At(w) = "unborn"
       THEN [worker EXCEPT ![CHOOSE w \in Workers : At(w) = "unborn"].at = "idle"]
       ELSE [worker EXCEPT ![Main].at = "idle"]
  /\ UNCHANGED <<client, open, accepts, ready, stopped, caller, signalled, failures>>

\* ioContext_.run() returns when the context is stopped; the wait for a
\* signal keeps it from running out of work before.
LeaveRun(w) ==
  /\ At(w) = "idle" /\ stopped
  /\ Goto(w, "left")
  /\ UNCHANGED <<client, open, accepts, ready, stopped, caller, signalled, failures>>

\* A worker takes the oldest completion: of the acceptor ...
TakeAccept(w) ==
  /\ At(w) = "idle" /\ ~stopped /\ ready # <<>> /\ Head(ready).kind = "accept"
  /\ worker' = [worker EXCEPT ![w] = [at |-> "accepted", got |-> Head(ready).client]]
  /\ ready' = Tail(ready)
  /\ UNCHANGED <<client, open, accepts, stopped, caller, signalled, failures>>

\* ... or of the signal set, whose handler calls stop().
TakeSignal(w) ==
  /\ At(w) = "idle" /\ ~stopped /\ ready # <<>> /\ Head(ready).kind = "signal"
  /\ Goto(w, "close")
  /\ ready' = Tail(ready)
  /\ UNCHANGED <<client, open, accepts, stopped, caller, signalled, failures>>

\* Mutants: an accept that failed is retried at once, and once more at the
\* end of the handler; or it ends the loop.
HandleAcceptRetrying(w) ==
  /\ At(w) = "accepted"
  /\ IF worker[w].got = NoClient THEN DoAccept ELSE UNCHANGED <<accepts, ready>>
  /\ worker' = [worker EXCEPT ![w] = [at |-> "test", got |-> NoClient]]
  /\ client' = [c \in Clients |-> IF c = worker[w].got THEN "live" ELSE client[c]]
  /\ UNCHANGED <<open, stopped, caller, signalled, failures>>

HandleAcceptOrGiveUp(w) ==
  /\ At(w) = "accepted"
  /\ worker' = [worker EXCEPT ![w] =
       [at |-> IF @.got = NoClient THEN "idle" ELSE "test", got |-> NoClient]]
  /\ client' = [c \in Clients |-> IF c = worker[w].got THEN "live" ELSE client[c]]
  /\ UNCHANGED <<open, accepts, ready, stopped, caller, signalled, failures>>

\* The accept handler: a session starts, or the error is logged ...
HandleAccept(w) ==
  /\ At(w) = "accepted"
  /\ worker' = [worker EXCEPT ![w] = [at |-> "test", got |-> NoClient]]
  /\ client' = [c \in Clients |-> IF c = worker[w].got THEN "live" ELSE client[c]]
  /\ UNCHANGED <<open, accepts, ready, stopped, caller, signalled, failures>>

\* ... is_open() is read ...
TestOpen(w) ==
  /\ At(w) = "test"
  /\ Goto(w, IF open THEN "again" ELSE "idle")
  /\ UNCHANGED <<client, open, accepts, ready, stopped, caller, signalled, failures>>

\* ... and the next accept started, on an acceptor that may be closed by now.
AcceptAgain(w) ==
  /\ At(w) = "again"
  /\ DoAccept
  /\ Goto(w, "idle")
  /\ UNCHANGED <<client, open, stopped, caller, signalled, failures>>

-----------------------------------------------------------------------------
\* stop() in a worker (the signal's handler) or in the destructor.
Closing == [close |-> "stop", destroy |-> "destroyStop"]
Stopping == [stop |-> "idle", destroyStop |-> "join"]

StopCloses(w) ==
  /\ At(w) \in DOMAIN Closing
  /\ CloseAcceptor
  /\ Goto(w, Closing[At(w)])
  /\ UNCHANGED <<client, stopped, caller, signalled, failures>>

\* Mutant: the acceptor is closed and the context is left running.
StopStopsNothing(w) ==
  /\ At(w) \in DOMAIN Stopping
  /\ Goto(w, Stopping[At(w)])
  /\ UNCHANGED <<client, open, accepts, ready, stopped, caller, signalled, failures>>

StopStops(w) ==
  /\ At(w) \in DOMAIN Stopping
  /\ stopped' = TRUE
  /\ Goto(w, Stopping[At(w)])
  /\ UNCHANGED <<client, open, accepts, ready, caller, signalled, failures>>

Stops == Cardinality({x \in {<<"signal", signalled>>, <<"caller", caller # "none">>} : x[2]})

\* stop() in another thread, at any time while the server lives.
CallerCloses ==
  /\ Stops < MaxStops /\ caller = "none" /\ At(Main) \notin {"join", "destroyed"}
  /\ caller' = "stop"
  /\ CloseAcceptor
  /\ UNCHANGED <<client, stopped, worker, signalled, failures>>

CallerStops ==
  /\ caller = "stop"
  /\ caller' = "done" /\ stopped' = TRUE
  /\ UNCHANGED <<client, open, accepts, ready, worker, signalled, failures>>

\* run() has returned, or was never called: the destructor.
BeginDestroy ==
  /\ At(Main) \in {"constructed", "left"}
  /\ Goto(Main, "destroy")
  /\ UNCHANGED <<client, open, accepts, ready, stopped, caller, signalled, failures>>

\* The threads are joined; with the context go the operations that were left,
\* and the sessions they held.
Join ==
  /\ At(Main) = "join" /\ caller # "stop"
  /\ \A w \in Workers \ {Main} : At(w) \in {"unborn", "left"}
  /\ Goto(Main, "destroyed")
  /\ accepts' = 0 /\ ready' = <<>>
  /\ client' = [c \in Clients |-> IF client[c] = "away" THEN "away" ELSE "gone"]
  /\ UNCHANGED <<open, stopped, caller, signalled, failures>>

-----------------------------------------------------------------------------
\* The system.

Connect(c) ==
  /\ client[c] = "away" /\ open
  /\ client' = [client EXCEPT ![c] = "queued"]
  /\ UNCHANGED <<open, accepts, ready, stopped, worker, caller, signalled, failures>>

\* A client that an accept has taken from the queue and no handler has seen.
Brought == {ready[i].client : i \in 1..Len(ready)} \union {worker[w].got : w \in Workers}

AcceptCompletes(c) ==
  /\ ~stopped /\ accepts > 0 /\ client[c] = "queued" /\ c \notin Brought
  /\ accepts' = accepts - 1
  /\ ready' = Append(ready, Completion("accept", c, 0))
  /\ UNCHANGED <<client, open, stopped, worker, caller, signalled, failures>>

AcceptFails ==
  /\ ~stopped /\ accepts > 0 /\ failures < MaxFailures
  /\ accepts' = accepts - 1 /\ failures' = failures + 1
  /\ ready' = Append(ready, Completion("accept", NoClient, 0))
  /\ UNCHANGED <<client, open, stopped, worker, caller, signalled>>

Signal ==
  /\ ~stopped /\ ~signalled /\ Stops < MaxStops
  /\ signalled' = TRUE
  /\ ready' = Append(ready, Completion("signal", NoClient, 0))
  /\ UNCHANGED <<client, open, accepts, stopped, worker, caller, failures>>

WorkerStep(w) ==
  \/ LeaveRun(w) \/ TakeAccept(w) \/ TakeSignal(w)
  \/ TestOpen(w) \/ AcceptAgain(w) \/ StopCloses(w) \/ StopStops(w)

MainStep == Run \/ Spawn \/ Join

-----------------------------------------------------------------------------
\* The steps of the accept handler.
Accepting == {w \in Workers : At(w) \in {"accepted", "test", "again"}}
Queued == {i \in 1..Len(ready) : ready[i].kind = "accept"}

(* The accept loop neither forks nor ends: while the acceptor is open and  *)
(* run() has begun there is one accept, outstanding, completed or in its   *)
(* handler, whatever fails and whoever stops; and never more than one.     *)
OneAccept ==
  LET n == accepts + Cardinality(Queued) + Cardinality(Accepting) IN
  /\ n <= 1
  /\ open /\ At(Main) \notin {"constructed", "destroy"} => n = 1
=============================================================================
