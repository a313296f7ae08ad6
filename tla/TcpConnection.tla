---------------------------- MODULE TcpConnection ----------------------------
(***************************************************************************)
(* One TcpConnection of src_epoll/net/TcpConnection.cpp: its loop thread   *)
(* (poll, Channel::handleEvent, queued functors), foreign threads that     *)
(* call send() and shutdown(), the kernel's socket and the peer.           *)
(*                                                                         *)
(* The loop thread's queue has the semantics of FunctorQueue, which        *)
(* EventLoop implements.  Assertions are active (the Debug build the       *)
(* README recommends): one that fails ends the process, and so does        *)
(* SIGPIPE, which nothing in the program ignores.                          *)
(***************************************************************************)
EXTENDS Naturals, Sequences, ChannelPoller

CONSTANTS
  Threads,      \* threads other than the connection's loop thread
  Messages,     \* messages that are sent, each of them once
  MsgLen,       \* length of a message, in units
  SendSpace,    \* room in the socket's send buffer, in units
  MaxInput,     \* bound: chunks the peer sends
  MaxShutdowns  \* bound: calls of shutdown()

ASSUME LengthAssumption == MsgLen \in Nat \ {0} /\ SendSpace \in Nat \ {0}
ASSUME BoundAssumption == MaxInput \in Nat /\ MaxShutdowns \in Nat

VARIABLES
  state,     \* state_
  ch,        \* channel_ and its registration with the poller
  output,    \* outputBuffer_: units <<m, i>>
  ups, downs,  \* calls of connectionCallback_ for a connect and a disconnect
  removal,   \* the closeCallback's path: "none", "posted" to the server's
             \* loop, "queued" in the connection's loop, "done"
  died,      \* "no", or how the process ended: "closedTwice" (handleClose's
             \* assert), "assert" (any other one) or "sigpipe"
  pc,        \* what the loop thread is doing with this connection
  revents,   \* revents_ of the dispatch in progress
  tasks,     \* functors queued in the loop, oldest first
  caller,    \* per foreign thread: the message send() is about to queue
  fresh,     \* messages nobody has sent yet
  accepted,  \* history: units of the messages sendInLoop took, in order
  written,   \* history: units the kernel took, in order
  inKernel,  \* units in the socket's send buffer
  finSent,   \* shutdownWrite() has been called
  arrived,   \* chunks in the socket's receive buffer
  peer,      \* "open", "fin" or "rst"
  sockError, \* the error the socket has to report: "reset" (ECONNRESET) after
             \* a reset, "pipe" (EPIPE) when the peer had closed before
  inputs, shutdowns  \* bounded counters

connVars   == <<state, ch, output, downs, removal, died>>
kernelVars == <<written, inKernel, finSent, arrived, peer, sockError>>
callVars   == <<caller, fresh, shutdowns>>
vars == <<state, ch, output, ups, downs, removal, died, pc, revents, tasks, caller,
          fresh, accepted, written, inKernel, finSent, arrived, peer, sockError,
          inputs, shutdowns>>

Nobody == "none"
Units == Messages \X (1..MsgLen)
UnitsOf(m) == [i \in 1..MsgLen |-> <<m, i>>]

Task(what) == [what |-> what, msg |-> Nobody]
SendTask(m) == [what |-> "send", msg |-> m]
Tasks == [what : {"establish", "send", "shutdown", "complete", "destroy"},
          msg : Messages \union {Nobody}]

States == {"Connecting", "Connected", "Disconnecting", "Disconnected"}
Stages == {"idle", "polled", "close", "error", "read", "message", "write"}

TypeOK ==
  /\ state \in States
  /\ ch \in ChannelRecord
  /\ output \in Seq(Units) /\ accepted \in Seq(Units) /\ written \in Seq(Units)
  /\ ups \in Nat /\ downs \in Nat
  /\ removal \in {"none", "posted", "queued", "done"}
  /\ died \in {"no", "closedTwice", "assert", "sigpipe"}
  /\ pc \in Stages
  /\ revents \in SUBSET {"IN", "OUT", "ERR", "HUP"}
  /\ tasks \in Seq(Tasks)
  /\ caller \in [Threads -> Messages \union {Nobody}]
  /\ fresh \in SUBSET Messages
  /\ inKernel \in 0..SendSpace
  /\ finSent \in BOOLEAN
  /\ arrived \in Nat
  /\ peer \in {"open", "fin", "rst"}
  /\ sockError \in {"no", "reset", "pipe"}
  /\ inputs \in 0..MaxInput
  /\ shutdowns \in 0..MaxShutdowns

\* newConnection has made the connection and posted connectEstablished.
Init ==
  /\ state = "Connecting"
  /\ ch = NewChannel
  /\ output = <<>> /\ accepted = <<>> /\ written = <<>>
  /\ ups = 0 /\ downs = 0
  /\ removal = "none" /\ died = "no"
  /\ pc = "idle" /\ revents = {}
  /\ tasks = <<Task("establish")>>
  /\ caller = [t \in Threads |-> Nobody]
  /\ fresh = Messages
  /\ inKernel = 0 /\ finSent = FALSE
  /\ arrived = 0 /\ peer = "open" /\ sockError = "no"
  /\ inputs = 0 /\ shutdowns = 0

Alive == died = "no"

-----------------------------------------------------------------------------
(* The pieces the handlers share.                                          *)

\* A bug: closeCallback_ is not called.
CloseUnannounced ==
  IF state \in {"Connected", "Disconnecting"}
    THEN /\ state' = "Disconnected"
         /\ ch' = DisableAll(ch)
         /\ downs' = downs + 1
         /\ UNCHANGED <<output, removal, died>>
    ELSE died' = "closedTwice" /\ UNCHANGED <<state, ch, output, downs, removal>>

\* handleClose: asserts that the connection is not closed yet, stops all
\* events, calls connectionCallback_, then closeCallback_, which asks the
\* server's loop to remove the connection.
HandleClose ==
  IF state \in {"Connected", "Disconnecting"}
    THEN /\ state' = "Disconnected"
         /\ ch' = DisableAll(ch)
         /\ downs' = downs + 1
         /\ removal' = "posted"
         /\ UNCHANGED <<output, died>>
    ELSE /\ died' = "closedTwice"
         /\ UNCHANGED <<state, ch, output, downs, removal>>

WouldBlock == ~finSent /\ peer # "rst" /\ inKernel = SendSpace

\* How many of the units of s write() takes, and which it leaves.
Taken(s) == IF Len(s) <= SendSpace - inKernel THEN Len(s) ELSE SendSpace - inKernel
Left(s) == SubSeq(s, Taken(s) + 1, Len(s))

WriteFits(s) ==
  /\ ~finSent /\ peer # "rst" /\ inKernel < SendSpace
  /\ written' = written \o SubSeq(s, 1, Taken(s))
  /\ inKernel' = inKernel + Taken(s)

\* write() on a reset socket returns the pending error once.
WriteFails ==
  /\ sockError = "reset"
  /\ sockError' = "no"
  /\ UNCHANGED <<written, inKernel, finSent, arrived, peer>>

\* write() raises SIGPIPE after shutdownWrite(), and on a reset socket whose
\* error has been reported or is EPIPE itself.
WriteKills ==
  /\ finSent \/ peer = "rst"
  /\ sockError # "reset"
  /\ died' = "sigpipe"
  /\ UNCHANGED <<state, ch, output, downs, removal, kernelVars>>

\* sendInLoop writes directly only when nothing is waiting.
AlwaysDirect == TRUE   \* a bug: a direct write overtakes the backlog
MayWriteDirectly == ~ch.writing /\ output = <<>>

\* sendInLoop(m): queued is the loop's queue without the functor that calls it.
SendInLoop(m, queued) ==
  IF state = "Disconnected"
  THEN /\ tasks' = queued
       /\ UNCHANGED <<connVars, kernelVars, accepted>>
  ELSE
    /\ accepted' = accepted \o UnitsOf(m)
    /\ IF MayWriteDirectly
       THEN \/ /\ WriteFits(UnitsOf(m)) /\ UNCHANGED <<finSent, arrived, peer, sockError>>
               /\ output' = Left(UnitsOf(m))
               /\ IF output' = <<>>
                    THEN /\ tasks' = Append(queued, Task("complete"))
                         /\ UNCHANGED ch
                    ELSE /\ tasks' = queued
                         /\ ch' = EnableWriting(ch)
               /\ UNCHANGED <<state, downs, removal, died>>
            \/ /\ WouldBlock
               /\ output' = UnitsOf(m)
               /\ ch' = EnableWriting(ch)
               /\ tasks' = queued
               /\ UNCHANGED <<state, downs, removal, died, kernelVars>>
            \/ /\ WriteFails
               /\ HandleClose
               /\ tasks' = queued
            \/ /\ WriteKills
               /\ tasks' = queued
       ELSE /\ output' = output \o UnitsOf(m)
            /\ ch' = IF ch.writing THEN ch ELSE EnableWriting(ch)
            /\ tasks' = queued
            /\ UNCHANGED <<state, downs, removal, died, kernelVars>>

\* A bug: the FIN does not wait for the backlog.
ShutdownAtOnce ==
  IF state = "Connected"
    THEN state' = "Disconnecting" /\ finSent' = TRUE
    ELSE UNCHANGED <<state, finSent>>

\* The functor of shutdown(), with shutdownInLoop: the FIN goes out now only
\* when nothing waits to be written.
ShutdownInLoop ==
  IF state = "Connected"
    THEN /\ state' = "Disconnecting"
         /\ finSent' = (finSent \/ ~ch.writing)
    ELSE UNCHANGED <<state, finSent>>

-----------------------------------------------------------------------------
(* Functors that the loop runs, and code of the program that calls into    *)
(* the connection from its loop thread.                                    *)

\* The first functor of the queue is of this kind, and is taken.
TakeTask(what) ==
  /\ Alive
  /\ pc = "idle"
  /\ tasks # <<>>
  /\ Head(tasks).what = what
  /\ UNCHANGED <<revents, caller, fresh, inputs, shutdowns>>

ConnectEstablished ==
  /\ TakeTask("establish")
  /\ tasks' = Tail(tasks)
  /\ IF state = "Connecting"
       THEN /\ state' = "Connected"
            /\ ch' = EnableReading(ch)
            /\ ups' = ups + 1
            /\ UNCHANGED died
       ELSE /\ died' = "assert"
            /\ UNCHANGED <<state, ch, ups>>
  /\ UNCHANGED <<output, downs, removal, pc, accepted, kernelVars>>

RunSend ==
  /\ TakeTask("send")
  /\ SendInLoop(Head(tasks).msg, Tail(tasks))
  /\ UNCHANGED <<ups, pc>>

RunShutdown ==
  /\ TakeTask("shutdown")
  /\ tasks' = Tail(tasks)
  /\ ShutdownInLoop
  /\ UNCHANGED <<ch, output, ups, downs, removal, died, pc, accepted,
                 written, inKernel, arrived, peer, sockError>>

\* writeCompleteCallback_: the program's code, which may call send or shutdown
\* as in any other state of the loop thread.
RunWriteComplete ==
  /\ TakeTask("complete")
  /\ tasks' = Tail(tasks)
  /\ UNCHANGED <<connVars, ups, pc, accepted, kernelVars>>

\* A bug: connectDestroyed announces the disconnect of a closed connection.
DestroyAnnouncing ==
  LET none == IF IsNoneEvent(ch) THEN ch ELSE DisableAll(ch)
  IN  /\ state' = "Disconnected"
      /\ downs' = downs + 1
      /\ ch' = RemoveChannel(none) /\ removal' = "done"
      /\ UNCHANGED <<output, died>>

\* A bug: connectDestroyed does not stop the events of a live connection.
DestroyWatching ==
  /\ state' = "Disconnected"
  /\ downs' = IF state # "Disconnected" THEN downs + 1 ELSE downs
  /\ IF MayRemove(ch)
       THEN ch' = RemoveChannel(ch) /\ removal' = "done" /\ UNCHANGED died
       ELSE died' = "assert" /\ UNCHANGED <<ch, removal>>
  /\ UNCHANGED output

\* connectDestroyed: the channel leaves the poller; the asserts of
\* Channel::remove and removeChannel hold or the process ends.
Destroy ==
  LET none == IF IsNoneEvent(ch) THEN ch ELSE DisableAll(ch)
  IN  /\ state' = "Disconnected"
      /\ downs' = IF state # "Disconnected" THEN downs + 1 ELSE downs
      /\ IF MayRemove(none)
           THEN ch' = RemoveChannel(none) /\ removal' = "done" /\ UNCHANGED died
           ELSE died' = "assert" /\ UNCHANGED <<ch, removal>>
      /\ UNCHANGED output

RunDestroy ==
  /\ TakeTask("destroy")
  /\ tasks' = Tail(tasks)
  /\ Destroy
  /\ UNCHANGED <<ups, pc, accepted, kernelVars>>

\* The owner ends a live connection itself, as tests/net/tcp_test.cpp does.
DestroyHere ==
  /\ Alive /\ pc = "idle"
  /\ state \in {"Connected", "Disconnecting"} /\ removal = "none"
  /\ Destroy
  /\ UNCHANGED <<ups, pc, revents, tasks, callVars, accepted, kernelVars, inputs>>

\* The program's code runs in the loop thread: another channel's handler or
\* functor ("idle"; "polled" when this channel is waiting in activeChannels_),
\* or the message callback of this connection.
InUserCode == Alive /\ pc \in {"idle", "polled", "message"}

\* send() called there: no queue in between.
SendHere(m) ==
  /\ InUserCode
  /\ m \in fresh
  /\ fresh' = fresh \ {m}
  /\ IF state = "Connected"
       THEN SendInLoop(m, tasks)
       ELSE UNCHANGED <<connVars, kernelVars, accepted, tasks>>
  /\ UNCHANGED <<ups, pc, revents, caller, inputs, shutdowns>>

ShutdownHere ==
  /\ InUserCode
  /\ shutdowns < MaxShutdowns
  /\ shutdowns' = shutdowns + 1
  /\ ShutdownInLoop
  /\ UNCHANGED <<ch, output, ups, downs, removal, died, pc, revents, tasks, caller,
                 fresh, accepted, written, inKernel, arrived, peer, sockError, inputs>>

-----------------------------------------------------------------------------
(* Poll, and Channel::handleEvent with its four callbacks in order.        *)

\* What epoll reports of the socket.
Pollable ==
  LET in  == ch.reading /\ (arrived > 0 \/ peer # "open")
      out == ch.writing /\ (inKernel < SendSpace \/ finSent \/ peer = "rst")
      err == sockError # "no"
      hup == peer = "rst" \/ (peer = "fin" /\ finSent)
  IN  {e \in {"IN", "OUT", "ERR", "HUP"} :
         (e = "IN" => in) /\ (e = "OUT" => out) /\ (e = "ERR" => err) /\ (e = "HUP" => hup)}

Poll ==
  /\ Alive
  /\ pc = "idle"
  /\ ch.registered
  /\ Pollable # {}
  /\ revents' = Pollable
  /\ pc' = "polled"
  /\ UNCHANGED <<connVars, ups, tasks, callVars, accepted, kernelVars, inputs>>

\* handleEvent goes from one event to the next; a failed assertion stops it.
Stage(from, to) == Alive /\ pc = from /\ pc' = to

HandleEvent ==
  /\ Stage("polled", "close")
  /\ UNCHANGED <<connVars, ups, revents, tasks, callVars, accepted, kernelVars, inputs>>

\* EPOLLHUP without EPOLLIN: closeCallback_.
OnHup ==
  /\ Stage("close", "error")
  /\ IF "HUP" \in revents /\ "IN" \notin revents THEN HandleClose ELSE UNCHANGED connVars
  /\ UNCHANGED <<ups, revents, tasks, callVars, accepted, kernelVars, inputs>>

\* EPOLLERR: errorCallback_, handleError, handleClose.
OnError ==
  /\ Stage("error", "read")
  /\ IF "ERR" \in revents THEN HandleClose ELSE UNCHANGED connVars
  /\ UNCHANGED <<ups, revents, tasks, callVars, accepted, kernelVars, inputs>>

NoRead ==
  /\ Stage("read", "write")
  /\ "IN" \notin revents
  /\ UNCHANGED <<connVars, ups, revents, tasks, callVars, accepted, kernelVars, inputs>>

\* handleRead when readv() returns data: the message callback follows.
ReadData ==
  /\ Stage("read", "message")
  /\ "IN" \in revents
  /\ arrived > 0
  /\ arrived' = 0
  /\ UNCHANGED <<connVars, ups, revents, tasks, callVars, accepted,
                 written, inKernel, finSent, peer, sockError, inputs>>

MessageReturn ==
  /\ Stage("message", "write")
  /\ UNCHANGED <<connVars, ups, revents, tasks, callVars, accepted, kernelVars, inputs>>

\* handleRead at the end of the stream, or with an error: handleClose.
ReadEnds ==
  /\ Stage("read", "write")
  /\ "IN" \in revents
  /\ arrived = 0 /\ peer # "open"
  /\ HandleClose
  /\ sockError' = IF sockError = "reset" THEN "no" ELSE sockError
  /\ UNCHANGED <<ups, revents, tasks, callVars, accepted,
                 written, inKernel, finSent, arrived, peer, inputs>>

\* handleWrite.  A channel that stopped writing since the poll takes the
\* defensive branch.
NoWrite ==
  /\ Stage("write", "idle")
  /\ "OUT" \notin revents
  /\ UNCHANGED <<connVars, ups, revents, tasks, callVars, accepted, kernelVars, inputs>>

WriteUnexpected ==
  /\ Stage("write", "idle")
  /\ "OUT" \in revents /\ ~ch.writing
  /\ ch' = DisableWriting(ch)
  /\ UNCHANGED <<state, output, ups, downs, removal, died, revents, tasks, callVars,
                 accepted, kernelVars, inputs>>

\* handleWrite carries out a shutdown() that found a backlog.
FinForgotten == finSent   \* a bug: nobody does
FinIsDue == state = "Disconnecting"

\* Some or all of the output buffer is written; with the last of it, write
\* events stop, writeComplete is queued, and a pending shutdown sends the FIN.
WriteOut ==
  /\ Stage("write", "idle")
  /\ "OUT" \in revents /\ ch.writing
  /\ WriteFits(output)
  /\ output' = Left(output)
  /\ IF output' = <<>>
       THEN /\ ch' = DisableWriting(ch)
            /\ tasks' = Append(tasks, Task("complete"))
            /\ finSent' = FinIsDue
       ELSE UNCHANGED <<ch, tasks, finSent>>
  /\ UNCHANGED <<state, ups, downs, removal, died, revents, callVars, accepted,
                 arrived, peer, sockError, inputs>>

\* write() fails, or the buffer has filled up again (EAGAIN).
WriteOutFails ==
  /\ Stage("write", "idle")
  /\ "OUT" \in revents /\ ch.writing
  /\ \/ WriteFails /\ HandleClose
     \/ WriteKills
     \/ WouldBlock /\ UNCHANGED <<connVars, kernelVars>>
  /\ UNCHANGED <<ups, revents, tasks, callVars, accepted, inputs>>

-----------------------------------------------------------------------------
(* Foreign threads, the server's loop, the peer.                           *)

\* send() from thread t: state_ is read first, the functor is queued later.
SendChecks(t, m) ==
  /\ Alive
  /\ caller[t] = Nobody
  /\ m \in fresh
  /\ fresh' = fresh \ {m}
  /\ caller' = IF state = "Connected" THEN [caller EXCEPT ![t] = m] ELSE caller
  /\ UNCHANGED <<connVars, ups, pc, revents, tasks, accepted, kernelVars, inputs, shutdowns>>

SendQueues(t) ==
  /\ Alive
  /\ caller[t] # Nobody
  /\ tasks' = Append(tasks, SendTask(caller[t]))
  /\ caller' = [caller EXCEPT ![t] = Nobody]
  /\ UNCHANGED <<connVars, ups, pc, revents, fresh, accepted, kernelVars, inputs, shutdowns>>

Shutdown(t) ==
  /\ Alive
  /\ caller[t] = Nobody
  /\ shutdowns < MaxShutdowns
  /\ shutdowns' = shutdowns + 1
  /\ tasks' = Append(tasks, Task("shutdown"))
  /\ UNCHANGED <<connVars, ups, pc, revents, caller, fresh, accepted, kernelVars, inputs>>

\* TcpServer::removeConnectionInLoop in the server's loop.
RemoveConnection ==
  /\ Alive
  /\ removal = "posted"
  /\ removal' = "queued"
  /\ tasks' = Append(tasks, Task("destroy"))
  /\ UNCHANGED <<state, ch, output, ups, downs, died, pc, revents, callVars, accepted,
                 kernelVars, inputs>>

PeerSends ==
  /\ Alive
  /\ peer = "open"
  /\ inputs < MaxInput
  /\ inputs' = inputs + 1
  /\ arrived' = arrived + 1
  /\ UNCHANGED <<connVars, ups, pc, revents, tasks, callVars, accepted,
                 written, inKernel, finSent, peer, sockError>>

PeerReads ==
  /\ Alive
  /\ peer # "rst"
  /\ inKernel > 0
  /\ inKernel' = inKernel - 1
  /\ UNCHANGED <<connVars, ups, pc, revents, tasks, callVars, accepted,
                 written, finSent, arrived, peer, sockError, inputs>>

PeerCloses ==
  /\ Alive
  /\ peer = "open"
  /\ peer' = "fin"
  /\ UNCHANGED <<connVars, ups, pc, revents, tasks, callVars, accepted,
                 written, inKernel, finSent, arrived, sockError, inputs>>

PeerResets ==
  /\ Alive
  /\ peer # "rst"
  /\ peer' = "rst"
  /\ sockError' = IF peer = "fin" THEN "pipe" ELSE "reset"
  /\ inKernel' = 0
  /\ UNCHANGED <<connVars, ups, pc, revents, tasks, callVars, accepted,
                 written, finSent, arrived, inputs>>

-----------------------------------------------------------------------------
LoopStep ==
  \/ ConnectEstablished \/ RunSend \/ RunShutdown \/ RunWriteComplete \/ RunDestroy
  \/ Poll \/ HandleEvent \/ OnHup \/ OnError \/ NoRead \/ ReadData \/ MessageReturn
  \/ ReadEnds \/ NoWrite \/ WriteUnexpected \/ WriteOut \/ WriteOutFails

UserStep == DestroyHere \/ ShutdownHere \/ \E m \in Messages : SendHere(m)

ForeignStep(t) == SendQueues(t) \/ Shutdown(t) \/ \E m \in Messages : SendChecks(t, m)

PeerStep == PeerSends \/ PeerReads \/ PeerCloses \/ PeerResets

Next ==
  \/ LoopStep \/ UserStep \/ RemoveConnection \/ PeerStep
  \/ \E t \in Threads : ForeignStep(t)

Spec == Init /\ [][Next]_vars

\* The loop thread polls and runs its functors, both again and again (a
\* loop iteration does both), and the server's loop runs too.
FairSpec == /\ Spec
            /\ WF_vars(LoopStep)
            /\ SF_vars(Poll)
            /\ SF_vars(ConnectEstablished \/ RunSend \/ RunShutdown
                         \/ RunWriteComplete \/ RunDestroy)
            /\ WF_vars(RemoveConnection)

-----------------------------------------------------------------------------
(* Properties.                                                             *)

Live == state \in {"Connected", "Disconnecting"} /\ Alive

\* Partial writes, the output buffer and direct writes never lose, repeat or
\* reorder a byte of an open connection (sendInLoop, handleWrite).
NothingLostOrReordered == Live => written \o output = accepted

\* Write events are wanted exactly while there is something to write: a
\* backlog without them would stay for ever, and without a backlog the loop
\* would spin on EPOLLOUT.
WritingMeansBacklog == Live => (ch.writing <=> output # <<>>)

\* shutdown() half-closes only after everything accepted before it is
\* written (shutdownInLoop and the end of handleWrite).
FinAfterBacklog == finSent /\ Live => output = <<>>

\* connectionCallback_ announces a connect once, and later a disconnect once.
CallbacksPaired == downs <= ups /\ ups <= 1 /\ (state = "Disconnected" /\ Alive => downs = ups)

\* The index, the map and the epoll set agree, and a removed channel stays
\* out of the poller: none of the late events, functors or sends brings it back.
ChannelConsistent ==
  /\ Consistent(ch)
  /\ removal = "done" => ch.index = "new" /\ ~ch.added

\* The only assertion that ever fails is handleClose's: the ones of
\* connectEstablished, Channel::remove and removeChannel never do.
OtherAssertsHold == died # "assert"

\* Liveness: a shutdown is carried out, if the peer keeps reading.
ShutdownCompletes ==
  []<>(inKernel < SendSpace) =>
    (state = "Disconnecting" /\ Alive ~> finSent \/ state = "Disconnected" \/ ~Alive)

\* Liveness: a connection that is closed is removed from its loop's poller.
ClosedIsRemoved == state = "Disconnected" /\ Alive ~> removal = "done" \/ ~Alive

\* handleClose asserts that the connection is still open (TcpConnection.cpp:204).
CloseOnce == died # "closedTwice"

\* send() and shutdown() are thread-safe (TcpConnection.h:78-86): no send
\* accepted from another thread is written after the FIN.
NoWriteAfterFin == ~(finSent /\ peer # "rst" /\ died = "sigpipe")
=============================================================================
