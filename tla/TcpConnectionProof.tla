-------------------------- MODULE TcpConnectionProof -------------------------
(***************************************************************************)
(* What TcpConnection promises for any threads, messages, message length   *)
(* and size of the socket's send buffer: its life cycle (the callbacks, the *)
(* channel's registration, the asserts) and its output (the order of the   *)
(* bytes, the write events, the FIN).                                      *)
(***************************************************************************)
EXTENDS TcpConnection, SequenceTheorems, TLAPS

(***************************************************************************)
(* The life cycle.                                                         *)
(***************************************************************************)
IsOpen == state \in {"Connected", "Disconnecting"}

\* Before connectEstablished, while open, and after the close, the callbacks
\* and the channel are in a state of their own; the closeCallback's path
\* starts with the close.
LifeInv ==
  /\ state \in States
  /\ removal \in {"none", "posted", "queued", "done"}
  /\ ch \in ChannelRecord
  /\ Consistent(ch)
  /\ state = "Connecting" =>
       ups = 0 /\ downs = 0 /\ removal = "none" /\ pc = "idle" /\ ch = NewChannel
  /\ IsOpen => ups = 1 /\ downs = 0 /\ removal = "none" /\ ch.reading
  /\ state = "Disconnected" =>
       ups = 1 /\ downs = 1 /\ removal # "none" /\ IsNoneEvent(ch)
  /\ removal \in {"posted", "queued"} => ch.mapped
  /\ removal = "done" => ch.index = "new" /\ ~ch.added /\ pc = "idle"
  /\ died # "assert"

\* connectEstablished is the first functor of its connection, and
\* connectDestroyed is queued at most once: only while the closeCallback's
\* path has reached the loop.
QueueIs(q, connecting, removing) ==
  /\ q \in Seq(Tasks)
  /\ connecting => q # <<>> /\ q[1].what = "establish"
  /\ \A i \in 1..Len(q) :
       /\ q[i].what = "establish" => i = 1 /\ connecting
       /\ q[i].what = "destroy" => removing
       /\ q[i].what = "send" => q[i].msg \in Messages
  /\ \A i, j \in 1..Len(q) : q[i].what = "destroy" /\ q[j].what = "destroy" => i = j

QueueInv == QueueIs(tasks, state = "Connecting", removal = "queued")

\* send() passes on the message it was called with.
CallInv ==
  /\ caller \in [Threads -> Messages \union {Nobody}]
  /\ fresh \in SUBSET Messages

(***************************************************************************)
(* The output: what is written and what waits is what was accepted, and a  *)
(* FIN is sent only by a shutdown, when nothing waits.                     *)
(***************************************************************************)
OutputInv ==
  /\ output \in Seq(Units) /\ written \in Seq(Units) /\ accepted \in Seq(Units)
  /\ inKernel \in 0..SendSpace
  /\ finSent \in BOOLEAN
  /\ state = "Connecting" => output = <<>> /\ written = <<>> /\ accepted = <<>>
  /\ NothingLostOrReordered
  /\ WritingMeansBacklog
  /\ FinAfterBacklog
  /\ finSent => state \in {"Disconnecting", "Disconnected"}

-----------------------------------------------------------------------------
(* The channel's operations.                                               *)

\* Whatever events are asked for, updateChannel makes the poller's index, its
\* map and the epoll set agree with them, and leaves a channel in the map.
LEMMA UpdateAgrees ==
  ASSUME NEW c \in ChannelRecord,
         c.mapped <=> c.index # "new", c.registered <=> c.index = "added"
  PROVE  /\ UpdateChannel(c) \in ChannelRecord
         /\ Consistent(UpdateChannel(c))
         /\ UpdateChannel(c).reading = c.reading /\ UpdateChannel(c).writing = c.writing
         /\ c.mapped => UpdateChannel(c).mapped
  BY DEF ChannelRecord, UpdateChannel, Consistent, IsNoneEvent

\* The operations built from it, each with the events it leaves wanted.
LEMMA ChannelOperations ==
  ASSUME NEW c \in ChannelRecord, Consistent(c)
  PROVE  /\ \A u \in {EnableReading(c), EnableWriting(c), DisableWriting(c), DisableAll(c)} :
              u \in ChannelRecord /\ Consistent(u) /\ (c.mapped => u.mapped)
         /\ EnableReading(c).reading /\ EnableReading(c).writing = c.writing
         /\ EnableWriting(c).reading = c.reading /\ EnableWriting(c).writing
         /\ DisableWriting(c).reading = c.reading /\ ~DisableWriting(c).writing
         /\ IsNoneEvent(DisableAll(c))
<1> DEFINE Asks(r, w) == [c EXCEPT !.reading = r, !.writing = w]
<1>1. \A r, w \in BOOLEAN :
        LET u == UpdateChannel(Asks(r, w))
        IN  /\ u \in ChannelRecord /\ Consistent(u) /\ (c.mapped => u.mapped)
            /\ u.reading = r /\ u.writing = w
  <2> TAKE r, w \in BOOLEAN
  <2>1. /\ Asks(r, w) \in ChannelRecord
        /\ Asks(r, w).reading = r /\ Asks(r, w).writing = w
        /\ Asks(r, w).index = c.index /\ Asks(r, w).mapped = c.mapped
        /\ Asks(r, w).registered = c.registered
    BY DEF ChannelRecord
  <2>2. c.mapped <=> c.index # "new"
    BY DEF Consistent
  <2>3. c.registered <=> c.index = "added"
    BY DEF Consistent
  <2> HIDE DEF Asks
  <2> QED  BY <2>1, <2>2, <2>3, UpdateAgrees
<1>2. /\ c.reading \in BOOLEAN /\ c.writing \in BOOLEAN
      /\ EnableReading(c) = UpdateChannel(Asks(TRUE, c.writing))
      /\ EnableWriting(c) = UpdateChannel(Asks(c.reading, TRUE))
      /\ DisableWriting(c) = UpdateChannel(Asks(c.reading, FALSE))
      /\ DisableAll(c) = UpdateChannel(Asks(FALSE, FALSE))
  <2>1. c.reading \in BOOLEAN /\ c.writing \in BOOLEAN
    BY DEF ChannelRecord
  <2>2. /\ [c EXCEPT !.reading = TRUE] = Asks(TRUE, c.writing)
        /\ [c EXCEPT !.writing = TRUE] = Asks(c.reading, TRUE)
        /\ [c EXCEPT !.writing = FALSE] = Asks(c.reading, FALSE)
    BY DEF ChannelRecord
  <2> QED  BY <2>1, <2>2 DEF EnableReading, EnableWriting, DisableWriting, DisableAll
<1> HIDE DEF Asks
<1> QED  BY <1>1, <1>2 DEF IsNoneEvent

-----------------------------------------------------------------------------
(* The queue's operations.                                                 *)

\* What the first functor tells about the connection.
LEMMA FirstFunctor ==
  ASSUME NEW q, NEW connecting \in BOOLEAN, NEW removing \in BOOLEAN,
         QueueIs(q, connecting, removing), q # <<>>
  PROVE  /\ connecting <=> Head(q).what = "establish"
         /\ Head(q).what = "destroy" => removing
         /\ Head(q).what = "send" => Head(q).msg \in Messages
<1>1. q \in Seq(Tasks)
  BY DEF QueueIs
<1>2. 1 \in 1..Len(q)
  <2> Len(q) \in Nat \ {0}
    BY <1>1, EmptySeq
  <2> QED OBVIOUS
<1>3. Head(q) = q[1]
  BY <1>1, <1>2
<1> QED  BY <1>2, <1>3, Zenon DEF QueueIs

\* Taking the first functor: the connection is established by then, and a
\* connectDestroyed that is taken was the only one.
LEMMA TailOfQueue ==
  ASSUME NEW q, NEW connecting \in BOOLEAN, NEW removing \in BOOLEAN,
         QueueIs(q, connecting, removing), q # <<>>
  PROVE  QueueIs(Tail(q), FALSE, removing /\ Head(q).what # "destroy")
<1>1. q \in Seq(Tasks)
  BY DEF QueueIs
<1>2. /\ Tail(q) \in Seq(Tasks)
      /\ \A i \in 1..Len(Tail(q)) : Tail(q)[i] = q[i + 1]
      /\ Len(Tail(q)) = Len(q) - 1 /\ Len(q) \in Nat \ {0}
      /\ Head(q) = q[1]
  <2>1. Len(q) \in Nat \ {0}
    BY <1>1, EmptySeq
  <2> QED  BY <1>1, <2>1, HeadTailProperties
<1>3. 1 \in 1..Len(q) /\ \A i \in 1..Len(Tail(q)) : i + 1 \in 1..Len(q) /\ i + 1 # 1
  BY <1>2
<1>4. \A i, j \in 1..Len(Tail(q)) : i + 1 = j + 1 => i = j
  OBVIOUS
<1> DEFINE r == Tail(q)  left == removing /\ Head(q).what # "destroy"
<1>5. ASSUME NEW i \in 1..Len(r)
      PROVE  /\ r[i].what # "establish"
             /\ r[i].what = "destroy" => left
             /\ r[i].what = "send" => r[i].msg \in Messages
  <2>1. r[i] = q[i + 1] /\ i + 1 \in 1..Len(q) /\ i + 1 # 1 /\ 1 \in 1..Len(q) /\ Head(q) = q[1]
    BY <1>2, <1>3, Zenon
  <2> QED  BY <2>1, Zenon DEF QueueIs
<1>6. ASSUME NEW i \in 1..Len(r), NEW j \in 1..Len(r),
             r[i].what = "destroy", r[j].what = "destroy"
      PROVE  i = j
  <2>1. r[i] = q[i + 1] /\ i + 1 \in 1..Len(q) /\ r[j] = q[j + 1] /\ j + 1 \in 1..Len(q)
    BY <1>2, <1>3, Zenon
  <2> QED  BY <1>4, <1>6, <2>1, Zenon DEF QueueIs
<1> HIDE DEF r, left
<1>7. r \in Seq(Tasks)
  BY <1>2 DEF r
<1>8. QueueIs(r, FALSE, left)
  BY <1>5, <1>6, <1>7, Zenon DEF QueueIs
<1> QED  BY <1>8 DEF r, left

\* Queueing a functor: never connectEstablished, and connectDestroyed only
\* when there is none.
LEMMA QueueGrows ==
  ASSUME NEW q, NEW connecting \in BOOLEAN, NEW removing \in BOOLEAN,
         QueueIs(q, connecting, removing),
         NEW f \in Tasks, f.what # "establish", f.what = "destroy" => ~removing,
         f.what = "send" => f.msg \in Messages
  PROVE  QueueIs(Append(q, f), connecting, removing \/ f.what = "destroy")
<1> DEFINE r == Append(q, f)
<1>1. q \in Seq(Tasks)
  BY DEF QueueIs
<1>2. /\ r \in Seq(Tasks) /\ r # <<>> /\ Len(r) = Len(q) + 1 /\ Len(q) \in Nat
      /\ \A i \in 1..Len(q) : r[i] = q[i]
      /\ r[Len(q) + 1] = f
  BY <1>1, AppendProperties, LenProperties
<1>3. \A i \in 1..Len(r) : i \in 1..Len(q) \/ i = Len(q) + 1
  BY <1>2
<1>4. q # <<>> => 1 \in 1..Len(q)
  BY <1>1, EmptySeq
<1> HIDE DEF r
<1>5. ASSUME NEW i \in 1..Len(r)
      PROVE  /\ r[i].what = "establish" => i = 1 /\ connecting
             /\ r[i].what = "destroy" => removing \/ f.what = "destroy"
             /\ r[i].what = "send" => r[i].msg \in Messages
  BY <1>2, <1>3, Zenon DEF QueueIs
<1>6. ASSUME NEW i \in 1..Len(r), NEW j \in 1..Len(r),
             r[i].what = "destroy", r[j].what = "destroy"
      PROVE  i = j
  BY <1>2, <1>3, <1>6, Zenon DEF QueueIs
<1>7. connecting => r[1].what = "establish"
  BY <1>2, <1>4, Zenon DEF QueueIs
<1>8. QueueIs(r, connecting, removing \/ f.what = "destroy")
  BY <1>2, <1>5, <1>6, <1>7, Zenon DEF QueueIs
<1> QED  BY <1>8 DEF r

\* The functors that the code queues.
LEMMA FunctorsQueued ==
  /\ \A what \in {"shutdown", "complete", "destroy"} :
       Task(what) \in Tasks /\ Task(what).what = what
  /\ \A m \in Messages :
       SendTask(m) \in Tasks /\ SendTask(m).what = "send" /\ SendTask(m).msg = m
  BY Zenon DEF Task, SendTask, Tasks

-----------------------------------------------------------------------------
(* What a step may do to the life cycle.                                   *)

life == <<state, ch, ups, downs, removal>>

\* handleEvent begins only for a registered channel.
LoopMoves == pc' # pc => pc # "idle" \/ ch.registered

Establishes ==
  /\ state = "Connecting" /\ state' = "Connected"
  /\ ch' = EnableReading(ch) /\ ups' = ups + 1
  /\ UNCHANGED <<downs, removal>>

\* Write events are switched, in a connection that is open, or off in one
\* whose handleEvent still runs.
Toggles ==
  /\ \/ IsOpen /\ ch' \in {EnableWriting(ch), DisableWriting(ch)}
     \/ pc # "idle" /\ ~ch.writing /\ ch' = DisableWriting(ch)
  /\ UNCHANGED <<state, ups, downs, removal>>

HalfCloses ==
  /\ state = "Connected" /\ state' = "Disconnecting"
  /\ UNCHANGED <<ch, ups, downs, removal>>

Closes ==
  /\ IsOpen /\ state' = "Disconnected" /\ ch' = DisableAll(ch)
  /\ downs' = downs + 1 /\ removal' = "posted"
  /\ UNCHANGED ups

Announced ==
  /\ removal = "posted" /\ removal' = "queued"
  /\ UNCHANGED <<state, ch, ups, downs>>

Removes ==
  /\ pc = "idle" /\ pc' = "idle"
  /\ removal = "queued" \/ IsOpen
  /\ Destroy
  /\ UNCHANGED ups

LifeStep ==
  \/ /\ \/ UNCHANGED life \/ Establishes \/ Toggles \/ HalfCloses \/ Closes \/ Announced
     /\ LoopMoves
     /\ died' # "assert"
  \/ Removes

\* Each of them leads from one of the invariant's states to another.
LEMMA LifeStepKeeps ==
  ASSUME LifeInv, LifeStep
  PROVE  LifeInv'
<1> USE DEF LifeInv, IsOpen, States
<1>1. /\ \A u \in {EnableReading(ch), EnableWriting(ch), DisableWriting(ch), DisableAll(ch)} :
           u \in ChannelRecord /\ Consistent(u) /\ (ch.mapped => u.mapped)
      /\ EnableReading(ch).reading
      /\ EnableWriting(ch).reading = ch.reading
      /\ DisableWriting(ch).reading = ch.reading
      /\ ~DisableWriting(ch).writing
      /\ IsNoneEvent(DisableAll(ch))
  BY ChannelOperations
<1>2. /\ ch.registered => ch.index = "added" /\ ~IsNoneEvent(ch)
      /\ ch.reading => ch.mapped
  BY DEF Consistent, IsNoneEvent
<1>3. LoopMoves => (state = "Connecting" \/ removal = "done" => pc' = "idle")
  BY <1>2 DEF LoopMoves, NewChannel
<1>4. CASE UNCHANGED life /\ LoopMoves /\ died' # "assert"
  BY <1>3, <1>4 DEF life
<1>5. CASE Establishes /\ LoopMoves /\ died' # "assert"
  BY <1>1, <1>5 DEF Establishes
<1>6. CASE Toggles /\ LoopMoves /\ died' # "assert"
  <2>1. /\ state # "Connecting" /\ removal # "done"
        /\ state' = state /\ ups' = ups /\ downs' = downs /\ removal' = removal
    BY <1>6 DEF Toggles
  <2>2. /\ ch' \in ChannelRecord /\ Consistent(ch') /\ (ch.mapped => ch'.mapped)
        /\ ch'.reading = ch.reading
        /\ state = "Disconnected" => ~ch'.writing
    BY <1>1, <1>6 DEF Toggles
  <2> QED  BY <1>6, <2>1, <2>2 DEF IsNoneEvent
<1>7. CASE HalfCloses /\ LoopMoves /\ died' # "assert"
  BY <1>7 DEF HalfCloses
<1>8. CASE Closes /\ LoopMoves /\ died' # "assert"
  BY <1>1, <1>2, <1>8 DEF Closes
<1>9. CASE Announced /\ LoopMoves /\ died' # "assert"
  BY <1>3, <1>9 DEF Announced
<1>10. CASE Removes
  <2> DEFINE none == IF IsNoneEvent(ch) THEN ch ELSE DisableAll(ch)
  <2>1. none \in ChannelRecord /\ Consistent(none) /\ IsNoneEvent(none) /\ none.mapped
    BY <1>1, <1>2, <1>10 DEF Removes
  <2>2. MayRemove(none)
    BY <2>1 DEF MayRemove, Consistent, ChannelRecord
  <2>3. /\ state' = "Disconnected" /\ ups' = ups /\ pc' = "idle"
        /\ downs' = IF state # "Disconnected" THEN downs + 1 ELSE downs
        /\ ch' = RemoveChannel(none) /\ removal' = "done" /\ died' = died
    BY <1>10, <2>2 DEF Removes, Destroy
  <2> HIDE DEF none
  <2>4. /\ ch' \in ChannelRecord /\ IsNoneEvent(ch')
        /\ ch'.index = "new" /\ ~ch'.mapped /\ ~ch'.registered /\ ~ch'.added
    BY <2>1, <2>3 DEF RemoveChannel, ChannelRecord, IsNoneEvent
  <2>5. ups' = 1 /\ downs' = 1
    BY <1>10, <2>3 DEF Removes
  <2> QED  BY <2>3, <2>4, <2>5 DEF Consistent
<1> QED  BY <1>4, <1>5, <1>6, <1>7, <1>8, <1>9, <1>10 DEF LifeStep

-----------------------------------------------------------------------------
(* What a step may do to the queue.                                        *)

\* The closeCallback's path and connectEstablished, as far as the queue
\* knows of them.
SameForQueue ==
  /\ state' = "Connecting" <=> state = "Connecting"
  /\ removal' = "queued" <=> removal = "queued"

LEMMA QueueStays ==
  ASSUME QueueInv, tasks' = tasks, SameForQueue
  PROVE  QueueInv'
  BY Zenon DEF QueueInv, SameForQueue

LEMMA QueueAppended ==
  ASSUME QueueInv, SameForQueue, NEW f \in Tasks, tasks' = Append(tasks, f),
         f.what \notin {"establish", "destroy"}, f.what = "send" => f.msg \in Messages
  PROVE  QueueInv'
<1>1. QueueIs(tasks', state = "Connecting", removal = "queued")
  BY QueueGrows, Zenon DEF QueueInv
<1> QED  BY <1>1, Zenon DEF QueueInv, SameForQueue

\* The first functor runs; it may queue writeCompleteCallback_.
LEMMA QueueTaken ==
  ASSUME QueueInv, tasks # <<>>, state' # "Connecting",
         removal' = "queued" <=> removal = "queued" /\ Head(tasks).what # "destroy",
         tasks' \in {Tail(tasks), Append(Tail(tasks), Task("complete"))}
  PROVE  QueueInv'
<1>1. QueueIs(Tail(tasks), state' = "Connecting", removal' = "queued")
  <2>1. QueueIs(Tail(tasks), FALSE, removal = "queued" /\ Head(tasks).what # "destroy")
    BY TailOfQueue, Zenon DEF QueueInv
  <2> QED  BY <2>1, Zenon
<1>2. QueueIs(Append(Tail(tasks), Task("complete")), state' = "Connecting", removal' = "queued")
  <2>1. /\ Task("complete") \in Tasks
        /\ Task("complete").what \notin {"establish", "destroy", "send"}
    BY FunctorsQueued
  <2> DEFINE q == Tail(tasks)  c == state' = "Connecting"  r == removal' = "queued"
             f == Task("complete")
  <2>2. QueueIs(q, c, r) /\ c \in BOOLEAN /\ r \in BOOLEAN
    BY <1>1
  <2> HIDE DEF q, c, r, f
  <2>3. QueueIs(Append(q, f), c, r)
    BY <2>1, <2>2, QueueGrows, Zenon DEF f
  <2> QED  BY <2>3 DEF q, c, r, f
<1> QED  BY <1>1, <1>2, Zenon DEF QueueInv

\* What the first functor tells about the connection whose loop runs it.
LEMMA FunctorTaken ==
  ASSUME QueueInv, NEW what, TakeTask(what)
  PROVE  /\ tasks # <<>> /\ Head(tasks).what = what /\ pc = "idle"
         /\ state = "Connecting" <=> what = "establish"
         /\ what = "destroy" => removal = "queued"
         /\ what = "send" => Head(tasks).msg \in Messages
  BY FirstFunctor, Zenon DEF TakeTask, QueueInv

-----------------------------------------------------------------------------
(* Every step is one of them.                                              *)

LEMMA HandleCloseCloses ==
  ASSUME LifeInv, HandleClose, UNCHANGED ups
  PROVE  /\ UNCHANGED life \/ Closes
         /\ died' # "assert" /\ SameForQueue
  BY DEF LifeInv, HandleClose, Closes, IsOpen, SameForQueue, life

\* sendInLoop closes, or asks for write events of an open connection, and
\* queues at most writeCompleteCallback_.
LEMMA SendInLoopSteps ==
  ASSUME LifeInv, state # "Connecting", NEW m, NEW queued,
         SendInLoop(m, queued), UNCHANGED ups
  PROVE  /\ UNCHANGED life \/ Toggles \/ Closes
         /\ died' # "assert" /\ SameForQueue
         /\ tasks' \in {queued, Append(queued, Task("complete"))}
<1>1. CASE state = "Disconnected"
  BY <1>1 DEF SendInLoop, LifeInv, connVars, life, SameForQueue
<1>2. CASE state # "Disconnected"
  <2>1. IsOpen
    BY <1>2 DEF LifeInv, States, IsOpen
  <2>2. CASE HandleClose /\ tasks' = queued
    BY <2>2, HandleCloseCloses
  <2>3. CASE /\ ch' \in {ch, EnableWriting(ch)}
             /\ UNCHANGED <<state, downs, removal, died>>
             /\ tasks' \in {queued, Append(queued, Task("complete"))}
    BY <2>1, <2>3 DEF LifeInv, Toggles, life, SameForQueue
  <2>4. CASE WriteKills /\ tasks' = queued
    BY <2>4 DEF WriteKills, life, SameForQueue
  <2> QED  BY <1>2, <2>2, <2>3, <2>4 DEF SendInLoop
<1> QED  BY <1>1, <1>2

LEMMA ShutdownInLoopSteps ==
  ASSUME LifeInv, ShutdownInLoop, UNCHANGED <<ch, ups, downs, removal, died>>
  PROVE  /\ UNCHANGED life \/ HalfCloses
         /\ died' # "assert" /\ SameForQueue
  BY DEF LifeInv, ShutdownInLoop, HalfCloses, life, SameForQueue
\* The functors that the loop runs.
LEMMA FunctorSteps ==
  ASSUME LifeInv, QueueInv,
         ConnectEstablished \/ RunSend \/ RunShutdown \/ RunWriteComplete \/ RunDestroy
  PROVE  LifeStep /\ QueueInv'
<1>1. CASE ConnectEstablished
  <2>1. /\ tasks # <<>> /\ tasks' = Tail(tasks) /\ Head(tasks).what = "establish"
        /\ state = "Connecting"
    BY <1>1, FunctorTaken, Zenon DEF ConnectEstablished, TakeTask
  <2>2. Establishes /\ LoopMoves /\ died' # "assert" /\ removal = "none"
    BY <1>1, <2>1 DEF ConnectEstablished, Establishes, LoopMoves, LifeInv
  <2> QED  BY <2>1, <2>2, QueueTaken DEF LifeStep, Establishes
<1>2. CASE RunSend
  <2>1. /\ tasks # <<>> /\ Head(tasks).what = "send" /\ state # "Connecting" /\ pc' = pc
        /\ SendInLoop(Head(tasks).msg, Tail(tasks)) /\ UNCHANGED ups
    BY <1>2, FunctorTaken, Zenon DEF RunSend, TakeTask
  <2>2. /\ UNCHANGED life \/ Toggles \/ Closes
        /\ died' # "assert" /\ SameForQueue
        /\ tasks' \in {Tail(tasks), Append(Tail(tasks), Task("complete"))}
    BY <2>1, SendInLoopSteps, Zenon
  <2> QED  BY <2>1, <2>2, QueueTaken DEF LifeStep, LoopMoves, SameForQueue
<1>3. CASE RunShutdown
  <2>1. /\ tasks # <<>> /\ tasks' = Tail(tasks) /\ Head(tasks).what = "shutdown"
        /\ state # "Connecting" /\ pc' = pc
        /\ ShutdownInLoop /\ UNCHANGED <<ch, ups, downs, removal, died>>
    BY <1>3, FunctorTaken, Zenon DEF RunShutdown, TakeTask
  <2> QED  BY <2>1, ShutdownInLoopSteps, QueueTaken DEF LifeStep, LoopMoves, SameForQueue
<1>4. CASE RunWriteComplete
  <2>1. /\ tasks # <<>> /\ tasks' = Tail(tasks) /\ Head(tasks).what = "complete"
        /\ state # "Connecting" /\ pc' = pc
        /\ UNCHANGED life /\ UNCHANGED died
    BY <1>4, FunctorTaken, Zenon DEF RunWriteComplete, TakeTask, connVars, life
  <2> QED  BY <2>1, QueueTaken DEF LifeStep, LoopMoves, LifeInv, life
<1>5. CASE RunDestroy
  <2>1. /\ tasks # <<>> /\ tasks' = Tail(tasks) /\ Head(tasks).what = "destroy"
        /\ removal = "queued" /\ pc = "idle" /\ pc' = pc /\ Destroy /\ UNCHANGED ups
    BY <1>5, FunctorTaken, Zenon DEF RunDestroy, TakeTask
  <2>2. LifeStep
    BY <2>1 DEF LifeStep, Removes
  <2>3. LifeInv'
    BY <2>2, LifeStepKeeps
  <2>4. state' # "Connecting" /\ removal' # "queued"
    BY <2>1, <2>3 DEF Destroy, LifeInv, MayRemove
  <2> QED  BY <2>1, <2>2, <2>4, QueueTaken
<1> QED  BY <1>1, <1>2, <1>3, <1>4, <1>5

\* Code of the program in the loop thread.
LEMMA UserSteps ==
  ASSUME LifeInv, QueueInv, UserStep
  PROVE  LifeStep /\ QueueInv'
<1>1. CASE DestroyHere
  <2>1. LifeStep
    BY <1>1 DEF DestroyHere, LifeStep, Removes, IsOpen
  <2>2. LifeInv'
    BY <2>1, LifeStepKeeps
  <2>3. SameForQueue /\ tasks' = tasks
    BY <1>1, <2>2 DEF DestroyHere, Destroy, LifeInv, SameForQueue
  <2> QED  BY <2>1, <2>3, QueueStays
<1>2. CASE ShutdownHere
  BY <1>2, ShutdownInLoopSteps, QueueStays DEF ShutdownHere, LifeStep, LoopMoves
<1>3. ASSUME NEW m \in Messages, SendHere(m)
      PROVE  LifeStep /\ QueueInv'
  <2>1. CASE state = "Connected"
    <3>1. /\ SendInLoop(m, tasks) /\ UNCHANGED ups /\ pc' = pc
      BY <1>3, <2>1 DEF SendHere
    <3>2. /\ UNCHANGED life \/ Toggles \/ Closes
          /\ died' # "assert" /\ SameForQueue
          /\ tasks' \in {tasks, Append(tasks, Task("complete"))}
      BY <2>1, <3>1, SendInLoopSteps
    <3>3. /\ Task("complete") \in Tasks
          /\ Task("complete").what \notin {"establish", "destroy", "send"}
      BY FunctorsQueued
    <3>4. QueueInv'
      BY <3>2, <3>3, QueueStays, QueueAppended
    <3> QED  BY <3>1, <3>2, <3>4 DEF LifeStep, LoopMoves
  <2>2. CASE state # "Connected"
    <3>1. UNCHANGED life /\ tasks' = tasks /\ pc' = pc /\ died' = died
      BY <1>3, <2>2 DEF SendHere, connVars, life
    <3> QED  BY <3>1, QueueStays DEF LifeStep, LoopMoves, LifeInv, life, SameForQueue
  <2> QED  BY <2>1, <2>2
<1> QED  BY <1>1, <1>2, <1>3 DEF UserStep

\* Poll and Channel::handleEvent.
LEMMA DispatchSteps ==
  ASSUME LifeInv, QueueInv,
         \/ Poll \/ HandleEvent \/ OnHup \/ OnError \/ NoRead \/ ReadData \/ MessageReturn
         \/ ReadEnds \/ NoWrite \/ WriteUnexpected \/ WriteOut \/ WriteOutFails
  PROVE  LifeStep /\ QueueInv'
<1>1. LoopMoves
  BY DEF LoopMoves, Poll, HandleEvent, OnHup, OnError, NoRead, ReadData, MessageReturn,
         ReadEnds, NoWrite, WriteUnexpected, WriteOut, WriteOutFails, Stage
<1>2. CASE UNCHANGED <<connVars, ups, tasks>>
  <2>1. UNCHANGED life /\ tasks' = tasks /\ died' = died
    BY <1>2 DEF connVars, life
  <2> QED  BY <1>1, <2>1, QueueStays DEF LifeStep, LifeInv, life, SameForQueue
<1>3. CASE HandleClose /\ UNCHANGED <<ups, tasks>>
  BY <1>1, <1>3, HandleCloseCloses, QueueStays DEF LifeStep
<1>4. CASE WriteUnexpected
  <2>1. /\ Toggles /\ died' = died /\ tasks' = tasks
    BY <1>4 DEF WriteUnexpected, Stage, Toggles
  <2> QED  BY <1>1, <2>1, QueueStays DEF LifeStep, LifeInv, Toggles, SameForQueue
<1>5. CASE WriteOut
  <2>1. /\ ch.writing /\ pc # "idle" /\ died' = died
        /\ UNCHANGED <<state, ups, downs, removal>>
        /\ \/ ch' = DisableWriting(ch) /\ tasks' = Append(tasks, Task("complete"))
           \/ ch' = ch /\ tasks' = tasks
    BY <1>5 DEF WriteOut, Stage
  <2>2. IsOpen
    BY <2>1 DEF LifeInv, States, IsOpen, IsNoneEvent
  <2>3. LifeStep
    BY <1>1, <2>1, <2>2 DEF LifeStep, Toggles, life, LifeInv
  <2>4. SameForQueue
    BY <2>1 DEF SameForQueue
  <2>5. /\ Task("complete") \in Tasks
        /\ Task("complete").what \notin {"establish", "destroy", "send"}
    BY FunctorsQueued
  <2>6. QueueInv'
    BY <2>1, <2>4, <2>5, QueueStays, QueueAppended
  <2> QED  BY <2>3, <2>6
<1>6. CASE WriteKills /\ UNCHANGED <<ups, tasks>>
  BY <1>1, <1>6, QueueStays DEF WriteKills, LifeStep, life, SameForQueue
<1>7. \/ UNCHANGED <<connVars, ups, tasks>>
      \/ HandleClose /\ UNCHANGED <<ups, tasks>>
      \/ WriteUnexpected \/ WriteOut
      \/ WriteKills /\ UNCHANGED <<ups, tasks>>
  BY DEF Poll, HandleEvent, OnHup, OnError, NoRead, ReadData, MessageReturn,
         ReadEnds, NoWrite, WriteOutFails
<1> QED  BY <1>2, <1>3, <1>4, <1>5, <1>6, <1>7

\* Foreign threads, the server's loop and the peer.
LEMMA OtherSteps ==
  ASSUME LifeInv, QueueInv, caller \in [Threads -> Messages \union {Nobody}],
         RemoveConnection \/ PeerStep \/ \E t \in Threads : ForeignStep(t)
  PROVE  LifeStep /\ QueueInv'
<1>1. CASE RemoveConnection
  <2>1. /\ removal = "posted" /\ removal' = "queued" /\ tasks' = Append(tasks, Task("destroy"))
        /\ UNCHANGED <<state, ch, ups, downs, pc, died>>
    BY <1>1 DEF RemoveConnection
  <2>2. LifeStep
    BY <2>1 DEF LifeStep, Announced, LoopMoves, LifeInv
  <2>3. Task("destroy") \in Tasks /\ Task("destroy").what = "destroy"
    BY FunctorsQueued
  <2>4. QueueIs(tasks, state = "Connecting", FALSE)
    BY <2>1, Zenon DEF QueueInv
  <2>5. QueueIs(tasks', state = "Connecting", TRUE)
    BY <2>1, <2>3, <2>4, QueueGrows, Zenon
  <2>6. QueueInv'
    BY <2>1, <2>5, Zenon DEF QueueInv
  <2> QED  BY <2>2, <2>6
<1>2. CASE PeerStep
  <2>1. UNCHANGED life /\ tasks' = tasks /\ died' = died /\ pc' = pc
    BY <1>2 DEF PeerStep, PeerSends, PeerReads, PeerCloses, PeerResets, connVars, life
  <2> QED  BY <2>1, QueueStays DEF LifeStep, LoopMoves, LifeInv, life, SameForQueue
<1>3. ASSUME NEW t \in Threads, ForeignStep(t)
      PROVE  LifeStep /\ QueueInv'
  <2>1. UNCHANGED life /\ died' = died /\ pc' = pc
    BY <1>3 DEF ForeignStep, SendQueues, Shutdown, SendChecks, connVars, life
  <2>2. LifeStep /\ SameForQueue
    BY <2>1 DEF LifeStep, LoopMoves, LifeInv, life, SameForQueue
  <2>3. CASE SendQueues(t)
    <3>1. caller[t] \in Messages /\ tasks' = Append(tasks, SendTask(caller[t]))
      BY <2>3, Zenon DEF SendQueues
    <3>2. /\ SendTask(caller[t]) \in Tasks /\ SendTask(caller[t]).what = "send"
          /\ SendTask(caller[t]).msg = caller[t]
      BY <3>1, FunctorsQueued
    <3> QED  BY <2>2, <3>1, <3>2, QueueAppended
  <2>4. CASE Shutdown(t)
    <3>1. Task("shutdown") \in Tasks /\ Task("shutdown").what = "shutdown"
      BY FunctorsQueued
    <3> QED  BY <2>2, <2>4, <3>1, QueueAppended DEF Shutdown
  <2>5. CASE \E m \in Messages : SendChecks(t, m)
    BY <2>2, <2>5, QueueStays DEF SendChecks
  <2> QED  BY <1>3, <2>3, <2>4, <2>5 DEF ForeignStep
<1> QED  BY <1>1, <1>2, <1>3

\* The invariants of the life cycle, of the queue and of the callers together.
ConnInv == LifeInv /\ QueueInv /\ CallInv

LEMMA InitConn == Init => ConnInv
<1> SUFFICES ASSUME Init  PROVE ConnInv
  OBVIOUS
<1>1. LifeInv
  BY DEF Init, LifeInv, IsOpen, States, NewChannel, ChannelRecord, Consistent, IsNoneEvent
<1>2. QueueInv
  <2> DEFINE e == Task("establish")
  <2>1. e \in Tasks /\ e.what = "establish"
    BY Zenon DEF Task, Tasks
  <2>2. e.what # "destroy" /\ e.what # "send"
    BY <2>1
  <2> HIDE DEF e
  <2>3. /\ <<e>> \in Seq(Tasks) /\ Len(<<e>>) = 1 /\ <<e>>[1] = e /\ <<e>> # <<>>
        /\ 1..1 = {1}
    BY <2>1
  <2>4. QueueIs(<<e>>, TRUE, FALSE)
    BY <2>1, <2>2, <2>3, Zenon DEF QueueIs
  <2>5. tasks = <<e>> /\ state = "Connecting" /\ removal # "queued"
    BY DEF Init, e
  <2> QED  BY <2>4, <2>5, Zenon DEF QueueInv
<1>3. CallInv
  BY Zenon DEF Init, CallInv
<1> QED  BY <1>1, <1>2, <1>3 DEF ConnInv

LEMMA CallersKept ==
  ASSUME CallInv, [Next]_vars
  PROVE  CallInv'
<1>1. CASE UNCHANGED <<caller, fresh>>
  BY <1>1, Zenon DEF CallInv
<1>2. CASE \E m \in Messages : SendHere(m)
  BY <1>2, Zenon DEF CallInv, SendHere
<1>3. ASSUME NEW t \in Threads, ForeignStep(t)
      PROVE  CallInv'
  BY <1>1, <1>3, Zenon DEF CallInv, ForeignStep, SendQueues, Shutdown, SendChecks
<1>4. UNCHANGED <<caller, fresh>> \/ (\E m \in Messages : SendHere(m))
        \/ \E t \in Threads : ForeignStep(t)
  BY DEF Next, LoopStep, UserStep, PeerStep, vars, callVars, TakeTask,
         ConnectEstablished, RunSend, RunShutdown, RunWriteComplete, RunDestroy,
         DestroyHere, ShutdownHere, Poll, HandleEvent, OnHup, OnError, NoRead, ReadData,
         MessageReturn, ReadEnds, NoWrite, WriteUnexpected, WriteOut, WriteOutFails,
         RemoveConnection, PeerSends, PeerReads, PeerCloses, PeerResets
<1> QED  BY <1>1, <1>2, <1>3, <1>4

LEMMA NextConn == ConnInv /\ [Next]_vars => ConnInv'
<1> SUFFICES ASSUME ConnInv, [Next]_vars  PROVE ConnInv'
  OBVIOUS
<1>1. CASE Next
  <2>1. LifeStep /\ QueueInv'
    BY <1>1, FunctorSteps, UserSteps, DispatchSteps, OtherSteps
    DEF ConnInv, CallInv, Next, LoopStep
  <2> QED  BY <2>1, LifeStepKeeps, CallersKept DEF ConnInv
<1>2. CASE UNCHANGED vars
  <2>1. UNCHANGED <<life, pc, died, tasks>>
    BY <1>2 DEF vars, life
  <2>2. LifeInv'
    BY <2>1 DEF ConnInv, LifeInv, IsOpen, life
  <2>3. QueueInv'
    BY <2>1, QueueStays DEF ConnInv, SameForQueue, life
  <2> QED  BY <2>2, <2>3, CallersKept DEF ConnInv
<1> QED  BY <1>1, <1>2

-----------------------------------------------------------------------------
(* The life cycle's theorems.                                              *)

LEMMA ConnInvariant == Spec => []ConnInv
  BY InitConn, NextConn, PTL DEF Spec

\* connectionCallback_ announces one connect, and one disconnect after it,
\* however the connection ends: by handleClose from any event or write, or by
\* its owner.
THEOREM CallbacksArePaired == Spec => []CallbacksPaired
<1>1. ConnInv => CallbacksPaired
  BY DEF ConnInv, LifeInv, CallbacksPaired, States, IsOpen
<1> QED  BY <1>1, ConnInvariant, PTL

\* The poller's index, its map and the epoll set agree about the channel, and
\* after connectDestroyed nothing brings the channel back.
THEOREM ChannelStaysConsistent == Spec => []ChannelConsistent
<1>1. ConnInv => ChannelConsistent
  BY DEF ConnInv, LifeInv, ChannelConsistent
<1> QED  BY <1>1, ConnInvariant, PTL

\* connectEstablished runs for a connecting connection, and connectDestroyed
\* once, for a channel in the poller that wants no event: their asserts hold.
THEOREM AssertsNeverFail == Spec => []OtherAssertsHold
<1>1. ConnInv => OtherAssertsHold
  BY DEF ConnInv, LifeInv, OtherAssertsHold
<1> QED  BY <1>1, ConnInvariant, PTL

-----------------------------------------------------------------------------
(* The output.                                                             *)

LEMMA UnitsOfMessage ==
  ASSUME NEW m \in Messages
  PROVE  UnitsOf(m) \in Seq(Units) /\ UnitsOf(m) # <<>>
<1>1. MsgLen \in Nat /\ 1 \in 1..MsgLen
  BY LengthAssumption
<1>2. UnitsOf(m) \in [1..MsgLen -> Units]
  BY Zenon DEF UnitsOf, Units
<1>3. UnitsOf(m) \in Seq(Units)
  <2>1. [1..MsgLen -> Units] \in {[1..n -> Units] : n \in Nat}
    BY <1>1, Zenon
  <2> QED  BY <1>2, <2>1, SeqDef, Zenon
<1>4. Len(UnitsOf(m)) = MsgLen
  BY <1>1, <1>3 DEF UnitsOf
<1> QED  BY <1>1, <1>3, <1>4, EmptySeq

\* write() takes a prefix, and leaves the rest to be written after it.
LEMMA WriteSplits ==
  ASSUME NEW s \in Seq(Units), written \in Seq(Units), inKernel \in 0..SendSpace, WriteFits(s)
  PROVE  /\ Left(s) \in Seq(Units) /\ written' \in Seq(Units)
         /\ written' \o Left(s) = written \o s
         /\ inKernel' \in 0..SendSpace
<1>1. Len(s) \in Nat /\ SendSpace \in Nat /\ inKernel \in Nat /\ inKernel <= SendSpace
  BY LenProperties, LengthAssumption
<1>2. Taken(s) \in 0..Len(s) /\ inKernel + Taken(s) \in 0..SendSpace
  BY <1>1 DEF Taken
<1> DEFINE n == Taken(s)
<1>3. /\ 1 \in 1..Len(s) + 1 /\ n \in 1 - 1..Len(s) /\ Len(s) \in n..Len(s)
      /\ n \in Int /\ Len(s) \in Int /\ 1 \in Int /\ n + 1 \in Int
      /\ \A i \in 1..n : i \in 1..Len(s)
      /\ \A i \in n + 1..Len(s) : i \in 1..Len(s)
  BY <1>1, <1>2
<1>4. SubSeq(s, 1, n) \in Seq(Units) /\ SubSeq(s, n + 1, Len(s)) \in Seq(Units)
  BY <1>3, SubSeqProperties, ElementOfSeq, Zenon
<1>5. SubSeq(s, 1, n) \o SubSeq(s, n + 1, Len(s)) = s
  BY <1>3, ConcatAdjacentSubSeq, SubSeqFull, Zenon
<1>6. written' = written \o SubSeq(s, 1, n) /\ inKernel' = inKernel + n
  BY DEF WriteFits
<1>7. Left(s) = SubSeq(s, n + 1, Len(s))
  BY DEF Left
<1> HIDE DEF n
<1>8. written' \in Seq(Units)
  BY <1>4, <1>6, ConcatProperties, Zenon
<1>9. written' \o Left(s) = written \o s
  <2> DEFINE a == SubSeq(s, 1, n)  b == SubSeq(s, n + 1, Len(s))
  <2>1. a \in Seq(Units) /\ b \in Seq(Units) /\ a \o b = s
    BY <1>4, <1>5
  <2>2. written' = written \o a /\ Left(s) = b
    BY <1>6, <1>7
  <2> HIDE DEF a, b
  <2>3. (written \o a) \o b = written \o (a \o b)
    <3>1. a \in Seq(Units) /\ b \in Seq(Units)
      BY <2>1
    <3> QED  BY <3>1, ConcatAssociative, SMTT(30)
  <2> QED  BY <2>1, <2>2, <2>3, Zenon
<1> QED  BY <1>2, <1>4, <1>6, <1>7, <1>8, <1>9 DEF n

\* In a connection that is not open, or whose process has ended, nothing more
\* is promised of the output than its type.
OutputTypes ==
  /\ output \in Seq(Units) /\ written \in Seq(Units) /\ accepted \in Seq(Units)
  /\ inKernel \in 0..SendSpace
  /\ finSent \in BOOLEAN

outputs == <<output, written, accepted, finSent>>

LEMMA OutputOfClosed ==
  ASSUME OutputInv, OutputTypes', ~Live', state' # "Connecting",
         finSent' => state' \in {"Disconnecting", "Disconnected"}
  PROVE  OutputInv'
  BY DEF OutputInv, OutputTypes, NothingLostOrReordered, WritingMeansBacklog, FinAfterBacklog

\* A step that leaves the output and the wish for write events alone.
LEMMA OutputUntouched ==
  ASSUME OutputInv, UNCHANGED outputs, inKernel' \in 0..SendSpace,
         UNCHANGED state, died' = died \/ ~Alive', ch'.writing = ch.writing
  PROVE  OutputInv'
  BY DEF OutputInv, NothingLostOrReordered, WritingMeansBacklog, FinAfterBacklog,
         Live, Alive, outputs

LEMMA OutputAfterClose ==
  ASSUME ConnInv, OutputInv, HandleClose, UNCHANGED <<written, finSent>>,
         inKernel' \in 0..SendSpace, accepted' \in Seq(Units), state # "Connecting"
  PROVE  OutputInv'
<1>1. OutputTypes'
  BY DEF HandleClose, OutputInv, OutputTypes
<1>2. ~Live' /\ state' # "Connecting"
  BY DEF HandleClose, Live, Alive
<1>3. finSent' => state' \in {"Disconnecting", "Disconnected"}
  BY DEF HandleClose, OutputInv
<1> QED  BY <1>1, <1>2, <1>3, OutputOfClosed

LEMMA OutputAfterKill ==
  ASSUME OutputInv, WriteKills, accepted' \in Seq(Units), state # "Connecting"
  PROVE  OutputInv'
<1>1. /\ OutputTypes' /\ ~Live' /\ state' = state
      /\ finSent' => state' \in {"Disconnecting", "Disconnected"}
  BY DEF WriteKills, kernelVars, OutputInv, OutputTypes, Live, Alive
<1> QED  BY <1>1, OutputOfClosed
LEMMA OutputHolds ==
  ASSUME OutputTypes', state' # "Connecting",
         written' \o output' = accepted', ch'.writing <=> output' # <<>>,
         finSent' => output' = <<>> /\ state' \in {"Disconnecting", "Disconnected"}
  PROVE  OutputInv'
  BY DEF OutputInv, OutputTypes, NothingLostOrReordered, WritingMeansBacklog, FinAfterBacklog

\* sendInLoop writes directly only when nothing waits, and what the socket
\* does not take waits behind what waited before.
LEMMA SendInLoopOutput ==
  ASSUME ConnInv, OutputInv, Alive, state # "Connecting",
         NEW m \in Messages, NEW queued, SendInLoop(m, queued)
  PROVE  OutputInv'
<1>1. CASE state = "Disconnected"
  <2>1. UNCHANGED <<outputs, inKernel, state, died, ch>>
    BY <1>1 DEF SendInLoop, connVars, kernelVars, outputs
  <2> QED  BY <2>1, OutputUntouched DEF OutputInv, outputs
<1>2. CASE state # "Disconnected"
  <2> DEFINE u == UnitsOf(m)
  <2>1. u \in Seq(Units) /\ u # <<>>
    BY UnitsOfMessage
  <2> HIDE DEF u
  <2>2. /\ state \in {"Connected", "Disconnecting"}
        /\ written \o output = accepted /\ (ch.writing <=> output # <<>>)
        /\ finSent => output = <<>> /\ state = "Disconnecting"
        /\ OutputTypes
    BY <1>2 DEF ConnInv, LifeInv, States, OutputInv, OutputTypes, Live,
                NothingLostOrReordered, WritingMeansBacklog, FinAfterBacklog
  <2>3. accepted' = accepted \o u /\ accepted' \in Seq(Units)
    <3>1. accepted' = accepted \o u
      BY <1>2 DEF SendInLoop, u
    <3>2. accepted \in Seq(Units)
      BY <2>2 DEF OutputTypes
    <3> QED  BY <2>1, <3>1, <3>2, ConcatProperties
  <2>4. EnableWriting(ch).writing
    BY ChannelOperations DEF ConnInv, LifeInv
  <2>5. MayWriteDirectly <=> output = <<>>
    BY <2>2 DEF MayWriteDirectly
  <2>6. output = <<>> => accepted = written
    <3>1. written \in Seq(Units)
      BY <2>2 DEF OutputTypes
    <3> QED  BY <2>2, <3>1, ConcatEmptySeq
  <2>7. CASE /\ output = <<>> /\ WriteFits(u) /\ UNCHANGED <<finSent, arrived, peer, sockError>>
             /\ output' = Left(u)
             /\ IF output' = <<>> THEN UNCHANGED ch ELSE ch' = EnableWriting(ch)
             /\ UNCHANGED <<state, downs, removal, died>>
    <3>1. ~finSent
      BY <2>7 DEF WriteFits
    <3>2. /\ Left(u) \in Seq(Units) /\ written' \in Seq(Units)
          /\ written' \o Left(u) = written \o u
          /\ inKernel' \in 0..SendSpace
      BY <2>1, <2>2, <2>7, WriteSplits DEF OutputTypes
    <3>3. OutputTypes'
      BY <2>2, <2>3, <2>7, <3>2 DEF OutputTypes
    <3>4. written' \o output' = accepted'
      BY <2>3, <2>6, <2>7, <3>2
    <3>5. ch'.writing <=> output' # <<>>
      BY <2>2, <2>4, <2>7
    <3> QED  BY <2>2, <2>7, <3>1, <3>3, <3>4, <3>5, OutputHolds
  <2>8. CASE /\ output = <<>> /\ WouldBlock /\ output' = u /\ ch' = EnableWriting(ch)
             /\ UNCHANGED <<state, downs, removal, died, kernelVars>>
    <3>1. ~finSent /\ UNCHANGED <<written, inKernel, finSent>>
      BY <2>8 DEF WouldBlock, kernelVars
    <3>2. OutputTypes'
      BY <2>1, <2>2, <2>3, <2>8, <3>1 DEF OutputTypes
    <3> QED  BY <2>1, <2>2, <2>3, <2>4, <2>6, <2>8, <3>1, <3>2, OutputHolds
  <2>9. CASE WriteFails /\ HandleClose
    BY <2>2, <2>3, <2>9, OutputAfterClose DEF WriteFails, OutputTypes
  <2>10. CASE WriteKills
    BY <2>3, <2>10, OutputAfterKill
  <2>11. CASE /\ output # <<>> /\ output' = output \o u
              /\ ch' = IF ch.writing THEN ch ELSE EnableWriting(ch)
              /\ UNCHANGED <<state, downs, removal, died, kernelVars>>
    <3>1. ~finSent /\ UNCHANGED <<written, inKernel, finSent>>
      BY <2>2, <2>11 DEF kernelVars
    <3>2. output \in Seq(Units) /\ written \in Seq(Units)
      BY <2>2 DEF OutputTypes
    <3>3. output \o u \in Seq(Units) /\ output \o u # <<>>
      BY <2>1, <3>2, ConcatProperties, ConcatEqualIffEmpty
    <3>4. written \o (output \o u) = (written \o output) \o u
      BY <2>1, <3>2, ConcatAssociative, SMTT(30)
    <3>5. OutputTypes'
      BY <2>2, <2>3, <2>11, <3>1, <3>3 DEF OutputTypes
    <3>6. written' \o output' = accepted'
      BY <2>2, <2>3, <2>11, <3>1, <3>4
    <3> QED  BY <2>2, <2>4, <2>11, <3>1, <3>3, <3>5, <3>6, OutputHolds
  <2>12. \/ /\ output = <<>> /\ WriteFits(u) /\ UNCHANGED <<finSent, arrived, peer, sockError>>
            /\ output' = Left(u)
            /\ IF output' = <<>> THEN UNCHANGED ch ELSE ch' = EnableWriting(ch)
            /\ UNCHANGED <<state, downs, removal, died>>
         \/ /\ output = <<>> /\ WouldBlock /\ output' = u /\ ch' = EnableWriting(ch)
            /\ UNCHANGED <<state, downs, removal, died, kernelVars>>
         \/ WriteFails /\ HandleClose
         \/ WriteKills
         \/ /\ output # <<>> /\ output' = output \o u
            /\ ch' = IF ch.writing THEN ch ELSE EnableWriting(ch)
            /\ UNCHANGED <<state, downs, removal, died, kernelVars>>
    BY <1>2, <2>5, Zenon DEF SendInLoop, u
  <2> QED  BY <2>7, <2>8, <2>9, <2>10, <2>11, <2>12
<1> QED  BY <1>1, <1>2

\* handleWrite takes from the front of what waits; the FIN of a pending
\* shutdown follows the last of it.
LEMMA WriteOutOutput ==
  ASSUME ConnInv, OutputInv, WriteOut
  PROVE  OutputInv'
<1>1. state \in {"Connected", "Disconnecting"} /\ Live
  BY DEF WriteOut, Stage, ConnInv, LifeInv, States, NewChannel, IsNoneEvent, Live
<1>2. /\ written \o output = accepted /\ OutputTypes /\ ~finSent
      /\ WriteFits(output) /\ output' = Left(output)
      /\ UNCHANGED <<state, accepted, died>>
  BY <1>1 DEF WriteOut, OutputInv, OutputTypes, NothingLostOrReordered, WriteFits
<1>3. /\ Left(output) \in Seq(Units) /\ written' \in Seq(Units)
      /\ written' \o Left(output) = written \o output
      /\ inKernel' \in 0..SendSpace
  BY <1>2, WriteSplits DEF OutputTypes
<1>4. /\ ch.writing /\ ~DisableWriting(ch).writing
  BY ChannelOperations DEF WriteOut, ConnInv, LifeInv
<1>5. /\ ch'.writing <=> output' # <<>>
      /\ finSent' \in BOOLEAN
      /\ finSent' => output' = <<>> /\ state' = "Disconnecting"
  <2>1. CASE output' = <<>>
    <3>1. ch' = DisableWriting(ch) /\ finSent' = FinIsDue
      BY <2>1, Zenon DEF WriteOut
    <3> QED  BY <1>2, <1>4, <2>1, <3>1, Zenon DEF FinIsDue
  <2>2. CASE output' # <<>>
    <3>1. ch' = ch /\ finSent' = finSent
      BY <2>2, Zenon DEF WriteOut
    <3>2. finSent \in BOOLEAN
      BY <1>2 DEF OutputTypes
    <3> QED  BY <1>2, <1>4, <2>2, <3>1, <3>2, Zenon
  <2> QED  BY <2>1, <2>2
<1>6. OutputTypes'
  BY <1>2, <1>3, <1>5 DEF OutputTypes
<1>7. written' \o output' = accepted'
  BY <1>2, <1>3
<1> QED  BY <1>1, <1>2, <1>5, <1>6, <1>7, OutputHolds

\* shutdownInLoop half-closes at once only when nothing waits.
LEMMA ShutdownOutput ==
  ASSUME ConnInv, OutputInv, Alive, ShutdownInLoop,
         UNCHANGED <<ch, output, written, accepted, inKernel, died>>
  PROVE  OutputInv'
  BY DEF ConnInv, LifeInv, OutputInv, ShutdownInLoop, NothingLostOrReordered,
         WritingMeansBacklog, FinAfterBacklog, Live, Alive
LEMMA InitOutput == Init => OutputInv
<1> SUFFICES ASSUME Init  PROVE OutputInv
  OBVIOUS
<1>1. /\ output = <<>> /\ written = <<>> /\ accepted = <<>>
      /\ inKernel = 0 /\ finSent = FALSE /\ state = "Connecting"
  BY DEF Init
<1>2. <<>> \in Seq(Units) /\ 0 \in 0..SendSpace
  BY EmptySeq, LengthAssumption
<1> QED  BY <1>1, <1>2
         DEF OutputInv, NothingLostOrReordered, WritingMeansBacklog, FinAfterBacklog, Live

\* The steps that leave the output alone, close the connection, or end the
\* process.
OutputRests == UNCHANGED <<outputs, inKernel, state, died, ch>>

OutputCloses ==
  HandleClose /\ UNCHANGED <<written, finSent, accepted, inKernel>> /\ state # "Connecting"

OutputKills == WriteKills /\ UNCHANGED accepted /\ state # "Connecting"

LEMMA NextOutput ==
  ASSUME ConnInv, OutputInv, [Next]_vars
  PROVE  OutputInv'
<1> USE DEF kernelVars, connVars, callVars, outputs
<1>1. CASE OutputRests
  BY <1>1, OutputUntouched DEF OutputRests, OutputInv
<1>2. CASE ConnectEstablished
  <2>1. state = "Connecting" /\ state' = "Connected" /\ ch' = EnableReading(ch)
        /\ UNCHANGED <<output, accepted, written, inKernel, finSent>>
    BY <1>2, FunctorTaken, Zenon DEF ConnInv, ConnectEstablished
  <2>2. /\ output = <<>> /\ written = <<>> /\ accepted = <<>> /\ ~finSent /\ ~ch.writing
    BY <2>1 DEF ConnInv, LifeInv, OutputInv, NewChannel
  <2>3. EnableReading(ch).writing = ch.writing
    BY ChannelOperations DEF ConnInv, LifeInv
  <2>4. OutputTypes'
    BY <2>1 DEF OutputInv, OutputTypes
  <2>5. written' \o output' = accepted'
    <3>1. <<>> \in Seq(Units)
      BY EmptySeq
    <3>2. <<>> \o <<>> = <<>>
      BY <3>1, ConcatEmptySeq
    <3> QED  BY <2>1, <2>2, <3>2
  <2> QED  BY <2>1, <2>2, <2>3, <2>4, <2>5, OutputHolds
<1>3. CASE RunSend
  <2>1. /\ Alive /\ state # "Connecting" /\ Head(tasks).msg \in Messages
        /\ SendInLoop(Head(tasks).msg, Tail(tasks))
    BY <1>3, FunctorTaken, Zenon DEF ConnInv, RunSend, TakeTask
  <2> QED  BY <2>1, SendInLoopOutput, Zenon
<1>4. CASE RunShutdown \/ ShutdownHere
  BY <1>4, ShutdownOutput DEF RunShutdown, ShutdownHere, TakeTask, InUserCode
<1>5. CASE RunDestroy \/ DestroyHere
  <2>1. /\ state' = "Disconnected" /\ UNCHANGED <<output, accepted, written, inKernel, finSent>>
    BY <1>5 DEF RunDestroy, DestroyHere, Destroy
  <2>2. OutputTypes' /\ ~Live'
    BY <2>1 DEF OutputInv, OutputTypes, Live
  <2> QED  BY <2>1, <2>2, OutputOfClosed
<1>6. ASSUME NEW m \in Messages, SendHere(m)
      PROVE  OutputInv'
  <2>1. CASE state = "Connected"
    BY <1>6, <2>1, SendInLoopOutput DEF SendHere, InUserCode
  <2>2. CASE state # "Connected"
    BY <1>1, <1>6, <2>2 DEF SendHere, OutputRests
  <2> QED  BY <2>1, <2>2
<1>7. CASE OutputCloses
  BY <1>7, OutputAfterClose DEF OutputCloses, OutputInv
<1>8. CASE WriteUnexpected
  <2>1. ~DisableWriting(ch).writing
    BY ChannelOperations DEF ConnInv, LifeInv
  <2>2. /\ ~ch.writing /\ ch' = DisableWriting(ch)
        /\ UNCHANGED <<outputs, inKernel, state, died>>
    BY <1>8 DEF WriteUnexpected
  <2>3. ch.writing = FALSE /\ DisableWriting(ch).writing = FALSE
    BY <2>1, <2>2, ChannelOperations DEF ConnInv, LifeInv, ChannelRecord
  <2> QED  BY <2>2, <2>3, OutputUntouched DEF OutputInv
<1>9. CASE WriteOut
  BY <1>9, WriteOutOutput
<1>10. CASE OutputKills
  BY <1>10, OutputAfterKill DEF OutputKills, OutputInv
<1>11. CASE PeerReads \/ PeerResets
  <2>1. inKernel' \in 0..SendSpace
    BY <1>11, LengthAssumption DEF PeerReads, PeerResets, OutputInv
  <2>2. UNCHANGED <<outputs, state, died, ch>>
    BY <1>11 DEF PeerReads, PeerResets
  <2> QED  BY <2>1, <2>2, OutputUntouched
<1>12. pc # "idle" => state # "Connecting"
  BY DEF ConnInv, LifeInv
<1>13. OnHup \/ OnError \/ ReadEnds \/ WriteOutFails =>
         OutputRests \/ OutputCloses \/ OutputKills
  BY <1>12 DEF OutputRests, OutputCloses, OutputKills, OnHup, OnError, ReadEnds, WriteOutFails, Stage, WriteFails
<1>14. (\/ RunWriteComplete \/ Poll \/ HandleEvent \/ NoRead \/ ReadData \/ MessageReturn
        \/ NoWrite \/ RemoveConnection \/ PeerSends \/ PeerCloses
        \/ (\E t \in Threads : ForeignStep(t)) \/ UNCHANGED vars)
         => OutputRests
  BY DEF OutputRests, RunWriteComplete, Poll, HandleEvent, NoRead, ReadData, MessageReturn, NoWrite,
         RemoveConnection, PeerSends, PeerCloses, ForeignStep, SendQueues, Shutdown,
         SendChecks, vars
<1>15. CASE LoopStep
  BY <1>1, <1>2, <1>3, <1>4, <1>5, <1>7, <1>8, <1>9, <1>10, <1>13, <1>14, <1>15, Zenon
  DEF LoopStep
<1>16. CASE UserStep
  BY <1>4, <1>5, <1>6, <1>16, Zenon DEF UserStep
<1>17. CASE PeerStep
  BY <1>1, <1>11, <1>14, <1>17, Zenon DEF PeerStep
<1> QED  BY <1>1, <1>14, <1>15, <1>16, <1>17, Zenon DEF Next

LEMMA OutputInvariant == Spec => []OutputInv
  BY InitOutput, NextOutput, ConnInvariant, PTL DEF Spec

\* While a connection is open, what the kernel took and what waits in the
\* output buffer is exactly what sendInLoop accepted, in order: no partial
\* write, direct write or functor loses, repeats or overtakes a byte.
THEOREM NothingIsLostOrReordered == Spec => []NothingLostOrReordered
  BY OutputInvariant, PTL DEF OutputInv

\* An open connection wants write events exactly while something waits.
THEOREM WriteEventsMeanBacklog == Spec => []WritingMeansBacklog
  BY OutputInvariant, PTL DEF OutputInv

\* The FIN never goes out before the bytes accepted ahead of the shutdown.
THEOREM FinFollowsBacklog == Spec => []FinAfterBacklog
  BY OutputInvariant, PTL DEF OutputInv
=============================================================================
