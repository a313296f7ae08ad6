--------------------------- MODULE EventLoopProof ---------------------------
(***************************************************************************)
(* Proofs about EventLoop for every set of threads, functors and channels  *)
(* and every bound: types, no lost wakeup, no sleep after quit(), and that *)
(* the loop implements FunctorQueue; and, about EventLoopThread, that      *)
(* startLoop() returns a loop that is ready, and that it runs an EventLoop. *)
(***************************************************************************)
EXTENDS EventLoopThread, TLAPS, SequenceTheorems

-----------------------------------------------------------------------------
\* The stages at which an unserved functor must have a wakeup: everywhere but
\* between the return of poll and the swap that will take the functor.
NeedsWakeup == {"idle", "test", "polling", "functors", "functor"}

\* callingPendingFunctors_ tells the stage of the loop thread.
FlagMatchesStage == calling <=> pc \in {"functors", "functor"}

\* Outside doPendingFunctors the local batch is empty.
BatchIsLocal == pc \notin {"functors", "functor"} => functors = <<>>

\* Outside the dispatch no channel is left to dispatch.
ActiveIsLocal == pc \notin {"dispatch", "handler"} => active = {}

WakeupOnItsWay == pc \in NeedsWakeup /\ LatePending => Signalled

\* The inductive invariant.
IInv ==
  /\ TypeOK
  /\ FlagMatchesStage
  /\ BatchIsLocal
  /\ ActiveIsLocal
  /\ WakeupOnItsWay
  /\ NoSleepAfterQuit

-----------------------------------------------------------------------------
\* Appending a functor that counts as early makes nothing late that was not.
LEMMA AppendEarly ==
  ASSUME NEW f \in Functors, pending \in Seq(Functors),
         NEW S, early \subseteq S, f \in S,
         NEW i \in 1..Len(Append(pending, f)), Append(pending, f)[i] \notin S
  PROVE  LatePending
  <1>1. Len(Append(pending, f)) = Len(pending) + 1 /\ Len(pending) \in Nat
    BY AppendProperties, LenProperties
  <1>2. i # Len(pending) + 1
    BY <1>1, AppendProperties
  <1>3. i \in 1..Len(pending) /\ Append(pending, f)[i] = pending[i]
    BY <1>1, <1>2, AppendProperties
  <1>4. QED
    BY <1>3 DEF LatePending

\* The invariant holds before loop() is entered.
LEMMA InitIInv == Init => IInv
  <1> SUFFICES ASSUME Init PROVE IInv
    OBVIOUS
  <1>1. <<>> \in Seq(Functors) /\ Len(<<>>) = 0
    BY EmptySeq
  <1>2. quits \in 0..MaxQuits /\ arrivals \in 0..MaxArrivals /\ eventfd \in Nat
    BY BoundAssumption DEF Init
  <1>3. caller \in [Threads -> {"free", "waking"}]
    BY DEF Init
  <1>4. TypeOK
    BY <1>1, <1>2, <1>3, Zenon DEF Init, TypeOK, Stages
  <1>5. QED
    BY <1>1, <1>4 DEF Init, IInv, FlagMatchesStage, BatchIsLocal, ActiveIsLocal,
       WakeupOnItsWay, LatePending, NoSleepAfterQuit

\* A step of the loop thread itself keeps the invariant.
LEMMA LoopKeepsIInv ==
  ASSUME IInv, Loop \/ PollTimeout \/ LoopStep
  PROVE  IInv'
  <1> USE DEF IInv
  <1> USE DEF FlagMatchesStage, BatchIsLocal, ActiveIsLocal, WakeupOnItsWay,
        NeedsWakeup, NoSleepAfterQuit, Signalled, LatePending
  <1>1. CASE Loop
    BY <1>1 DEF Loop, TypeOK, Stages
  <1>2. CASE PollTimeout
    BY <1>2 DEF PollTimeout, TypeOK, Stages
  <1>3. CASE TestQuit
    BY <1>3 DEF TestQuit, TypeOK, Stages
  <1>4. CASE PollReturn
    <2>1. PICK S \in SUBSET Pollable \ {{}} : active' = S
      BY <1>4 DEF PollReturn
    <2>2. S \in SUBSET (Channels \union {WakeupCh})
      BY <2>1 DEF Pollable, TypeOK
    <2>3. QED
      BY <1>4, <2>1, <2>2 DEF PollReturn, TypeOK, Stages
  <1>5. CASE HandleRead
    BY <1>5 DEF HandleRead, TypeOK, Stages
  <1>6. CASE HandlerReturn
    BY <1>6 DEF HandlerReturn, TypeOK, Stages
  <1>7. CASE SwapFunctors
    <2>1. <<>> \in Seq(Functors) /\ Len(<<>>) = 0
      BY EmptySeq
    <2>2. QED
      BY <1>7, <2>1 DEF SwapFunctors, TypeOK, Stages
  <1>8. CASE CallFunctor
    <2>1. Head(functors) \in Functors /\ Tail(functors) \in Seq(Functors)
      BY <1>8, HeadTailProperties DEF CallFunctor, TypeOK
    <2>2. Append(done, Head(functors)) \in Seq(Functors)
      BY <2>1, AppendProperties DEF TypeOK
    <2>3. QED
      BY <1>8, <2>1, <2>2 DEF CallFunctor, TypeOK, Stages
  <1>9. CASE FunctorReturn
    BY <1>9 DEF FunctorReturn, TypeOK, Stages
  <1>10. CASE FinishFunctors
    BY <1>10 DEF FinishFunctors, TypeOK, Stages
  <1>11. ASSUME NEW c \in Channels, HandleEvent(c)
         PROVE  IInv'
    BY <1>11 DEF HandleEvent, TypeOK, Stages
  <1>12. QED
    BY <1>1, <1>2, <1>3, <1>4, <1>5, <1>6, <1>7, <1>8, <1>9, <1>10, <1>11 DEF LoopStep

\* Code of the program that runs in the loop thread keeps the invariant.
LEMMA UserKeepsIInv ==
  ASSUME IInv, UserStep
  PROVE  IInv'
  <1> USE DEF IInv, FlagMatchesStage, BatchIsLocal, ActiveIsLocal, NoSleepAfterQuit,
        Signalled, InUserCode, WakesHere
  <1>1. CASE QuitHere
    BY <1>1, BoundAssumption
    DEF QuitHere, TypeOK, Stages, WakeupOnItsWay, LatePending, NeedsWakeup
  <1>2. ASSUME NEW f \in Functors, RunInLoopHere(f)
        PROVE  IInv'
    <2>1. Append(done, f) \in Seq(Functors)
      BY AppendProperties DEF TypeOK
    <2>2. QED
      BY <1>2, <2>1
      DEF RunInLoopHere, loopVars, TypeOK, Stages, WakeupOnItsWay, LatePending, NeedsWakeup
  <1>3. ASSUME NEW f \in Functors, QueueInLoopHere(f)
        PROVE  IInv'
    <2>1. Append(pending, f) \in Seq(Functors)
      BY AppendProperties DEF TypeOK
    <2>2. eventfd' \in Nat /\ eventfd' >= eventfd
      BY <1>3 DEF QueueInLoopHere, TypeOK
    <2>3. TypeOK'
      BY <1>3, <2>1, <2>2 DEF QueueInLoopHere, TypeOK, Stages
    <2>4. WakeupOnItsWay'
      <3>1. CASE pc = "idle"
        <4>1. LatePending' => LatePending
          BY <1>3, <3>1, AppendEarly DEF QueueInLoopHere, LatePending, TypeOK
        <4>2. QED
          BY <1>3, <2>2, <3>1, <4>1 DEF QueueInLoopHere, WakeupOnItsWay, NeedsWakeup, TypeOK
      <3>2. CASE pc = "handler"
        BY <1>3, <3>2 DEF QueueInLoopHere, WakeupOnItsWay, NeedsWakeup
      <3>3. CASE pc = "functor"
        BY <1>3, <3>3 DEF QueueInLoopHere, WakeupOnItsWay, TypeOK
      <3>4. QED
        BY <1>3, <3>1, <3>2, <3>3 DEF QueueInLoopHere
    <2>5. QED
      BY <1>3, <2>2, <2>3, <2>4 DEF QueueInLoopHere, TypeOK
  <1>4. QED
    BY <1>1, <1>2, <1>3 DEF UserStep

\* A call of a foreign thread keeps the invariant: whatever it did under the
\* lock, or to quit_, its own write to the eventfd is on its way.
LEMMA ForeignKeepsIInv ==
  ASSUME IInv, NEW t \in Threads, ForeignStep(t)
  PROVE  IInv'
  <1> USE DEF IInv, FlagMatchesStage, BatchIsLocal, ActiveIsLocal, NoSleepAfterQuit,
        Signalled, WakeupOnItsWay
  <1>1. CASE Quit(t)
    BY <1>1, BoundAssumption DEF Quit, TypeOK, Stages, LatePending
  <1>2. CASE Wakeup(t)
    BY <1>2 DEF Wakeup, TypeOK, Stages, LatePending
  <1>3. ASSUME NEW f \in Functors, QueueInLoop(t, f)
        PROVE  IInv'
    <2>1. Append(pending, f) \in Seq(Functors)
      BY AppendProperties DEF TypeOK
    <2>2. QED
      BY <1>3, <2>1 DEF QueueInLoop, TypeOK, Stages
  <1>4. QED
    BY <1>1, <1>2, <1>3 DEF ForeignStep

\* No step of any thread breaks the invariant.
LEMMA NextKeepsIInv == IInv /\ [Next]_vars => IInv'
  <1> SUFFICES ASSUME IInv, [Next]_vars PROVE IInv'
    OBVIOUS
  <1>1. ASSUME NEW c \in Channels, Arrive(c)
        PROVE  IInv'
    BY <1>1, BoundAssumption
    DEF Arrive, IInv, TypeOK, Stages, FlagMatchesStage, BatchIsLocal, ActiveIsLocal,
        WakeupOnItsWay, LatePending, Signalled, NoSleepAfterQuit
  <1>2. CASE UNCHANGED vars
    BY <1>2
    DEF vars, IInv, TypeOK, Stages, FlagMatchesStage, BatchIsLocal, ActiveIsLocal,
        WakeupOnItsWay, LatePending, Signalled, NoSleepAfterQuit
  <1>3. QED
    BY <1>1, <1>2, LoopKeepsIInv, UserKeepsIInv, ForeignKeepsIInv DEF Next

-----------------------------------------------------------------------------
\* The invariant holds in every reachable state.
THEOREM InvariantHolds == Spec => []IInv
  <1>1. QED
    BY InitIInv, NextKeepsIInv, PTL DEF Spec

\* Every variable of the loop keeps its type.
THEOREM TypeCorrect == Spec => []TypeOK
  <1>1. IInv => TypeOK
    BY DEF IInv
  <1>2. QED
    BY <1>1, InvariantHolds, PTL

\* queueInLoop never leaves the loop asleep over a posted functor.
THEOREM NoWakeupIsLost == Spec => []NoLostWakeup
  <1>1. IInv => NoLostWakeup
    BY DEF IInv, WakeupOnItsWay, NeedsWakeup, NoLostWakeup
  <1>2. QED
    BY <1>1, InvariantHolds, PTL

\* quit never leaves the loop asleep.
THEOREM QuitIsNoticed == Spec => []NoSleepAfterQuit
  <1>1. IInv => NoSleepAfterQuit
    BY DEF IInv
  <1>2. QED
    BY <1>1, InvariantHolds, PTL

-----------------------------------------------------------------------------
\* The queue of FunctorQueue under the refinement: the rest of the batch, then
\* the pending functors.
Queue == functors \o pending

\* Taking from a nonempty batch takes the head of the queue.
LEMMA TakeFromBatch ==
  ASSUME NEW s \in Seq(Functors), NEW t \in Seq(Functors), s # <<>>
  PROVE  /\ s \o t # <<>>
         /\ Head(s \o t) = Head(s)
         /\ Tail(s \o t) = Tail(s) \o t
  <1>1. s \o t # <<>>
    BY ConcatEqualIffEmpty
  <1>2. Len(s) \in Nat \ {0} /\ Len(t) \in Nat
    BY EmptySeq, LenProperties
  <1>3. /\ s \o t \in Seq(Functors)
        /\ Len(s \o t) = Len(s) + Len(t)
        /\ \A i \in 1..Len(s) + Len(t) :
             (s \o t)[i] = IF i <= Len(s) THEN s[i] ELSE t[i - Len(s)]
    BY ConcatProperties
  <1>4. Head(s \o t) = Head(s)
    BY <1>2, <1>3
  <1>5. /\ Tail(s) \in Seq(Functors)
        /\ Len(Tail(s)) = Len(s) - 1
        /\ \A i \in 1..Len(Tail(s)) : Tail(s)[i] = s[i + 1]
    BY HeadTailProperties
  <1>6. /\ Tail(s \o t) \in Seq(Functors)
        /\ Len(Tail(s \o t)) = Len(s) + Len(t) - 1
        /\ \A i \in 1..Len(Tail(s \o t)) : Tail(s \o t)[i] = (s \o t)[i + 1]
    BY <1>1, <1>3, HeadTailProperties
  <1>7. /\ Tail(s) \o t \in Seq(Functors)
        /\ Len(Tail(s) \o t) = Len(s) - 1 + Len(t)
        /\ \A i \in 1..Len(s) - 1 + Len(t) :
             (Tail(s) \o t)[i] = IF i <= Len(s) - 1 THEN Tail(s)[i] ELSE t[i - (Len(s) - 1)]
    BY <1>5, ConcatProperties
  <1>8. ASSUME NEW i \in 1..Len(Tail(s \o t))
        PROVE  Tail(s \o t)[i] = (Tail(s) \o t)[i]
    BY <1>2, <1>3, <1>5, <1>6, <1>7
  <1>9. Tail(s \o t) = Tail(s) \o t
    BY <1>2, <1>6, <1>7, <1>8, SeqEqual
  <1>10. QED
    BY <1>1, <1>4, <1>9

\* Posting to the pending functors posts to the queue.
LEMMA PostToPending ==
  ASSUME NEW s \in Seq(Functors), NEW t \in Seq(Functors), NEW f \in Functors
  PROVE  s \o Append(t, f) = Append(s \o t, f)
  <1>1. <<f>> \in Seq(Functors)
    BY AppendIsConcat
  <1>2. Append(t, f) = t \o <<f>> /\ Append(s \o t, f) = (s \o t) \o <<f>>
    BY AppendIsConcat, ConcatProperties
  <1>3. QED
    BY <1>1, <1>2, ConcatAssociative

\* Every step of the loop posts to the queue, takes from it, calls a functor on
\* the spot, or changes nothing a caller of the queue can see.
LEMMA StepImplementsQueue ==
  ASSUME IInv, [Next]_vars
  PROVE  FunctorQueueImpl!Next \/ UNCHANGED <<fresh, Queue, done>>
  <1> USE DEF Queue, IInv, TypeOK
  <1>1. CASE CallFunctor
    <2>1. /\ Queue # <<>>
          /\ Head(Queue) = Head(functors)
          /\ Tail(Queue) = Tail(functors) \o pending
      BY <1>1, TakeFromBatch DEF CallFunctor
    <2>2. FunctorQueueImpl!Take
      BY <1>1, <2>1 DEF CallFunctor, FunctorQueueImpl!Take
    <2>3. QED
      BY <2>2 DEF FunctorQueueImpl!Next
  <1>2. CASE SwapFunctors
    <2>1. functors = <<>>
      BY <1>2 DEF SwapFunctors, BatchIsLocal
    <2>2. pending \o <<>> = pending /\ <<>> \o pending = pending
      BY ConcatEmptySeq
    <2>3. QED
      BY <1>2, <2>1, <2>2 DEF SwapFunctors
  <1>3. ASSUME NEW f \in Functors, RunInLoopHere(f)
        PROVE  FunctorQueueImpl!Next
    BY <1>3 DEF RunInLoopHere, loopVars, FunctorQueueImpl!Next, FunctorQueueImpl!CallNow
  <1>4. ASSUME NEW f \in Functors,
               QueueInLoopHere(f) \/ \E t \in Threads : QueueInLoop(t, f)
        PROVE  FunctorQueueImpl!Next
    <2>1. /\ f \in fresh
          /\ fresh' = fresh \ {f}
          /\ pending' = Append(pending, f)
          /\ functors' = functors
          /\ done' = done
      BY <1>4 DEF QueueInLoopHere, QueueInLoop
    <2>2. FunctorQueueImpl!Post(f)
      BY <2>1, PostToPending DEF FunctorQueueImpl!Post
    <2>3. QED
      BY <2>2 DEF FunctorQueueImpl!Next
  <1>5. CASE UNCHANGED <<fresh, pending, functors, done>>
    BY <1>5
  <1>6. QED
    BY <1>1, <1>2, <1>3, <1>4, <1>5
    DEF Next, LoopStep, UserStep, ForeignStep, vars, Loop, PollTimeout, TestQuit, PollReturn,
        HandleRead, HandleEvent, HandlerReturn, FunctorReturn, FinishFunctors, QuitHere,
        Quit, Wakeup, Arrive

\* The loop with its batches, its lock and its eventfd implements one queue
\* that serves every posted functor once and in order.
THEOREM LoopImplementsQueue == Spec => ImplementsFunctorQueue
  <1>1. Init => FunctorQueueImpl!Init
    <2>1. <<>> \o <<>> = <<>>
      BY EmptySeq, ConcatEmptySeq
    <2>2. QED
      BY <2>1 DEF Init, FunctorQueueImpl!Init
  <1>2. IInv /\ [Next]_vars => [FunctorQueueImpl!Next]_<<fresh, functors \o pending, done>>
    BY StepImplementsQueue DEF Queue
  <1>3. QED
    BY <1>1, <1>2, InvariantHolds, PTL DEF Spec, ImplementsFunctorQueue, FunctorQueueImpl!Spec
-----------------------------------------------------------------------------
(* The loop of another thread: what startLoop() promises.                  *)

Owners == {"new", "waiting", "woken", "running", "quitting", "waking", "joining", "joined"}
ThreadStates == {"none", "constructing", "init", "ready", "looping", "leaving", "ended"}

\* The thread has passed the point where it publishes its loop.
HasPublished == thread \in {"ready", "looping", "leaving", "ended"}

\* loop_ names the loop exactly while the thread is about to run it or runs it,
\* and the owner's wait ends only once loop_ has been set.
PublishInv ==
  /\ owner \in Owners /\ thread \in ThreadStates
  /\ owner = "new" => thread = "none"
  /\ published <=> thread \in {"ready", "looping"}
  /\ owner \in {"woken", "running"} => HasPublished
  /\ owner = "running" => got \/ thread \in {"leaving", "ended"}

\* The invariant holds before the thread is started.
LEMMA InitPublishes == ThreadInit => PublishInv
  BY DEF ThreadInit, PublishInv, Owners, ThreadStates, HasPublished

\* The owner's steps keep it: startLoop() takes loop_ after its wait has ended,
\* and finds it cleared only if the thread has left loop().
LEMMA OwnerKeepsPublished ==
  ASSUME PublishInv, StartLoop \/ Destructor \/ OwnerStep
  PROVE  PublishInv'
<1> USE DEF PublishInv, Owners, ThreadStates, HasPublished, protocol
<1>1. CASE StartLoop  BY <1>1 DEF StartLoop
<1>2. CASE Destructor  BY <1>2 DEF Destructor
<1>3. CASE WaitEnds  BY <1>3 DEF WaitEnds
<1>4. CASE StartReturns  BY <1>4 DEF StartReturns
<1>5. CASE OwnerWakes  BY <1>5 DEF OwnerWakes
<1>6. CASE DestructorQuits  BY <1>6 DEF DestructorQuits
<1>7. CASE DestructorWakes  BY <1>7 DEF DestructorWakes
<1>8. CASE Join  BY <1>8 DEF Join
<1> QED  BY <1>1, <1>2, <1>3, <1>4, <1>5, <1>6, <1>7, <1>8 DEF OwnerStep

\* The thread's steps keep it: loop_ is set before loop() and cleared after it,
\* and the thread never goes back.
LEMMA ThreadKeepsPublished ==
  ASSUME PublishInv, ThreadStep
  PROVE  PublishInv'
<1> USE DEF PublishInv, Owners, ThreadStates, HasPublished, protocol
<1>1. CASE Construct  BY <1>1 DEF Construct
<1>2. CASE Publish  BY <1>2 DEF Publish
<1>3. CASE EnterLoop  BY <1>3 DEF EnterLoop
<1>4. CASE Leave  BY <1>4 DEF Leave
<1>5. CASE DestroyLoop  BY <1>5 DEF DestroyLoop
<1> QED  BY <1>1, <1>2, <1>3, <1>4, <1>5 DEF ThreadStep

\* What happens in the loop, or is posted to it, is no step of the protocol.
LEMMA LoopKeepsProtocol ==
  ASSUME \/ InLoop \/ UserCode
         \/ \E f \in Functors : OwnerQueues(f)
         \/ \E c \in Channels : EventArrives(c)
  PROVE  UNCHANGED protocol
  BY DEF InLoop, UserCode, OwnerQueues, EventArrives

\* startLoop() returns a loop that is constructed and initialised, and nullptr
\* only when the loop has ended already.
THEOREM StartedLoopIsReady == ThreadSpec => []StartedIsReady
<1>1. PublishInv /\ [ThreadNext]_threadVars => PublishInv'
  <2> SUFFICES ASSUME PublishInv, [ThreadNext]_threadVars  PROVE PublishInv'
    OBVIOUS
  <2>1. CASE StartLoop \/ Destructor \/ OwnerStep  BY <2>1, OwnerKeepsPublished
  <2>2. CASE ThreadStep  BY <2>2, ThreadKeepsPublished
  <2>3. CASE UNCHANGED protocol
    BY <2>3 DEF PublishInv, Owners, ThreadStates, HasPublished, protocol
  <2>4. CASE UNCHANGED threadVars  BY <2>3, <2>4 DEF threadVars
  <2> QED  BY <2>1, <2>2, <2>3, <2>4, LoopKeepsProtocol DEF ThreadNext
<1>2. PublishInv => StartedIsReady
  BY DEF PublishInv, ThreadStates, HasPublished, StartedIsReady
<1> QED  BY <1>1, <1>2, InitPublishes, PTL DEF ThreadSpec

\* What the owner does to the loop, it does as a foreign thread; on a loop that
\* is gone it does nothing.
LEMMA OwnerIsForeign ==
  ASSUME Threads # {}, OwnerStep
  PROVE  Next \/ UNCHANGED vars
<1>1. Owner \in Threads  BY DEF Owner
<1>2. CASE WaitEnds \/ StartReturns \/ Join  BY <1>2 DEF WaitEnds, StartReturns, Join
<1>3. CASE OwnerWakes  BY <1>1, <1>3 DEF OwnerWakes, Next, ForeignStep
<1>4. CASE DestructorQuits  BY <1>1, <1>4 DEF DestructorQuits, Next, ForeignStep
<1>5. CASE DestructorWakes  BY <1>1, <1>5 DEF DestructorWakes, Next, ForeignStep
<1> QED  BY <1>2, <1>3, <1>4, <1>5, OwnerStep DEF OwnerStep

\* The loop of an EventLoopThread is an EventLoop: the protocol around it adds no
\* behaviour, so everything proved of EventLoop holds in a loop thread too.
THEOREM ThreadRunsAnEventLoop ==
  ASSUME Threads # {}
  PROVE  ThreadSpec => Spec
<1>1. ThreadInit => Init  BY DEF ThreadInit
<1>2. [ThreadNext]_threadVars => [Next]_vars
  <2> SUFFICES ASSUME [ThreadNext]_threadVars  PROVE Next \/ UNCHANGED vars
    OBVIOUS
  <2>1. CASE StartLoop \/ Destructor  BY <2>1 DEF StartLoop, Destructor
  <2>2. CASE OwnerStep  BY <2>2, OwnerIsForeign
  <2>3. CASE ThreadStep
    BY <2>3 DEF ThreadStep, Construct, Publish, EnterLoop, Leave, DestroyLoop, Next
  <2>4. CASE InLoop  BY <2>4 DEF InLoop, Next
  <2>5. CASE UserCode  BY <2>5 DEF UserCode, Next, UserStep
  <2>6. CASE \E f \in Functors : OwnerQueues(f)
    BY <2>6 DEF OwnerQueues, Next, ForeignStep, Owner
  <2>7. CASE \E c \in Channels : EventArrives(c)  BY <2>7 DEF EventArrives, Next
  <2>8. CASE UNCHANGED threadVars  BY <2>8 DEF threadVars
  <2> QED  BY <2>1, <2>2, <2>3, <2>4, <2>5, <2>6, <2>7, <2>8 DEF ThreadNext
<1> QED  BY <1>1, <1>2, PTL DEF ThreadSpec, Spec
=============================================================================
