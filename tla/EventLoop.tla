------------------------------ MODULE EventLoop ------------------------------
(***************************************************************************)
(* One EventLoop of src_epoll/net/EventLoop.cpp: the loop thread, the      *)
(* foreign threads that call queueInLoop() and quit(), the eventfd that    *)
(* wakes the loop, and the I/O channels the poller watches.                *)
(*                                                                         *)
(* A step of the loop thread is one stage of loop() (l.94-120) or one call *)
(* made by user code running in it; a foreign caller takes one step for    *)
(* its critical section or flag and another for its write to the eventfd,  *)
(* so that every interleaving of the two threads is explored.              *)
(***************************************************************************)
EXTENDS Naturals, Sequences

CONSTANTS
  Threads,      \* threads other than the loop thread
  Functors,     \* callbacks posted to the loop, each of them once
  Channels,     \* I/O channels registered with the poller
  WakeupCh,     \* the channel of wakeupFd_
  MaxQuits,     \* bound: calls of quit()
  MaxArrivals   \* bound: events that arrive on the I/O channels

ASSUME WakeupAssumption == WakeupCh \notin Channels
ASSUME BoundAssumption  == MaxQuits \in Nat /\ MaxArrivals \in Nat

VARIABLES
  pc,         \* the stage of the loop thread; looping_ is pc # "idle"
  quit,       \* quit_
  calling,    \* callingPendingFunctors_
  pending,    \* pendingFunctors_, guarded by mutex_
  functors,   \* doPendingFunctors' local vector, what is left of it
  eventfd,    \* the counter behind wakeupFd_
  ready,      \* I/O channels the kernel would report
  active,     \* activeChannels_, what is left to dispatch
  caller,     \* per foreign thread: between two calls, or about to wakeup()
  fresh,      \* history: functors not posted yet
  early,      \* history: functors the loop thread queued outside loop()
  done,       \* history: functors in the order in which they were called
  quits, arrivals  \* bounded counters

loopVars == <<pc, quit, calling, pending, functors, eventfd, ready, active>>
vars == <<pc, quit, calling, pending, functors, eventfd, ready, active,
          caller, fresh, early, done, quits, arrivals>>

Stages == {"idle", "test", "polling", "dispatch", "handler", "functors", "functor"}

\* The stages in which the loop thread runs code of the program's own: before
\* loop(), a channel's callback, a functor.
InUserCode == pc \in {"idle", "handler", "functor"}

TypeOK ==
  /\ pc \in Stages
  /\ quit \in BOOLEAN
  /\ calling \in BOOLEAN
  /\ pending \in Seq(Functors)
  /\ functors \in Seq(Functors)
  /\ eventfd \in Nat
  /\ ready \in SUBSET Channels
  /\ active \in SUBSET (Channels \union {WakeupCh})
  /\ caller \in [Threads -> {"free", "waking"}]
  /\ fresh \in SUBSET Functors
  /\ early \in SUBSET Functors
  /\ done \in Seq(Functors)
  /\ quits \in 0..MaxQuits
  /\ arrivals \in 0..MaxArrivals

Init ==
  /\ pc = "idle"
  /\ quit = FALSE
  /\ calling = FALSE
  /\ pending = <<>>
  /\ functors = <<>>
  /\ eventfd = 0
  /\ ready = {}
  /\ active = {}
  /\ caller = [t \in Threads |-> "free"]
  /\ fresh = Functors
  /\ early = {}
  /\ done = <<>>
  /\ quits = 0
  /\ arrivals = 0

-----------------------------------------------------------------------------
(* The stages of loop().                                                   *)

\* loop() is entered: whatever quit_ was, it is FALSE now.
Loop ==
  /\ pc = "idle"
  /\ pc' = "test"
  /\ quit' = FALSE
  /\ UNCHANGED <<calling, pending, functors, eventfd, ready, active,
                 caller, fresh, early, done, quits, arrivals>>

\* while (!quit_): poll once more, or leave loop().
TestQuit ==
  /\ pc = "test"
  /\ pc' = IF quit THEN "idle" ELSE "polling"
  /\ UNCHANGED <<quit, calling, pending, functors, eventfd, ready, active,
                 caller, fresh, early, done, quits, arrivals>>

Pollable == ready \union (IF eventfd > 0 THEN {WakeupCh} ELSE {})

\* epoll_wait reports some of the descriptors that are readable (at most
\* events_.size() of them).
PollReturn ==
  /\ pc = "polling"
  /\ \E S \in SUBSET Pollable \ {{}} : active' = S
  /\ pc' = "dispatch"
  /\ UNCHANGED <<quit, calling, pending, functors, eventfd, ready,
                 caller, fresh, early, done, quits, arrivals>>

\* kPollTimeMs have passed, or a signal interrupted epoll_wait: no event.
PollTimeout ==
  /\ pc = "polling"
  /\ active' = {}
  /\ pc' = "dispatch"
  /\ UNCHANGED <<quit, calling, pending, functors, eventfd, ready,
                 caller, fresh, early, done, quits, arrivals>>

\* handleRead: one read of an eventfd takes its whole count.
HandleRead ==
  /\ pc = "dispatch"
  /\ WakeupCh \in active
  /\ active' = active \ {WakeupCh}
  /\ eventfd' = 0
  /\ UNCHANGED <<pc, quit, calling, pending, functors, ready,
                 caller, fresh, early, done, quits, arrivals>>

\* channel->handleEvent(): the callback takes what was readable.
HandleEvent(c) ==
  /\ pc = "dispatch"
  /\ c \in active
  /\ active' = active \ {c}
  /\ ready' = ready \ {c}
  /\ pc' = "handler"
  /\ UNCHANGED <<quit, calling, pending, functors, eventfd,
                 caller, fresh, early, done, quits, arrivals>>

HandlerReturn ==
  /\ pc = "handler"
  /\ pc' = "dispatch"
  /\ UNCHANGED <<quit, calling, pending, functors, eventfd, ready, active,
                 caller, fresh, early, done, quits, arrivals>>

\* A bug: the pending functors are copied, not swapped.
CopyFunctors ==
  /\ pc = "dispatch"
  /\ active = {}
  /\ pc' = "functors"
  /\ calling' = TRUE
  /\ functors' = pending
  /\ UNCHANGED <<quit, pending, eventfd, ready, active,
                 caller, fresh, early, done, quits, arrivals>>

\* doPendingFunctors up to the end of its critical section: the flag is set
\* before the swap.
SwapFunctors ==
  /\ pc = "dispatch"
  /\ active = {}
  /\ pc' = "functors"
  /\ calling' = TRUE
  /\ functors' = pending
  /\ pending' = <<>>
  /\ UNCHANGED <<quit, eventfd, ready, active,
                 caller, fresh, early, done, quits, arrivals>>

CallFunctor ==
  /\ pc = "functors"
  /\ functors # <<>>
  /\ done' = Append(done, Head(functors))
  /\ functors' = Tail(functors)
  /\ pc' = "functor"
  /\ UNCHANGED <<quit, calling, pending, eventfd, ready, active,
                 caller, fresh, early, quits, arrivals>>

FunctorReturn ==
  /\ pc = "functor"
  /\ pc' = "functors"
  /\ UNCHANGED <<quit, calling, pending, functors, eventfd, ready, active,
                 caller, fresh, early, done, quits, arrivals>>

FinishFunctors ==
  /\ pc = "functors"
  /\ functors = <<>>
  /\ calling' = FALSE
  /\ pc' = "test"
  /\ UNCHANGED <<quit, pending, functors, eventfd, ready, active,
                 caller, fresh, early, done, quits, arrivals>>

-----------------------------------------------------------------------------
(* Calls made by user code in the loop thread.                             *)

\* queueInLoop from the loop thread writes the eventfd only when the pending
\* functors are being called (l.150).
NeverWakesHere == FALSE
WakesHere == calling

QueueInLoopHere(f) ==
  /\ InUserCode
  /\ f \in fresh
  /\ fresh' = fresh \ {f}
  /\ pending' = Append(pending, f)
  /\ eventfd' = IF WakesHere THEN eventfd + 1 ELSE eventfd
  /\ early' = IF pc = "idle" THEN early \union {f} ELSE early
  /\ UNCHANGED <<pc, quit, calling, functors, ready, active,
                 caller, done, quits, arrivals>>

\* runInLoop from the loop thread: the callback is called on the spot.
RunInLoopHere(f) ==
  /\ InUserCode
  /\ f \in fresh
  /\ fresh' = fresh \ {f}
  /\ done' = Append(done, f)
  /\ UNCHANGED <<loopVars, caller, early, quits, arrivals>>

\* quit from the loop thread: no wakeup.
QuitHere ==
  /\ InUserCode
  /\ quits < MaxQuits
  /\ quits' = quits + 1
  /\ quit' = TRUE
  /\ UNCHANGED <<pc, calling, pending, functors, eventfd, ready, active,
                 caller, fresh, early, done, arrivals>>

-----------------------------------------------------------------------------
(* Calls made by a foreign thread t; runInLoop is then queueInLoop.        *)

\* A bug: the wakeup is left to the next event.
QueueInLoopSilently(t, f) ==
  /\ caller[t] = "free"
  /\ f \in fresh
  /\ fresh' = fresh \ {f}
  /\ pending' = Append(pending, f)
  /\ UNCHANGED <<pc, quit, calling, functors, eventfd, ready, active,
                 caller, early, done, quits, arrivals>>

QueueInLoop(t, f) ==
  /\ caller[t] = "free"
  /\ f \in fresh
  /\ fresh' = fresh \ {f}
  /\ pending' = Append(pending, f)
  /\ caller' = [caller EXCEPT ![t] = "waking"]
  /\ UNCHANGED <<pc, quit, calling, functors, eventfd, ready, active,
                 early, done, quits, arrivals>>

\* A bug: quit() sets the flag only.
QuitSilently(t) ==
  /\ caller[t] = "free"
  /\ quits < MaxQuits
  /\ quits' = quits + 1
  /\ quit' = TRUE
  /\ UNCHANGED <<pc, calling, pending, functors, eventfd, ready, active,
                 caller, fresh, early, done, arrivals>>

Quit(t) ==
  /\ caller[t] = "free"
  /\ quits < MaxQuits
  /\ quits' = quits + 1
  /\ quit' = TRUE
  /\ caller' = [caller EXCEPT ![t] = "waking"]
  /\ UNCHANGED <<pc, calling, pending, functors, eventfd, ready, active,
                 fresh, early, done, arrivals>>

Wakeup(t) ==
  /\ caller[t] = "waking"
  /\ caller' = [caller EXCEPT ![t] = "free"]
  /\ eventfd' = eventfd + 1
  /\ UNCHANGED <<pc, quit, calling, pending, functors, ready, active,
                 fresh, early, done, quits, arrivals>>

\* The kernel: an event arrives on an I/O channel.
Arrive(c) ==
  /\ c \notin ready
  /\ arrivals < MaxArrivals
  /\ arrivals' = arrivals + 1
  /\ ready' = ready \union {c}
  /\ UNCHANGED <<pc, quit, calling, pending, functors, eventfd, active,
                 caller, fresh, early, done, quits>>

-----------------------------------------------------------------------------
\* What the loop thread does by itself, without the 10 s timeout.
LoopStep ==
  \/ TestQuit \/ PollReturn \/ HandleRead \/ HandlerReturn
  \/ SwapFunctors \/ CallFunctor \/ FunctorReturn \/ FinishFunctors
  \/ \E c \in Channels : HandleEvent(c)

UserStep == QuitHere \/ \E f \in Functors : QueueInLoopHere(f) \/ RunInLoopHere(f)

ForeignStep(t) == Quit(t) \/ Wakeup(t) \/ \E f \in Functors : QueueInLoop(t, f)

Next ==
  \/ Loop \/ PollTimeout \/ LoopStep \/ UserStep
  \/ \E t \in Threads : ForeignStep(t)
  \/ \E c \in Channels : Arrive(c)

Spec == Init /\ [][Next]_vars

\* The scheduler runs every thread that can run and callbacks return.  There
\* is no fairness for PollTimeout, Loop, posts, quits or arrivals: liveness
\* must come from the wakeups alone.
FairSpec == /\ Spec
            /\ WF_vars(LoopStep)
            /\ \A t \in Threads : WF_vars(Wakeup(t))

-----------------------------------------------------------------------------
(* Properties.                                                             *)

\* A write to the eventfd is there, or on its way.
Signalled == eventfd > 0 \/ \E t \in Threads : caller[t] = "waking"

\* A functor queued anywhere but by the loop thread outside loop() is pending.
LatePending == \E i \in 1..Len(pending) : pending[i] \notin early

\* queueInLoop (l.141-153) never leaves the loop asleep over a posted functor:
\* when the loop is about to block in poll, a wakeup is there or on its way.
\* The functors the loop thread queues before loop() are the exception: l.150
\* does not wake for them and they wait for the first event or the timeout.
NoLostWakeup == pc = "polling" /\ LatePending => Signalled

\* quit (l.122-129): a loop that blocks in poll after quit_ was set has a
\* wakeup on its way, whoever called quit.
NoSleepAfterQuit == pc = "polling" /\ quit => Signalled

\* Liveness (l.94-153, without the poll timeout): a posted functor is called,
\* unless the loop ends or has not been entered.
InSeq(f, s) == \E i \in 1..Len(s) : s[i] = f

PostedIsCalled ==
  \A f \in Functors :
    InSeq(f, pending) /\ f \notin early ~> InSeq(f, done) \/ pc = "idle"

\* Liveness: once quit_ is set inside loop(), loop() returns.
QuitEndsLoop == quit /\ pc # "idle" ~> pc = "idle"

\* The posts of all threads are served as one queue, each functor once.
FunctorQueueImpl == INSTANCE FunctorQueue WITH queue <- functors \o pending

ImplementsFunctorQueue == FunctorQueueImpl!Spec
=============================================================================
