--------------------------- MODULE EventLoopThread ---------------------------
(***************************************************************************)
(* EventLoopThread (src_epoll/net/EventLoopThread.cpp): the owner that     *)
(* starts a thread, uses its loop and joins it in the destructor, and the  *)
(* thread that builds an EventLoop on its stack, publishes it, runs it and *)
(* destroys it.  The loop itself is EventLoop, with the owner as its only  *)
(* foreign thread.                                                         *)
(***************************************************************************)
EXTENDS EventLoop

VARIABLES
  owner,      \* where the owner is: "new", "waiting" for the condition, "woken",
              \* "running", in the destructor "quitting", "waking" and
              \* "joining", "joined"
  thread,     \* where the thread is: "none", "constructing", "init" in the
              \* callback, "ready" before loop(), "looping", "leaving", "ended"
  published,  \* loop_ # nullptr
  got         \* startLoop() returned a loop, not nullptr

\* The thread that owns the EventLoopThread, the only foreign thread here.
Owner == CHOOSE t \in Threads : TRUE

protocol == <<owner, thread, published, got>>
threadVars == <<vars, protocol>>

ThreadTypeOK ==
  /\ TypeOK
  /\ owner \in {"new", "waiting", "woken", "running", "quitting", "waking", "joining", "joined"}
  /\ thread \in {"none", "constructing", "init", "ready", "looping", "leaving", "ended"}
  /\ published \in BOOLEAN
  /\ got \in BOOLEAN

ThreadInit ==
  /\ Init
  /\ owner = "new" /\ thread = "none"
  /\ published = FALSE /\ got = FALSE

\* The EventLoop object exists.
LoopAlive == thread \in {"init", "ready", "looping", "leaving"}

-----------------------------------------------------------------------------
(* The owner.                                                              *)

StartLoop ==
  /\ owner = "new" /\ owner' = "waiting"
  /\ thread' = "constructing"
  /\ UNCHANGED <<vars, published, got>>

\* A bug: the wait has no predicate, and a spurious wakeup ends it.
WakesSpuriously ==
  /\ owner = "waiting" /\ owner' = "woken"
  /\ UNCHANGED <<vars, thread, published, got>>

\* cond_.wait sees loop_ # nullptr...
WaitEnds ==
  /\ owner = "waiting" /\ owner' = "woken"
  /\ published
  /\ UNCHANGED <<vars, thread, published, got>>

\* ...and loop_ is read again, without the lock, to be returned.
StartReturns ==
  /\ owner = "woken" /\ owner' = "running"
  /\ got' = published
  /\ UNCHANGED <<vars, thread, published>>

\* The owner posts to the loop, unless the program itself has quit that loop.
OwnerQueues(f) ==
  /\ owner = "running" /\ got /\ quits = 0
  /\ QueueInLoop(Owner, f)
  /\ UNCHANGED protocol

OwnerWakes ==
  /\ owner = "running"
  /\ Wakeup(Owner)
  /\ UNCHANGED protocol

\* The destructor reads loop_ without the lock.  A thread that was never
\* started needs no join.
Destructor ==
  /\ \/ owner = "running" /\ caller[Owner] = "free"
     \/ owner = "new"
  /\ owner' = IF owner = "new" THEN "joined" ELSE IF published THEN "quitting" ELSE "joining"
  /\ UNCHANGED <<vars, thread, published, got>>

\* loop_->quit(), flag and wakeup.  On a loop that is gone these are writes to
\* freed memory and to a closed descriptor: nobody sees them.
DestructorQuits ==
  /\ owner = "quitting" /\ owner' = "waking"
  /\ IF LoopAlive THEN Quit(Owner) ELSE UNCHANGED vars
  /\ UNCHANGED <<thread, published, got>>

\* A bug: the destructor only sets the flag.
DestructorSleeps ==
  /\ owner = "waking" /\ owner' = "joining"
  /\ UNCHANGED <<vars, thread, published, got>>

DestructorWakes ==
  /\ owner = "waking" /\ owner' = "joining"
  /\ IF LoopAlive THEN Wakeup(Owner) ELSE UNCHANGED vars
  /\ UNCHANGED <<thread, published, got>>

Join ==
  /\ owner = "joining" /\ owner' = "joined"
  /\ thread = "ended"
  /\ UNCHANGED <<vars, thread, published, got>>

-----------------------------------------------------------------------------
(* threadFunc.                                                             *)

Construct ==
  /\ thread = "constructing" /\ thread' = "init"
  /\ UNCHANGED <<vars, owner, published, got>>

Publish ==
  /\ thread = "init" /\ thread' = "ready"
  /\ published' = TRUE
  /\ UNCHANGED <<vars, owner, got>>

EnterLoop ==
  /\ thread = "ready" /\ thread' = "looping"
  /\ Loop
  /\ UNCHANGED <<owner, published, got>>

\* loop() and the program's code in it; quits leave one for the destructor.
\* The ThreadInitCallback runs before loop_ is published.
InLoop ==
  /\ thread = "looping" /\ pc # "idle"
  /\ LoopStep \/ PollTimeout
  /\ UNCHANGED protocol

UserCode ==
  /\ thread = "init" \/ (thread = "looping" /\ pc # "idle")
  /\ \/ QuitHere /\ quits' < MaxQuits
     \/ \E f \in Functors : QueueInLoopHere(f) \/ RunInLoopHere(f)
  /\ UNCHANGED protocol

EventArrives(c) ==
  /\ LoopAlive
  /\ Arrive(c)
  /\ UNCHANGED protocol

\* loop() has returned: loop_ is cleared under the lock...
Leave ==
  /\ thread = "looping" /\ thread' = "leaving"
  /\ pc = "idle"
  /\ published' = FALSE
  /\ UNCHANGED <<vars, owner, got>>

\* ...and the loop destroyed.
DestroyLoop ==
  /\ thread = "leaving" /\ thread' = "ended"
  /\ UNCHANGED <<vars, owner, published, got>>

-----------------------------------------------------------------------------
ThreadStep == Construct \/ Publish \/ EnterLoop \/ Leave \/ DestroyLoop
LoopThreadStep == thread = "looping" /\ LoopStep /\ UNCHANGED protocol
OwnerStep == WaitEnds \/ StartReturns \/ OwnerWakes \/ DestructorQuits \/ DestructorWakes \/ Join

ThreadNext ==
  \/ StartLoop \/ Destructor \/ OwnerStep \/ ThreadStep \/ InLoop \/ UserCode
  \/ \E f \in Functors : OwnerQueues(f)
  \/ \E c \in Channels : EventArrives(c)

ThreadSpec == ThreadInit /\ [][ThreadNext]_threadVars

\* Both threads run when they can; what the owner and the callbacks do is
\* their own choice, and no liveness comes from the poll timeout.
ThreadFairSpec == /\ ThreadSpec
                  /\ WF_threadVars(ThreadStep)
                  /\ WF_threadVars(LoopThreadStep)
                  /\ WF_threadVars(OwnerStep)

-----------------------------------------------------------------------------
(* Properties.                                                             *)

\* startLoop returns a loop that is constructed and initialised, and nullptr
\* only when the loop has ended already.
StartedIsReady ==
  owner = "running" => /\ thread \notin {"none", "constructing", "init"}
                       /\ got \/ thread \in {"leaving", "ended"}

\* Liveness: once its quit() finds the loop inside loop(), the destructor
\* returns, without the poll timeout.
StopsALoop == owner = "waking" /\ pc # "idle" /\ quit ~> owner = "joined"

\* Liveness, from "quit() leaves the event loop" (include/csl/net/EventLoop.h:54):
\* the destructor quits the loop, so its join returns.
DestructorReturns == owner = "joining" ~> owner = "joined"
=============================================================================
