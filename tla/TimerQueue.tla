----------------------------- MODULE TimerQueue -----------------------------
(***************************************************************************)
(* The TimerQueue of one EventLoop (src_epoll/timer/TimerQueue.cpp): the   *)
(* timers it owns, the timerfd, the loop thread that expires and resets    *)
(* them, and code in any thread that adds and cancels timers.              *)
(*                                                                         *)
(* Times are what is left of them: an expiration or alarm of 0 is due or   *)
(* overdue, a tick is the 100 us that howMuchTimeFromNow rounds up to.  A  *)
(* Timer is an object at an address that is free again once it is deleted, *)
(* and a TimerId keeps the address: its sequence_ is never looked at.      *)
(* Functors queued in the loop have the semantics of FunctorQueue.         *)
(***************************************************************************)
EXTENDS Naturals, Sequences

CONSTANTS
  Timers,      \* timers that are created, each of them once
  Repeating,   \* those with an interval
  Addresses,   \* where the allocator may put a Timer
  Interval,    \* interval of the repeating timers, in ticks
  MaxDelay,    \* bound: delay of a new timer, in ticks
  MaxCancels   \* bound: calls of cancel()

ASSUME TimersAssumption   == Repeating \subseteq Timers
ASSUME IntervalAssumption == Interval \in Nat \ {0} /\ MaxDelay \in Nat
ASSUME BoundAssumption    == MaxCancels \in Nat

VARIABLES
  pc,         \* the loop thread: "idle" outside handleRead, "reported" when
              \* poll has returned the timerfd, "calling" between two
              \* callbacks, "callback" in one, "gone" after the destructor
  timers,     \* timers_
  expired,    \* handleRead's vector
  left,       \* what is left of it to be called
  running,    \* the timers whose callback runs: none or one
  elapsed,    \* ticks since handleRead took its time (no more than Interval)
  armed,      \* the timerfd is armed, or readable...
  alarm,      \* ...in this number of ticks
  due,        \* expiration_ of each timer, in ticks from now
  address,    \* where each created Timer is or was
  alive,      \* Timers that are not deleted
  tasks,      \* functors queued in the loop
  cancelled,  \* history: timers cancelled in the loop after they were added to it
  cancels     \* bounded counter

callVars == <<tasks, cancelled, cancels>>
heapVars == <<address, alive>>
vars == <<pc, timers, expired, left, running, elapsed, armed, alarm, due, address, alive,
          tasks, cancelled, cancels>>

Created == DOMAIN address
Tasks == [what : {"add", "cancel"}, timer : Timers]

TypeOK ==
  /\ pc \in {"idle", "reported", "calling", "callback", "gone"}
  /\ timers \subseteq Created /\ expired \subseteq Created /\ alive \subseteq Created
  /\ left \subseteq expired /\ running \subseteq expired \ left
  /\ elapsed \in 0..Interval
  /\ armed \in BOOLEAN /\ alarm \in Nat
  /\ due \in [Timers -> Nat]
  /\ Created \subseteq Timers /\ address \in [Created -> Addresses]
  /\ tasks \in Seq(Tasks)
  /\ cancelled \subseteq Created
  /\ cancels \in 0..MaxCancels

\* The constructor leaves the timerfd unarmed.
Init ==
  /\ pc = "idle"
  /\ timers = {} /\ expired = {} /\ left = {} /\ running = {}
  /\ elapsed = 0
  /\ armed = FALSE /\ alarm = 0
  /\ due = [t \in Timers |-> 0]
  /\ address = [t \in {} |-> 0] /\ alive = {}
  /\ tasks = <<>> /\ cancelled = {} /\ cancels = 0

-----------------------------------------------------------------------------
(* The pieces the operations share; d are expirations.                     *)

\* resetTimerfd, with the least delay of howMuchTimeFromNow.
ResetTimerfd(delay) ==
  /\ armed' = TRUE
  /\ alarm' = IF delay = 0 THEN 1 ELSE delay

\* A bug: the first timer of an empty set counts as no change.
ChangesWithoutFirst(t, d) == {timers # {} /\ \A u \in timers : d[t] < d[u]}

\* What insert(t) may return: whether t is now the earliest.  The order of
\* overdue timers is not kept in the model.
EarliestChanged(t, d) ==
  IF \A u \in timers : d[t] < d[u] THEN {TRUE}
  ELSE IF d[t] = 0 THEN BOOLEAN ELSE {FALSE}

AddTimerInLoop(t, d) ==
  /\ timers' = timers \union {t}
  /\ \E changed \in EarliestChanged(t, d) :
       IF changed THEN ResetTimerfd(d[t]) ELSE UNCHANGED <<armed, alarm>>

\* Timers a queued functor is going to add.
Queued == {tasks[i].timer : i \in {k \in 1..Len(tasks) : tasks[k].what = "add"}}

\* A bug: the Timer is deleted wherever it is.
CancelAnywhere(t) ==
  LET found == {u \in alive : address[u] = address[t]}
  IN  /\ timers' = timers \ found
      /\ alive' = alive \ found
      /\ cancelled' = cancelled \union ({t} \ Queued)

\* cancelInLoop looks for the address in timers_.  When the Timer is deleted it
\* reads freed memory, and finds another Timer that now lives there, or nothing.
CancelInLoop(t) ==
  LET found == {u \in timers : address[u] = address[t]}
  IN  /\ timers' = timers \ found
      /\ alive' = alive \ found
      /\ cancelled' = cancelled \union ({t} \ Queued)

-----------------------------------------------------------------------------
(* Calls of addTimer and cancel.                                           *)

\* The loop thread runs code of the program's own: other handlers and
\* functors, a timer's callback.
InUserCode == pc \in {"idle", "reported", "callback"}

NewTimer(t, a, delay) ==
  /\ t \notin Created
  /\ \A u \in alive : address[u] # a
  /\ address' = [u \in Created \union {t} |-> IF u = t THEN a ELSE address[u]]
  /\ alive' = alive \union {t}
  /\ due' = [due EXCEPT ![t] = delay]

\* addTimer in the loop thread.
AddTimerHere(t, a, delay) ==
  /\ InUserCode
  /\ NewTimer(t, a, delay)
  /\ AddTimerInLoop(t, due')
  /\ UNCHANGED <<pc, expired, left, running, elapsed, callVars>>

\* addTimer in another thread: the id is returned when the functor is queued.
AddTimer(t, a, delay) ==
  /\ pc # "gone"
  /\ NewTimer(t, a, delay)
  /\ tasks' = Append(tasks, [what |-> "add", timer |-> t])
  /\ UNCHANGED <<pc, timers, expired, left, running, elapsed, armed, alarm, cancelled, cancels>>

CancelHere(t) ==
  /\ InUserCode
  /\ t \in Created
  /\ cancels < MaxCancels
  /\ cancels' = cancels + 1
  /\ CancelInLoop(t)
  /\ UNCHANGED <<pc, expired, left, running, elapsed, armed, alarm, due, address, tasks>>

Cancel(t) ==
  /\ pc # "gone"
  /\ t \in Created
  /\ cancels < MaxCancels
  /\ cancels' = cancels + 1
  /\ tasks' = Append(tasks, [what |-> "cancel", timer |-> t])
  /\ UNCHANGED <<pc, timers, expired, left, running, elapsed, armed, alarm, due, heapVars,
                 cancelled>>

\* The loop runs a queued functor.
RunTask ==
  /\ pc = "idle"
  /\ tasks # <<>>
  /\ tasks' = Tail(tasks)
  /\ \/ /\ Head(tasks).what = "add"
        /\ AddTimerInLoop(Head(tasks).timer, due)
        /\ UNCHANGED <<alive, cancelled>>
     \/ /\ Head(tasks).what = "cancel"
        /\ CancelInLoop(Head(tasks).timer)
        /\ UNCHANGED <<armed, alarm>>
  /\ UNCHANGED <<pc, expired, left, running, elapsed, due, address, cancels>>

-----------------------------------------------------------------------------
(* Expiration.                                                             *)

\* Poll returns the timerfd; other channels may be handled before it.
Poll ==
  /\ pc = "idle"
  /\ armed /\ alarm = 0
  /\ pc' = "reported"
  /\ UNCHANGED <<timers, expired, left, running, elapsed, armed, alarm, due, heapVars, callVars>>

\* handleRead up to its callbacks: the time is taken, the timerfd is read (which
\* does nothing when it was set again since poll), and the timers due by then
\* leave timers_.
HandleRead ==
  /\ pc = "reported"
  /\ pc' = "calling"
  /\ elapsed' = 0
  /\ armed' = (armed /\ alarm > 0)
  /\ expired' = {t \in timers : due[t] = 0}
  /\ left' = expired'
  /\ timers' = timers \ expired'
  /\ UNCHANGED <<running, alarm, due, heapVars, callVars>>

RunTimer(t) ==
  /\ pc = "calling"
  /\ t \in left
  /\ pc' = "callback"
  /\ left' = left \ {t}
  /\ running' = {t}
  /\ UNCHANGED <<timers, expired, elapsed, armed, alarm, due, heapVars, callVars>>

CallbackReturn ==
  /\ pc = "callback"
  /\ pc' = "calling"
  /\ running' = {}
  /\ UNCHANGED <<timers, expired, left, elapsed, armed, alarm, due, heapVars, callVars>>

\* The timers of the batch that are inserted again.
AllAgain == expired   \* a bug: repeat_ is not asked
Again == expired \intersect Repeating

\* restart(now) counts from the time handleRead took.
Restarted == [t \in Timers |-> IF t \in Again THEN Interval - elapsed ELSE due[t]]

\* A bug: the timerfd is left as it is.
ResetUnarmed ==
  /\ pc = "calling" /\ left = {}
  /\ pc' = "idle"
  /\ due' = Restarted
  /\ timers' = timers \union Again
  /\ alive' = alive \ (expired \ Again)
  /\ expired' = {}
  /\ UNCHANGED <<left, running, elapsed, armed, alarm, address, callVars>>

\* reset: repeating timers are inserted again, the others deleted, and the
\* timerfd is set for the first timer, if there is one.
Reset ==
  /\ pc = "calling" /\ left = {}
  /\ pc' = "idle"
  /\ due' = Restarted
  /\ timers' = timers \union Again
  /\ alive' = alive \ (expired \ Again)
  /\ expired' = {}
  /\ \/ /\ timers' = {}
        /\ UNCHANGED <<armed, alarm>>
     \/ \E t \in timers' : /\ \A u \in timers' : due'[t] <= due'[u]
                           /\ ResetTimerfd(due'[t])
  /\ UNCHANGED <<left, running, elapsed, address, callVars>>

\* The destructor deletes what is in timers_; queued functors never run.
Destroy ==
  /\ pc = "idle"
  /\ pc' = "gone"
  /\ timers' = {}
  /\ alive' = alive \ timers
  /\ armed' = FALSE
  /\ tasks' = <<>>
  /\ UNCHANGED <<expired, left, running, elapsed, alarm, due, address, cancelled, cancels>>

Less(n) == IF n = 0 THEN 0 ELSE n - 1

\* Time passes.
Tick ==
  /\ pc # "gone"
  /\ due' = [t \in Timers |-> Less(due[t])]
  /\ alarm' = Less(alarm)
  /\ elapsed' = IF pc \in {"calling", "callback"} /\ elapsed < Interval THEN elapsed + 1 ELSE elapsed
  /\ UNCHANGED <<pc, timers, expired, left, running, armed, heapVars, callVars>>

-----------------------------------------------------------------------------
LoopStep == HandleRead \/ CallbackReturn \/ Reset \/ \E t \in Timers : RunTimer(t)

UserStep ==
  \E t \in Timers :
    \/ CancelHere(t) \/ Cancel(t)
    \/ \E a \in Addresses, delay \in 0..MaxDelay : AddTimerHere(t, a, delay) \/ AddTimer(t, a, delay)

Next == Tick \/ Poll \/ RunTask \/ LoopStep \/ UserStep \/ Destroy

Spec == Init /\ [][Next]_vars

\* Time passes, callbacks return, and the loop goes on polling and running its
\* functors (an iteration does both).
FairSpec == /\ Spec
            /\ WF_vars(Tick)
            /\ WF_vars(LoopStep)
            /\ SF_vars(Poll)
            /\ SF_vars(RunTask)

-----------------------------------------------------------------------------
(* Properties.                                                             *)

\* Every Timer that is not deleted has one owner, and no owner has a deleted
\* one: cancels from callbacks, the batch of handleRead and the functors of
\* other threads neither leak, share nor free a Timer twice.
TimersAreOwned ==
  /\ alive = timers \union expired \union Queued \/ pc = "gone"
  /\ timers \union expired \subseteq alive
  /\ timers \intersect expired = {} /\ Queued \intersect (timers \union expired) = {}

\* The timerfd is never set too late for the first timer, whatever was added,
\* cancelled or restarted since it was set (addTimerInLoop, reset): outside
\* handleRead it is readable when that timer is due, or a tick later.
FirstIsArmed ==
  pc = "idle" => \A t \in timers : armed /\ (alarm <= due[t] \/ alarm <= 1)

\* Liveness: a timer in timers_ runs, unless a cancel or the destructor takes it.
TimersRun ==
  \A t \in Timers : t \in timers ~> t \in running \/ t \notin alive

\* The queue, the batch and the timerfd implement the abstract timers.
Status ==
  [t \in Timers |->
     IF t \notin Created THEN "new"
     ELSE IF t \in running THEN "running"
     ELSE IF t \notin alive \/ (t \in expired \ left /\ t \notin Repeating) THEN "done"
     ELSE "waiting"]

TimerServiceImpl == INSTANCE TimerService WITH status <- Status

ImplementsTimerService == TimerServiceImpl!Spec

\* cancel() "cancels the timer" (include/csl/net/EventLoop.h:104): once it has
\* been carried out in the loop for a timer the loop has, that timer does not
\* run again.
CancelStops == [][\A t \in cancelled : ~RunTimer(t)]_vars
=============================================================================
