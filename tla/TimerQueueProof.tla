--------------------------- MODULE TimerQueueProof ---------------------------
(***************************************************************************)
(* What TimerQueue promises for any timers, addresses, interval and        *)
(* delays: who owns a Timer, that the timerfd is set in time, and that the *)
(* queue, the batch of handleRead and the queued functors implement the    *)
(* abstract timers of TimerService.                                        *)
(***************************************************************************)
EXTENDS TimerQueue, SequenceTheorems, TLAPS

\* Timers are created before they are owned; handleRead's batch and the
\* running callback exist only while the loop thread is in handleRead.
BatchInv ==
  /\ pc \in {"idle", "reported", "calling", "callback", "gone"}
  /\ Created \subseteq Timers /\ alive \subseteq Created
  /\ left \subseteq expired /\ running \subseteq expired \ left
  /\ pc \notin {"calling", "callback"} => expired = {}
  /\ pc = "callback" => \E t \in Timers : running = {t}
  /\ pc # "callback" => running = {}
  /\ pc = "gone" => timers = {} /\ tasks = <<>>

\* A functor is for a timer that was created, and at most one adds it.
QueueIs(q, made) ==
  /\ q \in Seq(Tasks)
  /\ \A i \in 1..Len(q) : q[i].timer \in made
  /\ \A i, j \in 1..Len(q) :
       q[i].what = "add" /\ q[j].what = "add" /\ q[i].timer = q[j].timer => i = j

OwnedInv == BatchInv /\ QueueIs(tasks, Created) /\ TimersAreOwned

\* The clocks: the first timer is looked at only by the loop thread.
ClockInv ==
  /\ armed \in BOOLEAN /\ alarm \in Nat
  /\ due \in [Timers -> Nat]
  /\ elapsed \in 0..Interval
  /\ FirstIsArmed

-----------------------------------------------------------------------------
(* The queue of functors.                                                  *)

Added(q) == {q[i].timer : i \in {k \in 1..Len(q) : q[k].what = "add"}}

LEMMA QueuedIsAdded == Queued = Added(tasks) /\ Queued' = Added(tasks')
  BY Zenon DEF Queued, Added

AddedAt(q, t) == \E i \in 1..Len(q) : q[i].what = "add" /\ q[i].timer = t

LEMMA AddedMembers == \A q, t : t \in Added(q) <=> AddedAt(q, t)
  BY Zenon DEF Added, AddedAt

LEMMA QueueOfEmpty ==
  ASSUME NEW made
  PROVE  QueueIs(<<>>, made) /\ Added(<<>>) = {}
<1>1. <<>> \in Seq(Tasks) /\ Len(<<>>) = 0 /\ 1..0 = {}
  BY EmptySeq
<1>2. QueueIs(<<>>, made)
  BY <1>1, Zenon DEF QueueIs
<1>3. Added(<<>>) = {}
  BY <1>1, AddedMembers, Zenon DEF AddedAt
<1> QED  BY <1>2, <1>3

\* Taking the first functor: an add that is taken was the timer's only one.
LEMMA QueueTaken ==
  ASSUME NEW made, NEW q, QueueIs(q, made), q # <<>>
  PROVE  /\ QueueIs(Tail(q), made)
         /\ Head(q) \in Tasks /\ Head(q).timer \in made
         /\ Head(q).what = "add" =>
              Head(q).timer \in Added(q) /\ Added(Tail(q)) = Added(q) \ {Head(q).timer}
         /\ Head(q).what # "add" => Added(Tail(q)) = Added(q)
<1> DEFINE r == Tail(q)
<1>1. q \in Seq(Tasks)
  BY DEF QueueIs
<1>2. Len(q) \in Nat \ {0}
  BY <1>1, EmptySeq
<1>3. /\ r \in Seq(Tasks) /\ Len(r) = Len(q) - 1
      /\ \A i \in 1..Len(r) : r[i] = q[i + 1]
      /\ Head(q) \in Tasks /\ Head(q) = q[1]
  BY <1>1, <1>2, HeadTailProperties
<1> HIDE DEF r
<1>4. /\ 1 \in 1..Len(q)
      /\ \A i \in 1..Len(r) : i + 1 \in 1..Len(q) /\ i + 1 # 1
      /\ \A i \in 1..Len(q) : i = 1 \/ \E k \in 1..Len(r) : i = k + 1
      /\ \A i, j \in 1..Len(r) : i + 1 = j + 1 => i = j
  <2>1. \A i \in 1..Len(q) : i = 1 \/ (i - 1 \in 1..Len(r) /\ i = (i - 1) + 1)
    BY <1>2, <1>3
  <2>2. \A i \in 1..Len(q) : i = 1 \/ \E k \in 1..Len(r) : i = k + 1
    BY <2>1
  <2>3. 1 \in 1..Len(q) /\ \A i \in 1..Len(r) : i + 1 \in 1..Len(q) /\ i + 1 # 1
    BY <1>2, <1>3
  <2> QED  BY <2>2, <2>3
<1>5. QueueIs(r, made)
  <2>1. ASSUME NEW i \in 1..Len(r)
        PROVE  r[i].timer \in made
    BY <1>3, <1>4, Zenon DEF QueueIs
  <2>2. ASSUME NEW i \in 1..Len(r), NEW j \in 1..Len(r),
               r[i].what = "add", r[j].what = "add", r[i].timer = r[j].timer
        PROVE  i = j
    <3>1. r[i] = q[i + 1] /\ i + 1 \in 1..Len(q) /\ r[j] = q[j + 1] /\ j + 1 \in 1..Len(q)
      BY <1>3, <1>4, Zenon
    <3>2. i + 1 = j + 1
      BY <2>2, <3>1, Zenon DEF QueueIs
    <3> QED  BY <1>4, <3>2, Zenon
  <2> QED  BY <1>3, <2>1, <2>2, Zenon DEF QueueIs
<1>6. Head(q).timer \in made
  BY <1>3, <1>4, Zenon DEF QueueIs
<1>7. ASSUME NEW t
      PROVE  t \in Added(q) <=> t \in Added(r) \/ (Head(q).what = "add" /\ t = Head(q).timer)
  <2>1. ASSUME AddedAt(r, t)  PROVE AddedAt(q, t)
    <3>1. PICK i \in 1..Len(r) : r[i].what = "add" /\ r[i].timer = t
      BY <2>1, Zenon DEF AddedAt
    <3>2. i + 1 \in 1..Len(q) /\ q[i + 1] = r[i]
      BY <1>3, <1>4, Zenon
    <3> QED  BY <3>1, <3>2, Zenon DEF AddedAt
  <2>2. ASSUME AddedAt(q, t)
        PROVE  AddedAt(r, t) \/ (Head(q).what = "add" /\ t = Head(q).timer)
    <3>1. PICK i \in 1..Len(q) : q[i].what = "add" /\ q[i].timer = t
      BY <2>2, Zenon DEF AddedAt
    <3>2. CASE i = 1
      BY <1>3, <3>1, <3>2, Zenon
    <3>3. ASSUME NEW k \in 1..Len(r), i = k + 1  PROVE AddedAt(r, t)
      BY <1>3, <3>1, <3>3, Zenon DEF AddedAt
    <3> QED  BY <1>4, <3>2, <3>3, Zenon
  <2>3. Head(q).what = "add" /\ t = Head(q).timer => AddedAt(q, t)
    BY <1>3, <1>4, Zenon DEF AddedAt
  <2> QED  BY <2>1, <2>2, <2>3, AddedMembers, Zenon
<1>8. Head(q).what = "add" => Head(q).timer \notin Added(r)
  <2> SUFFICES ASSUME Head(q).what = "add", Head(q).timer \in Added(r)  PROVE FALSE
    OBVIOUS
  <2>0. AddedAt(r, Head(q).timer)
    BY AddedMembers, Zenon
  <2>1. PICK i \in 1..Len(r) : r[i].what = "add" /\ r[i].timer = Head(q).timer
    BY <2>0, Zenon DEF AddedAt
  <2>2. i + 1 = 1
    BY <1>3, <1>4, <2>1, Zenon DEF QueueIs
  <2> QED  BY <1>4, <2>2, Zenon
<1>9. Head(q).what = "add" => Added(r) = Added(q) \ {Head(q).timer}
  BY <1>7, <1>8
<1>10. Head(q).what # "add" => Added(r) = Added(q)
  BY <1>7
<1> QED  BY <1>3, <1>5, <1>6, <1>7, <1>9, <1>10 DEF r

\* Queueing a functor for a timer that exists.
LEMMA QueueGrows ==
  ASSUME NEW made, NEW more, made \subseteq more, NEW q, QueueIs(q, made),
         NEW f \in Tasks, f.timer \in more, f.what = "add" => f.timer \notin made
  PROVE  /\ QueueIs(Append(q, f), more)
         /\ Added(Append(q, f)) = Added(q) \union (IF f.what = "add" THEN {f.timer} ELSE {})
         /\ Added(q) \subseteq made
<1> DEFINE r == Append(q, f)
<1>1. q \in Seq(Tasks)
  BY DEF QueueIs
<1>2. /\ r \in Seq(Tasks) /\ Len(r) = Len(q) + 1 /\ Len(q) \in Nat
      /\ \A i \in 1..Len(q) : r[i] = q[i]
      /\ r[Len(q) + 1] = f
  BY <1>1, AppendProperties, LenProperties
<1> HIDE DEF r
<1>3. /\ \A i \in 1..Len(r) : i \in 1..Len(q) \/ i = Len(q) + 1
      /\ \A i \in 1..Len(q) : i \in 1..Len(r)
      /\ Len(q) + 1 \in 1..Len(r)
  BY <1>2
<1>4. \A i \in 1..Len(q) : q[i].timer \in made
  BY Zenon DEF QueueIs
<1>5. QueueIs(r, more)
  <2>1. ASSUME NEW i \in 1..Len(r)
        PROVE  r[i].timer \in more
    BY <1>2, <1>3, <1>4
  <2>2. ASSUME NEW i \in 1..Len(r), NEW j \in 1..Len(r),
               r[i].what = "add", r[j].what = "add", r[i].timer = r[j].timer
        PROVE  i = j
    BY <1>2, <1>3, <1>4, <2>2, Zenon DEF QueueIs
  <2> QED  BY <1>2, <2>1, <2>2, Zenon DEF QueueIs
<1>6. ASSUME NEW t
      PROVE  t \in Added(r) <=> t \in Added(q) \/ (f.what = "add" /\ t = f.timer)
  <2>1. AddedAt(r, t) => AddedAt(q, t) \/ (f.what = "add" /\ t = f.timer)
    BY <1>2, <1>3, Zenon DEF AddedAt
  <2>2. AddedAt(q, t) => AddedAt(r, t)
    BY <1>2, <1>3, Zenon DEF AddedAt
  <2>3. f.what = "add" /\ t = f.timer => AddedAt(r, t)
    BY <1>2, <1>3, Zenon DEF AddedAt
  <2> QED  BY <2>1, <2>2, <2>3, AddedMembers, Zenon
<1>7. Added(r) = Added(q) \union (IF f.what = "add" THEN {f.timer} ELSE {})
  BY <1>6
<1>8. Added(q) \subseteq made
  <2> SUFFICES ASSUME NEW t \in Added(q)  PROVE t \in made
    OBVIOUS
  <2>1. AddedAt(q, t)
    BY AddedMembers, Zenon
  <2> QED  BY <1>4, <2>1, Zenon DEF AddedAt
<1> QED  BY <1>5, <1>7, <1>8 DEF r

LEMMA QueueGrowsByCancel ==
  ASSUME NEW made, NEW q, QueueIs(q, made), NEW f \in Tasks, f.timer \in made, f.what # "add"
  PROVE  QueueIs(Append(q, f), made) /\ Added(Append(q, f)) = Added(q)
<1>1. /\ QueueIs(Append(q, f), made)
      /\ Added(Append(q, f)) = Added(q) \union (IF f.what = "add" THEN {f.timer} ELSE {})
  BY QueueGrows
<1> QED  BY <1>1

-----------------------------------------------------------------------------
(* Who owns a Timer.                                                       *)

LEMMA InitOwned == Init => OwnedInv
<1> SUFFICES ASSUME Init  PROVE OwnedInv
  OBVIOUS
<1>1. Created = {}
  BY DEF Init, Created
<1>2. QueueIs(tasks, Created) /\ Queued = {}
  BY QueueOfEmpty, QueuedIsAdded DEF Init
<1> QED  BY <1>1, <1>2 DEF Init, OwnedInv, BatchInv, TimersAreOwned

\* addTimer makes a Timer at an address that no living one has.
LEMMA NewTimerIsNew ==
  ASSUME NEW t, NEW a, NEW delay, NewTimer(t, a, delay)
  PROVE  /\ t \notin Created /\ Created' = Created \union {t}
         /\ alive' = alive \union {t}
  BY DEF NewTimer, Created

\* A timer moves into timers_ from nowhere, or from the functor that adds it.
LEMMA AddHereOwned ==
  ASSUME OwnedInv, NEW t \in Timers, NEW a, NEW delay, AddTimerHere(t, a, delay)
  PROVE  OwnedInv'
<1>1. /\ t \notin Created /\ Created' = Created \union {t} /\ alive' = alive \union {t}
      /\ timers' = timers \union {t} /\ tasks' = tasks
      /\ pc # "gone" /\ UNCHANGED <<pc, expired, left, running>>
  BY NewTimerIsNew DEF AddTimerHere, AddTimerInLoop, callVars, InUserCode
<1>2. QueueIs(tasks', Created')
  BY <1>1, Zenon DEF OwnedInv, QueueIs
<1>3. Queued' = Queued
  BY <1>1, QueuedIsAdded
<1>4. Queued \subseteq Created
  BY DEF OwnedInv, BatchInv, TimersAreOwned, QueueIs, Queued
<1> QED  BY <1>1, <1>2, <1>3, <1>4 DEF OwnedInv, BatchInv, TimersAreOwned

LEMMA AddOwned ==
  ASSUME OwnedInv, NEW t \in Timers, NEW a, NEW delay, AddTimer(t, a, delay)
  PROVE  OwnedInv'
<1> DEFINE f == [what |-> "add", timer |-> t]
<1>1. /\ t \notin Created /\ Created' = Created \union {t} /\ alive' = alive \union {t}
      /\ tasks' = Append(tasks, f)
      /\ pc # "gone" /\ UNCHANGED <<pc, timers, expired, left, running>>
  BY NewTimerIsNew DEF AddTimer
<1>2. f \in Tasks /\ f.what = "add" /\ f.timer = t
  BY Zenon DEF Tasks
<1> HIDE DEF f
<1>3. /\ QueueIs(tasks', Created') /\ Added(tasks') = Added(tasks) \union {t}
      /\ Added(tasks) \subseteq Created
  <2>1. /\ Created \subseteq Created' /\ QueueIs(tasks, Created)
        /\ f.timer \in Created' /\ (f.what = "add" => f.timer \notin Created)
    BY <1>1, <1>2 DEF OwnedInv
  <2>2. /\ QueueIs(Append(tasks, f), Created')
        /\ Added(Append(tasks, f)) = Added(tasks) \union (IF f.what = "add" THEN {f.timer} ELSE {})
        /\ Added(tasks) \subseteq Created
    BY <1>2, <2>1, QueueGrows, Zenon
  <2> QED  BY <1>1, <1>2, <2>2, Zenon
<1>4. Queued' = Queued \union {t} /\ Queued \subseteq Created
  BY <1>3, QueuedIsAdded
<1> QED  BY <1>1, <1>3, <1>4 DEF OwnedInv, BatchInv, TimersAreOwned

\* cancelInLoop deletes what it takes from timers_, and nothing else.
LEMMA CancelOwned ==
  ASSUME OwnedInv, NEW t, CancelInLoop(t), pc # "gone", Queued' = Queued,
         QueueIs(tasks', Created'), UNCHANGED <<pc, expired, left, running, address>>
  PROVE  OwnedInv'
<1>1. \E found \in SUBSET timers : timers' = timers \ found /\ alive' = alive \ found
  BY DEF CancelInLoop
<1>2. Created' = Created
  BY DEF Created
<1> QED  BY <1>1, <1>2 DEF OwnedInv, BatchInv, TimersAreOwned

LEMMA CancelCallsOwned ==
  ASSUME OwnedInv, NEW t \in Timers, CancelHere(t) \/ Cancel(t)
  PROVE  OwnedInv'
<1>1. CASE CancelHere(t)
  <2>1. /\ Created' = Created /\ tasks' = tasks /\ pc # "gone" /\ CancelInLoop(t)
        /\ UNCHANGED <<pc, expired, left, running, address>>
    BY <1>1 DEF CancelHere, InUserCode, Created
  <2>2. QueueIs(tasks', Created') /\ Queued' = Queued
    BY <2>1, QueuedIsAdded DEF OwnedInv
  <2> QED  BY <2>1, <2>2, CancelOwned
<1>2. CASE Cancel(t)
  <2> DEFINE f == [what |-> "cancel", timer |-> t]
  <2>1. /\ Created' = Created /\ t \in Created /\ tasks' = Append(tasks, f) /\ pc # "gone"
        /\ UNCHANGED <<pc, timers, expired, left, running, alive>>
    BY <1>2 DEF Cancel, heapVars, Created
  <2>2. f \in Tasks /\ f.what # "add" /\ f.timer = t
    BY DEF Tasks
  <2> HIDE DEF f
  <2>3. QueueIs(tasks', Created') /\ Added(tasks') = Added(tasks)
    <3>1. QueueIs(tasks, Created) /\ f \in Tasks /\ f.timer \in Created
      BY <2>1, <2>2 DEF OwnedInv
    <3>2. QueueIs(Append(tasks, f), Created) /\ Added(Append(tasks, f)) = Added(tasks)
      BY <2>2, <3>1, QueueGrowsByCancel, Zenon
    <3> QED  BY <2>1, <3>2, Zenon
  <2>4. Queued' = Queued
    BY <2>3, QueuedIsAdded
  <2> QED  BY <2>1, <2>3, <2>4 DEF OwnedInv, BatchInv, TimersAreOwned
<1> QED  BY <1>1, <1>2

LEMMA TaskOwned ==
  ASSUME OwnedInv, RunTask
  PROVE  OwnedInv'
<1>1. /\ pc = "idle" /\ tasks' = Tail(tasks) /\ Created' = Created
      /\ UNCHANGED <<pc, expired, left, running, address>>
  BY DEF RunTask, Created
<1>2. /\ QueueIs(tasks', Created') /\ Head(tasks).timer \in Created
      /\ Head(tasks).what = "add" =>
           Head(tasks).timer \in Queued /\ Queued' = Queued \ {Head(tasks).timer}
      /\ Head(tasks).what # "add" => Queued' = Queued
  <2>1. QueueIs(tasks, Created) /\ tasks # <<>>
    BY DEF OwnedInv, RunTask
  <2> QED  BY <1>1, <2>1, QueueTaken, QueuedIsAdded
<1>3. CASE Head(tasks).what = "add"
  <2>1. timers' = timers \union {Head(tasks).timer} /\ alive' = alive
    BY <1>3 DEF RunTask, AddTimerInLoop
  <2> QED  BY <1>1, <1>2, <1>3, <2>1 DEF OwnedInv, BatchInv, TimersAreOwned
<1>4. CASE Head(tasks).what # "add"
  <2>1. CancelInLoop(Head(tasks).timer)
    BY <1>4 DEF RunTask
  <2> QED  BY <1>1, <1>2, <1>4, <2>1, CancelOwned
<1> QED  BY <1>3, <1>4

\* handleRead moves timers between timers_ and its batch.
LEMMA LoopOwned ==
  ASSUME OwnedInv, Tick \/ Poll \/ LoopStep
  PROVE  OwnedInv'
<1>1. Created' = Created /\ tasks' = tasks
  BY DEF Tick, Poll, LoopStep, HandleRead, CallbackReturn, Reset, RunTimer, heapVars, callVars,
         Created
<1>2. QueueIs(tasks', Created') /\ Queued' = Queued
  BY <1>1, QueuedIsAdded DEF OwnedInv
<1>3. CASE Tick \/ Poll
  <2>1. /\ UNCHANGED <<timers, expired, left, running, alive>>
        /\ pc' = pc \/ (pc = "idle" /\ pc' = "reported")
    BY <1>3 DEF Tick, Poll, heapVars
  <2> QED  BY <1>1, <1>2, <2>1 DEF OwnedInv, BatchInv, TimersAreOwned
<1>4. CASE HandleRead
  BY <1>1, <1>2, <1>4 DEF HandleRead, heapVars, OwnedInv, BatchInv, TimersAreOwned
<1>5. ASSUME NEW t \in Timers, RunTimer(t)
      PROVE  OwnedInv'
  BY <1>1, <1>2, <1>5 DEF RunTimer, heapVars, OwnedInv, BatchInv, TimersAreOwned
<1>6. CASE CallbackReturn
  BY <1>1, <1>2, <1>6 DEF CallbackReturn, heapVars, OwnedInv, BatchInv, TimersAreOwned
<1>7. CASE Reset
  <2>1. /\ pc = "calling" /\ pc' = "idle" /\ left = {} /\ left' = {} /\ running' = running
        /\ timers' = timers \union Again /\ alive' = alive \ (expired \ Again) /\ expired' = {}
        /\ Again \subseteq expired
    BY <1>7 DEF Reset, Again
  <2> QED  BY <1>1, <1>2, <2>1 DEF OwnedInv, BatchInv, TimersAreOwned
<1> QED  BY <1>3, <1>4, <1>5, <1>6, <1>7 DEF LoopStep

LEMMA DestroyOwned ==
  ASSUME OwnedInv, Destroy
  PROVE  OwnedInv'
<1>1. /\ pc = "idle" /\ pc' = "gone" /\ timers' = {} /\ alive' = alive \ timers /\ tasks' = <<>>
      /\ UNCHANGED <<expired, left, running>> /\ Created' = Created
  BY DEF Destroy, Created
<1>2. QueueIs(tasks', Created') /\ Queued' = {}
  BY <1>1, QueueOfEmpty, QueuedIsAdded
<1> QED  BY <1>1, <1>2 DEF OwnedInv, BatchInv, TimersAreOwned

LEMMA NextOwned == OwnedInv /\ [Next]_vars => OwnedInv'
<1> SUFFICES ASSUME OwnedInv, [Next]_vars  PROVE OwnedInv'
  OBVIOUS
<1>1. CASE Next
  BY <1>1, AddHereOwned, AddOwned, CancelCallsOwned, TaskOwned, LoopOwned, DestroyOwned
  DEF Next, UserStep
<1>2. CASE UNCHANGED vars
  <2>1. /\ UNCHANGED <<pc, timers, expired, left, running, alive, tasks>> /\ Created' = Created
    BY <1>2 DEF vars, Created
  <2>2. Queued' = Queued
    BY <2>1, QueuedIsAdded
  <2> QED  BY <2>1, <2>2 DEF OwnedInv, BatchInv, TimersAreOwned
<1> QED  BY <1>1, <1>2

LEMMA OwnedInvariant == Spec => []OwnedInv
  BY InitOwned, NextOwned, PTL DEF Spec

\* Every Timer has one owner until it is deleted, once: timers_, the batch of
\* handleRead or the functor that will add it; cancels at any time included.
THEOREM TimersHaveOneOwner == Spec => []TimersAreOwned
  BY OwnedInvariant, PTL DEF OwnedInv

-----------------------------------------------------------------------------
(* The timerfd.                                                            *)

\* The timerfd is set in time for the timers of s, by expirations d.
InTime(on, at, s, d) == \A t \in s : on /\ (at <= d[t] \/ at <= 1)

LEMMA InitClock == Init => ClockInv
<1> SUFFICES ASSUME Init  PROVE ClockInv
  OBVIOUS
<1>1. due \in [Timers -> Nat] /\ alarm \in Nat /\ elapsed \in 0..Interval /\ timers = {}
  BY IntervalAssumption DEF Init
<1>2. armed \in BOOLEAN
  BY Zenon DEF Init
<1> QED  BY <1>1, <1>2 DEF ClockInv, FirstIsArmed

\* addTimerInLoop sets the timerfd for a timer that is the earliest now, and
\* leaves it when another is.
LEMMA AddInTime ==
  ASSUME NEW d \in [Timers -> Nat], NEW t \in Timers, timers \subseteq Timers,
         armed \in BOOLEAN, alarm \in Nat, AddTimerInLoop(t, d)
  PROVE  /\ armed' \in BOOLEAN /\ alarm' \in Nat
         /\ InTime(armed, alarm, timers, d) => InTime(armed', alarm', timers', d)
<1>1. timers' = timers \union {t} /\ d[t] \in Nat /\ \A u \in timers : d[u] \in Nat
  BY DEF AddTimerInLoop
<1>2. CASE ResetTimerfd(d[t]) /\ (d[t] = 0 \/ \A u \in timers : d[t] < d[u])
  <2>1. armed' = TRUE /\ alarm' = IF d[t] = 0 THEN 1 ELSE d[t]
    BY <1>2 DEF ResetTimerfd
  <2>2. alarm' \in Nat /\ \A u \in timers \union {t} : alarm' <= d[u] \/ alarm' <= 1
    BY <1>1, <1>2, <2>1
  <2> QED  BY <1>1, <2>1, <2>2 DEF InTime
<1>3. CASE UNCHANGED <<armed, alarm>> /\ \E u \in timers : ~(d[t] < d[u])
  <2>1. PICK u \in timers : ~(d[t] < d[u])
    BY <1>3
  <2>2. d[u] <= d[t]
    BY <1>1, <2>1
  <2>3. InTime(armed, alarm, timers, d) => armed /\ (alarm <= d[t] \/ alarm <= 1)
    BY <1>1, <2>2 DEF InTime
  <2> QED  BY <1>1, <1>3, <2>3 DEF InTime
<1>4. \/ ResetTimerfd(d[t]) /\ (d[t] = 0 \/ \A u \in timers : d[t] < d[u])
      \/ UNCHANGED <<armed, alarm>> /\ \E u \in timers : ~(d[t] < d[u])
  <2>1. CASE \A u \in timers : d[t] < d[u]
    BY <2>1 DEF AddTimerInLoop, EarliestChanged
  <2>2. CASE ~\A u \in timers : d[t] < d[u]
    BY <2>2 DEF AddTimerInLoop, EarliestChanged
  <2> QED  BY <2>1, <2>2
<1> QED  BY <1>2, <1>3, <1>4

\* reset sets it for a timer that no other precedes.
LEMMA ResetInTime ==
  ASSUME NEW d \in [Timers -> Nat], NEW s \in SUBSET Timers, NEW t \in s,
         \A u \in s : d[t] <= d[u], ResetTimerfd(d[t])
  PROVE  armed' \in BOOLEAN /\ alarm' \in Nat /\ InTime(armed', alarm', s, d)
<1>1. armed' = TRUE /\ alarm' = IF d[t] = 0 THEN 1 ELSE d[t]
  BY DEF ResetTimerfd
<1>2. d[t] \in Nat /\ \A u \in s : d[u] \in Nat
  OBVIOUS
<1>3. alarm' \in Nat /\ \A u \in s : alarm' <= d[u] \/ alarm' <= 1
  BY <1>1, <1>2
<1> QED  BY <1>1, <1>3 DEF InTime

\* Time passes for the timers and the timerfd alike.
LEMMA TickInTime ==
  ASSUME ClockInv, timers \subseteq Timers, Tick
  PROVE  ClockInv'
<1>1. \A n \in Nat : Less(n) \in Nat
  BY DEF Less
<1>2. /\ due' \in [Timers -> Nat] /\ alarm' \in Nat
      /\ \A t \in Timers : due'[t] = Less(due[t])
      /\ alarm' = Less(alarm) /\ armed' = armed /\ timers' = timers /\ pc' = pc
  BY <1>1 DEF ClockInv, Tick
<1>3. elapsed' \in 0..Interval
  BY IntervalAssumption DEF ClockInv, Tick
<1>4. \A m, n \in Nat : (m <= n => Less(m) <= Less(n)) /\ (m <= 1 => Less(m) <= 1)
  BY DEF Less
<1>5. FirstIsArmed'
  <2> SUFFICES ASSUME pc = "idle", NEW t \in timers
               PROVE  armed /\ (alarm' <= due'[t] \/ alarm' <= 1)
    BY <1>2 DEF FirstIsArmed
  <2>1. armed /\ (alarm <= due[t] \/ alarm <= 1)
    BY DEF ClockInv, FirstIsArmed
  <2>2. alarm \in Nat /\ due[t] \in Nat
    BY DEF ClockInv
  <2> QED  BY <1>2, <1>4, <2>1, <2>2
<1> QED  BY <1>2, <1>3, <1>5 DEF ClockInv
\* The timerfd is in time again whatever code of the program, functor or
\* expiration comes between.
LEMMA NextClock ==
  ASSUME OwnedInv, ClockInv, [Next]_vars
  PROVE  ClockInv'
<1>1. /\ armed \in BOOLEAN /\ alarm \in Nat /\ due \in [Timers -> Nat]
      /\ elapsed \in 0..Interval /\ Interval \in Nat /\ MaxDelay \in Nat
      /\ pc = "idle" => InTime(armed, alarm, timers, due)
  BY IntervalAssumption DEF ClockInv, FirstIsArmed, InTime
<1>2. timers \subseteq Timers /\ timers \subseteq Created
  BY DEF OwnedInv, BatchInv, TimersAreOwned
<1> SUFFICES /\ armed' \in BOOLEAN /\ alarm' \in Nat /\ due' \in [Timers -> Nat]
             /\ elapsed' \in 0..Interval
             /\ pc' = "idle" => InTime(armed', alarm', timers', due')
  BY DEF ClockInv, FirstIsArmed, InTime
<1>3. CASE Tick
  BY <1>2, <1>3, TickInTime DEF ClockInv, FirstIsArmed, InTime
<1>4. CASE UNCHANGED <<armed, alarm, due, elapsed, pc>> /\ timers' \subseteq timers
  BY <1>1, <1>4 DEF InTime
<1>5. ASSUME NEW t \in Timers, NEW a, NEW delay \in 0..MaxDelay,
             AddTimerHere(t, a, delay) \/ AddTimer(t, a, delay)
      PROVE  /\ armed' \in BOOLEAN /\ alarm' \in Nat /\ due' \in [Timers -> Nat]
             /\ elapsed' \in 0..Interval
             /\ pc' = "idle" => InTime(armed', alarm', timers', due')
  <2>1. /\ t \notin Created /\ due' = [due EXCEPT ![t] = delay] /\ elapsed' = elapsed /\ pc' = pc
    BY <1>5 DEF AddTimerHere, AddTimer, NewTimer
  <2>2. due' \in [Timers -> Nat] /\ \A u \in timers : due'[u] = due[u]
    BY <1>1, <1>2, <2>1
  <2>3. InTime(armed, alarm, timers, due) => InTime(armed, alarm, timers, due')
    BY <2>2 DEF InTime
  <2>4. CASE AddTimerHere(t, a, delay)
    <3> DEFINE d == due'
    <3>1. AddTimerInLoop(t, d) /\ d \in [Timers -> Nat]
      BY <2>2, <2>4 DEF AddTimerHere
    <3>2. InTime(armed, alarm, timers, due) => InTime(armed, alarm, timers, d)
      BY <2>3
    <3> HIDE DEF d
    <3>3. /\ armed' \in BOOLEAN /\ alarm' \in Nat
          /\ InTime(armed, alarm, timers, d) => InTime(armed', alarm', timers', d)
      BY <1>1, <1>2, <3>1, AddInTime
    <3> QED  BY <1>1, <2>1, <2>2, <3>2, <3>3 DEF d
  <2>5. CASE AddTimer(t, a, delay)
    <3>1. UNCHANGED <<armed, alarm, timers>>
      BY <2>5 DEF AddTimer
    <3> QED  BY <1>1, <2>1, <2>2, <2>3, <3>1
  <2> QED  BY <1>5, <2>4, <2>5
<1>6. CASE RunTask
  <2>1. CASE AddTimerInLoop(Head(tasks).timer, due)
    <3>1. Head(tasks).timer \in Timers
      <4>1. QueueIs(tasks, Created) /\ tasks # <<>> /\ Created \subseteq Timers
        BY <1>6 DEF OwnedInv, BatchInv, RunTask
      <4> QED  BY <4>1, QueueTaken
    <3>2. /\ armed' \in BOOLEAN /\ alarm' \in Nat
          /\ InTime(armed, alarm, timers, due) => InTime(armed', alarm', timers', due)
      BY <1>1, <1>2, <2>1, <3>1, AddInTime
    <3>3. UNCHANGED <<due, elapsed, pc>>
      BY <1>6 DEF RunTask
    <3> QED  BY <1>1, <3>2, <3>3
  <2>2. CASE CancelInLoop(Head(tasks).timer) /\ UNCHANGED <<armed, alarm>>
    <3>1. UNCHANGED <<due, elapsed, pc>> /\ timers' \subseteq timers
      BY <1>6, <2>2 DEF RunTask, CancelInLoop
    <3> QED  BY <1>4, <2>2, <3>1
  <2> QED  BY <1>6, <2>1, <2>2 DEF RunTask
<1>7. CASE HandleRead
  BY <1>1, <1>7 DEF HandleRead
<1>8. CASE Reset
  <2>1. due' \in [Timers -> Nat] /\ elapsed' = elapsed
    BY <1>1, <1>8 DEF Reset, Restarted
  <2>2. timers' \subseteq Timers
    BY <1>2, <1>8 DEF Reset, Again, OwnedInv, BatchInv, TimersAreOwned
  <2>3. CASE timers' = {} /\ UNCHANGED <<armed, alarm>>
    BY <1>1, <2>1, <2>3 DEF InTime
  <2>4. ASSUME NEW t \in timers', \A u \in timers' : due'[t] <= due'[u], ResetTimerfd(due'[t])
        PROVE  armed' \in BOOLEAN /\ alarm' \in Nat /\ InTime(armed', alarm', timers', due')
    <3> DEFINE d == due'  s == timers'
    <3>1. /\ d \in [Timers -> Nat] /\ s \in SUBSET Timers /\ t \in s
          /\ \A u \in s : d[t] <= d[u]
          /\ ResetTimerfd(d[t])
      BY <2>1, <2>2, <2>4
    <3> HIDE DEF d, s
    <3>2. armed' \in BOOLEAN /\ alarm' \in Nat /\ InTime(armed', alarm', s, d)
      BY <3>1, ResetInTime
    <3> QED  BY <3>2 DEF d, s
  <2> QED  BY <1>1, <1>8, <2>1, <2>3, <2>4 DEF Reset
<1>9. CASE Destroy
  BY <1>1, <1>9 DEF Destroy
<1>10. CASE Poll \/ CallbackReturn \/ \E t \in Timers : RunTimer(t)
  BY <1>1, <1>10 DEF Poll, CallbackReturn, RunTimer
<1>11. ASSUME NEW t \in Timers, CancelHere(t) \/ Cancel(t)
       PROVE  UNCHANGED <<armed, alarm, due, elapsed, pc>> /\ timers' \subseteq timers
  BY <1>11 DEF CancelHere, Cancel, CancelInLoop
<1>12. UNCHANGED vars => UNCHANGED <<armed, alarm, due, elapsed, pc>> /\ timers' \subseteq timers
  BY DEF vars
<1> QED
  BY <1>3, <1>4, <1>5, <1>6, <1>7, <1>8, <1>9, <1>10, <1>11, <1>12, Zenon DEF Next, LoopStep, UserStep

LEMMA ClockInvariant == Spec => []ClockInv
  BY InitClock, NextClock, OwnedInvariant, PTL DEF Spec

\* While the loop may wait in poll, the timerfd is set for the first timer of
\* timers_ or earlier.
THEOREM FirstTimerIsArmed == Spec => []FirstIsArmed
  BY ClockInvariant, PTL DEF ClockInv

-----------------------------------------------------------------------------
(* The refinement.                                                         *)

\* What the abstract timers are, one by one.
StatusOf(t) ==
  IF t \notin Created THEN "new"
  ELSE IF t \in running THEN "running"
  ELSE IF t \notin alive \/ (t \in expired \ left /\ t \notin Repeating) THEN "done"
  ELSE "waiting"

LEMMA StatusIs ==
  /\ Status = [t \in Timers |-> StatusOf(t)]
  /\ Status' = [t \in Timers |-> StatusOf(t)']
  BY Zenon DEF Status, StatusOf

\* A step that changes no timer's status.
LEMMA Stutters ==
  ASSUME \A t \in Timers : StatusOf(t)' = StatusOf(t)
  PROVE  Status' = Status
  BY StatusIs, Zenon

\* A step that changes those of s to x.
LEMMA Moves ==
  ASSUME NEW s \in SUBSET Timers, NEW x,
         \A t \in Timers : StatusOf(t)' = IF t \in s THEN x ELSE StatusOf(t)
  PROVE  Status' = [t \in Timers |-> IF t \in s THEN x ELSE Status[t]]
<1>1. \A t \in Timers : Status[t] = StatusOf(t)
  BY StatusIs, Zenon
<1>2. \A t \in Timers : (IF t \in s THEN x ELSE StatusOf(t)) = (IF t \in s THEN x ELSE Status[t])
  BY <1>1, Zenon
<1> QED  BY <1>2, StatusIs, Zenon

LEMMA MovesOne ==
  ASSUME NEW t \in Timers, NEW x,
         \A u \in Timers : StatusOf(u)' = IF u = t THEN x ELSE StatusOf(u)
  PROVE  Status' = [Status EXCEPT ![t] = x]
<1>1. \A u \in Timers : StatusOf(u)' = IF u \in {t} THEN x ELSE StatusOf(u)
  BY Zenon
<1>2. {t} \in SUBSET Timers
  OBVIOUS
<1>3. Status' = [u \in Timers |-> IF u \in {t} THEN x ELSE Status[u]]
  BY <1>1, <1>2, Moves, Zenon
<1> QED  BY <1>3, StatusIs

\* addTimer: a new timer waits.
LEMMA AddIsNew ==
  ASSUME OwnedInv, NEW t \in Timers, NEW a, NEW delay,
         AddTimerHere(t, a, delay) \/ AddTimer(t, a, delay)
  PROVE  TimerServiceImpl!New(t)
<1>1. /\ t \notin Created /\ Created' = Created \union {t} /\ alive' = alive \union {t}
      /\ UNCHANGED <<expired, left, running>>
  BY NewTimerIsNew DEF AddTimerHere, AddTimer
<1>2. t \notin running /\ t \notin expired
  BY <1>1 DEF OwnedInv, BatchInv, TimersAreOwned
<1>3. \A u \in Timers : StatusOf(u)' = IF u = t THEN "waiting" ELSE StatusOf(u)
  BY <1>1, <1>2 DEF StatusOf
<1>4. Status[t] = "new"
  BY <1>1, StatusIs DEF StatusOf
<1> QED  BY <1>3, <1>4, MovesOne DEF TimerServiceImpl!New

\* cancelInLoop and the destructor: timers that wait are dropped.
LEMMA TakenAreDropped ==
  ASSUME OwnedInv, NEW s \in SUBSET timers, alive' = alive \ s, Created' = Created,
         UNCHANGED <<expired, left, running>>
  PROVE  TimerServiceImpl!Drop(s)
<1>1. s \subseteq Timers /\ s \subseteq Created /\ s \subseteq alive
  BY DEF OwnedInv, BatchInv, TimersAreOwned
<1>2. s \intersect expired = {} /\ running \subseteq expired
  BY DEF OwnedInv, BatchInv, TimersAreOwned
<1>3. \A u \in Timers : StatusOf(u)' = IF u \in s THEN "done" ELSE StatusOf(u)
  BY <1>1, <1>2 DEF StatusOf
<1>4. \A u \in s : Status[u] = "waiting"
  BY <1>1, <1>2, StatusIs DEF StatusOf
<1> QED  BY <1>1, <1>3, <1>4, Moves DEF TimerServiceImpl!Drop

LEMMA CancelIsDrop ==
  ASSUME OwnedInv, NEW t, CancelInLoop(t), UNCHANGED <<expired, left, running, address>>
  PROVE  \E s \in SUBSET Timers : TimerServiceImpl!Drop(s)
<1>1. PICK s \in SUBSET timers : alive' = alive \ s
  BY DEF CancelInLoop
<1>2. TimerServiceImpl!Drop(s)
  BY <1>1, TakenAreDropped DEF Created
<1>3. s \in SUBSET Timers
  BY DEF OwnedInv, BatchInv, TimersAreOwned
<1> QED  BY <1>2, <1>3

\* One callback starts, when none runs, for a timer that waits in the batch.
LEMMA RunIsStart ==
  ASSUME OwnedInv, NEW t \in Timers, RunTimer(t)
  PROVE  TimerServiceImpl!Start(t)
<1>1. /\ t \in left /\ left' = left \ {t} /\ running' = {t} /\ running = {}
      /\ UNCHANGED <<expired, alive>> /\ Created' = Created
  BY DEF RunTimer, heapVars, Created, OwnedInv, BatchInv
<1>2. t \in expired /\ t \in alive /\ t \in Created
  BY <1>1 DEF OwnedInv, BatchInv, TimersAreOwned
<1>3. \A u \in Timers : StatusOf(u)' = IF u = t THEN "running" ELSE StatusOf(u)
  BY <1>1, <1>2 DEF StatusOf
<1>4. Status[t] = "waiting" /\ \A u \in Timers : Status[u] # "running"
  BY <1>1, <1>2, StatusIs DEF StatusOf
<1> QED  BY <1>3, <1>4, MovesOne DEF TimerServiceImpl!Start

\* It ends: a repeating timer waits again, another one is done.
LEMMA ReturnIsReturn ==
  ASSUME OwnedInv, CallbackReturn
  PROVE  \E t \in Timers : TimerServiceImpl!Return(t)
<1>1. PICK t \in Timers : running = {t}
  BY DEF CallbackReturn, OwnedInv, BatchInv
<1>2. /\ running' = {} /\ UNCHANGED <<expired, left, alive>> /\ Created' = Created
  BY DEF CallbackReturn, heapVars, Created
<1>3. t \in expired \ left /\ t \in alive /\ t \in Created
  BY <1>1 DEF OwnedInv, BatchInv, TimersAreOwned
<1> DEFINE x == IF t \in Repeating THEN "waiting" ELSE "done"
<1>4. \A u \in Timers : StatusOf(u)' = IF u = t THEN x ELSE StatusOf(u)
  BY <1>1, <1>2, <1>3 DEF StatusOf
<1>5. Status[t] = "running"
  BY <1>1, <1>3, StatusIs DEF StatusOf
<1> HIDE DEF x
<1>6. Status' = [Status EXCEPT ![t] = x]
  BY <1>4, MovesOne
<1>7. TimerServiceImpl!Return(t)
  BY <1>5, <1>6, Zenon DEF TimerServiceImpl!Return, x
<1> QED  BY <1>7

\* Time, poll, the batch and its end change nothing of it.
LEMMA RestStutters ==
  ASSUME OwnedInv,
         Tick \/ Poll \/ HandleRead \/ Reset \/ (\E t \in Timers : Cancel(t)) \/ UNCHANGED vars
  PROVE  Status' = Status
<1>1. CASE HandleRead
  <2>1. /\ expired = {} /\ left = {} /\ left' = expired'
        /\ UNCHANGED <<running, alive>> /\ Created' = Created
    BY <1>1 DEF HandleRead, heapVars, Created, OwnedInv, BatchInv
  <2> QED  BY <2>1, Stutters DEF StatusOf
<1>2. CASE Reset
  <2>1. /\ left = {} /\ left' = {} /\ running = {} /\ running' = {} /\ expired' = {}
        /\ alive' = alive \ (expired \ Repeating) /\ Created' = Created
        /\ expired \subseteq alive
    BY <1>2 DEF Reset, Again, Created, OwnedInv, BatchInv, TimersAreOwned
  <2>2. \A u \in Timers : StatusOf(u)' = StatusOf(u)
    BY <2>1 DEF StatusOf
  <2> QED  BY <2>2, Stutters
<1>3. CASE UNCHANGED <<expired, left, running, alive, address>>
  BY <1>3, Stutters DEF StatusOf, Created
<1> QED  BY <1>1, <1>2, <1>3 DEF Tick, Poll, Cancel, heapVars, vars

LEMMA StepImplementsTimers ==
  ASSUME OwnedInv, [Next]_vars
  PROVE  TimerServiceImpl!Next \/ UNCHANGED Status
<1>1. ASSUME NEW t \in Timers, NEW a, NEW delay, AddTimerHere(t, a, delay) \/ AddTimer(t, a, delay)
      PROVE  TimerServiceImpl!Next
  BY <1>1, AddIsNew DEF TimerServiceImpl!Next
<1>2. ASSUME NEW t \in Timers, CancelHere(t)
      PROVE  TimerServiceImpl!Next
  <2>1. CancelInLoop(t) /\ UNCHANGED <<expired, left, running, address>>
    BY <1>2 DEF CancelHere
  <2> QED  BY <2>1, CancelIsDrop DEF TimerServiceImpl!Next
<1>3. CASE RunTask
  <2>1. CASE CancelInLoop(Head(tasks).timer)
    <3>1. UNCHANGED <<expired, left, running, address>>
      BY <1>3 DEF RunTask
    <3> QED  BY <2>1, <3>1, CancelIsDrop DEF TimerServiceImpl!Next
  <2>2. CASE UNCHANGED alive
    <3>1. UNCHANGED <<expired, left, running, alive, address>>
      BY <1>3, <2>2 DEF RunTask
    <3> QED  BY <3>1, Stutters DEF StatusOf, Created
  <2> QED  BY <1>3, <2>1, <2>2 DEF RunTask
<1>4. ASSUME NEW t \in Timers, RunTimer(t)
      PROVE  TimerServiceImpl!Next
  BY <1>4, RunIsStart DEF TimerServiceImpl!Next
<1>5. CASE CallbackReturn
  BY <1>5, ReturnIsReturn DEF TimerServiceImpl!Next
<1>6. CASE Destroy
  <2>1. alive' = alive \ timers /\ Created' = Created /\ UNCHANGED <<expired, left, running>>
    BY <1>6 DEF Destroy, Created
  <2>2. timers \in SUBSET Timers
    BY DEF OwnedInv, BatchInv, TimersAreOwned
  <2> QED  BY <2>1, <2>2, TakenAreDropped DEF TimerServiceImpl!Next
<1>7. CASE Tick \/ Poll \/ HandleRead \/ Reset \/ (\E t \in Timers : Cancel(t)) \/ UNCHANGED vars
  BY <1>7, RestStutters
<1> QED
  BY <1>1, <1>2, <1>3, <1>4, <1>5, <1>6, <1>7, Zenon DEF Next, LoopStep, UserStep

\* The timers of TimerQueue, with its set, batch, functors and timerfd, are
\* those the interface promises: callbacks one at a time, a repeating timer
\* after each run again, any other at most once, a dropped one never.
THEOREM TimerQueueImplementsTimers == Spec => ImplementsTimerService
<1>1. Init => TimerServiceImpl!Init
  <2> SUFFICES ASSUME Init  PROVE \A t \in Timers : StatusOf(t) = "new"
    BY StatusIs, Zenon DEF TimerServiceImpl!Init
  <2> QED  BY DEF Init, StatusOf, Created
<1>2. OwnedInv /\ [Next]_vars => [TimerServiceImpl!Next]_Status
  BY StepImplementsTimers
<1> QED  BY <1>1, <1>2, OwnedInvariant, PTL
         DEF Spec, ImplementsTimerService, TimerServiceImpl!Spec
=============================================================================
