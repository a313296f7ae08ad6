---------------------------- MODULE TimerService ----------------------------
(***************************************************************************)
(* What EventLoop's timers promise (runAt, runAfter, runEvery and cancel   *)
(* of include/csl/net/EventLoop.h): callbacks run one at a time, a         *)
(* repeating timer waits again after each of its runs, any other timer     *)
(* runs at most once, and a timer that was dropped while it waited never   *)
(* runs again.  Nothing is said of timerfds, sets, batches or queues.      *)
(***************************************************************************)
CONSTANTS Timers, Repeating

VARIABLE status   \* "new", "waiting", "running" or "done"

Init == status = [t \in Timers |-> "new"]

New(t) == /\ status[t] = "new"
          /\ status' = [status EXCEPT ![t] = "waiting"]

Start(t) == /\ status[t] = "waiting"
            /\ \A u \in Timers : status[u] # "running"
            /\ status' = [status EXCEPT ![t] = "running"]

Return(t) == /\ status[t] = "running"
             /\ status' = [status EXCEPT ![t] = IF t \in Repeating THEN "waiting" ELSE "done"]

\* One timer is cancelled, or all that wait go with the loop.
Drop(S) == /\ \A t \in S : status[t] = "waiting"
           /\ status' = [t \in Timers |-> IF t \in S THEN "done" ELSE status[t]]

Next == \/ \E t \in Timers : New(t) \/ Start(t) \/ Return(t)
        \/ \E S \in SUBSET Timers : Drop(S)

Spec == Init /\ [][Next]_status
=============================================================================
