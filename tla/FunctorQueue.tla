---------------------------- MODULE FunctorQueue ----------------------------
(***************************************************************************)
(* What EventLoop promises the callers of queueInLoop and runInLoop        *)
(* (include/csl/net/EventLoop.h): a functor posted from any thread is      *)
(* taken once, in the order in which the posts took the lock; a functor    *)
(* that the loop thread hands to runInLoop is called on the spot.  Nothing *)
(* is said of polls, batches, locks or the eventfd: EventLoop shows that   *)
(* they implement this queue.                                              *)
(***************************************************************************)
EXTENDS Sequences

CONSTANT Functors

VARIABLES
  fresh,   \* functors no caller has posted yet
  queue,   \* functors posted and not yet taken, oldest first
  done     \* functors in the order in which they were called

Init == /\ fresh = Functors
        /\ queue = <<>>
        /\ done = <<>>

Post(f) == /\ f \in fresh
           /\ fresh' = fresh \ {f}
           /\ queue' = Append(queue, f)
           /\ UNCHANGED done

Take == /\ queue # <<>>
        /\ done' = Append(done, Head(queue))
        /\ queue' = Tail(queue)
        /\ UNCHANGED fresh

CallNow(f) == /\ f \in fresh
              /\ fresh' = fresh \ {f}
              /\ done' = Append(done, f)
              /\ UNCHANGED queue

Next == Take \/ \E f \in Functors : Post(f) \/ CallNow(f)

Spec == Init /\ [][Next]_<<fresh, queue, done>>
=============================================================================
