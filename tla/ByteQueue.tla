------------------------------ MODULE ByteQueue ------------------------------
(***************************************************************************)
(* What Buffer promises (include/csl/net/Buffer.h): the readable bytes are *)
(* a queue.  Bytes are added behind, taken from the front, and a header    *)
(* may be put in front; making room and shrinking change nothing.          *)
(***************************************************************************)
EXTENDS Naturals, Sequences

CONSTANT Blocks   \* the blocks of bytes one call may store

VARIABLES
  queue,  \* the bytes held
  io      \* the bytes that went in or out with the last call

Init == queue = <<>> /\ io = <<>>

Add(s) == queue' = queue \o s /\ io' = s

Take(n) == /\ queue' = SubSeq(queue, n + 1, Len(queue))
           /\ io' = SubSeq(queue, 1, n)

PutBack(s) == queue' = s \o queue /\ io' = s

Next == \/ \E s \in Blocks : Add(s) \/ PutBack(s)
        \/ \E n \in 0..Len(queue) : Take(n)

Spec == Init /\ [][Next]_<<queue, io>>
=============================================================================
