----------------------------- MODULE BufferCalls -----------------------------
(***************************************************************************)
(* One caller who uses every public operation of a Buffer within its       *)
(* assertions.                                                             *)
(***************************************************************************)
EXTENDS Buffer

CONSTANTS
  Blocks,        \* the blocks of bytes one call may store
  MaxReadable    \* bound on the readable bytes

ASSUME CallsAssumption == MaxReadable \in Nat /\ \A s \in Blocks : s \in Seq(Bytes)

VARIABLES
  buffer,
  io      \* history: the bytes that went in or out with the last call

Init == buffer = NewBuffer /\ io = <<>>

HasRoom(s) == Readable(buffer) + Len(s) <= MaxReadable

CallAppend(s) == HasRoom(s) /\ buffer' = AppendBytes(buffer, s) /\ io' = s

CallReadFd(s) == /\ HasRoom(s) /\ Len(s) <= ReadRoom(buffer)
                 /\ buffer' = ReadFd(buffer, s) /\ io' = s

CallHasWritten(s) == /\ HasRoom(s) /\ Len(s) <= Writable(buffer)
                     /\ buffer' = WriteInto(buffer, s) /\ io' = s

CallPrepend(s) == /\ HasRoom(s) /\ Len(s) <= Prependable(buffer)
                  /\ buffer' = Prepend(buffer, s) /\ io' = s

CallRetrieve(n) == /\ n <= Readable(buffer)
                   /\ buffer' = Retrieve(buffer, n)
                   /\ io' = SubSeq(Peek(buffer), 1, n)

CallRetrieveAll == buffer' = RetrieveAll(buffer) /\ io' = Peek(buffer)

CallEnsureWritable(n) == buffer' = EnsureWritable(buffer, n) /\ UNCHANGED io

CallShrink(n) == buffer' = Shrink(buffer, n) /\ UNCHANGED io

Next == \/ \E s \in Blocks :
             CallAppend(s) \/ CallReadFd(s) \/ CallHasWritten(s) \/ CallPrepend(s)
        \/ \E n \in 0..MaxReadable :
             CallRetrieve(n) \/ CallEnsureWritable(n) \/ CallShrink(n)
        \/ CallRetrieveAll

vars == <<buffer, io>>
Spec == Init /\ [][Next]_vars

-----------------------------------------------------------------------------
(* The indices stay ordered inside the vector, and the vector never gets   *)
(* smaller than kCheapPrepend, so that retrieveAll, which moves both       *)
(* indices to kCheapPrepend without looking at the size, cannot leave it:  *)
(* also after prepend has moved the reader below kCheapPrepend, readFd has *)
(* filled the vector to its end, or shrink has swapped a new one in.       *)
IndicesOrdered ==
  /\ buffer.reader \in Nat /\ buffer.writer \in Nat
  /\ buffer.reader <= buffer.writer
  /\ buffer.writer <= Len(buffer.cells)
  /\ CheapPrepend <= Len(buffer.cells)

(* ensureWritableBytes' own assertion, for every request a caller could    *)
(* make next; and makeSpace moves bytes only towards the front, as its     *)
(* std::copy requires of ranges that overlap.                              *)
SpaceIsMade ==
  \A n \in 0..MaxReadable :
    /\ Writable(EnsureWritable(buffer, n)) >= n
    /\ Writable(buffer) < n /\ ~MustGrow(buffer, n)
         => CheapPrepend <= buffer.reader

(* The readable bytes are a queue whatever the indices do: no call loses,  *)
(* repeats or reorders a byte.                                             *)
Queue == INSTANCE ByteQueue WITH queue <- Peek(buffer)
ImplementsByteQueue == Queue!Spec

=============================================================================
