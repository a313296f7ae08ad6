------------------------------- MODULE Buffer -------------------------------
(***************************************************************************)
(* The input and output buffer of the reactor (include/csl/net/Buffer.h,   *)
(* src_epoll/net/Buffer.cpp): a vector of cells with a read and a write    *)
(* index.                                                                  *)
(*                                                                         *)
(*     | prependable |   readable   |   writable   |                       *)
(*     0          reader         writer        Len(cells)                  *)
(*                                                                         *)
(* An operation is an operator on the record [cells, reader, writer], so   *)
(* that a module may hold buffers of its own.                              *)
(***************************************************************************)
EXTENDS Integers, Sequences

CONSTANTS
  Bytes,         \* what a caller may store
  Zero,          \* what resize() and the constructor fill cells with
  CheapPrepend,  \* kCheapPrepend
  InitialSize,   \* kInitialSize
  ExtraSize      \* sizeof(extrabuf)

ASSUME SizesAssumption ==
  CheapPrepend \in Nat /\ InitialSize \in Nat /\ ExtraSize \in Nat

Readable(b)    == b.writer - b.reader
Writable(b)    == Len(b.cells) - b.writer
Prependable(b) == b.reader

NewBuffer == [cells  |-> [i \in 1..(CheapPrepend + InitialSize) |-> Zero],
              reader |-> CheapPrepend,
              writer |-> CheapPrepend]

\* peek() with readableBytes().
Peek(b) == [i \in 1..Readable(b) |-> b.cells[b.reader + i]]

\* std::copy of s to begin() + at.
Overwrite(cells, s, at) ==
  [i \in 1..Len(cells) |-> IF i - at \in 1..Len(s) THEN s[i - at] ELSE cells[i]]

\* buffer_.resize(n).
Resize(cells, n) ==
  [i \in 1..n |-> IF i <= Len(cells) THEN cells[i] ELSE Zero]

RetrieveAll(b) ==
  [cells |-> b.cells, reader |-> CheapPrepend, writer |-> CheapPrepend]

Retrieve(b, n) ==
  IF n < Readable(b) THEN [b EXCEPT !.reader = @ + n] ELSE RetrieveAll(b)

\* end is an offset from begin().
RetrieveUntil(b, end) == Retrieve(b, end - b.reader)

\* Mutant: the reserved cells in front are counted as room.
MustGrowUnlessItFits(b, n) == Writable(b) + Prependable(b) < n

MustGrow(b, n) == Writable(b) + Prependable(b) < n + CheapPrepend

\* Mutant: the vector is resized to what is readable and wanted.
MakeSpaceForData(b, n) ==
  [b EXCEPT !.cells = Resize(@, Readable(b) + n)]

MakeSpace(b, n) ==
  IF MustGrow(b, n)
  THEN [b EXCEPT !.cells = Resize(@, b.writer + n)]
  ELSE [cells  |-> Overwrite(b.cells, Peek(b), CheapPrepend),
        reader |-> CheapPrepend,
        writer |-> CheapPrepend + Readable(b)]

EnsureWritable(b, n) == IF Writable(b) < n THEN MakeSpace(b, n) ELSE b

\* A caller copies s to beginWrite() and calls hasWritten(Len(s)).
WriteInto(b, s) == [cells  |-> Overwrite(b.cells, s, b.writer),
                    reader |-> b.reader,
                    writer |-> b.writer + Len(s)]

AppendBytes(b, s) == WriteInto(EnsureWritable(b, Len(s)), s)

Prepend(b, s) == [cells  |-> Overwrite(b.cells, s, b.reader - Len(s)),
                  reader |-> b.reader - Len(s),
                  writer |-> b.writer]

\* What readv may fill: the writable cells, and extrabuf when they are few.
ReadRoom(b) == IF Writable(b) < ExtraSize THEN Writable(b) + ExtraSize
                                          ELSE Writable(b)

\* Mutant: what went to extrabuf is taken from the start of the read.
ReadFdTwice(b, s) ==
  LET w == Writable(b) IN
  IF Len(s) <= w THEN WriteInto(b, s)
  ELSE AppendBytes(WriteInto(b, SubSeq(s, 1, w)), SubSeq(s, 1, Len(s) - w))

ReadFd(b, s) ==
  LET w == Writable(b) IN
  IF Len(s) <= w THEN WriteInto(b, s)
  ELSE AppendBytes(WriteInto(b, SubSeq(s, 1, w)), SubSeq(s, w + 1, Len(s)))

Shrink(b, reserve) ==
  AppendBytes(EnsureWritable(NewBuffer, Readable(b) + reserve), Peek(b))
=============================================================================
