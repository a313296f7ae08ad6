----------------------------- MODULE BufferProof -----------------------------
(***************************************************************************)
(* For any sizes, any bytes and any calls: Buffer's indices stay ordered,  *)
(* room is made when it is asked for, and the readable bytes are a queue;  *)
(* and, about LegacyHttp, which reads its requests from such a buffer,     *)
(* that the answers are those of the requests, until one closes.           *)
(***************************************************************************)
EXTENDS BufferCalls, LegacyHttp, SequenceTheorems,
        WellFoundedInduction, FiniteSetTheorems, TLAPS

Cells == Bytes \union {Zero}

\* A buffer whose indices are ordered inside its vector.
Sound(b) ==
  /\ b \in [cells : Seq(Cells), reader : Nat, writer : Nat]
  /\ b.reader <= b.writer
  /\ b.writer <= Len(b.cells)
  /\ CheapPrepend <= Len(b.cells)

-----------------------------------------------------------------------------
\* The cells between two indices.
Slice(cells, r, w) == [i \in 1..(w - r) |-> cells[r + i]]

LEMMA OverwriteKeeps ==
  ASSUME NEW cells \in Seq(Cells), NEW s \in Seq(Cells), NEW at \in Nat
  PROVE  /\ Overwrite(cells, s, at) \in Seq(Cells)
         /\ Len(Overwrite(cells, s, at)) = Len(cells)
         /\ \A i \in 1..Len(cells) : Overwrite(cells, s, at)[i]
              = IF i - at \in 1..Len(s) THEN s[i - at] ELSE cells[i]
  BY DEF Overwrite

LEMMA ResizeKeeps ==
  ASSUME NEW cells \in Seq(Cells), NEW n \in Nat
  PROVE  /\ Resize(cells, n) \in Seq(Cells)
         /\ Len(Resize(cells, n)) = n
         /\ \A i \in 1..n : i <= Len(cells) => Resize(cells, n)[i] = cells[i]
  BY DEF Resize, Cells

LEMMA SliceFacts ==
  ASSUME NEW cells \in Seq(Cells), NEW r \in Nat, NEW w \in Nat,
         r <= w, w <= Len(cells)
  PROVE  /\ Slice(cells, r, w) \in Seq(Cells)
         /\ Len(Slice(cells, r, w)) = w - r
         /\ \A i \in 1..(w - r) : Slice(cells, r, w)[i] = cells[r + i]
<1>1. \A i \in 1..(w - r) : cells[r + i] \in Cells
  OBVIOUS
<1> QED BY <1>1 DEF Slice

\* Bytes copied to the write index are behind the readable ones ...
LEMMA SliceAppend ==
  ASSUME NEW cells \in Seq(Cells), NEW s \in Seq(Cells), NEW r \in Nat, NEW w \in Nat,
         r <= w, w + Len(s) <= Len(cells)
  PROVE  Slice(Overwrite(cells, s, w), r, w + Len(s)) = Slice(cells, r, w) \o s
<1> DEFINE e == w + Len(s)
           n == w - r
           c == Overwrite(cells, s, w)
           new == Slice(c, r, e)
           old == Slice(cells, r, w)
<1>0. /\ Len(s) \in Nat /\ e \in Nat /\ r <= e /\ e <= Len(cells) /\ w <= Len(cells)
      /\ n \in Nat /\ w = r + n /\ e = w + Len(s) /\ e - r = n + Len(s)
  OBVIOUS
<1> HIDE DEF e, n
<1>1. /\ c \in Seq(Cells) /\ Len(c) = Len(cells)
      /\ \A i \in 1..Len(cells) : c[i]
           = IF i - w \in 1..Len(s) THEN s[i - w] ELSE cells[i]
  BY OverwriteKeeps
<1>2. /\ new \in Seq(Cells) /\ Len(new) = n + Len(s)
      /\ \A i \in 1..(n + Len(s)) : new[i] = c[r + i]
  <2> HIDE DEF c
  <2>0. c \in Seq(Cells) /\ e \in Nat /\ r <= e /\ e <= Len(c)
    BY <1>0, <1>1
  <2>1. /\ new \in Seq(Cells) /\ Len(new) = e - r
        /\ \A i \in 1..(e - r) : new[i] = c[r + i]
    BY <2>0, SliceFacts
  <2> HIDE DEF new
  <2> QED BY <1>0, <2>1
<1>3. /\ old \in Seq(Cells) /\ Len(old) = n
      /\ \A i \in 1..n : old[i] = cells[r + i]
  BY <1>0, SliceFacts DEF n
<1> HIDE DEF c, new, old
<1>4. /\ old \o s \in Seq(Cells) /\ Len(old \o s) = n + Len(s)
      /\ \A i \in 1..(n + Len(s)) : (old \o s)[i]
           = IF i <= n THEN old[i] ELSE s[i - n]
  <2>1. /\ old \o s \in Seq(Cells) /\ Len(old \o s) = Len(old) + Len(s)
        /\ \A i \in 1..(Len(old) + Len(s)) : (old \o s)[i]
             = IF i <= Len(old) THEN old[i] ELSE s[i - Len(old)]
    BY <1>3, ConcatProperties
  <2> QED BY <1>3, <2>1
<1>5. \A i \in 1..(n + Len(s)) : new[i] = (old \o s)[i]
  <2> SUFFICES ASSUME NEW i \in 1..(n + Len(s)) PROVE new[i] = (old \o s)[i]
    OBVIOUS
  <2>1. r + i \in 1..Len(cells) /\ (r + i) - w = i - n
    BY <1>0
  <2>2. CASE i <= n
    <3>1. (r + i) - w \notin 1..Len(s) /\ i \in 1..n
      BY <1>0, <2>2
    <3> QED BY <1>1, <1>2, <1>3, <1>4, <2>1, <2>2, <3>1
  <2>3. CASE ~(i <= n)
    <3>1. (r + i) - w \in 1..Len(s)
      BY <1>0, <2>3
    <3> QED BY <1>1, <1>2, <1>4, <2>1, <2>3, <3>1
  <2> QED BY <2>2, <2>3
<1>6. new = old \o s
  BY <1>2, <1>4, <1>5, SeqEqual
<1> QED BY <1>6 DEF c, new, old, e

\* The room before the read index is what the prepended bytes take up.
LEMMA RoomInFront ==
  ASSUME NEW r \in Nat, NEW w \in Nat, NEW n \in Nat, r <= w, n <= r
  PROVE  r - n \in Nat /\ (r - n) + n = r /\ r - n <= w /\ n + (w - r) = w - (r - n)
  OBVIOUS

\* ... and those copied to the cells before the read index in front of them.
LEMMA SlicePrepend ==
  ASSUME NEW cells \in Seq(Cells), NEW s \in Seq(Cells), NEW r \in Nat, NEW w \in Nat,
         r <= w, w <= Len(cells), Len(s) <= r
  PROVE  Slice(Overwrite(cells, s, r - Len(s)), r - Len(s), w) = s \o Slice(cells, r, w)
<1> DEFINE p == r - Len(s)
           c == Overwrite(cells, s, p)
           new == Slice(c, p, w)
           old == Slice(cells, r, w)
<1>0. /\ p \in Nat /\ Len(s) \in Nat /\ p + Len(s) = r /\ p <= w
      /\ Len(s) + (w - r) = w - p
  <2>1. Len(s) \in Nat
    BY LenProperties
  <2> QED BY <2>1, RoomInFront
<1> HIDE DEF p
<1>1. /\ c \in Seq(Cells) /\ Len(c) = Len(cells)
      /\ \A i \in 1..Len(cells) : c[i]
           = IF i - p \in 1..Len(s) THEN s[i - p] ELSE cells[i]
  BY <1>0, OverwriteKeeps
<1>2. /\ new \in Seq(Cells) /\ Len(new) = w - p
      /\ \A i \in 1..(w - p) : new[i] = c[p + i]
  <2> HIDE DEF c
  <2>0. c \in Seq(Cells) /\ w <= Len(c)
    BY <1>1
  <2>1. /\ new \in Seq(Cells) /\ Len(new) = w - p
        /\ \A i \in 1..(w - p) : new[i] = c[p + i]
    BY <1>0, <2>0, SliceFacts
  <2> QED BY <2>1
<1>3. /\ old \in Seq(Cells) /\ Len(old) = w - r
      /\ \A i \in 1..(w - r) : old[i] = cells[r + i]
  BY SliceFacts
<1> HIDE DEF c, new, old
<1>4. /\ s \o old \in Seq(Cells) /\ Len(s \o old) = w - p
      /\ \A i \in 1..(w - p) : (s \o old)[i]
           = IF i <= Len(s) THEN s[i] ELSE old[i - Len(s)]
  <2>1. /\ s \o old \in Seq(Cells) /\ Len(s \o old) = Len(s) + Len(old)
        /\ \A i \in 1..(Len(s) + Len(old)) : (s \o old)[i]
             = IF i <= Len(s) THEN s[i] ELSE old[i - Len(s)]
    <3>1. old \in Seq(Cells)
      BY <1>3
    <3> QED BY <3>1, ConcatProperties
  <2>2. Len(s) + Len(old) = w - p
    BY <1>0, <1>3, Zenon
  <2> QED BY <2>1, <2>2
<1>5. \A i \in 1..(w - p) : new[i] = (s \o old)[i]
  <2> SUFFICES ASSUME NEW i \in 1..(w - p) PROVE new[i] = (s \o old)[i]
    OBVIOUS
  <2>1. p + i \in 1..Len(cells) /\ (p + i) - p = i
    BY <1>0
  <2>2. CASE i <= Len(s)
    <3>1. i \in 1..Len(s)
      BY <1>0, <2>2
    <3> QED BY <1>1, <1>2, <1>4, <2>1, <2>2, <3>1
  <2>3. CASE ~(i <= Len(s))
    <3>1. i \notin 1..Len(s) /\ i - Len(s) \in 1..(w - r) /\ r + (i - Len(s)) = p + i
      BY <1>0, <2>3
    <3> QED BY <1>1, <1>2, <1>3, <1>4, <2>1, <2>3, <3>1
  <2> QED BY <2>2, <2>3
<1>6. new = s \o old
  BY <1>2, <1>4, <1>5, SeqEqual
<1> QED BY <1>6 DEF c, new, old, p

\* A larger vector holds the same bytes.
LEMMA SliceResize ==
  ASSUME NEW cells \in Seq(Cells), NEW r \in Nat, NEW w \in Nat, NEW n \in Nat,
         r <= w, w <= Len(cells), w <= n
  PROVE  Slice(Resize(cells, n), r, w) = Slice(cells, r, w)
<1> DEFINE c == Resize(cells, n)
<1>1. c \in Seq(Cells) /\ Len(c) = n
      /\ \A i \in 1..n : i <= Len(cells) => c[i] = cells[i]
  BY ResizeKeeps
<1> HIDE DEF c
<1>2. \A i \in 1..(w - r) : c[r + i] = cells[r + i]
  BY <1>1
<1>3. Slice(c, r, w) = Slice(cells, r, w)
  BY <1>2 DEF Slice
<1> QED BY <1>3 DEF c

\* Readable bytes that are copied to p are the readable ones there.
LEMMA SliceMove ==
  ASSUME NEW cells \in Seq(Cells), NEW s \in Seq(Cells), NEW p \in Nat,
         p + Len(s) <= Len(cells)
  PROVE  Slice(Overwrite(cells, s, p), p, p + Len(s)) = s
<1>0. p <= p /\ p <= Len(cells)
  OBVIOUS
<1>1. Slice(Overwrite(cells, s, p), p, p + Len(s)) = Slice(cells, p, p) \o s
  BY <1>0, SliceAppend
<1>2. Slice(cells, p, p) \in Seq(Cells) /\ Len(Slice(cells, p, p)) = 0
  BY <1>0, SliceFacts
<1> QED BY <1>1, <1>2

\* Moving the read index drops bytes from the front.
LEMMA SliceDrop ==
  ASSUME NEW cells \in Seq(Cells), NEW r \in Nat, NEW w \in Nat, NEW n \in Nat,
         r + n <= w, w <= Len(cells)
  PROVE  Slice(cells, r + n, w)
           = SubSeq(Slice(cells, r, w), n + 1, Len(Slice(cells, r, w)))
<1> DEFINE old == Slice(cells, r, w)
           new == Slice(cells, r + n, w)
<1>0. r + n \in Nat /\ r <= w
  OBVIOUS
<1>1. /\ old \in Seq(Cells) /\ Len(old) = w - r
      /\ \A i \in 1..(w - r) : old[i] = cells[r + i]
  BY <1>0, SliceFacts
<1>2. /\ new \in Seq(Cells) /\ Len(new) = w - (r + n)
      /\ \A i \in 1..(w - (r + n)) : new[i] = cells[(r + n) + i]
  BY <1>0, SliceFacts
<1> HIDE DEF old, new
<1>3. SubSeq(old, n + 1, Len(old)) \in Seq(Cells)
      /\ Len(SubSeq(old, n + 1, Len(old))) = w - (r + n)
  BY <1>1
<1>4. \A i \in 1..(w - (r + n)) : SubSeq(old, n + 1, Len(old))[i] = old[n + i]
  BY <1>1
<1>5. ASSUME NEW i \in 1..(w - (r + n))  PROVE new[i] = SubSeq(old, n + 1, Len(old))[i]
  <2>1. n + i \in 1..(w - r) /\ r + (n + i) = (r + n) + i
    OBVIOUS
  <2> QED  BY <1>1, <1>2, <1>4, <2>1
<1>6. new = SubSeq(old, n + 1, Len(old))
  BY <1>2, <1>3, <1>5, SeqEqual
<1> QED BY <1>6 DEF old, new

-----------------------------------------------------------------------------
\* One lemma per operation of Buffer: the result is sound, and what becomes
\* of the readable bytes.

LEMMA PeekIsSlice ==
  ASSUME NEW b, Sound(b)
  PROVE  /\ Peek(b) = Slice(b.cells, b.reader, b.writer)
         /\ Peek(b) \in Seq(Cells)
         /\ Len(Peek(b)) = Readable(b)
         /\ Readable(b) \in Nat /\ Writable(b) \in Nat
<1>1. Peek(b) = Slice(b.cells, b.reader, b.writer)
  BY DEF Peek, Slice, Readable
<1>2. /\ b.cells \in Seq(Cells) /\ b.reader \in Nat /\ b.writer \in Nat
      /\ b.reader <= b.writer /\ b.writer <= Len(b.cells)
  BY DEF Sound
<1>3. Readable(b) \in Nat /\ Writable(b) \in Nat
  BY <1>2 DEF Readable, Writable
<1>4. /\ Slice(b.cells, b.reader, b.writer) \in Seq(Cells)
      /\ Len(Slice(b.cells, b.reader, b.writer)) = b.writer - b.reader
  BY <1>2, SliceFacts
<1> QED BY <1>1, <1>3, <1>4 DEF Readable

LEMMA NewIsEmpty == Sound(NewBuffer) /\ Peek(NewBuffer) = <<>>
<1>1. [i \in 1..(CheapPrepend + InitialSize) |-> Zero] \in Seq(Cells)
  BY SizesAssumption DEF Cells
<1>2. Sound(NewBuffer)
  BY <1>1, SizesAssumption DEF Sound, NewBuffer
<1>3. Readable(NewBuffer) = 0
  BY SizesAssumption DEF Readable, NewBuffer
<1> QED BY <1>2, <1>3, PeekIsSlice

LEMMA WriteAppends ==
  ASSUME NEW b, Sound(b), NEW s \in Seq(Cells), Len(s) <= Writable(b)
  PROVE  Sound(WriteInto(b, s)) /\ Peek(WriteInto(b, s)) = Peek(b) \o s
<1> DEFINE c == Overwrite(b.cells, s, b.writer)
           x == WriteInto(b, s)
<1>0. /\ b.cells \in Seq(Cells) /\ b.writer \in Nat /\ b.reader \in Nat
      /\ b.reader <= b.writer /\ CheapPrepend <= Len(b.cells)
      /\ b.writer + Len(s) <= Len(b.cells)
  BY DEF Sound, Writable
<1>1. c \in Seq(Cells) /\ Len(c) = Len(b.cells)
  BY <1>0, OverwriteKeeps
<1>2. /\ x = [cells |-> c, reader |-> b.reader, writer |-> b.writer + Len(s)]
      /\ x.cells = c /\ x.reader = b.reader /\ x.writer = b.writer + Len(s)
  BY DEF WriteInto
<1>3. b.writer + Len(s) \in Nat /\ b.reader <= b.writer + Len(s)
  BY <1>0
<1>4. Sound(x)
  <2> HIDE DEF c, x
  <2> QED BY <1>0, <1>1, <1>2, <1>3 DEF Sound
<1>5. Peek(x) = Slice(c, b.reader, b.writer + Len(s))
  <2> HIDE DEF c, x
  <2> QED BY <1>2, <1>4, PeekIsSlice
<1>6. Slice(c, b.reader, b.writer + Len(s)) = Slice(b.cells, b.reader, b.writer) \o s
  BY <1>0, SliceAppend
<1> QED BY <1>4, <1>5, <1>6, PeekIsSlice

LEMMA PrependPutsInFront ==
  ASSUME NEW b, Sound(b), NEW s \in Seq(Cells), Len(s) <= Prependable(b)
  PROVE  Sound(Prepend(b, s)) /\ Peek(Prepend(b, s)) = s \o Peek(b)
<1> DEFINE p == b.reader - Len(s)
           c == Overwrite(b.cells, s, p)
           x == Prepend(b, s)
<1>0. /\ b.cells \in Seq(Cells) /\ b.writer \in Nat /\ b.reader \in Nat
      /\ b.reader <= b.writer /\ CheapPrepend <= Len(b.cells)
      /\ b.writer <= Len(b.cells) /\ Len(s) <= b.reader /\ p \in Nat /\ p <= b.writer
  BY DEF Sound, Prependable
<1>1. c \in Seq(Cells) /\ Len(c) = Len(b.cells)
  <2> HIDE DEF p
  <2> QED BY <1>0, OverwriteKeeps
<1>2. /\ x = [cells |-> c, reader |-> p, writer |-> b.writer]
      /\ x.cells = c /\ x.reader = p /\ x.writer = b.writer
  BY DEF Prepend
<1>3. Sound(x)
  <2> HIDE DEF c, x, p
  <2> QED BY <1>0, <1>1, <1>2 DEF Sound
<1>4. Peek(x) = Slice(c, p, b.writer)
  <2> HIDE DEF c, x, p
  <2> QED BY <1>2, <1>3, PeekIsSlice
<1>5. Slice(c, p, b.writer) = s \o Slice(b.cells, b.reader, b.writer)
  BY <1>0, SlicePrepend
<1> QED BY <1>3, <1>4, <1>5, PeekIsSlice

LEMMA EmptyIsSound ==
  ASSUME NEW b, Sound(b)
  PROVE  Sound(RetrieveAll(b)) /\ Peek(RetrieveAll(b)) = <<>>
<1>1. RetrieveAll(b) = [cells |-> b.cells, reader |-> CheapPrepend, writer |-> CheapPrepend]
  BY DEF RetrieveAll
<1>1a. b.cells \in Seq(Cells) /\ CheapPrepend <= Len(b.cells)
  BY DEF Sound
<1>2. Sound(RetrieveAll(b))
  BY <1>1, <1>1a, SizesAssumption DEF Sound
<1>3. Readable(RetrieveAll(b)) = 0
  BY <1>1, SizesAssumption DEF Readable
<1> QED BY <1>2, <1>3, PeekIsSlice

LEMMA RetrieveDrops ==
  ASSUME NEW b, Sound(b), NEW n \in Nat, n <= Readable(b)
  PROVE  /\ Sound(Retrieve(b, n))
         /\ Peek(Retrieve(b, n)) = SubSeq(Peek(b), n + 1, Len(Peek(b)))
<1>0. /\ b.cells \in Seq(Cells) /\ b.writer \in Nat /\ b.reader \in Nat
      /\ b.reader <= b.writer /\ b.writer <= Len(b.cells)
      /\ CheapPrepend <= Len(b.cells) /\ Readable(b) = b.writer - b.reader
  BY DEF Sound, Readable
<1>1. CASE n < Readable(b)
  <2> DEFINE x == Retrieve(b, n)
  <2>1. /\ x = [cells |-> b.cells, reader |-> b.reader + n, writer |-> b.writer]
        /\ x.cells = b.cells /\ x.reader = b.reader + n /\ x.writer = b.writer
    BY <1>1 DEF Retrieve, Sound
  <2> HIDE DEF x
  <2>2. b.reader + n \in Nat /\ b.reader + n <= b.writer
    BY <1>0, <1>1
  <2>3. Sound(x)
    BY <1>0, <2>1, <2>2 DEF Sound
  <2>4. Peek(x) = Slice(b.cells, b.reader + n, b.writer)
    BY <2>1, <2>3, PeekIsSlice
  <2>5. Slice(b.cells, b.reader + n, b.writer)
          = SubSeq(Slice(b.cells, b.reader, b.writer), n + 1,
                   Len(Slice(b.cells, b.reader, b.writer)))
    BY <1>0, <2>2, SliceDrop
  <2> QED BY <2>3, <2>4, <2>5, PeekIsSlice DEF x
<1>2. CASE ~(n < Readable(b))
  <2>1. n = Readable(b) /\ Len(Peek(b)) = n
    BY <1>2, PeekIsSlice
  <2>2. SubSeq(Peek(b), n + 1, Len(Peek(b))) = <<>>
    BY <2>1, SubSeqEmpty
  <2> QED BY <1>2, <2>2, EmptyIsSound DEF Retrieve
<1> QED BY <1>1, <1>2

\* makeSpace: when the vector is not grown the bytes move to the front.
LEMMA SpaceIsFound ==
  ASSUME NEW b, Sound(b), NEW n \in Nat, Writable(b) < n
  PROVE  /\ Sound(MakeSpace(b, n))
         /\ Peek(MakeSpace(b, n)) = Peek(b)
         /\ Writable(MakeSpace(b, n)) >= n
         /\ ~MustGrow(b, n) => CheapPrepend < b.reader
<1> DEFINE x == MakeSpace(b, n)
<1>0. /\ b.cells \in Seq(Cells) /\ b.writer \in Nat /\ b.reader \in Nat
      /\ b.reader <= b.writer /\ b.writer <= Len(b.cells)
      /\ CheapPrepend <= Len(b.cells) /\ CheapPrepend \in Nat
      /\ Writable(b) = Len(b.cells) - b.writer /\ Readable(b) = b.writer - b.reader
      /\ Len(b.cells) < b.writer + n /\ Len(b.cells) \in Nat
  BY SizesAssumption DEF Sound, Readable, Writable
<1>1. CASE MustGrow(b, n)
  <2> DEFINE c == Resize(b.cells, b.writer + n)
  <2>1. /\ x = [cells |-> c, reader |-> b.reader, writer |-> b.writer]
        /\ x.cells = c /\ x.reader = b.reader /\ x.writer = b.writer
    BY <1>1 DEF MakeSpace, Sound
  <2>2. b.writer + n \in Nat /\ c \in Seq(Cells) /\ Len(c) = b.writer + n
    <3>1. b.writer + n \in Nat
      BY <1>0
    <3> QED BY <1>0, <3>1, ResizeKeeps
  <2>3. Slice(c, b.reader, b.writer) = Slice(b.cells, b.reader, b.writer)
    BY <1>0, <2>2, SliceResize
  <2> HIDE DEF x, c
  <2>4. Sound(x)
    BY <1>0, <2>1, <2>2 DEF Sound
  <2>5. Writable(x) >= n
    BY <1>0, <2>1, <2>2 DEF Writable
  <2> QED BY <1>1, <2>1, <2>3, <2>4, <2>5, PeekIsSlice DEF x
<1>2. CASE ~MustGrow(b, n)
  <2> DEFINE s == Peek(b)
             c == Overwrite(b.cells, s, CheapPrepend)
  <2>1. /\ x = [cells |-> c, reader |-> CheapPrepend, writer |-> CheapPrepend + Readable(b)]
        /\ x.cells = c /\ x.reader = CheapPrepend
        /\ x.writer = CheapPrepend + Readable(b)
    BY <1>2 DEF MakeSpace
  <2>2. s \in Seq(Cells) /\ Len(s) = Readable(b) /\ Readable(b) \in Nat
    BY PeekIsSlice
  <2>3. /\ CheapPrepend < b.reader
        /\ CheapPrepend + Readable(b) \in Nat
        /\ CheapPrepend + Readable(b) <= Len(b.cells)
        /\ Len(b.cells) - (CheapPrepend + Readable(b)) >= n
    <3> DEFINE len == Len(b.cells)  r == b.reader  w == b.writer
               d == Readable(b)  f == Writable(b)
    <3>1. ~(f + r < n + CheapPrepend)
      BY <1>2 DEF MustGrow, Prependable
    <3>2. /\ len \in Nat /\ r \in Nat /\ w \in Nat /\ f = len - w /\ d = w - r
          /\ r <= w /\ w <= len /\ f < n /\ CheapPrepend \in Nat
      BY <1>0
    <3> HIDE DEF len, r, w, d, f
    <3>3. /\ CheapPrepend < r /\ CheapPrepend + d \in Nat
          /\ CheapPrepend + d <= len /\ len - (CheapPrepend + d) >= n
      BY <3>1, <3>2
    <3> QED BY <3>3 DEF len, r, d
  <2> HIDE DEF s
  <2>4. c \in Seq(Cells) /\ Len(c) = Len(b.cells)
    BY <1>0, <2>2, OverwriteKeeps
  <2>5. Slice(c, CheapPrepend, CheapPrepend + Len(s)) = s
    BY <1>0, <2>2, <2>3, SliceMove
  <2> HIDE DEF x, c
  <2>6. Sound(x)
    BY <1>0, <2>1, <2>2, <2>3, <2>4 DEF Sound
  <2>7. Writable(x) >= n
    BY <2>1, <2>3, <2>4 DEF Writable
  <2>8. Peek(x) = s
    BY <2>1, <2>2, <2>5, <2>6, PeekIsSlice
  <2> QED BY <2>3, <2>6, <2>7, <2>8 DEF s, x
<1> QED BY <1>1, <1>2

LEMMA EnsureMakesRoom ==
  ASSUME NEW b, Sound(b), NEW n \in Nat
  PROVE  /\ Sound(EnsureWritable(b, n))
         /\ Peek(EnsureWritable(b, n)) = Peek(b)
         /\ Writable(EnsureWritable(b, n)) >= n
<1>1. CASE Writable(b) < n
  BY <1>1, SpaceIsFound DEF EnsureWritable
<1>2. CASE ~(Writable(b) < n)
  BY <1>2, PeekIsSlice DEF EnsureWritable
<1> QED BY <1>1, <1>2

LEMMA AppendAppends ==
  ASSUME NEW b, Sound(b), NEW s \in Seq(Cells)
  PROVE  Sound(AppendBytes(b, s)) /\ Peek(AppendBytes(b, s)) = Peek(b) \o s
<1> DEFINE x == EnsureWritable(b, Len(s))
<1>1. Len(s) \in Nat
  OBVIOUS
<1>2. Sound(x) /\ Peek(x) = Peek(b) /\ Writable(x) >= Len(s)
  BY <1>1, EnsureMakesRoom
<1> HIDE DEF x
<1>3. Len(s) <= Writable(x)
  BY <1>1, <1>2, PeekIsSlice
<1>4. Sound(WriteInto(x, s)) /\ Peek(WriteInto(x, s)) = Peek(x) \o s
  BY <1>2, <1>3, WriteAppends
<1> QED BY <1>2, <1>4 DEF AppendBytes, x

LEMMA ReadAppends ==
  ASSUME NEW b, Sound(b), NEW s \in Seq(Cells)
  PROVE  Sound(ReadFd(b, s)) /\ Peek(ReadFd(b, s)) = Peek(b) \o s
<1>1. CASE Len(s) <= Writable(b)
  BY <1>1, WriteAppends DEF ReadFd
<1>2. CASE ~(Len(s) <= Writable(b))
  <2> DEFINE w == Writable(b)
             s1 == SubSeq(s, 1, w)
             s2 == SubSeq(s, w + 1, Len(s))
             x == WriteInto(b, s1)
  <2>0. w \in Nat /\ w < Len(s)
    BY <1>2, PeekIsSlice
  <2> HIDE DEF w
  <2>1. s1 \in Seq(Cells) /\ Len(s1) = w /\ s2 \in Seq(Cells)
    BY <2>0
  <2>2. s1 \o s2 = s
    <3>1. SubSeq(s, 1, w) \o SubSeq(s, w + 1, Len(s)) = SubSeq(s, 1, Len(s))
      <4>1. 1 \in 1..(Len(s) + 1) /\ w \in (1 - 1)..Len(s) /\ Len(s) \in w..Len(s)
        BY <2>0
      <4> QED BY <4>1, ConcatAdjacentSubSeq
    <3>2. SubSeq(s, 1, Len(s)) = s
      BY SubSeqFull
    <3> QED BY <3>1, <3>2
  <2> HIDE DEF s1, s2
  <2>3. Sound(x) /\ Peek(x) = Peek(b) \o s1
    BY <2>0, <2>1, WriteAppends DEF w
  <2> HIDE DEF x
  <2>4. Sound(AppendBytes(x, s2)) /\ Peek(AppendBytes(x, s2)) = Peek(x) \o s2
    BY <2>1, <2>3, AppendAppends
  <2>5. (Peek(b) \o s1) \o s2 = Peek(b) \o s
    <3>1. Peek(b) \in Seq(Cells)
      BY PeekIsSlice
    <3>2. (Peek(b) \o s1) \o s2 = Peek(b) \o (s1 \o s2)
      BY <2>1, <3>1, ConcatAssociative, SMTT(30)
    <3> QED BY <2>2, <3>2
  <2>6. ReadFd(b, s) = AppendBytes(x, s2)
    BY <1>2 DEF ReadFd, x, s1, s2, w
  <2> QED BY <2>3, <2>4, <2>5, <2>6
<1> QED BY <1>1, <1>2

LEMMA ShrinkKeeps ==
  ASSUME NEW b, Sound(b), NEW n \in Nat
  PROVE  Sound(Shrink(b, n)) /\ Peek(Shrink(b, n)) = Peek(b)
<1> DEFINE x == EnsureWritable(NewBuffer, Readable(b) + n)
<1>1. Readable(b) + n \in Nat /\ Peek(b) \in Seq(Cells)
  BY PeekIsSlice
<1>2. Sound(x) /\ Peek(x) = <<>>
  BY <1>1, NewIsEmpty, EnsureMakesRoom
<1> HIDE DEF x
<1>3. Sound(AppendBytes(x, Peek(b))) /\ Peek(AppendBytes(x, Peek(b))) = Peek(x) \o Peek(b)
  BY <1>1, <1>2, AppendAppends
<1>4. <<>> \o Peek(b) = Peek(b)
  BY <1>1, ConcatEmptySeq
<1>5. Shrink(b, n) = AppendBytes(x, Peek(b))
  BY DEF Shrink, x
<1> QED BY <1>2, <1>3, <1>4, <1>5

-----------------------------------------------------------------------------
\* A block of the caller's bytes may be stored.
LEMMA BlocksAreCells ==
  ASSUME NEW s \in Blocks
  PROVE  s \in Seq(Cells) /\ Len(s) \in Nat
<1>1. s \in Seq(Bytes)
  BY CallsAssumption
<1> QED BY <1>1, SeqMonotonic DEF Cells

\* What a call does, seen from outside.
Served ==
  \/ \E s \in Blocks : /\ io' = s
                       /\ \/ Peek(buffer)' = Peek(buffer) \o s
                          \/ Peek(buffer)' = s \o Peek(buffer)
  \/ \E n \in 0..Len(Peek(buffer)) :
       /\ io' = SubSeq(Peek(buffer), 1, n)
       /\ Peek(buffer)' = SubSeq(Peek(buffer), n + 1, Len(Peek(buffer)))
  \/ io' = io /\ Peek(buffer)' = Peek(buffer)

LEMMA CallIsSound ==
  Sound(buffer) /\ Next => Sound(buffer)' /\ Served
<1> SUFFICES ASSUME Sound(buffer), Next PROVE Sound(buffer)' /\ Served
  OBVIOUS
<1>1. ASSUME NEW s \in Blocks, CallAppend(s) PROVE Sound(buffer)' /\ Served
  BY <1>1, BlocksAreCells, AppendAppends DEF CallAppend, Served
<1>2. ASSUME NEW s \in Blocks, CallReadFd(s) PROVE Sound(buffer)' /\ Served
  BY <1>2, BlocksAreCells, ReadAppends DEF CallReadFd, Served
<1>3. ASSUME NEW s \in Blocks, CallHasWritten(s) PROVE Sound(buffer)' /\ Served
  BY <1>3, BlocksAreCells, WriteAppends DEF CallHasWritten, Served
<1>4. ASSUME NEW s \in Blocks, CallPrepend(s) PROVE Sound(buffer)' /\ Served
  BY <1>4, BlocksAreCells, PrependPutsInFront DEF CallPrepend, Served
<1>5. ASSUME NEW n \in 0..MaxReadable, CallRetrieve(n) PROVE Sound(buffer)' /\ Served
  <2>1. n \in Nat /\ n <= Readable(buffer) /\ n \in 0..Len(Peek(buffer))
    BY <1>5, CallsAssumption, PeekIsSlice DEF CallRetrieve
  <2> QED BY <1>5, <2>1, RetrieveDrops DEF CallRetrieve, Served
<1>6. ASSUME NEW n \in 0..MaxReadable, CallEnsureWritable(n)
      PROVE  Sound(buffer)' /\ Served
  <2>1. n \in Nat
    BY CallsAssumption
  <2> QED BY <1>6, <2>1, EnsureMakesRoom DEF CallEnsureWritable, Served
<1>7. ASSUME NEW n \in 0..MaxReadable, CallShrink(n) PROVE Sound(buffer)' /\ Served
  <2>1. n \in Nat
    BY CallsAssumption
  <2>2. Sound(Shrink(buffer, n)) /\ Peek(Shrink(buffer, n)) = Peek(buffer)
    BY <2>1, ShrinkKeeps
  <2>3. buffer' = Shrink(buffer, n) /\ io' = io
    BY <1>7 DEF CallShrink
  <2>4. Sound(buffer)' /\ Peek(buffer)' = Peek(buffer)
    BY <2>2, <2>3, ZenonT(30)
  <2> QED BY <2>3, <2>4 DEF Served
<1>8. ASSUME CallRetrieveAll PROVE Sound(buffer)' /\ Served
  <2> DEFINE s == Peek(buffer)
  <2>1. s \in Seq(Cells) /\ Len(s) \in Nat /\ Len(s) \in 0..Len(s)
    BY PeekIsSlice
  <2>2. SubSeq(s, 1, Len(s)) = s
    BY <2>1, SubSeqFull
  <2>3. SubSeq(s, Len(s) + 1, Len(s)) = <<>>
    BY <2>1, SubSeqEmpty
  <2>4. Sound(buffer)' /\ Peek(buffer)' = <<>> /\ io' = s
    BY <1>8, EmptyIsSound DEF CallRetrieveAll
  <2> QED BY <2>1, <2>2, <2>3, <2>4 DEF Served
<1> QED BY <1>1, <1>2, <1>3, <1>4, <1>5, <1>6, <1>7, <1>8 DEF Next

LEMMA StutterIsSound == Sound(buffer) /\ UNCHANGED vars => Sound(buffer)' /\ Served
  BY DEF vars, Served, Peek, Readable, Sound

(* The indices are ordered in every reachable state, for any sizes.        *)
THEOREM IndicesStayOrdered == Spec => []IndicesOrdered
<1>1. Init => Sound(buffer)
  BY NewIsEmpty DEF Init
<1>2. Sound(buffer) /\ [Next]_vars => Sound(buffer)'
  BY CallIsSound, StutterIsSound
<1>3. Sound(buffer) => IndicesOrdered
  BY DEF Sound, IndicesOrdered
<1> QED BY <1>1, <1>2, <1>3, PTL DEF Spec

(* ensureWritableBytes' assertion and the direction of makeSpace's copy.   *)
THEOREM SpaceIsAlwaysMade == Spec => []SpaceIsMade
<1>1. Init => Sound(buffer)
  BY NewIsEmpty DEF Init
<1>2. Sound(buffer) /\ [Next]_vars => Sound(buffer)'
  BY CallIsSound, StutterIsSound
<1>3. Sound(buffer) => SpaceIsMade
  <2> SUFFICES ASSUME Sound(buffer), NEW n \in 0..MaxReadable
               PROVE  /\ Writable(EnsureWritable(buffer, n)) >= n
                      /\ Writable(buffer) < n /\ ~MustGrow(buffer, n)
                           => CheapPrepend <= buffer.reader
    BY DEF SpaceIsMade
  <2>1. n \in Nat
    BY CallsAssumption
  <2>2. Writable(buffer) < n /\ ~MustGrow(buffer, n) => CheapPrepend < buffer.reader
    BY <2>1, SpaceIsFound
  <2> QED BY <2>1, <2>2, EnsureMakesRoom, SizesAssumption DEF Sound
<1> QED BY <1>1, <1>2, <1>3, PTL DEF Spec

(* The readable bytes are a queue: Buffer implements ByteQueue.            *)
THEOREM BufferIsAQueue == Spec => ImplementsByteQueue
<1>1. Init => Sound(buffer) /\ Queue!Init
  BY NewIsEmpty DEF Init, Queue!Init
<1>2. Sound(buffer) /\ [Next]_vars => Sound(buffer)' /\ [Queue!Next]_<<Peek(buffer), io>>
  <2>1. Sound(buffer) /\ [Next]_vars => Sound(buffer)' /\ Served
    BY CallIsSound, StutterIsSound
  <2>2. Served => [Queue!Next]_<<Peek(buffer), io>>
    BY DEF Served, Queue!Next, Queue!Add, Queue!Take, Queue!PutBack
  <2> QED BY <2>1, <2>2
<1> QED BY <1>1, <1>2, PTL DEF Spec, ImplementsByteQueue, Queue!Spec

-----------------------------------------------------------------------------
(* The legacy HTTP server: one answer for each request.                    *)

IsSequence(s) == \E S : s \in Seq(S)

\* Requests are answered at once, so no answer is missing while the connection
\* is open, and none comes after it was closed.
AnswerInv ==
  /\ IsSequence(called) /\ IsSequence(out)
  /\ connected \in BOOLEAN
  /\ Len(out) <= Len(called)
  /\ AnsweredUntilClose

LEMMA SequenceGrows ==
  ASSUME NEW s, NEW x, IsSequence(s)
  PROVE  /\ IsSequence(Append(s, x))
         /\ Len(s) \in Nat /\ Len(Append(s, x)) = Len(s) + 1
         /\ \A k \in 1..Len(s) : Append(s, x)[k] = s[k]
         /\ Append(s, x)[Len(s) + 1] = x
<1>1. PICK S : s \in Seq(S)
  BY DEF IsSequence
<1>2. s \in Seq(S \union {x}) /\ x \in S \union {x}
  BY <1>1, SeqMonotonic
<1> QED  BY <1>2, AppendProperties, LenProperties DEF IsSequence

\* An answer names its request, and says whether it closes.
LEMMA AnswerOfRequest ==
  ASSUME NEW request, NEW answer \in Answers(request)
  PROVE  answer.to = request /\ answer.close \in BOOLEAN
<1> DEFINE refused == request.method = "Invalid" \/ request.version = "Unknown"
           page == {Serialize(request, 200, r[1], r[2]) :
                      r \in {TRUE, ShouldClose(request)} \X Bodies}
<1>1. \/ answer = Serialize(request, 400, TRUE, <<"Bad">>)
      \/ answer \in page
      \/ answer = Serialize(request, 404, ShouldClose(request), <<"Not">>)
  <2>1. CASE refused  BY <2>1 DEF Answers
  <2>2. CASE ~refused /\ callback  BY <2>2 DEF Answers
  <2>3. CASE ~refused /\ ~callback  BY <2>3 DEF Answers
  <2> QED  BY <2>1, <2>2, <2>3
<1>2. ShouldClose(request) \in BOOLEAN
  BY DEF ShouldClose
<1>3. CASE answer \in page
  <2>1. PICK r \in {TRUE, ShouldClose(request)} \X Bodies : answer = Serialize(request, 200, r[1], r[2])
    BY <1>3
  <2>2. r[1] \in BOOLEAN
    BY <1>2
  <2> QED  BY <2>1, <2>2 DEF Serialize
<1>4. CASE answer = Serialize(request, 400, TRUE, <<"Bad">>)
  BY <1>4 DEF Serialize
<1>5. CASE answer = Serialize(request, 404, ShouldClose(request), <<"Not">>)
  BY <1>2, <1>5 DEF Serialize
<1> QED  BY <1>1, <1>3, <1>4, <1>5

\* onRequest answers an open connection, and nothing reaches a closed one.
LEMMA OnRequestAnswers ==
  ASSUME AnswerInv, OnRequest
  PROVE  AnswerInv'
<1>1. PICK answer \in Answers(context.request) : SendAnswer(answer)
  BY DEF OnRequest
<1>2. answer.to = context.request /\ answer.close \in BOOLEAN
  BY <1>1, AnswerOfRequest
<1>3. called' = Append(called, context.request)
  BY DEF OnRequest
<1>4. /\ IsSequence(called')
      /\ Len(called) \in Nat /\ Len(called') = Len(called) + 1
      /\ \A k \in 1..Len(called) : called'[k] = called[k]
      /\ called'[Len(called) + 1] = context.request
  BY <1>3, SequenceGrows DEF AnswerInv
<1>5. /\ IsSequence(Append(out, answer))
      /\ Len(out) \in Nat /\ Len(Append(out, answer)) = Len(out) + 1
      /\ \A k \in 1..Len(out) : Append(out, answer)[k] = out[k]
      /\ Append(out, answer)[Len(out) + 1] = answer
  BY SequenceGrows DEF AnswerInv
<1>6. connected' = (connected /\ ~answer.close)
  BY <1>1 DEF SendAnswer
<1>7. CASE connected
  <2>1. out' = Append(out, answer) /\ Len(out) = Len(called)
    BY <1>1, <1>7 DEF SendAnswer, AnswerInv, AnsweredUntilClose
  <2>2. \A k \in 1..Len(out) : out[k].to = called[k] /\ ~out[k].close
    BY <1>7 DEF AnswerInv, AnsweredUntilClose
  <2>3. ASSUME NEW k \in 1..Len(out')
        PROVE  out'[k].to = called'[k] /\ (out'[k].close <=> k = Len(out') /\ ~connected')
    <3>1. CASE k \in 1..Len(out)
      BY <1>4, <1>5, <2>1, <2>2, <3>1
    <3>2. CASE k = Len(out) + 1
      BY <1>2, <1>4, <1>5, <1>6, <1>7, <2>1, <3>2
    <3> QED  BY <1>5, <2>1, <3>1, <3>2
  <2> QED  BY <1>4, <1>5, <1>6, <2>1, <2>3 DEF AnswerInv, AnsweredUntilClose
<1>8. CASE ~connected
  <2>1. out' = out /\ ~connected' /\ connected' \in BOOLEAN
    BY <1>1, <1>6, <1>8 DEF SendAnswer
  <2>2. \A k \in 1..Len(out) : k \in 1..Len(called)
    BY <1>4, <1>5 DEF AnswerInv
  <2> QED  BY <1>4, <1>5, <1>8, <2>1, <2>2 DEF AnswerInv, AnsweredUntilClose
<1> QED  BY <1>7, <1>8 DEF AnswerInv

\* Each response answers the request at its place; after the first that closes
\* there is none, and before it none is missing.
THEOREM AnswersFollowRequests == HttpSpec => []AnsweredUntilClose
<1>1. HttpInit => AnswerInv
  <2>1. IsSequence(<<>>) /\ Len(<<>>) = 0
    BY EmptySeq DEF IsSequence
  <2> QED  BY <2>1 DEF HttpInit, AnswerInv, AnsweredUntilClose
<1>2. AnswerInv /\ [HttpNext]_httpVars => AnswerInv'
  <2> SUFFICES ASSUME AnswerInv, [HttpNext]_httpVars  PROVE AnswerInv'
    OBVIOUS
  <2>1. CASE UNCHANGED <<called, out, connected>>
    BY <2>1 DEF AnswerInv, AnsweredUntilClose, IsSequence
  <2>2. CASE OnRequest  BY <2>2, OnRequestAnswers
  <2>3. CASE \E n \in 1..Len(sent) : Receive(n)  BY <2>1, <2>3 DEF Receive
  <2>4. CASE Loop \/ NeedMore \/ RequestLine \/ HeaderLine \/ EmptyLine
    BY <2>1, <2>4 DEF Loop, NeedMore, RequestLine, HeaderLine, EmptyLine
  <2>5. CASE UNCHANGED httpVars  BY <2>1, <2>5 DEF httpVars
  <2> QED  BY <2>2, <2>3, <2>4, <2>5 DEF HttpNext
<1>3. AnswerInv => AnsweredUntilClose  BY DEF AnswerInv
<1> QED  BY <1>1, <1>2, <1>3, PTL DEF HttpSpec

-----------------------------------------------------------------------------
(***************************************************************************)
(* The legacy HTTP server: what it serves is what was sent.                *)
(*                                                                         *)
(* The invariant places the parser: so many messages taken off the buffer  *)
(* as a whole, and so many bytes of the next one, at whose last line end   *)
(* its context is that of a parser that is given this message alone.       *)
(***************************************************************************)

LEMMA NatInductionOnSets ==
  ASSUME NEW T, 0 \in T, \A n \in Nat : n \in T => n + 1 \in T
  PROVE  Nat \subseteq T
<1> DEFINE R == OpToRel(<, Nat)
           S == Nat \ T
<1> SUFFICES ASSUME S # {}  PROVE FALSE
  OBVIOUS
<1>1. \A x, y \in Nat : x < y => <<x, y>> \in R
  BY DEF OpToRel
<1>2. IsWellFoundedOn(R, Nat)
  BY NatLessThanWellFounded
<1> HIDE DEF R
<1>3. PICK x \in S : \A y \in S : ~ (<<y, x>> \in R)
  BY <1>2, WFMin
<1>4. x - 1 \in S /\ x - 1 < x /\ x \in Nat
  <2>1. x # 0 /\ x \in Nat /\ x - 1 \in Nat /\ (x - 1) + 1 = x
    OBVIOUS
  <2> QED  BY <2>1
<1> QED  BY <1>1, <1>3, <1>4

\* A recursive sum of sizes has a solution.
LEMMA SumsExist ==
  ASSUME NEW N \in Nat, NEW size \in [1..N -> Nat]
  PROVE  \E f \in [0..N -> Nat] :
           f[0] = 0 /\ \A k \in 1..N : f[k] = f[k - 1] + size[k]
<1> DEFINE Sums(n, f) == f[0] = 0 /\ \A k \in 1..n : f[k] = f[k - 1] + size[k]
           Exist(n) == \E f \in [0..n -> Nat] : Sums(n, f)
           T == {n \in Nat : n <= N => Exist(n)}
<1>1. Exist(0)
  <2>1. [k \in 0..0 |-> 0] \in [0..0 -> Nat] /\ Sums(0, [k \in 0..0 |-> 0])
    OBVIOUS
  <2> QED  BY <2>1
<1>2. ASSUME NEW n \in Nat, Exist(n), n + 1 <= N  PROVE Exist(n + 1)
  <2>1. PICK f \in [0..n -> Nat] : Sums(n, f)
    BY <1>2
  <2> DEFINE g == [k \in 0..(n + 1) |-> IF k <= n THEN f[k] ELSE f[n] + size[n + 1]]
  <2>2. \A k \in 0..(n + 1) : g[k] = IF k <= n THEN f[k] ELSE f[n] + size[n + 1]
    OBVIOUS
  <2>3. g \in [0..(n + 1) -> Nat]
    <3>1. n + 1 \in 1..N /\ n \in 0..n
      BY <1>2
    <3>2. size[n + 1] \in Nat /\ f[n] \in Nat
      BY <3>1
    <3> QED  BY <3>2
  <2> HIDE DEF g
  <2>4. g[0] = 0
    BY <2>1, <2>2
  <2>5. ASSUME NEW k \in 1..(n + 1)  PROVE g[k] = g[k - 1] + size[k]
    <3>1. g[k - 1] = f[k - 1] /\ k \in 0..(n + 1)
      BY <2>2
    <3>2. CASE k <= n  BY <2>1, <2>2, <3>1, <3>2
    <3>3. CASE k = n + 1  BY <2>2, <3>1, <3>3
    <3> QED  BY <3>2, <3>3
  <2> QED  BY <2>3, <2>4, <2>5
<1> HIDE DEF Exist
<1>3. Nat \subseteq T
  <2>1. 0 \in T /\ \A n \in Nat : n \in T => n + 1 \in T
    BY <1>1, <1>2
  <2> HIDE DEF T
  <2> QED  BY <2>1, NatInductionOnSets
<1>4. Exist(N)
  BY <1>3
<1> QED  BY <1>4 DEF Exist

\* The messages of a stream, each of them at least its CR LF long.
LEMMA StreamFacts ==
  ASSUME stream \in Seq(Messages)
  PROVE  /\ Len(stream) \in Nat
         /\ \A k \in 1..Len(stream) :
              /\ stream[k] \in Messages /\ IsMessage(stream[k])
              /\ stream[k].bytes \in Seq(Bytes) /\ Len(stream[k].bytes) \in Nat
              /\ Len(stream[k].bytes) >= 2
              /\ LineEnds(stream[k].bytes, Len(stream[k].bytes))
<1>1. \A k \in 1..Len(stream) : stream[k] \in Messages
  OBVIOUS
<1>2. \A m \in Messages : m.bytes \in Seq(Bytes) /\ LineEnds(m.bytes, Len(m.bytes))
  BY MessagesAssumption DEF IsMessage
<1>3. \A m \in Messages : Len(m.bytes) \in Nat /\ Len(m.bytes) >= 2
  BY <1>2 DEF LineEnds
<1> QED  BY <1>1, <1>2, <1>3, MessagesAssumption

LEMMA EndsFacts ==
  ASSUME stream \in Seq(Messages)
  PROVE  /\ Ends \in [0..Len(stream) -> Nat] /\ Ends[0] = 0
         /\ \A k \in 1..Len(stream) : Ends[k] = Ends[k - 1] + Len(stream[k].bytes)
<1> DEFINE N == Len(stream)
           size == [k \in 1..N |-> Len(stream[k].bytes)]
<1>1. N \in Nat /\ size \in [1..N -> Nat]
  BY StreamFacts
<1>2. PICK f \in [0..N -> Nat] :
        f[0] = 0 /\ \A k \in 1..N : f[k] = f[k - 1] + size[k]
  <2> HIDE DEF N, size
  <2> QED  BY <1>1, SumsExist
<1>3. f = [k \in 0..N |-> IF k = 0 THEN 0 ELSE f[k - 1] + Len(stream[k].bytes)]
  <2>1. \A k \in 0..N : f[k] = IF k = 0 THEN 0 ELSE f[k - 1] + Len(stream[k].bytes)
    BY <1>1, <1>2
  <2> QED  BY <1>1, <2>1
<1>4. Ends = [k \in 0..N |-> IF k = 0 THEN 0 ELSE Ends[k - 1] + Len(stream[k].bytes)]
  BY <1>3 DEF Ends
<1>5. Ends[0] = 0 /\ DOMAIN Ends = 0..N
      /\ \A k \in 1..N : Ends[k] = Ends[k - 1] + Len(stream[k].bytes)
  BY <1>1, <1>4
<1> HIDE DEF N
<1> DEFINE T == {n \in Nat : n <= N => Ends[n] \in Nat}
<1>6. Nat \subseteq T
  <2>1. 0 \in T  BY <1>5
  <2>2. ASSUME NEW n \in Nat, n \in T, n + 1 <= N  PROVE Ends[n + 1] \in Nat
    <3>1. n + 1 \in 1..N /\ Ends[n] \in Nat /\ (n + 1) - 1 = n
      BY <1>1, <2>2
    <3> QED  BY <1>5, <3>1, StreamFacts, SMTT(30) DEF N
  <2>3. \A n \in Nat : n \in T => n + 1 \in T
    BY <2>2
  <2> HIDE DEF T
  <2> QED  BY <2>1, <2>3, NatInductionOnSets
<1>7. \A n \in 0..N : Ends[n] \in Nat
  BY <1>1, <1>6
<1>8. Ends \in [0..N -> Nat]
  BY <1>4, <1>7
<1> QED  BY <1>5, <1>8 DEF N

LEMMA EndsGrow ==
  ASSUME stream \in Seq(Messages), NEW j \in 0..Len(stream), NEW k \in 0..Len(stream), j <= k
  PROVE  Ends[j] <= Ends[k] /\ Ends[j] \in Nat /\ Ends[k] \in Nat
<1> DEFINE N == Len(stream)
           T == {d \in Nat : j + d <= N => Ends[j] <= Ends[j + d]}
<1>1. N \in Nat /\ \A i \in 0..N : Ends[i] \in Nat
  BY StreamFacts, EndsFacts
<1>2. \A i \in 1..N : Ends[i - 1] <= Ends[i]
  <2> SUFFICES ASSUME NEW i \in 1..N  PROVE Ends[i - 1] <= Ends[i]
    OBVIOUS
  <2>1. i - 1 \in 0..N /\ i \in 0..N
    BY <1>1
  <2>2. Ends[i] = Ends[i - 1] + Len(stream[i].bytes) /\ Len(stream[i].bytes) \in Nat
    BY StreamFacts, EndsFacts
  <2> QED  BY <1>1, <2>1, <2>2
<1> HIDE DEF N
<1>3. j \in 0..N /\ k \in 0..N
  BY DEF N
<1>4. Nat \subseteq T
  <2>1. 0 \in T
    BY <1>1, <1>3
  <2>2. ASSUME NEW d \in Nat, d \in T, j + (d + 1) <= N
        PROVE  Ends[j] <= Ends[j + (d + 1)]
    <3>1. j + d \in 0..N /\ j + (d + 1) \in 1..N /\ (j + (d + 1)) - 1 = j + d
      BY <1>1, <1>3, <2>2
    <3>2. Ends[j] <= Ends[j + d] /\ Ends[j + d] <= Ends[j + (d + 1)]
      BY <1>2, <1>3, <2>2, <3>1
    <3> QED  BY <1>1, <1>3, <3>1, <3>2
  <2>3. \A d \in Nat : d \in T => d + 1 \in T
    BY <2>2
  <2> HIDE DEF T
  <2> QED  BY <2>1, <2>3, NatInductionOnSets
<1>5. k - j \in Nat /\ j + (k - j) = k /\ k <= N
  BY <1>1, <1>3
<1>6. k - j \in T
  BY <1>4, <1>5
<1> QED  BY <1>1, <1>3, <1>5, <1>6

\* Every byte of the stream is at its place in one message.
LEMMA StreamByte ==
  ASSUME stream \in Seq(Messages),
         NEW k \in 1..Len(stream), NEW i \in 1..Len(stream[k].bytes)
  PROVE  /\ Ends[k - 1] + i \in 1..Ends[Len(stream)]
         /\ StreamBytes[Ends[k - 1] + i] = stream[k].bytes[i]
<1> DEFINE N == Len(stream)
           x == Ends[k - 1] + i
           In(j) == Ends[j - 1] < x /\ x <= Ends[j]
<1>1. /\ N \in Nat /\ k - 1 \in 0..N /\ k \in 0..N /\ N \in 0..N /\ k <= N
      /\ \A j \in 0..N : Ends[j] \in Nat
      /\ Ends[k] = Ends[k - 1] + Len(stream[k].bytes) /\ Len(stream[k].bytes) \in Nat
  <2>1. N \in Nat /\ Len(stream[k].bytes) \in Nat
    BY StreamFacts
  <2>2. k - 1 \in 0..N /\ k \in 0..N /\ N \in 0..N /\ k <= N
    BY <2>1
  <2>3. (\A j \in 0..N : Ends[j] \in Nat) /\ Ends[k] = Ends[k - 1] + Len(stream[k].bytes)
    BY EndsFacts
  <2> QED  BY <2>1, <2>2, <2>3
<1>2. Ends[k] <= Ends[N]
  BY <1>1, EndsGrow
<1>3. x \in 1..Ends[N] /\ In(k) /\ x - Ends[k - 1] = i /\ x \in Nat
  <2> DEFINE a == Ends[k - 1]  b == Ends[k]  c == Ends[N]  l == Len(stream[k].bytes)
  <2>1. a \in Nat /\ b \in Nat /\ c \in Nat /\ l \in Nat /\ b = a + l /\ b <= c /\ i \in 1..l
    BY <1>1, <1>2
  <2> HIDE DEF a, b, c, l
  <2>2. a + i \in 1..c /\ a < a + i /\ a + i <= b /\ (a + i) - a = i /\ a + i \in Nat
    BY <2>1
  <2> QED  BY <2>2 DEF a, b, c
<1>4. ASSUME NEW j \in 1..N, In(j)  PROVE j = k
  <2>0. j \in 0..N /\ j - 1 \in 0..N
    BY <1>1
  <2>1. CASE j < k
    <3>1. j \in 0..N /\ j <= k - 1
      BY <1>1, <2>1
    <3>2. Ends[j] <= Ends[k - 1]
      BY <1>1, <3>1, EndsGrow
    <3>3. x \in Nat /\ Ends[j] \in Nat /\ Ends[j - 1] \in Nat /\ Ends[k] \in Nat /\ Ends[k - 1] \in Nat
      BY <1>1, <1>3, <2>0, <3>1
    <3> HIDE DEF x
    <3> QED  BY <1>3, <1>4, <3>2, <3>3
  <2>2. CASE k < j
    <3>1. j - 1 \in 0..N /\ k <= j - 1
      BY <1>1, <2>2
    <3>2. Ends[k] <= Ends[j - 1]
      BY <1>1, <3>1, EndsGrow
    <3>3. x \in Nat /\ Ends[j] \in Nat /\ Ends[j - 1] \in Nat /\ Ends[k] \in Nat /\ Ends[k - 1] \in Nat
      BY <1>1, <1>3, <2>0, <3>1
    <3> HIDE DEF x
    <3> QED  BY <1>3, <1>4, <3>2, <3>3
  <2> QED  BY <1>1, <2>1, <2>2
<1>5. StreamBytes[x] = stream[CHOOSE j \in 1..N : In(j)].bytes[x - Ends[(CHOOSE j \in 1..N : In(j)) - 1]]
  BY <1>3 DEF StreamBytes
<1>6. (CHOOSE j \in 1..N : In(j)) = k
  <2> HIDE DEF In, N
  <2> QED  BY <1>3, <1>4 DEF N
<1> QED  BY <1>3, <1>5, <1>6

\* The messages end with the last of them.
LEMMA StreamIsBytes ==
  ASSUME stream \in Seq(Messages)
  PROVE  StreamBytes \in Seq(Bytes) /\ Len(StreamBytes) = Ends[Len(stream)]
<1> DEFINE N == Len(stream)
           Within(n) == \A x \in 1..Ends[n] : \E k \in 1..n : \E i \in 1..Len(stream[k].bytes) :
                          x = Ends[k - 1] + i
           T == {n \in Nat : n <= N => Within(n)}
<1>1. /\ N \in Nat /\ Ends[0] = 0 /\ \A j \in 0..N : Ends[j] \in Nat
      /\ \A k \in 1..N : Len(stream[k].bytes) \in Nat
                         /\ Ends[k] = Ends[k - 1] + Len(stream[k].bytes)
  BY StreamFacts, EndsFacts
<1>2. Within(0)
  BY <1>1
<1>3. ASSUME NEW n \in Nat, Within(n), n + 1 <= N  PROVE Within(n + 1)
  <2> SUFFICES ASSUME NEW x \in 1..Ends[n + 1]
               PROVE  \E k \in 1..(n + 1) : \E i \in 1..Len(stream[k].bytes) : x = Ends[k - 1] + i
    OBVIOUS
  <2>1. /\ n \in 0..N /\ n + 1 \in 1..N /\ n + 1 \in 0..N /\ (n + 1) - 1 = n
        /\ \A k \in 1..n : k \in 1..(n + 1)
    BY <1>1, <1>3
  <2>2. CASE x <= Ends[n]
    <3>1. x \in 1..Ends[n]
      BY <1>1, <2>1, <2>2
    <3> QED  BY <1>3, <2>1, <3>1
  <2>3. CASE Ends[n] < x
    <3> DEFINE i == x - Ends[n]
    <3>1. i \in 1..Len(stream[n + 1].bytes) /\ x = Ends[n] + i
      BY <1>1, <2>1, <2>3
    <3> HIDE DEF i
    <3> QED  BY <2>1, <3>1
  <2> QED  BY <1>1, <2>1, <2>2, <2>3
<1> HIDE DEF Within
<1>4. Nat \subseteq T
  <2>1. 0 \in T /\ \A n \in Nat : n \in T => n + 1 \in T
    BY <1>2, <1>3
  <2> HIDE DEF T
  <2> QED  BY <2>1, NatInductionOnSets
<1>5. Within(N)
  BY <1>1, <1>4
<1>6. ASSUME NEW x \in 1..Ends[N]  PROVE StreamBytes[x] \in Bytes
  <2>1. PICK k \in 1..N : \E i \in 1..Len(stream[k].bytes) : x = Ends[k - 1] + i
    BY <1>5 DEF Within
  <2>1a. PICK i \in 1..Len(stream[k].bytes) : x = Ends[k - 1] + i
    BY <2>1
  <2>2. StreamBytes[x] = stream[k].bytes[i]
    BY <2>1a, StreamByte
  <2> QED  BY <2>2, StreamFacts
<1>7. StreamBytes = [x \in 1..Ends[N] |-> StreamBytes[x]] /\ Ends[N] \in Nat
  BY <1>1 DEF StreamBytes
<1> DEFINE s == StreamBytes
           M == Ends[N]
<1>8. s \in [1..M -> Bytes] /\ M \in Nat
  BY <1>6, <1>7
<1> HIDE DEF s, M
<1>9. s \in Seq(Bytes) /\ Len(s) = M
  BY <1>8
<1> QED  BY <1>9 DEF s, M

\* Alone(bytes) solves its recursion.
LEMMA AloneFacts ==
  ASSUME NEW b \in Seq(Bytes)
  PROVE  /\ Alone(b)[0] = NewContext
         /\ \A n \in 1..Len(b) :
              Alone(b)[n] = IF LineEnds(b, n) THEN ReadLine(Alone(b)[n - 1], LineTo(b, n))
                            ELSE Alone(b)[n - 1]
<1> DEFINE N == Len(b)
           Next1(c, n) == IF LineEnds(b, n) THEN ReadLine(c, LineTo(b, n)) ELSE c
           Table(n, f) == f = [i \in 0..n |-> f[i]]
           Reads(n, f) == Table(n, f) /\ f[0] = NewContext /\ \A i \in 1..n : f[i] = Next1(f[i - 1], i)
           Exist(n) == \E f : Reads(n, f)
           T == {n \in Nat : n <= N => Exist(n)}
<1>1. N \in Nat
  OBVIOUS
<1> HIDE DEF N, Next1
<1>2. Exist(0)
  <2> DEFINE f == [i \in 0..0 |-> NewContext]
  <2>1. Table(0, f) /\ f[0] = NewContext
    OBVIOUS
  <2>2. Reads(0, f)
    <3> HIDE DEF f, Table
    <3> QED  BY <2>1
  <2> HIDE DEF f, Reads
  <2> QED  BY <2>2
<1>3. ASSUME NEW n \in Nat, Exist(n), n + 1 <= N  PROVE Exist(n + 1)
  <2>1. PICK f : Reads(n, f)
    BY <1>3
  <2>1a. f[0] = NewContext /\ \A i \in 1..n : f[i] = Next1(f[i - 1], i)
    BY <2>1
  <2> DEFINE g == [i \in 0..(n + 1) |-> IF i <= n THEN f[i] ELSE Next1(f[n], n + 1)]
  <2>2. /\ Table(n + 1, g)
        /\ \A i \in 0..(n + 1) : g[i] = IF i <= n THEN f[i] ELSE Next1(f[n], n + 1)
    OBVIOUS
  <2> HIDE DEF g, Table
  <2>3. g[0] = NewContext
    BY <2>1a, <2>2
  <2>4. ASSUME NEW i \in 1..(n + 1)  PROVE g[i] = Next1(g[i - 1], i)
    <3>1. g[i - 1] = f[i - 1] /\ i \in 0..(n + 1)
      BY <2>2
    <3>2. CASE i <= n  BY <2>1a, <2>2, <3>1, <3>2
    <3>3. CASE i = n + 1  BY <2>2, <3>1, <3>3
    <3> QED  BY <3>2, <3>3
  <2>5. Reads(n + 1, g)
    BY <2>2, <2>3, <2>4
  <2> HIDE DEF Reads
  <2> QED  BY <2>5
<1> HIDE DEF Exist
<1>4. Nat \subseteq T
  <2>1. 0 \in T /\ \A n \in Nat : n \in T => n + 1 \in T
    BY <1>1, <1>2, <1>3
  <2> HIDE DEF T
  <2> QED  BY <2>1, NatInductionOnSets
<1>5. Exist(N)
  BY <1>1, <1>4
<1>6. PICK f : Reads(N, f)
  BY <1>5 DEF Exist
<1>7. f = [n \in 0..N |-> IF n = 0 THEN NewContext ELSE Next1(f[n - 1], n)]
  <2>1. Table(N, f) /\ f[0] = NewContext /\ \A n \in 1..N : f[n] = Next1(f[n - 1], n)
    BY <1>6
  <2>2. \A n \in 0..N : f[n] = IF n = 0 THEN NewContext ELSE Next1(f[n - 1], n)
    <3> HIDE DEF Table
    <3> QED  BY <1>1, <2>1
  <2>3. f = [n \in 0..N |-> f[n]]
    BY <2>1
  <2> QED  BY <2>2, <2>3
<1> DEFINE a == Alone(b)
<1>8. a = [n \in 0..N |-> IF n = 0 THEN NewContext ELSE Next1(a[n - 1], n)]
  BY <1>7 DEF Alone, N, Next1
<1> HIDE DEF a
<1>9. a[0] = NewContext /\ \A n \in 1..N : a[n] = Next1(a[n - 1], n)
  BY <1>1, <1>8
<1> QED  BY <1>9 DEF a, N, Next1

\* The elements of s from behind a up to c.
Between(s, a, c) == SubSeq(s, a + 1, c)

LEMMA BetweenFacts ==
  ASSUME NEW s \in Seq(Bytes), NEW a \in Nat, NEW c \in Nat, a <= c, c <= Len(s)
  PROVE  /\ Between(s, a, c) \in Seq(Bytes) /\ Len(Between(s, a, c)) = c - a
         /\ \A i \in 1..(c - a) : Between(s, a, c)[i] = s[a + i]
<1>1. \A i \in (a + 1)..c : s[i] \in Bytes
  OBVIOUS
<1>2. /\ SubSeq(s, a + 1, c) \in Seq(Bytes)
      /\ Len(SubSeq(s, a + 1, c)) = IF a + 1 <= c THEN c - (a + 1) + 1 ELSE 0
      /\ \A i \in 1..(c - (a + 1) + 1) : SubSeq(s, a + 1, c)[i] = s[(a + 1) + i - 1]
  BY <1>1, SubSeqProperties
<1>3. /\ (IF a + 1 <= c THEN c - (a + 1) + 1 ELSE 0) = c - a
      /\ c - (a + 1) + 1 = c - a
      /\ \A i \in 1..(c - a) : (a + 1) + i - 1 = a + i
  OBVIOUS
<1> QED  BY <1>2, <1>3 DEF Between

\* What is behind the first e of them.
LEMMA BetweenBehind ==
  ASSUME NEW s \in Seq(Bytes), NEW a \in Nat, NEW c \in Nat, a <= c, c <= Len(s),
         NEW e \in Nat, a + e <= c, NEW n, n = c - a, NEW d, d = a + e
  PROVE  Between(Between(s, a, c), e, n) = Between(s, d, c)
<1> DEFINE t == Between(s, a, c)
           u == Between(t, e, n)
           v == Between(s, d, c)
<1>0. n \in Nat /\ d \in Nat /\ d <= c
  OBVIOUS
<1>1. t \in Seq(Bytes) /\ Len(t) = n /\ \A i \in 1..n : t[i] = s[a + i]
  BY BetweenFacts
<1> HIDE DEF t
<1>2. e <= n /\ n <= Len(t)
  BY <1>0, <1>1
<1>3. u \in Seq(Bytes) /\ Len(u) = n - e /\ \A i \in 1..(n - e) : u[i] = t[e + i]
  BY <1>0, <1>1, <1>2, BetweenFacts
<1>4. v \in Seq(Bytes) /\ Len(v) = c - d /\ \A i \in 1..(c - d) : v[i] = s[d + i]
  BY <1>0, BetweenFacts
<1> HIDE DEF u, v
<1>5. Len(u) = Len(v)
  BY <1>0, <1>3, <1>4
<1>6. ASSUME NEW i \in 1..Len(u)  PROVE u[i] = v[i]
  <2>1. i \in 1..(n - e) /\ i \in 1..(c - d) /\ e + i \in 1..n /\ a + (e + i) = d + i
    BY <1>0, <1>3
  <2> QED  BY <1>1, <1>3, <1>4, <2>1
<1>7. u = v
  BY <1>3, <1>4, <1>5, <1>6, SeqEqual
<1> QED  BY <1>7 DEF t, u, v

\* From one line end to the next nothing is parsed, and then that line.
LEMMA AloneReadsLine ==
  ASSUME NEW b \in Seq(Bytes), NEW o \in 0..Len(b), NEW e \in (o + 1)..Len(b),
         o = 0 \/ LineEnds(b, o), LineEnds(b, e),
         \A r \in (o + 1)..(e - 1) : ~LineEnds(b, r)
  PROVE  Alone(b)[e] = ReadLine(Alone(b)[o], Between(b, o, e - 2))
<1> DEFINE a == Alone(b)
           T == {d \in Nat : o + d <= e - 1 => a[o + d] = a[o]}
<1>1. Len(b) \in Nat /\ o \in Nat /\ e \in Nat /\ o <= e - 1
  OBVIOUS
<1>2. Nat \subseteq T
  <2>1. 0 \in T
    BY <1>1
  <2>2. ASSUME NEW d \in Nat, d \in T, o + (d + 1) <= e - 1
        PROVE  a[o + (d + 1)] = a[o]
    <3>1. /\ o + (d + 1) \in 1..Len(b) /\ o + (d + 1) \in (o + 1)..(e - 1)
          /\ (o + (d + 1)) - 1 = o + d /\ o + d <= e - 1
      BY <1>1, <2>2
    <3>2. a[o + (d + 1)] = a[o + d]
      BY <3>1, AloneFacts
    <3> QED  BY <2>2, <3>1, <3>2
  <2>3. \A d \in Nat : d \in T => d + 1 \in T
    BY <2>2
  <2> HIDE DEF T
  <2> QED  BY <2>1, <2>3, NatInductionOnSets
<1>3. (e - 1) - o \in Nat /\ o + ((e - 1) - o) = e - 1
  BY <1>1
<1>4. a[e - 1] = a[o]
  <2> DEFINE d == (e - 1) - o
  <2>1. d \in Nat /\ o + d = e - 1 /\ o + d <= e - 1
    BY <1>1, <1>3
  <2> HIDE DEF d
  <2>2. d \in T
    BY <1>2, <2>1
  <2>3. a[o + d] = a[o]
    BY <2>1, <2>2
  <2> QED  BY <2>1, <2>3
<1> DEFINE S == {0} \union {q \in 2..(e - 1) : LineEnds(b, q)}
<1>5. o \in S /\ \A q \in S : q <= o /\ q \in Nat
  BY <1>1 DEF LineEnds
<1>6. Max(S) = o
  <2> HIDE DEF S
  <2>1. (\A y \in S : o >= y) /\ \A x \in S : (\A y \in S : x >= y) => x = o
    BY <1>5
  <2> QED  BY <1>5, <2>1 DEF Max
<1>7. LineTo(b, e) = Between(b, o, e - 2)
  BY <1>6 DEF LineTo, Between
<1>8. e \in 1..Len(b)
  BY <1>1
<1> QED  BY <1>4, <1>7, <1>8, AloneFacts

\* findCRLF finds the first line end.
LEMMA FirstLineEnd ==
  ASSUME NEW s \in Seq(Bytes)
  PROVE  /\ FindCRLF(s) = 0 => \A n \in Nat : ~LineEnds(s, n)
         /\ FindCRLF(s) # 0 => /\ FindCRLF(s) \in Nat /\ LineEnds(s, FindCRLF(s) + 1)
                               /\ \A n \in 1..FindCRLF(s) : ~LineEnds(s, n)
<1> DEFINE ends == {n \in 2..Len(s) : LineEnds(s, n)}
<1>1. \A n \in Nat : LineEnds(s, n) => n \in ends
  BY DEF LineEnds
<1>2. \A n \in ends : n \in Nat /\ n >= 2 /\ LineEnds(s, n)
  OBVIOUS
<1>3. FindCRLF(s) = IF ends = {} THEN 0 ELSE Min(ends) - 1
  BY DEF FindCRLF
<1> HIDE DEF ends
<1>4. CASE ends = {}
  BY <1>1, <1>3, <1>4
<1>5. CASE ends # {}
  <2>1. PICK x \in ends : \A y \in ends : x <= y
    <3> DEFINE R == OpToRel(<, Nat)
    <3>1. \A x, y \in Nat : x < y => <<x, y>> \in R
      BY DEF OpToRel
    <3>2. IsWellFoundedOn(R, Nat)
      BY NatLessThanWellFounded
    <3> HIDE DEF R
    <3>3. ends \subseteq Nat
      BY <1>2
    <3>4. PICK x \in ends : \A y \in ends : ~ (<<y, x>> \in R)
      BY <1>5, <3>2, <3>3, WFMin
    <3>5. \A y \in ends : x \in Nat /\ y \in Nat /\ ~(y < x)
      BY <1>2, <3>1, <3>4
    <3>6. \A y \in ends : x <= y
      BY <3>5
    <3> QED  BY <3>4, <3>6
  <2>2. Min(ends) = x
    BY <1>2, <2>1 DEF Min
  <2>3. FindCRLF(s) = x - 1 /\ x >= 2 /\ x \in Nat /\ LineEnds(s, x)
    BY <1>2, <1>3, <1>5, <2>2
  <2>4. \A n \in 1..(x - 1) : ~LineEnds(s, n)
    BY <1>1, <2>1, <2>3
  <2> QED  BY <2>3, <2>4
<1> QED  BY <1>4, <1>5

\* s shows the bytes of b that are behind o.
Shows(s, b, o) == \A j \in 1..Len(s) : o + j <= Len(b) => s[j] = b[o + j]

\* Their line ends are the same.
LEMMA WindowLineEnds ==
  ASSUME NEW s \in Seq(Bytes), NEW b \in Seq(Bytes), NEW o \in 0..(Len(b) - 1),
         o = 0 \/ LineEnds(b, o),
         Shows(s, b, o),
         NEW r \in (o + 1)..Len(b), r - o <= Len(s)
  PROVE  LineEnds(s, r - o) <=> LineEnds(b, r)
<1>1. Len(b) \in Nat /\ Len(s) \in Nat /\ o \in Nat /\ r \in Nat
  OBVIOUS
<1>2. r - o = 1 => ~LineEnds(b, r)
  <2> SUFFICES ASSUME r - o = 1, LineEnds(b, r)  PROVE FALSE
    OBVIOUS
  <2>1. r - 1 = o /\ o # 0 /\ b[o] = "CR"
    BY <1>1 DEF LineEnds
  <2> QED  BY <2>1 DEF LineEnds
<1>3. CASE r - o >= 2
  <2> DEFINE j == r - o
  <2>1. j \in 1..Len(s) /\ j - 1 \in 1..Len(s) /\ o + j = r /\ o + (j - 1) = r - 1
        /\ j \in 2..Len(s) /\ r \in 2..Len(b) /\ r <= Len(b) /\ r - 1 <= Len(b)
    <3> DEFINE l == Len(s)  m == Len(b)
    <3>1. m \in Nat /\ l \in Nat /\ o \in Nat /\ r \in Nat /\ r <= m /\ r - o <= l /\ r - o >= 2
      BY <1>1, <1>3
    <3> HIDE DEF l, m
    <3>2. /\ j \in 1..l /\ j - 1 \in 1..l /\ o + j = r /\ o + (j - 1) = r - 1
          /\ j \in 2..l /\ r \in 2..m /\ r <= m /\ r - 1 <= m
      BY <3>1
    <3> QED  BY <3>2 DEF l, m
  <2> HIDE DEF j
  <2>2. s[j] = b[r]
    BY <2>1 DEF Shows
  <2>3. s[j - 1] = b[r - 1]
    <3> DEFINE i == j - 1
    <3>1. i \in 1..Len(s) /\ o + i = r - 1 /\ o + i <= Len(b)
      BY <2>1
    <3> HIDE DEF i
    <3>2. s[i] = b[o + i]
      BY <3>1 DEF Shows
    <3> QED  BY <3>1, <3>2 DEF i
  <2> QED  BY <2>1, <2>2, <2>3 DEF LineEnds, j
<1>4. CASE r - o = 1
  BY <1>1, <1>2, <1>4 DEF LineEnds
<1> QED  BY <1>1, <1>3, <1>4

\* The first line that s shows is the next one of b.
LEMMA WindowLine ==
  ASSUME NEW s \in Seq(Bytes), NEW b \in Seq(Bytes), NEW o \in 0..(Len(b) - 1),
         o = 0 \/ LineEnds(b, o), LineEnds(b, Len(b)),
         Shows(s, b, o),
         FindCRLF(s) # 0
  PROVE  LET e == FindCRLF(s) + 1 IN
         /\ e \in 2..Len(s) /\ o + e \in (o + 1)..Len(b) /\ LineEnds(b, o + e)
         /\ \A r \in (o + 1)..((o + e) - 1) : ~LineEnds(b, r)
         /\ SubSeq(s, 1, e - 2) = Between(b, o, (o + e) - 2)
<1> DEFINE e == FindCRLF(s) + 1
<1>1. Len(b) \in Nat /\ Len(s) \in Nat /\ o \in Nat /\ Len(b) - o \in Nat /\ Len(b) \in (o + 1)..Len(b)
  OBVIOUS
<1>2. e \in Nat /\ LineEnds(s, e) /\ \A n \in 1..(e - 1) : ~LineEnds(s, n)
  BY FirstLineEnd
<1> HIDE DEF e
<1>3. e \in 2..Len(s)
  BY <1>2 DEF LineEnds
<1>4. o + e <= Len(b)
  <2> SUFFICES ASSUME Len(b) < o + e  PROVE FALSE
    BY <1>1, <1>2
  <2>1. Len(b) - o \in 1..(e - 1) /\ Len(b) - o <= Len(s)
    BY <1>1, <1>3
  <2>2. LineEnds(s, Len(b) - o)
    BY <1>1, <2>1, WindowLineEnds
  <2> QED  BY <1>2, <2>1, <2>2
<1>5. o + e \in (o + 1)..Len(b) /\ (o + e) - o = e
  BY <1>1, <1>3, <1>4
<1>6. LineEnds(b, o + e)
  <2>1. (o + e) - o <= Len(s)
    BY <1>3, <1>5
  <2> QED  BY <1>2, <1>5, <2>1, WindowLineEnds
<1>7. ASSUME NEW r \in (o + 1)..((o + e) - 1)  PROVE ~LineEnds(b, r)
  <2>1. r \in (o + 1)..Len(b) /\ r - o <= Len(s) /\ r - o \in 1..(e - 1)
    BY <1>1, <1>3, <1>4
  <2>2. ~LineEnds(s, r - o)
    BY <1>2, <2>1
  <2> QED  BY <2>1, <2>2, WindowLineEnds
<1>8. SubSeq(s, 1, e - 2) = Between(b, o, (o + e) - 2)
  <2> DEFINE n == e - 2
             t == SubSeq(s, 1, n)
             u == Between(b, o, (o + e) - 2)
  <2>1. n \in Nat /\ n <= Len(s) /\ (o + e) - 2 = o + n /\ o + n <= Len(b)
    <3>1. e \in Nat /\ e >= 2 /\ e <= Len(s)
      BY <1>1, <1>3
    <3>2. e - 2 \in Nat /\ e - 2 <= Len(s)
      BY <1>1, <3>1
    <3>3. (o + e) - 2 = o + (e - 2)
      BY <1>1, <3>1
    <3> QED  BY <1>1, <1>4, <3>1, <3>2, <3>3
  <2>2. /\ t \in Seq(Bytes) /\ Len(t) = n
        /\ \A i \in 1..n : t[i] = s[i]
    <3> HIDE DEF n
    <3> QED  BY <1>1, <2>1
  <2>3. /\ u \in Seq(Bytes) /\ Len(u) = n
        /\ \A i \in 1..n : u[i] = b[o + i]
    <3> DEFINE c == o + n
    <3>1. u = Between(b, o, c)
      BY <2>1
    <3>2. c \in Nat /\ o <= c /\ c - o = n /\ c <= Len(b)
      BY <1>1, <2>1
    <3> HIDE DEF c, n, u
    <3>3. /\ Between(b, o, c) \in Seq(Bytes) /\ Len(Between(b, o, c)) = c - o
          /\ \A i \in 1..(c - o) : Between(b, o, c)[i] = b[o + i]
      BY <1>1, <3>2, BetweenFacts
    <3> QED  BY <3>1, <3>2, <3>3
  <2>4. \A i \in 1..n : s[i] = b[o + i]
    <3> SUFFICES ASSUME NEW i \in 1..n  PROVE s[i] = b[o + i]
      OBVIOUS
    <3>1. i \in 1..Len(s) /\ o + i <= Len(b)
      <4> DEFINE l == Len(s)  m == Len(b)
      <4>1. l \in Nat /\ m \in Nat /\ n \in Nat /\ n <= l /\ o + n <= m /\ i \in 1..n
        BY <1>1, <2>1
      <4> HIDE DEF n, l, m
      <4>2. i \in 1..l /\ o + i <= m
        BY <1>1, <4>1
      <4> QED  BY <4>2 DEF l, m
    <3> QED  BY <3>1 DEF Shows
  <2> HIDE DEF n, t, u
  <2>5. t = u
    BY <2>2, <2>3, <2>4, SeqEqual
  <2> QED  BY <2>5 DEF t, u, n
<1> QED  BY <1>3, <1>5, <1>6, <1>7, <1>8 DEF e

\* A request of which at most the method has been read.
Fresh(r) == r = [NewRequest EXCEPT !.method = r.method]

\* Whatever method a malformed line has left, the next line is read as by a
\* new parser, except that a malformed one may leave its method again.
LEMMA FreshReads ==
  ASSUME NEW c, c = [state |-> "ExpectRequestLine", request |-> c.request],
         Fresh(c.request), NEW line, NEW d, d = ReadLine(c, line),
         NEW n, n = ReadLine(NewContext, line)
  PROVE  /\ d.state = n.state
         /\ \/ n.state = "ExpectHeaders" /\ d = n
            \/ /\ n.state = "ExpectRequestLine" /\ Fresh(d.request)
               /\ d = [state |-> "ExpectRequestLine", request |-> d.request]
<1> DEFINE r == c.request
           p == ProcessRequestLine(r, line)
           q == ProcessRequestLine(NewRequest, line)
<1>1. /\ c.state = "ExpectRequestLine"
      /\ d = [state |-> IF p.ok THEN "ExpectHeaders" ELSE "ExpectRequestLine", request |-> p.request]
      /\ n = [state |-> IF q.ok THEN "ExpectHeaders" ELSE "ExpectRequestLine", request |-> q.request]
  <2>1. c.state = "ExpectRequestLine"
    OBVIOUS
  <2> QED  BY <2>1 DEF ReadLine, NewContext
<1>2. /\ p.ok = q.ok /\ p.ok \in BOOLEAN
      /\ p.ok => p.request = q.request
      /\ ~p.ok => Fresh(p.request)
  <2> DEFINE sp == Find(line, "SP")
             m == OneOf(Before(line, sp), {"GET", "POST", "HEAD"}, "Invalid")
             rest == After(line, sp)
             sp2 == Find(rest, "SP")
             With(x) == [x EXCEPT !.method = m]
             Full(x) == [WithTarget(With(x), Before(rest, sp2)) EXCEPT
                           !.version = OneOf(After(rest, sp2), {"1.0", "1.1"}, "Unknown")]
  <2>1. \A x : ProcessRequestLine(x, line) =
                 IF sp = 0 THEN [ok |-> FALSE, request |-> x]
                 ELSE IF sp2 = 0 THEN [ok |-> FALSE, request |-> With(x)]
                 ELSE [ok |-> TRUE, request |-> Full(x)]
    BY DEF ProcessRequestLine
  <2>2. With(r) = With(NewRequest) /\ Fresh(With(r))
    BY DEF Fresh, NewRequest
  <2>3. Full(r) = Full(NewRequest)
    BY <2>2
  <2> HIDE DEF sp, sp2, With, Full
  <2>4. CASE sp = 0
    <3>1. p = [ok |-> FALSE, request |-> r] /\ q = [ok |-> FALSE, request |-> NewRequest]
      BY <2>1, <2>4
    <3> HIDE DEF p, q
    <3> QED  BY <3>1
  <2>5. CASE sp # 0 /\ sp2 = 0
    <3>1. p = [ok |-> FALSE, request |-> With(r)] /\ q = [ok |-> FALSE, request |-> With(NewRequest)]
      BY <2>1, <2>5
    <3> HIDE DEF p, q
    <3> QED  BY <2>2, <3>1
  <2>6. CASE sp # 0 /\ sp2 # 0
    <3>1. p = [ok |-> TRUE, request |-> Full(r)] /\ q = [ok |-> TRUE, request |-> Full(NewRequest)]
      BY <2>1, <2>6
    <3> HIDE DEF p, q
    <3> QED  BY <2>3, <3>1
  <2> QED  BY <2>4, <2>5, <2>6
<1> HIDE DEF p, q
<1>3. CASE p.ok
  BY <1>1, <1>2, <1>3
<1>4. CASE ~p.ok
  BY <1>1, <1>2, <1>4
<1> QED  BY <1>2, <1>3, <1>4

\* One more message is one more request, or a malformed line.
LEMMA RankFacts ==
  ASSUME NEW k \in Nat
  PROVE  /\ Rank(0) = 0 /\ Rank(k) \in Nat
         /\ Rank(k + 1) = IF IsServed(k + 1) THEN Rank(k) + 1 ELSE Rank(k)
         /\ \A i \in 1..k : IsServed(i) => Rank(i) \in 1..Rank(k)
<1> DEFINE A(j) == {i \in 1..j : IsServed(i)}
<1>1. \A j \in Nat : IsFiniteSet(A(j)) /\ Cardinality(A(j)) \in Nat
  <2> SUFFICES ASSUME NEW j \in Nat  PROVE IsFiniteSet(A(j)) /\ Cardinality(A(j)) \in Nat
    OBVIOUS
  <2>1. IsFiniteSet(1..j) /\ A(j) \in SUBSET (1..j)
    BY FS_Interval
  <2>2. IsFiniteSet(A(j))
    <3> HIDE DEF A
    <3> QED  BY <2>1, FS_Subset
  <2> HIDE DEF A
  <2> QED  BY <2>2, FS_CardinalityType
<1>2. \A j : Rank(j) = Cardinality(A(j))
  BY DEF Rank
<1>3. A(0) = {}
  OBVIOUS
<1>4. Rank(0) = 0
  <2> HIDE DEF A
  <2> QED  BY <1>2, <1>3, FS_EmptySet
<1>5. A(k + 1) = (IF IsServed(k + 1) THEN A(k) \union {k + 1} ELSE A(k)) /\ k + 1 \notin A(k)
  <2> HIDE DEF IsServed
  <2> QED  OBVIOUS
<1>6. \A i \in 1..k : A(i) \subseteq A(k) /\ (IsServed(i) => i \in A(i)) /\ i \in Nat
  <2> HIDE DEF IsServed
  <2> QED  OBVIOUS
<1> HIDE DEF A, IsServed
<1>7. Rank(k + 1) = IF IsServed(k + 1) THEN Rank(k) + 1 ELSE Rank(k)
  BY <1>1, <1>2, <1>5, FS_AddElement
<1>8. ASSUME NEW i \in 1..k, IsServed(i)  PROVE Rank(i) \in 1..Rank(k)
  <2>1. Cardinality(A(i)) <= Cardinality(A(k))
    BY <1>1, <1>6, FS_Subset
  <2>2. A(i) # {} /\ IsFiniteSet(A(i)) /\ Cardinality(A(i)) \in Nat /\ Cardinality(A(k)) \in Nat
    BY <1>1, <1>6, <1>8
  <2>3. Cardinality(A(i)) # 0
    BY <2>2, FS_EmptySet
  <2> QED  BY <1>2, <2>1, <2>2, <2>3
<1> QED  BY <1>1, <1>2, <1>4, <1>7, <1>8

BytesOf(k) == stream[k].bytes

\* onRequest has seen the requests among the first k messages.
Delivered(k) ==
  /\ IsSequence(called) /\ Len(called) = Rank(k)
  /\ \A i \in 1..k : IsServed(i) => called[Rank(i)] = stream[i].request

\* What the context is when k messages and o bytes of the next one are off the
\* buffer.  At the start of a message a malformed line may have left its method.
Parsing(k, o) ==
  \/ /\ pc = "request" /\ k < Len(stream)
     /\ IsServed(k + 1) /\ o = Len(BytesOf(k + 1))
     /\ context = [state |-> "GotAll", request |-> stream[k + 1].request]
  \/ /\ pc # "request" /\ o = 0
     /\ context = [state |-> "ExpectRequestLine", request |-> context.request]
     /\ Fresh(context.request)
  \/ /\ pc # "request" /\ k < Len(stream)
     /\ o < Len(BytesOf(k + 1)) /\ LineEnds(BytesOf(k + 1), o)
     /\ context = Alone(BytesOf(k + 1))[o]

ParserAt(k, o) ==
  /\ Ends[k] + o <= received
  /\ Peek(input) = Between(sent, Ends[k] + o, received)
  /\ Delivered(k) /\ Parsing(k, o)

ParserInv ==
  /\ stream \in Seq(Messages) /\ sent = StreamBytes
  /\ received \in 0..Len(sent)
  /\ Sound(input)
  /\ \E k \in 0..Len(stream), o \in Nat : ParserAt(k, o)
  /\ pc = "poll" /\ (\A k \in 1..Len(stream) : IsServed(k)) => ~HasLine

\* The buffer shows the bytes of the message behind those the parser has taken.
LEMMA BufferShows ==
  ASSUME ParserInv, NEW k \in 0..Len(stream), NEW o \in Nat, ParserAt(k, o)
  PROVE  /\ Len(stream) \in Nat /\ Ends[k] \in Nat /\ received \in Nat
         /\ sent \in Seq(Bytes) /\ Len(sent) \in Nat /\ received <= Len(sent)
         /\ Len(sent) = Ends[Len(stream)]
         /\ Peek(input) \in Seq(Bytes)
         /\ Len(Peek(input)) = received - (Ends[k] + o)
         /\ k < Len(stream) =>
              /\ k + 1 \in 1..Len(stream) /\ IsMessage(stream[k + 1])
              /\ BytesOf(k + 1) \in Seq(Bytes) /\ Len(BytesOf(k + 1)) \in Nat
              /\ Len(BytesOf(k + 1)) >= 2
              /\ LineEnds(BytesOf(k + 1), Len(BytesOf(k + 1)))
              /\ Ends[k + 1] = Ends[k] + Len(BytesOf(k + 1))
              /\ Shows(Peek(input), BytesOf(k + 1), o)
<1> DEFINE P == Ends[k] + o
           s == Peek(input)
<1>1. stream \in Seq(Messages) /\ sent = StreamBytes /\ received \in 0..Len(sent)
  BY DEF ParserInv
<1>2. Len(stream) \in Nat /\ Ends[k] \in Nat /\ sent \in Seq(Bytes)
      /\ Len(sent) = Ends[Len(stream)]
  BY <1>1, StreamFacts, EndsFacts, StreamIsBytes
<1>3. Len(sent) \in Nat /\ received \in Nat /\ received <= Len(sent)
      /\ P \in Nat /\ P <= received
  BY <1>1, <1>2 DEF ParserAt
<1>4. s = Between(sent, P, received)
  BY DEF ParserAt
<1> HIDE DEF P, s
<1>5. /\ s \in Seq(Bytes) /\ Len(s) = received - P
      /\ \A j \in 1..(received - P) : s[j] = sent[P + j]
  <2>1. /\ Between(sent, P, received) \in Seq(Bytes)
        /\ Len(Between(sent, P, received)) = received - P
        /\ \A j \in 1..(received - P) : Between(sent, P, received)[j] = sent[P + j]
    BY <1>2, <1>3, BetweenFacts
  <2> QED  BY <1>4, <2>1
<1>6. ASSUME k < Len(stream)
      PROVE  /\ k + 1 \in 1..Len(stream) /\ IsMessage(stream[k + 1])
             /\ BytesOf(k + 1) \in Seq(Bytes) /\ Len(BytesOf(k + 1)) \in Nat
             /\ Len(BytesOf(k + 1)) >= 2
             /\ LineEnds(BytesOf(k + 1), Len(BytesOf(k + 1)))
             /\ Ends[k + 1] = Ends[k] + Len(BytesOf(k + 1))
             /\ Shows(s, BytesOf(k + 1), o)
  <2>1. k + 1 \in 1..Len(stream) /\ (k + 1) - 1 = k
    BY <1>2, <1>6
  <2>2. /\ IsMessage(stream[k + 1])
        /\ BytesOf(k + 1) \in Seq(Bytes) /\ Len(BytesOf(k + 1)) \in Nat
        /\ Len(BytesOf(k + 1)) >= 2
        /\ LineEnds(BytesOf(k + 1), Len(BytesOf(k + 1)))
        /\ Ends[k + 1] = Ends[k] + Len(BytesOf(k + 1))
    BY <1>1, <2>1, StreamFacts, EndsFacts DEF BytesOf
  <2>3. ASSUME NEW j \in 1..Len(s), o + j <= Len(BytesOf(k + 1))
        PROVE  s[j] = BytesOf(k + 1)[o + j]
    <3>1. o + j \in 1..Len(BytesOf(k + 1)) /\ P + j = Ends[k] + (o + j) /\ j \in 1..(received - P)
      <4> DEFINE l == Len(BytesOf(k + 1))
      <4>1. l \in Nat /\ o + j <= l /\ j \in 1..Len(s) /\ Len(s) = received - P /\ Ends[k] \in Nat
        BY <1>2, <1>5, <2>2, <2>3
      <4> HIDE DEF l
      <4>2. o + j \in 1..l
        BY <4>1
      <4>3. P + j = Ends[k] + (o + j)
        BY <4>1 DEF P
      <4>4. j \in 1..(received - P)
        BY <4>1
      <4> QED  BY <4>2, <4>3, <4>4 DEF l
    <3>2. StreamBytes[Ends[(k + 1) - 1] + (o + j)] = stream[k + 1].bytes[o + j]
      BY <1>1, <2>1, <3>1, StreamByte DEF BytesOf
    <3>3. StreamBytes[P + j] = BytesOf(k + 1)[o + j]
      BY <2>1, <3>1, <3>2 DEF BytesOf
    <3> QED  BY <1>1, <1>5, <3>1, <3>3
  <2>4. Shows(s, BytesOf(k + 1), o)
    BY <2>3 DEF Shows
  <2> QED  BY <2>1, <2>2, <2>4
<1> QED  BY <1>2, <1>3, <1>5, <1>6 DEF P, s

\* parseRequest takes the next line of the message that is being read.
LEMMA LineOfMessage ==
  ASSUME ParserInv, pc # "request", HasLine,
         NEW k \in 0..Len(stream), NEW o \in Nat, ParserAt(k, o),
         NEW e, e = FindCRLF(Peek(input)) + 1, NEW b, b = BytesOf(k + 1)
  PROVE  /\ k < Len(stream) /\ e \in Nat /\ e >= 2
         /\ o \in 0..(Len(b) - 1) /\ o + e \in (o + 1)..Len(b) /\ LineEnds(b, o + e)
         /\ Ends[k] + (o + e) <= received
         /\ Alone(b)[o + e] = ReadLine(Alone(b)[o], Line)
         /\ Sound(TakeLine(input))
         /\ Peek(TakeLine(input)) = Between(sent, Ends[k] + (o + e), received)
<1> DEFINE s == Peek(input)
           P == Ends[k] + o
<1>1. /\ Len(stream) \in Nat /\ Ends[k] \in Nat /\ received \in Nat
      /\ sent \in Seq(Bytes) /\ Len(sent) \in Nat /\ received <= Len(sent)
      /\ Len(sent) = Ends[Len(stream)] /\ s \in Seq(Bytes) /\ Len(s) = received - P
  BY BufferShows
<1>2. P \in Nat /\ P <= received /\ FindCRLF(s) # 0 /\ Sound(input)
  <2>1. P <= received
    BY DEF ParserAt
  <2>2. Sound(input) /\ FindCRLF(s) # 0
    BY DEF ParserInv, HasLine
  <2> QED  BY <1>1, <2>1, <2>2
<1>3. e \in Nat /\ LineEnds(s, e)
  BY <1>1, <1>2, FirstLineEnd
<1>4. e >= 2 /\ e <= Len(s)
  BY <1>1, <1>3 DEF LineEnds
<1>5. k < Len(stream)
  <2> SUFFICES ASSUME k = Len(stream)  PROVE FALSE
    BY <1>1
  <2>1. P <= received /\ received <= Ends[k]
    BY <1>1, <1>2
  <2> QED  BY <1>1, <1>3, <1>4, <2>1
<1>6. /\ b \in Seq(Bytes) /\ Len(b) \in Nat /\ Len(b) >= 2 /\ LineEnds(b, Len(b))
      /\ Shows(s, b, o)
  BY <1>5, BufferShows
<1>7. o \in 0..(Len(b) - 1) /\ (o = 0 \/ LineEnds(b, o))
  BY <1>6 DEF ParserAt, Parsing
<1> HIDE DEF s
<1>8. /\ e \in 2..Len(s) /\ o + e \in (o + 1)..Len(b) /\ LineEnds(b, o + e)
      /\ \A r \in (o + 1)..((o + e) - 1) : ~LineEnds(b, r)
      /\ SubSeq(s, 1, e - 2) = Between(b, o, (o + e) - 2)
  <2>1. e = FindCRLF(s) + 1
    BY DEF s
  <2>2. s \in Seq(Bytes) /\ FindCRLF(s) # 0
    BY <1>1, <1>2
  <2>3. b \in Seq(Bytes) /\ LineEnds(b, Len(b))
        /\ Shows(s, b, o)
    BY <1>6
  <2> QED  BY <1>7, <2>1, <2>2, <2>3, WindowLine
<1>9. Line = Between(b, o, (o + e) - 2)
  <2>1. FindCRLF(s) \in Nat /\ FindCRLF(s) - 1 = e - 2
    BY <1>1, <1>2, FirstLineEnd DEF s
  <2>2. Line = SubSeq(s, 1, FindCRLF(s) - 1)
    BY DEF Line, Before, s
  <2> QED  BY <1>8, <2>1, <2>2
<1>10. Alone(b)[o + e] = ReadLine(Alone(b)[o], Line)
  <2> DEFINE f == o + e
  <2>1. o \in 0..Len(b) /\ b \in Seq(Bytes) /\ (o = 0 \/ LineEnds(b, o))
    BY <1>6, <1>7
  <2>2. f \in (o + 1)..Len(b) /\ LineEnds(b, f) /\ \A r \in (o + 1)..(f - 1) : ~LineEnds(b, r)
    BY <1>8
  <2>3. Line = Between(b, o, f - 2)
    BY <1>9
  <2> HIDE DEF f
  <2>4. Alone(b)[f] = ReadLine(Alone(b)[o], Between(b, o, f - 2))
    BY <2>1, <2>2, AloneReadsLine
  <2> QED  BY <2>3, <2>4 DEF f
<1>11. TakeLine(input) = Retrieve(input, e)
  <2>1. input.reader \in Nat /\ FindCRLF(s) \in Nat
    BY <1>1, <1>2, FirstLineEnd DEF Sound
  <2>2. (input.reader + FindCRLF(s) + 1) - input.reader = e
    BY <2>1 DEF s
  <2> QED  BY <2>2 DEF TakeLine, RetrieveUntil, s
<1>12. Sound(TakeLine(input)) /\ Peek(TakeLine(input)) = Between(s, e, Len(s))
  <2>1. Len(s) = Readable(input)
    BY <1>2, PeekIsSlice DEF s
  <2> QED  BY <1>2, <1>3, <1>4, <1>11, <2>1, RetrieveDrops DEF s, Between
<1>13. Between(s, e, Len(s)) = Between(sent, Ends[k] + (o + e), received)
  <2> DEFINE d == Ends[k] + (o + e)
             n == Len(s)
  <2>1. s = Between(sent, P, received)
    BY DEF ParserAt, s
  <2>2. n = received - P /\ e <= n
    BY <1>1, <1>4
  <2>3. d = P + e
    BY <1>1, <1>3
  <2>4. sent \in Seq(Bytes) /\ received \in Nat /\ received <= Len(sent)
        /\ P \in Nat /\ P <= received /\ e \in Nat
    BY <1>1, <1>2, <1>3
  <2> HIDE DEF P, d, n
  <2>5. P + e <= received
    BY <2>2, <2>4
  <2>6. Between(Between(sent, P, received), e, n) = Between(sent, d, received)
    BY <2>2, <2>3, <2>4, <2>5, BetweenBehind
  <2> QED  BY <2>1, <2>6 DEF d, n
<1>14. Ends[k] + (o + e) <= received
  <2>1. Ends[k] \in Nat /\ received \in Nat /\ Len(s) = received - P
    BY <1>1
  <2> QED  BY <1>3, <1>4, <2>1
<1> QED  BY <1>3, <1>4, <1>5, <1>7, <1>8, <1>10, <1>12, <1>13, <1>14

\* At the line ends of a message before the last one the parser expects a
\* header, and at the last one it has the request, or has refused the line.
LEMMA MessageFacts ==
  ASSUME NEW m, IsMessage(m), NEW n, LineEnds(m.bytes, n)
  PROVE  /\ n # Len(m.bytes) => Alone(m.bytes)[n].state = "ExpectHeaders"
         /\ n = Len(m.bytes) /\ m.request = NoRequest
              => Alone(m.bytes)[n].state = "ExpectRequestLine"
         /\ n = Len(m.bytes) /\ m.request # NoRequest
              => Alone(m.bytes)[n] = [state |-> "GotAll", request |-> m.request]
<1> DEFINE size == Len(m.bytes)
           inner == {i \in 1..(size - 1) : LineEnds(m.bytes, i)}
<1>1. /\ m.bytes \in Seq(Bytes)
      /\ m.request = NoRequest => inner = {} /\ Alone(m.bytes)[size].state = "ExpectRequestLine"
      /\ m.request # NoRequest => /\ \A i \in inner : Alone(m.bytes)[i].state = "ExpectHeaders"
                                  /\ Alone(m.bytes)[size] = [state |-> "GotAll", request |-> m.request]
  BY DEF IsMessage
<1>2. n # size => n \in inner
  <2>1. size \in Nat /\ n \in 2..size
    BY <1>1 DEF LineEnds
  <2> HIDE DEF size
  <2>2. n # size => n \in 1..(size - 1)
    BY <2>1
  <2> QED  BY <2>2
<1> HIDE DEF inner
<1> QED  BY <1>1, <1>2

\* What is said of the messages stays while the client's messages stay.
LEMMA StreamStays ==
  ASSUME stream' = stream
  PROVE  /\ Ends' = Ends /\ StreamBytes' = StreamBytes
         /\ \A k : BytesOf(k)' = BytesOf(k) /\ IsServed(k)' = IsServed(k) /\ Rank(k)' = Rank(k)
<1>1. Ends' = Ends
  BY DEF Ends
<1>2. StreamBytes' = StreamBytes
  BY <1>1 DEF StreamBytes
<1>3. ASSUME NEW k  PROVE BytesOf(k)' = BytesOf(k) /\ IsServed(k)' = IsServed(k)
  BY DEF BytesOf, IsServed
<1>4. ASSUME NEW k  PROVE Rank(k)' = Rank(k)
  BY <1>3 DEF Rank
<1> QED  BY <1>1, <1>2, <1>3, <1>4

\* What a step has to show: where it leaves the parser.
LEMMA ParserMoves ==
  ASSUME ParserInv, stream' = stream, sent' = sent, received' \in 0..Len(sent),
         Sound(input'), NEW k \in 0..Len(stream), NEW o \in Nat,
         Ends[k] + o <= received', Peek(input') = Between(sent, Ends[k] + o, received'),
         Delivered(k)', Parsing(k, o)',
         pc' = "poll" /\ (\A j \in 1..Len(stream) : IsServed(j)) => FindCRLF(Peek(input')) = 0
  PROVE  ParserInv'
<1>1. /\ stream' \in Seq(Messages) /\ sent' = StreamBytes' /\ received' \in 0..Len(sent')
      /\ Sound(input)'
  BY StreamStays DEF ParserInv
<1>2. ParserAt(k, o)'
  BY StreamStays DEF ParserAt
<1>3. \E i \in 0..Len(stream'), j \in Nat : ParserAt(i, j)'
  BY <1>2
<1>4. (pc = "poll" /\ (\A i \in 1..Len(stream) : IsServed(i)) => ~HasLine)'
  <2>1. (\A i \in 1..Len(stream') : IsServed(i)') => \A i \in 1..Len(stream) : IsServed(i)
    BY StreamStays
  <2> QED  BY <2>1 DEF HasLine
<1> QED  BY <1>1, <1>3, <1>4 DEF ParserInv

LEMMA DeliveredStays ==
  ASSUME NEW k, Delivered(k), stream' = stream, called' = called
  PROVE  Delivered(k)'
BY StreamStays DEF Delivered

\* A malformed line is not delivered.
LEMMA DeliveredWithout ==
  ASSUME NEW k \in Nat, Delivered(k), stream' = stream, called' = called, ~IsServed(k + 1)
  PROVE  Delivered(k + 1)'
<1>1. Rank(k + 1) = Rank(k) /\ \A i \in 1..(k + 1) : i \in 1..k \/ i = k + 1
  BY RankFacts
<1>2. Delivered(k + 1)
  BY <1>1 DEF Delivered
<1> QED  BY <1>2, DeliveredStays

\* onRequest is handed the request of the message.
LEMMA DeliveredWith ==
  ASSUME NEW k \in Nat, Delivered(k), stream' = stream, IsServed(k + 1),
         called' = Append(called, stream[k + 1].request)
  PROVE  Delivered(k + 1)'
<1> DEFINE r == stream[k + 1].request
<1>1. /\ Rank(k) \in Nat /\ Rank(k + 1) = Rank(k) + 1
      /\ \A i \in 1..k : IsServed(i) => Rank(i) \in 1..Rank(k)
      /\ \A i \in 1..(k + 1) : i \in 1..k \/ i = k + 1
  <2>1. \A i \in 1..(k + 1) : i \in 1..k \/ i = k + 1
    OBVIOUS
  <2>2. /\ Rank(k) \in Nat /\ (IsServed(k + 1) => Rank(k + 1) = Rank(k) + 1)
        /\ \A i \in 1..k : IsServed(i) => Rank(i) \in 1..Rank(k)
    BY RankFacts, Zenon
  <2> QED  BY <2>1, <2>2
<1>2. IsSequence(called) /\ Len(called) = Rank(k)
      /\ \A i \in 1..k : IsServed(i) => called[Rank(i)] = stream[i].request
  BY DEF Delivered
<1> HIDE DEF r
<1>3. /\ IsSequence(called') /\ Len(called') = Rank(k) + 1
      /\ \A i \in 1..Rank(k) : called'[i] = called[i]
      /\ called'[Rank(k) + 1] = r
  BY <1>2, SequenceGrows DEF r
<1>4. ASSUME NEW i \in 1..(k + 1), IsServed(i)  PROVE called'[Rank(i)] = stream[i].request
  <2>1. CASE i \in 1..k
    BY <1>1, <1>2, <1>3, <1>4, <2>1
  <2>2. CASE i = k + 1
    BY <1>1, <1>3, <2>2 DEF r
  <2> QED  BY <1>1, <2>1, <2>2
<1>5. /\ \A i : IsServed(i)' = IsServed(i) /\ Rank(i)' = Rank(i)
  BY StreamStays
<1> QED  BY <1>1, <1>3, <1>4, <1>5 DEF Delivered

LEMMA HttpInitParses == HttpInit => ParserInv
<1> SUFFICES ASSUME HttpInit  PROVE ParserInv
  OBVIOUS
<1>1. stream \in Seq(Messages)
  <2>1. PICK n \in 1..MaxMessages : stream \in [1..n -> Messages]
    BY DEF HttpInit
  <2> QED  BY <2>1
<1>2. /\ Len(stream) \in Nat /\ Ends[0] = 0
      /\ sent \in Seq(Bytes) /\ Len(sent) \in Nat
  BY <1>1, StreamFacts, EndsFacts, StreamIsBytes DEF HttpInit
<1>3. received = 0 /\ Sound(input) /\ Peek(input) = <<>>
  BY NewIsEmpty DEF HttpInit
<1>4. Between(sent, 0, 0) = <<>>
  <2>1. Between(sent, 0, 0) \in Seq(Bytes) /\ Len(Between(sent, 0, 0)) = 0
    BY <1>2, BetweenFacts
  <2> QED  BY <2>1, EmptySeq
<1>5. ParserAt(0, 0)
  <2>1. Delivered(0)
    <3>1. IsSequence(<<>>) /\ Len(<<>>) = 0
      BY EmptySeq DEF IsSequence
    <3>2. Rank(0) = 0
      BY RankFacts
    <3> QED  BY <3>1, <3>2 DEF HttpInit, Delivered
  <2>2. Parsing(0, 0)
    BY DEF HttpInit, Parsing, NewContext, NewRequest, Fresh
  <2> QED  BY <1>2, <1>3, <1>4, <2>1, <2>2 DEF ParserAt
<1>6. ~HasLine
  <2>1. <<>> \in Seq(Bytes) /\ Len(<<>>) = 0
    BY EmptySeq
  <2>2. \A n : ~LineEnds(<<>>, n)
    BY <2>1 DEF LineEnds
  <2> QED  BY <1>3, <2>1, <2>2, FirstLineEnd DEF HasLine
<1>7. 0 \in 0..Len(stream) /\ 0 \in 0..Len(sent)
  BY <1>2
<1>8. sent = StreamBytes
  BY DEF HttpInit
<1> QED  BY <1>1, <1>3, <1>5, <1>6, <1>7, <1>8 DEF ParserInv

\* The place of the parser.
LEMMA SomeParserAt ==
  ASSUME ParserInv
  PROVE  \E k \in 0..Len(stream) : \E o \in Nat : ParserAt(k, o)
BY DEF ParserInv

\* Steps that neither read nor parse.
LEMMA IdleKeeps ==
  ASSUME ParserInv, UNCHANGED <<stream, sent, received, input, context, called>>,
         (pc = "request") <=> (pc' = "request"),
         pc' = "poll" => pc = "poll" \/ ~HasLine
  PROVE  ParserInv'
<1>1. PICK k \in 0..Len(stream) : \E o \in Nat : ParserAt(k, o)
  BY SomeParserAt
<1>2. PICK o \in Nat : ParserAt(k, o)
  BY <1>1
<1>3. Delivered(k)'
  BY <1>2, DeliveredStays DEF ParserAt
<1>4. Parsing(k, o)'
  BY <1>2, StreamStays DEF ParserAt, Parsing
<1>5. received' \in 0..Len(sent) /\ Sound(input')
  BY DEF ParserInv
<1>6. Ends[k] + o <= received' /\ Peek(input') = Between(sent, Ends[k] + o, received')
  BY <1>2 DEF ParserAt
<1>7. pc' = "poll" /\ (\A j \in 1..Len(stream) : IsServed(j)) => FindCRLF(Peek(input')) = 0
  BY DEF ParserInv, HasLine
<1> QED  BY <1>3, <1>4, <1>5, <1>6, <1>7, ParserMoves

\* readFd puts the next bytes behind those that are buffered.
LEMMA ReceiveKeeps ==
  ASSUME ParserInv, NEW n \in 1..Len(sent), Receive(n)
  PROVE  ParserInv'
<1>1. PICK k \in 0..Len(stream) : \E o \in Nat : ParserAt(k, o)
  BY SomeParserAt
<1>2. PICK o \in Nat : ParserAt(k, o)
  BY <1>1
<1> DEFINE P == Ends[k] + o
           r == received + n
           s == Between(sent, received, r)
<1>3. /\ Ends[k] \in Nat /\ received \in Nat /\ sent \in Seq(Bytes) /\ Len(sent) \in Nat
      /\ received <= Len(sent) /\ Peek(input) \in Seq(Bytes)
  BY <1>2, BufferShows
<1>4. /\ P \in Nat /\ P <= received /\ Peek(input) = Between(sent, P, received)
  BY <1>2, <1>3 DEF ParserAt
<1>5. r \in Nat /\ received <= r /\ r <= Len(sent) /\ P <= r
  BY <1>3, <1>4 DEF Receive
<1>6. /\ input' = ReadFd(input, s) /\ received' = r /\ pc = "poll" /\ pc' = "loop"
      /\ UNCHANGED <<stream, sent, context, called>>
  BY DEF Receive, Between
<1> HIDE DEF r
<1>7. s \in Seq(Cells)
  <2>1. s \in Seq(Bytes)
    BY <1>3, <1>5, BetweenFacts
  <2> HIDE DEF s
  <2>2. Bytes \subseteq Cells
    BY DEF Cells
  <2> QED  BY <2>1, <2>2, SeqMonotonic
<1>8. Sound(input') /\ Peek(input') = Peek(input) \o s
  <2>1. Sound(input)
    BY DEF ParserInv
  <2> HIDE DEF s
  <2> QED  BY <1>6, <1>7, <2>1, ReadAppends
<1> HIDE DEF P
<1>9. Between(sent, P, received) \o Between(sent, received, r) = Between(sent, P, r)
  <2> DEFINE m == P + 1
  <2>1. m \in 1..(Len(sent) + 1) /\ received \in (m - 1)..Len(sent) /\ r \in received..Len(sent)
    BY <1>3, <1>4, <1>5
  <2>2. SubSeq(sent, m, received) \o SubSeq(sent, received + 1, r) = SubSeq(sent, m, r)
    BY <1>3, <2>1, ConcatAdjacentSubSeq
  <2> QED  BY <2>2 DEF Between
<1>10. Peek(input') = Between(sent, P, r)
  BY <1>4, <1>8, <1>9
<1>11. Delivered(k)'
  BY <1>2, <1>6, DeliveredStays DEF ParserAt
<1>12. Parsing(k, o)'
  BY <1>2, <1>6, StreamStays DEF ParserAt, Parsing
<1>13. received' \in 0..Len(sent)
  BY <1>3, <1>5, <1>6
<1> HIDE DEF s
<1> QED  BY <1>5, <1>6, <1>8, <1>10, <1>11, <1>12, <1>13, ParserMoves DEF P

\* A line that leaves the parser inside the message.
LEMMA LineInside ==
  ASSUME ParserInv, pc # "request", HasLine, UNCHANGED <<stream, sent, received, called>>,
         NEW k \in 0..Len(stream), NEW o \in Nat, ParserAt(k, o),
         NEW n \in Nat, n = o + (FindCRLF(Peek(input)) + 1), NEW b, b = BytesOf(k + 1), n < Len(b),
         input' = TakeLine(input), context' = Alone(b)[n], pc' \notin {"request", "poll"}
  PROVE  ParserInv'
<1>1. /\ k < Len(stream) /\ LineEnds(b, n) /\ Ends[k] + n <= received
      /\ Sound(TakeLine(input)) /\ Peek(TakeLine(input)) = Between(sent, Ends[k] + n, received)
  BY LineOfMessage
<1>2. Delivered(k)'
  BY DeliveredStays DEF ParserAt
<1>3. BytesOf(k + 1)' = b
  BY StreamStays
<1>4. Parsing(k, n)'
  BY <1>1, <1>3 DEF Parsing
<1>5. received' \in 0..Len(sent)
  BY DEF ParserInv
<1> QED  BY <1>1, <1>2, <1>4, <1>5, ParserMoves

\* The first line of a message: the request line, or a malformed one.
LEMMA RequestLineKeeps ==
  ASSUME ParserInv, RequestLine
  PROVE  ParserInv'
<1>1. PICK k \in 0..Len(stream) : \E o \in Nat : ParserAt(k, o)
  BY SomeParserAt
<1>2. PICK o \in Nat : ParserAt(k, o)
  BY <1>1
<1> DEFINE e == FindCRLF(Peek(input)) + 1
           b == BytesOf(k + 1)
           m == stream[k + 1]
<1>3. /\ pc = "parse" /\ HasLine /\ context.state = "ExpectRequestLine"
      /\ context' = ReadLine(context, Line)
      /\ pc' = IF context'.state = "ExpectHeaders" THEN pc ELSE "poll"
      /\ input' = TakeLine(input)
      /\ UNCHANGED <<stream, sent, received, called>>
  BY DEF RequestLine
<1>4. /\ k < Len(stream) /\ e \in Nat /\ e >= 2
      /\ o \in 0..(Len(b) - 1) /\ o + e \in (o + 1)..Len(b) /\ LineEnds(b, o + e)
      /\ Ends[k] + (o + e) <= received
      /\ Alone(b)[o + e] = ReadLine(Alone(b)[o], Line)
      /\ Sound(TakeLine(input))
      /\ Peek(TakeLine(input)) = Between(sent, Ends[k] + (o + e), received)
  BY <1>2, <1>3, LineOfMessage
<1>5. /\ k + 1 \in 1..Len(stream) /\ IsMessage(m) /\ b \in Seq(Bytes) /\ Len(b) \in Nat
      /\ Len(b) >= 2 /\ LineEnds(b, Len(b)) /\ Ends[k + 1] = Ends[k] + Len(b)
      /\ Ends[k] \in Nat
  BY <1>2, <1>4, BufferShows
<1>6. ASSUME NEW n, LineEnds(b, n)
      PROVE  /\ n # Len(b) => Alone(b)[n].state = "ExpectHeaders"
             /\ n = Len(b) => \/ Alone(b)[n].state = "GotAll"
                              \/ m.request = NoRequest /\ Alone(b)[n].state = "ExpectRequestLine"
  <2>1. IsMessage(m) /\ b = m.bytes
    BY <1>5 DEF BytesOf
  <2> HIDE DEF b, m
  <2>2. LineEnds(m.bytes, n)
    BY <1>6, <2>1
  <2>3. /\ n # Len(m.bytes) => Alone(m.bytes)[n].state = "ExpectHeaders"
        /\ n = Len(m.bytes) /\ m.request = NoRequest
             => Alone(m.bytes)[n].state = "ExpectRequestLine"
        /\ n = Len(m.bytes) /\ m.request # NoRequest
             => Alone(m.bytes)[n] = [state |-> "GotAll", request |-> m.request]
    BY <2>1, <2>2, MessageFacts, Zenon
  <2>4. [state |-> "GotAll", request |-> m.request].state = "GotAll"
    OBVIOUS
  <2> QED  BY <2>1, <2>3, <2>4
<1> HIDE DEF e, b, m
<1>7. /\ o = 0
      /\ context = [state |-> "ExpectRequestLine", request |-> context.request]
      /\ Fresh(context.request)
  <2>1. CASE o < Len(b) /\ LineEnds(b, o) /\ context = Alone(b)[o]
    <3>1. Alone(b)[o].state = "ExpectHeaders"
      BY <1>5, <1>6, <2>1
    <3> QED  BY <1>3, <2>1, <3>1
  <2> QED  BY <1>2, <1>3, <2>1 DEF ParserAt, Parsing, b
<1> DEFINE n == ReadLine(NewContext, Line)
<1>8. Alone(b)[e] = n /\ LineEnds(b, e) /\ e \in 1..Len(b)
  <2>1. o + e = e
    BY <1>4, <1>7
  <2>2. Alone(b)[0] = NewContext
    BY <1>5, AloneFacts
  <2> QED  BY <1>4, <1>7, <2>1, <2>2
<1>9. /\ context'.state = n.state
      /\ \/ n.state = "ExpectHeaders" /\ context' = n
         \/ /\ n.state = "ExpectRequestLine" /\ Fresh(context'.request)
            /\ context' = [state |-> "ExpectRequestLine", request |-> context'.request]
  BY <1>3, <1>7, FreshReads
<1> HIDE DEF n
<1>10. CASE n.state = "ExpectHeaders"
  <2>1. e # Len(b)
    BY <1>6, <1>8, <1>10
  <2>2. e < Len(b) /\ o + e = e
    BY <1>4, <1>5, <1>7, <1>8, <2>1
  <2>3. context' = Alone(b)[e] /\ pc' = "parse"
    BY <1>3, <1>8, <1>9, <1>10
  <2> QED  BY <1>2, <1>3, <1>4, <2>2, <2>3, LineInside DEF e, b
<1>11. CASE n.state = "ExpectRequestLine"
  <2>1. e = Len(b) /\ m.request = NoRequest
    BY <1>6, <1>8, <1>11
  <2>2. ~IsServed(k + 1)
    BY <2>1 DEF IsServed, m
  <2>3. Delivered(k + 1)'
    BY <1>2, <1>3, <2>2, DeliveredWithout DEF ParserAt
  <2>4. Parsing(k + 1, 0)'
    BY <1>3, <1>9, <1>11 DEF Parsing
  <2>5. Ends[k + 1] + 0 = Ends[k] + (o + e)
    BY <1>4, <1>5, <1>7, <2>1
  <2>6. received' \in 0..Len(sent)
    BY <1>3 DEF ParserInv
  <2>7. k + 1 \in 0..Len(stream)
    BY <1>5
  <2>8. ~(\A j \in 1..Len(stream) : IsServed(j))
    BY <1>5, <2>2
  <2> DEFINE q == k + 1
  <2> HIDE DEF q
  <2>9. /\ q \in 0..Len(stream) /\ Delivered(q)' /\ Parsing(q, 0)'
        /\ Ends[q] + 0 <= received' /\ Peek(input') = Between(sent, Ends[q] + 0, received')
    BY <1>3, <1>4, <2>3, <2>4, <2>5, <2>7 DEF q
  <2> QED  BY <1>3, <1>4, <2>6, <2>8, <2>9, ParserMoves
<1> QED  BY <1>9, <1>10, <1>11

\* Inside a message the context is that of a parser that has this message alone.
LEMMA InsideMessage ==
  ASSUME ParserInv, pc # "request", HasLine, context.state = "ExpectHeaders",
         NEW k \in 0..Len(stream), NEW o \in Nat, ParserAt(k, o)
  PROVE  LET b == BytesOf(k + 1)
             n == o + (FindCRLF(Peek(input)) + 1) IN
         /\ k < Len(stream) /\ n \in Nat /\ n <= Len(b) /\ Len(b) \in Nat
         /\ Ends[k] + n <= received
         /\ Alone(b)[n] = ReadLine(context, Line)
         /\ n # Len(b) => Alone(b)[n].state = "ExpectHeaders"
         /\ n = Len(b) => \/ Alone(b)[n].state = "ExpectRequestLine"
                          \/ /\ IsServed(k + 1)
                             /\ Alone(b)[n] = [state |-> "GotAll", request |-> stream[k + 1].request]
         /\ Sound(TakeLine(input)) /\ Peek(TakeLine(input)) = Between(sent, Ends[k] + n, received)
<1> DEFINE e == FindCRLF(Peek(input)) + 1
           b == BytesOf(k + 1)
           m == stream[k + 1]
           n == o + e
<1>1. /\ k < Len(stream) /\ e \in Nat
      /\ n \in (o + 1)..Len(b) /\ LineEnds(b, n) /\ Ends[k] + n <= received
      /\ Alone(b)[n] = ReadLine(Alone(b)[o], Line)
      /\ Sound(TakeLine(input)) /\ Peek(TakeLine(input)) = Between(sent, Ends[k] + n, received)
  BY LineOfMessage
<1>2. IsMessage(m) /\ b = m.bytes /\ Len(b) \in Nat
  BY <1>1, BufferShows DEF BytesOf
<1>3. n \in Nat /\ n <= Len(b)
  BY <1>1, <1>2
<1>4. context = Alone(b)[o]
  <2>1. context # [state |-> "ExpectRequestLine", request |-> context.request]
    OBVIOUS
  <2> QED  BY <2>1 DEF ParserAt, Parsing
<1> HIDE DEF n, b
<1>5. /\ n # Len(b) => Alone(b)[n].state = "ExpectHeaders"
      /\ n = Len(b) => \/ Alone(b)[n].state = "ExpectRequestLine"
                       \/ /\ IsServed(k + 1)
                          /\ Alone(b)[n] = [state |-> "GotAll", request |-> m.request]
  BY <1>1, <1>2, MessageFacts DEF IsServed
<1> QED  BY <1>1, <1>2, <1>3, <1>4, <1>5 DEF n, b

LEMMA HeaderLineKeeps ==
  ASSUME ParserInv, HeaderLine
  PROVE  ParserInv'
<1>1. PICK k \in 0..Len(stream) : \E o \in Nat : ParserAt(k, o)
  BY SomeParserAt
<1>2. PICK o \in Nat : ParserAt(k, o)
  BY <1>1
<1> DEFINE b == BytesOf(k + 1)
           n == o + (FindCRLF(Peek(input)) + 1)
<1>3. /\ pc = "parse" /\ HasLine /\ context.state = "ExpectHeaders" /\ Line # <<>>
      /\ context' = ReadLine(context, Line) /\ input' = TakeLine(input)
      /\ UNCHANGED <<stream, sent, received, pc, called>>
  BY DEF HeaderLine
<1>4. ReadLine(context, Line).state = "ExpectHeaders"
  BY <1>3 DEF ReadLine
<1>5. /\ n \in Nat /\ n <= Len(b) /\ Len(b) \in Nat /\ Alone(b)[n] = ReadLine(context, Line)
      /\ n = Len(b) => \/ Alone(b)[n].state = "ExpectRequestLine"
                       \/ Alone(b)[n] = [state |-> "GotAll", request |-> stream[k + 1].request]
  BY <1>2, <1>3, InsideMessage
<1> HIDE DEF n, b
<1>6. n < Len(b)
  BY <1>4, <1>5
<1> QED  BY <1>2, <1>3, <1>5, <1>6, LineInside DEF n, b

LEMMA EmptyLineKeeps ==
  ASSUME ParserInv, EmptyLine
  PROVE  ParserInv'
<1>1. PICK k \in 0..Len(stream) : \E o \in Nat : ParserAt(k, o)
  BY SomeParserAt
<1>2. PICK o \in Nat : ParserAt(k, o)
  BY <1>1
<1> DEFINE b == BytesOf(k + 1)
<1>3. PICK n : n = o + (FindCRLF(Peek(input)) + 1)
  OBVIOUS
<1>4. /\ pc = "parse" /\ HasLine /\ context.state = "ExpectHeaders" /\ Line = <<>>
      /\ context' = ReadLine(context, Line) /\ input' = TakeLine(input) /\ pc' = "request"
      /\ UNCHANGED <<stream, sent, received, called>>
  BY DEF EmptyLine
<1>5. ReadLine(context, Line).state = "GotAll"
  BY <1>4 DEF ReadLine
<1>6. /\ k < Len(stream) /\ n \in Nat /\ n <= Len(b) /\ Len(b) \in Nat /\ Ends[k] + n <= received
      /\ Alone(b)[n] = ReadLine(context, Line)
      /\ n # Len(b) => Alone(b)[n].state = "ExpectHeaders"
      /\ n = Len(b) => \/ Alone(b)[n].state = "ExpectRequestLine"
                       \/ /\ IsServed(k + 1)
                          /\ Alone(b)[n] = [state |-> "GotAll", request |-> stream[k + 1].request]
      /\ Sound(TakeLine(input)) /\ Peek(TakeLine(input)) = Between(sent, Ends[k] + n, received)
  BY <1>2, <1>3, <1>4, InsideMessage
<1> HIDE DEF b
<1>7. n = Len(b) /\ IsServed(k + 1)
      /\ context' = [state |-> "GotAll", request |-> stream[k + 1].request]
  BY <1>4, <1>5, <1>6
<1>8. Parsing(k, n)'
  <2>1. IsServed(k + 1)' = IsServed(k + 1) /\ BytesOf(k + 1)' = b
    BY <1>4, StreamStays DEF b
  <2> QED  BY <1>4, <1>6, <1>7, <2>1 DEF Parsing
<1>9. Delivered(k)'
  BY <1>2, <1>4, DeliveredStays DEF ParserAt
<1>10. received' \in 0..Len(sent)
  BY <1>4 DEF ParserInv
<1>11. /\ n \in Nat /\ Ends[k] + n <= received' /\ Sound(input')
       /\ Peek(input') = Between(sent, Ends[k] + n, received')
       /\ stream' = stream /\ sent' = sent /\ pc' # "poll"
  BY <1>4, <1>6
<1> QED  BY <1>8, <1>9, <1>10, <1>11, ParserMoves

\* onRequest, and the context is a new one.
LEMMA OnRequestKeeps ==
  ASSUME ParserInv, OnRequest
  PROVE  ParserInv'
<1>1. PICK k \in 0..Len(stream) : \E o \in Nat : ParserAt(k, o)
  BY SomeParserAt
<1>2. PICK o \in Nat : ParserAt(k, o)
  BY <1>1
<1>3. /\ pc = "request" /\ called' = Append(called, context.request) /\ context' = NewContext
      /\ pc' = "loop" /\ UNCHANGED <<stream, sent, received, input>>
  BY DEF OnRequest, Reset
<1>4. /\ k < Len(stream) /\ IsServed(k + 1) /\ o = Len(BytesOf(k + 1))
      /\ context.request = stream[k + 1].request
  BY <1>2, <1>3 DEF ParserAt, Parsing
<1>5. k + 1 \in 0..Len(stream) /\ Ends[k + 1] = Ends[k] + o /\ Ends[k] + o \in Nat
  <2>1. Len(stream) \in Nat /\ Ends[k] \in Nat /\ k + 1 \in 1..Len(stream)
        /\ Ends[k + 1] = Ends[k] + Len(BytesOf(k + 1))
    BY <1>2, <1>4, BufferShows
  <2> QED  BY <1>4, <2>1
<1>6. Delivered(k + 1)'
  BY <1>2, <1>3, <1>4, DeliveredWith DEF ParserAt
<1>7. Parsing(k + 1, 0)'
  BY <1>3 DEF Parsing, NewContext, NewRequest, Fresh
<1>8. received' \in 0..Len(sent) /\ Sound(input')
  BY <1>3 DEF ParserInv
<1> DEFINE q == k + 1
<1>9. Ends[q] + 0 = Ends[k] + o
  BY <1>5
<1>10. /\ q \in 0..Len(stream) /\ Delivered(q)' /\ Parsing(q, 0)'
       /\ Ends[q] + 0 <= received' /\ Peek(input') = Between(sent, Ends[q] + 0, received')
  BY <1>2, <1>3, <1>5, <1>6, <1>7, <1>9 DEF ParserAt
<1> HIDE DEF q
<1> QED  BY <1>3, <1>8, <1>10, ParserMoves

LEMMA HttpStepParses == ParserInv /\ [HttpNext]_httpVars => ParserInv'
<1> SUFFICES ASSUME ParserInv, [HttpNext]_httpVars  PROVE ParserInv'
  OBVIOUS
<1>1. CASE \E n \in 1..Len(sent) : Receive(n)
  BY <1>1, ReceiveKeeps
<1>2. CASE Loop
  <2>1. /\ pc = "loop" /\ pc' = IF Readable(input) > 0 THEN "parse" ELSE "poll"
        /\ UNCHANGED <<stream, sent, received, input, context, called>>
    BY <1>2 DEF Loop
  <2>2. ASSUME ~(Readable(input) > 0)  PROVE ~HasLine
    <3>1. Sound(input)
      BY DEF ParserInv
    <3>2. Len(Peek(input)) = Readable(input) /\ Readable(input) \in Nat
      BY <3>1, PeekIsSlice
    <3>3. Len(Peek(input)) = 0
      BY <2>2, <3>2
    <3>4. \A n : ~LineEnds(Peek(input), n)
      BY <3>3 DEF LineEnds
    <3>5. Peek(input) \in Seq(Bytes)
      BY SomeParserAt, BufferShows
    <3> QED  BY <3>4, <3>5, FirstLineEnd DEF HasLine
  <2> QED  BY <2>1, <2>2, IdleKeeps
<1>3. CASE NeedMore
  BY <1>3, IdleKeeps DEF NeedMore
<1>4. CASE RequestLine  BY <1>4, RequestLineKeeps
<1>5. CASE HeaderLine  BY <1>5, HeaderLineKeeps
<1>6. CASE EmptyLine  BY <1>6, EmptyLineKeeps
<1>7. CASE OnRequest  BY <1>7, OnRequestKeeps
<1>8. CASE UNCHANGED httpVars
  BY <1>8, IdleKeeps DEF httpVars
<1> QED  BY <1>1, <1>2, <1>3, <1>4, <1>5, <1>6, <1>7, <1>8 DEF HttpNext

\* Where the parser is says what was served; and when onMessage has returned,
\* the end of the next message has not been read, or a line would be found.
LEMMA ParserServes == ParserInv => ServedAsSent
<1> SUFFICES ASSUME ParserInv  PROVE ServedAsSent
  OBVIOUS
<1>1. PICK k \in 0..Len(stream) : \E o \in Nat : ParserAt(k, o)
  BY SomeParserAt
<1>2. PICK o \in Nat : ParserAt(k, o)
  BY <1>1
<1>3. /\ Len(stream) \in Nat /\ Ends[k] \in Nat /\ received \in Nat
      /\ Peek(input) \in Seq(Bytes) /\ Len(Peek(input)) = received - (Ends[k] + o)
  BY <1>2, BufferShows
<1>4. Ends[k] <= received
  BY <1>2, <1>3 DEF ParserAt
<1>5. /\ Len(called) = Rank(k)
      /\ \A i \in 1..k : IsServed(i) => called[Rank(i)] = stream[i].request
  BY <1>2 DEF ParserAt, Delivered
<1>6. ASSUME pc = "poll", \A i \in 1..Len(stream) : IsServed(i), NEW j \in (k + 1)..Len(stream)
      PROVE  received < Ends[j]
  <2> DEFINE b == BytesOf(k + 1)
             s == Peek(input)
  <2>1. stream \in Seq(Messages) /\ k < Len(stream) /\ k + 1 \in 0..Len(stream)
        /\ j \in 0..Len(stream) /\ k + 1 <= j
    BY <1>3 DEF ParserInv
  <2>2. Ends[k + 1] <= Ends[j] /\ Ends[k + 1] \in Nat /\ Ends[j] \in Nat
    BY <2>1, EndsGrow
  <2>3. /\ b \in Seq(Bytes) /\ Len(b) \in Nat /\ Len(b) >= 2 /\ LineEnds(b, Len(b))
        /\ Ends[k + 1] = Ends[k] + Len(b) /\ Shows(s, b, o)
    BY <1>2, <2>1, BufferShows
  <2>4. (o = 0 \/ LineEnds(b, o)) /\ o <= Len(b) - 1
    BY <1>2, <1>6, <2>3 DEF ParserAt, Parsing
  <2> HIDE DEF b, s
  <2>5. SUFFICES ASSUME Ends[k + 1] <= received  PROVE FALSE
    BY <1>3, <2>2
  <2> DEFINE l == Len(b)
  <2>6. l \in Nat /\ o \in 0..(l - 1) /\ l \in (o + 1)..l /\ l - o <= Len(s)
    <3>1. l \in Nat /\ o <= l - 1 /\ Ends[k] + l <= received /\ Len(s) = received - (Ends[k] + o)
      BY <1>3, <2>3, <2>4, <2>5 DEF s
    <3> HIDE DEF l
    <3> QED  BY <1>3, <3>1
  <2>7. LineEnds(s, l - o)
    BY <1>3, <2>3, <2>4, <2>6, WindowLineEnds DEF s
  <2>8. l - o \in Nat
    BY <2>6
  <2>9. HasLine
    BY <1>3, <2>7, <2>8, FirstLineEnd DEF HasLine, s
  <2> QED  BY <1>6, <2>9 DEF ParserInv
<1> QED  BY <1>4, <1>5, <1>6 DEF ServedAsSent

(* However the bytes are cut into reads, the requests onRequest sees are   *)
(* those of the messages, in order and each complete one.                  *)
THEOREM RequestsAreServedAsSent == HttpSpec => []ServedAsSent
BY HttpInitParses, HttpStepParses, ParserServes, PTL DEF HttpSpec
=============================================================================
