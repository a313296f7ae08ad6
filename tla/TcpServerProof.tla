--------------------------- MODULE TcpServerProof ---------------------------
(***************************************************************************)
(* What TcpServer promises for any connections, descriptors and number of  *)
(* threads: no assertion fails while the server lives, the pollers know    *)
(* only living channels, and the pool's loops get their share.             *)
(***************************************************************************)
EXTENDS TcpServer, FiniteSetTheorems, TLAPS

\* The functors that loop l has not run, by their place: first those left in
\* its batch, then the pending ones.
Due(l) == (ran[l] + 1)..(Len(batch[l]) + Len(pending[l]))
TaskAt(l, k) == IF k <= Len(batch[l]) THEN batch[l][k] ELSE pending[l][k - Len(batch[l])]
Waiting(l, t) == \E k \in Due(l) : TaskAt(l, k) = t

\* A connection has one functor to be run, in one place.
OnePlace ==
  \A l, m \in Loops : \A j \in Due(l), k \in Due(m) :
    TaskAt(l, j).conn = TaskAt(m, k).conn => l = m /\ j = k

\* What a channel looks like in each state of its connection.
OpenChannel   == EnableReading(NewChannel)
ClosedChannel == DisableAll(OpenChannel)
ChannelFits(r) ==
  \/ r.state = "Connecting" /\ r.ch = NewChannel
  \/ r.state = "Connected" /\ r.ch = OpenChannel
  \/ r.state = "Disconnected" /\ r.ch \in {ClosedChannel, NewChannel}

\* The types, part by part.  Nothing is made before start(), and references are
\* to connections that are not deleted.
SimpleOK ==
  /\ server \in {"new", "started", "gone"}
  /\ numThreads \in 0..MaxThreads
  /\ nextLoop \in Nat /\ (nextLoop = 0 \/ nextLoop < numThreads)
  /\ nextConnId \in Nat
  /\ ended \subseteq 1..MaxThreads
  /\ died \in BOOLEAN

ConnsOK == Made \subseteq Conns /\ conn \in [Made -> Connection]

MadeOK ==
  /\ IsFiniteSet(Made)
  /\ server = "new" => Made = {} /\ nextLoop = 0
  /\ backlog \subseteq Conns /\ backlog \intersect Made = {}
  /\ freed \subseteq Made
  /\ \A c \in Made : ChannelFits(conn[c])

TableOK ==
  /\ DOMAIN table \subseteq Nat /\ table \in [DOMAIN table -> Made]
  /\ \A k \in DOMAIN table : table[k] \notin freed

QueuesOK ==
  /\ pending \in [Loops -> Seq(Tasks)] /\ batch \in [Loops -> Seq(Tasks)]
  /\ ran \in [Loops -> Nat]
  /\ \A l \in Loops : ran[l] <= Len(batch[l])

\* A remove functor is for a connection of another loop than the server's.
Refers(l, t) ==
  /\ t.conn \in Made \ freed
  /\ t.what = "remove" => l = Base /\ conn[t.conn].loop # Base

RefsOK == \A l \in Loops, t \in Tasks : Waiting(l, t) => Refers(l, t)

TypeInv == SimpleOK /\ ConnsOK /\ MadeOK /\ TableOK /\ QueuesOK /\ RefsOK

\* The life of a connection while the server lives: a functor waits in the
\* loop it is for, at the stage it is for; the table has every connection
\* until its close; and a registered channel's connection is in the table or
\* in a functor that waits.
InTable(c) == conn[c].name \in DOMAIN table /\ table[conn[c].name] = c

IsDue(l, t) ==
  LET c == t.conn IN
  \/ t.what = "establish" /\ l = conn[c].loop /\ conn[c].state = "Connecting"
  \/ /\ t.what = "remove"
     /\ conn[c].state = "Disconnected" /\ conn[c].ch = ClosedChannel /\ InTable(c)
  \/ /\ t.what = "destroy" /\ l = conn[c].loop
     /\ conn[c].state = "Disconnected" /\ conn[c].ch = ClosedChannel /\ ~InTable(c)

LifeOf(c) ==
  /\ \A l \in Loops, t \in Tasks : t.conn = c /\ Waiting(l, t) => IsDue(l, t)
  /\ conn[c].state # "Disconnected" => InTable(c)
  /\ conn[c].ch.added => InTable(c) \/ \E l \in Loops, t \in Tasks : t.conn = c /\ Waiting(l, t)

NamesInv == \A k \in DOMAIN table : k < nextConnId /\ conn[table[k]].name = k
FdsDiffer == \A c, d \in Made \ freed : conn[c].fd = conn[d].fd => c = d

LifeInv == Alive /\ OnePlace /\ (\A c \in Made \ freed : LifeOf(c)) /\ NamesInv /\ FdsDiffer

ServerInv == server # "gone" => LifeInv

\* The loops before next_ have been given one connection more than the last.
ShareInv ==
  \A l \in 1..numThreads : Given(l) = Given(numThreads) + IF l <= nextLoop THEN 1 ELSE 0

-----------------------------------------------------------------------------
(* The queues.                                                             *)

\* The functors are where they were, n(l) places further on in each loop.
Shifted(n) ==
  /\ n \in [Loops -> Nat]
  /\ \A l \in Loops : \A k \in Due(l)' : k + n[l] \in Due(l) /\ TaskAt(l, k)' = TaskAt(l, k + n[l])
  /\ \A l \in Loops : \A k \in Due(l) : k - n[l] \in Due(l)' /\ TaskAt(l, k - n[l])' = TaskAt(l, k)

WaitSame ==
  /\ \A l \in Loops, t \in Tasks : Waiting(l, t)' <=> Waiting(l, t)
  /\ OnePlace => OnePlace'

LEMMA ShiftedWait == ASSUME NEW n, Shifted(n), QueuesOK, QueuesOK' PROVE WaitSame
<1>1. \A l \in Loops : n[l] \in Nat /\ Due(l) \subseteq Int /\ Due(l)' \subseteq Int
  BY DEF Shifted, Due, QueuesOK
<1>2. ASSUME NEW l \in Loops, NEW t \in Tasks PROVE Waiting(l, t)' <=> Waiting(l, t)
  <2>1. ASSUME NEW k \in Due(l)', TaskAt(l, k)' = t PROVE Waiting(l, t)
    BY <2>1, Zenon DEF Shifted, Waiting
  <2>2. ASSUME NEW k \in Due(l), TaskAt(l, k) = t PROVE Waiting(l, t)'
    <3>1. k - n[l] \in Due(l)' /\ TaskAt(l, k - n[l])' = t
      BY <2>2, Zenon DEF Shifted
    <3> QED  BY <3>1, Zenon DEF Waiting
  <2> QED  BY <2>1, <2>2, Zenon DEF Waiting
<1>3. ASSUME OnePlace, NEW l \in Loops, NEW m \in Loops, NEW j \in Due(l)', NEW k \in Due(m)',
             TaskAt(l, j).conn' = TaskAt(m, k).conn'
      PROVE  l = m /\ j = k
  <2>1. /\ j + n[l] \in Due(l) /\ TaskAt(l, j)' = TaskAt(l, j + n[l])
        /\ k + n[m] \in Due(m) /\ TaskAt(m, k)' = TaskAt(m, k + n[m])
    BY Zenon DEF Shifted
  <2>2. TaskAt(l, j + n[l]).conn = TaskAt(m, k + n[m]).conn
    BY <1>3, <2>1, Zenon
  <2>3. l = m /\ j + n[l] = k + n[m]
    BY <1>3, <2>1, <2>2, Zenon DEF OnePlace
  <2> QED  BY <1>1, <2>3
<1>4. OnePlace => OnePlace'
  BY <1>3, Zenon DEF OnePlace
<1> QED  BY <1>2, <1>4, Zenon DEF WaitSame

\* A step that leaves the queues alone.
LEMMA SameQueues == ASSUME UNCHANGED loopVars PROVE WaitSame
<1>1. \A l : Due(l)' = Due(l) /\ \A k : TaskAt(l, k)' = TaskAt(l, k)
  BY Zenon DEF loopVars, Due, TaskAt
<1>2. \A l, t : Waiting(l, t)' <=> Waiting(l, t)
  BY <1>1, Zenon DEF Waiting
<1>3. OnePlace => OnePlace'
  BY <1>1, Zenon DEF OnePlace
<1> QED  BY <1>2, <1>3, Zenon DEF WaitSame

LEMMA SwapWait ==
  ASSUME QueuesOK, NEW l \in Loops, Swap(l)
  PROVE  QueuesOK' /\ WaitSame
<1>1. /\ batch' = [batch EXCEPT ![l] = pending[l]] /\ pending' = [pending EXCEPT ![l] = <<>>]
      /\ ran' = ran /\ batch[l] = <<>> /\ ran[l] = 0
  BY DEF Swap, QueuesOK
<1>2. QueuesOK'
  BY <1>1 DEF QueuesOK
<1>3. Shifted([m \in Loops |-> 0])
  <2>1. \A m \in Loops : Due(m)' = Due(m)
    BY <1>1 DEF Due, QueuesOK
  <2>2. \A m \in Loops : \A k \in Due(m) : TaskAt(m, k)' = TaskAt(m, k)
    BY <1>1 DEF Due, TaskAt, QueuesOK
  <2>3. \A m \in Loops : \A k \in Due(m) : k + 0 = k /\ k - 0 = k
    BY DEF Due, QueuesOK
  <2> QED  BY <2>1, <2>2, <2>3 DEF Shifted
<1> QED  BY <1>2, <1>3, ShiftedWait

LEMMA EndBatchWait ==
  ASSUME QueuesOK, NEW l \in Loops, EndBatch(l)
  PROVE  QueuesOK' /\ WaitSame
<1>1. /\ batch' = [batch EXCEPT ![l] = <<>>] /\ pending' = pending
      /\ ran' = [ran EXCEPT ![l] = 0] /\ ran[l] = Len(batch[l])
  BY DEF EndBatch
<1>2. QueuesOK'
  BY <1>1 DEF QueuesOK
<1>3. PICK b \in Nat : b = Len(batch[l])
  BY DEF QueuesOK
<1>4. PICK n \in [Loops -> Nat] : \A m \in Loops : n[m] = IF m = l THEN b ELSE 0
  <2>1. [m \in Loops |-> IF m = l THEN b ELSE 0] \in [Loops -> Nat]
    OBVIOUS
  <2> QED  BY <2>1
<1>5. /\ batch'[l] = <<>> /\ Len(batch'[l]) = 0 /\ pending'[l] = pending[l] /\ ran'[l] = 0
      /\ Len(pending[l]) \in Nat /\ ran[l] = b
  BY <1>1, <1>3 DEF QueuesOK
<1>6. ASSUME NEW m \in Loops, m # l
      PROVE  Due(m)' = Due(m) /\ \A k : TaskAt(m, k)' = TaskAt(m, k)
  <2>1. batch'[m] = batch[m] /\ pending'[m] = pending[m] /\ ran'[m] = ran[m]
    BY <1>1, <1>6 DEF QueuesOK
  <2> QED  BY <2>1, Zenon DEF Due, TaskAt
<1>7. ASSUME NEW k \in Due(l)' PROVE k + b \in Due(l) /\ TaskAt(l, k)' = TaskAt(l, k + b)
  <2>1. k \in 1..Len(pending[l])
    BY <1>5 DEF Due
  <2>2. ~(k <= 0) /\ k - 0 = k /\ ~(k + b <= b) /\ (k + b) - b = k
    BY <2>1
  <2>3. TaskAt(l, k)' = pending[l][k] /\ TaskAt(l, k + b) = pending[l][k]
    BY <1>3, <1>5, <2>2, Zenon DEF TaskAt
  <2>4. k + b \in (b + 1)..(b + Len(pending[l]))
    BY <1>5, <2>1
  <2>5. k + b \in Due(l)
    BY <1>3, <1>5, <2>4, Zenon DEF Due
  <2> QED  BY <2>3, <2>5, Zenon
<1>8. ASSUME NEW k \in Due(l) PROVE k - b \in Due(l)' /\ TaskAt(l, k - b)' = TaskAt(l, k)
  <2>1. k \in (b + 1)..(b + Len(pending[l]))
    BY <1>3, <1>5 DEF Due
  <2>2. ~(k <= b) /\ ~(k - b <= 0) /\ (k - b) - 0 = k - b
    BY <2>1
  <2>3. TaskAt(l, k - b)' = pending[l][k - b] /\ TaskAt(l, k) = pending[l][k - b]
    BY <1>3, <1>5, <2>2, Zenon DEF TaskAt
  <2>4. k - b \in Due(l)'
    BY <1>5, <2>1 DEF Due
  <2> QED  BY <2>3, <2>4, Zenon
<1>9. \A m \in Loops : Due(m) \subseteq Int
  BY DEF Due, QueuesOK
<1>10. ASSUME NEW m \in Loops
       PROVE  /\ \A k \in Due(m)' : k + n[m] \in Due(m) /\ TaskAt(m, k)' = TaskAt(m, k + n[m])
              /\ \A k \in Due(m) : k - n[m] \in Due(m)' /\ TaskAt(m, k - n[m])' = TaskAt(m, k)
  <2>1. CASE m = l
    <3>1. n[m] = b
      BY <1>4, <2>1
    <3> QED  BY <1>7, <1>8, <2>1, <3>1, Zenon
  <2>2. CASE m # l
    <3>1. n[m] = 0
      BY <1>4, <2>2
    <3>2. \A k \in Due(m) : k + n[m] = k /\ k - n[m] = k
      BY <1>9, <3>1
    <3> QED  BY <1>6, <2>2, <3>2, Zenon
  <2> QED  BY <2>1, <2>2
<1>11. Shifted(n)
  BY <1>10, Zenon DEF Shifted
<1> QED  BY <1>2, <1>11, ShiftedWait, Zenon

\* The functors of the loops outside s stay where they are.
Elsewhere(s) ==
  \A m \in Loops \ s : Due(m)' = Due(m) /\ \A k \in Due(m) : TaskAt(m, k)' = TaskAt(m, k)

\* A functor is appended to pending_ of l: it waits in the last place.
Appends(l, t) == pending' = [pending EXCEPT ![l] = Append(@, t)]
AppendedTo(l, t) ==
  /\ \E n : /\ \A k \in Due(l) : k # n
            /\ Due(l)' = Due(l) \union {n} /\ TaskAt(l, n)' = t
  /\ \A k \in Due(l) : TaskAt(l, k)' = TaskAt(l, k)

LEMMA AppendIs ==
  ASSUME QueuesOK, NEW l \in Loops, NEW t \in Tasks, Appends(l, t),
         batch'[l] = batch[l], ran'[l] = ran[l]
  PROVE  AppendedTo(l, t)
<1>1. PICK b, p, r \in Nat : b = Len(batch[l]) /\ p = Len(pending[l]) /\ r = ran[l] /\ r <= b
  BY DEF QueuesOK
<1>2. r <= b
  BY <1>1
<1>3. /\ pending'[l] = Append(pending[l], t) /\ Len(pending'[l]) = p + 1
      /\ pending'[l][p + 1] = t /\ \A i \in 1..p : pending'[l][i] = pending[l][i]
  BY <1>1 DEF QueuesOK, Appends
<1>4. Due(l) = (r + 1)..(b + p) /\ Due(l)' = (r + 1)..(b + (p + 1))
  BY <1>1, <1>3, Zenon DEF Due
<1>5. Due(l)' = Due(l) \union {b + p + 1} /\ \A k \in Due(l) : k # b + p + 1
  BY <1>2, <1>4
<1>6. TaskAt(l, b + p + 1)' = t
  <2>1. ~(b + p + 1 <= b) /\ (b + p + 1) - b = p + 1
    OBVIOUS
  <2> QED  BY <1>1, <1>3, <2>1, Zenon DEF TaskAt
<1>7. ASSUME NEW k \in Due(l) PROVE TaskAt(l, k)' = TaskAt(l, k)
  <2>1. ~(k <= b) => k - b \in 1..p
    BY <1>2, <1>4
  <2>2. ~(k <= b) => pending'[l][k - b] = pending[l][k - b]
    BY <1>3, <2>1, Zenon
  <2> QED  BY <1>1, <1>3, <2>2, Zenon DEF TaskAt
<1> QED  BY <1>5, <1>6, <1>7, Zenon DEF AppendedTo

\* A functor of l was run: the first place is gone.
Advances(l, t) ==
  /\ ran[l] < Len(batch[l]) /\ batch[l][ran[l] + 1] = t
  /\ ran' = [ran EXCEPT ![l] = @ + 1] /\ batch' = batch
RanIn(l, t) ==
  /\ \E n \in Due(l) : Due(l)' = Due(l) \ {n} /\ TaskAt(l, n) = t
  /\ \A k \in Due(l) : TaskAt(l, k)' = TaskAt(l, k)

LEMMA RanIs ==
  ASSUME QueuesOK, NEW l \in Loops, NEW t, Advances(l, t), pending'[l] = pending[l]
  PROVE  RanIn(l, t)
<1>1. PICK b, p, r \in Nat : b = Len(batch[l]) /\ p = Len(pending[l]) /\ r = ran[l]
  BY DEF QueuesOK
<1>2. r < b /\ batch[l][r + 1] = t /\ ran'[l] = r + 1 /\ batch' = batch
  BY <1>1 DEF QueuesOK, Advances
<1>3. Due(l) = (r + 1)..(b + p) /\ Due(l)' = ((r + 1) + 1)..(b + p)
  BY <1>1, <1>2, Zenon DEF Due
<1>4. r + 1 \in Due(l) /\ Due(l)' = Due(l) \ {r + 1}
  BY <1>2, <1>3
<1>5. TaskAt(l, r + 1) = t
  <2>1. r + 1 <= b
    BY <1>2
  <2> QED  BY <1>1, <1>2, <2>1, Zenon DEF TaskAt
<1>6. \A k : TaskAt(l, k)' = TaskAt(l, k)
  BY <1>2, Zenon DEF TaskAt
<1> QED  BY <1>4, <1>5, <1>6, Zenon DEF RanIn

LEMMA ElsewhereIs ==
  ASSUME NEW s,
         \A m \in Loops \ s : pending'[m] = pending[m] /\ batch'[m] = batch[m] /\ ran'[m] = ran[m]
  PROVE  Elsewhere(s)
  BY Zenon DEF Elsewhere, Due, TaskAt

LEMMA DueAreTasks ==
  ASSUME QueuesOK, NEW l \in Loops, NEW k \in Due(l)
  PROVE  TaskAt(l, k) \in Tasks
<1>1. PICK b, p, r \in Nat : b = Len(batch[l]) /\ p = Len(pending[l]) /\ r = ran[l]
  BY DEF QueuesOK
<1>2. /\ \A i \in 1..b : batch[l][i] \in Tasks
      /\ \A i \in 1..p : pending[l][i] \in Tasks
  BY <1>1 DEF QueuesOK
<1>3. k \in (r + 1)..(b + p)
  BY <1>1, Zenon DEF Due
<1>4. IF k <= b THEN k \in 1..b ELSE k - b \in 1..p
  BY <1>3
<1> QED  BY <1>1, <1>2, <1>4, Zenon DEF TaskAt

\* No functor for c waits.
Idle(c) == \A l \in Loops : \A k \in Due(l) : TaskAt(l, k).conn # c

\* What waits after a functor is appended.
LEMMA AppendWait ==
  ASSUME NEW l \in Loops, NEW t \in Tasks, AppendedTo(l, t), Elsewhere({l})
  PROVE  /\ \A m \in Loops, u \in Tasks : Waiting(m, u)' <=> (Waiting(m, u) \/ (m = l /\ u = t))
         /\ OnePlace /\ Idle(t.conn) => OnePlace'
<1>1. PICK n : /\ \A k \in Due(l) : k # n
               /\ Due(l)' = Due(l) \union {n} /\ TaskAt(l, n)' = t
  BY Zenon DEF AppendedTo
<1>2. \A m \in Loops : \A k \in Due(m) : k \in Due(m)' /\ TaskAt(m, k)' = TaskAt(m, k)
  BY <1>1, Zenon DEF AppendedTo, Elsewhere
<1>3. \A m \in Loops : \A k \in Due(m)' : k \in Due(m) \/ (m = l /\ k = n)
  BY <1>1, Zenon DEF Elsewhere
<1>4. n \in Due(l)' /\ TaskAt(l, n)' = t
  BY <1>1, Zenon
<1>5. ASSUME NEW m \in Loops, NEW u \in Tasks
      PROVE  Waiting(m, u)' <=> (Waiting(m, u) \/ (m = l /\ u = t))
  BY <1>2, <1>3, <1>4, Zenon DEF Waiting
<1>6. ASSUME OnePlace, Idle(t.conn), NEW x \in Loops, NEW y \in Loops,
             NEW j \in Due(x)', NEW k \in Due(y)', TaskAt(x, j)'.conn = TaskAt(y, k)'.conn
      PROVE  x = y /\ j = k
  <2>1. CASE j \in Due(x) /\ k \in Due(y)
    <3>1. TaskAt(x, j).conn = TaskAt(y, k).conn
      BY <1>2, <1>6, <2>1, Zenon
    <3> QED  BY <1>6, <2>1, <3>1 DEF OnePlace
  <2>2. CASE j \in Due(x) /\ y = l /\ k = n
    BY <1>2, <1>4, <1>6, <2>2, Zenon DEF Idle
  <2>3. CASE x = l /\ j = n /\ k \in Due(y)
    BY <1>2, <1>4, <1>6, <2>3, Zenon DEF Idle
  <2>4. CASE x = l /\ j = n /\ y = l /\ k = n
    BY <2>4
  <2> QED  BY <1>3, <2>1, <2>2, <2>3, <2>4, Zenon
<1> QED  BY <1>5, <1>6, Zenon DEF OnePlace

\* What waits after a functor was run.
LEMMA RunWait ==
  ASSUME NEW l \in Loops, NEW t, RanIn(l, t), Elsewhere({l})
  PROVE  /\ Waiting(l, t)
         /\ \A m \in Loops, u \in Tasks : Waiting(m, u)' => Waiting(m, u)
         /\ \A m \in Loops, u \in Tasks : Waiting(m, u) /\ u.conn # t.conn => Waiting(m, u)'
         /\ OnePlace => OnePlace' /\ Idle(t.conn)'
<1>1. PICK n \in Due(l) : Due(l)' = Due(l) \ {n} /\ TaskAt(l, n) = t
  BY Zenon DEF RanIn
<1>2. \A m \in Loops : \A k \in Due(m)' :
        k \in Due(m) /\ TaskAt(m, k)' = TaskAt(m, k) /\ ~(m = l /\ k = n)
  BY <1>1, Zenon DEF RanIn, Elsewhere
<1>3. \A m \in Loops : \A k \in Due(m) :
        ~(m = l /\ k = n) => k \in Due(m)' /\ TaskAt(m, k)' = TaskAt(m, k)
  BY <1>1, Zenon DEF RanIn, Elsewhere
<1>4. ASSUME NEW m \in Loops, NEW u \in Tasks, Waiting(m, u), u.conn # t.conn
      PROVE  Waiting(m, u)'
  BY <1>1, <1>3, <1>4, Zenon DEF Waiting
<1>5. ASSUME NEW m \in Loops, NEW u \in Tasks, Waiting(m, u)' PROVE Waiting(m, u)
  BY <1>2, <1>5, Zenon DEF Waiting
<1>6. ASSUME OnePlace, NEW m \in Loops, NEW k \in Due(m)' PROVE TaskAt(m, k)'.conn # t.conn
  <2>1. ASSUME TaskAt(m, k)'.conn = t.conn PROVE TaskAt(m, k).conn = TaskAt(l, n).conn
    BY <1>1, <1>2, <2>1, Zenon
  <2> QED  BY <1>2, <1>6, <2>1 DEF OnePlace
<1>7. ASSUME OnePlace, NEW x \in Loops, NEW y \in Loops,
             NEW j \in Due(x)', NEW k \in Due(y)', TaskAt(x, j)'.conn = TaskAt(y, k)'.conn
      PROVE  x = y /\ j = k
  <2>1. TaskAt(x, j).conn = TaskAt(y, k).conn
    BY <1>2, <1>7, Zenon
  <2> QED  BY <1>2, <1>7, <2>1 DEF OnePlace
<1>8. OnePlace => OnePlace' /\ Idle(t.conn)'
  BY <1>6, <1>7, Zenon DEF OnePlace, Idle
<1> QED  BY <1>1, <1>4, <1>5, <1>8, Zenon DEF Waiting

\* What waits after a functor of l was run, which appended another for the
\* same connection to m.
LEMMA RunAppendWait ==
  ASSUME NEW l \in Loops, NEW m \in Loops, l # m, NEW t, NEW u \in Tasks, u.conn = t.conn,
         RanIn(l, t), AppendedTo(m, u), Elsewhere({l, m})
  PROVE  /\ Waiting(l, t)
         /\ \A x \in Loops, v \in Tasks : Waiting(x, v)' => Waiting(x, v) \/ (x = m /\ v = u)
         /\ \A x \in Loops, v \in Tasks : Waiting(x, v) /\ v.conn # t.conn => Waiting(x, v)'
         /\ Waiting(m, u)'
         /\ OnePlace => OnePlace' /\ \A x \in Loops, v \in Tasks :
                          Waiting(x, v)' /\ v.conn = t.conn => x = m /\ v = u
<1>1. PICK n \in Due(l) : Due(l)' = Due(l) \ {n} /\ TaskAt(l, n) = t
  BY Zenon DEF RanIn
<1>2. PICK p : Due(m)' = Due(m) \union {p} /\ TaskAt(m, p)' = u
  BY Zenon DEF AppendedTo
<1>3. \A x \in Loops : \A k \in Due(x)' :
        \/ k \in Due(x) /\ TaskAt(x, k)' = TaskAt(x, k) /\ ~(x = l /\ k = n)
        \/ x = m /\ k = p
  BY <1>1, <1>2, Zenon DEF RanIn, AppendedTo, Elsewhere
<1>4. \A x \in Loops : \A k \in Due(x) :
        ~(x = l /\ k = n) => k \in Due(x)' /\ TaskAt(x, k)' = TaskAt(x, k)
  BY <1>1, <1>2, Zenon DEF RanIn, AppendedTo, Elsewhere
<1>5. p \in Due(m)' /\ TaskAt(m, p)' = u
  BY <1>2, Zenon
<1>6. ASSUME OnePlace, NEW x \in Loops, NEW k \in Due(x)', TaskAt(x, k)'.conn = t.conn
      PROVE  x = m /\ k = p
  <2>1. ASSUME k \in Due(x), TaskAt(x, k)' = TaskAt(x, k) PROVE x = l /\ k = n
    <3>1. TaskAt(x, k).conn = TaskAt(l, n).conn
      BY <1>1, <1>6, <2>1, Zenon
    <3> QED  BY <1>6, <2>1, <3>1 DEF OnePlace
  <2> QED  BY <1>3, <2>1, Zenon
<1>7. ASSUME OnePlace, NEW x \in Loops, NEW y \in Loops,
             NEW j \in Due(x)', NEW k \in Due(y)', TaskAt(x, j)'.conn = TaskAt(y, k)'.conn
      PROVE  x = y /\ j = k
  <2>1. CASE x = m /\ j = p
    BY <1>5, <1>6, <1>7, <2>1, Zenon
  <2>2. CASE y = m /\ k = p
    BY <1>5, <1>6, <1>7, <2>2, Zenon
  <2>3. CASE ~(x = m /\ j = p) /\ ~(y = m /\ k = p)
    <3>1. /\ j \in Due(x) /\ TaskAt(x, j)' = TaskAt(x, j)
          /\ k \in Due(y) /\ TaskAt(y, k)' = TaskAt(y, k)
      BY <1>3, <2>3, Zenon
    <3>2. TaskAt(x, j).conn = TaskAt(y, k).conn
      BY <1>7, <3>1, Zenon
    <3> QED  BY <1>7, <3>1, <3>2 DEF OnePlace
  <2> QED  BY <2>1, <2>2, <2>3
<1>8. ASSUME NEW x \in Loops, NEW v \in Tasks, Waiting(x, v)' PROVE Waiting(x, v) \/ (x = m /\ v = u)
  BY <1>3, <1>5, <1>8, Zenon DEF Waiting
<1>9. ASSUME NEW x \in Loops, NEW v \in Tasks, Waiting(x, v), v.conn # t.conn PROVE Waiting(x, v)'
  BY <1>1, <1>4, <1>9, Zenon DEF Waiting
<1>10. ASSUME OnePlace, NEW x \in Loops, NEW v \in Tasks, Waiting(x, v)', v.conn = t.conn
       PROVE  x = m /\ v = u
  BY <1>5, <1>6, <1>10, Zenon DEF Waiting
<1>11. Waiting(l, t) /\ Waiting(m, u)'
  BY <1>1, <1>5, Zenon DEF Waiting
<1>12. OnePlace => OnePlace'
  BY <1>7, Zenon DEF OnePlace
<1> QED  BY <1>8, <1>9, <1>10, <1>11, <1>12, Zenon

-----------------------------------------------------------------------------
(* Channels and connections.                                               *)

LEMMA ChannelShapes ==
  /\ NewChannel \in ChannelRecord /\ OpenChannel \in ChannelRecord /\ ClosedChannel \in ChannelRecord
  /\ ~NewChannel.mapped /\ ~NewChannel.added
  /\ OpenChannel.mapped /\ OpenChannel.added
  /\ ClosedChannel.mapped /\ ClosedChannel.added
  /\ EnableReading(NewChannel) = OpenChannel /\ DisableAll(OpenChannel) = ClosedChannel
  /\ RemoveChannel(ClosedChannel) = NewChannel
  /\ MayRemove(ClosedChannel) /\ ~MayRemove(NewChannel)
<1>1. OpenChannel = [reading |-> TRUE, writing |-> FALSE, index |-> "added",
                     mapped |-> TRUE, registered |-> TRUE, added |-> TRUE]
  BY DEF OpenChannel, EnableReading, UpdateChannel, NewChannel, IsNoneEvent
<1>2. ClosedChannel = [reading |-> FALSE, writing |-> FALSE, index |-> "deleted",
                       mapped |-> TRUE, registered |-> FALSE, added |-> TRUE]
  BY <1>1 DEF ClosedChannel, DisableAll, UpdateChannel, IsNoneEvent
<1>3. RemoveChannel(ClosedChannel) = NewChannel
  <2> DEFINE r == RemoveChannel(ClosedChannel)
  <2>1. /\ r \in ChannelRecord /\ ~r.reading /\ ~r.writing /\ r.index = "new"
        /\ ~r.mapped /\ ~r.registered /\ ~r.added
    BY <1>2 DEF RemoveChannel, ChannelRecord
  <2> HIDE DEF r
  <2>2. /\ r = [reading |-> r.reading, writing |-> r.writing, index |-> r.index,
                mapped |-> r.mapped, registered |-> r.registered, added |-> r.added]
        /\ r.reading \in BOOLEAN /\ r.writing \in BOOLEAN /\ r.mapped \in BOOLEAN
        /\ r.registered \in BOOLEAN /\ r.added \in BOOLEAN
    BY <2>1 DEF ChannelRecord
  <2> QED  BY <2>1, <2>2 DEF NewChannel, r
<1>4. MayRemove(ClosedChannel) /\ ~MayRemove(NewChannel)
  BY <1>2 DEF MayRemove, NewChannel, IsNoneEvent
<1>5. NewChannel \in ChannelRecord /\ OpenChannel \in ChannelRecord /\ ClosedChannel \in ChannelRecord
  BY <1>1, <1>2 DEF NewChannel, ChannelRecord
<1>6. EnableReading(NewChannel) = OpenChannel /\ DisableAll(OpenChannel) = ClosedChannel
  BY Zenon DEF OpenChannel, ClosedChannel
<1> QED  BY <1>1, <1>2, <1>3, <1>4, <1>5, <1>6 DEF NewChannel

LEMMA ChannelOf ==
  ASSUME NEW r, ChannelFits(r)
  PROVE  /\ r.ch.mapped <=> r.ch.added
         /\ r.ch.mapped <=> r.ch \in {OpenChannel, ClosedChannel}
         /\ r.ch = NewChannel <=> ~r.ch.mapped
         /\ r.ch = OpenChannel <=> r.state = "Connected"
<1>1. NewChannel # OpenChannel /\ NewChannel # ClosedChannel /\ OpenChannel # ClosedChannel
  <2>1. ~MayRemove(OpenChannel)
    BY DEF MayRemove, OpenChannel, EnableReading, UpdateChannel, NewChannel, IsNoneEvent
  <2> QED  BY <2>1, ChannelShapes, Zenon
<1>2. CASE r.ch = NewChannel
  BY <1>1, <1>2, ChannelShapes DEF ChannelFits
<1>3. CASE r.ch = OpenChannel
  BY <1>1, <1>3, ChannelShapes DEF ChannelFits
<1>4. CASE r.ch = ClosedChannel
  BY <1>1, <1>4, ChannelShapes DEF ChannelFits
<1> QED  BY <1>2, <1>3, <1>4, Zenon DEF ChannelFits

\* Connection c becomes r: nothing else about the connections changes.
Becomes(c, r) ==
  /\ Made' = Made
  /\ conn'[c] = r
  /\ \A d \in Made \ {c} : conn'[d] = conn[d]

SameIdentity(r, s) == s.loop = r.loop /\ s.fd = r.fd /\ s.name = r.name

LEMMA Establishing ==
  ASSUME NEW r \in Connection, r.ch = NewChannel
  PROVE  /\ Established(r) \in Connection /\ SameIdentity(r, Established(r))
         /\ Established(r).state = "Connected" /\ Established(r).ch = OpenChannel
<1>1. Established(r) = [r EXCEPT !.state = "Connected", !.ch = OpenChannel]
  BY ChannelShapes, Zenon DEF Established
<1> QED  BY <1>1, ChannelShapes DEF Connection, SameIdentity

LEMMA EstablishBecomes ==
  ASSUME ConnsOK, NEW c \in Made, conn[c].ch = NewChannel, conn' = [conn EXCEPT ![c] = Established(@)]
  PROVE  /\ ConnsOK' /\ Becomes(c, Established(conn[c])) /\ SameIdentity(conn[c], conn'[c])
         /\ conn'[c].state = "Connected" /\ conn'[c].ch = OpenChannel
<1>1. Established(conn[c]) \in Connection /\ SameIdentity(conn[c], Established(conn[c]))
  BY Establishing DEF ConnsOK
<1>2. ConnsOK' /\ Becomes(c, Established(conn[c]))
  BY <1>1 DEF ConnsOK, Becomes, Made
<1> QED  BY <1>1, <1>2, Establishing DEF Becomes, ConnsOK

LEMMA CloseBecomes ==
  ASSUME ConnsOK, NEW c \in Made, conn[c].ch = OpenChannel,
         conn' = [conn EXCEPT ![c].state = "Disconnected", ![c].ch = DisableAll(@)]
  PROVE  /\ ConnsOK' /\ Becomes(c, conn'[c]) /\ SameIdentity(conn[c], conn'[c])
         /\ conn'[c].state = "Disconnected" /\ conn'[c].ch = ClosedChannel
<1> DEFINE r == [[conn[c] EXCEPT !.state = "Disconnected"] EXCEPT !.ch = ClosedChannel]
<1>1. conn[c] \in Connection
  BY DEF ConnsOK
<1>2. /\ r \in Connection /\ SameIdentity(conn[c], r)
      /\ r.state = "Disconnected" /\ r.ch = ClosedChannel
  BY <1>1, ChannelShapes DEF Connection, SameIdentity
<1>3. conn' = [conn EXCEPT ![c] = r]
  BY <1>1, ChannelShapes DEF ConnsOK, Connection
<1> HIDE DEF r
<1>4. ConnsOK' /\ Becomes(c, r) /\ conn'[c] = r
  BY <1>2, <1>3 DEF ConnsOK, Becomes, Made
<1> QED  BY <1>2, <1>4, Zenon

LEMMA DestroyBecomes ==
  ASSUME ConnsOK, NEW c \in Made, conn[c].ch = ClosedChannel,
         conn' = [conn EXCEPT ![c].ch = RemoveChannel(@)]
  PROVE  /\ ConnsOK' /\ Becomes(c, conn'[c]) /\ SameIdentity(conn[c], conn'[c])
         /\ conn'[c].state = conn[c].state /\ conn'[c].ch = NewChannel
<1> DEFINE r == [conn[c] EXCEPT !.ch = NewChannel]
<1>1. conn[c] \in Connection
  BY DEF ConnsOK
<1>2. /\ r \in Connection /\ SameIdentity(conn[c], r)
      /\ r.state = conn[c].state /\ r.ch = NewChannel
  BY <1>1, ChannelShapes DEF Connection, SameIdentity
<1>3. conn' = [conn EXCEPT ![c] = r]
  BY <1>1, ChannelShapes DEF ConnsOK, Connection
<1> HIDE DEF r
<1>4. ConnsOK' /\ Becomes(c, r) /\ conn'[c] = r
  BY <1>2, <1>3 DEF ConnsOK, Becomes, Made
<1> QED  BY <1>2, <1>4, Zenon

-----------------------------------------------------------------------------
(* Types.                                                                  *)

LEMMA TypesAreOK == TypeInv => TypeOK
  BY DEF TypeInv, SimpleOK, ConnsOK, MadeOK, TableOK, QueuesOK, TypeOK

LEMMA InitType == Init => TypeInv
<1> SUFFICES ASSUME Init PROVE TypeInv
  OBVIOUS
<1>1. Made = {} /\ conn = <<>> /\ DOMAIN table = {}
  BY DEF Init, Made
<1>2. SimpleOK
  <2>1. numThreads \in 0..MaxThreads /\ nextLoop \in Nat /\ nextLoop = 0 /\ nextConnId \in Nat
    BY ThreadsAssumption DEF Init
  <2>2. server \in {"new", "started", "gone"} /\ ended \subseteq 1..MaxThreads /\ died \in BOOLEAN
    BY Zenon DEF Init
  <2> QED  BY <2>1, <2>2, Zenon DEF SimpleOK
<1>3. ConnsOK
  BY <1>1 DEF ConnsOK
<1>4. MadeOK
  BY <1>1, FS_EmptySet DEF MadeOK, Init
<1>5. TableOK
  BY <1>1 DEF TableOK, Init
<1>6. QueuesOK
  BY DEF QueuesOK, Init
<1>7. \A l \in Loops : Due(l) = {}
  BY DEF Init, Due
<1>8. RefsOK
  BY <1>7, Zenon DEF RefsOK, Waiting
<1> QED  BY <1>2, <1>3, <1>4, <1>5, <1>6, <1>8 DEF TypeInv

\* The program and the clients: nothing of the connections changes.
QuietStep ==
  \/ \E n \in 0..MaxThreads : SetThreadNum(n)
  \/ Start
  \/ \E c \in Conns : Connect(c) \/ AcceptFails(c)

LEMMA QuietIs ==
  ASSUME QuietStep
  PROVE  /\ UNCHANGED loopVars /\ UNCHANGED <<conn, table, freed, died, nextConnId>> /\ Alive
         /\ server # "gone" /\ server' # "gone"
<1>1. CASE \E n \in 0..MaxThreads : SetThreadNum(n)
  BY <1>1 DEF SetThreadNum
<1>2. CASE Start
  BY <1>2 DEF Start
<1>3. CASE \E c \in Conns : Connect(c) \/ AcceptFails(c)
  BY <1>3 DEF Connect, AcceptFails, Dispatches, Loops, Base
<1> QED  BY <1>1, <1>2, <1>3 DEF QuietStep

LEMMA QuietType == ASSUME TypeInv, QuietStep PROVE TypeInv'
<1>0. SimpleOK /\ ConnsOK /\ MadeOK /\ TableOK /\ QueuesOK /\ RefsOK
  BY DEF TypeInv
<1>1. UNCHANGED loopVars /\ UNCHANGED <<conn, table, freed, died, nextConnId>> /\ Made' = Made
  BY QuietIs DEF Made
<1>2. SimpleOK' /\ MadeOK'
  <2>1. CASE \E n \in 0..MaxThreads : SetThreadNum(n)
    BY <1>0, <1>1, <2>1 DEF SetThreadNum, SimpleOK, MadeOK
  <2>2. CASE Start
    BY <1>0, <1>1, <2>2 DEF Start, SimpleOK, MadeOK
  <2>3. CASE \E c \in Conns : Connect(c) \/ AcceptFails(c)
    BY <1>0, <1>1, <2>3 DEF Connect, AcceptFails, SimpleOK, MadeOK
  <2> QED  BY <2>1, <2>2, <2>3 DEF QuietStep
<1>3. ConnsOK' /\ TableOK' /\ QueuesOK'
  BY <1>0, <1>1 DEF ConnsOK, TableOK, QueuesOK, loopVars
<1>4. WaitSame
  BY <1>1, SameQueues
<1>5. \A l, t : Refers(l, t)' <=> Refers(l, t)
  BY <1>1, Zenon DEF Refers
<1>6. RefsOK'
  BY <1>0, <1>4, <1>5, Zenon DEF RefsOK, WaitSame
<1> QED  BY <1>2, <1>3, <1>6, Zenon DEF TypeInv

LEMMA SwapType ==
  ASSUME TypeInv, NEW l \in Loops, Swap(l)
  PROVE  /\ TypeInv' /\ WaitSame
         /\ UNCHANGED <<server, nextConnId, conn, table, freed, died, numThreads, nextLoop>>
<1>0. SimpleOK /\ ConnsOK /\ MadeOK /\ TableOK /\ QueuesOK /\ RefsOK
  BY DEF TypeInv
<1>1. /\ UNCHANGED <<server, numThreads, nextLoop, nextConnId, table, backlog, conn, freed, ended, died>>
      /\ Made' = Made
  BY DEF Swap, Made
<1>2. QueuesOK' /\ WaitSame
  BY <1>0, SwapWait
<1>3. SimpleOK' /\ MadeOK' /\ ConnsOK' /\ TableOK'
  BY <1>0, <1>1 DEF SimpleOK, MadeOK, ConnsOK, TableOK
<1>4. \A m, t : Refers(m, t)' <=> Refers(m, t)
  BY <1>1, Zenon DEF Refers
<1>5. RefsOK'
  BY <1>0, <1>2, <1>4, Zenon DEF RefsOK, WaitSame
<1> QED  BY <1>1, <1>2, <1>3, <1>5, Zenon DEF TypeInv

\* What waits is held, and so is what the table has.
LEMMA WaitingIsHeld ==
  ASSUME QueuesOK', NEW l \in Loops, NEW t \in Tasks, Waiting(l, t)'
  PROVE  Held(t.conn, table, pending, batch)'
<1>1. PICK k \in Due(l)' : TaskAt(l, k)' = t
  BY Zenon DEF Waiting
<1>2. PICK b, p, r \in Nat : b = Len(batch'[l]) /\ p = Len(pending'[l]) /\ r = ran'[l]
  BY DEF QueuesOK
<1>3. k \in (r + 1)..(b + p)
  BY <1>2, Zenon DEF Due
<1>4. IF k <= b THEN k \in 1..b ELSE k - b \in 1..p
  BY <1>3
<1>5. CASE k <= b
  <2>1. k \in 1..Len(batch'[l]) /\ batch'[l][k].conn = t.conn
    BY <1>1, <1>2, <1>4, <1>5, Zenon DEF TaskAt
  <2>2. \E s \in {"p", "b"} : \E i \in 1..Len(IF s = "p" THEN pending'[l] ELSE batch'[l]) :
          (IF s = "p" THEN pending'[l] ELSE batch'[l])[i].conn = t.conn
    BY <2>1
  <2> QED  BY <2>2, Zenon DEF Held
<1>6. CASE ~(k <= b)
  <2>1. k - b \in 1..Len(pending'[l]) /\ pending'[l][k - b].conn = t.conn
    BY <1>1, <1>2, <1>4, <1>6, Zenon DEF TaskAt
  <2>2. \E s \in {"p", "b"} : \E i \in 1..Len(IF s = "p" THEN pending'[l] ELSE batch'[l]) :
          (IF s = "p" THEN pending'[l] ELSE batch'[l])[i].conn = t.conn
    BY <2>1
  <2> QED  BY <2>2, Zenon DEF Held
<1> QED  BY <1>5, <1>6, Zenon

LEMMA TableIsHeld ==
  ASSUME NEW k \in DOMAIN table'
  PROVE  Held(table'[k], table', pending', batch')
  BY Zenon DEF Held, Values

\* Connections are deleted when nothing holds them any more.
Releases ==
  /\ freed' = freed \union {c \in Made \ freed : ~Held(c, table', pending', batch')}
  /\ died' = ((server' = "gone" /\ server = "new")
                \/ \E c \in Made \ freed : ~Held(c, table', pending', batch') /\ conn[c].ch.added)

LEMMA ReleaseType ==
  ASSUME TypeInv, Releases, Alive, UNCHANGED <<numThreads, nextLoop, nextConnId, backlog, conn>>,
         \/ UNCHANGED table
         \/ table' = <<>>,
         ended' \subseteq 1..MaxThreads, server' \in {server, "gone"},
         QueuesOK', \A l \in Loops, t \in Tasks : Waiting(l, t)' => Waiting(l, t)
  PROVE  TypeInv'
<1>0. SimpleOK /\ ConnsOK /\ MadeOK /\ TableOK /\ QueuesOK /\ RefsOK
  BY DEF TypeInv
<1>1. Made' = Made /\ freed' \subseteq Made /\ freed \subseteq freed'
  BY <1>0 DEF Made, Releases, MadeOK
<1>2. died' \in BOOLEAN
  BY Zenon DEF Releases
<1>3. SimpleOK' /\ MadeOK' /\ ConnsOK'
  BY <1>0, <1>1, <1>2 DEF SimpleOK, MadeOK, ConnsOK
<1>4. TableOK'
  <2>1. ASSUME UNCHANGED table, NEW k \in DOMAIN table PROVE table[k] \notin freed'
    <3>1. Held(table[k], table', pending', batch')
      BY <2>1, TableIsHeld, Zenon
    <3>2. table[k] \notin freed
      BY <1>0 DEF TableOK
    <3> QED  BY <3>1, <3>2, Zenon DEF Releases
  <2>2. CASE UNCHANGED table
    BY <1>0, <1>1, <2>1, <2>2 DEF TableOK
  <2>3. CASE table' = <<>>
    BY <2>3 DEF TableOK
  <2> QED  BY <2>2, <2>3
<1>5. RefsOK'
  <2>1. ASSUME NEW l \in Loops, NEW t \in Tasks, Waiting(l, t)' PROVE Refers(l, t)'
    <3>1. Refers(l, t)
      BY <1>0, <2>1, Zenon DEF RefsOK
    <3>2. t.conn \notin freed'
      BY <2>1, <3>1, WaitingIsHeld, Zenon DEF Releases, Refers
    <3> QED  BY <1>1, <3>1, <3>2, Zenon DEF Refers
  <2> QED  BY <2>1, Zenon DEF RefsOK
<1> QED  BY <1>3, <1>4, <1>5, Zenon DEF TypeInv

LEMMA EndBatchIs ==
  ASSUME TypeInv, NEW l \in Loops, EndBatch(l)
  PROVE  /\ TypeInv' /\ Releases /\ WaitSame /\ Alive
         /\ UNCHANGED <<server, numThreads, nextLoop, nextConnId, table, conn>>
<1>0. SimpleOK /\ QueuesOK
  BY DEF TypeInv
<1>1. /\ Alive /\ Release(table, pending, batch')
      /\ UNCHANGED <<server, numThreads, nextLoop, nextConnId, table, backlog, conn, pending, ended>>
  BY DEF EndBatch
<1>2. QueuesOK' /\ WaitSame
  BY <1>0, EndBatchWait
<1>3. Releases
  <2>1. server' = server /\ table' = table /\ pending' = pending /\ ~(server' = "gone" /\ server = "new")
    BY <1>1
  <2>2. /\ freed' = freed \union {c \in Made \ freed : ~Held(c, table, pending, batch')}
        /\ died' = \E c \in {c \in Made \ freed : ~Held(c, table, pending, batch')} : conn[c].ch.added
    BY <1>1, Zenon DEF Release
  <2> QED  BY <2>1, <2>2, Zenon DEF Releases
<1>4. ended' \subseteq 1..MaxThreads
  BY <1>0, <1>1 DEF SimpleOK
<1>5. TypeInv'
  BY <1>1, <1>2, <1>3, <1>4, ReleaseType DEF WaitSame
<1> QED  BY <1>1, <1>2, <1>3, <1>5

LEMMA JoinLoopIs ==
  ASSUME TypeInv, NEW l \in Loops, JoinLoop(l)
  PROVE  /\ TypeInv' /\ Releases /\ Alive
         /\ UNCHANGED <<server, numThreads, nextLoop, nextConnId, table, conn>> /\ server = "gone"
<1>0. SimpleOK /\ QueuesOK
  BY DEF TypeInv
<1>1. /\ Alive /\ server = "gone" /\ l \in (1..numThreads) \ ended /\ batch[l] = <<>>
      /\ ended' = ended \union {l} /\ pending' = [pending EXCEPT ![l] = <<>>]
      /\ Release(table, pending', batch)
      /\ UNCHANGED <<server, numThreads, nextLoop, nextConnId, table, backlog, conn, batch, ran>>
  BY DEF JoinLoop
<1>2. QueuesOK'
  BY <1>0, <1>1 DEF QueuesOK
<1>3. Releases
  <2>1. server' = server /\ table' = table /\ batch' = batch /\ ~(server' = "gone" /\ server = "new")
    BY <1>1
  <2>2. /\ freed' = freed \union {c \in Made \ freed : ~Held(c, table, pending', batch)}
        /\ died' = \E c \in {c \in Made \ freed : ~Held(c, table, pending', batch)} : conn[c].ch.added
    BY <1>1, Zenon DEF Release
  <2> QED  BY <2>1, <2>2, Zenon DEF Releases
<1>4. ended' \subseteq 1..MaxThreads
  BY <1>0, <1>1, ThreadsAssumption DEF SimpleOK
<1>5. ASSUME NEW m \in Loops, NEW t \in Tasks, Waiting(m, t)' PROVE Waiting(m, t)
  <2>1. CASE m = l
    <3>1. /\ batch'[l] = <<>> /\ pending'[l] = <<>> /\ ran'[l] \in Nat
      BY <1>0, <1>1 DEF QueuesOK
    <3>2. Due(l)' = {}
      BY <3>1 DEF Due
    <3> QED  BY <1>5, <2>1, <3>2, Zenon DEF Waiting
  <2>2. CASE m # l
    <3>1. batch'[m] = batch[m] /\ pending'[m] = pending[m] /\ ran'[m] = ran[m]
      BY <1>0, <1>1, <2>2 DEF QueuesOK
    <3>2. Due(m)' = Due(m) /\ \A k : TaskAt(m, k)' = TaskAt(m, k)
      BY <3>1, Zenon DEF Due, TaskAt
    <3> QED  BY <1>5, <3>2, Zenon DEF Waiting
  <2> QED  BY <2>1, <2>2
<1>6. TypeInv'
  BY <1>1, <1>2, <1>3, <1>4, <1>5, ReleaseType
<1> QED  BY <1>1, <1>3, <1>6

LEMMA DestroyServerIs ==
  ASSUME TypeInv, DestroyServer
  PROVE  /\ TypeInv' /\ Releases /\ Alive
         /\ UNCHANGED <<numThreads, nextLoop, nextConnId, conn>> /\ server' = "gone"
<1>0. SimpleOK /\ QueuesOK
  BY DEF TypeInv
<1>1. /\ Alive /\ server' = "gone" /\ table' = <<>>
      /\ UNCHANGED <<numThreads, nextLoop, nextConnId, backlog, conn, loopVars, ended>>
  BY DEF DestroyServer
<1>2. QueuesOK'
  BY <1>0, <1>1 DEF QueuesOK, loopVars
<1>3. Releases
  <2>1. pending' = pending /\ batch' = batch
    BY <1>1 DEF loopVars
  <2>2. /\ freed' = freed \union {c \in Made \ freed : ~Held(c, <<>>, pending, batch)}
        /\ died' = (server = "new" \/
              \E c \in {c \in Made \ freed : ~Held(c, <<>>, pending, batch)} : conn[c].ch.added)
    BY Zenon DEF DestroyServer
  <2> QED  BY <1>1, <2>1, <2>2, Zenon DEF Releases
<1>4. ended' \subseteq 1..MaxThreads
  BY <1>0, <1>1 DEF SimpleOK
<1>5. WaitSame
  BY <1>1, SameQueues
<1>6. TypeInv'
  BY <1>1, <1>2, <1>3, <1>4, <1>5, ReleaseType DEF WaitSame
<1> QED  BY <1>1, <1>3, <1>6

\* One connection changes, keeping its loop, descriptor and name.
ConnStep(c) ==
  \/ UNCHANGED conn
  \/ /\ Becomes(c, conn'[c]) /\ SameIdentity(conn[c], conn'[c])
     /\ ChannelFits(conn'[c]) /\ ConnsOK'

TableStep(c) == UNCHANGED table \/ table' = TableWithout(conn[c].name)

LEMMA ConnStepIs ==
  ASSUME NEW c, ConnStep(c)
  PROVE  /\ Made' = Made
         /\ \A d \in Made : SameIdentity(conn[d], conn'[d])
         /\ \A d \in Made \ {c} : conn'[d] = conn[d]
<1>1. CASE UNCHANGED conn
  BY <1>1 DEF Made, SameIdentity
<1>2. CASE Becomes(c, conn'[c]) /\ SameIdentity(conn[c], conn'[c])
  <2>1. Made' = Made /\ \A d \in Made \ {c} : conn'[d] = conn[d]
    BY <1>2, Zenon DEF Becomes
  <2>2. \A d \in Made \ {c} : SameIdentity(conn[d], conn'[d])
    BY <2>1, Zenon DEF SameIdentity
  <2> QED  BY <1>2, <2>1, <2>2
<1> QED  BY <1>1, <1>2, Zenon DEF ConnStep

LEMMA TableStepIs ==
  ASSUME NEW c, TableStep(c)
  PROVE  /\ DOMAIN table' \subseteq DOMAIN table
         /\ \A k \in DOMAIN table' : table'[k] = table[k]
         /\ \A k \in DOMAIN table : k # conn[c].name => k \in DOMAIN table'
  BY DEF TableStep, TableWithout

LEMMA StepType ==
  ASSUME TypeInv, NEW c, ConnStep(c), TableStep(c),
         UNCHANGED <<server, numThreads, nextLoop, nextConnId, backlog, freed, ended>>,
         died' \in BOOLEAN, QueuesOK',
         \A l \in Loops, t \in Tasks : Waiting(l, t)' => Refers(l, t)
  PROVE  TypeInv'
<1>0. SimpleOK /\ ConnsOK /\ MadeOK /\ TableOK
  BY DEF TypeInv
<1>1. /\ Made' = Made
      /\ \A d \in Made : SameIdentity(conn[d], conn'[d])
      /\ \A d \in Made \ {c} : conn'[d] = conn[d]
  BY ConnStepIs
<1>2. SimpleOK'
  BY <1>0 DEF SimpleOK
<1>3. ConnsOK'
  BY <1>0 DEF ConnsOK, ConnStep, Made
<1>4. MadeOK'
  <2>1. \A d \in Made : ChannelFits(conn'[d])
    BY <1>0, <1>1, Zenon DEF MadeOK, ConnStep
  <2> QED  BY <1>0, <1>1, <2>1 DEF MadeOK
<1>5. TableOK'
  <2>1. table' \in [DOMAIN table' -> Made]
    BY <1>0 DEF TableOK, TableStep, TableWithout
  <2> QED  BY <1>0, <1>1, <2>1, TableStepIs DEF TableOK
<1>6. RefsOK'
  <2>1. ASSUME NEW l \in Loops, NEW t \in Tasks, Waiting(l, t)' PROVE Refers(l, t)'
    <3>1. Refers(l, t)
      BY <2>1, Zenon
    <3>2. conn'[t.conn].loop = conn[t.conn].loop
      BY <1>1, <3>1 DEF Refers, SameIdentity
    <3> QED  BY <1>1, <3>1, <3>2 DEF Refers
  <2> QED  BY <2>1, Zenon DEF RefsOK
<1> QED  BY <1>2, <1>3, <1>4, <1>5, <1>6, Zenon DEF TypeInv

\* A functor runs.
LEMMA RunsIs ==
  ASSUME TypeInv, NEW l \in Loops, NEW c \in Conns,
         NEW what \in {"establish", "remove", "destroy"}, Runs(l, what, c)
  PROVE  /\ Task(what, c) \in Tasks /\ Task(what, c).conn = c /\ Task(what, c).what = what
         /\ Advances(l, Task(what, c)) /\ Waiting(l, Task(what, c)) /\ Refers(l, Task(what, c))
         /\ c \in Made \ freed /\ Alive
         /\ UNCHANGED <<server, numThreads, nextLoop, nextConnId, backlog, freed, ended>>
<1> DEFINE t == Task(what, c)
<1>1. t \in Tasks /\ t.conn = c /\ t.what = what
  BY DEF Task, Tasks
<1>2. /\ Advances(l, t) /\ Alive
      /\ UNCHANGED <<server, numThreads, nextLoop, nextConnId, backlog, freed, ended>>
  BY DEF Runs, Advances
<1> HIDE DEF t
<1>3. PICK b, p, r \in Nat : b = Len(batch[l]) /\ p = Len(pending[l]) /\ r = ran[l]
  BY DEF TypeInv, QueuesOK
<1>4. r < b /\ batch[l][r + 1] = t
  BY <1>2, <1>3 DEF Advances
<1>5. r + 1 \in (r + 1)..(b + p) /\ r + 1 <= b
  BY <1>4
<1>6. r + 1 \in Due(l) /\ TaskAt(l, r + 1) = t
  BY <1>3, <1>4, <1>5, Zenon DEF Due, TaskAt
<1>7. Waiting(l, t)
  BY <1>6, Zenon DEF Waiting
<1>8. Refers(l, t)
  BY <1>1, <1>7 DEF TypeInv, RefsOK
<1> QED  BY <1>1, <1>2, <1>7, <1>8 DEF Refers, t

\* The queues after a functor that appends none.
LEMMA RunAlone ==
  ASSUME QueuesOK, NEW l \in Loops, NEW t, Advances(l, t), UNCHANGED pending
  PROVE  QueuesOK' /\ RanIn(l, t) /\ Elsewhere({l})
<1>1. QueuesOK'
  BY DEF QueuesOK, Advances
<1>2. \A m \in Loops \ {l} : pending'[m] = pending[m] /\ batch'[m] = batch[m] /\ ran'[m] = ran[m]
  BY DEF QueuesOK, Advances
<1> QED  BY <1>1, <1>2, RanIs, ElsewhereIs

\* The queues after a functor that appends one to another loop.
LEMMA RunAndAppend ==
  ASSUME QueuesOK, NEW l \in Loops, NEW t, Advances(l, t),
         NEW m \in Loops, m # l, NEW u \in Tasks, Appends(m, u)
  PROVE  QueuesOK' /\ RanIn(l, t) /\ AppendedTo(m, u) /\ Elsewhere({l, m})
<1>1. QueuesOK'
  BY DEF QueuesOK, Advances, Appends
<1>2. \A x \in Loops \ {l, m} : pending'[x] = pending[x] /\ batch'[x] = batch[x] /\ ran'[x] = ran[x]
  BY DEF QueuesOK, Advances, Appends
<1>3. pending'[l] = pending[l] /\ batch'[m] = batch[m] /\ ran'[m] = ran[m]
  BY DEF QueuesOK, Advances, Appends
<1> QED  BY <1>1, <1>2, <1>3, RanIs, AppendIs, ElsewhereIs

\* The queues after a functor was appended, by a callback.
LEMMA AppendAlone ==
  ASSUME QueuesOK, NEW m \in Loops, NEW u \in Tasks, Appends(m, u), UNCHANGED <<batch, ran>>
  PROVE  QueuesOK' /\ AppendedTo(m, u) /\ Elsewhere({m})
<1>1. QueuesOK'
  BY DEF QueuesOK, Appends
<1>2. \A x \in Loops \ {m} : pending'[x] = pending[x] /\ batch'[x] = batch[x] /\ ran'[x] = ran[x]
  BY DEF QueuesOK, Appends
<1> QED  BY <1>1, <1>2, AppendIs, ElsewhereIs

\* What a functor that appends none leaves behind.
RunsAway(l, t) ==
  /\ Advances(l, t) /\ Waiting(l, t) /\ Refers(l, t) /\ t \in Tasks
  /\ RanIn(l, t) /\ Elsewhere({l})
  /\ UNCHANGED <<server, numThreads, nextLoop, nextConnId, table, freed>> /\ Alive

LEMMA RunsAwayIs ==
  ASSUME TypeInv, NEW l \in Loops, NEW c \in Conns,
         NEW what \in {"establish", "remove", "destroy"}, Runs(l, what, c),
         UNCHANGED <<table, pending>>, ConnStep(c), died' \in BOOLEAN
  PROVE  TypeInv' /\ RunsAway(l, Task(what, c))
<1> DEFINE t == Task(what, c)
<1>1. /\ t \in Tasks /\ Advances(l, t) /\ Waiting(l, t) /\ Refers(l, t) /\ Alive
      /\ UNCHANGED <<server, numThreads, nextLoop, nextConnId, backlog, freed, ended>>
  BY RunsIs
<1> HIDE DEF t
<1>2. QueuesOK' /\ RanIn(l, t) /\ Elsewhere({l})
  BY <1>1, RunAlone DEF TypeInv
<1>3. \A m \in Loops, u \in Tasks : Waiting(m, u)' => Waiting(m, u)
  BY <1>2, RunWait, Zenon
<1>4. \A m \in Loops, u \in Tasks : Waiting(m, u)' => Refers(m, u)
  BY <1>3, Zenon DEF TypeInv, RefsOK
<1>5. TableStep(c)
  BY DEF TableStep
<1>6. TypeInv'
  BY <1>1, <1>2, <1>4, <1>5, StepType
<1> QED  BY <1>1, <1>2, <1>6 DEF RunsAway, t

Establishes(l, c) ==
  \/ /\ l = conn[c].loop /\ conn[c].state = "Connecting" /\ FdIsFree(l, conn[c].fd)
     /\ Becomes(c, conn'[c]) /\ SameIdentity(conn[c], conn'[c])
     /\ conn'[c].state = "Connected" /\ conn'[c].ch = OpenChannel
     /\ died' = died
  \/ /\ ~(l = conn[c].loop /\ conn[c].state = "Connecting" /\ FdIsFree(l, conn[c].fd))
     /\ UNCHANGED conn /\ died' = TRUE

LEMMA EstablishIs ==
  ASSUME TypeInv, NEW l \in Loops, NEW c \in Conns, ConnectEstablished(l, c)
  PROVE  TypeInv' /\ RunsAway(l, Task("establish", c)) /\ Establishes(l, c)
<1>1. Runs(l, "establish", c) /\ UNCHANGED <<table, pending>>
  BY Zenon DEF ConnectEstablished
<1>2. c \in Made \ freed
  BY <1>1, RunsIs
<1>3. ConnsOK /\ ChannelFits(conn[c])
  BY <1>2 DEF TypeInv, MadeOK
<1>4. conn[c].state = "Connecting" => conn[c].ch = NewChannel
  BY <1>3, Zenon DEF ChannelFits
<1>5. Establishes(l, c) /\ ConnStep(c)
  <2>1. CASE l = conn[c].loop /\ conn[c].state = "Connecting" /\ FdIsFree(l, conn[c].fd)
    <3>1. conn' = [conn EXCEPT ![c] = Established(@)] /\ died' = died
      BY <2>1, Zenon DEF ConnectEstablished
    <3>2. /\ ConnsOK' /\ Becomes(c, Established(conn[c])) /\ SameIdentity(conn[c], conn'[c])
          /\ conn'[c].state = "Connected" /\ conn'[c].ch = OpenChannel
      BY <1>2, <1>3, <1>4, <2>1, <3>1, EstablishBecomes
    <3>3. Becomes(c, conn'[c]) /\ ChannelFits(conn'[c])
      BY <3>2, Zenon DEF Becomes, ChannelFits
    <3> QED  BY <2>1, <3>1, <3>2, <3>3, Zenon DEF Establishes, ConnStep
  <2>2. CASE ~(l = conn[c].loop /\ conn[c].state = "Connecting" /\ FdIsFree(l, conn[c].fd))
    BY <2>2, Zenon DEF ConnectEstablished, Establishes, ConnStep
  <2> QED  BY <2>1, <2>2
<1>6. died' \in BOOLEAN
  BY <1>5, Zenon DEF Establishes, TypeInv, SimpleOK
<1> QED  BY <1>1, <1>5, <1>6, RunsAwayIs

Destroys(l, c) ==
  \/ /\ l = conn[c].loop /\ conn[c].ch.mapped
     /\ Becomes(c, conn'[c]) /\ SameIdentity(conn[c], conn'[c])
     /\ conn'[c].state = "Disconnected" /\ conn'[c].ch = NewChannel
     /\ died' = died
  \/ ~(l = conn[c].loop /\ MayRemove(conn[c].ch)) /\ UNCHANGED conn /\ died' = TRUE

LEMMA DestroyIs ==
  ASSUME TypeInv, NEW l \in Loops, NEW c \in Conns, ConnectDestroyed(l, c)
  PROVE  TypeInv' /\ RunsAway(l, Task("destroy", c)) /\ Destroys(l, c)
<1>1. Runs(l, "destroy", c) /\ UNCHANGED <<table, pending>>
  BY Zenon DEF ConnectDestroyed
<1>2. c \in Made \ freed
  BY <1>1, RunsIs
<1>3. ConnsOK /\ ChannelFits(conn[c])
  BY <1>2 DEF TypeInv, MadeOK
<1>4. MayRemove(conn[c].ch) => conn[c].ch = ClosedChannel /\ conn[c].state = "Disconnected"
  <2>1. ~MayRemove(OpenChannel)
    BY DEF MayRemove, OpenChannel, EnableReading, UpdateChannel, NewChannel, IsNoneEvent
  <2> QED  BY <1>3, <2>1, ChannelShapes, Zenon DEF ChannelFits
<1>5. Destroys(l, c) /\ ConnStep(c)
  <2>1. CASE l = conn[c].loop /\ MayRemove(conn[c].ch)
    <3>1. conn' = [conn EXCEPT ![c].ch = RemoveChannel(@)] /\ died' = died
      BY <2>1, Zenon DEF ConnectDestroyed
    <3>2. /\ ConnsOK' /\ Becomes(c, conn'[c]) /\ SameIdentity(conn[c], conn'[c])
          /\ conn'[c].state = conn[c].state /\ conn'[c].ch = NewChannel
      BY <1>2, <1>3, <1>4, <2>1, <3>1, DestroyBecomes
    <3>3. conn'[c].state = "Disconnected" /\ ChannelFits(conn'[c]) /\ conn[c].ch.mapped
      BY <1>4, <2>1, <3>2, ChannelShapes DEF ChannelFits
    <3> QED  BY <2>1, <3>1, <3>2, <3>3, Zenon DEF Destroys, ConnStep
  <2>2. CASE ~(l = conn[c].loop /\ MayRemove(conn[c].ch))
    BY <2>2, Zenon DEF ConnectDestroyed, Destroys, ConnStep
  <2> QED  BY <2>1, <2>2
<1>6. died' \in BOOLEAN
  BY <1>5, Zenon DEF Destroys, TypeInv, SimpleOK
<1> QED  BY <1>1, <1>5, <1>6, RunsAwayIs

\* removeConnectionInLoop takes the connection out of the table and appends
\* its end to its loop.
Removes(l, c) ==
  \E m \in Loops :
    /\ m = conn[c].loop
    /\ Waiting(l, Task("remove", c)) /\ Refers(l, Task("remove", c)) /\ Alive
    /\ UNCHANGED <<server, numThreads, nextLoop, nextConnId, freed, conn>>
    /\ \/ /\ conn[c].name \in DOMAIN table
          /\ table' = TableWithout(conn[c].name) /\ died' = died
          /\ RanIn(l, Task("remove", c)) /\ AppendedTo(m, Task("destroy", c)) /\ Elsewhere({l, m})
       \/ /\ conn[c].name \notin DOMAIN table
          /\ table' = table /\ died' = TRUE

LEMMA RemoveIs ==
  ASSUME TypeInv, NEW l \in Loops, NEW c \in Conns, RemoveConnectionInLoop(l, c)
  PROVE  TypeInv' /\ Removes(l, c)
<1> DEFINE t == Task("remove", c)
           u == Task("destroy", c)
<1>1. Runs(l, "remove", c) /\ UNCHANGED conn
  BY Zenon DEF RemoveConnectionInLoop
<1>2. /\ t \in Tasks /\ t.what = "remove" /\ t.conn = c
      /\ Advances(l, t) /\ Waiting(l, t) /\ Refers(l, t) /\ Alive /\ c \in Made \ freed
      /\ UNCHANGED <<server, numThreads, nextLoop, nextConnId, backlog, freed, ended>>
  BY <1>1, RunsIs
<1>3. PICK m \in Loops : m = conn[c].loop /\ l = Base /\ m # Base
  BY <1>2 DEF Refers, TypeInv, ConnsOK, Connection
<1>4. u \in Tasks /\ u.conn = c /\ u.what = "destroy" /\ u.what # "remove"
  BY DEF Task, Tasks
<1>5. ConnStep(c)
  BY <1>1 DEF ConnStep
<1> HIDE DEF t, u
<1>6. CASE conn[c].name \in DOMAIN table
  <2>1. table' = TableWithout(conn[c].name) /\ Appends(m, u) /\ died' = died
    BY <1>3, <1>6, Zenon DEF RemoveConnectionInLoop, Appends, u
  <2>2. QueuesOK' /\ RanIn(l, t) /\ AppendedTo(m, u) /\ Elsewhere({l, m})
    BY <1>2, <1>3, <1>4, <2>1, RunAndAppend DEF TypeInv
  <2>3. \A x \in Loops, v \in Tasks : Waiting(x, v)' => Waiting(x, v) \/ (x = m /\ v = u)
    <3>1. l # m /\ u.conn = t.conn
      BY <1>2, <1>3, <1>4
    <3> QED  BY <1>4, <2>2, <3>1, RunAppendWait, Zenon
  <2>4. Refers(m, u)
    BY <1>2, <1>4, Zenon DEF Refers
  <2>5. \A x \in Loops, v \in Tasks : Waiting(x, v)' => Refers(x, v)
    BY <2>3, <2>4, Zenon DEF TypeInv, RefsOK
  <2>6. TableStep(c) /\ died' \in BOOLEAN
    BY <2>1, Zenon DEF TableStep, TypeInv, SimpleOK
  <2>7. TypeInv'
    BY <1>2, <1>5, <2>2, <2>5, <2>6, StepType
  <2> QED  BY <1>1, <1>2, <1>3, <1>6, <2>1, <2>2, <2>7 DEF Removes, t, u
<1>7. CASE conn[c].name \notin DOMAIN table
  <2>1. UNCHANGED <<table, pending>> /\ died' = TRUE
    BY <1>7, Zenon DEF RemoveConnectionInLoop
  <2>2. TypeInv'
    BY <1>1, <1>5, <2>1, RunsAwayIs
  <2> QED  BY <1>1, <1>2, <1>3, <1>7, <2>1, <2>2 DEF Removes, t
<1> QED  BY <1>6, <1>7

\* handleClose.
Closes(c) ==
  /\ c \in Made \ freed /\ conn[c].state = "Connected" /\ Alive
  /\ Becomes(c, conn'[c]) /\ SameIdentity(conn[c], conn'[c])
  /\ conn'[c].state = "Disconnected" /\ conn'[c].ch = ClosedChannel
  /\ UNCHANGED <<server, numThreads, nextLoop, nextConnId, freed>>
  /\ Elsewhere({Base})
  /\ \/ /\ conn[c].loop # Base
        /\ AppendedTo(Base, Task("remove", c)) /\ UNCHANGED <<table, died>>
     \/ /\ conn[c].loop = Base
        /\ AppendedTo(Base, Task("destroy", c)) /\ table' = TableWithout(conn[c].name)
        /\ died' = (conn[c].name \notin DOMAIN table)

LEMMA CloseIs ==
  ASSUME TypeInv, NEW c \in Conns, HandleClose(c)
  PROVE  TypeInv' /\ Closes(c)
<1>1. /\ c \in Made \ freed /\ conn[c].state = "Connected" /\ Alive
      /\ conn' = [conn EXCEPT ![c].state = "Disconnected", ![c].ch = DisableAll(@)]
      /\ UNCHANGED <<server, numThreads, nextLoop, nextConnId, backlog, freed, batch, ran, ended>>
  BY DEF HandleClose, Dispatches
<1>2. ConnsOK /\ ChannelFits(conn[c]) /\ conn[c].ch = OpenChannel
  BY <1>1 DEF TypeInv, MadeOK, ChannelFits
<1>3. /\ ConnsOK' /\ Becomes(c, conn'[c]) /\ SameIdentity(conn[c], conn'[c])
      /\ conn'[c].state = "Disconnected" /\ conn'[c].ch = ClosedChannel
  BY <1>1, <1>2, CloseBecomes
<1>4. ConnStep(c)
  BY <1>3 DEF ConnStep, ChannelFits
<1>5. Base \in Loops
  BY ThreadsAssumption DEF Base, Loops
<1> DEFINE u == IF conn[c].loop # Base THEN Task("remove", c) ELSE Task("destroy", c)
<1>6. /\ u \in Tasks /\ u.conn = c
      /\ conn[c].loop # Base => u = Task("remove", c)
      /\ conn[c].loop = Base => u = Task("destroy", c)
      /\ u.what = "remove" => conn[c].loop # Base
  <2>1. /\ Task("remove", c) \in Tasks /\ Task("remove", c).conn = c
        /\ Task("destroy", c) \in Tasks /\ Task("destroy", c).conn = c
        /\ Task("destroy", c).what # "remove"
    BY DEF Task, Tasks
  <2> QED  BY <2>1, Zenon
<1>7. Appends(Base, u)
  BY Zenon DEF HandleClose, Appends
<1>8. /\ conn[c].loop # Base => UNCHANGED <<table, died>>
      /\ conn[c].loop = Base => /\ table' = TableWithout(conn[c].name)
                                /\ died' = (conn[c].name \notin DOMAIN table)
  BY Zenon DEF HandleClose
<1> HIDE DEF u
<1>9. QueuesOK' /\ AppendedTo(Base, u) /\ Elsewhere({Base})
  BY <1>1, <1>5, <1>6, <1>7, AppendAlone DEF TypeInv
<1>10. \A x \in Loops, v \in Tasks : Waiting(x, v)' => Waiting(x, v) \/ (x = Base /\ v = u)
  BY <1>5, <1>6, <1>9, AppendWait, Zenon
<1>11. Refers(Base, u)
  BY <1>1, <1>6, Zenon DEF Refers
<1>12. \A x \in Loops, v \in Tasks : Waiting(x, v)' => Refers(x, v)
  BY <1>10, <1>11, Zenon DEF TypeInv, RefsOK
<1>13. TableStep(c) /\ died' \in BOOLEAN
  BY <1>8, Zenon DEF TableStep, TypeInv, SimpleOK
<1>14. TypeInv'
  BY <1>1, <1>4, <1>9, <1>12, <1>13, StepType
<1>15. Closes(c)
  BY <1>1, <1>3, <1>6, <1>8, <1>9 DEF Closes
<1> QED  BY <1>14, <1>15

\* Acceptor::handleRead and newConnection.
Accepts(c, fd) ==
  /\ c \notin Made /\ Alive /\ server = "started"
  /\ \A d \in Made \ freed : conn[d].fd # fd
  /\ nextLoop' = AfterLoop /\ nextConnId' = nextConnId + 1 /\ table' = TableWith(nextConnId, c)
  /\ UNCHANGED <<server, numThreads, freed>>
  /\ Made' = Made \union {c} /\ \A d \in Made : conn'[d] = conn[d]
  /\ conn'[c].fd = fd /\ conn'[c].name = nextConnId
  /\ \E m \in Loops :
       /\ m = NextLoop /\ conn'[c].loop = m
       /\ \/ /\ m = Base /\ conn'[c].state = "Connected" /\ conn'[c].ch = OpenChannel
             /\ UNCHANGED loopVars /\ died' = ~FdIsFree(Base, fd)
          \/ /\ m # Base /\ conn'[c].state = "Connecting" /\ conn'[c].ch = NewChannel
             /\ AppendedTo(m, Task("establish", c)) /\ Elsewhere({m}) /\ died' = FALSE

LEMMA AcceptIs ==
  ASSUME TypeInv, NEW c \in Conns, NEW fd \in Fds, Accept(c, fd)
  PROVE  TypeInv' /\ Accepts(c, fd)
<1> DEFINE new == [state |-> "Connecting", loop |-> NextLoop, fd |-> fd, name |-> nextConnId,
                   ch |-> NewChannel]
           r == IF NextLoop = Base THEN Established(new) ELSE new
           u == Task("establish", c)
<1>0. SimpleOK /\ ConnsOK /\ MadeOK /\ TableOK /\ QueuesOK /\ RefsOK
  BY DEF TypeInv
<1>1. /\ Alive /\ server = "started" /\ c \in backlog /\ fd \in FreeFds
      /\ backlog' = backlog \ {c} /\ nextLoop' = AfterLoop /\ nextConnId' = nextConnId + 1
      /\ table' = TableWith(nextConnId, c)
      /\ UNCHANGED <<server, numThreads, freed, batch, ran, ended>>
  BY DEF Accept, AcceptThen, Dispatches
<1>2. conn' = ConnWith(c, r) /\ died' = (NextLoop = Base /\ ~FdIsFree(Base, fd))
  BY Zenon DEF Accept, AcceptThen
<1>3. IF NextLoop = Base THEN UNCHANGED pending ELSE Appends(NextLoop, u)
  BY Zenon DEF Accept, AcceptThen, Appends
<1>4. c \notin Made /\ c \notin freed /\ \A d \in Made \ freed : conn[d].fd # fd
  BY <1>0, <1>1 DEF MadeOK, FreeFds
<1>5. PICK m \in Loops : m = NextLoop
  BY <1>0, ThreadsAssumption DEF SimpleOK, NextLoop, Loops, Base
<1>6. new \in Connection /\ new.ch = NewChannel /\ new.state = "Connecting"
  BY <1>0, <1>5, ChannelShapes DEF Connection, SimpleOK
<1>7. new.loop = NextLoop /\ new.fd = fd /\ new.name = nextConnId
  OBVIOUS
<1>8. u \in Tasks /\ u.conn = c /\ u.what # "remove"
  BY DEF Task, Tasks
<1> HIDE DEF new, u
<1>19. /\ conn' = ConnWith(c, r) /\ died' = (m = Base /\ ~FdIsFree(Base, fd))
       /\ IF m = Base THEN UNCHANGED pending ELSE Appends(m, u)
       /\ new.loop = m /\ r = IF m = Base THEN Established(new) ELSE new
  BY <1>2, <1>3, <1>5, <1>7, Zenon DEF r
<1>9. /\ r \in Connection /\ r.loop = m /\ r.fd = fd /\ r.name = nextConnId
      /\ m = Base => r.state = "Connected" /\ r.ch = OpenChannel
      /\ m # Base => r.state = "Connecting" /\ r.ch = NewChannel
      /\ ChannelFits(r)
  <2>1. CASE m = Base
    <3>1. r = Established(new)
      BY <1>19, <2>1
    <3>2. /\ r \in Connection /\ SameIdentity(new, r)
          /\ r.state = "Connected" /\ r.ch = OpenChannel
      BY <1>6, <3>1, Establishing
    <3> QED  BY <1>7, <1>19, <2>1, <3>2, Zenon DEF SameIdentity, ChannelFits
  <2>2. CASE m # Base
    <3>1. r = new
      BY <1>19, <2>2
    <3> QED  BY <1>6, <1>7, <1>19, <2>2, <3>1, Zenon DEF ChannelFits
  <2> QED  BY <2>1, <2>2
<1> HIDE DEF r
<1>10. /\ Made' = Made \union {c} /\ conn'[c] = r /\ \A d \in Made : conn'[d] = conn[d]
       /\ ConnsOK'
  BY <1>0, <1>4, <1>9, <1>19 DEF ConnsOK, ConnWith, Made
<1>11. SimpleOK'
  <2>1. died' \in BOOLEAN
    BY <1>19, Zenon
  <2> QED  BY <1>0, <1>1, <2>1, ThreadsAssumption DEF SimpleOK, AfterLoop
<1>12. MadeOK'
  <2>1. IsFiniteSet(Made')
    BY <1>0, <1>10, FS_AddElement DEF MadeOK
  <2>2. \A d \in Made' : ChannelFits(conn'[d])
    BY <1>0, <1>9, <1>10 DEF MadeOK
  <2> QED  BY <1>0, <1>1, <1>10, <2>1, <2>2 DEF MadeOK
<1>13. TableOK'
  BY <1>0, <1>1, <1>4, <1>10 DEF TableOK, TableWith, SimpleOK
<1>14. /\ QueuesOK'
       /\ m = Base => UNCHANGED loopVars
       /\ m # Base => AppendedTo(m, u) /\ Elsewhere({m})
  <2>1. CASE m = Base
    BY <1>0, <1>1, <1>19, <2>1 DEF QueuesOK, loopVars
  <2>2. CASE m # Base
    BY <1>0, <1>1, <1>8, <1>19, <2>2, AppendAlone
  <2> QED  BY <2>1, <2>2
<1>15. \A x \in Loops, v \in Tasks : Waiting(x, v)' => Waiting(x, v) \/ v = u
  <2>1. CASE m = Base
    <3>1. WaitSame
      BY <1>14, <2>1, SameQueues
    <3> QED  BY <3>1, Zenon DEF WaitSame
  <2>2. CASE m # Base
    BY <1>8, <1>14, <2>2, AppendWait, Zenon
  <2> QED  BY <2>1, <2>2
<1>16. RefsOK'
  <2>1. ASSUME NEW x \in Loops, NEW v \in Tasks, Waiting(x, v)' PROVE Refers(x, v)'
    <3>1. CASE v = u
      BY <1>1, <1>4, <1>8, <1>10, <3>1 DEF Refers
    <3>2. CASE v # u
      <4>1. Refers(x, v)
        BY <1>0, <1>15, <2>1, <3>2, Zenon DEF RefsOK
      <4> QED  BY <1>1, <1>10, <4>1 DEF Refers
    <3> QED  BY <3>1, <3>2
  <2> QED  BY <2>1, Zenon DEF RefsOK
<1>17. TypeInv'
  BY <1>10, <1>11, <1>12, <1>13, <1>14, <1>16, Zenon DEF TypeInv
<1>18. Accepts(c, fd)
  <2>1. m = Base => died' = ~FdIsFree(Base, fd)
    BY <1>19, Zenon
  <2>2. m # Base => died' = FALSE
    BY <1>19, Zenon
  <2>3. conn'[c].loop = m /\ conn'[c].fd = fd /\ conn'[c].name = nextConnId
    BY <1>9, <1>10
  <2>4. /\ m = Base => conn'[c].state = "Connected" /\ conn'[c].ch = OpenChannel
        /\ m # Base => conn'[c].state = "Connecting" /\ conn'[c].ch = NewChannel
    BY <1>9, <1>10
  <2> QED  BY <1>1, <1>4, <1>5, <1>10, <1>14, <2>1, <2>2, <2>3, <2>4 DEF Accepts, u
<1> QED  BY <1>17, <1>18

\* Every step is one of these.
LEMMA StepsAre ==
  ASSUME Next
  PROVE  \/ QuietStep
         \/ DestroyServer
         \/ \E c \in Conns : HandleClose(c)
         \/ \E c \in Conns, fd \in Fds : Accept(c, fd)
         \/ \E l \in Loops : Swap(l) \/ EndBatch(l) \/ JoinLoop(l)
         \/ \E l \in Loops, c \in Conns : ConnectEstablished(l, c)
         \/ \E l \in Loops, c \in Conns : RemoveConnectionInLoop(l, c)
         \/ \E l \in Loops, c \in Conns : ConnectDestroyed(l, c)
  BY Zenon DEF Next, LoopStep, RunTask, QuietStep

LEMMA NextType == TypeInv /\ [Next]_vars => TypeInv'
<1> SUFFICES ASSUME TypeInv, [Next]_vars PROVE TypeInv'
  OBVIOUS
<1>1. CASE UNCHANGED vars
  <2>1. /\ UNCHANGED loopVars
        /\ UNCHANGED <<server, numThreads, nextLoop, nextConnId, backlog, freed, ended, died, table, conn>>
    BY <1>1 DEF vars, loopVars
  <2>2. QueuesOK' /\ died' \in BOOLEAN
    BY <2>1, Zenon DEF TypeInv, QueuesOK, SimpleOK, loopVars
  <2>3. \A l \in Loops, t \in Tasks : Waiting(l, t)' => Refers(l, t)
    BY <2>1, SameQueues, Zenon DEF WaitSame, TypeInv, RefsOK
  <2>4. \A c : ConnStep(c) /\ TableStep(c)
    BY <2>1, Zenon DEF ConnStep, TableStep
  <2> QED  BY <2>1, <2>2, <2>3, <2>4, StepType
<1>2. CASE QuietStep
  BY <1>2, QuietType
<1>3. CASE DestroyServer
  BY <1>3, DestroyServerIs
<1>4. ASSUME NEW c \in Conns, HandleClose(c) PROVE TypeInv'
  BY <1>4, CloseIs
<1>5. ASSUME NEW c \in Conns, NEW fd \in Fds, Accept(c, fd) PROVE TypeInv'
  BY <1>5, AcceptIs
<1>6. ASSUME NEW l \in Loops, Swap(l) \/ EndBatch(l) \/ JoinLoop(l) PROVE TypeInv'
  BY <1>6, SwapType, EndBatchIs, JoinLoopIs
<1>7. ASSUME NEW l \in Loops, NEW c \in Conns,
             ConnectEstablished(l, c) \/ RemoveConnectionInLoop(l, c) \/ ConnectDestroyed(l, c)
      PROVE  TypeInv'
  BY <1>7, EstablishIs, RemoveIs, DestroyIs
<1> QED  BY <1>1, <1>2, <1>3, <1>4, <1>5, <1>6, <1>7, StepsAre, Zenon

LEMMA TypeInvariant == Spec => []TypeInv
  BY InitType, NextType, PTL DEF Spec

\* The variables keep their types; what refers to a connection refers to one
\* that was made.
THEOREM TypesHold == Spec => []TypeOK
  BY TypeInvariant, TypesAreOK, PTL

-----------------------------------------------------------------------------
(* The pollers.                                                            *)

\* One connection changes: its channel is mapped only where its descriptor is
\* free.
LEMMA PollersAfterOne ==
  ASSUME PollersKnowTheLiving, Alive, UNCHANGED freed, NEW c \in Made \ freed,
         Becomes(c, conn'[c]), SameIdentity(conn[c], conn'[c]),
         conn'[c].ch.mapped => conn[c].ch.mapped \/ FdIsFree(conn[c].loop, conn[c].fd)
  PROVE  PollersKnowTheLiving'
<1>1. /\ Made' = Made /\ \A d \in Made \ {c} : conn'[d] = conn[d]
      /\ conn'[c].loop = conn[c].loop /\ conn'[c].fd = conn[c].fd
  BY DEF Becomes, SameIdentity
<1>2. \A d \in Made : conn'[d].loop = conn[d].loop /\ conn'[d].fd = conn[d].fd
  BY <1>1
<1>3. \A d \in Made \ {c} : conn'[d].ch.mapped <=> conn[d].ch.mapped
  BY <1>1, Zenon
<1>4. ASSUME NEW a \in Made, NEW b \in Made \ {a}, conn'[a].ch.mapped, conn'[b].ch.mapped,
             conn[b].loop = conn[a].loop
      PROVE  conn[b].fd # conn[a].fd
  <2>1. CASE a # c /\ b # c
    BY <1>3, <1>4, <2>1, Zenon DEF PollersKnowTheLiving
  <2>2. CASE a = c /\ b # c
    <3>1. conn[b].ch.mapped
      BY <1>3, <1>4, <2>2, Zenon
    <3> QED  BY <1>4, <2>2, <3>1, Zenon DEF PollersKnowTheLiving, FdIsFree
  <2>3. CASE a # c /\ b = c
    <3>1. conn[a].ch.mapped
      BY <1>3, <1>4, <2>3, Zenon
    <3> QED  BY <1>4, <2>3, <3>1, Zenon DEF PollersKnowTheLiving, FdIsFree
  <2> QED  BY <2>1, <2>2, <2>3
<1>5. ASSUME NEW a \in Made, conn'[a].ch.mapped PROVE a \notin freed
  <2>1. CASE a = c
    BY <2>1
  <2>2. CASE a # c
    BY <1>3, <1>5, <2>2, Zenon DEF PollersKnowTheLiving
  <2> QED  BY <2>1, <2>2
<1>6. ASSUME NEW a \in Made, NEW b \in Made \ {a}, conn'[a].ch.mapped, conn'[b].ch.mapped,
             conn'[b].loop = conn'[a].loop
      PROVE  conn'[b].fd # conn'[a].fd
  <2>1. conn[b].loop = conn[a].loop
    BY <1>2, <1>6, Zenon
  <2>2. conn[b].fd # conn[a].fd
    BY <1>4, <1>6, <2>1, Zenon
  <2> QED  BY <1>2, <2>2, Zenon
<1> QED  BY <1>1, <1>5, <1>6, Zenon DEF PollersKnowTheLiving

LEMMA PollersAfterNone ==
  ASSUME PollersKnowTheLiving, Alive, UNCHANGED <<freed, conn>>
  PROVE  PollersKnowTheLiving'
<1>1. Made' = Made
  BY DEF Made
<1> QED  BY <1>1, Zenon DEF PollersKnowTheLiving

LEMMA PollersAfterRelease ==
  ASSUME TypeInv, PollersKnowTheLiving, Alive, Releases, UNCHANGED conn
  PROVE  PollersKnowTheLiving'
<1>1. Made' = Made
  BY DEF Made
<1>2. ASSUME Alive', NEW c \in Made, conn[c].ch.mapped PROVE c \notin freed'
  <2>1. c \notin freed /\ ChannelFits(conn[c])
    BY <1>2, Zenon DEF PollersKnowTheLiving, TypeInv, MadeOK
  <2>2. conn[c].ch.added
    BY <1>2, <2>1, ChannelOf, Zenon
  <2> QED  BY <1>2, <2>1, <2>2, Zenon DEF Releases, Alive
<1> QED  BY <1>1, <1>2, Zenon DEF PollersKnowTheLiving

LEMMA PollersAfterAccept ==
  ASSUME TypeInv, PollersKnowTheLiving, NEW c \in Conns, NEW fd \in Fds, Accepts(c, fd)
  PROVE  PollersKnowTheLiving'
<1>1. /\ c \notin Made /\ c \notin freed /\ Alive /\ freed' = freed
      /\ Made' = Made \union {c} /\ \A d \in Made : conn'[d] = conn[d]
      /\ conn'[c].fd = fd
  BY DEF Accepts, TypeInv, MadeOK
<1>2. Alive' /\ conn'[c].ch.mapped => conn'[c].loop = Base /\ FdIsFree(Base, fd)
  BY ChannelShapes, Zenon DEF Accepts, Alive
<1>3. ASSUME Alive', NEW a \in Made', NEW b \in Made' \ {a}, conn'[a].ch.mapped, conn'[b].ch.mapped,
             conn'[b].loop = conn'[a].loop
      PROVE  conn'[b].fd # conn'[a].fd
  <2>1. CASE a \in Made /\ b \in Made
    BY <1>1, <1>3, <2>1, Zenon DEF PollersKnowTheLiving
  <2>2. CASE a = c /\ b \in Made
    <3>1. conn[b].ch.mapped /\ conn[b].loop = Base /\ FdIsFree(Base, fd)
      BY <1>1, <1>2, <1>3, <2>2, Zenon
    <3>2. conn[b].fd # fd
      BY <2>2, <3>1, Zenon DEF FdIsFree
    <3> QED  BY <1>1, <2>2, <3>2, Zenon
  <2>3. CASE b = c /\ a \in Made
    <3>1. conn[a].ch.mapped /\ conn[a].loop = Base /\ FdIsFree(Base, fd)
      BY <1>1, <1>2, <1>3, <2>3, Zenon
    <3>2. conn[a].fd # fd
      BY <2>3, <3>1, Zenon DEF FdIsFree
    <3> QED  BY <1>1, <2>3, <3>2, Zenon
  <2> QED  BY <1>1, <1>3, <2>1, <2>2, <2>3
<1>4. ASSUME NEW a \in Made', conn'[a].ch.mapped PROVE a \notin freed
  <2>1. CASE a \in Made
    BY <1>1, <1>4, <2>1, Zenon DEF PollersKnowTheLiving
  <2>2. CASE a = c
    BY <1>1, <2>2
  <2> QED  BY <1>1, <2>1, <2>2
<1> QED  BY <1>1, <1>3, <1>4, Zenon DEF PollersKnowTheLiving

LEMMA InitPollers == Init => PollersKnowTheLiving
<1>1. Init => Made = {}
  BY DEF Init, Made
<1> QED  BY <1>1, Zenon DEF PollersKnowTheLiving

LEMMA NextPollers == TypeInv /\ PollersKnowTheLiving /\ [Next]_vars => PollersKnowTheLiving'
<1> SUFFICES ASSUME TypeInv, PollersKnowTheLiving, [Next]_vars PROVE PollersKnowTheLiving'
  OBVIOUS
<1>1. CASE UNCHANGED vars
  <2>1. UNCHANGED <<conn, freed, died>> /\ Made' = Made
    BY <1>1 DEF vars, Made
  <2> QED  BY <2>1, Zenon DEF PollersKnowTheLiving, Alive
<1>2. CASE QuietStep
  BY <1>2, QuietIs, PollersAfterNone
<1>3. CASE DestroyServer
  BY <1>3, DestroyServerIs, PollersAfterRelease
<1>4. ASSUME NEW c \in Conns, HandleClose(c) PROVE PollersKnowTheLiving'
  <2>1. Closes(c)
    BY <1>4, CloseIs
  <2>2. c \in Made \ freed /\ conn[c].ch.mapped
    BY <2>1, ChannelShapes, Zenon DEF Closes, TypeInv, MadeOK, ChannelFits
  <2> QED  BY <2>1, <2>2, PollersAfterOne DEF Closes
<1>5. ASSUME NEW c \in Conns, NEW fd \in Fds, Accept(c, fd) PROVE PollersKnowTheLiving'
  BY <1>5, AcceptIs, PollersAfterAccept
<1>6. ASSUME NEW l \in Loops, Swap(l) PROVE PollersKnowTheLiving'
  <2>1. Alive
    BY <1>6 DEF Swap
  <2> QED  BY <1>6, <2>1, SwapType, PollersAfterNone
<1>7. ASSUME NEW l \in Loops, EndBatch(l) \/ JoinLoop(l) PROVE PollersKnowTheLiving'
  BY <1>7, EndBatchIs, JoinLoopIs, PollersAfterRelease
<1>8. ASSUME NEW l \in Loops, NEW c \in Conns, ConnectEstablished(l, c) PROVE PollersKnowTheLiving'
  <2>1. RunsAway(l, Task("establish", c)) /\ Establishes(l, c)
    BY <1>8, EstablishIs
  <2>2. c \in Made \ freed /\ UNCHANGED freed /\ Alive
    BY <2>1 DEF RunsAway, Refers, Task
  <2>3. CASE died'
    BY <2>3, Zenon DEF PollersKnowTheLiving, Alive
  <2>4. CASE ~died'
    <3>1. /\ FdIsFree(conn[c].loop, conn[c].fd)
          /\ Becomes(c, conn'[c]) /\ SameIdentity(conn[c], conn'[c])
      BY <2>1, <2>4, Zenon DEF Establishes
    <3> QED  BY <2>2, <3>1, PollersAfterOne
  <2> QED  BY <2>3, <2>4
<1>9. ASSUME NEW l \in Loops, NEW c \in Conns, RemoveConnectionInLoop(l, c) PROVE PollersKnowTheLiving'
  <2>1. Removes(l, c)
    BY <1>9, RemoveIs
  <2> QED  BY <2>1, PollersAfterNone DEF Removes
<1>10. ASSUME NEW l \in Loops, NEW c \in Conns, ConnectDestroyed(l, c) PROVE PollersKnowTheLiving'
  <2>1. RunsAway(l, Task("destroy", c)) /\ Destroys(l, c)
    BY <1>10, DestroyIs
  <2>2. c \in Made \ freed /\ UNCHANGED freed /\ Alive
    BY <2>1 DEF RunsAway, Refers, Task
  <2>3. CASE died'
    BY <2>3, Zenon DEF PollersKnowTheLiving, Alive
  <2>4. CASE ~died'
    <3>1. conn[c].ch.mapped /\ Becomes(c, conn'[c]) /\ SameIdentity(conn[c], conn'[c])
      BY <2>1, <2>4, Zenon DEF Destroys
    <3> QED  BY <2>2, <3>1, PollersAfterOne
  <2> QED  BY <2>3, <2>4
<1> QED
  BY <1>1, <1>2, <1>3, <1>4, <1>5, <1>6, <1>7, <1>8, <1>9, <1>10, StepsAre, Zenon

\* No poller knows a channel whose connection is deleted, or two channels for
\* one descriptor, even while the server is being destroyed.
THEOREM PollersAreSafe == Spec => []PollersKnowTheLiving
  BY InitPollers, NextPollers, TypeInvariant, PTL DEF Spec

-----------------------------------------------------------------------------
(* The life of a connection.                                               *)

WaitsFor(c) == \E l \in Loops, t \in Tasks : t.conn = c /\ Waiting(l, t)

LEMMA IdleIs == ASSUME QueuesOK, NEW c, ~WaitsFor(c) PROVE Idle(c)
<1>1. ASSUME NEW l \in Loops, NEW k \in Due(l) PROVE TaskAt(l, k).conn # c
  <2>1. TaskAt(l, k) \in Tasks
    BY DueAreTasks
  <2> QED  BY <2>1, Zenon DEF WaitsFor, Waiting
<1> QED  BY <1>1, Zenon DEF Idle

LEMMA IdleAfter == ASSUME NEW c, Idle(c)' PROVE ~WaitsFor(c)'
  BY Zenon DEF Idle, WaitsFor, Waiting

\* A connection that the step does not touch.
LEMMA Unaffected ==
  ASSUME NEW d, LifeOf(d), conn'[d] = conn[d], InTable(d)' <=> InTable(d),
         \A l \in Loops, t \in Tasks : t.conn = d => (Waiting(l, t)' <=> Waiting(l, t))
  PROVE  LifeOf(d)'
<1>1. ASSUME NEW l, NEW t, t.conn = d PROVE IsDue(l, t)' <=> IsDue(l, t)
  BY <1>1, Zenon DEF IsDue
<1> QED  BY <1>1, Zenon DEF LifeOf

\* Nothing but the functors' places and what is deleted changes.
LEMMA LifeAfterNone ==
  ASSUME TypeInv, LifeInv, Alive', WaitSame, UNCHANGED <<conn, table, nextConnId>>, freed \subseteq freed'
  PROVE  LifeInv'
<1>1. Made' = Made /\ OnePlace'
  BY DEF Made, LifeInv, WaitSame
<1>2. ASSUME NEW d \in Made \ freed PROVE LifeOf(d)'
  <2>1. InTable(d)' <=> InTable(d)
    BY Zenon DEF InTable
  <2> QED  BY <2>1, Unaffected, Zenon DEF LifeInv, WaitSame
<1>3. NamesInv'
  BY Zenon DEF LifeInv, NamesInv
<1>4. FdsDiffer'
  BY <1>1 DEF LifeInv, FdsDiffer
<1> QED  BY <1>1, <1>2, <1>3, <1>4 DEF LifeInv

\* One connection changes.
LEMMA LifeAfterOne ==
  ASSUME TypeInv, LifeInv, Alive', OnePlace', UNCHANGED <<nextConnId, freed>>,
         NEW c \in Made \ freed, Made' = Made,
         \A d \in Made : SameIdentity(conn[d], conn'[d]),
         \A d \in Made \ {c} : conn'[d] = conn[d],
         table' = table \/ (InTable(c) /\ table' = TableWithout(conn[c].name)),
         \A l \in Loops, t \in Tasks : t.conn # c => (Waiting(l, t)' <=> Waiting(l, t)),
         LifeOf(c)'
  PROVE  LifeInv'
<1>1. ASSUME NEW d \in Made, d # c PROVE InTable(d)' <=> InTable(d)
  <2>1. conn'[d] = conn[d]
    BY <1>1
  <2>2. CASE table' = table
    BY <2>1, <2>2, Zenon DEF InTable
  <2>3. CASE InTable(c) /\ table' = TableWithout(conn[c].name)
    BY <1>1, <2>1, <2>3 DEF InTable, TableWithout
  <2> QED  BY <2>2, <2>3
<1>2. ASSUME NEW d \in Made \ freed, d # c PROVE LifeOf(d)'
  <2>1. LifeOf(d) /\ conn'[d] = conn[d] /\ (InTable(d)' <=> InTable(d))
    BY <1>1, <1>2 DEF LifeInv
  <2>2. \A l \in Loops, t \in Tasks : t.conn = d => (Waiting(l, t)' <=> Waiting(l, t))
    BY <1>2, Zenon
  <2> QED  BY <2>1, <2>2, Unaffected
<1>3. NamesInv'
  <2>1. ASSUME NEW k \in DOMAIN table' PROVE k < nextConnId /\ conn'[table'[k]].name = k
    <3>1. k \in DOMAIN table /\ table'[k] = table[k]
      BY DEF TableWithout
    <3>2. table[k] \in Made /\ k < nextConnId /\ conn[table[k]].name = k
      BY <3>1 DEF TypeInv, TableOK, LifeInv, NamesInv
    <3>3. SameIdentity(conn[table[k]], conn'[table[k]])
      BY <3>2
    <3> QED  BY <3>1, <3>2, <3>3 DEF SameIdentity
  <2> QED  BY <2>1 DEF NamesInv
<1>4. FdsDiffer'
  BY DEF LifeInv, FdsDiffer, SameIdentity
<1> QED  BY <1>2, <1>3, <1>4 DEF LifeInv

LEMMA LifeAfterEndBatch ==
  ASSUME TypeInv, LifeInv, server # "gone", NEW l \in Loops, EndBatch(l)
  PROVE  LifeInv'
<1>1. /\ TypeInv' /\ Releases /\ WaitSame
      /\ UNCHANGED <<server, numThreads, nextLoop, nextConnId, table, conn>>
  BY EndBatchIs
<1>2. ASSUME NEW c \in Made \ freed, conn[c].ch.added PROVE Held(c, table', pending', batch')
  <2>1. CASE InTable(c)
    <3>1. conn[c].name \in DOMAIN table' /\ table'[conn[c].name] = c
      BY <1>1, <2>1, Zenon DEF InTable
    <3> QED  BY <3>1, Zenon DEF Held, Values
  <2>2. ASSUME NEW m \in Loops, NEW t \in Tasks, t.conn = c, Waiting(m, t)
        PROVE  Held(c, table', pending', batch')
    <3>1. Waiting(m, t)' /\ QueuesOK'
      BY <1>1, <2>2, Zenon DEF WaitSame, TypeInv
    <3>2. Held(t.conn, table, pending, batch)'
      BY <3>1, WaitingIsHeld
    <3> QED  BY <2>2, <3>2, Zenon
  <2> QED  BY <1>2, <2>1, <2>2, Zenon DEF LifeInv, LifeOf
<1>3. Alive'
  BY <1>1, <1>2, Zenon DEF Releases, Alive
<1>4. freed \subseteq freed'
  BY <1>1, Zenon DEF Releases
<1> QED  BY <1>1, <1>3, <1>4, LifeAfterNone

\* connectEstablished is the connection's own: its asserts hold.
LEMMA LifeAfterEstablish ==
  ASSUME TypeInv, PollersKnowTheLiving, LifeInv,
         NEW l \in Loops, NEW c \in Conns, ConnectEstablished(l, c)
  PROVE  LifeInv'
<1> DEFINE t == Task("establish", c)
<1>1. TypeInv' /\ RunsAway(l, t) /\ Establishes(l, c)
  BY EstablishIs
<1>2. t.conn = c /\ t.what = "establish" /\ t.what # "remove" /\ t.what # "destroy"
  BY DEF Task
<1> HIDE DEF t
<1>3. /\ c \in Made \ freed /\ Waiting(l, t) /\ t \in Tasks /\ RanIn(l, t) /\ Elsewhere({l})
      /\ UNCHANGED <<nextConnId, freed, table>>
  BY <1>1, <1>2 DEF RunsAway, Refers
<1>4. LifeOf(c) /\ OnePlace /\ ChannelFits(conn[c])
  BY <1>3 DEF LifeInv, TypeInv, MadeOK
<1>5. IsDue(l, t)
  BY <1>2, <1>3, <1>4, Zenon DEF LifeOf
<1>6. l = conn[c].loop /\ conn[c].state = "Connecting"
  BY <1>2, <1>5, Zenon DEF IsDue
<1>7. InTable(c) /\ ~conn[c].ch.mapped
  BY <1>4, <1>6, ChannelShapes DEF LifeOf, ChannelFits
<1>8. FdIsFree(l, conn[c].fd)
  <2>1. ASSUME NEW d \in Made, conn[d].ch.mapped, conn[d].fd = conn[c].fd PROVE FALSE
    <3>1. d \in Made \ freed
      BY <2>1 DEF PollersKnowTheLiving, LifeInv
    <3>2. d = c
      BY <1>3, <2>1, <3>1 DEF LifeInv, FdsDiffer
    <3> QED  BY <1>7, <2>1, <3>2
  <2> QED  BY <2>1, Zenon DEF FdIsFree
<1>9. /\ Becomes(c, conn'[c]) /\ SameIdentity(conn[c], conn'[c])
      /\ conn'[c].state = "Connected" /\ conn'[c].ch = OpenChannel /\ died' = died
  BY <1>1, <1>6, <1>8, Zenon DEF Establishes
<1>10. /\ OnePlace' /\ Idle(c)'
       /\ \A m \in Loops, u \in Tasks : u.conn # c => (Waiting(m, u)' <=> Waiting(m, u))
  BY <1>2, <1>3, <1>4, RunWait, Zenon
<1>11. InTable(c)'
  BY <1>3, <1>7, <1>9, Zenon DEF InTable, SameIdentity
<1>12. LifeOf(c)'
  BY <1>10, <1>11, IdleAfter, Zenon DEF LifeOf, WaitsFor
<1>13. ConnStep(c)
  BY <1>1, <1>9, Zenon DEF ConnStep, TypeInv, ChannelFits
<1>14. Alive'
  BY <1>9, Zenon DEF LifeInv, Alive
<1> QED  BY <1>3, <1>10, <1>12, <1>13, <1>14, ConnStepIs, LifeAfterOne

\* removeConnectionInLoop finds the connection in the table.
LEMMA LifeAfterRemove ==
  ASSUME TypeInv, LifeInv, NEW l \in Loops, NEW c \in Conns, RemoveConnectionInLoop(l, c)
  PROVE  LifeInv'
<1> DEFINE t == Task("remove", c)
           u == Task("destroy", c)
<1>1. TypeInv' /\ Removes(l, c)
  BY RemoveIs
<1>2. /\ t.conn = c /\ t.what = "remove" /\ t.what # "establish" /\ t.what # "destroy" /\ t \in Tasks
      /\ u.conn = c /\ u.what = "destroy" /\ u \in Tasks
  BY DEF Task, Tasks
<1>3. PICK m \in Loops :
      /\ m = conn[c].loop
      /\ Waiting(l, t) /\ Refers(l, t)
      /\ UNCHANGED <<server, numThreads, nextLoop, nextConnId, freed, conn>>
      /\ conn[c].name \in DOMAIN table =>
           /\ table' = TableWithout(conn[c].name) /\ died' = died
           /\ RanIn(l, t) /\ AppendedTo(m, u) /\ Elsewhere({l, m})
  BY <1>1, Zenon DEF Removes
<1> HIDE DEF t, u
<1>4. c \in Made \ freed /\ l # m
  BY <1>2, <1>3 DEF Refers
<1>5. LifeOf(c) /\ OnePlace
  BY <1>4 DEF LifeInv
<1>6. IsDue(l, t)
  BY <1>2, <1>3, <1>5, Zenon DEF LifeOf
<1>7. conn[c].state = "Disconnected" /\ conn[c].ch = ClosedChannel /\ InTable(c)
  BY <1>2, <1>6, Zenon DEF IsDue
<1>8. /\ table' = TableWithout(conn[c].name) /\ died' = died
      /\ RanIn(l, t) /\ AppendedTo(m, u) /\ Elsewhere({l, m})
  BY <1>3, <1>7, Zenon DEF InTable
<1>9. /\ OnePlace' /\ Waiting(m, u)'
      /\ \A x \in Loops, v \in Tasks : Waiting(x, v)' /\ v.conn = c => x = m /\ v = u
      /\ \A x \in Loops, v \in Tasks : Waiting(x, v)' => Waiting(x, v) \/ (x = m /\ v = u)
      /\ \A x \in Loops, v \in Tasks : Waiting(x, v) /\ v.conn # c => Waiting(x, v)'
  <2>1. u.conn = t.conn
    BY <1>2
  <2>2. /\ OnePlace' /\ Waiting(m, u)'
        /\ \A x \in Loops, v \in Tasks : Waiting(x, v)' /\ v.conn = t.conn => x = m /\ v = u
        /\ \A x \in Loops, v \in Tasks : Waiting(x, v)' => Waiting(x, v) \/ (x = m /\ v = u)
        /\ \A x \in Loops, v \in Tasks : Waiting(x, v) /\ v.conn # t.conn => Waiting(x, v)'
    <3>1. /\ l # m /\ u \in Tasks /\ RanIn(l, t) /\ AppendedTo(m, u) /\ Elsewhere({l, m})
      BY <1>2, <1>4, <1>8
    <3>2. OnePlace
      BY <1>5
    <3> QED  BY <2>1, <3>1, <3>2, RunAppendWait
  <2> QED  BY <1>2, <2>2, Zenon
<1>10. ~InTable(c)'
  BY <1>3, <1>8 DEF InTable, TableWithout
<1>11. LifeOf(c)'
  <2>1. IsDue(m, u)'
    BY <1>2, <1>3, <1>7, <1>10, Zenon DEF IsDue
  <2>2. conn'[c].state = "Disconnected"
    BY <1>3, <1>7
  <2> QED  BY <1>2, <1>9, <2>1, <2>2, Zenon DEF LifeOf
<1>12. \A x \in Loops, v \in Tasks : v.conn # c => (Waiting(x, v)' <=> Waiting(x, v))
  BY <1>2, <1>9, Zenon
<1>13. /\ Made' = Made /\ \A d \in Made : SameIdentity(conn[d], conn'[d])
       /\ \A d \in Made \ {c} : conn'[d] = conn[d]
  BY <1>3 DEF Made, SameIdentity
<1>14. Alive'
  BY <1>8, Zenon DEF LifeInv, Alive
<1> QED  BY <1>3, <1>4, <1>7, <1>8, <1>9, <1>11, <1>12, <1>13, <1>14, LifeAfterOne

\* connectDestroyed finds a channel that it may remove.
LEMMA LifeAfterDestroy ==
  ASSUME TypeInv, LifeInv, NEW l \in Loops, NEW c \in Conns, ConnectDestroyed(l, c)
  PROVE  LifeInv'
<1> DEFINE t == Task("destroy", c)
<1>1. TypeInv' /\ RunsAway(l, t) /\ Destroys(l, c)
  BY DestroyIs
<1>2. t.conn = c /\ t.what = "destroy" /\ t.what # "remove" /\ t.what # "establish"
  BY DEF Task
<1> HIDE DEF t
<1>3. /\ c \in Made \ freed /\ Waiting(l, t) /\ t \in Tasks /\ RanIn(l, t) /\ Elsewhere({l})
      /\ UNCHANGED <<nextConnId, freed, table>>
  BY <1>1, <1>2 DEF RunsAway, Refers
<1>4. LifeOf(c) /\ OnePlace
  BY <1>3 DEF LifeInv
<1>5. IsDue(l, t)
  BY <1>2, <1>3, <1>4, Zenon DEF LifeOf
<1>6. l = conn[c].loop /\ conn[c].ch = ClosedChannel /\ ~InTable(c)
  BY <1>2, <1>5, Zenon DEF IsDue
<1>7. /\ Becomes(c, conn'[c]) /\ SameIdentity(conn[c], conn'[c])
      /\ conn'[c].state = "Disconnected" /\ conn'[c].ch = NewChannel /\ died' = died
  BY <1>1, <1>6, ChannelShapes, Zenon DEF Destroys
<1>8. /\ OnePlace' /\ Idle(c)'
      /\ \A m \in Loops, u \in Tasks : u.conn # c => (Waiting(m, u)' <=> Waiting(m, u))
  BY <1>2, <1>3, <1>4, RunWait, Zenon
<1>9. LifeOf(c)'
  <2>1. ~conn'[c].ch.added
    BY <1>7, ChannelShapes
  <2> QED  BY <1>7, <1>8, <2>1, IdleAfter, Zenon DEF LifeOf, WaitsFor
<1>10. ConnStep(c)
  BY <1>1, <1>7, Zenon DEF ConnStep, TypeInv, ChannelFits
<1>11. Alive'
  BY <1>7, Zenon DEF LifeInv, Alive
<1> QED  BY <1>3, <1>8, <1>9, <1>10, <1>11, ConnStepIs, LifeAfterOne

\* handleClose of a connection that the table has; no functor waits for it.
LEMMA LifeAfterClose ==
  ASSUME TypeInv, LifeInv, NEW c \in Conns, HandleClose(c)
  PROVE  LifeInv'
<1>1. TypeInv' /\ Closes(c)
  BY CloseIs
<1>2. /\ c \in Made \ freed /\ conn[c].state = "Connected"
      /\ Becomes(c, conn'[c]) /\ SameIdentity(conn[c], conn'[c])
      /\ conn'[c].state = "Disconnected" /\ conn'[c].ch = ClosedChannel
      /\ UNCHANGED <<server, numThreads, nextLoop, nextConnId, freed>>
      /\ Elsewhere({Base}) /\ Base \in Loops
  BY <1>1, ThreadsAssumption DEF Closes, Base, Loops
<1>3. LifeOf(c) /\ OnePlace /\ QueuesOK
  BY <1>2 DEF LifeInv, TypeInv
<1>4. InTable(c)
  BY <1>2, <1>3 DEF LifeOf
<1>5. \A l, t : t.conn = c => ~IsDue(l, t)
  BY <1>2 DEF IsDue
<1>6. ~WaitsFor(c)
  BY <1>3, <1>5, Zenon DEF LifeOf, WaitsFor
<1>7. Idle(c)
  BY <1>3, <1>6, IdleIs
<1>8. PICK u \in Tasks :
        /\ u.conn = c /\ AppendedTo(Base, u) /\ died' = died
        /\ \/ u.what = "remove" /\ table' = table
           \/ u.what = "destroy" /\ conn[c].loop = Base /\ table' = TableWithout(conn[c].name)
  <2>1. /\ Task("remove", c) \in Tasks /\ Task("remove", c).conn = c
        /\ Task("remove", c).what = "remove"
        /\ Task("destroy", c) \in Tasks /\ Task("destroy", c).conn = c
        /\ Task("destroy", c).what = "destroy"
    BY DEF Task, Tasks
  <2>2. CASE conn[c].loop # Base
    <3>1. AppendedTo(Base, Task("remove", c)) /\ table' = table /\ died' = died
      BY <1>1, <2>2, Zenon DEF Closes
    <3> QED  BY <2>1, <3>1, Zenon
  <2>3. CASE conn[c].loop = Base
    <3>1. /\ AppendedTo(Base, Task("destroy", c)) /\ table' = TableWithout(conn[c].name)
          /\ died' = (conn[c].name \notin DOMAIN table)
      BY <1>1, <2>3, Zenon DEF Closes
    <3>2. died' = died
      BY <1>4, <3>1 DEF InTable, LifeInv, Alive, TypeInv, SimpleOK
    <3> QED  BY <2>1, <2>3, <3>1, <3>2, Zenon
  <2> QED  BY <2>2, <2>3
<1>9. /\ OnePlace'
      /\ \A m \in Loops, v \in Tasks : Waiting(m, v)' <=> (Waiting(m, v) \/ (m = Base /\ v = u))
  BY <1>2, <1>3, <1>7, <1>8, AppendWait
<1>10. Waiting(Base, u)' /\ \A m \in Loops, v \in Tasks : v.conn = c /\ Waiting(m, v)' => m = Base /\ v = u
  BY <1>2, <1>6, <1>9, Zenon DEF WaitsFor
<1>11. IsDue(Base, u)'
  <2>1. conn'[c].name = conn[c].name /\ conn'[c].loop = conn[c].loop
    BY <1>2 DEF SameIdentity
  <2>2. CASE u.what = "remove" /\ table' = table
    <3>1. InTable(c)'
      BY <1>4, <2>1, <2>2, Zenon DEF InTable
    <3> QED  BY <1>2, <1>8, <2>2, <3>1, Zenon DEF IsDue
  <2>3. CASE u.what = "destroy" /\ conn[c].loop = Base /\ table' = TableWithout(conn[c].name)
    <3>1. ~InTable(c)'
      BY <2>1, <2>3 DEF InTable, TableWithout
    <3> QED  BY <1>2, <1>8, <2>1, <2>3, <3>1, Zenon DEF IsDue
  <2> QED  BY <1>8, <2>2, <2>3, Zenon
<1>12. LifeOf(c)'
  BY <1>2, <1>8, <1>10, <1>11, Zenon DEF LifeOf
<1>13. \A m \in Loops, v \in Tasks : v.conn # c => (Waiting(m, v)' <=> Waiting(m, v))
  BY <1>8, <1>9, Zenon
<1>14. ConnStep(c)
  BY <1>1, <1>2, Zenon DEF ConnStep, TypeInv, ChannelFits
<1>15. Alive'
  BY <1>8, Zenon DEF LifeInv, Alive
<1>16. table' = table \/ (InTable(c) /\ table' = TableWithout(conn[c].name))
  BY <1>4, <1>8, Zenon
<1> QED  BY <1>2, <1>9, <1>12, <1>13, <1>14, <1>15, <1>16, ConnStepIs, LifeAfterOne

\* A connection with a name and a descriptor of its own.
LEMMA LifeAfterAccept ==
  ASSUME TypeInv, PollersKnowTheLiving, LifeInv, NEW c \in Conns, NEW fd \in Fds, Accept(c, fd)
  PROVE  LifeInv'
<1>1. TypeInv' /\ Accepts(c, fd)
  BY AcceptIs
<1>2. /\ c \notin Made /\ c \notin freed /\ \A d \in Made \ freed : conn[d].fd # fd
      /\ nextConnId' = nextConnId + 1 /\ table' = TableWith(nextConnId, c) /\ freed' = freed
      /\ Made' = Made \union {c} /\ \A d \in Made : conn'[d] = conn[d]
      /\ conn'[c].fd = fd /\ conn'[c].name = nextConnId /\ nextConnId \in Nat
  BY <1>1 DEF Accepts, TypeInv, MadeOK, SimpleOK
<1>3. PICK m \in Loops :
       /\ m = NextLoop /\ conn'[c].loop = m
       /\ \/ /\ m = Base /\ conn'[c].state = "Connected" /\ conn'[c].ch = OpenChannel
             /\ UNCHANGED loopVars /\ died' = ~FdIsFree(Base, fd)
          \/ /\ m # Base /\ conn'[c].state = "Connecting" /\ conn'[c].ch = NewChannel
             /\ AppendedTo(m, Task("establish", c)) /\ Elsewhere({m}) /\ died' = FALSE
  BY <1>1, Zenon DEF Accepts
<1>4. FdIsFree(Base, fd)
  <2>1. ASSUME NEW d \in Made, conn[d].ch.mapped PROVE conn[d].fd # fd
    BY <1>2, <2>1, Zenon DEF PollersKnowTheLiving, LifeInv
  <2> QED  BY <2>1, Zenon DEF FdIsFree
<1>5. Alive'
  BY <1>3, <1>4, Zenon DEF Alive
<1> DEFINE u == Task("establish", c)
<1>6. u \in Tasks /\ u.conn = c /\ u.what = "establish"
  BY DEF Task, Tasks
<1> HIDE DEF u
<1>7. ~WaitsFor(c) /\ QueuesOK /\ OnePlace
  BY <1>2, Zenon DEF WaitsFor, TypeInv, RefsOK, Refers, LifeInv
<1>8. Idle(c)
  BY <1>7, IdleIs
<1>9. /\ OnePlace'
      /\ \A l \in Loops, v \in Tasks : v.conn # c => (Waiting(l, v)' <=> Waiting(l, v))
      /\ \A l \in Loops, v \in Tasks : v.conn = c /\ Waiting(l, v)' =>
           l = conn'[c].loop /\ conn'[c].state = "Connecting" /\ v = u
  <2>1. CASE UNCHANGED loopVars
    <3>1. WaitSame
      BY <2>1, SameQueues
    <3> QED  BY <1>7, <3>1, Zenon DEF WaitSame, WaitsFor
  <2>2. CASE conn'[c].state = "Connecting" /\ AppendedTo(m, u) /\ Elsewhere({m})
    <3>1. /\ OnePlace'
          /\ \A l \in Loops, v \in Tasks : Waiting(l, v)' <=> (Waiting(l, v) \/ (l = m /\ v = u))
      BY <1>6, <1>7, <1>8, <2>2, AppendWait
    <3> QED  BY <1>3, <1>6, <1>7, <2>2, <3>1, Zenon DEF WaitsFor
  <2> QED  BY <1>3, <2>1, <2>2, Zenon DEF u
<1>10. table'[nextConnId] = c /\ nextConnId \in DOMAIN table'
  BY <1>2 DEF TableWith
<1>11. nextConnId \notin DOMAIN table
  BY <1>2 DEF LifeInv, NamesInv
<1>12. InTable(c)'
  BY <1>2, <1>10, Zenon DEF InTable
<1>13. LifeOf(c)'
  <2>1. \A l \in Loops, v \in Tasks : v.conn = c /\ Waiting(l, v)' => IsDue(l, v)'
    BY <1>6, <1>9, Zenon DEF IsDue
  <2> QED  BY <1>12, <2>1, Zenon DEF LifeOf
<1>14. ASSUME NEW d \in Made \ freed PROVE LifeOf(d)'
  <2>1. d # c /\ conn'[d] = conn[d] /\ LifeOf(d)
    BY <1>2, Zenon DEF LifeInv
  <2>2. InTable(d)' <=> InTable(d)
    BY <1>2, <1>11, <2>1 DEF InTable, TableWith
  <2>3. \A l \in Loops, v \in Tasks : v.conn = d => (Waiting(l, v)' <=> Waiting(l, v))
    BY <1>9, <2>1, Zenon
  <2> QED  BY <2>1, <2>2, <2>3, Unaffected
<1>15. NamesInv'
  <2>1. ASSUME NEW k \in DOMAIN table' PROVE k < nextConnId' /\ conn'[table'[k]].name = k
    <3>1. CASE k = nextConnId
      BY <1>2, <1>10, <3>1
    <3>2. CASE k # nextConnId
      <4>1. k \in DOMAIN table /\ table'[k] = table[k]
        BY <1>2, <3>2 DEF TableWith
      <4>2. k \in Nat /\ table[k] \in Made /\ k < nextConnId /\ conn[table[k]].name = k
        BY <4>1 DEF TypeInv, TableOK, LifeInv, NamesInv
      <4> QED  BY <1>2, <4>1, <4>2
    <3> QED  BY <3>1, <3>2
  <2> QED  BY <2>1 DEF NamesInv
<1>16. FdsDiffer'
  BY <1>2 DEF LifeInv, FdsDiffer
<1> QED  BY <1>2, <1>5, <1>9, <1>13, <1>14, <1>15, <1>16 DEF LifeInv

LEMMA InitServer == Init => ServerInv
<1> SUFFICES ASSUME Init PROVE LifeInv
  BY DEF ServerInv
<1>1. Made = {} /\ DOMAIN table = {} /\ Alive
  BY DEF Init, Made, Alive
<1>2. \A l \in Loops : Due(l) = {}
  BY DEF Init, Due
<1>3. OnePlace
  BY <1>2, Zenon DEF OnePlace
<1> QED  BY <1>1, <1>3, Zenon DEF LifeInv, NamesInv, FdsDiffer

LEMMA NextServer == TypeInv /\ PollersKnowTheLiving /\ ServerInv /\ [Next]_vars => ServerInv'
<1> SUFFICES ASSUME TypeInv, PollersKnowTheLiving, ServerInv, [Next]_vars, server' # "gone"
             PROVE  LifeInv'
  BY DEF ServerInv
<1>1. CASE UNCHANGED vars
  <2>1. /\ UNCHANGED <<conn, table, nextConnId, freed, died, server>> /\ UNCHANGED loopVars
    BY <1>1 DEF vars, loopVars
  <2>2. LifeInv /\ Alive' /\ WaitSame
    BY <2>1, SameQueues, Zenon DEF ServerInv, LifeInv, Alive
  <2> QED  BY <2>1, <2>2, LifeAfterNone
<1>2. CASE QuietStep
  <2>1. /\ UNCHANGED loopVars /\ UNCHANGED <<conn, table, freed, died, nextConnId>> /\ Alive
        /\ server # "gone"
    BY <1>2, QuietIs
  <2>2. LifeInv /\ Alive' /\ WaitSame
    BY <2>1, SameQueues, Zenon DEF ServerInv, Alive
  <2> QED  BY <2>1, <2>2, LifeAfterNone
<1>3. CASE DestroyServer
  BY <1>3, DestroyServerIs
<1>4. ASSUME NEW c \in Conns, HandleClose(c) PROVE LifeInv'
  <2>1. server' = server
    BY <1>4, CloseIs DEF Closes
  <2> QED  BY <1>4, <2>1, LifeAfterClose DEF ServerInv
<1>5. ASSUME NEW c \in Conns, NEW fd \in Fds, Accept(c, fd) PROVE LifeInv'
  <2>1. server' = server
    BY <1>5, AcceptIs DEF Accepts
  <2> QED  BY <1>5, <2>1, LifeAfterAccept DEF ServerInv
<1>6. ASSUME NEW l \in Loops, Swap(l) PROVE LifeInv'
  <2>1. WaitSame /\ UNCHANGED <<server, nextConnId, conn, table, freed, died>>
    BY <1>6, SwapType
  <2>2. LifeInv /\ Alive'
    BY <2>1, Zenon DEF ServerInv, LifeInv, Alive
  <2> QED  BY <2>1, <2>2, LifeAfterNone
<1>7. ASSUME NEW l \in Loops, EndBatch(l) PROVE LifeInv'
  <2>1. server' = server
    BY <1>7, EndBatchIs
  <2> QED  BY <1>7, <2>1, LifeAfterEndBatch DEF ServerInv
<1>8. ASSUME NEW l \in Loops, JoinLoop(l) PROVE LifeInv'
  BY <1>8, JoinLoopIs
<1>9. ASSUME NEW l \in Loops, NEW c \in Conns, ConnectEstablished(l, c) PROVE LifeInv'
  <2>1. server' = server
    BY <1>9, EstablishIs DEF RunsAway
  <2> QED  BY <1>9, <2>1, LifeAfterEstablish DEF ServerInv
<1>10. ASSUME NEW l \in Loops, NEW c \in Conns, RemoveConnectionInLoop(l, c) PROVE LifeInv'
  <2>1. server' = server
    BY <1>10, RemoveIs DEF Removes
  <2> QED  BY <1>10, <2>1, LifeAfterRemove DEF ServerInv
<1>11. ASSUME NEW l \in Loops, NEW c \in Conns, ConnectDestroyed(l, c) PROVE LifeInv'
  <2>1. server' = server
    BY <1>11, DestroyIs DEF RunsAway
  <2> QED  BY <1>11, <2>1, LifeAfterDestroy DEF ServerInv
<1> QED
  BY <1>1, <1>2, <1>3, <1>4, <1>5, <1>6, <1>7, <1>8, <1>9, <1>10, <1>11, StepsAre, Zenon

LEMMA ServerInvariant == Spec => []ServerInv
  BY InitServer, NextServer, TypeInvariant, PollersAreSafe, PTL DEF Spec

LEMMA ServerInvEnough == ServerInv => AssertsHold
  BY Zenon DEF ServerInv, LifeInv, AssertsHold, Alive

\* While the server lives no assertion fails on the way of a connection
\* through the loops.
THEOREM LoopsAssertsHold == Spec => []AssertsHold
  BY ServerInvariant, ServerInvEnough, PTL

-----------------------------------------------------------------------------
(* The pool's share.                                                       *)

GivenTo(l) == {c \in Made : conn[c].loop = l}

LEMMA GivenIsNat ==
  ASSUME TypeInv, NEW l
  PROVE  IsFiniteSet(GivenTo(l)) /\ Given(l) = Cardinality(GivenTo(l)) /\ Given(l) \in Nat
<1>1. IsFiniteSet(GivenTo(l))
  BY FS_Subset DEF TypeInv, MadeOK, GivenTo
<1> QED  BY <1>1, FS_CardinalityType DEF Given, GivenTo

\* Steps that make no connection.
LEMMA GivenSame ==
  ASSUME Made' = Made, \A c \in Made : conn'[c].loop = conn[c].loop,
         UNCHANGED <<numThreads, nextLoop>>, ShareInv
  PROVE  ShareInv'
<1>1. \A l : {c \in Made' : conn'[c].loop = l} = {c \in Made : conn[c].loop = l}
  OBVIOUS
<1>2. ASSUME NEW l PROVE Given(l)' = Given(l)
  BY <1>1, Zenon DEF Given
<1>3. PICK n : n = numThreads
  OBVIOUS
<1>4. \A l \in 1..n : Given(l) = Given(n) + IF l <= nextLoop THEN 1 ELSE 0
  BY <1>3, Zenon DEF ShareInv
<1>5. \A l \in 1..n : Given(l)' = Given(n)' + IF l <= nextLoop THEN 1 ELSE 0
  BY <1>2, <1>4, Zenon
<1> QED  BY <1>3, <1>5, Zenon DEF ShareInv

LEMMA NoneGiven ==
  ASSUME Made' = {}, nextLoop' = 0
  PROVE  ShareInv'
<1>1. ASSUME NEW l PROVE Given(l)' = 0
  <2>1. {c \in Made' : conn'[c].loop = l} = {}
    OBVIOUS
  <2> QED  BY <2>1, FS_EmptySet, Zenon DEF Given
<1>2. PICK n : n = numThreads'
  OBVIOUS
<1>3. \A l \in 1..n : ~(l <= 0)
  <2>1. \A l \in 1..n : l \in Int /\ 1 <= l
    OBVIOUS
  <2> QED  BY <2>1
<1>4. \A l \in 1..n : 0 = 0 + IF l <= 0 THEN 1 ELSE 0
  BY <1>3
<1>5. ASSUME NEW l \in 1..n PROVE Given(l)' = Given(n)' + IF l <= 0 THEN 1 ELSE 0
  <2>1. PICK g, h : g = Given(l)' /\ h = Given(n)'
    OBVIOUS
  <2>2. g = 0 /\ h = 0
    BY <1>1, <2>1, Zenon
  <2>3. g = h + IF l <= 0 THEN 1 ELSE 0
    BY <1>4, <2>2
  <2> QED  BY <2>1, <2>3, Zenon
<1> QED  BY <1>2, <1>5, Zenon DEF ShareInv

\* The count the acceptor's step adds, and the index it moves.
LEMMA TurnsAround ==
  ASSUME NEW n \in Nat, NEW x \in Nat, NEW y, NEW g \in Nat, NEW h \in Nat,
         NEW g2, NEW h2, NEW l \in 1..n,
         x = 0 \/ x < n, y = IF x + 1 >= n THEN 0 ELSE x + 1,
         g2 = g + IF l = x + 1 THEN 1 ELSE 0, h2 = h + IF n = x + 1 THEN 1 ELSE 0,
         g = h + IF l <= x THEN 1 ELSE 0
  PROVE  g2 = h2 + IF l <= y THEN 1 ELSE 0
<1>1. CASE x + 1 >= n
  BY <1>1
<1>2. CASE x + 1 < n
  BY <1>2
<1> QED  BY <1>1, <1>2

LEMMA OneGiven ==
  ASSUME TypeInv, ShareInv, NEW c \in Conns, NEW fd \in Fds, Accepts(c, fd)
  PROVE  ShareInv'
<1>1. /\ c \notin Made /\ Made' = Made \union {c} /\ \A d \in Made : conn'[d] = conn[d]
      /\ nextLoop' = AfterLoop /\ numThreads' = numThreads
  BY DEF Accepts
<1>2. PICK m \in Loops : m = NextLoop /\ conn'[c].loop = m
  BY Zenon DEF Accepts
<1>3. PICK n, x, y : n = numThreads /\ x = nextLoop /\ y = nextLoop'
  OBVIOUS
<1>4. /\ n \in Nat /\ x \in Nat /\ (x = 0 \/ x < n)
      /\ n # 0 => m = x + 1
      /\ y = IF x + 1 >= n THEN 0 ELSE x + 1
  BY <1>1, <1>2, <1>3, ThreadsAssumption DEF TypeInv, SimpleOK, NextLoop, AfterLoop
<1>5. ASSUME NEW l PROVE Given(l) \in Nat /\ Given(l)' = Given(l) + IF l = m THEN 1 ELSE 0
  <2>1. /\ IsFiniteSet(GivenTo(l)) /\ Given(l) = Cardinality(GivenTo(l)) /\ Given(l) \in Nat
        /\ c \notin GivenTo(l)
    BY <1>1, GivenIsNat DEF GivenTo
  <2>2. CASE l = m
    <3>1. {d \in Made' : conn'[d].loop = l} = GivenTo(l) \union {c}
      BY <1>1, <1>2, <2>2 DEF GivenTo
    <3>2. Given(l)' = Cardinality(GivenTo(l) \union {c})
      BY <3>1, Zenon DEF Given
    <3> QED  BY <2>1, <2>2, <3>2, FS_AddElement
  <2>3. CASE l # m
    <3>1. {d \in Made' : conn'[d].loop = l} = GivenTo(l)
      BY <1>1, <1>2, <2>3 DEF GivenTo
    <3>2. Given(l)' = Cardinality(GivenTo(l))
      BY <3>1, Zenon DEF Given
    <3> QED  BY <2>1, <2>3, <3>2
  <2> QED  BY <2>2, <2>3
<1>6. \A l \in 1..n : Given(l) = Given(n) + IF l <= x THEN 1 ELSE 0
  BY <1>3, Zenon DEF ShareInv
<1>7. ASSUME NEW l \in 1..n PROVE Given(l)' = Given(n)' + IF l <= y THEN 1 ELSE 0
  <2>1. PICK g, h \in Nat : g = Given(l) /\ h = Given(n)
    BY <1>5
  <2>2. PICK g2, h2 : g2 = Given(l)' /\ h2 = Given(n)'
    OBVIOUS
  <2>3. /\ g2 = g + IF l = m THEN 1 ELSE 0
        /\ h2 = h + IF n = m THEN 1 ELSE 0
        /\ g = h + IF l <= x THEN 1 ELSE 0
    BY <1>5, <1>6, <2>1, <2>2, Zenon
  <2>4. n \in Nat /\ n # 0 /\ l \in 1..n
    <3>1. \A k \in Nat : l \in 1..k => k # 0
      OBVIOUS
    <3> QED  BY <1>4, <3>1
  <2>5. g2 = h2 + IF l <= y THEN 1 ELSE 0
    <3>1. m = x + 1
      BY <1>4, <2>4
    <3> QED  BY <1>4, <2>3, <2>4, <3>1, TurnsAround
  <2> QED  BY <2>2, <2>5, Zenon
<1>8. numThreads' = n /\ nextLoop' = y
  BY <1>1, <1>3
<1> QED  BY <1>7, <1>8, Zenon DEF ShareInv

LEMMA InitShare == Init => ShareInv
  BY ThreadsAssumption DEF Init, ShareInv

LEMMA NextShare == TypeInv /\ ShareInv /\ [Next]_vars => ShareInv'
<1> SUFFICES ASSUME TypeInv, ShareInv, [Next]_vars PROVE ShareInv'
  OBVIOUS
<1>1. CASE UNCHANGED <<conn, numThreads, nextLoop>>
  BY <1>1, GivenSame DEF Made
<1>2. CASE QuietStep
  <2>1. CASE \E n \in 0..MaxThreads : SetThreadNum(n)
    <3>1. Made' = {} /\ nextLoop' = 0
      BY <2>1 DEF SetThreadNum, TypeInv, MadeOK, Made
    <3> QED  BY <3>1, NoneGiven
  <2>2. CASE Start
    BY <1>1, <2>2 DEF Start
  <2>3. CASE \E c \in Conns : Connect(c) \/ AcceptFails(c)
    BY <1>1, <2>3 DEF Connect, AcceptFails
  <2> QED  BY <1>2, <2>1, <2>2, <2>3 DEF QuietStep
<1>3. ASSUME NEW c \in Conns, NEW fd \in Fds, Accept(c, fd) PROVE ShareInv'
  BY <1>3, AcceptIs, OneGiven
<1>4. CASE DestroyServer
  BY <1>1, <1>4, DestroyServerIs
<1>5. ASSUME NEW l \in Loops, Swap(l) \/ EndBatch(l) \/ JoinLoop(l) PROVE ShareInv'
  BY <1>1, <1>5, SwapType, EndBatchIs, JoinLoopIs
<1>6. ASSUME NEW c \in Made, Becomes(c, conn'[c]), SameIdentity(conn[c], conn'[c]),
             UNCHANGED <<numThreads, nextLoop>>
      PROVE  ShareInv'
  <2>1. Made' = Made /\ \A d \in Made : conn'[d].loop = conn[d].loop
    BY <1>6 DEF Becomes, SameIdentity
  <2> QED  BY <1>6, <2>1, GivenSame
<1>7. ASSUME NEW c \in Conns, HandleClose(c) PROVE ShareInv'
  BY <1>6, <1>7, CloseIs DEF Closes
<1>8. ASSUME NEW l \in Loops, NEW c \in Conns, ConnectEstablished(l, c) PROVE ShareInv'
  <2>1. /\ c \in Made /\ UNCHANGED <<numThreads, nextLoop>>
        /\ UNCHANGED conn \/ (Becomes(c, conn'[c]) /\ SameIdentity(conn[c], conn'[c]))
    BY <1>8, EstablishIs DEF RunsAway, Establishes, Refers, Task
  <2> QED  BY <1>1, <1>6, <2>1
<1>9. ASSUME NEW l \in Loops, NEW c \in Conns, RemoveConnectionInLoop(l, c) PROVE ShareInv'
  BY <1>1, <1>9, RemoveIs DEF Removes
<1>10. ASSUME NEW l \in Loops, NEW c \in Conns, ConnectDestroyed(l, c) PROVE ShareInv'
  <2>1. /\ c \in Made /\ UNCHANGED <<numThreads, nextLoop>>
        /\ UNCHANGED conn \/ (Becomes(c, conn'[c]) /\ SameIdentity(conn[c], conn'[c]))
    BY <1>10, DestroyIs DEF RunsAway, Destroys, Refers, Task
  <2> QED  BY <1>1, <1>6, <2>1
<1>11. CASE UNCHANGED vars
  BY <1>1, <1>11 DEF vars
<1> QED
  BY <1>2, <1>3, <1>4, <1>5, <1>7, <1>8, <1>9, <1>10, <1>11, StepsAre, Zenon

LEMMA ShareIsRoundRobin == TypeInv /\ ShareInv => RoundRobin
<1> SUFFICES ASSUME TypeInv, ShareInv, NEW k \in 1..numThreads, NEW l \in 1..numThreads
             PROVE  Given(k) <= Given(l) + 1
  BY DEF RoundRobin
<1>1. Given(k) \in Nat /\ Given(l) \in Nat /\ Given(numThreads) \in Nat
  BY GivenIsNat
<1>2. /\ Given(k) = Given(numThreads) + IF k <= nextLoop THEN 1 ELSE 0
      /\ Given(l) = Given(numThreads) + IF l <= nextLoop THEN 1 ELSE 0
  BY Zenon DEF ShareInv
<1> QED  BY <1>1, <1>2

\* No loop of the pool is ever given two connections more than another.
THEOREM PoolIsFair == Spec => []RoundRobin
  BY InitShare, NextShare, TypeInvariant, ShareIsRoundRobin, PTL DEF Spec

=============================================================================
