--------------------------- MODULE EchoServerProof ---------------------------
(***************************************************************************)
(* Proofs about the asio accept loop and the echo sessions over it, for    *)
(* every set of workers and clients, every buffer and every bound: there   *)
(* is one accept and never two, whoever stops the server at whatever step; *)
(* and a client gets its own bytes back, each once and in order.           *)
(***************************************************************************)
EXTENDS EchoServer, SequenceTheorems, FiniteSetTheorems, TLAPS

-----------------------------------------------------------------------------
(* The accept loop.                                                        *)

Places == {"constructed", "spawn", "unborn", "idle", "left", "accepted", "test", "again",
           "close", "stop", "destroy", "destroyStop", "join", "destroyed"}
Somebody == Clients \cup {NoClient}
Completions == [kind : {"accept", "signal", "read", "write"}, client : Somebody, length : Nat]

ServerTypes ==
  /\ worker \in [Workers -> [at : Places, got : Somebody]]
  /\ ready \in Seq(Completions)
  /\ accepts \in {0, 1} /\ open \in BOOLEAN

\* The accept is outstanding, completed and queued, or in its handler.
Handles(r) == r.at \in {"accepted", "test", "again"}
NoneQueued(q) == \A i \in 1..Len(q) : q[i].kind # "accept"
NoneHandled(ws) == \A w \in Workers : ~Handles(ws[w])
OneQueued(q) == \A i, j \in 1..Len(q) : q[i].kind = "accept" /\ q[j].kind = "accept" => i = j
OneHandled(ws) == \A v, w \in Workers : Handles(ws[v]) /\ Handles(ws[w]) => v = w

\* The inductive invariant of the accept loop: one of the three at most, none
\* before run(), and a closed acceptor behind the destructor's stop().
AcceptInv ==
  /\ ServerTypes
  /\ OneQueued(ready) /\ OneHandled(worker)
  /\ accepts = 1 => NoneQueued(ready) /\ NoneHandled(worker)
  /\ NoneQueued(ready) \/ NoneHandled(worker)
  /\ worker[Main].at = "constructed" => accepts = 0 /\ NoneQueued(ready) /\ NoneHandled(worker)
  /\ worker[Main].at \in {"destroyStop", "join", "destroyed"} => ~open
  /\ open /\ worker[Main].at \notin {"constructed", "destroy"} =>
       accepts = 1 \/ ~NoneQueued(ready) \/ ~NoneHandled(worker)

-----------------------------------------------------------------------------
(* A session.                                                              *)

Sessions == [ops : SUBSET {"read", "write"}, taken : Nat, buffer : Seq(Nat), left : SUBSET Nat]

\* A completion of an operation of client c.
IsOf(r, c) == r.kind \in {"read", "write"} /\ r.client = c
NoneOf(q, c) == \A i \in 1..Len(q) : ~IsOf(q[i], c)

\* The cells from k to n hold the bytes that follow those echoed, and no byte
\* after them has been read.
Holds(s, e, k, n) ==
  /\ n <= Len(s.buffer)
  /\ s.taken = Len(e) + (n - k + 1)
  /\ \A i \in k..n : s.buffer[i] = Len(e) + (i - k + 1)

\* What a completion says of the session: all was echoed, or what it has read is
\* in the buffer.
Tells(r, s, e) ==
  r.length > 0 => IF r.kind = "write" THEN s.taken = Len(e) ELSE Holds(s, e, 1, r.length)

OneOf(q, c) == \A i, j \in 1..Len(q) : IsOf(q[i], c) /\ IsOf(q[j], c) => i = j
EachTells(q, c, s, e) == \A i \in 1..Len(q) : IsOf(q[i], c) => Tells(q[i], s, e)

\* A write has sent the cells before k and will send those up to n.
Writing(s, e) == \E n \in 1..Len(s.buffer) : \E k \in 1..n : s.left = k..n /\ Holds(s, e, k, n)

InOrder(e) == \A i \in 1..Len(e) : e[i] = i

\* A session s of a client c has one operation, outstanding or completed, and
\* what is in its buffer is what was read and not echoed.
SessionOk(s, e, here, q, c) ==
  /\ InOrder(e)
  /\ s.ops \in {{}, {"read"}, {"write"}}
  /\ s.ops # {} => NoneOf(q, c)
  /\ OneOf(q, c)
  /\ here \in {"away", "queued"} => s = NewSession /\ e = <<>> /\ NoneOf(q, c)
  /\ s.ops = {"read"} => s.taken = Len(e)
  /\ s.ops = {"write"} => Writing(s, e)
  /\ EachTells(q, c, s, e)

SessionTypes ==
  /\ client \in [Clients -> {"away", "queued", "live", "gone"}]
  /\ session \in [Clients -> Sessions]
  /\ echoed \in [Clients -> Seq(Nat)]

\* A read or write is some client's, and a client that an accept has brought
\* waits for its session, as does the one whose accept is being handled.
EntryOk(r, cl) ==
  /\ r.kind \in {"read", "write"} => r.client \in Clients
  /\ r.kind = "accept" /\ r.client # NoClient => cl[r.client] = "queued"
QueueOk(q, cl) == \A i \in 1..Len(q) : EntryOk(q[i], cl)
WorkersOk(ws, cl) ==
  \A w \in Workers : ws[w].got # NoClient => ws[w].at = "accepted" /\ cl[ws[w].got] = "queued"

\* The inductive invariant of the sessions.
EchoInv ==
  /\ AcceptInv
  /\ SessionTypes
  /\ QueueOk(ready, client) /\ WorkersOk(worker, client)
  /\ \A c \in Clients : SessionOk(session[c], echoed[c], client[c], ready, c)

-----------------------------------------------------------------------------
(* Lemmas about the queue of completions and the workers.                  *)

LEMMA Appended ==
  ASSUME NEW S, NEW q \in Seq(S), NEW x \in S
  PROVE  /\ Append(q, x) \in Seq(S) /\ Len(q) \in Nat /\ Len(Append(q, x)) = Len(q) + 1
         /\ \A i \in 1..Len(q) : Append(q, x)[i] = q[i]
         /\ Append(q, x)[Len(q) + 1] = x
  BY AppendProperties, LenProperties

\* The entries of a queue that has got one more are the old ones and that one.
LEMMA EntryOfAppended ==
  ASSUME NEW S, NEW q \in Seq(S), NEW x \in S, NEW i \in 1..Len(Append(q, x))
  PROVE  \/ i \in 1..Len(q) /\ Append(q, x)[i] = q[i]
         \/ i = Len(q) + 1 /\ i \notin 1..Len(q) /\ Append(q, x)[i] = x
<1>1. PICK n \in Nat : n = Len(q) /\ i \in 1..(n + 1)
  BY Appended
<1>2. i \in 1..n \/ (i = n + 1 /\ i \notin 1..n)
  BY <1>1
<1> QED  BY <1>1, <1>2, Appended

LEMMA TakenOff ==
  ASSUME NEW S, NEW q \in Seq(S), q # <<>>
  PROVE  /\ Tail(q) \in Seq(S) /\ Head(q) \in S
         /\ 1 \in 1..Len(q) /\ Head(q) = q[1]
         /\ \A i \in 1..Len(Tail(q)) :
              i + 1 \in 1..Len(q) /\ i + 1 # 1 /\ i \in Nat /\ Tail(q)[i] = q[i + 1]
<1>1. PICK n \in Nat : n = Len(q) /\ n > 0 /\ n - 1 = Len(Tail(q))
  BY HeadTailProperties, LenProperties, EmptySeq
<1>2. \A i \in 1..(n - 1) : i + 1 \in 1..n /\ i + 1 # 1 /\ i \in Nat
  OBVIOUS
<1>3. 1 \in 1..n
  BY <1>1
<1>4. \A i \in 1..(n - 1) : Tail(q)[i] = q[i + 1]
  BY <1>1, HeadTailProperties
<1> QED  BY <1>1, <1>2, <1>3, <1>4, HeadTailProperties

LEMMA CompletionIs ==
  ASSUME NEW kind \in {"accept", "signal", "read", "write"}, NEW c \in Somebody, NEW n \in Nat
  PROVE  LET x == Completion(kind, c, n)
         IN  x \in Completions /\ x.kind = kind /\ x.client = c /\ x.length = n
  BY DEF Completion, Completions

\* What an append does to the accepts in the queue.
LEMMA AppendToQueue ==
  ASSUME NEW q \in Seq(Completions), NEW x \in Completions
  PROVE  /\ x.kind = "accept" /\ NoneQueued(q) =>
              OneQueued(Append(q, x)) /\ ~NoneQueued(Append(q, x))
         /\ x.kind # "accept" => /\ OneQueued(q) => OneQueued(Append(q, x))
                                 /\ NoneQueued(Append(q, x)) <=> NoneQueued(q)
<1> DEFINE p == Append(q, x)
<1>1. \A i \in 1..Len(p) : \/ i \in 1..Len(q) /\ p[i] = q[i]
                           \/ i = Len(q) + 1 /\ i \notin 1..Len(q) /\ p[i] = x
  BY EntryOfAppended
<1>2. \A i \in 1..Len(q) : i \in 1..Len(p) /\ p[i] = q[i]
  <2>1. PICK n \in Nat : n = Len(q) /\ n + 1 = Len(p)
    BY Appended
  <2>2. \A i \in 1..n : i \in 1..(n + 1)
    OBVIOUS
  <2> QED  BY <2>1, <2>2, Appended
<1>3. Len(q) + 1 \in 1..Len(p) /\ p[Len(q) + 1] = x
  <2>1. PICK n \in Nat : n = Len(q) /\ n + 1 = Len(p)
    BY Appended
  <2>2. n + 1 \in 1..(n + 1)
    OBVIOUS
  <2> QED  BY <2>1, <2>2, Appended
<1> HIDE DEF p
<1>4. ASSUME x.kind = "accept", NoneQueued(q)  PROVE OneQueued(p) /\ ~NoneQueued(p)
  BY <1>1, <1>3, <1>4, Zenon DEF OneQueued, NoneQueued
<1>5. ASSUME x.kind # "accept"
      PROVE  (OneQueued(q) => OneQueued(p)) /\ (NoneQueued(p) <=> NoneQueued(q))
  <2>1. OneQueued(q) => OneQueued(p)
    BY <1>1, <1>5, Zenon DEF OneQueued
  <2>2. NoneQueued(p) <=> NoneQueued(q)
    BY <1>1, <1>2, <1>5, Zenon DEF NoneQueued
  <2> QED  BY <2>1, <2>2
<1> QED  BY <1>4, <1>5 DEF p

\* What taking the oldest completion does to them.
LEMMA TakeFromQueue ==
  ASSUME NEW q \in Seq(Completions), q # <<>>, OneQueued(q)
  PROVE  /\ OneQueued(Tail(q))
         /\ Head(q).kind = "accept" => NoneQueued(Tail(q)) /\ ~NoneQueued(q)
         /\ Head(q).kind # "accept" => (NoneQueued(Tail(q)) <=> NoneQueued(q))
<1> DEFINE t == Tail(q)
<1>1. /\ 1 \in 1..Len(q) /\ Head(q) = q[1]
      /\ \A i \in 1..Len(t) : i + 1 \in 1..Len(q) /\ i + 1 # 1 /\ i \in Nat /\ t[i] = q[i + 1]
  BY TakenOff
<1>2. \A i \in 1..Len(q) : i = 1 \/ \E j \in 1..Len(t) : t[j] = q[i]
  <2>1. PICK n \in Nat : n = Len(q) /\ n - 1 = Len(t)
    BY HeadTailProperties, LenProperties
  <2>2. \A i \in 1..n : i = 1 \/ (i - 1 \in 1..(n - 1) /\ (i - 1) + 1 = i)
    OBVIOUS
  <2> QED  BY <1>1, <2>1, <2>2
<1> HIDE DEF t
<1>3. OneQueued(t)
  <2> SUFFICES ASSUME NEW i \in 1..Len(t), NEW j \in 1..Len(t), t[i].kind = "accept", t[j].kind = "accept"
               PROVE  i = j
    BY Zenon DEF OneQueued
  <2>1. i + 1 = j + 1
    BY <1>1, Zenon DEF OneQueued
  <2>2. i \in Nat /\ j \in Nat
    BY <1>1
  <2> QED  BY <2>1, <2>2
<1>4. ASSUME Head(q).kind = "accept"  PROVE NoneQueued(t) /\ ~NoneQueued(q)
  BY <1>1, <1>4, Zenon DEF OneQueued, NoneQueued
<1>5. ASSUME Head(q).kind # "accept"  PROVE NoneQueued(t) <=> NoneQueued(q)
  <2>1. NoneQueued(q) => NoneQueued(t)
    BY <1>1, Zenon DEF NoneQueued
  <2>2. NoneQueued(t) => NoneQueued(q)
    BY <1>1, <1>2, <1>5, Zenon DEF NoneQueued
  <2> QED  BY <2>1, <2>2
<1> QED  BY <1>3, <1>4, <1>5 DEF t

Records == [at : Places, got : Somebody]

\* What a worker's step does to the handlers.
LEMMA WorkerMoves ==
  ASSUME NEW ws \in [Workers -> Records], NEW w \in Workers, NEW r \in Records,
         NEW us, us = [ws EXCEPT ![w] = r]
  PROVE  /\ us \in [Workers -> Records] /\ us[w] = r
         /\ \A v \in Workers \ {w} : us[v] = ws[v]
         /\ OneHandled(ws) /\ (Handles(r) => Handles(ws[w]) \/ NoneHandled(ws)) => OneHandled(us)
         /\ Handles(r) => ~NoneHandled(us)
         /\ ~Handles(r) /\ OneHandled(ws) /\ Handles(ws[w]) => NoneHandled(us)
         /\ (Handles(r) <=> Handles(ws[w])) => (NoneHandled(us) <=> NoneHandled(ws))
  BY DEF NoneHandled, OneHandled

LEMMA GotoMoves ==
  ASSUME worker \in [Workers -> Records], NEW w \in Workers, NEW at \in Places, Goto(w, at)
  PROVE  \E r \in Records : /\ r = [at |-> at, got |-> worker[w].got]
                            /\ worker' = [worker EXCEPT ![w] = r]
<1>1. worker[w] \in Records
  OBVIOUS
<1>2. [worker[w] EXCEPT !.at = at] = [at |-> at, got |-> worker[w].got]
  BY <1>1 DEF Records
<1>3. [at |-> at, got |-> worker[w].got] \in Records
  BY <1>1 DEF Records
<1> QED  BY <1>2, <1>3 DEF Goto

-----------------------------------------------------------------------------
(* The accept loop keeps its invariant.                                    *)

\* What a step of worker w to another place leaves of the invariant.
LEMMA MoveKeepsAccept ==
  ASSUME AcceptInv, NEW w \in Workers, NEW at \in Places, Goto(w, at)
  PROVE  /\ worker' \in [Workers -> Records]
         /\ worker'[w].at = at /\ worker'[w].got = worker[w].got
         /\ \A v \in Workers \ {w} : worker'[v] = worker[v]
         /\ ~Handles(worker[w]) /\ ~Handles(worker'[w]) =>
              OneHandled(worker') /\ (NoneHandled(worker') <=> NoneHandled(worker))
         /\ Handles(worker[w]) /\ ~Handles(worker'[w]) => OneHandled(worker') /\ NoneHandled(worker')
         /\ Handles(worker[w]) /\ Handles(worker'[w]) => OneHandled(worker') /\ ~NoneHandled(worker')
<1>1. worker \in [Workers -> Records] /\ OneHandled(worker)
  BY DEF AcceptInv, ServerTypes, Records
<1>2. PICK r \in Records : r = [at |-> at, got |-> worker[w].got] /\ worker' = [worker EXCEPT ![w] = r]
  BY <1>1, GotoMoves
<1>3. worker' \in [Workers -> Records] /\ worker'[w] = r /\ \A v \in Workers \ {w} : worker'[v] = worker[v]
  BY <1>1, <1>2
<1>4. /\ (Handles(r) => Handles(worker[w]) \/ NoneHandled(worker)) => OneHandled(worker')
      /\ Handles(r) => ~NoneHandled(worker')
      /\ ~Handles(r) /\ Handles(worker[w]) => NoneHandled(worker')
      /\ (Handles(r) <=> Handles(worker[w])) => (NoneHandled(worker') <=> NoneHandled(worker))
  BY <1>1, <1>3 DEF NoneHandled, OneHandled
<1>5. r.at = at /\ r.got = worker[w].got
  BY <1>2
<1> QED  BY <1>3, <1>4, <1>5

Inside == {"spawn", "unborn", "idle", "left", "accepted", "test", "again", "close", "stop"}

\* Steps that neither touch the accept nor enter or leave the destructor.
LEMMA IdleMoveKeepsAccept ==
  ASSUME AcceptInv, NEW w \in Workers, NEW at \in Inside, Goto(w, at), at \notin {"accepted", "test", "again"},
         worker[w].at \in Inside \ {"accepted", "test", "again"}, UNCHANGED <<open, accepts, ready>>
  PROVE  AcceptInv'
<1>1. ~Handles(worker[w]) /\ at \in Places
  BY DEF Handles, Inside, Places
<1>2. ~Handles(worker'[w])
  BY <1>1, MoveKeepsAccept DEF Handles
<1> QED  BY <1>1, <1>2, MoveKeepsAccept, ServerAssumption DEF AcceptInv, ServerTypes, Inside, Records

LEMMA RunKeepsAccept ==
  ASSUME AcceptInv, Run
  PROVE  AcceptInv'
<1>1. worker[Main].at = "constructed" /\ accepts = 0 /\ NoneQueued(ready) /\ NoneHandled(worker)
  BY DEF Run, At, AcceptInv
<1>2. /\ worker' \in [Workers -> Records] /\ worker'[Main].at = "spawn"
      /\ OneHandled(worker') /\ NoneHandled(worker') /\ UNCHANGED open
  <2>1. Goto(Main, "spawn") /\ "spawn" \in Places /\ UNCHANGED open
    BY DEF Run, Places
  <2>2. worker'[Main].at = "spawn"
    BY <2>1, ServerAssumption, MoveKeepsAccept
  <2>3. ~Handles(worker[Main]) /\ ~Handles(worker'[Main])
    BY <1>1, <2>2 DEF Handles
  <2> QED  BY <1>1, <2>1, <2>2, <2>3, ServerAssumption, MoveKeepsAccept
<1>3. CASE open
  BY <1>1, <1>2, <1>3 DEF Run, DoAccept, AcceptInv, ServerTypes, Records
<1>4. CASE ~open
  <2>1. PICK x \in Completions : x.kind = "accept" /\ ready' = Append(ready, x) /\ UNCHANGED accepts
    BY <1>4 DEF Run, DoAccept, Completion, Completions, Somebody
  <2>2. ready \in Seq(Completions)
    BY DEF AcceptInv, ServerTypes
  <2>3. ready' \in Seq(Completions) /\ OneQueued(ready')
    BY <1>1, <2>1, <2>2, Appended, AppendToQueue
  <2> QED  BY <1>1, <1>2, <1>4, <2>1, <2>3 DEF AcceptInv, ServerTypes, Records
<1> QED  BY <1>3, <1>4

LEMMA SpawnKeepsAccept ==
  ASSUME AcceptInv, Spawn
  PROVE  AcceptInv'
<1>1. PICK w \in Workers : /\ worker[w].at \in {"unborn", "spawn"} /\ Goto(w, "idle")
                           /\ UNCHANGED <<open, accepts, ready>>
  <2>1. CASE \E w \in Workers : worker[w].at = "unborn"
    BY <2>1 DEF Spawn, Goto, At
  <2>2. CASE ~\E w \in Workers : worker[w].at = "unborn"
    BY <2>2, ServerAssumption DEF Spawn, Goto, At
  <2> QED  BY <2>1, <2>2
<1>2. /\ "idle" \in Inside /\ "idle" \notin {"accepted", "test", "again"}
      /\ worker[w].at \in Inside \ {"accepted", "test", "again"}
  BY <1>1 DEF Inside
<1> QED  BY <1>1, <1>2, IdleMoveKeepsAccept

LEMMA TakeAcceptKeepsAccept ==
  ASSUME AcceptInv, NEW w \in Workers, TakeAccept(w)
  PROVE  AcceptInv'
<1>1. /\ worker \in [Workers -> Records] /\ OneHandled(worker) /\ ready \in Seq(Completions)
      /\ OneQueued(ready) /\ ready # <<>> /\ Head(ready).kind = "accept" /\ ready' = Tail(ready)
      /\ worker[w].at = "idle" /\ UNCHANGED <<open, accepts>>
  BY DEF AcceptInv, ServerTypes, Records, TakeAccept, At
<1>2. PICK r \in Records : r.at = "accepted" /\ worker' = [worker EXCEPT ![w] = r]
  <2>1. Head(ready) \in Completions
    BY <1>1, TakenOff
  <2> QED  BY <2>1 DEF TakeAccept, Records, Places, Completions
<1>3. /\ ready' \in Seq(Completions) /\ OneQueued(ready') /\ NoneQueued(ready') /\ ~NoneQueued(ready)
  BY <1>1, TakenOff, TakeFromQueue
<1>4. NoneHandled(worker) /\ accepts = 0
  BY <1>3 DEF AcceptInv, ServerTypes
<1>5. Handles(r)
  BY <1>2 DEF Handles
<1>6. worker' \in [Workers -> Records] /\ OneHandled(worker') /\ ~NoneHandled(worker')
  <2>1. /\ worker' \in [Workers -> Records] /\ worker'[w] = r
        /\ \A v \in Workers \ {w} : worker'[v] = worker[v]
    BY <1>1, <1>2
  <2> QED  BY <1>4, <1>5, <2>1 DEF NoneHandled, OneHandled
<1>7. /\ worker'[Main].at # "constructed"
      /\ worker'[Main].at \in {"destroyStop", "join", "destroyed"} => ~open
  <2>1. worker'[Main] = worker[Main] \/ worker'[Main].at = "accepted"
    BY <1>1, <1>2, ServerAssumption
  <2>2. worker[Main].at # "constructed"
    BY <1>3 DEF AcceptInv
  <2> QED  BY <2>1, <2>2 DEF AcceptInv
<1>8. ServerTypes'
  BY <1>1, <1>3, <1>6 DEF AcceptInv, ServerTypes, Records
<1>9. accepts' = 0 /\ UNCHANGED open /\ OneQueued(ready') /\ NoneQueued(ready')
  BY <1>1, <1>3, <1>4
<1> QED  BY <1>6, <1>7, <1>8, <1>9 DEF AcceptInv

\* The steps of the accept handler.
LEMMA HandlerKeepsAccept ==
  ASSUME AcceptInv, NEW w \in Workers, TestOpen(w) \/ AcceptAgain(w)
  PROVE  AcceptInv'
<1>1. /\ Handles(worker[w]) /\ ready \in Seq(Completions) /\ accepts = 0 /\ NoneQueued(ready)
      /\ OneQueued(ready)
  BY DEF TestOpen, AcceptAgain, At, Handles, AcceptInv, ServerTypes, NoneHandled
<1>2. CASE TestOpen(w)
  <2>1. PICK at \in {"again", "idle"} : /\ at = (IF open THEN "again" ELSE "idle")
                                        /\ Goto(w, at) /\ UNCHANGED <<open, accepts, ready>>
    BY <1>2 DEF TestOpen
  <2>2. at \in Places
    BY DEF Places
  <2>3. Handles(worker'[w]) <=> open
    BY <2>1, <2>2, MoveKeepsAccept DEF Handles
  <2>4. worker[w].at = "test" /\ worker'[w].at \in {"again", "idle"}
    BY <1>2, <2>1, <2>2, MoveKeepsAccept DEF TestOpen, At
  <2>5. /\ worker' \in [Workers -> Records] /\ \A v \in Workers \ {w} : worker'[v] = worker[v]
        /\ OneHandled(worker') /\ (NoneHandled(worker') <=> ~open)
    BY <1>1, <2>1, <2>2, <2>3, MoveKeepsAccept
  <2>6. /\ worker[Main].at # "constructed"
        /\ worker'[Main].at = worker[Main].at \/ worker'[Main].at \in {"again", "idle"}
    <3>1. worker[Main].at # "constructed"
      BY <1>1 DEF AcceptInv, NoneHandled
    <3> QED  BY <2>4, <2>5, <3>1, ServerAssumption
  <2> QED  BY <1>1, <2>1, <2>5, <2>6 DEF AcceptInv, ServerTypes, Records
<1>3. CASE AcceptAgain(w)
  <2>1. Goto(w, "idle") /\ "idle" \in Places /\ UNCHANGED open
    BY <1>3 DEF AcceptAgain, Places
  <2>2. worker[w].at = "again" /\ worker'[w].at = "idle"
    BY <1>3, <2>1, MoveKeepsAccept DEF AcceptAgain, At
  <2>3. ~Handles(worker'[w])
    BY <2>2 DEF Handles
  <2>4. /\ worker' \in [Workers -> Records] /\ \A v \in Workers \ {w} : worker'[v] = worker[v]
        /\ OneHandled(worker') /\ NoneHandled(worker')
    BY <1>1, <2>1, <2>3, MoveKeepsAccept
  <2>5. worker'[Main].at = worker[Main].at \/ worker'[Main].at = "idle"
    BY <2>2, <2>4, ServerAssumption
  <2>6. worker[Main].at # "constructed"
    BY <1>1 DEF AcceptInv, NoneHandled
  <2>7. CASE open
    BY <1>1, <1>3, <2>1, <2>4, <2>5, <2>6, <2>7 DEF AcceptAgain, DoAccept, AcceptInv, ServerTypes, Records
  <2>8. CASE ~open
    <3>1. PICK x \in Completions : x.kind = "accept" /\ ready' = Append(ready, x) /\ UNCHANGED accepts
      BY <1>3, <2>8 DEF AcceptAgain, DoAccept, Completion, Completions, Somebody
    <3>2. ready' \in Seq(Completions) /\ OneQueued(ready')
      BY <1>1, <3>1, Appended, AppendToQueue
    <3> QED  BY <1>1, <2>1, <2>4, <2>5, <2>6, <2>8, <3>1, <3>2 DEF AcceptInv, ServerTypes, Records
  <2> QED  BY <2>7, <2>8
<1> QED  BY <1>2, <1>3

\* The accept handler itself: what it takes from the worker is its client.
LEMMA HandleKeepsAccept ==
  ASSUME AcceptInv, NEW w \in Workers, HandleAccept(w)
  PROVE  AcceptInv'
<1>1. worker \in [Workers -> Records] /\ OneHandled(worker) /\ Handles(worker[w]) /\ worker[w].at = "accepted"
  BY DEF AcceptInv, ServerTypes, Records, HandleAccept, At, Handles
<1>2. PICK r \in Records : r.at = "test" /\ worker' = [worker EXCEPT ![w] = r]
  BY DEF HandleAccept, Records, Places, Somebody
<1>3. Handles(r)
  BY <1>2 DEF Handles
<1>4. worker' \in [Workers -> Records] /\ OneHandled(worker') /\ (NoneHandled(worker') <=> NoneHandled(worker))
  BY <1>1, <1>2, <1>3, WorkerMoves, Zenon
<1>5. worker'[Main] = worker[Main] \/ (worker'[Main].at = "test" /\ worker[Main].at = "accepted")
  BY <1>1, <1>2, ServerAssumption
<1>6. UNCHANGED <<open, accepts, ready>>
  BY DEF HandleAccept
<1> QED  BY <1>1, <1>4, <1>5, <1>6 DEF AcceptInv, ServerTypes, Records

\* acceptor_.close(): an outstanding accept is aborted, and completes.
LEMMA CloseMovesAccept ==
  ASSUME AcceptInv, CloseAcceptor
  PROVE  /\ open' = FALSE /\ accepts' = 0 /\ ready' \in Seq(Completions) /\ OneQueued(ready')
         /\ accepts = 0 => ready' = ready
         /\ accepts = 1 => NoneHandled(worker)
<1>1. ready \in Seq(Completions) /\ OneQueued(ready) /\ accepts \in {0, 1}
  BY DEF AcceptInv, ServerTypes
<1> DEFINE x == Completion("accept", NoClient, 0)
<1>2. x \in Completions /\ x.kind = "accept"
  BY DEF Completion, Completions, Somebody
<1>3. CASE accepts = 0
  <2>1. ready' = ready \o [i \in 1..0 |-> x]
    BY <1>3 DEF CloseAcceptor
  <2>2. [i \in 1..0 |-> x] = <<>>
    OBVIOUS
  <2>3. ready' = ready
    BY <1>1, <2>1, <2>2, ConcatEmptySeq
  <2> QED  BY <1>1, <1>3, <2>3 DEF CloseAcceptor
<1>4. CASE accepts = 1
  <2>1. ready' = ready \o [i \in 1..1 |-> x]
    BY <1>4 DEF CloseAcceptor
  <2>2. [i \in 1..1 |-> x] = <<x>>
    <3> HIDE DEF x
    <3> QED  OBVIOUS
  <2>3. ready' = Append(ready, x)
    <3> HIDE DEF x
    <3>1. ready \o <<x>> = Append(ready, x)
      BY <1>1, <1>2, AppendIsConcat
    <3> QED  BY <2>1, <2>2, <3>1
  <2>4. NoneQueued(ready) /\ NoneHandled(worker)
    BY <1>4 DEF AcceptInv
  <2>5. ready' \in Seq(Completions) /\ OneQueued(ready')
    <3> HIDE DEF x
    <3> QED  BY <1>1, <1>2, <2>3, <2>4, Appended, AppendToQueue
  <2> QED  BY <1>4, <2>4, <2>5 DEF CloseAcceptor
<1> QED  BY <1>1, <1>3, <1>4

\* stop(), in a worker, in the destructor or in another thread.
LEMMA CloseKeepsAccept ==
  ASSUME AcceptInv, (\E w \in Workers : StopCloses(w)) \/ CallerCloses
  PROVE  AcceptInv'
<1>1. /\ open' = FALSE /\ accepts' = 0 /\ ready' \in Seq(Completions) /\ OneQueued(ready')
      /\ accepts = 0 => ready' = ready
      /\ accepts = 1 => NoneHandled(worker)
      /\ accepts \in {0, 1}
  BY CloseMovesAccept DEF StopCloses, CallerCloses, AcceptInv, ServerTypes
<1>2. NoneQueued(ready') \/ NoneHandled(worker)
  BY <1>1 DEF AcceptInv
<1>3. worker[Main].at = "constructed" => NoneQueued(ready') /\ NoneHandled(worker)
  BY <1>1 DEF AcceptInv
<1>4. CASE UNCHANGED worker
  BY <1>1, <1>2, <1>3, <1>4 DEF AcceptInv, ServerTypes
<1>5. ASSUME NEW w \in Workers, StopCloses(w)  PROVE AcceptInv'
  <2>1. PICK at \in {"stop", "destroyStop"} : Goto(w, at)
    BY <1>5 DEF StopCloses, Closing
  <2>2. at \in Places /\ worker[w].at \in {"close", "destroy"}
    BY <1>5 DEF StopCloses, Closing, Places, At
  <2>3. /\ worker' \in [Workers -> Records] /\ worker'[w].at = at
        /\ \A v \in Workers \ {w} : worker'[v] = worker[v]
    BY <2>1, <2>2, MoveKeepsAccept
  <2>4. ~Handles(worker[w]) /\ ~Handles(worker'[w])
    BY <2>2, <2>3 DEF Handles
  <2>5. OneHandled(worker') /\ (NoneHandled(worker') <=> NoneHandled(worker))
    BY <2>1, <2>2, <2>4, MoveKeepsAccept
  <2>6. worker'[Main].at = worker[Main].at \/ worker'[Main].at \in {"stop", "destroyStop"}
    BY <2>3, ServerAssumption
  <2> QED  BY <1>1, <1>2, <1>3, <2>3, <2>5, <2>6 DEF AcceptInv, ServerTypes, Records
<1> QED  BY <1>4, <1>5 DEF CallerCloses

LEMMA StopKeepsAccept ==
  ASSUME AcceptInv, NEW w \in Workers, StopStops(w)
  PROVE  AcceptInv'
<1>1. PICK at \in {"idle", "join"} : /\ Goto(w, at) /\ UNCHANGED <<open, accepts, ready>>
                                     /\ at = "join" => worker[w].at = "destroyStop"
  BY DEF StopStops, Stopping, At
<1>2. at \in Places /\ worker[w].at \in {"stop", "destroyStop"}
  BY DEF StopStops, Stopping, Places, At
<1>3. /\ worker' \in [Workers -> Records] /\ worker'[w].at = at
      /\ \A v \in Workers \ {w} : worker'[v] = worker[v]
  BY <1>1, <1>2, MoveKeepsAccept
<1>4. ~Handles(worker[w]) /\ ~Handles(worker'[w])
  BY <1>1, <1>2, <1>3 DEF Handles
<1>5. OneHandled(worker') /\ (NoneHandled(worker') <=> NoneHandled(worker))
  BY <1>1, <1>2, <1>4, MoveKeepsAccept
<1>6. \/ worker'[Main].at = worker[Main].at
      \/ worker'[Main].at = "idle" /\ worker[Main].at \in {"stop", "destroyStop"}
      \/ worker'[Main].at = "join" /\ worker[Main].at = "destroyStop"
  BY <1>1, <1>2, <1>3, ServerAssumption
<1> QED  BY <1>1, <1>3, <1>5, <1>6 DEF AcceptInv, ServerTypes, Records

LEMMA DestroyKeepsAccept ==
  ASSUME AcceptInv, BeginDestroy \/ Join
  PROVE  AcceptInv'
<1>1. PICK at \in {"destroy", "destroyed"} :
        /\ Goto(Main, at) /\ UNCHANGED open
        /\ worker[Main].at \in {"constructed", "left", "join"}
        /\ at = "destroyed" => worker[Main].at = "join" /\ accepts' = 0 /\ ready' = <<>>
        /\ at = "destroy" => UNCHANGED <<accepts, ready>>
  BY DEF BeginDestroy, Join, At
<1>2. at \in Places
  BY DEF Places
<1>3. worker' \in [Workers -> Records] /\ worker'[Main].at = at
  BY <1>1, <1>2, MoveKeepsAccept, ServerAssumption
<1>4. ~Handles(worker[Main]) /\ ~Handles(worker'[Main])
  BY <1>1, <1>3 DEF Handles
<1>5. OneHandled(worker') /\ (NoneHandled(worker') <=> NoneHandled(worker))
  BY <1>1, <1>2, <1>4, MoveKeepsAccept, ServerAssumption
<1>6. CASE at = "destroyed"
  <2>1. ready' \in Seq(Completions) /\ OneQueued(ready') /\ NoneQueued(ready')
    BY <1>1, <1>6, EmptySeq DEF OneQueued, NoneQueued
  <2> QED  BY <1>1, <1>3, <1>5, <1>6, <2>1 DEF AcceptInv, ServerTypes, Records
<1>7. CASE at = "destroy"
  BY <1>1, <1>3, <1>5, <1>7 DEF AcceptInv, ServerTypes, Records
<1> QED  BY <1>6, <1>7

\* An outstanding accept completes, with a client or an error.
LEMMA CompletionKeepsAccept ==
  ASSUME AcceptInv, AcceptFails \/ \E c \in Clients : AcceptCompletes(c)
  PROVE  AcceptInv'
<1>1. PICK x \in Completions : x.kind = "accept" /\ ready' = Append(ready, x)
  BY DEF AcceptFails, AcceptCompletes, Completion, Completions, Somebody
<1>2. accepts = 1 /\ accepts' = 0 /\ UNCHANGED <<open, worker>>
  BY DEF AcceptFails, AcceptCompletes, AcceptInv, ServerTypes
<1>3. ready \in Seq(Completions) /\ NoneQueued(ready) /\ NoneHandled(worker)
  BY <1>2 DEF AcceptInv, ServerTypes
<1>4. ready' \in Seq(Completions) /\ OneQueued(ready') /\ ~NoneQueued(ready')
  BY <1>1, <1>3, Appended, AppendToQueue
<1> QED  BY <1>2, <1>3, <1>4 DEF AcceptInv, ServerTypes

\* Any other completion is queued or taken.
LEMMA OtherCompletionKeepsAccept ==
  ASSUME AcceptInv, NEW x \in Completions, x.kind # "accept", ready' = Append(ready, x),
         UNCHANGED <<open, accepts, worker>>
  PROVE  AcceptInv'
<1>1. ready \in Seq(Completions) /\ OneQueued(ready)
  BY DEF AcceptInv, ServerTypes
<1>2. ready' \in Seq(Completions) /\ OneQueued(ready') /\ (NoneQueued(ready') <=> NoneQueued(ready))
  BY <1>1, Appended, AppendToQueue
<1> QED  BY <1>2 DEF AcceptInv, ServerTypes

LEMMA OtherTakenKeepsQueue ==
  ASSUME AcceptInv, ready # <<>>, Head(ready).kind # "accept", ready' = Tail(ready)
  PROVE  ready' \in Seq(Completions) /\ OneQueued(ready') /\ (NoneQueued(ready') <=> NoneQueued(ready))
<1>1. ready \in Seq(Completions) /\ OneQueued(ready)
  BY DEF AcceptInv, ServerTypes
<1> QED  BY <1>1, TakenOff, TakeFromQueue

LEMMA TakeSignalKeepsAccept ==
  ASSUME AcceptInv, NEW w \in Workers, TakeSignal(w)
  PROVE  AcceptInv'
<1>1. /\ Goto(w, "close") /\ "close" \in Places /\ worker[w].at = "idle" /\ UNCHANGED <<open, accepts>>
      /\ ready' \in Seq(Completions) /\ OneQueued(ready') /\ (NoneQueued(ready') <=> NoneQueued(ready))
  BY OtherTakenKeepsQueue DEF TakeSignal, At, Places
<1>2. /\ worker' \in [Workers -> Records] /\ worker'[w].at = "close"
      /\ \A v \in Workers \ {w} : worker'[v] = worker[v]
  BY <1>1, MoveKeepsAccept
<1>3. ~Handles(worker[w]) /\ ~Handles(worker'[w])
  BY <1>1, <1>2 DEF Handles
<1>4. OneHandled(worker') /\ (NoneHandled(worker') <=> NoneHandled(worker))
  BY <1>1, <1>3, MoveKeepsAccept
<1>5. \/ worker'[Main].at = worker[Main].at
      \/ worker'[Main].at = "close" /\ worker[Main].at = "idle"
  BY <1>1, <1>2, ServerAssumption
<1> QED  BY <1>1, <1>2, <1>4, <1>5 DEF AcceptInv, ServerTypes, Records

-----------------------------------------------------------------------------
(* Lemmas about one session.                                               *)

\* A completion that is not the session's says nothing of it.
LEMMA AppendOther ==
  ASSUME NEW q \in Seq(Completions), NEW c, NEW x \in Completions, ~IsOf(x, c),
         NEW s, NEW e, NEW here, SessionOk(s, e, here, q, c)
  PROVE  SessionOk(s, e, here, Append(q, x), c)
<1> DEFINE p == Append(q, x)
<1>1. \A i \in 1..Len(p) : \/ i \in 1..Len(q) /\ p[i] = q[i]
                           \/ i = Len(q) + 1 /\ i \notin 1..Len(q) /\ p[i] = x
  BY EntryOfAppended
<1> HIDE DEF p
<1>2. NoneOf(q, c) => NoneOf(p, c)
  BY <1>1, Zenon DEF NoneOf
<1>3. OneOf(q, c) => OneOf(p, c)
  BY <1>1, Zenon DEF OneOf
<1>4. EachTells(q, c, s, e) => EachTells(p, c, s, e)
  BY <1>1, Zenon DEF EachTells
<1> QED  BY <1>2, <1>3, <1>4, Zenon DEF SessionOk, p

\* The completion of the session's operation is the only one of it.
LEMMA AppendOwn ==
  ASSUME NEW q \in Seq(Completions), NEW c, NEW x \in Completions, IsOf(x, c), NoneOf(q, c),
         NEW s, NEW e, Tells(x, s, e)
  PROVE  OneOf(Append(q, x), c) /\ EachTells(Append(q, x), c, s, e)
<1> DEFINE p == Append(q, x)
<1>1. \A i \in 1..Len(p) : \/ i \in 1..Len(q) /\ p[i] = q[i]
                           \/ i = Len(q) + 1 /\ i \notin 1..Len(q) /\ p[i] = x
  BY EntryOfAppended
<1> HIDE DEF p
<1>2. OneOf(p, c)
  BY <1>1, Zenon DEF OneOf, NoneOf
<1>3. EachTells(p, c, s, e)
  BY <1>1, Zenon DEF EachTells, NoneOf
<1> QED  BY <1>2, <1>3 DEF p

\* A completion is taken; if it is the session's there is none of it left.
LEMMA TakeAny ==
  ASSUME NEW q \in Seq(Completions), q # <<>>, NEW c,
         NEW s, NEW e, NEW here, SessionOk(s, e, here, q, c)
  PROVE  /\ SessionOk(s, e, here, Tail(q), c)
         /\ IsOf(Head(q), c) => /\ NoneOf(Tail(q), c) /\ Tells(Head(q), s, e)
                                /\ s.ops = {} /\ here \notin {"away", "queued"}
<1> DEFINE t == Tail(q)
<1>1. /\ 1 \in 1..Len(q) /\ Head(q) = q[1]
      /\ \A i \in 1..Len(t) : i + 1 \in 1..Len(q) /\ i + 1 # 1 /\ i \in Nat /\ t[i] = q[i + 1]
  BY TakenOff
<1> HIDE DEF t
<1>2. NoneOf(q, c) => NoneOf(t, c)
  BY <1>1, Zenon DEF NoneOf
<1>3. OneOf(t, c)
  <2> SUFFICES ASSUME NEW i \in 1..Len(t), NEW j \in 1..Len(t), IsOf(t[i], c), IsOf(t[j], c)
               PROVE  i = j
    BY Zenon DEF OneOf
  <2>1. OneOf(q, c)
    BY Zenon DEF SessionOk
  <2>2. i + 1 = j + 1
    BY <1>1, <2>1, Zenon DEF OneOf
  <2>3. i \in Nat /\ j \in Nat
    BY <1>1
  <2> QED  BY <2>2, <2>3
<1>4. EachTells(q, c, s, e) => EachTells(t, c, s, e)
  BY <1>1, Zenon DEF EachTells
<1>5. SessionOk(s, e, here, t, c)
  BY <1>2, <1>3, <1>4, Zenon DEF SessionOk
<1>6. ASSUME IsOf(Head(q), c)
      PROVE  /\ NoneOf(t, c) /\ Tells(Head(q), s, e)
             /\ s.ops = {} /\ here \notin {"away", "queued"}
  <2>1. OneOf(q, c) /\ EachTells(q, c, s, e)
    BY Zenon DEF SessionOk
  <2>2. ~NoneOf(q, c)
    BY <1>1, <1>6, Zenon DEF NoneOf
  <2>3. NoneOf(t, c)
    BY <1>1, <1>6, <2>1, Zenon DEF NoneOf, OneOf
  <2>4. Tells(Head(q), s, e)
    BY <1>1, <1>6, <2>1, Zenon DEF EachTells
  <2> QED  BY <2>2, <2>3, <2>4, Zenon DEF SessionOk
<1> QED  BY <1>5, <1>6 DEF t

\* A client that has gone, or one whose session has an operation, does not wait.
LEMMA GoneKeepsSession ==
  ASSUME NEW q, NEW c, NEW s, NEW e, NEW here, SessionOk(s, e, here, q, c)
  PROVE  SessionOk(s, e, "gone", q, c)
  BY DEF SessionOk

LEMMA BusyIsNotWaiting ==
  ASSUME NEW q, NEW c, NEW s, NEW e, NEW here, SessionOk(s, e, here, q, c), NEW op, op \in s.ops
  PROVE  here \notin {"away", "queued"} /\ NoneOf(q, c) /\ s.ops = {op}
  BY DEF SessionOk, NewSession

\* The read of a new session, or of one whose data is echoed.
LEMMA ReadBegins ==
  ASSUME NEW q, NEW c, NEW s \in Sessions, NEW e, NEW here, here \notin {"away", "queued"},
         s.ops = {}, InOrder(e), NoneOf(q, c), s.taken = Len(e)
  PROVE  SessionOk(DoRead(s), e, here, q, c) /\ DoRead(s) \in Sessions
<1>1. DoRead(s) \in Sessions /\ DoRead(s).ops = {"read"} /\ DoRead(s).taken = s.taken
  BY DEF DoRead, Sessions
<1>2. OneOf(q, c) /\ EachTells(q, c, DoRead(s), e)
  BY DEF NoneOf, OneOf, EachTells
<1> QED  BY <1>1, <1>2 DEF SessionOk

\* The write of what a read has brought.
LEMMA WriteBegins ==
  ASSUME NEW q, NEW c, NEW s \in Sessions, NEW e, NEW here, here \notin {"away", "queued"},
         s.ops = {}, InOrder(e), NoneOf(q, c), NEW n \in Nat, n > 0, Holds(s, e, 1, n)
  PROVE  SessionOk(DoWrite(s, n), e, here, q, c) /\ DoWrite(s, n) \in Sessions
<1> DEFINE t == DoWrite(s, n)
<1>1. /\ t \in Sessions /\ t.ops = {"write"} /\ t.taken = s.taken
      /\ t.buffer = s.buffer /\ t.left = 1..n
  <2>1. 1..n \subseteq Nat
    OBVIOUS
  <2> QED  BY <2>1 DEF DoWrite, Sessions
<1>2. OneOf(q, c) /\ EachTells(q, c, t, e)
  BY DEF NoneOf, OneOf, EachTells
<1>3. Writing(t, e)
  <2>1. n \in 1..Len(t.buffer)
    <3>1. Len(s.buffer) \in Nat /\ n <= Len(s.buffer)
      BY LenProperties DEF Sessions, Holds
    <3>2. PICK m \in Nat : m = Len(s.buffer)
      BY <3>1
    <3> QED  BY <1>1, <3>1, <3>2
  <2>2. 1 \in 1..n
    OBVIOUS
  <2>3. t.left = 1..n /\ Holds(t, e, 1, n)
    BY <1>1, Zenon DEF Holds
  <2> HIDE DEF t
  <2> QED  BY <2>1, <2>2, <2>3, Zenon DEF Writing
<1> HIDE DEF t
<1>4. SessionOk(t, e, here, q, c)
  BY <1>1, <1>2, <1>3 DEF SessionOk
<1> QED  BY <1>1, <1>4 DEF t

\* The operation of a session ends, and its completion is queued.
LEMMA OperationEnds ==
  ASSUME NEW q \in Seq(Completions), NEW c, NEW x \in Completions, IsOf(x, c), NoneOf(q, c),
         NEW s, NEW e, NEW here, here \notin {"away", "queued"},
         s.ops = {}, InOrder(e), Tells(x, s, e)
  PROVE  SessionOk(s, e, here, Append(q, x), c)
<1>1. OneOf(Append(q, x), c) /\ EachTells(Append(q, x), c, s, e)
  BY AppendOwn
<1> QED  BY <1>1 DEF SessionOk

\* What a read of n bytes makes of the session.
AfterRead(s, n) ==
  [s EXCEPT !.ops = @ \ {"read"}, !.taken = @ + n,
            !.buffer = [i \in 1..n |-> s.taken + i] \o SubSeq(@, n + 1, Len(@))]

LEMMA ConcatParts ==
  ASSUME NEW u \in Seq(Nat), NEW v \in Seq(Nat), NEW n \in Nat, NEW m \in Nat,
         n = Len(u), m = Len(v), NEW w, w = u \o v
  PROVE  Len(w) = n + m /\ \A i \in 1..(n + m) : w[i] = IF i <= n THEN u[i] ELSE v[i - n]
  BY ConcatProperties

LEMMA ReadFills ==
  ASSUME NEW s \in Sessions, NEW e \in Seq(Nat), NEW n \in Nat, n > 0,
         s.ops = {"read"}, s.taken = Len(e)
  PROVE  /\ AfterRead(s, n) \in Sessions /\ AfterRead(s, n).ops = {}
         /\ Holds(AfterRead(s, n), e, 1, n)
<1>1. PICK d \in Nat : d = s.taken
  BY DEF Sessions
<1>2. s.buffer \in Seq(Nat)
  BY DEF Sessions
<1>3. PICK new \in Seq(Nat) : new = [i \in 1..n |-> d + i] /\ Len(new) = n
  <2>1. [i \in 1..n |-> d + i] \in Seq(Nat) /\ Len([i \in 1..n |-> d + i]) = n
    OBVIOUS
  <2> QED  BY <2>1
<1>4. PICK old \in Seq(Nat) : old = SubSeq(s.buffer, n + 1, Len(s.buffer))
  <2>1. PICK b \in Nat : b = Len(s.buffer)
    BY <1>2, LenProperties
  <2>2. \A i \in (n + 1)..b : s.buffer[i] \in Nat
    <3>1. \A i \in (n + 1)..b : i \in 1..b
      BY <2>1
    <3> QED  BY <1>2, <2>1, <3>1, ElementOfSeq
  <2>3. SubSeq(s.buffer, n + 1, b) \in Seq(Nat)
    <3>1. n + 1 \in Int /\ b \in Int
      BY <2>1
    <3> QED  BY <2>2, <3>1, SubSeqProperties
  <2> QED  BY <2>1, <2>3
<1>5. PICK b \in Seq(Nat) : b = new \o old
  BY <1>3, <1>4, ConcatProperties
<1>6. PICK o \in SUBSET {"read", "write"} : o = s.ops \ {"read"} /\ o = {}
  OBVIOUS
<1>7. PICK c \in Nat : c = s.taken + n
  BY <1>1
<1>8. PICK t : t = AfterRead(s, n)
  OBVIOUS
<1>9. t = [s EXCEPT !.ops = o, !.taken = c, !.buffer = b]
  <2>1. [i \in 1..n |-> s.taken + i] = new
    BY <1>1, <1>3
  <2> QED  BY <1>4, <1>5, <1>6, <1>7, <1>8, <2>1, Zenon DEF AfterRead
<1>10. t \in Sessions /\ t.ops = {} /\ t.taken = c /\ t.buffer = b
  <2>1. t \in Sessions /\ t.ops = o /\ t.taken = c /\ t.buffer = b
    BY <1>9 DEF Sessions
  <2> QED  BY <1>6, <2>1, Zenon
<1>11. PICK m \in Nat : m = Len(old)
  BY <1>4, LenProperties
<1>12. Len(b) = n + m /\ \A i \in 1..(n + m) : b[i] = IF i <= n THEN new[i] ELSE old[i - n]
  BY <1>3, <1>5, <1>11, ConcatParts
<1>13. \A i \in 1..n : b[i] = d + (i - 1 + 1)
  <2> TAKE i \in 1..n
  <2>1. i \in 1..(n + m) /\ i <= n /\ d + i = d + (i - 1 + 1)
    OBVIOUS
  <2>2. b[i] = new[i] /\ new[i] = d + i
    BY <1>3, <1>12, <2>1
  <2> QED  BY <2>1, <2>2
<1>14. n <= n + m /\ c = d + (n - 1 + 1)
  BY <1>1, <1>7
<1>15. Holds(t, e, 1, n)
  BY <1>1, <1>10, <1>12, <1>13, <1>14, Zenon DEF Holds
<1> QED  BY <1>8, <1>10, <1>15

\* What sending cell k makes of the session.
AfterWrite(s, k) ==
  [s EXCEPT !.left = @ \ {k}, !.ops = IF s.left = {k} THEN @ \ {"write"} ELSE @]

LEMMA EchoGrows ==
  ASSUME NEW e \in Seq(Nat), InOrder(e), NEW l \in Nat, l = Len(e)
  PROVE  /\ Append(e, l + 1) \in Seq(Nat) /\ Len(Append(e, l + 1)) = l + 1
         /\ InOrder(Append(e, l + 1))
<1>1. Append(e, l + 1) \in Seq(Nat) /\ Len(Append(e, l + 1)) = l + 1
  BY AppendProperties
<1>2. \A i \in 1..(l + 1) : Append(e, l + 1)[i] = i
  <2> TAKE i \in 1..(l + 1)
  <2>1. CASE i = l + 1
    <3>1. Append(e, l + 1)[Len(e) + 1] = l + 1
      BY AppendProperties
    <3> QED  BY <2>1, <3>1
  <2>2. CASE i \in 1..l
    <3>1. Append(e, l + 1)[i] = e[i]
      BY <2>2, AppendProperties
    <3> QED  BY <2>2, <3>1 DEF InOrder
  <2> QED  BY <2>1, <2>2
<1> QED  BY <1>1, <1>2 DEF InOrder

\* The cell that async_write sends next.
NextCell(s) == CHOOSE i \in s.left : \A j \in s.left : i <= j

LEMMA WriteSends ==
  ASSUME NEW s \in Sessions, NEW e \in Seq(Nat), InOrder(e), s.ops = {"write"}, Writing(s, e)
  PROVE  \E k \in Nat, t \in Sessions, f \in Seq(Nat) :
           /\ k = NextCell(s) /\ k > 0
           /\ t = AfterWrite(s, k) /\ f = Append(e, s.buffer[k]) /\ InOrder(f)
           /\ s.left = {k} => t.ops = {} /\ t.taken = Len(f)
           /\ s.left # {k} => t.ops = {"write"} /\ Writing(t, f)
<1>1. PICK n \in 1..Len(s.buffer) : \E k \in 1..n : s.left = k..n /\ Holds(s, e, k, n)
  BY DEF Writing
<1>2. PICK k \in 1..n : s.left = k..n /\ Holds(s, e, k, n)
  BY <1>1
<1>3. PICK b \in Nat : b = Len(s.buffer)
  BY LenProperties DEF Sessions
<1>4. n \in Nat /\ k \in Nat /\ n \in 1..b /\ k > 0 /\ k <= n
  BY <1>3
<1>5. k = NextCell(s)
  BY <1>2, <1>4 DEF NextCell
<1>6. PICK l \in Nat : l = Len(e)
  BY LenProperties
<1>7. s.buffer[k] = l + 1
  <2>1. k \in k..n /\ l + (k - k + 1) = l + 1
    BY <1>4, <1>6
  <2>2. s.buffer[k] = l + (k - k + 1)
    BY <1>2, <1>6, <2>1 DEF Holds
  <2> QED  BY <2>1, <2>2
<1> DEFINE t == AfterWrite(s, k)
           f == Append(e, l + 1)
<1>8. f \in Seq(Nat) /\ InOrder(f) /\ Len(f) = l + 1
  BY <1>6, EchoGrows
<1>9. /\ t.left = s.left \ {k} /\ t.buffer = s.buffer /\ t.taken = s.taken
      /\ t.ops = (IF s.left = {k} THEN {} ELSE {"write"})
      /\ t \in Sessions
  BY DEF AfterWrite, Sessions
<1> HIDE DEF t, f
<1>10. s.taken = l + (n - k + 1)
  BY <1>2, <1>6 DEF Holds
<1>11. ASSUME s.left = {k}  PROVE t.ops = {} /\ t.taken = Len(f)
  <2>1. n \in {k}
    <3>1. n \in k..n
      BY <1>4
    <3> QED  BY <1>2, <1>11, <3>1
  <2> QED  BY <1>4, <1>8, <1>9, <1>10, <1>11, <2>1
<1>12. ASSUME s.left # {k}  PROVE t.ops = {"write"} /\ Writing(t, f)
  <2>1. n # k
    <3>1. k..k = {k}
      BY <1>4
    <3> QED  BY <1>2, <1>12, <3>1
  <2>2. PICK m \in 1..n : m = k + 1
    BY <1>4, <2>1
  <2>3. t.left = m..n
    <3>1. (k..n) \ {k} = m..n
      BY <1>4, <2>2
    <3> QED  BY <1>2, <1>9, <3>1
  <2>4. t.taken = (l + 1) + (n - m + 1)
    BY <1>4, <1>9, <1>10, <2>2
  <2>5. ASSUME NEW i \in m..n  PROVE t.buffer[i] = (l + 1) + (i - m + 1)
    <3>1. i \in k..n /\ l + (i - k + 1) = (l + 1) + (i - m + 1)
      BY <1>4, <2>2
    <3>2. s.buffer[i] = l + (i - k + 1)
      BY <1>2, <1>6, <3>1 DEF Holds
    <3> QED  BY <1>9, <3>1, <3>2
  <2>6. n <= Len(t.buffer)
    BY <1>2, <1>9 DEF Holds
  <2>7. Holds(t, f, m, n)
    BY <1>8, <2>4, <2>5, <2>6, Zenon DEF Holds
  <2>8. n \in 1..Len(t.buffer)
    BY <1>9
  <2> QED  BY <1>9, <1>12, <2>2, <2>3, <2>7, <2>8, Zenon DEF Writing
<1>13. t = AfterWrite(s, k) /\ f = Append(e, s.buffer[k])
  BY <1>7 DEF t, f
<1>14. k \in Nat /\ k > 0 /\ t \in Sessions /\ f \in Seq(Nat) /\ InOrder(f)
  BY <1>4, <1>8, <1>9
<1> QED  BY <1>5, <1>11, <1>12, <1>13, <1>14, Zenon

-----------------------------------------------------------------------------
(* The sessions keep their invariant.                                      *)

LEMMA QueueOkKept ==
  ASSUME NEW q \in Seq(Completions), NEW cl, QueueOk(q, cl)
  PROVE  /\ \A x \in Completions : EntryOk(x, cl) => QueueOk(Append(q, x), cl)
         /\ q # <<>> => QueueOk(Tail(q), cl) /\ EntryOk(Head(q), cl)
<1>1. ASSUME NEW x \in Completions, EntryOk(x, cl)  PROVE QueueOk(Append(q, x), cl)
  <2> DEFINE p == Append(q, x)
  <2>1. \A i \in 1..Len(p) : \/ i \in 1..Len(q) /\ p[i] = q[i]
                             \/ i = Len(q) + 1 /\ i \notin 1..Len(q) /\ p[i] = x
    BY EntryOfAppended
  <2> HIDE DEF p
  <2>2. QueueOk(p, cl)
    BY <1>1, <2>1, Zenon DEF QueueOk
  <2> QED  BY <2>2 DEF p
<1>2. ASSUME q # <<>>  PROVE QueueOk(Tail(q), cl) /\ EntryOk(Head(q), cl)
  <2>1. /\ 1 \in 1..Len(q) /\ Head(q) = q[1]
        /\ \A i \in 1..Len(Tail(q)) : i + 1 \in 1..Len(q) /\ Tail(q)[i] = q[i + 1]
    BY <1>2, TakenOff
  <2> QED  BY <2>1, Zenon DEF QueueOk
<1> QED  BY <1>1, <1>2

\* Steps that touch no session: a worker moves on, and perhaps a completion that
\* is no client's is queued.
LEMMA QuietKeepsEcho ==
  ASSUME EchoInv, AcceptInv', UNCHANGED <<client, session, echoed>>,
         UNCHANGED worker \/ \E w \in Workers, at \in Places : worker[w].at # "accepted" /\ Goto(w, at),
         \/ UNCHANGED ready
         \/ \E x \in Completions : /\ x.kind \in {"accept", "signal"} /\ x.client = NoClient
                                   /\ ready' = Append(ready, x)
         \/ ready # <<>> /\ ready' = Tail(ready)
  PROVE  EchoInv'
<1>1. ready \in Seq(Completions)
  BY DEF EchoInv, AcceptInv, ServerTypes
<1>2. /\ QueueOk(ready', client)
      /\ \A c \in Clients : SessionOk(session[c], echoed[c], client[c], ready', c)
  <2>1. CASE UNCHANGED ready
    BY <2>1 DEF EchoInv
  <2>2. ASSUME NEW x \in Completions, x.kind \in {"accept", "signal"}, x.client = NoClient,
               ready' = Append(ready, x)
        PROVE  /\ QueueOk(ready', client)
               /\ \A c \in Clients : SessionOk(session[c], echoed[c], client[c], ready', c)
    <3>1. EntryOk(x, client)
      BY <2>2 DEF EntryOk
    <3>2. \A c \in Clients : ~IsOf(x, c)
      BY <2>2, ServerAssumption DEF IsOf
    <3>3. QueueOk(ready', client)
      BY <1>1, <2>2, <3>1, QueueOkKept DEF EchoInv
    <3>4. ASSUME NEW c \in Clients  PROVE SessionOk(session[c], echoed[c], client[c], ready', c)
      <4>1. SessionOk(session[c], echoed[c], client[c], Append(ready, x), c)
        BY <1>1, <3>2, AppendOther DEF EchoInv
      <4> QED  BY <2>2, <4>1
    <3> QED  BY <3>3, <3>4
  <2>3. CASE ready # <<>> /\ ready' = Tail(ready)
    <3>1. QueueOk(ready', client)
      BY <1>1, <2>3, QueueOkKept DEF EchoInv
    <3>2. ASSUME NEW c \in Clients  PROVE SessionOk(session[c], echoed[c], client[c], ready', c)
      <4>1. SessionOk(session[c], echoed[c], client[c], Tail(ready), c)
        BY <1>1, <2>3, TakeAny DEF EchoInv
      <4> QED  BY <2>3, <4>1
    <3> QED  BY <3>1, <3>2
  <2> QED  BY <2>1, <2>2, <2>3
<1>3. WorkersOk(worker', client)
  <2>1. CASE UNCHANGED worker
    BY <2>1 DEF EchoInv
  <2>2. ASSUME NEW w \in Workers, NEW at \in Places, worker[w].at # "accepted", Goto(w, at)
        PROVE  WorkersOk(worker', client)
    <3>1. /\ worker'[w].got = worker[w].got
          /\ \A v \in Workers \ {w} : worker'[v] = worker[v]
      BY <2>2, MoveKeepsAccept DEF EchoInv
    <3>2. worker[w].got = NoClient
      BY <2>2 DEF EchoInv, WorkersOk
    <3> QED  BY <3>1, <3>2 DEF EchoInv, WorkersOk
  <2> QED  BY <2>1, <2>2
<1>4. UNCHANGED SessionTypes
  BY DEF SessionTypes
<1> QED  BY <1>2, <1>3, <1>4 DEF EchoInv

\* Steps of one client's session: its completion is queued or taken, and the
\* client may go.
LEMMA SessionStepKeepsEcho ==
  ASSUME EchoInv, AcceptInv', NEW c \in Clients, NEW s \in Sessions, NEW e \in Seq(Nat),
         NEW here \in {"live", "gone"}, client[c] \notin {"away", "queued"},
         client' = [client EXCEPT ![c] = here],
         session' = [session EXCEPT ![c] = s], echoed' = [echoed EXCEPT ![c] = e],
         UNCHANGED worker,
         \/ UNCHANGED ready
         \/ \E x \in Completions : IsOf(x, c) /\ ready' = Append(ready, x)
         \/ ready # <<>> /\ IsOf(Head(ready), c) /\ ready' = Tail(ready),
         SessionOk(s, e, here, ready', c)
  PROVE  EchoInv'
<1>1. ready \in Seq(Completions) /\ SessionTypes
  BY DEF EchoInv, AcceptInv, ServerTypes
<1>2. /\ client'[c] = here /\ session'[c] = s /\ echoed'[c] = e
      /\ \A d \in Clients \ {c} :
           client'[d] = client[d] /\ session'[d] = session[d] /\ echoed'[d] = echoed[d]
  BY <1>1 DEF SessionTypes
<1>3. SessionTypes'
  BY <1>1 DEF SessionTypes
<1>4. QueueOk(ready', client)
  <2>1. CASE UNCHANGED ready
    BY <2>1 DEF EchoInv
  <2>2. ASSUME NEW x \in Completions, IsOf(x, c), ready' = Append(ready, x)
        PROVE  QueueOk(ready', client)
    <3>1. EntryOk(x, client)
      BY <2>2 DEF EntryOk, IsOf
    <3> QED  BY <1>1, <2>2, <3>1, QueueOkKept DEF EchoInv
  <2>3. CASE ready # <<>> /\ ready' = Tail(ready)
    BY <1>1, <2>3, QueueOkKept DEF EchoInv
  <2> QED  BY <2>1, <2>2, <2>3
<1>5. ASSUME NEW d, client[d] = "queued"  PROVE client'[d] = "queued"
  <2>1. d # c
    BY <1>5
  <2> QED  BY <1>1, <1>5, <2>1 DEF SessionTypes
<1>6. QueueOk(ready', client')
  BY <1>4, <1>5, Zenon DEF QueueOk, EntryOk
<1>7. WorkersOk(worker', client')
  BY <1>5, Zenon DEF EchoInv, WorkersOk
<1>8. ASSUME NEW d \in Clients  PROVE SessionOk(session'[d], echoed'[d], client'[d], ready', d)
  <2>1. CASE d = c
    BY <1>2, <2>1
  <2>2. CASE d # c
    <3>1. SessionOk(session[d], echoed[d], client[d], ready, d)
      BY DEF EchoInv
    <3>2. CASE UNCHANGED ready
      BY <1>2, <2>2, <3>1, <3>2
    <3>3. ASSUME NEW x \in Completions, IsOf(x, c), ready' = Append(ready, x)
          PROVE  SessionOk(session[d], echoed[d], client[d], ready', d)
      <4>1. ~IsOf(x, d)
        BY <2>2, <3>3 DEF IsOf
      <4>2. SessionOk(session[d], echoed[d], client[d], Append(ready, x), d)
        BY <1>1, <3>1, <4>1, AppendOther
      <4> QED  BY <3>3, <4>2
    <3>4. ASSUME ready # <<>>, ready' = Tail(ready)
          PROVE  SessionOk(session[d], echoed[d], client[d], ready', d)
      <4>1. SessionOk(session[d], echoed[d], client[d], Tail(ready), d)
        BY <1>1, <3>1, <3>4, TakeAny
      <4> QED  BY <3>4, <4>1
    <3> QED  BY <1>2, <2>2, <3>2, <3>3, <3>4
  <2> QED  BY <2>1, <2>2
<1> QED  BY <1>3, <1>6, <1>7, <1>8 DEF EchoInv

\* A client connects.
LEMMA ConnectKeepsEcho ==
  ASSUME EchoInv, NEW c \in Clients, Connect(c), UNCHANGED sessionVars
  PROVE  EchoInv'
<1>1. UNCHANGED <<open, accepts, ready, worker, session, echoed>>
  BY DEF Connect, sessionVars
<1>2. AcceptInv'
  BY <1>1 DEF EchoInv, AcceptInv, ServerTypes
<1>3. client \in [Clients -> {"away", "queued", "live", "gone"}]
  BY DEF EchoInv, SessionTypes
<1>4. client[c] = "away" /\ client' = [client EXCEPT ![c] = "queued"]
  BY DEF Connect
<1>5. SessionTypes'
  BY <1>1, <1>3, <1>4 DEF EchoInv, SessionTypes
<1>6. ASSUME NEW d, client[d] = "queued"  PROVE client'[d] = "queued"
  <2>1. d # c
    BY <1>4, <1>6
  <2> QED  BY <1>3, <1>4, <1>6, <2>1
<1>7. QueueOk(ready', client') /\ WorkersOk(worker', client')
  BY <1>1, <1>6, Zenon DEF EchoInv, QueueOk, EntryOk, WorkersOk
<1>8. ASSUME NEW d \in Clients  PROVE SessionOk(session[d], echoed[d], client'[d], ready, d)
  <2>1. SessionOk(session[d], echoed[d], client[d], ready, d)
    BY DEF EchoInv
  <2>2. client'[d] = client[d] \/ (client[d] = "away" /\ client'[d] = "queued")
    BY <1>3, <1>4
  <2> QED  BY <2>1, <2>2 DEF SessionOk
<1> QED  BY <1>1, <1>2, <1>5, <1>7, <1>8 DEF EchoInv

\* An accept completes with a client.
LEMMA AcceptedKeepsEcho ==
  ASSUME EchoInv, NEW c \in Clients, AcceptCompletes(c), UNCHANGED sessionVars
  PROVE  EchoInv'
<1>1. /\ UNCHANGED <<client, worker, session, echoed>> /\ client[c] = "queued"
      /\ ready' = Append(ready, Completion("accept", c, 0))
  BY DEF AcceptCompletes, sessionVars
<1>2. AcceptInv'
  BY CompletionKeepsAccept DEF EchoInv
<1>3. PICK x \in Completions : x = Completion("accept", c, 0) /\ x.kind = "accept" /\ x.client = c
  <2>1. c \in Somebody /\ "accept" \in {"accept", "signal", "read", "write"}
    BY DEF Somebody
  <2> QED  BY <2>1, CompletionIs
<1>4. ready \in Seq(Completions)
  BY DEF EchoInv, AcceptInv, ServerTypes
<1>5. EntryOk(x, client)
  BY <1>1, <1>3 DEF EntryOk
<1>6. QueueOk(ready', client)
  BY <1>1, <1>3, <1>4, <1>5, QueueOkKept DEF EchoInv
<1>7. ASSUME NEW d \in Clients  PROVE SessionOk(session[d], echoed[d], client[d], ready', d)
  <2>1. ~IsOf(x, d)
    BY <1>3 DEF IsOf
  <2>2. SessionOk(session[d], echoed[d], client[d], Append(ready, x), d)
    BY <1>4, <2>1, AppendOther DEF EchoInv
  <2> QED  BY <1>1, <1>3, <2>2
<1>8. UNCHANGED SessionTypes
  BY <1>1 DEF SessionTypes
<1> QED  BY <1>1, <1>2, <1>6, <1>7, <1>8 DEF EchoInv

\* A session starts, or an accept that failed is logged.
LEMMA StartKeepsEcho ==
  ASSUME EchoInv, NEW w \in Workers, Start(w)
  PROVE  EchoInv'
<1>1. AcceptInv'
  BY HandleKeepsAccept DEF EchoInv, Start
<1>2. PICK g \in Somebody : g = worker[w].got
  BY DEF EchoInv, AcceptInv, ServerTypes
<1>3. /\ client' = [c \in Clients |-> IF c = g THEN "live" ELSE client[c]]
      /\ session' = [c \in Clients |-> IF c = g THEN DoRead(session[c]) ELSE session[c]]
      /\ worker' = [worker EXCEPT ![w] = [at |-> "test", got |-> NoClient]]
      /\ UNCHANGED <<ready, echoed>> /\ worker[w].at = "accepted"
  BY <1>2 DEF Start, HandleAccept, At
<1>4. worker'[w].got = NoClient /\ \A v \in Workers \ {w} : worker'[v] = worker[v]
  BY <1>3 DEF EchoInv, AcceptInv, ServerTypes
<1>5. Handles(worker[w]) /\ NoneQueued(ready) /\ OneHandled(worker)
  BY <1>3 DEF Handles, EchoInv, AcceptInv, NoneHandled
<1>6. QueueOk(ready', client')
  BY <1>3, <1>5, Zenon DEF EchoInv, QueueOk, EntryOk, NoneQueued
<1>7. WorkersOk(worker', client')
  <2>1. ASSUME NEW v \in Workers \ {w}  PROVE worker[v].got = NoClient
    <3>1. worker[v].at # "accepted"
      BY <1>5 DEF OneHandled, Handles
    <3> QED  BY <3>1 DEF EchoInv, WorkersOk
  <2>2. \A v \in Workers : worker'[v].got = NoClient
    BY <1>4, <2>1
  <2> QED  BY <2>2 DEF WorkersOk
<1>8. ASSUME NEW c \in Clients
      PROVE  /\ SessionOk(session'[c], echoed[c], client'[c], ready, c)
             /\ session'[c] \in Sessions /\ client'[c] \in {"away", "queued", "live", "gone"}
  <2>1. SessionOk(session[c], echoed[c], client[c], ready, c) /\ session[c] \in Sessions
    BY DEF EchoInv, SessionTypes
  <2>2. CASE c = g
    <3>1. client[c] = "queued"
      BY <1>2, <2>2, ServerAssumption DEF EchoInv, WorkersOk
    <3>2. session[c] = NewSession /\ echoed[c] = <<>> /\ NoneOf(ready, c) /\ InOrder(echoed[c])
      BY <2>1, <3>1 DEF SessionOk
    <3>3. session[c].ops = {} /\ session[c].taken = Len(echoed[c])
      BY <3>2 DEF NewSession
    <3>4. /\ SessionOk(DoRead(session[c]), echoed[c], "live", ready, c)
          /\ DoRead(session[c]) \in Sessions
      <4>1. "live" \notin {"away", "queued"}
        OBVIOUS
      <4> QED  BY <2>1, <3>2, <3>3, <4>1, ReadBegins, Zenon
    <3>5. client'[c] = "live" /\ session'[c] = DoRead(session[c])
      BY <1>3, <2>2
    <3> QED  BY <3>4, <3>5
  <2>3. CASE c # g
    <3>1. client'[c] = client[c] /\ session'[c] = session[c]
      BY <1>3, <2>3
    <3> QED  BY <2>1, <3>1 DEF EchoInv, SessionTypes
  <2> QED  BY <2>2, <2>3
<1>9. SessionTypes'
  <2>1. client' = [c \in Clients |-> client'[c]] /\ session' = [c \in Clients |-> session'[c]]
    BY <1>3
  <2> QED  BY <1>3, <1>8, <2>1 DEF EchoInv, SessionTypes
<1> QED  BY <1>1, <1>3, <1>6, <1>7, <1>8, <1>9 DEF EchoInv

\* A worker takes a completed accept.
LEMMA TakenKeepsEcho ==
  ASSUME EchoInv, NEW w \in Workers, TakeAccept(w), UNCHANGED sessionVars
  PROVE  EchoInv'
<1>1. AcceptInv'
  BY TakeAcceptKeepsAccept DEF EchoInv
<1>2. /\ ready \in Seq(Completions) /\ ready # <<>> /\ ready' = Tail(ready)
      /\ Head(ready).kind = "accept" /\ UNCHANGED <<client, session, echoed>>
      /\ worker' = [worker EXCEPT ![w] = [at |-> "accepted", got |-> Head(ready).client]]
  BY DEF TakeAccept, sessionVars, EchoInv, AcceptInv, ServerTypes
<1>3. /\ worker'[w].at = "accepted" /\ worker'[w].got = Head(ready).client
      /\ \A v \in Workers \ {w} : worker'[v] = worker[v]
  BY <1>2 DEF EchoInv, AcceptInv, ServerTypes
<1>4. QueueOk(ready', client) /\ EntryOk(Head(ready), client)
  BY <1>2, QueueOkKept DEF EchoInv
<1>5. WorkersOk(worker', client)
  BY <1>2, <1>3, <1>4 DEF EchoInv, WorkersOk, EntryOk
<1>6. ASSUME NEW c \in Clients  PROVE SessionOk(session[c], echoed[c], client[c], ready', c)
  <2>1. SessionOk(session[c], echoed[c], client[c], Tail(ready), c)
    BY <1>2, TakeAny DEF EchoInv
  <2> QED  BY <1>2, <2>1
<1>7. UNCHANGED SessionTypes
  BY <1>2 DEF SessionTypes
<1> QED  BY <1>1, <1>2, <1>4, <1>5, <1>6, <1>7 DEF EchoInv

\* The other steps of the accept loop and of stop().
LEMMA LoopKeepsEcho ==
  ASSUME EchoInv, UNCHANGED sessionVars,
         \/ \E w \in Workers : \/ LeaveRun(w) \/ TakeSignal(w) \/ TestOpen(w)
                               \/ AcceptAgain(w) \/ StopCloses(w) \/ StopStops(w)
         \/ Run \/ Spawn \/ BeginDestroy \/ CallerCloses \/ CallerStops \/ AcceptFails \/ Signal
  PROVE  EchoInv'
<1> DEFINE Moves == UNCHANGED worker \/ \E w \in Workers, at \in Places :
                      worker[w].at # "accepted" /\ Goto(w, at)
           Adds == \/ UNCHANGED ready
                   \/ \E x \in Completions : /\ x.kind \in {"accept", "signal"} /\ x.client = NoClient
                                             /\ ready' = Append(ready, x)
                   \/ ready # <<>> /\ ready' = Tail(ready)
<1>1. UNCHANGED <<session, echoed>> /\ AcceptInv /\ ready \in Seq(Completions)
  BY DEF sessionVars, EchoInv, AcceptInv, ServerTypes
<1>2. /\ Completion("accept", NoClient, 0) \in Completions
      /\ Completion("accept", NoClient, 0).kind = "accept"
      /\ Completion("accept", NoClient, 0).client = NoClient
  BY DEF Completion, Completions, Somebody
<1>3. /\ Completion("signal", NoClient, 0) \in Completions
      /\ Completion("signal", NoClient, 0).kind = "signal"
      /\ Completion("signal", NoClient, 0).client = NoClient
  BY DEF Completion, Completions, Somebody
<1>4. ASSUME DoAccept  PROVE Adds
  BY <1>2, <1>4, Zenon DEF DoAccept
<1>5. ASSUME CloseAcceptor  PROVE Adds
  <2>1. CASE accepts = 0
    BY <1>1, <1>5, <2>1, CloseMovesAccept
  <2>2. CASE accepts = 1
    <3>1. PICK x : x = Completion("accept", NoClient, 0)
      OBVIOUS
    <3>2. ready' = ready \o [i \in 1..1 |-> x]
      BY <1>5, <2>2, <3>1 DEF CloseAcceptor
    <3>3. [i \in 1..1 |-> x] = <<x>>
      OBVIOUS
    <3>4. ready' = Append(ready, x)
      BY <1>1, <1>2, <3>1, <3>2, <3>3, AppendIsConcat
    <3> QED  BY <1>2, <3>1, <3>4, Zenon
  <2> QED  BY <1>1, <2>1, <2>2 DEF AcceptInv, ServerTypes
<1>6. ASSUME NEW w \in Workers, NEW at \in Places, worker[w].at # "accepted", Goto(w, at)  PROVE Moves
  BY <1>6, Zenon
<1>7. ASSUME NEW w \in Workers,
             \/ LeaveRun(w) \/ TakeSignal(w) \/ TestOpen(w)
             \/ AcceptAgain(w) \/ StopCloses(w) \/ StopStops(w)
      PROVE  UNCHANGED client /\ AcceptInv' /\ Moves /\ Adds
  <2>1. CASE LeaveRun(w)
    <3>1. /\ Goto(w, "left") /\ "left" \in Places /\ "left" \in Inside /\ worker[w].at = "idle"
          /\ UNCHANGED <<client, open, accepts, ready>> /\ "idle" \in Inside
      BY <2>1 DEF LeaveRun, At, Places, Inside
    <3> HIDE DEF Moves, Adds
    <3>2. AcceptInv'
      BY <1>1, <3>1, IdleMoveKeepsAccept
    <3>3. Moves
      BY <1>6, <3>1
    <3> QED  BY <3>1, <3>2, <3>3 DEF Adds
  <2>2. CASE TakeSignal(w)
    <3>1. /\ Goto(w, "close") /\ "close" \in Places /\ worker[w].at = "idle"
          /\ UNCHANGED client /\ ready # <<>> /\ ready' = Tail(ready)
      BY <2>2 DEF TakeSignal, At, Places
    <3> HIDE DEF Moves
    <3>2. AcceptInv' /\ Moves
      BY <1>1, <1>6, <2>2, <3>1, TakeSignalKeepsAccept
    <3> QED  BY <3>1, <3>2
  <2>3. CASE TestOpen(w)
    <3>1. PICK at \in Places : Goto(w, at) /\ worker[w].at = "test" /\ UNCHANGED <<client, ready>>
      BY <2>3 DEF TestOpen, At, Places
    <3> HIDE DEF Moves
    <3>2. AcceptInv' /\ Moves
      BY <1>1, <1>6, <2>3, <3>1, HandlerKeepsAccept
    <3> QED  BY <3>1, <3>2
  <2>4. CASE AcceptAgain(w)
    <3>1. Goto(w, "idle") /\ "idle" \in Places /\ worker[w].at = "again" /\ UNCHANGED client /\ DoAccept
      BY <2>4 DEF AcceptAgain, At, Places
    <3> HIDE DEF Moves, Adds
    <3> QED  BY <1>1, <1>4, <1>6, <2>4, <3>1, HandlerKeepsAccept
  <2>5. CASE StopCloses(w)
    <3>1. PICK at \in Places : /\ Goto(w, at) /\ worker[w].at # "accepted"
                               /\ UNCHANGED client /\ CloseAcceptor
      BY <2>5 DEF StopCloses, Closing, At, Places
    <3> HIDE DEF Moves, Adds
    <3> QED  BY <1>1, <1>5, <1>6, <2>5, <3>1, CloseKeepsAccept
  <2>6. CASE StopStops(w)
    <3>1. PICK at \in Places : Goto(w, at) /\ worker[w].at # "accepted" /\ UNCHANGED <<client, ready>>
      BY <2>6 DEF StopStops, Stopping, At, Places
    <3> HIDE DEF Moves
    <3>2. AcceptInv' /\ Moves
      BY <1>1, <1>6, <2>6, <3>1, StopKeepsAccept
    <3> QED  BY <3>1, <3>2
  <2> QED  BY <1>7, <2>1, <2>2, <2>3, <2>4, <2>5, <2>6
<1>8. ASSUME Run \/ Spawn \/ BeginDestroy \/ CallerCloses \/ CallerStops \/ AcceptFails \/ Signal
      PROVE  UNCHANGED client /\ AcceptInv' /\ Moves /\ Adds
  <2>1. CASE Run
    <3>1. /\ Goto(Main, "spawn") /\ "spawn" \in Places /\ worker[Main].at # "accepted"
          /\ UNCHANGED client /\ DoAccept
      BY <2>1 DEF Run, At, Places
    <3> HIDE DEF Moves, Adds
    <3> QED  BY <1>1, <1>4, <1>6, <2>1, <3>1, RunKeepsAccept, ServerAssumption
  <2>2. CASE Spawn
    <3>1. "idle" \in Places /\ UNCHANGED <<client, ready>>
      BY <2>2 DEF Spawn, Places
    <3>2. PICK w \in Workers : worker[w].at # "accepted" /\ Goto(w, "idle")
      <4>1. CASE \E w \in Workers : worker[w].at = "unborn"
        BY <2>2, <4>1 DEF Spawn, Goto, At
      <4>2. CASE ~\E w \in Workers : worker[w].at = "unborn"
        BY <2>2, <4>2, ServerAssumption DEF Spawn, Goto, At
      <4> QED  BY <4>1, <4>2
    <3> HIDE DEF Moves
    <3>3. AcceptInv' /\ Moves
      BY <1>1, <1>6, <2>2, <3>1, <3>2, SpawnKeepsAccept
    <3> QED  BY <3>1, <3>3
  <2>3. CASE BeginDestroy
    <3>1. /\ Goto(Main, "destroy") /\ "destroy" \in Places /\ worker[Main].at # "accepted"
          /\ UNCHANGED <<client, ready>>
      BY <2>3 DEF BeginDestroy, At, Places
    <3> HIDE DEF Moves
    <3>2. AcceptInv' /\ Moves
      BY <1>1, <1>6, <2>3, <3>1, DestroyKeepsAccept, ServerAssumption
    <3> QED  BY <3>1, <3>2
  <2>4. CASE CallerCloses
    <3>1. UNCHANGED <<client, worker>> /\ CloseAcceptor
      BY <2>4 DEF CallerCloses
    <3> HIDE DEF Adds
    <3> QED  BY <1>1, <1>5, <2>4, <3>1, CloseKeepsAccept
  <2>5. CASE CallerStops
    <3>1. UNCHANGED <<client, worker, open, accepts, ready>>
      BY <2>5 DEF CallerStops
    <3>2. AcceptInv'
      BY <1>1, <3>1 DEF AcceptInv, ServerTypes
    <3> QED  BY <3>1, <3>2
  <2>6. CASE AcceptFails
    <3>1. UNCHANGED <<client, worker>> /\ ready' = Append(ready, Completion("accept", NoClient, 0))
      BY <2>6 DEF AcceptFails
    <3>2. Adds
      BY <1>2, <3>1, Zenon
    <3> HIDE DEF Adds
    <3> QED  BY <1>1, <2>6, <3>1, <3>2, CompletionKeepsAccept
  <2>7. CASE Signal
    <3>1. /\ UNCHANGED <<client, worker, open, accepts>>
          /\ ready' = Append(ready, Completion("signal", NoClient, 0))
      BY <2>7 DEF Signal
    <3>2. Adds
      BY <1>3, <3>1, Zenon
    <3>3. PICK x \in Completions : x.kind = "signal" /\ ready' = Append(ready, x)
      BY <1>3, <3>1, Zenon
    <3> HIDE DEF Adds
    <3> QED  BY <1>1, <3>1, <3>2, <3>3, OtherCompletionKeepsAccept
  <2> QED  BY <1>8, <2>1, <2>2, <2>3, <2>4, <2>5, <2>6, <2>7
<1>9. UNCHANGED client /\ AcceptInv' /\ Moves /\ Adds
  <2> HIDE DEF Moves, Adds
  <2> QED  BY <1>7, <1>8
<1> QED  BY <1>1, <1>9, QuietKeepsEcho

LEMMA SameFunction ==
  ASSUME NEW D, NEW R, NEW f \in [D -> R], NEW d \in D
  PROVE  f = [f EXCEPT ![d] = f[d]]
  OBVIOUS

\* What is known of client c's session.
LEMMA SessionFacts ==
  ASSUME EchoInv, NEW c \in Clients
  PROVE  /\ ready \in Seq(Completions)
         /\ session[c] \in Sessions /\ echoed[c] \in Seq(Nat)
         /\ client[c] \in {"away", "queued", "live", "gone"}
         /\ SessionOk(session[c], echoed[c], client[c], ready, c)
         /\ InOrder(echoed[c])
         /\ client = [client EXCEPT ![c] = client[c]]
         /\ session = [session EXCEPT ![c] = session[c]]
         /\ echoed = [echoed EXCEPT ![c] = echoed[c]]
  BY SameFunction DEF EchoInv, AcceptInv, ServerTypes, SessionTypes, SessionOk

\* A worker takes the completion of a read or a write.
LEMMA TakeKeepsAccept ==
  ASSUME AcceptInv, NEW w \in Workers, NEW kind \in {"read", "write"}, Take(w, kind)
  PROVE  AcceptInv'
<1>1. /\ UNCHANGED <<open, accepts, worker>> /\ ready # <<>> /\ Head(ready).kind # "accept"
      /\ ready' = Tail(ready)
  BY DEF Take
<1>2. ready' \in Seq(Completions) /\ OneQueued(ready') /\ (NoneQueued(ready') <=> NoneQueued(ready))
  BY <1>1, OtherTakenKeepsQueue
<1> QED  BY <1>1, <1>2 DEF AcceptInv, ServerTypes

LEMMA TakenTells ==
  ASSUME EchoInv, NEW w \in Workers, NEW kind \in {"read", "write"}, Take(w, kind)
  PROVE  \E c \in Clients, n \in Nat :
           /\ c = Head(ready).client /\ n = Head(ready).length
           /\ IsOf(Head(ready), c) /\ ready # <<>> /\ ready' = Tail(ready)
           /\ NoneOf(ready', c) /\ session[c].ops = {} /\ client[c] \in {"live", "gone"}
           /\ SessionOk(session[c], echoed[c], client[c], ready', c)
           /\ n > 0 => IF kind = "write" THEN session[c].taken = Len(echoed[c])
                       ELSE Holds(session[c], echoed[c], 1, n)
<1>1. /\ ready # <<>> /\ Head(ready).kind = kind /\ ready' = Tail(ready)
      /\ ready \in Seq(Completions) /\ QueueOk(ready, client)
  BY DEF Take, EchoInv, AcceptInv, ServerTypes
<1>2. EntryOk(Head(ready), client) /\ Head(ready) \in Completions
  BY <1>1, QueueOkKept, TakenOff
<1>3. PICK c \in Clients : c = Head(ready).client
  BY <1>1, <1>2 DEF EntryOk
<1>4. PICK n \in Nat : n = Head(ready).length
  BY <1>2 DEF Completions
<1>5. IsOf(Head(ready), c)
  BY <1>1, <1>3 DEF IsOf
<1>6. SessionOk(session[c], echoed[c], client[c], ready, c)
  BY DEF EchoInv
<1>7. /\ SessionOk(session[c], echoed[c], client[c], Tail(ready), c)
      /\ NoneOf(Tail(ready), c) /\ Tells(Head(ready), session[c], echoed[c])
      /\ session[c].ops = {} /\ client[c] \notin {"away", "queued"}
  BY <1>1, <1>5, <1>6, TakeAny
<1>8. client[c] \in {"live", "gone"}
  BY <1>7, SessionFacts
<1>9. n > 0 => IF kind = "write" THEN session[c].taken = Len(echoed[c])
               ELSE Holds(session[c], echoed[c], 1, n)
  BY <1>1, <1>4, <1>7 DEF Tells
<1> QED  BY <1>1, <1>3, <1>4, <1>5, <1>7, <1>8, <1>9

LEMMA HandlersKeepEcho ==
  ASSUME EchoInv, NEW w \in Workers, HandleRead(w) \/ HandleWritten(w)
  PROVE  EchoInv'
<1>1. PICK kind \in {"read", "write"} :
        /\ Take(w, kind)
        /\ kind = "read" => HandleRead(w)
        /\ kind = "write" => HandleWritten(w)
  BY DEF HandleRead, HandleWritten
<1>2. AcceptInv' /\ UNCHANGED <<worker, echoed>>
  BY <1>1, TakeKeepsAccept DEF EchoInv, Take
<1>3. PICK c \in Clients, n \in Nat :
        /\ c = Head(ready).client /\ n = Head(ready).length
        /\ IsOf(Head(ready), c) /\ ready # <<>> /\ ready' = Tail(ready)
        /\ NoneOf(ready', c) /\ session[c].ops = {} /\ client[c] \in {"live", "gone"}
        /\ SessionOk(session[c], echoed[c], client[c], ready', c)
        /\ n > 0 => IF kind = "write" THEN session[c].taken = Len(echoed[c])
                    ELSE Holds(session[c], echoed[c], 1, n)
  BY <1>1, TakenTells
<1>4. PICK s \in Sessions, e \in Seq(Nat), q \in {ready'} :
        s = session[c] /\ e = echoed[c] /\ q = ready' /\ InOrder(e)
  BY SessionFacts
<1>5. echoed' = [echoed EXCEPT ![c] = e]
  BY <1>2, <1>4, SessionFacts
<1>6. PICK here \in {"live", "gone"} : here = IF n > 0 THEN client[c] ELSE "gone"
  BY <1>3
<1>7. client' = [client EXCEPT ![c] = here]
  BY <1>1, <1>3, <1>6, SessionFacts DEF HandleRead, HandleWritten
<1>8. here \notin {"away", "queued"} /\ client[c] \notin {"away", "queued"}
  BY <1>3
<1>9. PICK t \in Sessions : session' = [session EXCEPT ![c] = t] /\ SessionOk(t, e, here, q, c)
  <2>1. CASE n > 0 /\ kind = "read"
    <3>1. session' = [session EXCEPT ![c] = DoWrite(s, n)]
      BY <1>1, <1>3, <1>4, <2>1 DEF HandleRead, OnRead
    <3>2. SessionOk(DoWrite(s, n), e, here, q, c) /\ DoWrite(s, n) \in Sessions
      BY <1>3, <1>4, <1>8, <2>1, WriteBegins
    <3> QED  BY <3>1, <3>2
  <2>2. CASE n > 0 /\ kind = "write"
    <3>1. session' = [session EXCEPT ![c] = DoRead(s)]
      BY <1>1, <1>3, <1>4, <2>2 DEF HandleWritten, OnWritten
    <3>2. SessionOk(DoRead(s), e, here, q, c) /\ DoRead(s) \in Sessions
      BY <1>3, <1>4, <1>8, <2>2, ReadBegins
    <3> QED  BY <3>1, <3>2
  <2>3. CASE ~(n > 0)
    <3>1. session' = [session EXCEPT ![c] = s]
      BY <1>1, <1>3, <1>4, <2>3, SessionFacts DEF HandleRead, HandleWritten
    <3>2. SessionOk(s, e, client[c], q, c)
      BY <1>3, <1>4
    <3>3. SessionOk(s, e, here, q, c)
      BY <1>6, <2>3, <3>2, GoneKeepsSession
    <3> QED  BY <3>1, <3>3
  <2> QED  BY <1>1, <2>1, <2>2, <2>3
<1>10. /\ SessionOk(t, e, here, ready', c) /\ ready # <<>> /\ IsOf(Head(ready), c)
       /\ ready' = Tail(ready) /\ session' = [session EXCEPT ![c] = t]
  BY <1>3, <1>4, <1>9
<1> QED  BY <1>2, <1>5, <1>7, <1>8, <1>10, SessionStepKeepsEcho

\* An operation of a session completes.
LEMMA CompletesKeepsAccept ==
  ASSUME AcceptInv, NEW c \in Clients, NEW op \in {"read", "write"}, NEW n \in Nat, Completes(c, op, n)
  PROVE  /\ AcceptInv' /\ UNCHANGED <<client, worker>>
         /\ \E x \in Completions : /\ x.kind = op /\ x.client = c /\ x.length = n
                                   /\ IsOf(x, c) /\ ready' = Append(ready, x)
<1>1. PICK x \in Completions : /\ x.kind = op /\ x.client = c /\ x.length = n
                               /\ ready' = Append(ready, x)
  <2>1. c \in Somebody /\ op \in {"accept", "signal", "read", "write"}
    BY DEF Somebody
  <2> QED  BY <2>1, CompletionIs DEF Completes
<1>2. UNCHANGED <<open, accepts, worker, client>>
  BY DEF Completes
<1>3. AcceptInv'
  BY <1>1, <1>2, OtherCompletionKeepsAccept
<1> QED  BY <1>1, <1>2, <1>3 DEF IsOf

\* A read has filled the buffer.
LEMMA ReadKeepsEcho ==
  ASSUME EchoInv, NEW c \in Clients, NEW n \in 1..BufferSize, ReadSome(c, n)
  PROVE  EchoInv'
<1>1. PICK s \in Sessions, e \in Seq(Nat), q \in Seq(Completions),
          here \in {"away", "queued", "live", "gone"} :
        /\ s = session[c] /\ e = echoed[c] /\ q = ready /\ here = client[c]
        /\ InOrder(e) /\ SessionOk(s, e, here, q, c)
        /\ client = [client EXCEPT ![c] = here] /\ echoed = [echoed EXCEPT ![c] = e]
  BY SessionFacts
<1>2. n \in Nat /\ n > 0
  BY BufferAssumption
<1>3. here \in {"live", "gone"} /\ NoneOf(q, c) /\ s.ops = {"read"}
  BY <1>1, BusyIsNotWaiting DEF ReadSome
<1>4. s.taken = Len(e)
  BY <1>1, <1>3 DEF SessionOk
<1>5. Completes(c, "read", n) /\ UNCHANGED echoed
  BY DEF ReadSome
<1>6. AcceptInv /\ "read" \in {"read", "write"}
  BY DEF EchoInv
<1>7. PICK x \in Completions : /\ x.kind = "read" /\ x.client = c /\ x.length = n
                               /\ IsOf(x, c) /\ ready' = Append(ready, x)
  BY <1>2, <1>5, <1>6, CompletesKeepsAccept
<1>8. AcceptInv' /\ UNCHANGED <<client, worker>>
  BY <1>2, <1>5, <1>6, CompletesKeepsAccept
<1>9. PICK t \in Sessions : t = AfterRead(s, n) /\ t.ops = {} /\ Holds(t, e, 1, n)
  BY <1>2, <1>3, <1>4, ReadFills
<1>10. session' = [session EXCEPT ![c] = t]
  <2>1. session' = [session EXCEPT ![c] = AfterRead(s, n)]
    BY <1>1, SessionFacts DEF ReadSome, AfterRead, EchoInv, SessionTypes
  <2> QED  BY <1>9, <2>1
<1>11. Tells(x, t, e)
  BY <1>7, <1>9 DEF Tells
<1>12. SessionOk(t, e, here, Append(q, x), c)
  <2>1. here \notin {"away", "queued"}
    BY <1>3
  <2> QED  BY <1>1, <1>3, <1>7, <1>9, <1>11, <2>1, OperationEnds
<1>13. /\ SessionOk(t, e, here, ready', c) /\ client[c] \notin {"away", "queued"}
       /\ client' = [client EXCEPT ![c] = here] /\ echoed' = [echoed EXCEPT ![c] = e]
  BY <1>1, <1>3, <1>5, <1>7, <1>8, <1>12
<1> QED  BY <1>3, <1>7, <1>8, <1>10, <1>13, SessionStepKeepsEcho

\* An operation ends with an error.
LEMMA EndKeepsEcho ==
  ASSUME EchoInv, NEW c \in Clients, ReadEnds(c) \/ WriteFails(c)
  PROVE  EchoInv'
<1>1. PICK s \in Sessions, e \in Seq(Nat), q \in Seq(Completions),
          here \in {"away", "queued", "live", "gone"} :
        /\ s = session[c] /\ e = echoed[c] /\ q = ready /\ here = client[c]
        /\ InOrder(e) /\ SessionOk(s, e, here, q, c)
        /\ client = [client EXCEPT ![c] = here] /\ echoed = [echoed EXCEPT ![c] = e]
  BY SessionFacts
<1>2. PICK op \in {"read", "write"} :
        /\ op \in s.ops /\ Completes(c, op, 0) /\ UNCHANGED echoed
        /\ session' = [session EXCEPT ![c].ops = @ \ {op}]
  BY <1>1 DEF ReadEnds, WriteFails
<1>3. here \in {"live", "gone"} /\ NoneOf(q, c) /\ s.ops = {op}
  BY <1>1, <1>2, BusyIsNotWaiting
<1>4. AcceptInv /\ 0 \in Nat
  BY DEF EchoInv
<1>5. PICK x \in Completions : x.length = 0 /\ IsOf(x, c) /\ ready' = Append(ready, x)
  BY <1>2, <1>4, CompletesKeepsAccept
<1>6. AcceptInv' /\ UNCHANGED <<client, worker>>
  BY <1>2, <1>4, CompletesKeepsAccept
<1>7. PICK t \in Sessions : t = [s EXCEPT !.ops = {}] /\ t.ops = {}
  <2>1. [s EXCEPT !.ops = {}] \in Sessions /\ [s EXCEPT !.ops = {}].ops = {}
    BY DEF Sessions
  <2> QED  BY <2>1
<1>8. session' = [session EXCEPT ![c] = t]
  <2>1. t = [s EXCEPT !.ops = @ \ {op}]
    BY <1>3, <1>7
  <2> QED  BY <1>1, <1>2, <2>1
<1>9. Tells(x, t, e)
  BY <1>5 DEF Tells
<1>10. SessionOk(t, e, here, Append(q, x), c)
  <2>1. here \notin {"away", "queued"}
    BY <1>3
  <2> QED  BY <1>1, <1>3, <1>5, <1>7, <1>9, <2>1, OperationEnds
<1>11. /\ SessionOk(t, e, here, ready', c) /\ client[c] \notin {"away", "queued"}
       /\ client' = [client EXCEPT ![c] = here] /\ echoed' = [echoed EXCEPT ![c] = e]
  BY <1>1, <1>2, <1>3, <1>5, <1>6, <1>10
<1> QED  BY <1>3, <1>5, <1>6, <1>8, <1>11, SessionStepKeepsEcho

\* A cell is written; with the last of them the write ends.
LEMMA WriteKeepsEcho ==
  ASSUME EchoInv, NEW c \in Clients, WriteSome(c)
  PROVE  EchoInv'
<1>1. PICK s \in Sessions, e \in Seq(Nat), q \in Seq(Completions),
          here \in {"away", "queued", "live", "gone"} :
        /\ s = session[c] /\ e = echoed[c] /\ q = ready /\ here = client[c]
        /\ InOrder(e) /\ SessionOk(s, e, here, q, c)
        /\ client = [client EXCEPT ![c] = here] /\ echoed = [echoed EXCEPT ![c] = e]
  BY SessionFacts
<1>2. here \in {"live", "gone"} /\ NoneOf(q, c) /\ s.ops = {"write"}
  BY <1>1, BusyIsNotWaiting DEF WriteSome
<1>3. Writing(s, e)
  BY <1>1, <1>2 DEF SessionOk
<1>4. PICK k \in Nat, t \in Sessions, f \in Seq(Nat) :
        /\ k = NextCell(s) /\ k > 0
        /\ t = AfterWrite(s, k) /\ f = Append(e, s.buffer[k]) /\ InOrder(f)
        /\ s.left = {k} => t.ops = {} /\ t.taken = Len(f)
        /\ s.left # {k} => t.ops = {"write"} /\ Writing(t, f)
  <2>1. InOrder(e) /\ s.ops = {"write"} /\ Writing(s, e)
    BY <1>1, <1>2, <1>3
  <2> QED  BY <2>1, WriteSends, Zenon
<1>6. /\ echoed' = [echoed EXCEPT ![c] = Append(@, s.buffer[k])]
      /\ session' = [session EXCEPT ![c].left = @ \ {k},
                       ![c].ops = IF s.left = {k} THEN @ \ {"write"} ELSE @]
      /\ s.left = {k} => Completes(c, "write", k)
      /\ s.left # {k} => UNCHANGED serverVars
  BY <1>1, <1>4, Zenon DEF WriteSome, NextCell
<1>7. echoed' = [echoed EXCEPT ![c] = f]
  BY <1>1, <1>4, <1>6 DEF EchoInv, SessionTypes
<1>8. session' = [session EXCEPT ![c] = t]
  <2>1. PICK g \in [Clients -> Sessions] : g = session /\ s = g[c]
    BY <1>1 DEF EchoInv, SessionTypes
  <2>2. PICK l, o : l = s.left \ {k} /\ o = IF s.left = {k} THEN s.ops \ {"write"} ELSE s.ops
    OBVIOUS
  <2>3. PICK m : m = [s EXCEPT !.left = l] /\ m.ops = s.ops
    <3>1. [s EXCEPT !.left = l].ops = s.ops
      BY DEF Sessions
    <3> QED  BY <3>1, Zenon
  <2>4. PICK h : h = [g EXCEPT ![c] = m] /\ h[c] = m
    <3>1. [g EXCEPT ![c] = m][c] = m
      OBVIOUS
    <3> QED  BY <3>1, Zenon
  <2>5. session' = [h EXCEPT ![c] = [m EXCEPT !.ops = o]]
    BY <1>6, <2>1, <2>2, <2>3, <2>4
  <2>6. t = [m EXCEPT !.ops = o]
    BY <1>4, <2>2, <2>3 DEF AfterWrite
  <2>7. [h EXCEPT ![c] = t] = [g EXCEPT ![c] = t]
    BY <2>4
  <2> QED  BY <2>1, <2>5, <2>6, <2>7
<1>9. here \notin {"away", "queued"} /\ AcceptInv
  BY <1>2 DEF EchoInv
<1>10. CASE s.left = {k}
  <2>1. PICK x \in Completions : /\ x.kind = "write" /\ IsOf(x, c)
                                 /\ ready' = Append(ready, x)
    BY <1>6, <1>9, <1>10, CompletesKeepsAccept
  <2>2. AcceptInv' /\ UNCHANGED <<client, worker>>
    BY <1>6, <1>9, <1>10, CompletesKeepsAccept
  <2>3. Tells(x, t, f)
    BY <1>4, <1>10, <2>1 DEF Tells
  <2>4. SessionOk(t, f, here, Append(q, x), c)
    <3>1. /\ IsOf(x, c) /\ NoneOf(q, c) /\ here \notin {"away", "queued"}
          /\ t.ops = {} /\ InOrder(f) /\ Tells(x, t, f)
      BY <1>2, <1>4, <1>9, <1>10, <2>1, <2>3
    <3> QED  BY <3>1, OperationEnds
  <2>5. /\ SessionOk(t, f, here, ready', c) /\ client[c] \notin {"away", "queued"}
        /\ client' = [client EXCEPT ![c] = here]
    BY <1>1, <1>9, <2>1, <2>2, <2>4
  <2> QED  BY <1>2, <1>7, <1>8, <2>1, <2>2, <2>5, SessionStepKeepsEcho
<1>11. CASE s.left # {k}
  <2>1. UNCHANGED <<client, open, accepts, ready, worker>>
    BY <1>6, <1>11 DEF serverVars
  <2>2. AcceptInv'
    BY <1>9, <2>1 DEF AcceptInv, ServerTypes
  <2>3. OneOf(q, c) /\ EachTells(q, c, t, f)
    BY <1>2 DEF NoneOf, OneOf, EachTells
  <2>4. SessionOk(t, f, here, q, c)
    BY <1>2, <1>4, <1>9, <1>11, <2>3 DEF SessionOk
  <2>5. /\ SessionOk(t, f, here, ready', c) /\ client[c] \notin {"away", "queued"}
        /\ client' = [client EXCEPT ![c] = here]
    BY <1>1, <1>9, <2>1, <2>4
  <2> QED  BY <1>2, <1>7, <1>8, <2>1, <2>2, <2>5, SessionStepKeepsEcho
<1> QED  BY <1>10, <1>11

\* The destructor leaves no session an operation.
LEMMA DestroyKeepsEcho ==
  ASSUME EchoInv, Destroy
  PROVE  EchoInv'
<1>1. /\ ready' = <<>> /\ UNCHANGED echoed /\ At(Main) = "join" /\ Goto(Main, "destroyed")
      /\ \A w \in Workers \ {Main} : At(w) \in {"unborn", "left"}
      /\ client' = [c \in Clients |-> IF client[c] = "away" THEN "away" ELSE "gone"]
      /\ session' = [c \in Clients |-> [session[c] EXCEPT !.ops = {}]]
  BY DEF Destroy, Join
<1>2. AcceptInv'
  BY DestroyKeepsAccept DEF EchoInv, Destroy
<1>3. SessionTypes'
  BY <1>1 DEF EchoInv, SessionTypes, Sessions
<1>4. QueueOk(ready', client')
  BY <1>1 DEF QueueOk
<1>5. "destroyed" \in Places /\ AcceptInv
  BY DEF Places, EchoInv
<1>6. /\ worker'[Main].got = worker[Main].got
      /\ \A v \in Workers \ {Main} : worker'[v] = worker[v]
  BY <1>1, <1>5, MoveKeepsAccept, ServerAssumption
<1>7. \A w \in Workers : worker[w].got = NoClient
  BY <1>1, ServerAssumption DEF EchoInv, WorkersOk, At
<1>8. WorkersOk(worker', client')
  BY <1>6, <1>7, ServerAssumption DEF WorkersOk
<1>9. ASSUME NEW c \in Clients  PROVE SessionOk(session'[c], echoed'[c], client'[c], ready', c)
  <2>1. /\ SessionOk(session[c], echoed[c], client[c], ready, c) /\ session[c] \in Sessions
        /\ session'[c] = [session[c] EXCEPT !.ops = {}] /\ echoed'[c] = echoed[c]
        /\ client'[c] = IF client[c] = "away" THEN "away" ELSE "gone"
    BY <1>1 DEF EchoInv, SessionTypes
  <2>2. session'[c].ops = {} /\ InOrder(echoed[c])
    BY <2>1 DEF Sessions, SessionOk
  <2>3. NoneOf(ready', c) /\ OneOf(ready', c) /\ EachTells(ready', c, session'[c], echoed[c])
    BY <1>1 DEF NoneOf, OneOf, EachTells
  <2>4. client[c] = "away" => session'[c] = NewSession /\ echoed[c] = <<>>
    <3>1. client[c] = "away" => session[c] = NewSession /\ echoed[c] = <<>>
      BY <2>1 DEF SessionOk
    <3>2. [NewSession EXCEPT !.ops = {}] = NewSession
      BY DEF NewSession
    <3> QED  BY <2>1, <3>1, <3>2, Zenon
  <2> QED  BY <2>1, <2>2, <2>3, <2>4 DEF SessionOk
<1> QED  BY <1>2, <1>3, <1>4, <1>8, <1>9 DEF EchoInv

LEMMA NextKeepsEcho ==
  ASSUME EchoInv, [Next]_vars
  PROVE  EchoInv'
<1>1. ASSUME NEW w \in Workers, SessionStep(w)  PROVE EchoInv'
  BY <1>1, StartKeepsEcho, HandlersKeepEcho DEF SessionStep
<1>2. ASSUME NEW w \in Workers, WorkerStep(w), UNCHANGED sessionVars  PROVE EchoInv'
  BY <1>2, TakenKeepsEcho, LoopKeepsEcho DEF WorkerStep
<1>3. ASSUME Run \/ Spawn \/ BeginDestroy \/ CallerCloses \/ CallerStops \/ AcceptFails \/ Signal,
             UNCHANGED sessionVars
      PROVE  EchoInv'
  BY <1>3, LoopKeepsEcho
<1>4. ASSUME NEW c \in Clients, Connect(c) \/ AcceptCompletes(c), UNCHANGED sessionVars
      PROVE  EchoInv'
  BY <1>4, ConnectKeepsEcho, AcceptedKeepsEcho
<1>5. ASSUME NEW c \in Clients, Io(c)  PROVE EchoInv'
  BY <1>5, ReadKeepsEcho, EndKeepsEcho, WriteKeepsEcho DEF Io
<1>6. ASSUME UNCHANGED <<client, open, accepts, ready, worker, session, echoed>>  PROVE EchoInv'
  BY <1>6 DEF EchoInv, AcceptInv, ServerTypes, SessionTypes
<1>7. CASE \E c \in Clients : Send(c) \/ HangUp(c)
  BY <1>6, <1>7 DEF Send, HangUp, serverVars
<1>8. CASE UNCHANGED vars
  BY <1>6, <1>8 DEF vars, serverVars
<1> QED  BY <1>1, <1>2, <1>3, <1>4, <1>5, <1>7, <1>8, DestroyKeepsEcho DEF Next

LEMMA InitIsEchoInv ==
  ASSUME Init
  PROVE  EchoInv
<1>1. ready = <<>> /\ accepts = 0 /\ open = TRUE /\ ready \in Seq(Completions)
  BY EmptySeq DEF Init, ServerInit
<1>2. NoneQueued(ready) /\ OneQueued(ready)
  BY <1>1 DEF NoneQueued, OneQueued
<1>3. /\ worker \in [Workers -> Records] /\ worker[Main].at = "constructed"
      /\ \A w \in Workers : worker[w].at \in {"constructed", "unborn"} /\ worker[w].got = NoClient
  BY ServerAssumption DEF Init, ServerInit, Records, Places, Somebody
<1>4. NoneHandled(worker) /\ OneHandled(worker)
  BY <1>3 DEF NoneHandled, OneHandled, Handles
<1>5. AcceptInv
  BY <1>1, <1>2, <1>3, <1>4 DEF AcceptInv, ServerTypes, Records
<1>6. SessionTypes
  <2>1. NewSession \in Sessions
    BY EmptySeq DEF NewSession, Sessions
  <2>2. <<>> \in Seq(Nat)
    BY EmptySeq
  <2> QED  BY <2>1, <2>2 DEF Init, ServerInit, SessionTypes
<1>7. QueueOk(ready, client) /\ WorkersOk(worker, client)
  BY <1>1, <1>3 DEF QueueOk, WorkersOk
<1>8. ASSUME NEW c \in Clients  PROVE SessionOk(session[c], echoed[c], client[c], ready, c)
  <2>1. session[c] = NewSession /\ session[c].ops = {} /\ echoed[c] = <<>> /\ InOrder(echoed[c])
    BY DEF Init, NewSession, InOrder
  <2>2. NoneOf(ready, c) /\ OneOf(ready, c) /\ EachTells(ready, c, session[c], echoed[c])
    BY <1>1 DEF NoneOf, OneOf, EachTells
  <2> QED  BY <2>1, <2>2 DEF SessionOk
<1> QED  BY <1>5, <1>6, <1>7, <1>8 DEF EchoInv

-----------------------------------------------------------------------------
(* The theorems.                                                           *)

LEMMA SessionsKeepTheirInvariant == Spec => []EchoInv
<1>1. Init => EchoInv
  BY InitIsEchoInv
<1>2. EchoInv /\ [Next]_vars => EchoInv'
  BY NextKeepsEcho
<1> QED  BY <1>1, <1>2, PTL DEF Spec

\* A set of which any two members are the same has one or none.
LEMMA AtMostOne ==
  ASSUME NEW S, \A x, y \in S : x = y
  PROVE  Cardinality(S) = IF S = {} THEN 0 ELSE 1
<1>1. CASE S = {}
  BY <1>1, FS_EmptySet
<1>2. CASE S # {}
  <2>1. PICK x : S = {x}
    BY <1>2
  <2> QED  BY <1>2, <2>1, FS_Singleton
<1> QED  BY <1>1, <1>2

(* While the acceptor is open and run() has begun there is exactly one     *)
(* accept, outstanding, completed or in its handler, and never a second    *)
(* one, for any number of threads, clients, failures and stops             *)
(* (HttpServer::doAccept, stop, EchoServer::doAccept, stop).               *)
THEOREM AcceptLoopNeitherForksNorEnds == Spec => []OneAccept
<1>1. AcceptInv => OneAccept
  <2> SUFFICES ASSUME AcceptInv  PROVE OneAccept
    OBVIOUS
  <2>1. PICK a \in {0, 1} : a = accepts
    BY DEF AcceptInv, ServerTypes
  <2>2. Cardinality(Queued) = IF Queued = {} THEN 0 ELSE 1
    BY AtMostOne DEF AcceptInv, OneQueued, Queued
  <2>3. Cardinality(Accepting) = IF Accepting = {} THEN 0 ELSE 1
    BY AtMostOne DEF AcceptInv, OneHandled, Handles, Accepting, At
  <2>4. Queued = {} <=> NoneQueued(ready)
    BY DEF Queued, NoneQueued
  <2>5. Accepting = {} <=> NoneHandled(worker)
    BY DEF Accepting, NoneHandled, Handles, At
  <2>6. PICK q \in {0, 1}, h \in {0, 1} :
          /\ q = Cardinality(Queued) /\ h = Cardinality(Accepting)
          /\ q = (IF NoneQueued(ready) THEN 0 ELSE 1) /\ h = (IF NoneHandled(worker) THEN 0 ELSE 1)
    BY <2>2, <2>3, <2>4, <2>5
  <2>7. a + q + h <= 1
    BY <2>1, <2>6 DEF AcceptInv
  <2>8. open /\ At(Main) \notin {"constructed", "destroy"} => a + q + h = 1
    <3>1. AcceptInv /\ open /\ At(Main) \notin {"constructed", "destroy"} => a = 1 \/ q = 1 \/ h = 1
      BY <2>1, <2>6 DEF AcceptInv, At
    <3> QED  BY <2>7, <3>1
  <2> QED  BY <2>1, <2>6, <2>7, <2>8 DEF OneAccept
<1>2. EchoInv => AcceptInv
  BY DEF EchoInv
<1> QED  BY <1>1, <1>2, SessionsKeepTheirInvariant, PTL

(* What a client gets back is what it sent, each byte once and in order,   *)
(* for any buffer size and however its bytes are split and interleaved     *)
(* with those of others (EchoServer::Session::doRead, doWrite).            *)
THEOREM BytesComeBackInOrder == Spec => []EchoesInOrder
<1>1. EchoInv => EchoesInOrder
  <2> SUFFICES ASSUME EchoInv, NEW c \in Clients
               PROVE  echoed[c] = [i \in 1..Len(echoed[c]) |-> i]
    BY DEF EchoesInOrder
  <2>1. echoed[c] \in Seq(Nat) /\ InOrder(echoed[c])
    BY SessionFacts
  <2>2. PICK e \in Seq(Nat) : e = echoed[c] /\ InOrder(e)
    BY <2>1
  <2>3. e = [i \in 1..Len(e) |-> e[i]]
    BY <2>2, SeqDef
  <2>4. e = [i \in 1..Len(e) |-> i]
    BY <2>2, <2>3 DEF InOrder
  <2> QED  BY <2>2, <2>4
<1> QED  BY <1>1, SessionsKeepTheirInvariant, PTL
=============================================================================
