------------------------------ MODULE TcpServer ------------------------------
(***************************************************************************)
(* TcpServer (src_epoll/net/TcpServer.cpp) with its Acceptor, its          *)
(* EventLoopThreadPool and the life of its connections: the server's loop  *)
(* accepts and keeps the table, the I/O loops establish, close and destroy *)
(* connections, and both hand each other functors that own a reference.    *)
(*                                                                         *)
(* Loop 0 is the server's, 1..numThreads are the pool's.  A loop swaps its *)
(* pending functors for a batch, runs them one by one, and lets go of      *)
(* their references when the batch ends, as doPendingFunctors' vector      *)
(* does.  What happens on an open connection is TcpConnection's matter;    *)
(* here its peer closes it.                                                *)
(***************************************************************************)
EXTENDS Naturals, Sequences, FiniteSets, ChannelPoller

CONSTANTS
  Conns,        \* connections that clients make, each of them once
  Fds,          \* descriptors the process may have for them
  MaxThreads    \* bound: threads of the pool

ASSUME ThreadsAssumption == MaxThreads \in Nat

VARIABLES
  server,      \* "new", "started" or "gone"
  numThreads,  \* numThreads_
  nextLoop,    \* next_ of the pool
  nextConnId,  \* nextConnId_
  table,       \* connections_: from names to connections
  backlog,     \* clients that wait to be accepted
  conn,        \* the TcpConnections made so far
  freed,       \* those that are deleted
  pending,     \* pendingFunctors_ of each loop
  batch,       \* the functors it swapped out
  ran,         \* how many of them have been run
  ended,       \* I/O loops that are joined
  died         \* an assertion has failed

loopVars == <<pending, batch, ran>>
vars == <<server, numThreads, nextLoop, nextConnId, table, backlog, conn, freed,
          pending, batch, ran, ended, died>>

Base  == 0
Loops == 0..MaxThreads
Made  == DOMAIN conn

Task(what, c) == [what |-> what, conn |-> c]
Tasks == [what : {"establish", "remove", "destroy"}, conn : Conns]
Connection ==
  [state : {"Connecting", "Connected", "Disconnected"}, loop : Loops, fd : Fds,
   name : Nat, ch : ChannelRecord]

TypeOK ==
  /\ server \in {"new", "started", "gone"}
  /\ numThreads \in 0..MaxThreads
  /\ nextLoop \in Nat /\ (nextLoop = 0 \/ nextLoop < numThreads)
  /\ nextConnId \in Nat
  /\ backlog \subseteq Conns
  /\ Made \subseteq Conns /\ conn \in [Made -> Connection]
  /\ DOMAIN table \subseteq Nat /\ table \in [DOMAIN table -> Made]
  /\ freed \subseteq Made
  /\ pending \in [Loops -> Seq(Tasks)] /\ batch \in [Loops -> Seq(Tasks)]
  /\ ran \in [Loops -> Nat]
  /\ ended \subseteq 1..MaxThreads
  /\ died \in BOOLEAN

Init ==
  /\ server = "new"
  /\ numThreads = 0 /\ nextLoop = 0 /\ nextConnId = 1
  /\ table = <<>> /\ conn = <<>>
  /\ backlog = {} /\ freed = {}
  /\ pending = [l \in Loops |-> <<>>] /\ batch = [l \in Loops |-> <<>>]
  /\ ran = [l \in Loops |-> 0]
  /\ ended = {}
  /\ died = FALSE

-----------------------------------------------------------------------------
(* The pieces the operations share.                                        *)

ConnWith(c, r)   == [d \in Made \union {c} |-> IF d = c THEN r ELSE conn[d]]
TableWith(id, c) == [k \in DOMAIN table \union {id} |-> IF k = id THEN c ELSE table[k]]
TableWithout(id) == [k \in DOMAIN table \ {id} |-> table[k]]
Values(f) == {f[x] : x \in DOMAIN f}

\* shared_ptrs to c: in the table, and in functors that wait or whose batch
\* has not ended.
Held(c, tab, pend, bat) ==
  \/ c \in Values(tab)
  \/ \E l \in Loops, s \in {"p", "b"} :
       LET q == IF s = "p" THEN pend[l] ELSE bat[l] IN \E k \in 1..Len(q) : q[k].conn = c

\* The connections that lose their last reference are deleted; ~Channel
\* asserts that they have left the poller (Channel.cpp:33).
Release(tab, pend, bat) ==
  LET lost == {c \in Made \ freed : ~Held(c, tab, pend, bat)}
  IN  /\ freed' = freed \union lost
      /\ died' = (\E c \in lost : conn[c].ch.added)

\* EpollPoller::updateChannel asserts that a new channel's descriptor is not
\* in the poller's map.
FdIsFree(l, fd) == \A d \in Made : conn[d].ch.mapped /\ conn[d].loop = l => conn[d].fd # fd

Alive == ~died

\* Loop l dispatches events: its functors are not running.
Dispatches(l) == Alive /\ batch[l] = <<>> /\ l \notin ended /\ (l = Base => server = "started")

-----------------------------------------------------------------------------
(* Configuration and start.                                                *)

SetThreadNum(n) ==
  /\ Alive /\ server = "new"
  /\ numThreads' = n
  /\ UNCHANGED <<server, nextLoop, nextConnId, table, backlog, conn, freed, loopVars, ended, died>>

\* start(): the pool's threads are started and the acceptor listens.  A second
\* call finds started_ set.
Start ==
  /\ Alive /\ server = "new"
  /\ server' = "started"
  /\ UNCHANGED <<numThreads, nextLoop, nextConnId, table, backlog, conn, freed, loopVars,
                 ended, died>>

\* A client connects.
Connect(c) ==
  /\ Alive /\ server = "started"
  /\ c \notin Made \union backlog
  /\ backlog' = backlog \union {c}
  /\ UNCHANGED <<server, numThreads, nextLoop, nextConnId, table, conn, freed, loopVars,
                 ended, died>>

-----------------------------------------------------------------------------
(* Accepting and establishing.                                             *)

\* getNextLoop: the loop it returns, and next_ after it.
NextLoop == IF numThreads = 0 THEN Base ELSE nextLoop + 1
SkippingLoop == IF nextLoop + 2 >= numThreads THEN 0 ELSE nextLoop + 1   \* a bug
AfterLoop == IF nextLoop + 1 >= numThreads THEN 0 ELSE nextLoop + 1

FreeFds == Fds \ {conn[c].fd : c \in Made \ freed}

Established(r) == [r EXCEPT !.state = "Connected", !.ch = EnableReading(@)]

\* Acceptor::handleRead accepts, and newConnection makes the connection, puts
\* it into the table and lets its loop run connectEstablished: on the spot
\* when that loop is the server's.
AcceptThen(c, fd, id) ==
  /\ Dispatches(Base)
  /\ c \in backlog /\ fd \in FreeFds
  /\ backlog' = backlog \ {c}
  /\ nextLoop' = AfterLoop
  /\ nextConnId' = id
  /\ table' = TableWith(nextConnId, c)
  /\ LET new == [state |-> "Connecting", loop |-> NextLoop, fd |-> fd, name |-> nextConnId,
                 ch |-> NewChannel]
         here == NextLoop = Base
     IN  /\ conn' = ConnWith(c, IF here THEN Established(new) ELSE new)
         /\ died' = (here /\ ~FdIsFree(Base, fd))
         /\ pending' = IF here THEN pending
                       ELSE [pending EXCEPT ![NextLoop] = Append(@, Task("establish", c))]
  /\ UNCHANGED <<server, numThreads, freed, batch, ran, ended>>

AcceptSameName(c, fd) == AcceptThen(c, fd, nextConnId)   \* a bug: the name is used again
Accept(c, fd) == AcceptThen(c, fd, nextConnId + 1)

\* EMFILE: the spare descriptor is given up to accept one client and hang up.
AcceptFails(c) ==
  /\ Dispatches(Base)
  /\ c \in backlog /\ FreeFds = {}
  /\ backlog' = backlog \ {c}
  /\ UNCHANGED <<server, numThreads, nextLoop, nextConnId, table, conn, freed, loopVars,
                 ended, died>>

-----------------------------------------------------------------------------
(* Functors.                                                               *)

Swap(l) ==
  /\ Alive /\ batch[l] = <<>> /\ pending[l] # <<>> /\ l \notin ended
  /\ l = Base => server = "started"
  /\ batch' = [batch EXCEPT ![l] = pending[l]]
  /\ pending' = [pending EXCEPT ![l] = <<>>]
  /\ UNCHANGED <<server, numThreads, nextLoop, nextConnId, table, backlog, conn, freed, ran,
                 ended, died>>

\* Loop l runs the next functor of its batch, which is of this kind, on c.
Runs(l, what, c) ==
  /\ Alive
  /\ ran[l] < Len(batch[l])
  /\ batch[l][ran[l] + 1] = Task(what, c)
  /\ ran' = [ran EXCEPT ![l] = @ + 1]
  /\ UNCHANGED <<server, numThreads, nextLoop, nextConnId, backlog, freed, batch, ended>>

\* connectEstablished: in its own loop, once, with a descriptor of its own.
ConnectEstablished(l, c) ==
  /\ Runs(l, "establish", c)
  /\ IF l = conn[c].loop /\ conn[c].state = "Connecting" /\ FdIsFree(l, conn[c].fd)
       THEN conn' = [conn EXCEPT ![c] = Established(@)] /\ UNCHANGED died
       ELSE died' = TRUE /\ UNCHANGED conn
  /\ UNCHANGED <<table, pending>>

\* A bug: the table keeps the connection.
RemoveFromPollerOnly(l, c) ==
  /\ Runs(l, "remove", c)
  /\ pending' = [pending EXCEPT ![conn[c].loop] = Append(@, Task("destroy", c))]
  /\ UNCHANGED <<table, conn, died>>

\* removeConnectionInLoop: asserts that the table had the connection.
RemoveConnectionInLoop(l, c) ==
  /\ Runs(l, "remove", c)
  /\ IF l = Base /\ conn[c].name \in DOMAIN table
       THEN /\ table' = TableWithout(conn[c].name)
            /\ pending' = [pending EXCEPT ![conn[c].loop] = Append(@, Task("destroy", c))]
            /\ UNCHANGED died
       ELSE died' = TRUE /\ UNCHANGED <<table, pending>>
  /\ UNCHANGED conn

\* A bug: the channel stays in the poller.
DestroyedKeepingChannel(l, c) ==
  /\ Runs(l, "destroy", c)
  /\ conn' = [conn EXCEPT ![c].ch.added = FALSE]
  /\ UNCHANGED <<table, pending, died>>

\* connectDestroyed of a connection that is closed already.
ConnectDestroyed(l, c) ==
  /\ Runs(l, "destroy", c)
  /\ IF l = conn[c].loop /\ MayRemove(conn[c].ch)
       THEN conn' = [conn EXCEPT ![c].ch = RemoveChannel(@)] /\ UNCHANGED died
       ELSE died' = TRUE /\ UNCHANGED conn
  /\ UNCHANGED <<table, pending>>

\* The batch's functors are destroyed, and their references with them.
EndBatch(l) ==
  /\ Alive
  /\ batch[l] # <<>> /\ ran[l] = Len(batch[l])
  /\ batch' = [batch EXCEPT ![l] = <<>>]
  /\ ran' = [ran EXCEPT ![l] = 0]
  /\ Release(table, pending, batch')
  /\ UNCHANGED <<server, numThreads, nextLoop, nextConnId, table, backlog, conn, pending, ended>>

-----------------------------------------------------------------------------
(* Closing a connection, and stopping.                                     *)

\* handleClose in the connection's loop: removeConnection goes to the server's
\* loop, on the spot when it is the same.
HandleClose(c) ==
  /\ c \in Made \ freed
  /\ conn[c].state = "Connected"
  /\ Dispatches(conn[c].loop)
  /\ conn' = [conn EXCEPT ![c].state = "Disconnected", ![c].ch = DisableAll(@)]
  /\ IF conn[c].loop # Base
       THEN /\ pending' = [pending EXCEPT ![Base] = Append(@, Task("remove", c))]
            /\ UNCHANGED <<table, died>>
       ELSE /\ table' = TableWithout(conn[c].name)
            /\ pending' = [pending EXCEPT ![Base] = Append(@, Task("destroy", c))]
            /\ died' = (conn[c].name \notin DOMAIN table)
  /\ UNCHANGED <<server, numThreads, nextLoop, nextConnId, backlog, freed, batch, ran, ended>>

\* ~TcpServer, outside loop(): the table goes first.  ~Acceptor removes a
\* channel from the poller, which asserts that listen() put it there.
DestroyServer ==
  /\ Alive /\ server # "gone" /\ batch[Base] = <<>>
  /\ server' = "gone"
  /\ table' = <<>>
  /\ LET lost == {c \in Made \ freed : ~Held(c, <<>>, pending, batch)}
     IN  /\ freed' = freed \union lost
         /\ died' = (server = "new" \/ \E c \in lost : conn[c].ch.added)
  /\ UNCHANGED <<numThreads, nextLoop, nextConnId, backlog, conn, loopVars, ended>>

\* The pool's destructor joins a thread: its loop is destroyed with the
\* functors it has not run.
JoinLoop(l) ==
  /\ Alive /\ server = "gone"
  /\ l \in (1..numThreads) \ ended
  /\ batch[l] = <<>>
  /\ ended' = ended \union {l}
  /\ pending' = [pending EXCEPT ![l] = <<>>]
  /\ Release(table, pending', batch)
  /\ UNCHANGED <<server, numThreads, nextLoop, nextConnId, table, backlog, conn, batch, ran>>

-----------------------------------------------------------------------------
RunTask(l) ==
  \E c \in Conns : ConnectEstablished(l, c) \/ RemoveConnectionInLoop(l, c) \/ ConnectDestroyed(l, c)

LoopStep(l) == Swap(l) \/ RunTask(l) \/ EndBatch(l)

Next ==
  \/ \E n \in 0..MaxThreads : SetThreadNum(n)
  \/ Start \/ DestroyServer
  \/ \E c \in Conns : Connect(c) \/ HandleClose(c) \/ AcceptFails(c) \/ \E fd \in Fds : Accept(c, fd)
  \/ \E l \in Loops : LoopStep(l) \/ JoinLoop(l)

Spec == Init /\ [][Next]_vars

\* Every loop runs its functors; clients and the program do as they like.
FairSpec == Spec /\ \A l \in Loops : WF_vars(LoopStep(l))

-----------------------------------------------------------------------------
(* Properties.                                                             *)

\* While the server lives no assertion fails on the way of a connection
\* through the two loops: each functor runs in the loop it is for, the table
\* has every connection until its close, a descriptor is not registered
\* twice, and a connection is deleted only when its channel has left the
\* poller, whichever thread has the last reference.
AssertsHold == server # "gone" => ~died

\* A poller never knows a channel whose connection is deleted, or two
\* channels for one descriptor (descriptors are closed with their connections
\* and given to new ones at once).
PollersKnowTheLiving ==
  Alive => \A c \in Made : conn[c].ch.mapped =>
    /\ c \notin freed
    /\ \A d \in Made \ {c} : conn[d].ch.mapped /\ conn[d].loop = conn[c].loop
                                => conn[d].fd # conn[c].fd

\* Round robin: no loop of the pool is ever given two connections more than
\* another.
Given(l) == Cardinality({c \in Made : conn[c].loop = l})
RoundRobin == \A k, l \in 1..numThreads : Given(k) <= Given(l) + 1

\* Liveness: a closed connection is deleted, whoever has the last reference.
ClosedIsFreed ==
  \A c \in Conns :
    (c \in Made /\ conn[c].state = "Disconnected") ~> (c \in freed \/ server = "gone" \/ died)

\* Violated by the code: the server can be destroyed at any time outside
\* loop(), as programs do after loop() returns.
MayBeDestroyed == server = "gone" => ~died
=============================================================================
