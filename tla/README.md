# Formal models of C++ Server Lab

TLA+ specifications of the two network servers in this repository, their TLC
configurations and TLAPS proofs. Paths below are relative to the repository
root: the current implementation on Boost.Asio is `src/asio/`, the earlier
reactor on Linux epoll is `src_epoll/`, headers are in `include/csl/`.

## The system

| Component | State it keeps | Operations | How it interacts |
|---|---|---|---|
| `EventLoop` (`src_epoll/net/EventLoop.cpp`) | `quit_`, `callingPendingFunctors_`, `pendingFunctors_` under `mutex_`, the eventfd, `activeChannels_` | `loop`, `quit`, `runInLoop`, `queueInLoop`, `wakeup`, `handleRead`, `doPendingFunctors` | every other reactor component runs in it; any thread posts to it |
| `Channel`, `EpollPoller` | `events_`, `revents_`, `index_`, `addedToLoop_`; `channels_` and the epoll set | `enable*/disable*`, `remove`, `handleEvent`, `updateChannel`, `removeChannel`, `poll` | callbacks into the channel's owner |
| `TcpConnection` | `state_`, input and output buffer, channel, callbacks | `connectEstablished`, `send`, `shutdown`, `handleRead/Write/Close/Error`, `connectDestroyed` | loop thread, foreign senders, kernel socket, `TcpServer` through `closeCallback_` |
| `TcpServer`, `Acceptor`, `EventLoopThreadPool`, `EventLoopThread` | connection table, listening channel, loop threads | `start`, `newConnection`, `removeConnection`, `startLoop`, destructors | functors between the server's loop and the I/O loops |
| `TimerQueue` | ordered set of timers, timerfd | `addTimer`, `cancel`, `handleRead` | functors and a channel of its loop |
| legacy `HttpServer`, `HttpContext`, `Buffer` | parser state per connection, byte buffer | `onMessage`, `parseRequest`, `onRequest` | callbacks of `TcpConnection` |
| asio `HttpServer`, `Session` (`src/asio/http_server.cpp`) | socket, `steady_timer`, `streambuf`, request | `doReadHead`, `doReadBody`, `writeResponse`, `armTimer`, `close`; `run`, `stop`, `doAccept` | completion handlers on a pool of threads, without a strand |
| request parser, router, configuration | none (functions) | `parseHttpRequestHead`, `resolveStaticPath`, `loadServerConfig`, ... | called by the session and by `main` |
| asio `EchoServer` (`src/asio/echo_server.cpp`) | acceptor, threads; per session a socket and one buffer | `run`, `stop`, `doAccept`; `doRead`, `doWrite` | the same accept loop as `HttpServer` |
| loggers, timestamps, socket wrappers, console | -- | -- | -- |

What is hard here: posts and quits that race the poll of a loop, the two ends of
a functor (checked in one thread, run later in another), several callbacks of one
dispatch that each may close the connection, partial writes against half-close,
completion handlers of one session on two threads, timers that expire while
their replacement is being set, objects destroyed while another thread or a
queued functor still uses them, a `stop()` between any two steps of an accept
loop, a stream that is cut into reads at any byte, and the numeric edges of
buffers, lengths and configured sizes. `PROJECT.json` lists each of them at its line.

## Modules

`FunctorQueue` is what a loop promises the callers of `queueInLoop` and
`runInLoop`: one FIFO queue, each functor taken once.

`EventLoop` is one loop with its thread, the foreign threads that post and quit,
the eventfd and the registered channels. A step of the loop thread is one stage
of `loop()` (variable `pc`); user code runs in the stages `idle` (before
`loop()`), `handler` and `functor`, where it may post, run and quit. A foreign
caller takes one step for the critical section or the flag and one for its write
to the eventfd, so a caller can be overtaken in between. `early` marks the
functors the loop's own thread queued before `loop()`: line 150 does not wake
for them, and they wait for the first event or the 10 s timeout.

`ChannelPoller` has the registration of a channel as functions of a record:
the index, the poller's map, the epoll set, and the assertions of `remove`.

`TcpConnection` is one connection. Its loop thread polls, goes through the four
callbacks of `Channel::handleEvent` in their order with the `revents_` of the
poll (`pc`), and runs queued functors, whose queue has the semantics of
`FunctorQueue`. The input of `write(2)`, `readv(2)` and epoll is the state of the
kernel's socket and the peer. `send()` from a foreign thread is two steps:
`state_` is read in the caller, the functor is queued later. The assertions are
those of a Debug build, the build the repository's README recommends; a failed
one ends the process (`died`), and so does SIGPIPE, which nothing ignores.

`HttpSession` is one `HttpServer::Session` of the asio server, its timer, its
client and the workers of the `io_context`. The stream is a sequence of units
(a head, body units), given by the places where its requests begin (`Cuts`,
`UnitsOf`); what a request is like inside (a parse error, `Connection:
close`, an exception in the handler) is chosen when the code looks at it.
Handlers run call by call, so a timer handler in `close()` and an I/O handler may
be interleaved on two workers, as the code has no strand. The waits of the timer
are counted apart: pending, expired with the handler queued, expired before a
later `armTimer` (`stale`), cancelled.

`TimerService` is what the timers of a loop promise, `TimerQueue` how they keep
it: the ordered set, the timerfd, the batch that `handleRead` takes out and the
functors of other threads. Times are what is left of them, in the 100 us steps of
`howMuchTimeFromNow`, so the state space is finite without a bound on the clock.
Timers live at addresses that are used again; a `TimerId` is an address, since
its `sequence_` is never compared. `timers_` is a set: the order within one batch,
by expiration and then by address, is left open.

`EventLoopThread` extends `EventLoop` with the owner, its only foreign thread, who
calls `startLoop` and the destructor, and with `threadFunc`. A `quit()` on a loop that is destroyed already,
which the unlocked read in the destructor allows, is modelled as having no effect.

`TcpServer` is the server with its acceptor, pool and connections. Loop 0 is the
server's, the others are the pool's; a loop swaps its functors for a batch, runs
them one by one, and drops their references at the end of the batch. A connection
is deleted when neither the table nor a functor holds it, in whichever thread
that happens, and its descriptor is free from then on. What happens on an open
connection is `TcpConnection`'s matter; the registration is `ChannelPoller`'s in
both.

`Buffer` has the operations of the reactor's byte buffer as operators on a record
of cells, reader and writer; `readFd` fills the writable cells first and appends
what went to `extrabuf`. `BufferCalls` is one caller who uses every public
operation within its assertions, and `ByteQueue` what he is promised: a queue of
bytes that can also be put back in front.

`LegacyHttp` is one connection of the epoll `HttpServer`, with `input` as a buffer
of that kind. `Receive` is a read of any
number of bytes and the call of `onMessage`; the loop of `parseRequest` is one
step per line. A byte is a token (a word, a blank, CR, LF, colon, ...), so a read
may end inside a line end, but not inside a word. The client's messages are a
constant, each with the request it stands for; `MessagesAssumption` says what that
means: a fresh parser that is given the message alone and whole (`Alone`) takes it
for that request. `send` and `shutdown` append to
`out` and set `connected`: what they do is `TcpConnection`'s matter.

`AsioServer` is what the two asio servers share: constructor, `run()`, the accept
handler in three steps (start the session, read `is_open()`, start the next
accept), `stop()` in its two calls from a signal's handler, the destructor or a
third thread, and the join. `EchoServer` extends it with the sessions of
`echo_server.cpp`; `HttpSession` has those of `http_server.cpp`. Completions are
queued in `ready` and taken by any worker, oldest first.

`StdLib` has the few library calls whose results decide answers: `std::stoull`
with its sign and width, and the lexical operations on `std::filesystem::path`
as sequences of elements. A call that may throw or return nothing gives the set
of its results. On it stand `ServerConfig` (the INI file and the configuration),
`HttpParser` (a request's head and body) and `Router` (decoding, resolution and
the answer), which have operators only, and `WebServer`, the state machine of
`main()` and of one connection: load, start, and request by request read the
head, read the body, route, write. What a loop over lines or names computes
(`Inis`, `Walked`, `NonEmpty`) is a recursive function of how many were taken. Texts are cut into the words, lines, names and
numerals the code tells apart. The asynchronous side of the same handlers is
`HttpSession`; there bytes are units, here the sizes count against the buffer's
limit.

`MC*` modules and their `.cfg` files are the instances TLC checks. The proofs are
in `EventLoopProof` (about `EventLoop` and `EventLoopThread`), `TcpConnectionProof`,
`TimerQueueProof`, `TcpServerProof`, `BufferProof` (about `BufferCalls` and
`LegacyHttp`), `HttpSessionProof`, `EchoServerProof` (about `AsioServer` and
`EchoServer`) and `WebServerProof`.

## Runs

| Run | Instance | Shows |
|---|---|---|
| `event_loop` | 2 threads, 3 functors, 1 channel, 1 quit | no wakeup is lost, `quit` is noticed, every post is called without the poll timeout, the loop implements `FunctorQueue` |
| `http_session` | 2 workers, 2 requests, bodies up to 2, 4 units | one operation at a time, requests cut and answered in order, no wait without a timeout, the session is never dropped open and is always freed |
| `tcp_connection` | 2 threads, 2 messages of 2 units, send space 1, 1 shutdown | byte stream, write interest, half-close, callbacks and registration; shutdowns are carried out and closed connections removed |
| `tcp_connection_close_once` | 1 thread | violation: a reset closes the connection twice |
| `timer_queue` | 3 timers, one repeating, 2 addresses, delays to 1, interval 2, 1 cancel | each `Timer` has one owner, the timerfd is never late, timers run, `TimerService` is implemented |
| `loop_thread` | 1 owner, 2 functors, 1 channel, a quit by a callback besides the destructor's | `startLoop` returns a ready loop, a quit that finds `loop()` ends the join |
| `loop_thread_join` | the same | violation: a destructor right after `startLoop` joins for ever |
| `tcp_server` | 3 clients, 2 descriptors, 0 to 2 I/O loops | no assertion fails, pollers know living channels only, round robin, closed connections are deleted |
| `buffer` | 2 bytes, 2 initial cells, 1 reserved, extra buffer of 3, up to 3 readable | indices stay in the vector, `ByteQueue` is implemented |
| `legacy_http` | 2 messages of a pool, every cut into reads | each request served is one that was sent, with nothing of another; answers go on until one closes, and stop there |
| `asio_server` | 2 workers, 2 clients, 1 failed accept, 1 stop besides the destructor's, buffer 2 | one accept at a time, bytes echoed in order, clients are accepted, `stop()` ends `run()` |
| `web_server` | 48 INI files, 5 directories to start from, 16-value `size_t`, paths of up to 3 names of 8 (and chosen ones of 4), up to 3 header lines of 15 | the loaded configuration is the file's, static files stay in the root, kept connections are framed |

These counterexamples are known, and kept as definitions without a run in the
table above; each is found by checking the definition as the only property of the instance named:
`HttpSession.OnlyCurrentTimeoutCloses` (`MCHttpSessionStale.cfg`),
`TcpConnection.NoWriteAfterFin` (`MCTcpConnectionFin.cfg`),
`TimerQueue.CancelStops` (`MCTimerQueueCancel.cfg`), `TcpServer.MayBeDestroyed`
(`MCTcpServerDestroy.cfg`), `LegacyHttp.ResponsesEnd` (in `MCLegacyHttp.cfg`) and
`WebServer.DocumentRootIsNamed` (in `MCWebServer.cfg`). The type invariants
(`TypeOK`) are part of the inductive invariants of the proofs and otherwise
document the variables.

Bounds. Two foreign threads are the least that overtake each other between the
lock and the eventfd, and three functors the least with one running, one taken
and one pending. A message longer than the send space makes every write partial.
Two requests with four units have pipelining with a body in the buffer, in the
socket and in both. Two addresses for three timers make one be used again, and an
interval above the delays lets other timers come between two runs; one cancel
meets every state of every timer. Three clients on two descriptors make a
descriptor come back, and two loops with no loop at all (`numThreads` 0) cover
both ways of running `connectEstablished`. A buffer of three cells with blocks of
up to three bytes compacts, grows, wraps its indices to the front and spills into
the extra buffer. Two messages have a request behind a bad one, behind one that
closes and behind one whose headers must be gone. Two clients with one failed
accept and one stop have the stop between any two steps of the handler. The web
server's `size_t` holds 0 to 15 and its port 1 to 6, so a negated number wraps
past every limit; the INI files differ from a plain one in one entry or line, of
every kind the loader tells apart. Deadlock is not checked: the loop may
end, the process may die, and a connection or session comes to rest when its peer
is done.

Fairness. Threads that can run do run, callbacks return, kernel and timer do
what they announced. No fairness is given to the poll timeout, the callers, the
client or the peer: what liveness says must follow from wakeups and timeouts.
`TcpConnection` assumes that one loop iteration both polls and runs the functors
(strong fairness of each; `TimerQueue` likewise), and `ShutdownCompletes` that the
peer keeps reading. In `EchoServer` the workers, the kernel's operations and a
`stop()` once begun make progress; clients, signals and callers owe nothing.
`Buffer`, `LegacyHttp` and `WebServer` are checked for safety only: nothing in
them waits.

## Proofs

`EventLoopProof` proves for every set of threads, functors and channels:
type correctness, `NoLostWakeup`, `NoSleepAfterQuit` and the refinement of
`FunctorQueue`. `NoLostWakeup` alone is not inductive, since it speaks of the
stage `polling` only: the strengthening `WakeupOnItsWay` says that in every stage
but those from the return of poll to the swap an unserved late functor has a
wakeup there or on its way. The swap keeps it because it takes all there is; a
callback of the loop thread keeps it because `calling` is true exactly in the
stages of `doPendingFunctors` (`FlagMatchesStage`) and a handler runs before the
swap. The refinement needs that the local batch is empty when the swap happens
(`BatchIsLocal`). It rests on `WakeupAssumption` and `BoundAssumption` only.

About `EventLoopThread` it proves that `startLoop` returns a constructed and
initialised loop, or nullptr only after that loop has ended. `StartedIsReady` is not
inductive: `PublishInv` adds that `loop_` is set exactly while the thread is about to
run the loop or runs it, and that an owner whose wait has ended finds a thread past
the point where it published. `ThreadRunsAnEventLoop` shows that the protocol of
start and stop adds nothing to the loop inside it: what the owner does is what a
foreign thread may do, or nothing when the loop is gone. So what is proved of
`EventLoop` holds in every loop thread, given only that there is an owner.

`TcpConnectionProof` proves all six invariants of a connection for any threads and
messages, any message length and send buffer. `LifeInv` says what the callbacks, the
channel and the close path look like in each `state_`: before
`connectEstablished` nothing has happened; a disconnected connection has
announced both the connect and the disconnect, its channel wants no events, and
its removal has begun; a channel whose removal is under way is still in the
poller's map, and one that is done stays out and is never dispatched. That a late
functor cannot bring it back, and that no assertion fails, needs `QueueInv`: the
functor that establishes the connection is the first of all and there only while it
is connecting, and at most one functor destroys it, only while the close path has
reached the loop. The output's three properties are inductive together
(`OutputInv`): what is written followed by what waits is what was accepted; on an
open connection write events are on exactly while something waits; and a FIN was
sent only with nothing waiting. The middle one is needed for the first, because
`sendInLoop` writes directly only when no write event is on, and for the last,
because `shutdownInLoop` tests the events and not the buffer.

`TimerQueueProof` proves for any timers, addresses, delays and interval that each
`Timer` has one owner, that the timerfd is due in time, and the refinement of
`TimerService`. `OwnedInv` strengthens the first: the batch and the running
callback exist only inside `handleRead` (`BatchInv`), a functor is for a timer
that was created, and no two functors add the same one. `FirstIsArmed` is inductive
with the types of the clocks (`ClockInv`), once the owner is known: `resetTimerfd`
after a batch sees every timer that is left. The refinement maps a timer to the
place where it is, and uses the single owner in every step; a cancelled timer that
runs once more is a step the abstract service has, as the finding `CancelStops`
says.

`TcpServerProof` proves for any connections, descriptors and number of loops that
no assertion fails while the server lives, that the pollers know living channels
only, and that the pool is fair. The type invariant is a result of its own
(`TypesHold`), for it says that the table and every functor that waits refer to
connections that are not deleted. Deletion depends on where references are, so the
proof is about places: the functors of a loop are those left in its batch and those
pending (`Due`), a connection has at most one functor in one place (`OnePlace`), and
`LifeOf` says which it may be: one that establishes a connecting connection in its
own loop, one that removes a closed connection still in the table, one that
destroys a connection that has left it; until its close a connection is in the table,
and a registered channel has one or the other. The living have different names and
descriptors, so a descriptor used again never meets an old channel. `RoundRobin`
follows from `ShareInv`: the loops before `next_` have been given one connection more
than the last one.

`BufferProof` proves for every size and every set of blocks that the indices stay
in the vector, that `makeSpace` makes the room its caller writes into, and that
every call is a step of `ByteQueue`. The heart is the meaning of each operator:
`Peek` of the result in terms of `Peek` of the argument (an append is `\o`, a
retrieve a `SubSeq`, compacting and resizing the identity), under `Sound`: a
sequence of cells with `reader <= writer <= Len(cells)` and `CheapPrepend <=
Len(cells)`. The last part is why `retrieveAll`, which sets both indices to
`kCheapPrepend` without looking, is safe after `prepend` has used the reserve.
About `LegacyHttp` it proves `AnsweredUntilClose` for any messages and any answer
of the callback: an answer never outruns the requests, and while the connection is
open none is missing (`AnswerInv`).

It also proves `ServedAsSent` (`RequestsAreServedAsSent`): for any messages of any
length, however they are cut into reads, each request that is handed on is the one
that was sent, none is skipped but a malformed one, and none is held back. The bytes
of the client are a stream given by the places where its messages end (`Ends`,
`EndsGrow`), and `ParserInv` says where the parser is in it: there are a message
`k + 1` and an offset `o` in it such that the input buffer shows the bytes from
there to the last one received (`Peek`, so the lemmas about `Buffer` carry it),
such that what was delivered is the requests of the first `k` messages, and such that
the context is the one a parser has that is given message `k + 1` alone up to `o`.
The first line end in the buffer is then that of the message (`FirstLineEnd`,
`WindowLine`), although the read may have stopped inside a later one. A request
line meets the request of an earlier message when that was malformed, and
`FreshReads` shows that nothing of it is left in the result; the reset after a good
one does the rest. That nothing is held back (no complete line in the buffer when
`onMessage` returns) is claimed for streams without a malformed message: behind one,
`onMessage` does return with lines unread.

`HttpSessionProof` proves for any workers and bounds that operations of a session
never overlap, that none waits without a timeout, and that a session is never
dropped with its socket open. `OneOperation` is kept because the handler that runs
took the only operation there was. `NoUntimedWait` needs `ArmedFirst`: between
`armTimer` and the asynchronous call only a worker that is about to close the
socket can take the timeout away. `NotForgotten` needs `KeptAlive` and
`KnowsNext`: an open session has an operation or a running handler, and a handler
that goes on has something to start. (A session that was dropped open would not leak:
the socket's destructor closes the descriptor. It would end a connection that nobody
decided to end.) These do not depend on the bytes.
`RequestsAreCut` and `AnsweredInOrder` do, and have `StreamInv` on top: what the
session has not taken (its buffer, the socket's and the client's rest, `Unread`)
is cut as the client cut it; before a read of a head it begins with the head that
comes next, and while a body is read with the rest of that body, of which the
buffer holds no more than is missing; and a response that keeps the connection has
its whole body behind it. `OneOperation` is what lets these speak of "the" read.

`EchoServerProof` proves for any workers, clients, failures and stops that the
accept loop neither forks nor ends, and for any buffer size that bytes come back in
order. `AcceptInv`: there is one of an outstanding accept, a queued completion and a
handler at work, never two; none before `run()`; one of them while the acceptor is
open; and the acceptor is closed behind the destructor's `stop()`. `EchoInv`: a session
has one operation, outstanding or completed; a write's remaining cells hold the
bytes that follow those echoed and none after them has been read, so a read never
meets a buffer in use; a client that an accept has brought is not a session yet,
which keeps a second session from its socket.

`WebServerProof` proves `LoadedConfigIsSound` for any absolute current directory
without dots (`SetupsAssumption`: what `getcwd` gives), any INI files and any
defaults. Three results meet in it. `FileIsRead`: what `parseIni` keeps of a key is the
value of its last entry in its section; by induction over the lines, with `HasRead`
for what is known after `n` of them, including which section the loop is in.
`FoundIsNearest`: the three paths `findConfigPath` tries are `config/server.ini`
below the current directory and the two above it (`TriedPath`, by `NormalWalk` and
`UpOnce`, which follow `lexically_normal` through the names), also where `..` meets
the root, and the first that exists is that of the nearest. `BaseOfFile`:
`configBaseDirectory` takes such a file back to its project directory.
`ConfigOfFile` puts them together. The invariant of the state machine, `LoadInv`,
only says that the setup is still the one it was.

It proves that a static file that is served lies under the document root, for any
start of the program, configuration, file tree and requests. This has three parts.
`NoEscapeIsInside` is about `pathEscapesRoot` alone: if the lexically relative path
does not begin with `..`, then nothing of the root but a trailing separator is
left after the common elements, so the path begins with the root's names. It
rests on `MismatchIsFirst`, that the first difference of two paths exists (the
least element of a set of naturals). The invariant `ServedInv` says that a file in an
answer was put to `pathEscapesRoot` with the document root that is in force, and
that no answer exists before that root is fixed. And `PathsStayPaths` shows that what
is compared are sequences of names: the configuration's values, the decoded path of a
request, and what joining and normalising make of them.

`RequestsKeepTheirFrames` proves `RequestsAreFramed`
for any configuration and heads. `FramedInv` adds that nothing is taken before a
head is, and that a request waiting for its body has a length within the limit and,
if it has a body, a supported type: two tests of the code, of the head's lines one
by one and of the body that was read, agree.

The assumptions are about data, not about the program: an INI file and a head are
finite lists of lines, the values that are read as paths are sequences of names
(`SetupsAssumption`, `HeadsAssumption`, `DefaultsAssumption`), the default limit and
the largest port are natural numbers (`MaxPortAssumption`).

Induction. What a loop over lines, path elements or messages computes is needed for
every length. It is a recursive function of the number taken, and induction over that
number is the lemma `NatInductionOnSets`: a set that has 0 and with each number the
next has them all, from `WFMin` of the library (`LeastNatural`). It takes a set where
the library's induction theorems take a predicate, which the provers used here cannot
instantiate. That the recursive function exists is proved each time in the same way,
from a table of n entries to one of n + 1 (`WalkedFacts`, `NonEmptyFacts`,
`InisFacts`, `SumsExist`).

The other assumptions on constants say that sizes and bounds are natural numbers,
that a message, an interval and a send buffer are not empty, that special values
are not members of the sets they stand outside of, and that there is a worker.

Every safety invariant and every refinement that a passing run checks is a theorem.
Model-checked only: liveness, which is beyond TLAPS (`PostedIsCalled`,
`QuitEndsLoop`, `EventuallyFreed`, `ShutdownCompletes`, `ClosedIsRemoved`,
`TimersRun`, `StopsALoop`, `ClosedIsFreed`, `ClientsAreAccepted`, `StopEndsRun`), and
the violations listed above, which are counterexamples.

## Plan

Everything of the plan's models is built, and everything that is not liveness is
proved. What is left is to extend the models where `PROJECT.json` lists a hazard
without a property: functors queued before `loop()`, a server destroyed with
connections that are still open, and an acceptor that runs out of descriptors.

## Not modelled

Socket options, addresses, timestamps, the console helper and what loggers write
are one-line wrappers or formatting. Of the asio logger only what makes the
server refuse to start is in `WebServer`; the epoll logger has no state but its
level and its sink. Left out inside modelled parts: MIME types and bodies' texts,
a request's query (no handler reads it), `Transfer-Encoding` (the code ignores it), symbolic links and permissions (the
router's test is lexical, and reads what the process may read), and the arguments
of `main()` but for the default one.
