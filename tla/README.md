# TLA+ models of tiny_webserver

Specifications, model-checking runs and proofs for the web server under `src/src` (a
main reactor that accepts, IO threads that serve, an asynchronous logger), and for its
predecessor under `old_version`. Paths below are relative to `src/src` unless they begin
with `doc/`, `README.md` or `old_version/`, which are at the root of the repository.

## 1. The system

| Component | State it keeps | Operations | Talks to |
|---|---|---|---|
| `event_loop` | `m_pending_functors` (under `m_mut`), `quited_`, `calling_pending_functors_`, an eventfd | `loop`, `quit`, `run_in_loop`, `queue_in_loop`, `wakeup`, `doPendingFunctors` | its `uepoll`; called by the main thread and by its own functors |
| `uepoll` | `fd_channel_`, `fd_http_`, the epoll registrations, a `timer_manager` | `uepoll_add`, `uepoll_mod`, `uepoll_del`, `poll`, `handle_expired` | the kernel; owns channels, connections and timers |
| `channel` | `events_`, `revents_`, `last_events_`, handlers | `handle_events` | handlers bound to `http_data`, `server` or `event_loop` |
| `timer` | a heap of `timer_node`s, each owning a connection | `add_timer`, `clear_req`, `handle_expire_event` | closes its connection when it is destroyed |
| `http_data`, lifecycle | `error_`, `connectionState_`, `outBuffer_`, `keepAlive_`, `timer_` | `new_event`, `handle_read`, `handle_write`, `handle_conn`, `handle_close` | its loop, its timer, its socket |
| `http_data`, parser | `inBuffer_`, `state_`, `hState_`, `method_`, `fileName_`, `headers_` | `parseURI`, `parse_headers`, `analysis_request`, `reset` | is fed by `handle_read` |
| `server` | the listening socket and its channel | `start`, `handle_new_conn`, `handle_this_conn` | hands connections to IO loops with `queue_in_loop` |
| `event_loop_thread`, pool | threads, loop pointers, `next_` | `start_loop`, `thread_func`, destructor, `get_next_loop` | `uthread`, `event_loop` |
| `uthread`, `countdown_latch` | a thread and a latch | `start`, `start_thread`, `join` | pool and logger |
| `async_log` | current, next and full buffers under `m_mut`, two spare buffers, `running_` | `append`, `stop`, `thread_func` | every thread appends; `log_file` writes |
| `log_file`, `file_util` | a file, a count of appends | append, flush | called by `async_log`'s thread |
| `ulog`, `log_stream` | a line in a fixed buffer; one logger for the process | constructor, `operator<<`, destructor, `call_once` | `async_log` |
| `util`, `main` | none | `readn`, `writen`, socket options, arguments | system calls |
| `old_version/webserver_tick` | `users`, indexed by descriptor; a sorted timer list; a queue of requests with its semaphore | `main`'s loop, `http_conn::read`, `write`, `process`, `conn_close`, `tick`, `append` | a program of its own: the main thread does the IO, workers parse and answer, SIGALRM comes through a pipe |

How they interact. The main thread accepts (`server`), chooses an IO loop round
robin and queues a functor that holds the only `shared_ptr` to the new
connection. The IO thread wakes through its eventfd, runs the functor
(`new_event`), and from then on the connection is owned by `fd_http_` and by its
live timer node, while handlers call it through a raw `this`. Nothing but the
functor queue is shared between threads, and the logger, which all of them use.

What is hard, and what makes each part correct:

- **event_loop**: the eventfd is edge triggered and written after the critical
  section; `quited_` is tested once per round. Correct if no functor and no
  `quit()` is left behind by a sleeping loop, and functors run once each, in order.
- **connections**: descriptors are reused as soon as they are closed; handlers
  hold no reference; every path must renew the timer and the interest. Correct
  if no callback reaches a dead or a different connection, input and output are
  never stranded behind an edge, one live timer exists and only it closes.
- **parser**: input arrives cut anywhere and several requests at a time. Correct
  if every request is answered as itself.
- **server**: an edge per burst of connections, two limits, three ways to fail.
- **threads**: two handshakes; destruction races with the start.
- **bytes**: `read`, `write` and `fwrite` may be interrupted, move a part, or fail
  half-way. Correct if no byte is lost or repeated and the loops stop only where
  they must.
- **logger**: buffers circulate between six places; assertions say which are
  empty when; any thread may be the one that starts it. Correct if lines are
  neither lost, cut nor overtaken by each other.
- **predecessor**: nothing but EPOLLONESHOT keeps the main thread and the workers
  apart, and the main thread closes connections that workers hold; slots are
  reused; timers are freed by hand. Correct if timers go with their connections,
  every request and every muted connection is in somebody's hands, ticks go on,
  and answers are sent in order and whole wherever input and output are cut.

`PROJECT.json` lists the components, the hazards with their lines and the
properties that cover them, and for each definition the lines it models.

## 2. Modules

| Module | Models | Granularity |
|---|---|---|
| `TaskQueue` | what a loop promises: a FIFO of tasks, each run once, until it is stopped | abstract |
| `EventLoop` | `event_loop` with any set of foreign threads | a critical section is a step, the eventfd write after it another; `loop()` has a step per phase |
| `Descriptors` | what a loop's connections promise: a descriptor has one holder, who is given it once and never comes back | abstract |
| `Reactor` | one IO loop with its `uepoll`, channels, connections, timers, the peers and the kernel | a step per handler |
| `Transfers` | `readn`, `writen` and `append_file::append`, as functions of what their system calls return | one call at a time |
| `PoolSize` | the number of IO threads, for the next two | |
| `Acceptor` | the main reactor: `handle_new_conn`, its channel, the listening socket, round robin | a step per accepted connection |
| `LoopThreads` | starting and ending the IO threads | a step per statement that another thread can see |
| `WebServer` | the program: composes `Acceptor` and `LoopThreads` in the order of `main` and `server::start` | theirs |
| `HttpParser` | the parser on a stream of words | one call of `handle_read` is a step |
| `AsyncLog` | `async_log` with its file, and the `call_once` that starts it | a critical section is a step, each buffer written is a step |
| `LogLine` | `ulog`, `log_stream` and `fixed_buffer`: the characters of one line | functions |
| `TimerList` | the predecessor's `sort_timer_lst` | operators on its pointers |
| `TickServer` | the predecessor: main thread, workers, connections, timers, signals | main thread: a step per event; workers: a step per critical section, parsing, answering and arming |
| `HttpConn` | one `http_conn` of the predecessor: read buffer, parser, answer, `writev` | a step per call of `read`, `process`, `writev` |
| `MC...` | constants, symmetry and bounds for TLC | |

Theorems and proofs are in modules of their own: `EventLoopProofs`,
`ReactorProofs` (which has those about `Transfers` too), `AsyncLogProofs`,
`WebServerProofs`, `HttpParserProofs`, `TickServerProofs` (with those about
`TimerList`) and `HttpConnProofs`;
`Induction` has what several of them need of the natural numbers and of sequences
(section 4).

`EventLoop` and `Reactor` meet in one fact: `Reactor.poll` does not sleep while
a functor is queued, which is `EventLoop`'s `NoLostWakeup`, proved for every
number of threads. `Reactor` and `HttpParser` split `http_data`: what the parser
makes of the input is a choice in `Reactor.parses`, and `HttpParser` shows which
choice is made when. In the same way `Reactor` takes from `readn` and `writen`
only whether they left something in the socket or in `outBuffer_`, and
`Transfers` shows that this is all there is to take; `TickServer` leaves to a
choice what `HttpConn` computes; and to `AsyncLog` a line is a length, below that
of a buffer, which `LogLine` shows. `Acceptor` ends where `Reactor.handle_new_conn` begins.
`LoopThreads` knows of `loop()` only that it clears `quited_` when it is entered
and returns when it is set. `WebServer` adds what neither has alone: clients
connect before the pool has started, connections are given to loops that must
exist, and the pool is destroyed when the main loop has ended.

Correspondence. Variables carry the names of the members they stand for. The
exceptions: `http` in `Reactor` is a record with the fields of one `http_data`
and of its channel (`out`: `outBuffer_` is not empty; `events`, `last`: the
channel's `events_` and `last_events_`); `nodes` is the set of live timer nodes
of a connection, `linked` meaning that `timer_` points to the node; `interest`,
`ready`, `sock` are the kernel's; `executed`, `submitted`, `appended`, `answers`,
`assigned` and the like are history.

Kernel assumptions, in `Reactor` and `Acceptor`: edge triggered epoll puts a
socket on its ready list when its state changes in a way the registration asks
for; `EPOLL_CTL_ADD` and `EPOLL_CTL_MOD` look at the socket at once; `epoll_wait`
reports the present state, mutes a `EPOLLONESHOT` registration, and closing the
last descriptor removes the registration.

## 3. Runs

| Run | Instance | Shows |
|---|---|---|
| `event_loop` | 2 threads, 4 functors | no lost wakeup, quit seen, refinement of `TaskQueue`; every functor runs and `quit()` stops the loop |
| `reactor` | 2 connections, 2 descriptors, 2 sends in all; lists of up to 4 results of system calls | timers, edges, interest; dispatch, table entries and timeouts when a descriptor is reused; refinement of `Descriptors`; input is handled; the loops that move bytes |
| `web_server` | 3 IO threads, MAXFD 3, 5 descriptors, 5 clients, any `accept` may fail | stranding, accounting, round robin; loops exist when they are given a connection; both handshakes and the destruction end; early clients are served |
| `http_parser` | all sequences of up to 3 of 11 requests, received one at a time or several at once, and of up to 2, received in pieces that end anywhere | answers match, none refused or left |
| `async_log` | buffers of 4, lines of 1 or 2, 8 lines, limit of 3 buffers; numbers of 8 bits, lines of 2 items in 16 characters | assertions, order, exact accounting of drops; lines are flushed, `stop()` ends the thread; what a line consists of |
| `tick_server` | 2 workers, 3 clients, one connection at a time, a queue of 1 (and the one more its test lets in) | the predecessor's timers, queue, EPOLLONESHOT and alarm; the timer list by itself, with three timers and three times |
| `http_conn` | 2 requests out of 13, each cut anywhere, a buffer of 22 words, every `writev` takes any part of what it is offered | answers in order and whole; parsing does not depend on the cuts; no connection is closed or left waiting without a reason |

Five runs end in a violation, each a place where the code and a sentence of the
repository disagree:

| Run | Property | What the counterexample shows |
|---|---|---|
| `reactor_no_timer` | `EveryConnectionHasTimer` | `handle_conn` separates the timer of a half-closed connection with an unsent answer and arms neither a timer nor EPOLLOUT (`http_data.cpp:327`; `doc/concurrency_frame.md:26`) |
| `reactor_idle_timeout` | `ExpiredIsClosed` | `poll()` never returns on an idle loop, so `handle_expired` is not called (`uepoll.cpp:74`; `README.md:33`) |
| `http_pipelining` | `PipeliningWorks` | the second of two pipelined requests loses a character (`http_data.cpp:504`; `README.md:38`) |
| `http_request_line` | `LineParsedWhenComplete` | `npos <= 0` is false: half a line is parsed (`http_data.cpp:345`; the comment above it) |
| `tick_one_thread` | `OneThreadPerConnection` | the predecessor's `tick` closes a connection that a worker is processing; its slot is reused and given to a second worker (`http_conn.cpp:44`) |

More behaviours are seen as exceptions inside properties rather than in
runs of their own. A client refused because of MAXFD spends its loop's turn
(`server.cpp:46`), so `RoundRobin` balances turns and not connections. After
an `accept` that failed while somebody waited (EMFILE, ENFILE, ENOMEM, or the client
in front has given up; all at `server.cpp:45`) the rest of the backlog waits until
another client makes an edge: `accept_error` marks the round in which this happened,
and `NoStrandedBacklog` and `BacklogIsServed` except it. When a read ends inside a
header or a request line, `parse_headers` goes on with marks of -1
(`http_data.cpp:434`): `header_cut` marks the connection, and `AnswersMatch` promises
nothing from then on. It promises everything else for reads that end anywhere: between
words of the blank line, behind it, before a body.
A `Content-length` that is no number makes `std::stoi` throw (`http_data.cpp:240`);
nothing catches it, and the process ends. `HttpParser.body_stage` has the step
(`terminated`); such a request is not one that is served.
A thread started by `uthread` may not have reached its function when `start()`
returns, whatever the comment in `base/uthread.cpp:59` says; the pool does not
depend on it, because `start_loop` waits for the loop too.

In the predecessor a request that a full queue refuses leaves its connection muted until
the timer ends it (`MutedIsInHand` excepts it). The comment at
`old_version/webserver_tick/http_conn.cpp:485` says that `process_write` decides what is
returned to the client, and it prepares contents for four errors, but `bytes_to_send` is
set for files only and `write()` sends nothing else; `AnswersInOrder` allows such an
answer to a request that is not served, and does not require it. `write()` compares all
it has sent with what the last `writev` left of the head (line 405 there, `发完头部了`, the
head has been sent): when `writev` ends inside one head twice, this may be true too
early, the rest of the head is skipped and the file is read from before its mapping.
`drops_head` says exactly in which calls this happens, `head_lost` marks the connection,
and `AnswersInOrder`, `ClosedForAReason` and `NobodyWaitsInVain` promise nothing from
then on; TLC refutes each of the three without this exception. A body in pieces is
counted again from where it was passed over (line 291 there), which `NobodyWaitsInVain`
and `ParsedAsWhole` except.

Bounds. Two foreign threads interleave with each other and with the loop in every order;
four functors allow two in the swapped vector while two more are queued, one by a
functor. Two connections are needed for one to be handled while the other is in the list
`poll()` returned. They may be served together, on two descriptors, or the second may be
the successor of the first on its descriptor, accepted while callbacks and timer nodes
of the first may still be there. `MCReactor` keeps both within one run: the connections
have the same code and a descriptor number no meaning, so that `accept_order` (the first
connection is accepted first, on the first descriptor) leaves out only renamings. Two
sends let data arrive while earlier data is being handled (`few_sends` counts those of
both peers). The loops of `Transfers` are run on every list of up to four results, of
which each is one or two bytes, nothing, or one of three errors, so that every error
follows and precedes a partial transfer. The acceptor's five clients pass MAXFD; since
any `accept` may fail while descriptors are free, a process limit below MAXFD would add
nothing; three loops show a turn that is skipped. The logger's limit of 3 stands for 25:
eight lines of which two fill a buffer reach four full buffers, so that dropping, both
spares missing, and a single buffer in the list all occur. Numbers of eight bits have a
least value without a negative, and lines of two items reach every length about the room
that numbers ask for and the end of the buffer. Three requests let the second leave
something for the third in `http_parser`; two do so in `http_conn`, whose client waits
for an answer before it asks again, and in `http_parser` when reads end anywhere. In
`tick_server` a slot is reused twice while workers still hold it, which is how the queue
comes to be full with one connection at a time; two at a time (MAX_FD 2, three
descriptors, one worker) is eight million states, in which the invariants hold too. A
timer expires after one slot of time instead of three. The list of timers is short
there, so `TimerListIsSorted` drives it alone through every order of insertion and every
removal and postponement. In `http_conn` the buffer is too small for two of the
requests, so that it fills up before one is complete. The bounds `MaxSends`,
`MaxFunctors`, `MaxLines`, `MaxClients`, `MaxRequests`, `MaxUnread` are guards of the
environment's actions only, or bound its initial choice. What a `writev`, a read or an
`accept` does is not bounded.

Properties of pure functions (`TransfersKeepBytes`, `LinesAreWhole`, the part of
`TimerListIsSorted` that drives the list alone) do not depend on the state; each
is guarded by a condition that holds in few states, one of them initial, so that
it is evaluated there and not everywhere.

`CHECK_DEADLOCK FALSE` stands where the system may stop: a loop that has quit, a
logger that was stopped, clients that have all come, a server that has ended.

Fairness. Only threads are fair, each weakly (the scheduler runs a thread that can run):
the loop's thread, callers between their critical section and the write to the eventfd
(in `EventLoop`), the logging thread (whose `wait_for` has a timeout, so it is always
able to go on), the main thread and the IO threads in `WebServer`; in `Reactor`, time
passes. `TickServer` and `HttpConn` claim no liveness. Peers, clients and callers owe
nothing, and in particular no other descriptor is assumed to become ready.

## 4. Proofs

Everything here holds for every value of the constants that the modules' ASSUMEs
allow. `PROJECT.json` lists the theorems; those that state a property of a run
name it.

**`EventLoopProofs`**, for any foreign threads: `TypeCorrect`,
`WakeupIsNeverLost`, `QuitIsAlwaysSeen`, with the inductive invariant
`IInv == TypeOK /\ PcInv /\ CountInv /\ NoLostWakeup /\ QuitIsSeen`. `PcInv` ties
`calling_pending_functors` to the program counter: without it a functor queued by
a functor would not be known to write the eventfd. `Refinement`:
`SafeSpec => ImplementsTaskQueue`. `CountInv` (every functor queued is executed, in
the vector or waiting) makes each concrete step a task submitted, a task run, a
stop, or a stutter.

**`ReactorProofs`**, for any connections and descriptors: `TypeCorrect`,
`TimersAreUnique`, `TargetsAreAlive`, `TimeoutsAreDue`, `EntriesGoWithTheirOwner`.
None of these properties is inductive. The argument is about ownership,
`IInv == TypeOK /\ OneLiveTimer /\ QueueInv /\ TableInv /\ ControlInv`: a connection
is queued once, and until its functor runs the functor is its only owner
(`QueueInv`), so the first timer is the only one and its table entry was free;
afterwards the entries of its descriptor name it, and no two living connections
have one descriptor, because the kernel gives out only descriptors no living
connection holds (`TableInv`); what `poll()` returned stays in the table until it
is handled, because the only connection closed meanwhile is the one being handled,
and timeouts come after all are handled (`ControlInv`). Steps are grouped by what
they do to ownership: `QuietStep` for those that leave it alone, `CloseStep` for the
two that end a connection.

The second part, on top of that, shows that nobody sleeps for ever behind an
edge: `InputIsNeverLost`, `OutputIsNeverLost`, `SleepersWaitForTheirNeeds` and
`TimersAreMissingOnlyThere`. `WaitInv` adds to `IInv`, for each connection by itself,
`ConnInv(c)`: what epoll has registered is what `uepoll_mod` remembers, and only
ONESHOT mutes (`Registered`); what `poll()` reported is still true of the socket
(`Reported`); `events_` while a handler runs is what `handle_conn` will register
(`Handled`); readiness that is registered for is on epoll's list, or in the list in
hand and its handler has yet to run (`InputSeen`, `RoomSeen`); a connection nobody
handles waits for output if it has any left, and for input otherwise (`Waits`); one
without a timer is about to get one or is closing with output left (`Timed`). Since
`ConnInv` is per connection, most steps need only their own connection and the lemma
`Untouched`.

The third: `DescriptorsAreImplemented`, that is,
`SafeSpec => ImplementsDescriptors`. The abstract `held` is computed from who owns a
`shared_ptr` (a queued functor, the descriptor table, a timer node), so that the
theorem says of all code that copies or drops one that together it closes one
connection at a time, its own, and revives none. The lemma `OneDies` maps a step that
takes away owners of one connection to `close` or a stutter.

Its last part is about `Transfers`: `TransfersAreKept`, from `LoopsKeepBytes`, which has
any bytes, any buffers and any number of calls with any results where the run has lists
of four. Each loop is a recursive function over its calls, and its value after each call
is given in closed form (`ReadState`, `WriteState`, `AppendState`) by two things that
are defined without it: the sum of what was moved and the cause that ended it. One lemma
per loop shows that a call leads from one such state to the next, and `Induction` does
the rest. That the calls move no more than there is to move is a hypothesis of the
properties themselves.

**`AsyncLogProofs`**: `TypeCorrect` and `AssertionsHold`, for every buffer size, every
set of line lengths below it and every drop limit of at least two. The assertions
are not inductive: the one in the second refill needs that the list holds two
buffers when both spares are missing, which holds because the front end's next
buffer is missing only while a full buffer is waiting, and the swap adds the
current one (`SpareInv`); and the one at the thread's start rests on the order of
`start()`'s steps (`StartInv`).

Then `OrderIsKept`, that no line is lost, repeated or
overtaken, and that what is dropped is exactly what was cut off.
`OrderInv == IInv /\ NextInv /\ LinesKeepTheirOrder`; the property becomes inductive
once the buffers behind the file are seen as one queue: the list in hand from its
next buffer on, the full ones, the current one. Swapping moves buffers within that
queue, writing moves its head to the file, and `NextInv` says that the buffer that
joins it at the end is empty. The lemmas are about concatenation of ordered
sequences.

Its last part is about the characters of a line, for any items over any alphabet, any
size of the buffer and all the numbers that are logged: `NumbersAreLogged`,
`LinesAreLoggedWhole`, and `EveryLineIsWhole`, which is what the run looks at.
`convert`'s loop is a recursive function on the integers, whose value exists because C's
division brings every number nearer to zero (`Division`, `BackwardsIs`); of the numbers
on which reading back what was written fails, the nearest to zero has a quotient on
which it does not, and one digit more (`DigitsOfNumber`). A line is followed piece by
piece: what has been written is what was asked for, as long as room is left for what was
asked for in all (`NothingCut`); and the last piece, one character, is left out only
if one character of the buffer is left (`PutEnd`).

**`WebServerProofs`**, for any number of IO threads and any limits: `TypeCorrect`,
`LoopsExistAlways`, `ConnectionsGoToLivingLoops`, `NobodyStranded`, `NobodyIsDropped`,
`LoopsTakeTurns`. `PoolInv` follows
the threads through `start_loop` in their order, and says that until a destructor
runs none has its flag set, so none has left its loop. `EdgeInv` ties the channel's
`events_` and last events to the registration in each phase of the main reactor, and
says that a backlog a sleeping main thread has not seen is on epoll's list, unless the
last `accept` failed before it. `CountInv` follows each client from the backlog
to the loop it is given to, where the turns a loop has had are counted as a set of
numbered turns; a turn that is spent without a connection is one that the sum of
clients misses, which bounds how far the loops' shares can drift apart.

**`TickServerProofs`**, first part, for any timers, any times and lists of any length:
`OperationsKeepAnyOrder`. Lists are related to sequences by their neighbours: what an
operation has to show is that it changes the links around one place (`Longer` and its
inverse for the sequence, `Cut` and `Spliced` for the pointers); where the walk of the
private `add_timer` stops is found by descending from the end of the list.

Then, for any workers, queue limit and clients: `NoTaskStranded`, by counting: a post
and an interrupted wait add to the right side of the inequality, a request is appended
only together with the post to come, and a worker takes at most one request per unit and
goes back to sleep empty-handed only from an empty queue. `TicksGoOnForever`: each link
of the chain from alarm to signal, flag and tick is given up only for the next.
`TimersAreOfConnections`, `NoConnectionIsForgotten`, `ListStaysSorted` and `TypeCorrect`
follow from one invariant, `ServerInv`: there is a sequence of timers that the pointers
represent, its members are the timers of the open descriptors, and each names its
descriptor (`Serves`); which is kept by every step of the main thread through the first
part, although workers may hold a slot whose connection has been closed and replaced,
because what a worker does to such a slot touches neither its timer nor the list.
`MutedIsInHand` needs it: that a request in the queue belongs to the connection that is
muted holds only while slots and timers go together.

**`Induction`**: the library's induction theorems take the property as an operator,
which the provers here cannot instantiate. Stated with sets they can be used: every
set of numbers has a least element, a set that contains 0 and successors contains all
numbers, up or down to a bound, and a loop given by functions from step to step has a
run (`LoopRuns`). The proofs take for the set the numbers that have their property.
The other lemmas are about sequences: joining them, and the text that many of them
make together, which `HttpParserProofs` cuts where a request ends.

**`HttpParserProofs`**, for any requests with any number of headers, any number of them,
received one at a time, many together or cut anywhere: `ServedNeverRefused`,
`WholeRequestsAnswered` and `RequestsAnswered`. `parse_headers` is a recursive function
from character to character; its state after each header line is given in closed form
(the marks of that line, the map of the headers so far, of which the last with a name
counts), one lemma follows the six characters of a line, and `Induction` does the rest.
What remains in `inBuffer_` then depends on whether another request follows in it: if so
its first character is lost. The invariant `ParserInv` says what the parser may be left
with between two calls. Where reads end between requests (`Inv`), it stands before a
request whose predecessors have all been answered as meant (`Fresh`), or holds a burst
whose beginning it has lost, which `parseURI` is going to refuse (`Ignored`), or has met
a request that is not served and will not answer again (`Stuck`). That a burst makes it
refuse requests which are served is the violation of `http_pipelining`; no proof hides
it: `ServedNeverRefused` is about requests that are received one at a time.

Where reads end anywhere and `header_cut` is false (`PieceInv`), what matters is the
text that was received and not consumed, followed by what the client has still to send
(`left`), because where a read ended makes no difference to it. `Standing` says where
the parser is in `left`: before a request line (`BeforeLine`), before one without its
first character, which is refused whenever it comes (`BeforeNothing`), before the
headers of a request it has begun (`BeforeHeaders`), between the CR and the LF of a
blank line (`BehindCR`), or before a body it waits for. The lemmas about a text that is
a part of a longer one (`Part`) say what `parseURI` and `parse_headers` make of it:
either what they make of the whole, or they ask for more in a place where nothing is
lost, or they ask for more inside a header (`AsksInHeader`), and then the call sets
`header_cut` (`CutMarked`). Half a request line is one of the latter: it is taken for a
whole one and what is left of it for the name of a header. `PieceNext` puts the cases
together.

**`HttpConnProofs`**, for any files, requests with any number of headers, any number of
them, a read buffer of any size, and every way in which requests and answers may be cut:
`PiecesMakeNoDifference`, `AnswersReceived`, `ClosesForAReason` and `NoneWaitsInVain`,
the last three with the exception of `head_lost` (section 3). They follow from one
invariant, `ConnInvariant`: the connection is in one of four stages of the request that
was sent last. It is read (`Awaited`), and then the members are those that the lines
received so far make of a new connection (`lined`), or a body is missing (`bodied`); its
answer is sent (`Sending`), and then the two blocks of `m_iv` hold exactly the units
that were not sent (`Accounts`); it is over, or cannot be read, and nothing comes of
what is left of it in the buffer (`Past`); or the connection is closed, for a reason
(`Ended`). The invariant needs `Past`: a request that is refused is cleared with an
unread rest to come, which the parser sees as the beginning of another; the lemmas about
`Rest` show that no line of a rest is read as a request line, so that it is refused too
or waits for an end of line.

The parts of the module follow this order. The text of a request, and the place of each
line end in it (`Pos`): `parse_one_line` finds the next one in any beginning that has
it, and none in one that does not. Then `process_read`: its loop is a recursive function
of its fuel, of which a line costs one; a round on a beginning leads from the members
after n lines to those after n + 1 (`lined`), `Induction` does the rest, and the fuel
suffices because every line has at least the CR LF that ends it. What one call makes of
a buffer thus depends on how many lines are in it, whatever earlier calls found, which
is `ParsedAsWhole`. Then requests that cannot be read (another method, a target that is
not a path, ends of line other than CR LF), where the same is shown of the line at which
the parser gives up. Then the units of an answer: what `writev` is offered is what the
answer has from `bytes_have_send` on, and taking n of it leaves the blocks so. Once a
part of a head was dropped (`head_lost`) nothing is said of the blocks any more.
`PiecesMakeNoDifference` holds even then: whatever the blocks hold, `init` clears them.

The proofs rest on the ASSUMEs of the modules: the loop's thread is not a foreign one; a
null pointer is neither a connection nor a descriptor; lines are shorter than a buffer
(a `log_stream` holds 4000 characters, a buffer 4000000); a logged number has two digits
less than `max_remain_size`, for its sign and a NUL (20 digits in 64 bits, of 32), which
is no more than the buffer's size; the drop limit is at least two; `Null` is no buffer;
limits are natural numbers and there is at least one IO thread; the predecessor's
workers are finitely many, as are its descriptors, which are numbers, more than `MAX_FD`
of them and different from the listening socket and the signal pipe; a client's request
is made of known methods, targets and versions, the name of a header is not a separator,
and only a POST has a body; a request to the predecessor is made of words of which none
is a separator, its target is a path, a URL with one or a URL without one, its lines all
end the same way, and its body is no longer than its last `Content-Length` says (a
longer one would be the beginning of another request).

Every invariant the runs check is stated by a theorem. Only model-checked: liveness,
which the prover does not cover: `EveryFunctorRuns`, `QuitStops`, `InputIsHandled`,
`EveryLineIsFlushed`, `StopEndsThread`, `PoolStarts`, `DestructorEnds` and
`BacklogIsServed`.

## 5. Not modelled

MIME types, the text of answers, the command line, socket options and `bind`: no
state the properties depend on. `ulog`'s time is one piece of a line, and floating
point numbers, which go through `snprintf`, are left out. Failures of
`EPOLL_CTL_MOD` and `EPOLL_CTL_DEL` on an open, registered descriptor do not happen
here, nor does a failing write in `AsyncLog` (`Transfers` has them). Timeout values are
not told apart (a node expires at some time), and so the heap's order is not seen;
`timer_node::update` is never called. Of the predecessor: failures of `accept`, the
destructors that run when the process ends, its log, clocks that are set back.
`HttpConn` has one connection whose client waits for an answer before it sends its
next request.

What the models leave as an exception, rather than a property: a thread destroyed
between publishing its loop and entering it is never joined (`loop()` clears
`quited_`), and `quit()` writes to the eventfd of a loop that may have seen the flag
and gone; lines appended after the logger's last swap before `stop()` are never
written; `append_file::append` gives up when its first `fwrite` takes nothing; a
request without headers, and a POST, are never answered, and a POST whose
`Content-length` is no number ends the process. They need a shutdown that
`main` never makes, or break no sentence of the repository; `PROJECT.json` lists
them among the hazards.

## 6. What could follow

The composition of two loops with one logger adds no shared state that the parts do not
have. Worth proving: for the predecessor's connection, that what `TickServer` leaves to
a choice is what `HttpConn` does, as a refinement. Worth adding to the runs: a pool that
is destroyed while its threads start, should `main` ever end.
