# libunicomm in TLA+

libunicomm is a C++ framework for TCP servers and clients on top of boost::asio:
a *dispatcher* runs an io_service on a pool of threads, a *communicator* per
connection queues, encodes, writes, reads, decodes and dispatches messages, and
a user *session* gets the events. This directory holds a model of the library
and of two of its sample programs, the TLC runs that check it, and proofs of its
central properties.

## 1. Inventory

| Component | Source | State | Operations | What makes it hard |
|---|---|---|---|---|
| communicator container | `comm_container.cpp` | two maps: primary, excluded | insert, take_out, get_back, erase, send_all, disconnect_all, clear | communicators move between the maps while other threads erase them |
| dispatcher | `dispatcher.cpp/.hpp` | `_kick_count`, `_run_count`, `_is_working`, timer, io_service | run, kick, timer, process_clients, handle_disconnected, stop, reset, send_*, disconnect_* | any number of threads in run(); counters tested and changed in separate steps; wakeups |
| communicator, connection | `comm.cpp` | socket, just_connected, session, read/write errors | accepted/connected, mt_process, error handling | one pass at a time, but asio handlers run beside it |
| communicator, outgoing | `comm.cpp`, libsmart `stable_priority_queue` | message queue, out buffers, sent list, `_mesid`, `_internal_mid` | send, mt_start_write, write handler, mt_process_sent | senders on any thread; several writes outstanding |
| communicator, incoming | `comm.cpp`, `comm_buffer.cpp`, decoders | in buffer, updated flag | read handler, mt_process_arrived, decode | flag and buffer change in separate steps |
| communicator, requests | `comm.cpp`, `config.cpp` | timeouts map | register, reply, elapse | a reply may overtake the bookkeeping of its request |
| extended_session | `facade/extended_session.ipp`, `session_base.cpp` | single handlers, tables of named and of sent handlers | set, clear, call, unregister | set on any thread while the pass calls copies; handlers throw, and change handlers |
| server, client | `server.cpp`, `client.cpp` | acceptor, connect errors | accept, connect, reset, stop | errors of the asynchronous operation; the acceptor dies while handlers still run |
| message formats | `message_encoder.cpp`, `message_decoder.cpp`, `facade/bin_*`, `facade/xml_*`, `helper.hpp` | none | encode, find, decode | escapes, lengths in one byte, a stream cut anywhere |
| http sample | `samples/http` | decoder: length, last size; session: tracking, close flag | decode, answer, close | one decoder for all connections; answers and timeouts race the peer |
| term sample | `samples/term` | none | send_all of what is typed, show | send_all() from outside the pool; a buffer that is copied, then cleared |
| echo sample | `samples/echo` | chain of connections | connect, reply | not modelled |
| config | `config.cpp` | protocol description | is_allowed_reply, message_priority, timeouts | static defaults |

Interaction. asio handlers (accept, read, write, timer) change a communicator
and *kick*: `kick_dispatcher()` posts `kick_handler`, which on some thread of
the pool walks all communicators. Each is taken out of the primary map, passed
to `mt_process()` (connect, sent, arrived, write, timeouts, errors,
after-processed, in this order), and all are given back at the end. The end of
a connection is an exception (`disconnected_error`) thrown out of
`mt_process()`; `process_client()` catches it, erases the communicator, closes
it and calls the session's disconnected handler. User code is called from
inside the pass and may call back into the dispatcher, and any other thread may
call `send_*` and `disconnect_*`.

What must hold: a communicator is processed by one thread at a time; it is never
stranded or resurrected; its session hears of the end exactly once; a loss is
always noticed and in the end acted upon; whatever arrives or is sent is
eventually served; messages of one priority leave in order, none lost or written
twice; a buffer lives as long as its write; sent handlers are called once;
identifiers are unique; replies find their request; what is encoded is decoded,
whatever the cuts; a handler that is set is called, and forgotten in time; a
message to everybody reaches everybody; stop() returns, tells every session, and
destroys nothing that is in use. Not all of this holds: section 3 says what the
code keeps of it.

## 2. Modules

| Module | Models |
|---|---|
| `CommContainer` | the two maps, known by identifier; one action per method, each atomic because the method holds the container's mutex |
| `Dispatcher` | EXTENDS it: pool threads, kicks, timer, the walk over the clients, `process_client` with its exceptions, the asio handlers, callers outside the pool |
| `ConnLifecycle` | abstract: what the dispatcher promises about one connection |
| `DispatcherRefinement` | the mapping of `Dispatcher` to one `ConnLifecycle` per communicator |
| `Outgoing` | the outgoing path of one communicator in detail |
| `Incoming` | the buffer, its flag, the read handler, `perform_decode` |
| `Requests` | EXTENDS it: what arrives is processed; requests, replies, timeouts |
| `Lifecycle` | constructor, run(), stop(), reset(); the server's accept loop, the client's connect errors |
| `ExtendedSession` | the tables of handlers, and the calls a pass makes of them |
| `MessageChannel` | abstract: what an encoder and a decoder promise |
| `Framing` | binary and XML messages as bytes, cut into reads; implements `MessageChannel` |
| `HttpServer` | the http sample's stateful decoder and session |
| `Terminal` | EXTENDS `CommContainer`: the term sample, send_all() against the pool |
| `DispatcherProofs`, `OutgoingProofs`, `RequestsProofs`, `LifecycleProofs`, `SessionProofs`, `FramingProofs`, `HttpProofs`, `TerminalProofs` | theorems |
| `MCDispatcher`, `MCOutgoing`, `MCRequests`, `MCLifecycle`, `MCExtendedSession`, `MCFraming`, `MCHttpServer`, `MCTerminal` | instances for TLC |

The modules are slices of one system. `Dispatcher` counts messages and knows no
text; `Outgoing`, `Requests` and `ExtendedSession` look into one pass of one
communicator, whose exclusiveness `Dispatcher` shows; `Lifecycle` makes that pass
coarse and adds what happens before and after; `Framing` is what `Requests` calls
decoding. The two samples join slices again: `HttpServer` the read buffer, the
decoder, the session, the queue and the end of a connection, `Terminal` the
container, `send_all()` and the buffer of a peer.

### Dispatcher

`pc[a]` says where an actor is: `idle` is inside `io_service::run()` (or, for a
caller, outside the library), `take_out` is the head of the loop of
`process_clients()`, `mt_process`/`arrived`/`errors` the stages of
`mt_process()`, `disconnected` and `call_disconnected` the two halves of
`handle_disconnected()`, `get_back` the closing loop, `can_kick` and `post` the
two steps of `kick_dispatcher()`. `cur` is the communicator in hand, `taken` the
local vector of `process_clients()`.

A communicator is what the dispatcher sees of it: just connected, session or
not, socket closed or not, the outstanding read and its result, whether writes
are outstanding, which errors are set, how many complete messages wait in its
buffer, whether its queue is empty. Merged or left out, and why:

* `can_kick()` is two steps (test, increment); the `post()` that follows is one
  step with the increment, because a thread between the two has no effect.
* `mt_process()` takes `_this_mutex` with a try-lock and does nothing when that
  fails. By `ExclusiveProcessing` it never fails (nothing else locks it), so the
  lock is not modelled.
* reading and clearing the two error codes is one step.
* calls a session handler makes into the dispatcher are those of `Users`;
  replies it returns (`out_message`) are `Replying`.
* the sent, arrived and timeout stages share one "a handler threw" action.

### Outgoing

One communicator, the one thread that is inside `mt_process()` (`Pass`), any
number of `Senders`, and the write handler (one at a time: it holds
`_write_err_mutex` from end to end). `send()` is: take an identifier (increment,
then read), encode and push, register the handler. The pass is: the sent list
(under `_sent_mes_mutex`, one entry per step, the handler may throw at each),
the arrived stage (its handlers may send, with `send(*outm, handler)`), then per
message `front_copy()`, and `pop()` with the buffer and the `async_write`.
The queue holds messages themselves; a buffer is a pair of internal identifier
and message, a sent handler a pair of message identifier and message. Unique
identifiers are switched on (`use_unique_message_id`); a message may come with an
identifier of its own (`Identified`) and with a sent handler (`Handled`), whoever
sends it. `pushed`, `written`, `acked`, `notified`
and `called` are histories. When a pass begins is left open: what begins passes
is the subject of `Dispatcher`.

### Incoming and Requests

The byte stream is `wire`, the messages the peer has written, each `Pieces`
long; `received` and `decoded` are positions in it, and `_in_buffer` is what lies
between them. A read takes any part of what is there. Appending and setting
`_in_buffer_updated` are two steps of the read handler (`reader = "flag"` between
them), finding no whole message and clearing the flag are two steps of the pass:
no lock covers either pair. The decoder cuts the message off before it decodes
it, so a garbled one is consumed although the pass ends by an exception.

The pass is `mt_process()` with its stages: sent (registers the timeout of each
request, then tells the session), arrived (a message without `rid` is handed
over; a reply to a registered request settles it, a disallowed one throws, any
other reply is thrown away), write, timeouts (the table is a map, walked in the
order of identifiers; the entry goes before the handler is called), errors. Every
session handler may throw, which ends the pass, or throw `disconnected_error`,
which ends the connection (`gone`). `unsent`, `writing`, `sentMessages`,
`unwritten` and `timeouts` say where a request is; how it gets from the queue to
the socket is `Outgoing`. `pool` is the number of threads: with one, handlers and
passes exclude each other. A peer answers only what has been given to the socket,
and may answer wrongly, twice, or not at all. Left out: requests without
identifiers, which all share identifier 0, and messages whose timeout is infinite.

### Lifecycle

The actors are the threads that call `run()` (`tpc[t]`: `out`; `loop`, counted in
and about to look at `_is_working`; `run`, inside the io_service; or inside a
handler) and one more that starts, stops and resets (`ctl`). A *plan* says
whether this is a server or a client, which threads and communicators there are
and how often it is reset. A pass of `Dispatcher` is coarse: it takes connect
errors, serves the fresh and removes the failed, in any order, and a kick is one
step. `stop()` is one action per thing it does, in its order: `Stop`,
`CloseAcceptor`, `DestroyAcceptor`, `DisconnectAll`, `WaitClients`,
`StopService`, then `Finalize` or, when `run()` did not return in time, `GiveUp`.
Every wait may elapse. `reset()` is
called as its documentation asks: after a `stop()` that got as far as finalize,
when `run()` has returned everywhere. Kicks that were discarded with an
io_service stay counted in `kickCount` for ever (`LostKicks`); `Served` holds
unless they stand for all the kicks that are allowed.

Two things the code does are undefined, and the model assumes nothing after
either (`broken`): an accept handler that runs after the acceptor was
destroyed, and two threads that take and erase the same connect error at once.

### ExtendedSession

One action per critical section of the session's mutex. `TakeMessage`, `GetAny`,
`CallExact`, `CallAny` are `call_message_arrived()`: the copy of the handler of
any message is taken before the handler of the name is looked up; when the exact
handler throws, the other is not called. `TakeSent`, `CallMapped`, `CallSent`,
`Unregister` are a round of `mt_process_sent()`, where a sentinel unregisters the
handler whatever happens. `SendReply` is what a handler asked to be sent.
A handler that throws leads to the error handler, or to the end when it throws
`disconnected_error`. `script` says what a thread outside, and what the handlers
themselves, set, clear and send. `called` and `kept` are histories: who was
called for the message in hand, and who was subscribed to it all the time.

Two things the code does and the properties leave room for: a handler that is
moved from one name to "any" while a message is processed may miss it; a thread
outside the pass pushes before it registers its handler, so the handler may come
after its message was told and then stays in the table (exempt in
`Unregistered`). Unique identifiers are assumed.

### Framing and MessageChannel

Bytes are numbers. `BinText` and `BinMessage` are `serialize()` and
`unserialize()` with version, header length, flags, identifiers of `IdSize`
bytes in little endian, name and tail; `Escape` and `Unescape` the encoder's and
decoder's replacement of the end and escape symbols; `Frame` the search for the
end marker, `Decoded` all of `perform_decode()` up to the factory. The header's
length is written as one byte but read as a `char`, which is signed: a header of
128 to 255 bytes is sent and cannot be read, a longer one throws when it is sent.
`Readable` says which messages arrive; the others are consumed, and cost no other
message. An XML text is a name, two numbers and a tail between ends of tags: the
XML itself is libsmart's. Nothing keeps it from containing the marker CR LF CR
LF, so `FramingAssumption` demands that of the messages; it also demands that an
identifier fits in `IdSize` bytes, which its C++ type sees to. `Escape` and
`Unescape` say where each byte goes by counting the escape symbols in front of it,
and not by a loop over the text: that is what can be proved about.

`MessageChannel` has three actions: `Send`, `Deliver` the next, `GiveUp` on the
next when it is not readable. `Framing` implements it under a mapping that
forgets the bytes; what the mapping says of safety (`Safety`) is proved.

### HttpServer

The text is a sequence of cells: the kinds of header line that matter, `junk`,
the empty line, parts of a body. The decoder (`length`, `lastSize`) is *one*
object for all connections, as in the sample: it remembers between two calls how
long the message is that it is looking for, and so mixes two requests that arrive
in parts at the same time. The instance with two connections therefore lets each
request arrive at once; with one connection the text is cut anywhere. The sample
sets up one thread, so handlers and passes exclude each other. `ArrivedHandler`,
`ErrorHandler`, `BeginPass` (the sent handler, which closes the connection when
the answer is out) and the end of `FinishPass` (the idle check) are the session. A
GET without a host is `bad_request` in a release build, which is modelled; a
debug build stops at an assertion.

### Terminal

`Begin`, `Take`, `ProcessFresh`, `ProcessQueue`, `ProcessLost` and `GiveBack` are
the pool's walk, reduced to what moves communicators between the two maps of
`CommContainer`. `Getch`, `WalkClients`, `WalkExcluded` are the thread that types:
`send_all()` walks the primary map, then the excluded one, each under the mutex,
which it does not hold in between. A walk ends by an exception at the first
communicator that has no session yet, and with it the program (`typing = "dead"`).
A peer's decoder asks whether the buffer is empty, copies and clears it in three
locks, while its read handler, on the sample's second thread, appends. Whether the
peer reads is part of the plan. When a pass begins is left open. The quantum of
writing is at least one message.

## 3. Runs

| Run | Instance | Shows |
|---|---|---|
| `dispatcher` | 1 communicator, 2 threads, 1 caller, 1 waiting message, a finite idle timeout | one thread at a time, nobody stranded, a read always armed, kicks bounded; the refinement of `ConnLifecycle`; messages are served and lost connections removed |
| `outgoing` | 2 senders and a session handler, one message each, two of them with a sent handler | exactly once, in order, buffers alive, told once, told in the end; a sent handler is called at most once and not too early, and is called or in the table |
| `outgoing_urgent` | 2 senders, the second more urgent | **violation**: lost and duplicated message |
| `outgoing_mids` | 2 senders without identifiers | **violation**: the same identifier twice |
| `requests` | 1 request, 2 messages of the peer of any kind, pools of 1 and 2 threads | one outcome, never forgotten, settled in the end; all that arrives is processed by a pool of one |
| `requests_flag` | 1 message, 2 threads | **violation**: a whole message stays in the buffer |
| `lifecycle` | server and client; 2 threads and 1 communicator, 1 thread and 2; one reset | nothing destroyed in use, every session told or dropped with its connection, one accept, connect errors reported once by one thread, and by several not more often than they are; stop() and run() return, clients are served |
| `session` | 5 plans: a handler moved to a name and to "any", replies with sent handlers, sending from outside, all at once | no subscriber missed, no handler left over, everything delivered |
| `framing` | two messages: 4 special bytes in tails up to 2, some in an identifier, one in a name; headers of 127, 128, 255, 256 bytes; XML with line ends | in step with the stream, and the refinement of `MessageChannel` |
| `http` | 1 connection with no, one or two requests of every kind in any parts; 2 connections at once | requests whole and in order, answers in order, nobody forgotten, answered, ended |
| `terminal` | 2 clients and 2 threads; 1 client whose peer reads 2 characters with 2 threads | what a peer shows is part of what it was given, in order, nothing twice and nothing made up |
| `terminal_fan` | 1 client and 1 thread that processes it | **violation**: an open connection is not sent the message |

Type invariants are checked in `framing`, `http` and `terminal`. Those of
`Dispatcher`, `Outgoing`, `Requests`, `Lifecycle` and `ExtendedSession`, and
`ToldOnce` and `NoResurrection` of `Dispatcher`, are theorems (section 4) and not
repeated in a run; those of `framing`, `http` and `terminal` are theorems as well.

Bounds. Two threads are enough for one to hold a communicator while the other
walks, kicks or removes. A second communicator makes a walk take more than one and
give them back in any order; that instance, without the caller, was checked once
for the safety properties (1,041,640 states), and section 4 proves them for any
number of communicators. `MaxIn` lets a message arrive beside one that waits. A
caller beside two threads makes the kick count overrun the run count. In
`outgoing`, two equal priorities push concurrently, one of them with a sent handler
that may be registered at any time after the push, and a third, higher one with a
sent handler comes from inside the pass; one identifier is taken from the counter,
the others come with the messages. In `requests`, two messages in two pieces let a
reply come twice, after a wrong one, after a garbled one, and let a read end inside
either message. Two requests interact only in the order of the table (checked once
for the invariants, 2,868,758 states). In `lifecycle`, one communicator meets two
threads in every handler, two communicators make a list of two connect errors; one
reset leaves kicks over from the first life. In `session`, one thread outside and
one in the pass are all that share the tables; two messages let a handler outlive
the first. In `framing`, every escape stands at each end of a text and beside
another, the four header lengths are the edges of a signed and an unsigned byte,
and a second message shows that the first left nothing behind. In `http`, a second
request may come in the same read, or while the answer to the first is on its way,
or after the connection closed. In `terminal`, two clients are walked while a third
actor moves either, and two characters are enough to be reordered and for one to
arrive between copy and clear. The proofs of section 4 remove the bounds for
safety.

Fairness. A thread inside a handler keeps running (WF per thread). The io_service
is a FIFO of ready handlers, so each kind of ready handler gets its turn while
threads keep returning to it (SF on the kick, timer and read handlers). A read on
a closed socket completes (the operating system). Nothing is assumed of peers,
callers or future connections. Handlers throw only finitely often for one
communicator (SF on a pass that gets past the queues): each throw consumes a
message. In `Outgoing`: WF on the steps of send, of the pass and of the write
handler, SF on reaching the queue's front (the quantum is long enough for one
message) and on `_sent_mes_mutex` being granted. In `Requests`: WF on the steps of
the pass (the idle timer begins new ones), on the end of a read handler and on
time; SF on the first message of a quantum and on the handlers of writes and of
the failing read, which take turns with passes. In `Lifecycle`: WF per thread and
on the steps of stop() (its waits elapse), SF on the kick, timer and read
handlers; nothing makes a thread enter run() or anyone call stop(). In
`ExtendedSession`: WF on the pass, SF on the first message of a quantum. In
`HttpServer`: SF on handlers, on beginning a pass and on decoding, WF on the end of
a pass, nothing on peers and time. In `Framing`: WF on reading and on decoding.
`Terminal` has none: what it says is safety.

Four findings. `outgoing_urgent`: the pass copies the message in front, and pops in
a second step; a more urgent message that comes in between is popped unwritten, and
the copy is written twice, although send() is documented as thread safe.
`outgoing_mids`: `new_mid()` increments and then reads again. `requests_flag`: the
lost flag. A pass finds no whole message; before it clears the flag a read handler
on another thread appends the rest and sets the flag; the pass clears it. Later
passes skip the buffer until more data comes, and the timer does not help. With one
thread the two cannot interleave, which is what `ArrivedProcessedAlone` shows.
`terminal_fan`: `send_all()` walks the two collections of the container under one
lock each; a communicator that a pass gives back in between was in the excluded
collection during the first walk and is in the primary one during the second, so a
connection that is open all the time is not sent the message. One that is taken out
in between is sent it twice.

More of what the documentation promises is not kept. The modules contain these
behaviours, no run of its own shows them, and the properties say what is left.

* A late handler. "Handler to be called when the message is actually sent"
  (`dispatcher.hpp`, `send_one`, for any caller). A sender outside the pass
  registers its handler after the push; when the pass is faster the session is told
  before, the handler is never called and stays in the table. `HandlersAccounted`
  allows that, and only that: a handler that is not called is in the table, and one
  of a message sent from inside the pass is always called.
* Dropped sessions. stop() "also breakes all opened connections. After stop returns
  there are no connections should left", and the disconnected handler "is called in
  case of connection breaking". A client still listed when the wait for it is over,
  or accepted or connected after `disconnect_all()`, is dropped with its session
  untold; when stop() gives up, connections remain. `ToldOrDropped` says that nobody
  is half-way when stop() has finalized, and that nobody is told who is not
  removed.
* Text lost by a peer of the term sample, which always runs two threads: what its
  read handler appends between copy and clear is never shown. `NothingInvented`
  says that the rest keeps its order.
* Connect errors with several threads. The list has no lock: two threads may report
  the same error, and erase another one unreported, or touch the list at the same
  time (undefined). `ErrorsOnce` says how often at most, and exactly once for one
  thread.
* One accept after an error of accept, one accept while stop() runs, and service
  after all allowed kicks were lost in restarts are not promised by the code;
  `OneAccept` and `Served` exempt them.

Two behaviours that contradict nothing that is promised:

* A lost wakeup. Thread A processes a communicator and begins to give its clients
  back; a message arrives, its handler kicks; thread B runs the kick and finds
  nothing to take, because A has not given back yet; A gives back and does not
  look. With an idle timer the next tick repairs this, which is what
  `dispatcher` checks; with an infinite idle timeout (`IdleTimer = FALSE`)
  `WorkServed` fails.
* An early reply. A timeout is registered by the pass that finds the request among
  the sent messages. If the reply is in the buffer while the write handler waits
  for a thread, the pass takes the reply for an unknown one and throws it away; a
  later pass registers the timeout, and it elapses. `OneOutcome` still holds.

`outgoing` has one precondition: callers outside the pass send nothing more
urgent than what may be in front. It is the complement of `outgoing_urgent`, and
the hypothesis `Calm` of two theorems of section 4. `HandlersAccounted` is about
messages whose identifier is their own, since the table is keyed by it.

## 4. Proofs

Assumptions: `CommsAssumption` and `DispatcherAssumption` (identifiers are
naturals; finitely many threads and callers, disjoint), `OutgoingAssumption`,
`IncomingAssumption` (a message is not empty), `RequestsAssumption` (identifiers
are positive), `LifecycleAssumption`, `SessionAssumption`, `HttpAssumption`,
`FramingAssumption` and `TerminalAssumption` (plans are well formed; the threads of
`Lifecycle` are finitely many; XML messages hold no marker). What follows is checked
by tlapm, for every value of the constants.

* `DispatcherProofs`. `Typed` strengthens `TypeOK` by which program points have a
  communicator in hand. `OwnedInv` adds to `Ownership` that the communicator in
  hand is among those taken, and that one not yet connected is untouched
  (`Unborn`); without that, a thread could process one it does not hold.
  `ExclusiveProcessing` and `NoResurrection` follow from it, `ReadArmed` and
  `ToldOnce` are inductive relative to it. `KickInv` counts the actors between
  test and increment: kicks plus these actors stay below the run count plus the
  number of actors, which is what bounds the race. For the refinement, each action
  maps to `Enter`, `Acquire`, `Release`, `Remove`, `Farewell` or a stutter of every
  communicator's life cycle (`DispatcherImplementsLifecycle`).
* `OutgoingProofs`. `Typed` says that the queue is not empty where the pass is
  about to pop, and what each sender is sending. `BufInv`: internal identifiers
  are positions of `written`, never reused, so the buffers are those of the live
  writes (`BuffersAlive`). `SentInv`: a write that succeeded is in exactly one
  place, with its handler, in the sent list, or told, and in the last two at most
  once (`NotifiedOnce`). `SendInv`: a sender that has not pushed is the only one
  who knows its message; each is pushed once. On top of that:
  * `OrderInv`: what is written, with the queue behind it, is what was pushed, each
    once; equal priorities stand in the order of the pushes; the queue is sorted,
    and while the text of the front is fetched that message stays in front. This
    needs `Calm`: callers outside the pass send nothing more urgent than anything
    else (`outgoing_urgent` is what happens without). Senders may be any number,
    and the session's handlers, which run inside the pass, may be as urgent as they
    like. It gives `ExactlyOnce` and `PriorityFifo`.
* `HandlerInv`, the last of `OutgoingProofs`, has no hypothesis. A handler is in the
  table only for a message that was pushed, under that message's identifier; a
  message with a handler whose identifier is nobody else's has its handler in the
  table or called as soon as send() has returned (`Account`), never both, never
  twice, and called only after its session was told. That the identifier is nobody
  else's is a premise per message: others may share identifiers, because `new_mid()`
  lets them (`HandlersAccounted`).
* `RequestsProofs`. `TypeOK` includes that no more is decoded than was received;
  the lemma `WholeMessage` derives that what is handed over is a message of the
  peer. `PlaceInv`: a request is in exactly one of the queue, the writes, the sent
  list, the failed writes and the table of timeouts while it has no outcome, and
  in none of them when it has one. That is why neither a reply nor a timeout can
  come twice (`OneOutcome`), and why it is never forgotten (`Tracked`).

* `LifecycleProofs`. `Inv` is `Typed`, `Counted` and `Phases`: the run count is the
  number of threads that are not out, and what exists in each phase of stop().
  `ServiceAlive` follows: `Finalize` waits for a count that includes every thread
  that may still touch the io_service. `OneAcceptor` says where the accept of a
  server is, in every phase (`OneAccept`). `Tells` follows a communicator from
  erase() to its handler: one that is `removed` is in the hands of exactly one
  thread, and told when the handler is through; with `Halted`, what is left when
  stop() has finalized, it gives `ToldOrDropped`. `Shared` follows connect errors
  through any number of threads: what waits waits once, a thread that has copied an
  error finds it in front or erased by another, and reports and copies of one error
  together are not more than there are threads. `Reports` is exact for a crew of
  one, position by position. Together they give `ErrorsOnce`.
* `SessionProofs`. `KeptInv`: what is kept subscribed is in the table now, in the
  copy of "any", or called already, by program point; the order in which the two
  handlers are fetched is what makes it inductive (`NotMissed`). `SentInv`: the
  pass will not send again, and so not register a handler again for, what is queued,
  written or told, unless it came from a thread outside (`Settled`); what it has
  registered the sentinel takes away (`Unregistered`).
* `HttpProofs`. A connection whose timeout is not tracked is closed, failed, or has
  an answer between the queue and the sent handler (`NotForgotten`): that is why a
  session that stops tracking cannot leave its connection open for ever. `TypeOK`
  rests on texts being cut behind their first empty line. `TextInv`: what a session
  was given is a beginning of its requests, and buffer and wire make up the rest;
  the length the decoder has learned is that of the request whose turn it is. This
  gives `Intact`. `OrderInv`: each answer fits its request, and what was answered, is
  in the queue or is being written has one reply for each request given, up to the
  first that is refused (`InOrder`). Both need `Undivided`: in a plan whose
  requests may arrive in parts, only one connection talks. The decoder is one object
  for all connections, and without this it does mix requests (section 5). How long
  a text of several requests is, and where its first empty line stands, is proved by
  induction (a set of naturals that is not empty has a least element).
* `FramingProofs`. First what decoding does to what encoding has done, for texts,
  names and identifiers of any length. The code of byte `i` ends at `Ends(text, i)`;
  by induction over `i` the decoder takes exactly the inserted symbols for escapes
  (`EscapesFound`), so that `Unescape(Escape(text)) = text` (`EscapeInverts`), and no
  escaped text contains the end symbol (`NoEndInside`). Identifiers come back when
  they fit (`IdInverts`), binary messages come back whole, and are accepted exactly
  when their header is shorter than 128 bytes (`BinInverts`); with the same for XML,
  `DecodeInverts`. Then the stream: the first marker of a buffer, however it was cut,
  ends the first unread frame (`FirstEnds`, `FrameInFront`). `Inv` says that a function
  `u` exists, which gives for each message the frames from it on, and that the bytes
  in the buffer and on the wire are its value at `taken`; sending appends to all its
  values, decoding forgets one. It gives `TypeOK` and `Synchronised`, and with it
  every step is one of `MessageChannel` or none (`FramingImplementsChannel`).
  Induction is over the least element of a set of numbers, here as in `HttpProofs`,
  and recursive functions are shown to exist once (`Recursion`).
* `TerminalProofs`. `WayInv`, for any number of threads: what a peer has shown, what
  its pass holds, its buffer and its wire together can be embedded in what it was
  given, in order (`Embeds`), and between copy and clear the buffer begins with the
  copy. So a clear takes something out of the middle and the rest stays embedded
  (`NothingInvented`).

Not proved, only model-checked: liveness (out of the prover's reach), and with it
the fairness in `ImplementsChannel`. Every safety
property that a passing run checks is proved; `ExactlyOnce` and `PriorityFifo`
under `Calm`, `Intact` and `InOrder` under `Undivided`, outside of which they do not
hold.

## 5. Not modelled, and the plan

* echo sample: one request and one reply per connection over binary messages, whose
  parts `Requests`, `Framing` and `ExtendedSession` model; its chain of connections
  is the next thing to add.
* http sample: the client, files and MIME types; two requests in parts at once,
  which the shared decoder mixes; a request whose first line is malformed, which
  throws after it was cut off.
* What stop() returns. It asks `!started()` before it stops anything
  (`dispatcher.cpp:377`), so it returns false whenever there was something to stop,
  although its documentation says true when the threads completed in time.
* config: filled before anything runs, read only afterwards. Its timeouts, quanta
  and priorities are nondeterminism or constants here. (`mes_info()` keeps the
  defaults in a static local: the first configuration's values hold for all.)
* Requests without unique identifiers, which share identifier 0, and with it the
  table's entry and the session's handlers.
* End of file in a pass whose quantum leaves data in the buffer: the rest is not
  handed over, and nothing says that it should be.
* A write is one step: that the bytes of two outstanding writes of one socket may
  mix, when the operating system takes part of the first, is not modelled.
* SSL and fork support (not compiled by default), XML parsing and formatting (a
  library's), the configuration loader, documentation and build files.

The component list with reasons is in `PROJECT.json`.
