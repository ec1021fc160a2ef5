# airobot_msgd in TLA+

airobot_msgd is a message front end on boost::asio. HTTP clients connect to the front
server, their JSON requests are to be distributed to backend workers over TCP, and the
answers are to go back to the connection that is held open. This directory models the
server in TLA+, its threads, its connections and its parsers, and checks it with TLC. TLAPS
proves the safety properties of every part that is modelled as a state machine. Paths below
are relative to the repository (`source/`, `include/`).

## 1. Inventory

### Threads

| thread | runs | started in |
|---|---|---|
| front pool (2 x cores) | the `io_service` of `http_server`: `accept_handler`, the handlers of `front_conn` | `http_server::run` |
| backend thread (one) | the `io_service` of `backend_server`: accept, handlers of `backend_conn`, the 5 s check | `backend_server::run` |
| co_worker thread (one) | the timing wheel, and `timed_cancel_socket` for the timers of `client_ops` | `co_worker::run` |
| manage thread (one) | the removal of retired connections, statistics every 45 s | `manage_thread` |

### Components, their state and operations

**http_server** (`http_server.cpp/.hpp`). State: `front_conns_` (bimap of connection and
session id), `current_conns_cnt_` (atomic), `cached_conns_` (objects for reuse),
`timing_wheel_` (circular buffer of sets of weak pointers), `pending_to_remove_`.
`front_conns_mutex_` is to protect the first four, `conn_notify_mutex` the last.
Operations: `accept_handler`, `push_to_remove`, `push_backend`, `show_conns_info`, the
three session functions. Hard: the counter is tested outside the mutex; objects are
recycled while handlers of their earlier life may exist. Correct when the counter is the
size of the view, the limits hold, no object is served and cached at once, and no handler
of one client acts on the socket of the next.

**front_conn**, with **connection**, **http_parser** and **reply**. State: `stats_`, socket,
strand, the streambuf `request_`, body buffer `p_buffer_`/`r_size_`, write buffer
`p_write_`/`w_size_`/`w_pos_`. Operations: `start`, the handlers of head, body and write,
`notify_conn_error`, `conn_wash_white`, `conn_reset_network`. Hard: a body may come with
its head, after it, or with the next request; the handler of a finished write runs at any
later time; three other threads set `stats_` and the socket. Correct when requests are cut
out of the stream as they were sent and a client gets its replies and nothing else.

**manage_thread** (`manage.cpp`). Waits on `conn_notify`, takes both mutexes, erases what is
in `pending_to_remove_` from the view, washes it and puts it into the cache. Hard: a
connection is pushed by several threads; the notification has no predicate. Correct when
a pushed connection is retired, once.

**co_worker** (`co_worker.cpp`). `timing_wheel_check` copies the oldest bucket, inspects it
without a lock, shuts idle connections down, pushes them for removal and puts the rest
back as the newest bucket. `timed_cancel_socket` shuts a socket down through a plain
pointer when a timer expires. Correct when no served connection escapes the idle check.

**client_ops** (`client_ops.cpp`). Synchronous calls to another server, each with a timer on
the co_worker thread, and `sync_read_from`, which reads `length:payload` messages. Hard: a
callback queued when the call returns; a message in pieces, larger than the buffer.
Correct when a call ends, a call that was in time leaves no callback, and the payload is
in place whatever the pieces.

**backend_server, backend_conn**. State: `backend_conns_`, a vector with no lock, and per
object `stats_`, socket and one write buffer. Operations: accept, both handlers,
`on_check_timeout` (removes what failed), `require_backend_conn` (called from the front
pool), `fill_and_send`, `push_front`. Hard: the search runs on the vector while the
backend thread clears and refills it; two front threads fill the same write buffer.
Correct when working backends are neither lost nor left unread, a search finds a worker
if there is one, and every request is sent.

**Session routing.** `front_conns_` maps a connection to its session id; `read_handler` of a
backend parses the answer it has read into `p_buffer_`, and `push_front` looks the session up and
writes to its connection. Nothing calls `set_session_id`: every id is the 0 that `accept_handler`
puts there, and `request_connection` finds nobody. Hard: the buffer is never cleared and is read
as a C string; the connection is used after the mutex is released. Correct when nothing but white
space is ever added to an answer on its way, and when nobody but the client that was looked up
gets it.

**json11** and **http_parser**: pure, but for the `errno` of the thread and the options that
stay in the parser from one request to the next. Hard: a token given back at the end of the
text, surrogate pairs, 64 bit numbers, a uri of slashes. Correct when they accept their
grammar, give its meaning, and `dump` gives a text that parses back.

**main**: builds the three servers, sets the limits, starts four threads. Hard: nothing
orders the start of the wheel's timer after the filling of the wheel. Correct when the limits are
set before anything uses them, so that the filling has at least the length of an interval.

**logging and backtrace**: not modelled (section 8).

### How they interact

`accept_handler` -> view, cache, wheel -> `front_conn::start`. Error handlers and the wheel
-> `push_to_remove` and `notify_one` -> `manage_thread` -> cache -> `accept_handler`. The
/bb branch of `read_body_handler` -> `client_ops` -> timers on co_worker. `push_backend` ->
search -> `fill_and_send` on a `backend_conn`, whose handlers run on the backend thread.

The hazards this gives rise to are listed, each at its line and with the properties aimed
at it, in `PROJECT.json`.

## 2. Modules

| module | models |
|---|---|
| `ConnPool` | the front connection pool: acceptor, handlers, manage_thread, timing wheel, life of the objects |
| `MCConnPool` | symmetry sets and the constraint of one run |
| `ConnPoolProofs` | proofs: types; the counter, the containers, recycling, the idle check; the refinement of `Admission`; sockets and states of the objects |
| `Admission` | abstract: clients admitted and retired, no threads |
| `TimingWheel` | the wheel in seconds, and the start-up of main |
| `BackendPool` | backend_server, backend_conn, push_backend |
| `Routing` | the session ids, and the way of a backend's answer to a client |
| `BackendPoolProofs`, `RoutingProofs`, `TimingWheelProofs` | proofs about these three |
| `FrontConn`, `FrontConnProofs` | one life of a front_conn: framing, handlers, write buffer; proofs, and the refinement of `Answers` |
| `Answers` | abstract: requests and the replies they are due, no stream, buffers or handlers |
| `ClientOps` | the timed calls as the /bb branch makes them, and their timers |
| `ReadFrom` | `sync_read_from` |
| `ClientCall`, `ClientCallProofs` | `ClientOps` and `ReadFrom` composed: `sync_timed_read_from`; proofs |
| `JsonNumbers`, `Json11`, `HttpParser` | the parsers; `JsonNumbers` is `parse_number` and what it calls |
| `ParserProofs` | proofs about `HttpParser` and `JsonNumbers` |
| `Induction` | induction along numbers and recursive functions, for the other proof modules |
| `Texts`, `MCTexts` | the parsers on all short texts, against reference definitions |

The modules divide the system along what threads share. `FrontConn` relies on `ConnPool`
for one thing: that a life of an object begins with no handler of an earlier life left
(`NoStaleHandler`). `ConnPool` abstracts what `FrontConn` details: which operations a
handler starts. `ClientOps` is the inside of one step of `FrontConn` (`process`, the /bb
case), and `ReadFrom` is the inside of a timed read: `ClientCall` composes the two. `TimingWheel`
and `Routing` take from `ConnPool` that containers change one object at a time, which is what
`Admission` says and `ImplementsAdmission` checks. `Routing` uses of json11 that a text is one
value or an error, which `Texts` checks.

### ConnPool

State: the five containers with the names of the code, `stats_` and `p_sock_` per object,
`op` (asynchronous operations in flight and the handlers they end in, with the object each
holds), and a program counter with locals for the acceptor, manage_thread and the wheel.
A step ends where another thread can get in: at a lock or unlock, and between two
unprotected accesses to the same object. `use_count` is computed from who holds the object.
An allocation takes any object nobody refers to. A failed assert, an uncaught exception
and a null dereference set `aborted`, after which nothing happens; the builds of the
repository do not define NDEBUG. Time is a free choice of the idle test, because any
thread may be delayed for any time between a touch and a look.

Actions and code: `Accept*` is `accept_handler`, cut at the test of the counter, the
critical section, `set_stats` in `start`, and the first read; `ReadOk` to `HandlerError` are
the three handlers reduced to what they start and how they end, `NotifyConnError*` the three
steps of `notify_conn_error`; `Manage*` is `manage_thread`; `Wheel*` is
`timing_wheel_check`, where the search of the cache without the mutex may miss an object
while manage_thread holds it.

### BackendPool

The vector is read in single looks (`Modulo`, `LookFirst`, `NextIndex`, `Look`, `Copy`) by
callers that run next to the backend thread. `disturbed` records that the vector was
modified since the call began; from then on a look may crash (`VectorRace`), a division
may be by zero, and a look behind the new end meets a destroyed object (`StaleLook`).
Handlers bind a plain `this`, so objects may be gone when they run (`HandlerAfterFree`: a
crash, or nothing). A message is the name of the caller that sends it.

### FrontConn

The stream is a sequence of tokens: a head is one token, a unit of a body or of a reply is
one. Handlers run in the strand and are one step each; the network moves tokens between
them, a read gets any number of them. A reply is its length; `out` is what the client got
and `due` what the replies add up to. `fill_for_http` overwrites the buffer in place, as
the code does, and replaces it when it is too small, which frees it under writes in flight
(`freed`). A request whose Content-Length `atoi` does not keep ("misread": negative, or larger than
an int) ends the model when its head is handled (`HeadMisread`).

### Answers and the refinement

`Answers` has the kinds of the requests so far, the units of the replies they are due, and
whether the connection goes on. `FrontConn!Promise` maps the client's requests to their kinds and
`due` to itself; a connection is open as long as it has a read operation or a handler of one.
`ImplementsAnswers` is `Promise!Spec`: the handlers, however the stream is cut and however far the
client sends ahead, do no more than reply to the next request, and reply to none after one they
refused.

### ClientOps, ReadFrom, ClientCall

A timer wait is armed, queued with success, or cancelled; `timer.cancel()` and the
destructor cancel only what is not queued yet. The socket and the timer live in the frame
of the handler, so that a late callback meets nothing, freed memory, or the socket of a
later call. In `ReadFrom` the length and the colon are one token each. `ClientCall` runs the
steps of `ReadFrom` inside a call (`Inside`), with the callback of the call's timer between or
during any two of them; `sync_read_from` has no caller in the repository but its timed form.

### Admission and the refinement

`Admission` has two sets, the objects that serve and the spare ones, and one object moves per
step. `ConnPool!Abstract` maps the view to `served`, and the cache with the object that
manage_thread is washing to `spare`; the acceptor that stopped and the process that ended are
part of the abstract state. `ImplementsAdmission` is `Abstract!Spec`.

### TimingWheel

Seconds are counted relative to now: the age of `touch_time_` per object, and the time left
on the timer. A check of the wheel is one step here, and may be `Delay` late. The threads start in
any order and `http_server::run` may take any time; `waited` counts the seconds for which the timer
has run without it, and a check that meets the empty wheel ends the model (`CheckEmpty`). An object
may be in several buckets: it is put in at every accept and again by `manage_thread`.

### Routing

A text is cells: "open" with the session id, a body, "close", white space, NUL. An answer has any
white space before and behind it, and a NUL at its end or none. `is_json` accepts one value with
white space around it, as `Json::parse` does. The kernel cuts and joins what a backend sends in
any way. `aligned` remembers whether so far every read brought one answer. The front side
(accept, retirement, `set_session_id`) runs beside the backend thread, which holds a pointer from
`request_connection` to the end of `push_front`.

### JsonNumbers, Json11, HttpParser, Texts

`Json11` translates the parser on sequences of bytes; the position, `failed` and `errno` go
through its functions in a record. Integers have `Width` bits, a double `Precision` bits, so
that all boundaries are within reach of short texts; the digit limits are computed from the
width as in the code. Numbers are a module of their own, `JsonNumbers`, without recursive
operators, so that it can be reasoned about. The four hex digits of an escape are one
element. `HttpParser` works on lines, sorted by what the colon test and the regular
expression make of them; the names of options, their case and the order of the map are
constants, since `request_option` compares without case and takes the first in that order.
`Texts` lets a text grow chunk by chunk in three modes and states what it should mean: a
grammar as sets of meanings, UTF-8 by table, exact integers.

## 3. Runs

| run | question | bounds |
|---|---|---|
| `pool_recycle` | Can a handler, a state or a socket of an earlier life survive into the next? Can the wheel lose a connection, or the limit be passed? | 2 objects, 2 operations, limit 1, cache 1, 2 buckets |
| `pool_two` | The counter, the cache limit and the rest of the inductive invariant of the proofs, the refinement of `Admission` | 2 objects, 1 operation, limit 2, cache 1, 2 buckets |
| `pool_live` | Do the wheel, the removal round and the handlers always get their mutexes and end? | 1 object, 1 operation |
| `pool_lost_notify` | (violated) is a pushed connection removed? | as `pool_live` |
| `backend` | Are working backends listed and read, failed ones removed? Whose handlers outlive their object? Is the search complete, and does it end? | 2 backends, 1 caller, site ids 0 and 3 |
| `backend_overwritten` | (violated) does a write send the message it was started for? | 1 backend, 2 callers |
| `conn_stream` | Framing, bodies, replies, answers, the refinement of `Answers` | 2 requests, 0 to 2 body units, replies of 1 to 3 units, 3 writes at once |
| `conn_write_position` | (violated) does `w_pos_` keep the position already written? | 2 requests, client waits |
| `client` | Do calls end, are the timers of calls in time dead, is there room for every read, can a cut message pass for a whole one? | 3 timers, 2 messages of 0, 1 or 3 bytes, buffer 3 |
| `routing` | Is an answer forwarded whole, with what behind it, and only to the client looked up? | 2 objects, 2 clients, 1 session id besides 0 and -1, 2 answers of 2 or 3 cells, a cell of white space before and behind each or none, buffer 6 |
| `wheel` | How long is a silent client kept? How long must the wheel stay empty for its first check to meet it so? | 2 objects, 3 buckets, 8 s, checks 1 s late |
| `texts` | Do the parsers accept their grammar and give its meaning? | JSON: 5 chunks of structure, 4 of a string, 5 of numbers; width 4, precision 3, depth 1; HTTP: 4 lines of 9 |

Why the bounds are enough for the interesting cases. Two operations overlap a read and a
write of one connection, whose object goes through any number of lives, since nothing counts
them; a second object is there to be served over the limit of 1. Two objects with a limit of 2
and a cache for 1 bring every container to its limit and let one object be served while
another is retired, cached or recycled; two buckets are the least for which "inspected" and
"filled" differ. The states of `pool_two` after the end of the process or of the acceptor are
checked, not extended. Two backends give a search that starts at either, wraps and comes
back; site id 3 makes the modulo differ from the id. Replies of 1, 2 and 3 units are shorter
than, as long as and longer than each other, and the longest outgrows the buffer of 3 with
its final '\0'. The messages of `client` are shorter than, as long as and longer than what is
left of the buffer after the head is erased, and are cut in all ways. The answers of `routing`
differ in length and in white space, so that the tail of an earlier one behind a later one is part
of its value, white space only, or both, the buffer is both filled and left with its zeros, and its
objects suffice to be recycled while push_front holds one. In `wheel` 8 seconds in 3 buckets
leave a rest in the division, as other settings than 20 and 10 would. Width 4 puts -8 to 15
inside and two and three digit numbers outside, so that both the digit limit and the range
test decide; depth 1 makes 5 chunks enough to pass it. The lines of `texts` name a length in two
spellings, and the uri as the parser does and in capitals, which come before and after it in the
order of the map; four lines are a head with its empty line and one more.

The theorems of section 5 make the safety runs of `ConnPool`, `BackendPool`, `Routing`,
`TimingWheel`, `ClientCall`, `FrontConn`, the options of `HttpParser` and the integers of json11
independent of these bounds; the runs still show that the invariants are not vacuous: every one
has a mutant of the code that breaks it. For liveness and for the rest of json11 the bounds are
all there is.

### Fairness

Only threads are fair, never clients, peers or the reactor. Threads of the front pool,
manage_thread and co_worker are ordinary threads of a preemptive scheduler: a step that
can be taken is taken. Steps that need a mutex get strong fairness, since manage_thread
lets go of both mutexes for the length of its wait in every turn and can keep no waiting
thread out for ever. The removal round of backend_server has strong fairness: it is a timer
on an `io_service` that gets to it between two handlers. `conn_stream` also assumes that the
network moves what was sent, and `client` that time passes and that the kernel gives up a
connect that is not answered. No answer of the other server is assumed. `wheel` needs no
fairness: that a check is at most `Delay` late is in the clock, and so is a bound, not a wish.

## 4. What the runs show

The pool keeps its books: in spite of the test outside the mutex the counter is exact and
the limit holds, because only the acceptor raises it and there is one acceptor. No object
is served and cached at once, and seen from outside the threads do no more than `Admission`
says. The idle check loses nobody. A served connection has its socket, a pending object
is cached or on its way, and what the cache alone holds is clean. What keeps a handler of an
earlier client from a new client's socket is the assert on `use_count`: the process ends
instead.

Working backends stay listed and read; the search is complete when it is left alone; a
handler that outlives its object is always one of a connection that had failed.

A silent client is kept for at most (E - s - 1) + n (s + d) seconds, E being
`conn_expired_time_`, n the buckets, s = E / n rounded down, and d how late checks are. With
the settings of main (20, 10) and checks in time this is 37 seconds, not 20: a look finds it
just young enough, and the next one is a turn of the wheel away. Nothing makes the
first check wait for the wheel to be filled; what the code gives is a margin. The settings are made
before the threads, so the timer is armed with the interval they give, and only a front thread that
takes longer than that (2 seconds) to fill the wheel is overtaken by the first check.

A cut message never comes without an error code from `sync_read_from`. An answer of a backend
that the kernel hands over in one piece is forwarded as sent, with at most white space behind it,
or not at all. One that comes with its NUL is forwarded exactly. When it is shorter than an
earlier one and comes without NUL, the old tail stands behind it. If there is more than white
space in that tail the text is invalid and is dropped; if there is not, as when answers end in a
newline, the text is valid and is forwarded with the stale white space, which changes no value in
it. When reads cut or join answers, pieces of two of them can make up a valid text. The answer
never reaches another client than the one looked up, because the assert on `use_count` ends the
process first.

json11 accepts JSON up to its depth, of two equal keys keeps the later one, and reads back
what it dumps. 64 bit integers are exact, until a number out of range has come by on the
same thread: `errno` stays ERANGE (`json11.cpp:620, 629`) and from then on every integer is
rounded to a double, so that ids above 2^53 may change. The options of a request are its own,
not those of an earlier request of the connection; of two spellings the first in the order of the
map counts, so that a client that names an option REQUEST_URI_ decides the uri itself. A uri of
slashes only becomes empty (the read in front of the empty string meets a 0 byte in
the string layouts of libstdc++).

A client that waits for each reply gets its replies, until a reply is longer than the one
before (next section). With a client that sends ahead replies overwrite each other in the
one buffer; requests are still cut correctly, and each is still replied to once and in order.

### Disagreements between code and text

1. `pool_lost_notify`. A notification sent while manage_thread is not in its wait is lost,
   and the timeout branch does not look at the set. The connection has left the wheel, so
   nothing pushes it again: it stays until some other connection fails.
2. `backend_overwritten`. The one write buffer of a backend connection is overwritten by the
   next request while it is being sent: one request is sent twice, one never.
3. `conn_write_position`. `write_handler` adds the length of the finished write to the
   position in the next reply: its tail is sent before its beginning, and twice.

### Other ends the model reaches

These are outcomes of actions, not of a run of their own: the assert on `use_count` in
`accept_handler` (`http_server.cpp:116`; manage_thread finds an object in use, logs it, and
washes and caches it all the same, against its comment at `manage.cpp:154`); the asserts of
`request_connection` on the session id -1 and on two holders of one id (`http_server.cpp:165,
175`); the assert of the idle check that a pending object is cached (`not_cached`,
`co_worker.cpp:73`; an object is pending between the wash and the push_back, and before
`start`); the assert of `conn_wash_white` (`wash_working`, `front_conn.cpp:378`; `start` sets
`conn_working` after the wheel has pushed the connection); the assert `additional_size <= len`
(`front_conn.cpp:146`; a second request in the same read); a null socket between the test of
`stats_` and its use; a division by zero in the search (`backend_server.cpp:94,101`); a handler
of a destroyed backend_conn; an uncaught exception of `remote_endpoint` or `write_some`; an
acceptor that stops after one failed accept; the first check of the wheel before
`http_server::run` has filled it, which indexes an empty buffer (`co_worker.cpp:65`); and a
Content-Length that `atoi` does not keep (`front_conn.cpp:143`): of -1 the program makes the
largest `size_t`, to which it adds 1, skips the resize at line 148 and reads the body on behind
`p_buffer_`; other negative numbers it resizes to a size that is too small or cannot be
allocated, and of a number above INT_MAX it keeps what the C library makes of it.
`FramesAligned` and `BodyIntact` say nothing of such a request. `sync_read_from` returns the
bytes so far after a failed later read, where the comment above it promises 0
(`client_ops.cpp:34`), together with an error code. A text that fills `p_buffer_` is read on
behind its end (`backend_conn.cpp:32`). `Json::parse` gives an empty string, not null, for a
string that is the whole text and does not end.

## 5. Proofs

Seven modules hold theorems about the specification of a component, for every value of its
constants that satisfies the named assumption of the module; `Induction` is the eighth. These
assumptions say that sets are finite where the program counts them, that numbers are numbers, and
what main sets up: a wheel of at least two buckets, an expiry time longer than the wheel
(`WheelAssumption`), a read buffer of at least two bytes (`ReadFromAssumption`), replies that are
not empty (`FrontConnAssumption`); that any finite set of names has a first one in the order of
the map, in which the three names the server asks for are not spellings of each other
(`HttpAssumption`); and that integers have at least two bits (`NumberAssumption`). No other fact
is assumed.

Every proof has the same shape: an inductive invariant that is stronger than what the runs
check, one step per action and under it one per conjunct that the action can disturb, frame
lemmas for the rest. Every inductive invariant was checked with TLC before it was proved.

### ConnPool (`ConnPoolProofs`)

`TypeCorrect` also says that a thread at a point where it works on an object has one.
`PoolSafe` is `[]PoolInv`; the corollaries `CounterSafe`, `OwnerSafe`, `RecycleSafe` and `WatchSafe`
name its parts. `PoolInv` adds to what the runs check three facts about what threads know
between two steps:

- `AdmittedFits`: between its test and its insertion the acceptor still has room. Without
  it `ServeLimit` fails at the insertion.
- `RoundProgress`: while manage_thread holds the mutexes the items still to do are in
  `pending_to_remove_`, and those passed are out of the view. Without it, the clearing of
  the set at the end could drop a served connection and break `StillWatched`.
- `RoomKept`: the room in the cache found before the wash is there at the `push_back`.

`NoStaleHandler` rests on lemmas on `use_count`: a cached object with one reference is held by
no operation. `StillWatched` rests on another: the object of an expired weak pointer is in no
container.

`PoolImplementsAdmission` proves the refinement: initial states map to initial states, and every
step of every thread is a step of `Admission` or a stutter. It takes `TypeOK` and `PoolInv`, the
latter for the admission below the limit, for the object that is retired, which must not be
spare already, and for the one that is kept, for which there must be room.

`ObjectSafe` adds `ObjectInv`, with the corollaries `SocketSafe`, `PendingSafe` and `CleanSafe`.
`RecycledClean` is far from inductive, since `start` may set an object working after manage_thread
has washed and cached it. `SpareWorking` says why that passes: the accept handler has not
returned, or an operation is about to be started, which will find the socket missing;
`SpareClosed` is why it will, and `StartedExplained` covers the time between `start` and its read.

### BackendPool (`BackendPoolProofs`)

`BackendSafe` is `[]BackendInv`; corollaries `BackendTypeCorrect`, `WorkingSafe` (`WorkingListed`),
`ListeningSafe`, `DanglingSafe` and `SearchSafe`. About the lists (`ListInv`): the vector and the
`new_store` of `on_check_timeout` are never both in use, a connection between `push_back` and
`start` is listed and untouched, a working one is listed and open, and what a caller has a pointer
to is listed or has failed, which is why only handlers of failed connections dangle. About the
search (`SearchInv`): a call that nobody disturbed has looked at every index between its start
and where it is, around the end of the vector. The loop of `on_check_timeout` is the
function `pushed_back`; that it keeps the working ones, once each, is proved by induction on its
length.

### Routing (`RoutingProofs`)

`RoutingSafe` is `[]RoutingInv`; corollaries `RoutingTypeCorrect`, `ForwardSafe`, `HolderSafe`.
For `ForwardedWhole` the invariant says that `p_buffer_` begins with what was read last, whatever
is behind it. If every read brought one answer, the text parsed is that answer alone, when it
came with its NUL, or it begins with the whole answer (`ParsedIsRead`); and a JSON text that
begins with a whole JSON text goes on with white space only (`OnlySpaceBehind`). For
`AnswerToHolder` it says that while `push_front` has a pointer its object is still that of the
client that was asked for: the object is not reused while it is held.

### TimingWheel (`TimingWheelProofs`)

`TimeSafe` is `[]TimeInv`; corollaries `IdleSafe` and `MarginSafe`. `IdleBound` alone says nothing of
where a connection is. `WheelInv` does: every served client is in some bucket i and has been
silent for at most `IdleOf(i)`, a look that found it just young enough, one turn per place
that i is from the back, and the time since the last check. The bound is so a result for every
expiry time, size of the wheel and delay. For `StartMargin` the invariant says that until the wheel
is filled `waited` and the time left on the timer add up to the interval (`StartInv`).

### ClientCall (`ClientCallProofs`)

`CallSafe` is `[]CallInv`, for the specification `FairSpec` that the run checks; corollaries
`CallTypeCorrect`, `InTimeSafe`, `PayloadSafe` and `WholeSafe`. The invariant follows the bytes:
`read_buff` and what is still to come are at every step the two sides of one cut through what the
other side sent (`HeadCut`, `LoopCut`), before and after the head is erased and the buffer enlarged.
`QueuedIsDue` (a callback is posted after its deadline only) gives `InTimeIsOver`.

### FrontConn (`FrontConnProofs`)

`ConnSafe` is `[]ConnInv`; corollaries `ConnTypeCorrect`, `FramesSafe`, `BodySafe`, `RepliesSafe`.

- `ReadInv` places the connection in the stream of its client: what is unread is a piece of
  that stream up to its end (`Unread`) and begins with the token the handler waits for
  (`Begins`). `FramesAligned` and `BodyIntact` follow, for a client that sends ahead as well.
- `DueInv`: replies go to requests in order, and the request being read has none yet.
- `PoliteInv`, for `RepliesIntact`: with a client that waits and replies that do not grow, one write
  at most is unfinished, it sends the last reply from its beginning and has sent of it what
  the client has (`WriteIsLast`); the handlers that are late belong to writes at least as long as
  the last reply (`HandlersLate`). This is what keeps `w_pos_` at 0, and it is exactly what
  fails when a reply grows, as `conn_write_position` shows.
- `BufInv`: a write stays in its buffer.

`ConnImplementsAnswers` is the refinement. It needs one invariant more, `AnsweredInv`: at a head all
requests parsed so far have their reply, at a body all but the last one, which is of a kind that
is served. The step that counts is `process`: the request at hand is the next one without a reply,
and the connection goes on after it only if it is served.

### HttpParser and JsonNumbers (`ParserProofs`)

`OptionsSafe` is `HttpSpec => []OptionsOfThisRequest`, for every number of lines, set of names and
number of requests. `HttpInv` says that after a successful parse the map is exactly what the lines
of the head give (`Stored`): a name is there if and only if a line gives it a value, and it has the
value of the first line that does. Nothing else can be said in advance of the map, since names and
values are the client's. The loop over the lines is the recursive function `inserted`; that it
is defined, and what it has stored after i lines, are lemmas by induction on i (`InsertedDefined`,
`HeadStored`).

The two theorems about integers say what `parse_number` does on a token that is an integer, for
every `Width`, 64 as in the program, and every `Precision`. `IntegersKept`: with `errno` clear,
whatever an `int64_` or a `uint64_` can hold comes out as it is. `IntegersRounded`: with `errno`
set by an earlier number, or out of range, it comes out as a double and never as another integer,
and unchanged if it fits the significand; so the sticky `errno` of section 4 does no harm to ids
below 2^53. What could go wrong is the limit on the length, computed with logarithms: a number in
range that is one digit too long for it would be rounded. `InRangeFits` is that there is none: n
digits without a leading 0 make at least 10^(n-1) (`NumberIsLong`), and 2^bits is no power of ten,
since 5 does not divide it (`PowersGrow`, `DigitsEnough`). The model takes the logarithm as exact;
for 63 and 64 bits, 18.96 and 19.27, that of the program is exact enough.

### What is only model-checked

- Liveness: `FailedIsRemoved`, `SearchEnds`, `CallEnds`, `WheelTurns`, `NotifiedDrains`,
  `HandlerReturns` and `AaAnswered`. Fairness and ENABLED are beyond the prover.
- json11: `ParsesGrammar`, `StringDecoded`, `DumpParsesBack`, and of `NumbersExact` what is not about a
  single integer: fractions, exponents and several numbers in one text. `Json11` is written with
  recursive operators, on which the prover's SMT backend gives up.
- The three properties of section 4 that the code violates.

Induction over data is proved where a proof needs it, by the least number for which the claim
fails (`LeastMember` in `Induction`: for the loops of `on_check_timeout` and `parse_request`, the
first NUL of a buffer, powers and the value of digits), not by the induction theorems of the
library, which take an operator as a parameter. To be reasoned about, these loops are recursive
functions, and `ForwardedWhole` and `RepliesIntact` are stated without folds (`WithoutNul`, `Grown`).

## 6. Assumptions of the model

- The accesses to `stats_` and to the vector of the cache are single reads and writes; torn
  values are not modelled.
- `shared_ptr` copies inside one step are not counted.
- The strand serialises the handlers of one life, as boost documents.
- A `std::vector` modified under a reader gives the value, a crash, or, behind the new end,
  a destroyed element; not every value memory could hold.
- Short writes of `async_write_some` on a backend connection are not modelled.
- A Content-Length is a number that an int keeps, 0 or more, or the model ends (`HeadMisread`).

## 7. Plan

Modelled and checked: all components of section 1 as far as section 8 does not take them
out. Proved: every safety property of the six state machines, the options of `http_parser`, the
integers of json11, and both refinements. Left, in this order:

1. Action properties that only runs or mutants speak for today, from the invariants already proved:
   no write to a socket of a later client (`Routing`, `ConnPool`), buckets that lose objects only in
   a check (`TimingWheel`).
2. `ReadFrom` for more than two messages in the stream: `HeadCut` and `LoopCut` do not depend on
   the second one.

Liveness, the rest of json11 and the three refuted properties stay with TLC.

## 8. Not modelled

- json11: comments in texts, `parse_multi`, `has_shape` and comparisons, which the program does
  not use, and the texts of dumped numbers, which the C library makes.
- main: options and signal disposition; `general.hpp`.
- `set_max_serve_conns_cnt`: runs once before the threads; the limit is a constant.
- Writes of `push_front` into a reply buffer in use: `FrontConn` has the races on that buffer.
- Logging, backtraces, the texts of statistics, heads and replies: no property is about them.
- `connection::set_tcp_nodelay` and `set_tcp_keepalive`: socket options without state here.
- `signal_handler` of co_worker: logs SIGTERM and listens again.
- `backend_server::show_conns_info`: a walk over the vector that changes nothing; it races
  like the search does.
