# fcgiserver in TLA+

A verification project for the C++ library *fcgiserver*: models of its threads,
its shared state, one request, its router, its symbol table, its parsers and its
formatter; TLC runs that check them on small instances; and TLAPS proofs for
every size of most of them.
Source paths below are relative to the repository (`src/lib/server.cpp` and so
on); `PROJECT.json` gives the lines behind every definition.

## 1. Inventory

| Component | State | Operations | Who meets whom |
| --- | --- | --- | --- |
| `Server`, threads (`server.cpp`) | `threads`, `last_thread_id`, `threads_lock`, `socket_fd`, the thread_local flags `shutdown_triggered`, `tick_triggered`, the process's signal dispositions, libfcgi's shutdown flag | `initialize`, `add_threads`, `kill_threads`, `finalize`, the worker loop, the ticker loop, `sigusr1`, `sigusr2` | the application thread signals and joins all threads; the ticker signals workers; all share `threads_lock`; clients meet workers through the socket |
| `Server`, contexts (`server.cpp`, `request_context.cpp`) | `router`, `global_context`, `create_thread_context` under `context_lock`; each worker's `RequestContextPrivate` | `set_router`, `set_global_context`, `set_thread_context`, the snapshot before a request, `replace_*_context` in a handler, the publication after it | application and workers |
| `Request`, `RequestStream` | `headers`, `headers_sent`, `encoding`, the once_flag, lazily parsed environment, query and route | setters, `send_headers`, `write`, `write_stream`, readers, destructor | handler, then `thread_function`, then the destructor, all on one thread |
| `Router` | a tree of `SubRoute` under `route_mutex` | `add_route` (two), `remove_route`, `handle_request` | workers nest through sub-routers and swap the request's relative route; the application changes trees meanwhile |
| `SymbolServer`, `Symbol` | `m_strings`, `m_index` under `m_mutex`, one for the process | `internalize`, `check_internalization`, `resolve` | every thread |
| `GenericFormatter`, `LineFormatter`, `utils` | the format; during a call a buffer of 128 bytes and a UTF-8 decoder | `operator<<` of bytes, code points, characters and numbers, `printf`, conversions | streams of a request write through it to the channel, streams of a log to a string |
| `Logger`, `LogStream`, callbacks | one callback | `log`, `logf`, `~LogStream`, `log_request` | every thread |
| `FastCgiData` | a pointer to the `FCGX_Request` | pass-through to libfcgi | worker |

What is hard here: signals that arrive at any instruction of any thread; a
shutdown that has to stop threads that may be starting, sleeping, serving or in
`accept`; a thread list that one thread walks by index and another changes;
state that a worker copies under a lock and uses after it; two locks taken one
after the other with a recheck in between; tree walks that keep a lock while
foreign code runs; a response that a handler, the server and a destructor
complete between them; and text that is cut by buffers, separators and the ends
of sequences at every offset. `PROJECT.json` lists each hazard at its line, with the
properties that cover it or the reason why none does.

What makes each component correct:

* **Threads** — stopping returns and kills nobody but the threads; no thread is
  left behind; the socket outlives the workers; ticks reach every worker, none
  is lost, and the ticker never signals itself.
* **Contexts** — router and global context a request starts with belong
  together and are current; nothing stale is written back.
* **Request** — exactly one block of headers, then the body; what is logged is
  what was sent; every request is answered, with the status of its result.
* **Router** — which callback a request reaches, which relative route it sees,
  and that nothing in use is removed.
* **Text** — a page shows what a client has sent and a log what a thread has
  written, wherever the text is cut; content never becomes markup; no buffer
  is overrun.
* **Symbols** — equality of symbols is equality of strings; the locked table
  behaves as an atomic one.

## 2. Plan

In the order of importance:

1. `ServerThreads`: threads, signals, socket. *Done; proved.*
2. `SymbolServer` with the abstract `Interner` it implements. *Done; proved.*
3. `Request` and `ServerContext`. *Done; proved.*
4. `Router`, with `Reference`, which says what dispatch is to do. *Done;
   proved.*
5. `WorkerPool`, what the threads promise together, and the proof that
   `ServerThreads` implements it. *Done; proved.*
6. `Utf8` and `Formatter`: escaping, conversion in both directions, `printf` at
   the limit of its buffer. *Done; the buffer, the escaping, the conversion of
   one code point and that a text is the same with and without a buffer are
   proved.*
7. `RequestInput`, `Streams`, `Reader`: the parsers of a request, the page of
   the example program and the log, from the client that encodes a form to the
   reader of the page. *Done; proved, the whole way of a message into the log and
   of a form onto the page included.*
8. A handler that changes routers (it waits for itself, or for another that
   does the same). *Left*: locking a `shared_mutex` one already holds is
   undefined, and no promise of the code covers it.
9. A composition of `ServerContext` with the life of the workers in
   `ServerThreads`. *Left*: the two share no lock and no variable but the
   workers' locations, which `ServerContext` now has from start to end.

## 3. The modules

**`ServerThreads`** — one step is the code between two points where another
thread, a signal or the network can be noticed, so each worker has the
locations of `thread_function` (`init`, `while`, `tick`, `ticking`, `accept`,
`accepting`, `serving`), the ticker those of `thread_tick_function`. A signal
sent with `pthread_kill` is put in `pending` of its thread; `Deliver` takes it
at any later moment. Signal dispositions belong to the process and are
installed by the first thread that starts (`InstallHandlers`), before which a
signal ends the process. The application calls any public operation whenever it
is not inside another; it runs `initialize` again only after `finalize`, since
a second call would overwrite an open descriptor. The program runs in one of two
modes, chosen at the start: `inherited` says that a web server has passed a
listening socket as descriptor 0 (`FCGX_IsCGI` is false). Then `initialize` takes
it as it is, `socket_fd` stays 0, clients can connect before `initialize` is
called, and `finalize` closes nothing. Otherwise `initialize` opens a socket, or
fails to. A worker accepts only when libfcgi was initialised and its
`listen_sock` is a socket (`Usable`), and ends when that is not so. The lock
`threads_lock` has an owner where it is held across steps; `add_threads`, which
only creates threads under it, is one step. Time is abstracted to the possibility that a sleep ends.
`owed` is a history variable: a SIGUSR2 has been delivered and no `tick()` has
begun since. `StopPolicy` says what is assumed of the application: "any" is any
call at any moment; "settled" is the order of `main.cpp` (threads after
an `initialize` that was successful, a stop when the threads have been running
for a while).

**`WorkerPool`** — the promise behind all of that, in which there are no
signals, flags, locks or list: threads live and end, connections wait, are taken
by one worker and served; a stop returns only when no thread is left and nobody
is started meanwhile; the socket is closed only when no thread is left.
`ServerThreads` maps to it: `life` from the locations, `serving` from the
workers at `serving`, `stopping` from the application's location between the
first signal and the last join, `open` from `Listening` (a pool may be handed a
socket that is open already). That no worker takes a connection from a closed
socket, and that `AddThreads` never starts a thread that is running, is where
the detailed model has to do something for it.

**`Interner`, `SymbolServer`** — the abstract interner answers each call in
one step. The implementation looks up under the shared lock, drops it, looks
again under the exclusive lock, appends to the vector and then to the index, one
step each. The mapping is the identity on `m_strings` and `call`: `Push`, which
gives the number, is the moment the call takes effect, before the index has it;
nobody can see the difference, because `m_mutex` is held. `issued` remembers the
symbols a thread has got for its string, from `internalize` or from a
`check_internalization` that found it (`Symbol::maybe`).

**`Request`** — the member functions are operators on a record `request` with
the response written so far in `wire`: the handler calls them in any order, as
often as it likes, returns any result or throws; then `thread_function` sets
the default status, sends the headers or a small page, and logs; then the
destructor answers for a request nobody answered. `served = FALSE` is a
`Request` used without a server, as the tests do. `encoding` starts with what
the memory held. The header map has three keys; the texts of headers are
members of small sets; the empty text (`"empty"`) is one of them, which the
server, unlike `emplace`, takes for no header at all.

**`ServerContext`** — sections under `context_lock` are steps. The pair of
router and global context that was current at some moment since the request
came in is kept in the history variable `seen`. A publication comes in a step
of its own after the handler, so that the application and other workers can
come between. A worker ends before its first request or between two, and takes its
`RequestContext` with it.

**`Router`** — a tree is a function from paths to nodes. A call of
`handle_request` is a frame on the worker's stack, with its lock, its place in
the route, the last recursive catch-all and its result so far, and a sub-router
is a further frame; so routes can be added and removed in every router that no
frame is inside of, between any two steps. Paths are sequences of components:
the code skips empty components when it parses paths and requests alike.
`Reference` says declaratively which callback a request belongs to.

**`Utf8`, `Formatter`** — the decoder and encoder of `utils.cpp` byte by byte,
and `operator<<` one byte, or code point, at a time: decode, choose what it is
written as, append to `tmp`, hand `tmp` on when it is nearly full. The sizes of
the buffer and of the limit are constants (128 and 100 in the code);
`BufferAssumption` says that the longest entity fits between them. `printf`
loses the last character of a text that is exactly as long as its buffer.
Numbers and single characters go past the formats. `AppendContent` is
`RequestStream`'s `operator<<` for `HTMLContent`, which switches the format for
one call.

**`RequestInput`** — the parsers of `request.cpp` as functions on sequences of
bytes: environment, query, route, percent escapes, UTF-8.

**`Streams`, `Reader`** — `Streams` puts the two together: a page (the route is
parsed, the handler `hello_world` writes every field and variable as content,
the markup around them cut down to its `<`) or a log (a `LogStream` is filled
through any of the overloads, its destructor calls `Logger::log`, which splits
and trims). The rows of the environment come in the order of the map, by the
names of the variables. `JobsAssumption` says what a job is: lines of bytes for
a page, texts and numbers for a log; `PagesAssumption` (in `Reader`) that the
first line for `DOCUMENT_URI` is a path, components with slashes before,
between and behind them (`HasPath`), and that the lines are those of a request
for a form (`IsPage`): each variable has its value in the first line that begins
with its name, the one of `QUERY_STRING` is the form as it is sent (`SentForm`:
separators and escape signs of a text are escaped, anything else may be), a line
without an equals sign may be anywhere, and what a browser is to show for
code points outside ASCII is known to it (`CodePoints`). `Reader` has the two ends that know nothing of the
code: a client that types texts and escapes any part of them, and a browser and
an administrator that read the result. A text is made of units that say what is
to be seen of them, so what is expected is known without decoding anything,
also where the input is not valid UTF-8. What a unit is (`IsUnit`) takes any
bytes: the first says how many there are, and the other fields follow from what
they stand for (`Sense`); so every text is one of units, of which the last may
be cut off (`IsText`). `MessagesAssumption` says that a message has lines of
such texts without newlines, and that what is expected of it are these lines.
`MCStreams` writes each of its units down field by field, and TLC evaluates the
two assumptions: the table and the definitions are compared on every run.

Operators whose names no action uses (`NotJoined`, `NoRecheck`, ...) are
plausible mistakes; `PROJECT.json` says which definition each replaces and which
property then fails.

## 4. The runs

| Run | Instance | Shows |
| --- | --- | --- |
| `ThreadsSafety` | 2 workers, 2 sockets or an inherited one, 1 waiting connection, calls at any time | type, `TickerAtFront`, `NoThreadLeftBehind`, `SocketOutlivesWorkers`, `TickNotLost`, `TickerNeverSignalsItself`, `ListStableWhileWalked`, `ImplementsPool` |
| `ThreadsSettled` | 2 workers, 1 socket or an inherited one, the application of `main.cpp`, no client needed | `NeverKilled`, `StopHangsOnlyInAccept`, `EveryWorkerTicks` |
| `ThreadsStartup`, `ThreadsLostWakeup`, `ThreadsKilled` | 1 worker | counterexamples, see section 6 |
| `Symbols` | 3 threads, 2 strings and the empty one | `SymbolEqualityIsStringEquality`, `IndexMatchesStrings`, `ResolveAssertion`, `Implements`, `CallsReturn` |
| `Request` | 2 status codes, 3 content types and the empty text for both, 3 encodings, at most 3 pieces on the wire before the handler ends | `HeadersThenBody`, `SentHeadersAreFinal`, `AnsweredAsLogged`, `ResultSetsStatus`, `ComplainsOnce` |
| `RequestSetters`, `RequestEncoding` | the same | counterexamples |
| `Context` | 2 workers, a router and the default one, a context and null | `RouterIsSet`, `SnapshotIsCurrent`, `NothingLeftUnpublished`, `NoStaleWriteBack` |
| `Router` | 1 worker, 12 requests, 3 nested routers, 9 overlapping registrations, two of them for the same route | `DispatchIsReference`, `RelativeRouteFits`, `NothingInUseIsRemoved` |
| `Streams` | about 1500 forms, paths and messages: texts of up to two units out of 13 (ASCII, markup, escapes, sequences of 2 and 4 bytes, stray, broken, overlong and unfinished ones, zero), a buffer of 17 bytes handed on from 6 | type, `PageShowsRequest`, `LogKeepsLines`, `LogGivesEachLine`, `RouteIsComponents`, `BufferFits`, `ContentIsInert`, `BufferIsTransparent` |

Why the bounds are enough. Two workers and the ticker are every kind of thread,
a worker that is signalled while another is not, and a list in which the
ticker's index wraps. Two sockets are one that is closed and its successor; a
worker cannot tell how many came before. One waiting connection is a queue that
is empty or not. Three threads at the symbol table are two that race for a
string while a third reads. Requests are handled by one thread each and meet
only at the trees, which a worker reads and never writes: one worker beside the
application that changes the trees shows all of dispatch and of its locks. `MaxThreads` counts threads started
in the whole run: with `MaxThreads = 2`, one worker may be started, killed and
followed by another. In `Context` a context and null are two values, enough to
tell a stale one from a current one. In `Streams` 17 and 6 keep the proportion
that matters: the longest entity just fits, and a text of two or three units is
cut at every offset a longer one would be cut at in the buffer of the code (the
proofs hold for all sizes). Two units are enough for each neighbour of a
separator, of a percent sign and of an unfinished sequence. Bytes are their real
values, so that masks and comparisons are those of the code; `CharIsSigned` is
the platform of the build.

`CHECK_DEADLOCK FALSE` stands in three configurations: in `ThreadsSafety`,
`ThreadsStartup` and `ThreadsKilled` the application stops whenever it likes and
the server really deadlocks (section 6).

## 5. Fairness

`ServerThreads!Fairness`: the operating system runs every thread that can run
and delivers every signal; a `tick()` and a request come to an end (`Served`,
`TickReturns`); a mutex that becomes free again and again is obtained (strong
fairness on the steps of the stopping application: the ticker sleeps between
two uses of `threads_lock`). There is none on `Connect`: only `BusySpec`
assumes clients, and says so. There is none on errors and none on calls of the
application, except that a stop that has begun goes on. `SymbolServer!FairSpec`
is strong fairness of each thread's steps, for the same reason: a
`shared_mutex` that is free infinitely often is obtained. A shared section is
one step, so a reader that keeps its lock cannot be expressed, and that readers
who overlap for ever do not keep a writer out is assumed, not shown.

## 6. What the runs found

* **Stopping during start-up deadlocks.** The ticker's first act is a blocking
  lock of `threads_lock` (`server.cpp:424`). When `kill_threads` has the lock it
  joins the ticker, which waits for it. The `try_lock` further down is there
  "to avoid deadlocks during shutdown" (`server.cpp:444`). (`ThreadsStartup`)
* **A stop can wait for a client.** SIGUSR1 that arrives between the test of
  `shutdown_triggered` (305) and `accept` sets the flag and is over; `accept`
  blocks and `join` waits until somebody connects. (`ThreadsLostWakeup`.) That
  this is the only way for a stop to hang once the threads have started is
  `StopHangsOnlyInAccept`.
* **A stop can kill the process.** Until the first thread has installed the
  handlers, SIGUSR1 has its default action. (`ThreadsKilled`)
* **Setters say yes and keep the old value.** `set_header` uses `emplace`
  (`request.cpp:404`); the tests take `true` for "is now set".
  (`RequestSetters`)
* **`encoding` is read uninitialised** when a handler opens a stream before it
  sets a content type; `to_format`'s assertion can fail. (`RequestEncoding`)

Noticed while modelling, where nothing in the repository promises otherwise:
a global context is published even when its handler threw, and of two
replacements at once the later wins; an error of `accept` ends a worker for
good; a handler that set a status and then throws keeps it; a status set to no
text counts as absent for the server (`server.cpp:360`), but `emplace` keeps it:
it stays empty, the server's own setter is complained about when the headers
were sent, and a small
page that would be its text writes nothing in UTF-8, so that the headers are
sent by the destructor, after the request was logged; libfcgi's shutdown
flag stays up, so threads added after `finalize` end at once; a 405 of a
sub-router becomes a 404 when the route ends at a node without endpoints
(`router.cpp:140`); `remove_route` of an unknown path creates nodes that hide a
wildcard beside them; the walk does not go back from a literal node to a
wildcard; a callback that registers a route in a router it came through waits
for its own shared lock; the symbol table never shrinks, and nothing bounds it;
`>` in content becomes
`&rt;` (`generic_formatter.cpp:184`, 250), which is no entity of HTML, so that a
browser shows the four characters; an overlong sequence for an ASCII character
is written to a page as its last byte, alone; `printf` of exactly 128 characters
ends in a zero byte, which the formats drop; where `char` is signed
`Logger::log` takes every byte outside ASCII for blank at the end of a line and
drops a line that has nothing else; a byte that breaks a sequence is swallowed
with it; an unfinished sequence at the end of a text disappears; `+` in a query
is not a space.

## 7. What is proved

`ServerThreadsProofs`, for every `MaxThreads`, `MaxBacklog`, `MaxSockets` and
`StopPolicy`, from `BoundsAssumption`: the theorems `TypeCorrect`,
`FrontIsTicker`, `ListIsComplete`, `SocketIsOpen`, `TickKept`,
`TickerSparesItself` and `ListIsStable`. None of these properties is inductive.
`IInv` adds who owns `threads_lock` at which location (`LockInv`); that every
running thread is in the list, the ticker at its front and only workers behind,
that ids above `last_thread_id` were never started and that the list is empty
when the socket is closed (`ListInv`); and that only a running worker has a
`listen_sock`, which is the open socket (`SocketInv`). The proof
has one lemma for each group of actions that move a thread, return from it or
change the list; `AddThreads` is the long one, since it appends to the list.
The two action properties follow from `IInv` and a case split on `Next`.

`ThreadsImplementPool` is the refinement, for the same constants: each lemma
takes one group of actions to a step of `WorkerPool` or a stutter. It needs
`IInv` (who is in the list when all of it has been joined, which socket a worker
accepts on) and `AcceptInv`: a worker in `accept` has a socket, nothing waits
on a socket that is not there, and none is opened beside an inherited one.
`PatienceSavesTheProcess` is the one theorem that needs a policy: with
`StopPolicy = "settled"`, `[]NeverKilled`. Its invariant `HandlersInv` says that
the handlers are installed once any thread is past `spawned` or has a signal
pending, and that no thread is in its start-up code between the two statements
of `finalize`.

`SymbolServerProofs`, for every set of callers and strings, from the three
assumptions on `Empty`, `Nobody` and `NoAnswer`: `TypeCorrect`,
`EqualityIsStringEquality`, `IndexIsInverse`, `ResolveIsSafe` and
`ImplementsInterner`. The invariant says that vector and index agree except for
the one string its writer is about to enter in the index, that the writer is the
owner of `m_mutex`, and that answered calls agree with the vector. The
refinement shows that each step is a step of `Interner` or a stutter.

`RequestProofs`, for every set of status codes and every `MaxWrites`, from
`UnsetAssumption`: `TypeCorrect`, `OneBlockOfHeaders`, `HeadersStay`,
`AlwaysAnswered`, `OneComplaint` and `ResultDecidesStatus`.
`WellFormed` says what a request is
between two calls: `headers_sent` exactly when something is on the wire, the
headers first and equal to the map, a status among them, nothing but body
after. Each member function has a lemma that it keeps `WellFormed`; a handler is
any sequence of them, and the invariant adds only what the phases after the
handler know: from the response on there is a status, which may be the empty
text, and it is the one that is logged. For the last two theorems `MemoryInv` adds what is remembered from
step to step: the `once_flag` is up exactly when a setter was refused, the handler's or the
server's own, and a
status that the handler left open is the result's from the moment the server
sets it.

`ServerContextProofs`, for every set of workers, routers and contexts, from
`NullAssumption`: `TypeCorrect`, `RouterAlwaysSet`, `SnapshotAlwaysCurrent`,
`AllPublished` and `OnlyReplacementsPublished`. The invariant adds that a worker
only exists when there is a router, that the pair current now is in `seen` of
every request that has not ended, and where the flag of a replaced context can
be up: not where a worker accepts, so what a handler put in place is the global
context by then (`AllPublished`).

`StreamsProofs` begins with the formatter alone, for every size of buffer that
`BufferAssumption` allows and every sequence of calls with any bytes and code points: `FormatterTypeCorrect`,
`BufferNeverOverrun` and `ContentNeverOpensATag`. The invariant says that `tmp`
is shorter than the limit at the top of the loop and has no `<` in it while
content is formatted; the lemmas below it bound the longest piece (an entity of
eight digits) and show that no piece for content contains a `<`. `RoundTrip` needs no state: every code point
comes back from its encoding, and nothing is returned before its last byte.

`RouterProofs`, for every set of workers, routers, registrations, mounts and
requests, from `RootAssumption` and `RoutesAssumption` (there is a first router,
and a set of routers that is finite, as all of them are in memory; a mount leads
to a router): `TypeCorrect`,
`InUseIsKept` and `RouteIsOwn`. The invariant is about the stack of calls of each
worker, in terms of the trees: each call is at a node that exists and runs the
callback that is registered there (`FrameOK`); a call made by another has the
rest of its route and is the router mounted where the other waits (`LinkOK`).
Three lemmas say that setting the top of such a stack, pushing and popping keep
it; each action of a worker is one of the three, or starts or empties the stack.
A change of a tree keeps
it since every call that refers to a node of a router has the router's shared
lock (`ChangeKeeps`).

The last part of `RouterProofs`, from the same two with `MountsAssumption` and
`NullAssumption`: `DispatchFollowsReference`, that a request during which no
tree changes ends up at the callback, or with the refusal, that `Reference`
says, through any nesting of routers. `MountsAssumption`, that no router is
mounted inside itself, is what lets `handle_request` return, and `Reference`, a
recursive function over routers and the routes left to them, have the values of
its definition (`ReferenceIs`). The prover has no induction over data, so the
module states one for sets of natural numbers, a consequence of the library's
`WFMin`, and builds the function for the routers of one rank after the other.
The invariant `DInv` compares each call of a worker's stack with the reference's
answer for the router and route of that call: the nodes passed so far are those
of the route, no sub-router tried has handled the request, the result so far is
`InvalidMethod` exactly when one of them has refused it so, the catch-all kept
is the deepest passed (`ResultOK`, `CatchOK`, `PlaceOK`); and a call that is to
be handled is handled as the whole request is (`HeirOK`).

The rest of `StreamsProofs`, for every set of jobs that `JobsAssumption` allows
and every buffer that `BufferAssumption` allows: `TypeCorrect`; `StreamsUseFormatter`,
that a page and a log are runs of the formatter's own specification, so that
what is proved of it holds of them (`PagesAreSafe`: no overrun, and no `<` out
of content); and `BufferChangesNothing`, with `PagesIgnoreBuffer` for the
streams: what has been handed on, what is in the buffer and what the rest will
become is the same text before and after each step of a call, and is that of a
conversion from the start of the text which knows no buffer. The parsers are
recursive functions (`Elements`, `QueryDecode`, `Digits`, the decoder). Two
lemmas carry them: a recursion whose argument goes down in rank has a solution
(`Recursion`), and what holds at its base and is handed from an argument to the
one before it holds everywhere (`Descent`). Each parser has a lemma that its
function satisfies its equation, and one that its result has its type. `FInv`, the
formatter's, is the invariant of the stream; `SInv` adds the types of what
is still to be written.

More results of `StreamsProofs` say what the code makes of any input.
`RouteIsTheComponents`: the route of every request has the components of its
path. `RouteOfPath` is about the parser alone: a place in a flattened sequence of
texts belongs to one of them (`PlacesAre`), so the elements of a path are known
by place, and the parser is followed from the end of the path to its start; from
`PagesAssumption` and `VariableIs`, that a variable has the value of its first
line, it carries over to the environment. `LoggerGivesEachLine`: the callback is
called for every line that is not blank, once and in order. Its invariant
`LogInv` says that `start` is behind a newline and that what was given are the
entries up to `start`; one turn of the loop has one more entry to give, or none
(`NextEntry`). `DecodedAsMeant`: `query_decode` gives back a text of which any
bytes were escaped; `TextRoundTrip`: `utf8_decode` gives back what `utf8_encode`
has written. Both find the pieces of the encoded text by place, the first from
its end, the second from its start, with `RoundTrip` for
each code point.

`ReaderProofs`, from `MessagesAssumption` and `PagesAssumption` besides:
`LogHasTheLines`, that the callback gets the lines of a message as they were
written, for any texts, numbers, overloads and buffer. The argument goes in four
steps. First, the decoder is between two units in front of each unit of a text
and has its sense behind it, whatever bytes it has (`UnitStates`, `UnitsDecoded`,
along the places that `UnitsAt` gives the units); so `utf8_encode` of
`utf8_decode` is what is to be kept of the units (`UnitsEncoded`), and a second
conversion changes nothing (`EncodedTwice`). Second, `StreamHasWhatItWasTold`:
with `BufferChangesNothing` a stream holds, at each step, what each use so far
came to, and the uses so far and those left are the whole work of the job
(`SaidInv`). Third, each of the overloads, the code points of `LogStream` and
`printf` with its lost last byte included, writes a line in one of the ways that
`AsWritten` allows (`LineMeant`), and the message is the lines with a newline
behind each (`MessageSaid`). Fourth, `LinesInv`: the loop of the logger is behind
k whole lines and has given what `Logged` says of them; it finds the next newline
where the next line ends, and its blank end, byte by byte, is that of the units
(`TrimmedIs`), since what is kept of a unit is one byte or nothing of ASCII
(`Solid`). The way a line was written must be picked once for the whole message,
which is why `LinesInv` has it and `LogKeepsLines` alone is not inductive.

`PageProofs`, from the same assumptions with `CodePointsAssumption`:
`PageShowsTheRequest`, that the browser reads from the page the fields of the
form and the variables of the environment, each in its place and as it was
typed, for any form, any environment and any buffer. Behind `SaidInv` nothing of
it depends on a step any more; it follows the text from one end to the other.
The client's end: what is sent for a text has a piece for each of its bytes
(`SentEncodes`), which `DecodedAsMeant` turns back and which has no separator in
it; so the query parser cuts a form where its fields were joined
(`ElementsJoin`, with the empty field at the end that it drops) and a field at
its equals sign (`FieldArrives`). The server's end: the map of the environment
has the variables and their values, of two lines for one the first
(`VariableFound`), and since the order of the map is strict there is one way
only to list them (`ListedOnce`, `EnvironmentTold`). So the work of the handler
is a piece of markup and a content for each cell (`Told`). The browser's end: a
content has no `<`, so the marks are where markup was written and what is
between two of them is one content (`CellsOf`); no name of an entity begins
another one and `&rt;` begins none, so the browser reads a content unit by unit,
whatever bytes the units have (`ContentIsRead`, `PageSaid`).

Only model-checked: everything temporal under fairness (`StopHangsOnlyInAccept`,
`EveryWorkerTicks`, `CallsReturn`), which is beyond the prover.

## 8. Not modelled

The digits of floating-point numbers, the memory a `Verbatim` stream makes of
code points, a `vsnprintf` that fails, `LineFormatter::clear`; console output
and `log_request`'s line; reading of the body, the error stream and the flushes,
which only pass a call on to libfcgi; `FastCgiData` and libfcgi, except for what
the worker sees of them; `set_log_callback` while others log, and exceptions of
`tick()` and of the function that makes a thread context, which the code makes
no promise about; `wait_for_terminate_signal`, which changes only its caller's
signal mask; `set_thread_context_tick_interval`, an unsynchronised write to a
duration that time abstraction hides; the destructor of `SymbolServer`, which
runs at process exit.
