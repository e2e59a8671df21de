# A TLA+ model of Vibora

Vibora is an asynchronous HTTP server and client for Python (`vibora/`). This
directory holds TLA+ modules of the parts of it whose correctness depends on
the order in which things happen, TLC configurations that check them on small
instances, and theorems that TLAPS proves about them for all instances.

## 1. The system

A server process forks workers. A worker (`workers/handler.py`) has one event
loop with all its connections and one thread beside it, the reaper
(`workers/reaper.py`). A connection (`protocol/cprotocol.pyx`) is called by the
transport, feeds the HTTP parser (`parsers/parser.pyx`), which calls it back
for the head, each piece of the body and the end of a message; at the head it
asks the router for a route and starts a task for the handler. The handler
reads the body from a stream (`request/request.pyx`) and its response is
written by `responses/responses.pyx`, which calls `after_response` of the
connection to make it ready for the next request.

Before that, an application is put together: users declare routes, hooks and
exception handlers on it and on nested blueprints, `add_blueprint` and
`initialize` move them to where they act, and hooks and components surround
every request from then on (`application.py`, `blueprints.py`, `server.py`,
`components/`). A request may read a form through the multipart parser, and has
a session that is loaded from a file and flushed after its endpoint. Templates
are compiled to Python, and a thread of the engine reloads what changes on
disk.

The client (`client/`) stands apart from the server. A session has an engine
with a pool of connections per host; a call of `Session.request` is a coroutine
that takes a connection from a pool or opens one, follows redirects through
other pools, and starts again after some failures. What a response no longer
needs goes back to its pool in a task of its own.

| Component | State | Operations | What makes it correct |
|---|---|---|---|
| Body stream (`request/request.pyx`) | queue, flags waiting, dirty, finished; consumed | put, end, clear; get, read, iterate | order, completeness, no lost wakeup, bounded memory |
| Connection (`protocol/cprotocol.pyx`) | status, readable, writable, timer, current task, components | callbacks of transport and parser; handle_request, after_response, stop | one response per request, in order; requests do not mix; no leftover timer; nothing waits for ever |
| Responses (`responses/responses.pyx`) | streaming tasks and their timeouts | send, stream, cancel | frames are not torn |
| Parser (`parsers/parser.pyx`) | position, limits, error | feed_data | a body over its limit is not served |
| Worker and reaper (`workers/`) | connections, ages, has_to_work | passes of the reaper, SIGTERM, stop_server | no request cut off, idle connections reaped, polite end |
| Router (`router/router.py`) | static, dynamic and host tables, reverse_index, LRUCache | add_route, get_route | the cache agrees with the tables; slashes, hosts and methods |
| Application (`application.py`, `blueprints.py`, `server.py`, `hooks.py`, `exceptions.py`, `components/`) | blueprints, hooks, exception handlers, components | add_blueprint, handle, call_hooks, process_exception | the most specific handler, local before global |
| Client (`client/`) | pools, release tasks, retry budgets, headers of a call, rate | request, redirect, throttle, release, close | limits of retries, redirects and rate; connections neither shared nor lost |
| Multipart (`multipart/`) | buffer, status, current part, values | feed, write, consume, read | values arrive as sent, whatever the chunks; feed() returns |
| Sessions (`sessions/`) | cookie, files, values, pending_flush | load, set, clear, flush, save | files stay loadable; nothing stored is lost |
| Template compiler (`templates/template.py`, `nodes.py`, `compilers/`) | open nodes, indentation, text, pending block, comment | parse, compile, rollback | compiles exactly what is well formed; shows what it says; an expression that fails is reported with its tag |
| Template engine and loader (`templates/engine.py`, `loader.py`, `ast.py`, `cache.py`) | templates, indexes, trees, cache, mtimes | add, remove, prepare, compile, sync, clean | what is rendered is what the files hold; the thread dies of nothing but what section 6 names |
| Necromancer (`workers/necromancer.py`) | list of workers | restart the dead | (its thread dies in the first pass) |
| Websockets, static files, response caches, schemas, utilities | | | see section 7 |

What is hard in it: handler, streaming task, error handler and timers of one
connection interleave at every `await`; data arrives in any division;
`after_response` is called from four places and resets what the whole
connection shares; a slow client pauses writes; the reaper is a real second
thread; a stop races with requests that begin; calls of the client take
connections from pools to which other calls still return some, while peers
close and reset them; declarations come in any order and are moved once;
workers that share session files may be killed while they write; files change
while a thread reads them.

## 2. The modules

| Module | Models | Composes |
|---|---|---|
| `StreamQueue` | class StreamQueue as operators on a record | |
| `BodyChannel` | what a body stream promises (abstract) | |
| `BodyStream` | one body, from on_body to the reading handler | `StreamQueue`, refines `BodyChannel` |
| `BodyStreamProofs` | theorems about it | `BodyStream` |
| `Connection` | a connection, its handlers, responses, timers and parser calls | `StreamQueue` |
| `ConnectionProofs` | theorems about it | `Connection` |
| `Worker` | loop, reaper thread and stop of a worker | |
| `WorkerProofs` | theorems about it | `Worker` |
| `Router` | registration, lookup and LRU cache | |
| `RouterProofs` | theorems about it | `Router` |
| `Components` | class ComponentsEngine as operators on a record | |
| `Application` | declarations, start, hooks and exceptions of requests | `Components` |
| `ApplicationProofs` | theorems about it | `Application` |
| `Multipart` | encoder of the client, parser, files in memory | |
| `MultipartProofs` | theorems about it | `Multipart` |
| `Sessions` | the session of one client over workers and files | |
| `SessionsProofs` | theorems about it | `Sessions` |
| `TemplateCompiler` | parser, nodes and Python compiler of templates | |
| `Templates` | files, loader thread, engine, trees and cache | |
| `RequestRate` | class RequestRate of the client as operators on a record | |
| `Client` | a session of the client, its calls, pools and release tasks | `RequestRate` |
| `ClientProofs` | theorems about it | `Client` |
| `MC*` | instances for TLC | |

`TemplateCompiler` and `Templates` define trees by `RECURSIVE` operators, so no
theorem is to be stated in them; all other modules keep to functions and folds.

**A step** of `BodyStream` and `Connection` is what the event loop runs between
two awaits. In `Connection` one `data_received` is several steps, one per
callback of the parser, and nothing else runs until it has returned
(`call.upto # 0`): the interleaving of the code is kept while its callbacks stay
readable. In `Worker` the reaper is a thread: looking at a connection and
stopping it are two steps, with any step of the loop between them.

In `Client` a step is what a call runs from one suspension to the next: a
redirect takes its connection from the pool in the step that read the body,
before the release task of the old one runs; a zero-length read does not
suspend. A limit of the rate is asked before each leg of each attempt; `Tick`
is its clock.

In `Application` a declaration is a step, `initialize()` is one, a start hook
is one, and so is a whole request: how requests interleave is `Connection`.
What a step keeps is the order in which hooks, endpoint and error handlers run
and what each is given from the component engine. In `Multipart` `feed()` is
one step per turn of its loop. In `Sessions` the coroutines of the engine never
suspend, so a load is one step of its worker; a save is two, the truncation by
`open(..., 'w')` and the write, since other processes share the file and a
worker may be killed in between. In `Templates` the steps of the loader thread
are those between which an edit of a file can be noticed: the look at the
directories, each file that is read, `sync_cache`, each template prepared and
compiled, and the clean-up. In `TemplateCompiler` a token is a step and the
compilation is one.

**State.** Variables have the names of the attributes (`status`, `readable`,
`timeout_task`, `queue`, `values`, `reverse_index`, `hash_index`). What belongs
to coroutines is their place: `task[r]` of the handler of request `r`,
`stream[r]` of its streaming task. `errors` is the set of error handlers that
are running, `armed` the timers the loop holds, `out` what was written to the
client. An `asyncio.Event` is the set of coroutines it has woken. Variables
that only remember are called history where they are declared (`declared` in
`Application`; `seen`, `cleared` and `spoiled` in `Sessions`; `torn` in
`Multipart`; `stale`, `raced`, `faulted` and `lost` in `Templates`).

**User code** is a free choice: a handler may read any part of its body, answer
in each way, raise, or take its time. The constant `Settings` of `Connection`
and of `Application` says what a run includes.

**Data.** A body chunk is a pair of request and position, a response a request
and a kind. The limit of a body is a number of chunks: the parser delivers the
chunks up to it, and the one that passes it fails, by when the handler may have
read those before. A response to the client is the kind of its body, the host of
its location and whether it keeps the connection. A URL is a sequence of
segments and an optional ending slash, the pattern of a host is the set of hosts
it matches. Ages of requests in `Worker` are seconds up to a cap above both
timeouts, so that time is unbounded and the state space is finite. In
`Multipart` bytes are kept, since delimiters are made of them, but the headers
of a part are one symbol and the boundary is short. A session is the set of the
requests that stored something in it, a dump of it a sequence as long as it has
values, so that an overwritten tail shows. A template is its tokens by kind in
`TemplateCompiler`, where a line of code is its indentation, its statement and
the tokens it comes from, and comments are lines, as `render_exception` counts
them; in `Templates` it is its text, its blocks and the one template it includes
or extends, and its hash is its content. There a text also tells what would
refuse the template, if anything: the parser (`BadTags`) or Python (`BadCode`).
The pattern of a host being the set of its hosts, two patterns with the same
hosts are one entry of `Router`, and two in the code.

Every `Mutant` in a comment names an operator that stands for a plausible bug;
nothing in the specifications uses it. It documents what a property would catch.

## 3. The runs

| Run | Instance | Shows |
|---|---|---|
| `bodystream` | N = 12 chunks, up to 4 per call | no lost wakeup, back-pressure, refinement of `BodyChannel` (order, completeness), a reader comes to the end |
| `connection` | up to 3 requests, four tame worlds and four wild ones, with bodies at the limit and over it and with error handlers that fail | bodies, responses and components do not mix, handlers run one at a time, a body over the limit is not served though its handler read part of it, everything is served |
| `worker` | 2 connections, timeouts 1 and 2 s | requests spared, idle connections reaped, a stop waits for work only and ends |
| `worker_stuck` | 1 connection | violated: see 6 |
| `router` | 2 of 7 declarations, 4 lookups, a cache of 2, every strategy | cache, hosts, redirects, slashes |
| `application` | 2 blueprints, 5 declarations, 4 settings | hooks are neither lost nor doubled, routes are mounted, hooks guard their scope, sessions are flushed, the nearest handler answers |
| `multipart` | values of up to 3 of the bytes of delimiters beside a long file, chunks of 1 to 7 | values arrive as sent, feed() returns |
| `sessions` | 3 requests, 2 workers, 1 death | files stay loadable, nothing stored is lost |
| `template_compiler` | templates of up to 6 tokens | compiles exactly what matches, shows what it says, which tag an error at rendering is reported with |
| `templates` | 3 files, 3 walks, 10 worlds of 3 or 4 edits, five of them with a content that cannot be compiled | rendered is what files hold, what the thread dies of, edits are taken in |
| `client` | 2 calls beside each other, or one with retries for failures and for a status under a limit; 2 hosts, 2 connections per pool, 1 redirect | connections are not shared, no open socket is lost, a POST is not repeated, every call ends |
| `client_rate` | 1 call with retries and redirects to either host under limits of 1 request per 1 or 2 ticks | violated: see 6 |

**What the properties leave out.** Some properties are stated for a part of the
behaviours, and say so where they are defined. What is left out is what the code
is known to do otherwise; section 6 lists it. `Tame` in `Connection` excludes
cached answers, bodies that are not read, upgrades, bodies over the limit, a
response sent while `after_response` is still to come, hooks that fail behind
the response, a whole response that fills the write buffer, and a route timeout
beside an error handler or a body. It also excludes error handlers that raise;
one that streams its response is not modelled. `Orderly` is `Tame` but for
bodies over the limit. `OneHandler` is stated for all settings, until a request
has been answered twice: the client takes the second answer for that to its next
request and sends one more, whose handler runs beside the other's. The world
with hooks and timeouts that answer again shows this. `RejectedNotServed` is
stated for `Orderly`, since a queue that a cached answer left finished tells of
an end that was not parsed. `Parses` excludes a flush that parted CR and LF of a
delimiter (`torn`); `FileWhole` and `Kept` a file with two writers at once or a
killed one (`spoiled`). `Fresh` excludes three cases: a change of a file that is
used through another one, a tree that another file or an older version extends
too, and a file that was unloaded together with one of the same content
(`lost`). `Survives` says that the loader only dies of a content that cannot be
compiled (`faulted`), of edits while it reloads or of a file together with one it
uses between two passes (`raced`), and of the use of a `lost` file. `Reported` excepts failures of a loop, a condition or the end of an
expression before tags that the wrong count takes in; the first computation of
an expression is reported with its own tag always. All of these are listed in 6.
`Compiles` and `Faithful` are stated for templates without elif and macro.
`CacheAgrees` is stated until the cache is full: `LRUCache.set` evicts once it
holds one entry more than `MaxSize`, and from then on it may answer wrongly.
`SlashForms` excepts the root, redirects to a prefix that is not the other form
of the URL, behind which a later route may redirect on, and a dynamic route of a
virtual host that takes one form before the static route is asked.

**Why the bounds are enough.** A body of 12 chunks in calls of up to 4 has every
relation of batch to reader there is (nothing queued, part of a batch, a batch
and the end); the theorems lift the bound. Three requests on a connection are a
request with a predecessor and a successor: all that the state of a connection
carries over is one queue, one timer, one task and one error state. In the wild
worlds two are enough for the same reason. In the worker one connection may
block the loop while the reaper looks at the other; timeouts 1 and 2 make
passes that look for idle, for stuck and for both. In the router two
declarations meet in every order under every strategy; a third would add no new
meeting of two. In `client` two calls share a pool at every pair of their
steps, with connections of ended calls lying in it; `Answers` has a response of
each kind and a redirect, and a peer resets whatever is in use or in a pool.
What repeats a call for a status concerns that call alone, hence one call in the
other `Uses`, with every budget at one: an attempt that is the last of one kind,
of the other and of neither: up to six requests, enough to run through the limit
of a rate several times, in the one form and the other. The run checks liveness
and so uses no symmetry.

In `application` two blueprints are nested in either order, side by side, or
left out, and five declarations put a hook, a route or a handler before, between
and after the two that add them. A setting has the declarations that meet:
hooks of requests, hooks of the start with components, exception handlers of
three classes one below the other, and routes under prefixes. In `multipart`
a delimiter is CR, LF and a boundary of three bytes: short values are every
sequence that may begin one, the file beside them holds one whose last byte is
wrong and is longer than the flush limit, twice the boundary; a file of just
the memory limit fits, one byte more does not; the theorems lift these bounds.
In `sessions` three requests are one that has been answered and two that
overlap. Six tokens nest two blocks with something in them, or put three in a
row; a seventh only repeats these. Three files make every shape of use there is
between two hops: a chain, two children of one parent, a child of a child, a
page that extends one that includes, and twins. A content that cannot be
compiled is put in the middle of a chain, so that it is used and uses another.

`CHECK_DEADLOCK FALSE` is set wherever the system may rest: a client that has
sent everything, a worker that has stopped, routers with all lookups made,
declarations used up, a body that was fed, requests that were answered, a
template that was compiled, a loader thread that died.

Each module states the type of its variables in `TypeOK`. It is in the cfg of
`BodyStream` and `Worker`. The other inductive invariants hold on the
same instances; they are proved, so no run repeats them. `TypeOK` is a part of
them but in `Application`, where `Structure` has the types its proofs need and
the order of the exception handlers is left to TLC.

## 4. Fairness

The event loop runs what is ready, so every coroutine that can proceed does
(weak fairness of each). The client of the fair runs goes on sending and
reading. Endpoints come to an end only where no route timeout would end them;
where there is one, the timeout is what the code relies on. Timers that are not
cancelled expire. In `Worker` handlers that block the loop return
(`ReturningSpec`); the loop then gets to a ready task although it is blocked
again and again in between, hence strong fairness of `stop_server`.
In `Client` an attempt that waits is ended by the timer of `wait_for` if by
nothing else (weak fairness of `Attempts`); a new attempt has a new timer, so
`Settles` rests on the budgets. No peer is assumed to answer.
Reading the body is fair only in `ReadingSpec`, for `ReadEnds`: a handler owes
nothing. In `Multipart` the loop of `feed()` goes on, as it has nothing to wait
for; nobody is assumed to feed or to read. In `Templates` the loader thread
goes on, as it only sleeps half a second between its passes; nobody is assumed
to edit, and `TakenIn` holds although edits may come between any two of its
steps. `Application`, `Sessions`, `Router` and `TemplateCompiler` have safety
properties only and no fairness.

## 5. The theorems

`BodyStreamProofs`, for every length of the body and every size of batch, from
`NAssumption`, `MaxBatchAssumption` and `EndMarkAssumption`:
`TypeCorrect`, `StreamSafe` (`InOrder`, `EndsComplete`, `NoLostWakeup`),
`BackPressured` and `Refinement` of `BodyChannel`. The inductive invariant adds
`Bookkeeping`: `finished` only after the last chunk, `waiting` exactly while a
reader is in `get()`, and an unfinished queue that holds something has paused
the socket. Without the last one `NoLostWakeup` is not inductive (a batch could
come between the check and the wait), and `BackPressure` is a step of it.
`InOrder` and `EndsComplete` are only proved: the run checks the refinement,
which says the same of what the handler gets.

`WorkerProofs`, for every set of connections and all timeouts, from
`ConnAssumption` and `LimitsAssumption`: `TypeCorrect`, `WaitsForWork`
(`StopHeeded`) and `RequestsAreSpared`. The invariant adds `Busy`: a connection
whose request is being handled is not pending. It is what makes the second look
of `stop()` at the status enough, however old the reaper's first look is.

`SessionsProofs`, for every set of requests and workers and any number of
deaths, from `NoneAssumption` (the value for "no file" is not a file):
`TypeCorrect`, `FilesAreWhole` and `NothingIsForgotten`. For `FileWhole` the
invariant has to say that the file of a request that saves alone is empty until
it writes (`Alone`). `Kept` looks at one moment, the request the client goes on
with; `Standing` says what lasts in between: what an answered request stored,
and no rival undid, is in its file and in what every later request loaded.

`ClientProofs`, for all calls, hosts, connections, budgets and limits, from the
assumptions of `Client` on their types: `TypeCorrect`,
`ConnectionsAreExclusive`, `NothingIsLost`, `PostsOnce` and `AtMostDoubled`.
`Exclusive` is not inductive, since a call that ended may still name a
connection that another has taken from the pool; `Own` forbids exactly that to
a connection that is read. `NoSocketLost` needs `GivenBack`, for the response
that was released with its head, and its premise `NoneLeft` is a condition on
the calls: a streaming call repeated for a status loses its connection at once.
`PostedOnce` rests on a budget of what was written and not repeated yet
(`Unsent`, `Budgets`). `AtMostDoubled` says what is left of the violated
`RateKept`: a call that is alone sends at most twice the count within a period
(`DoubledAtMost`). It rests on how many requests of the last period belong to
the cycle that runs (`Paced`).

`ConnectionProofs`, for any number of requests, all bodies and all settings,
from `RequestsAssumption`, `EndMarkAssumption` (the mark is no chunk) and
`SettingsAssumption` (a setting has a body and a limit, which may be none, for
each request):

| Theorem | Property | For |
|---|---|---|
| `OneAtATime` | `OneHandler` | all settings, until a request is answered twice |
| `NoServiceBeyondLimit` | `RejectedNotServed` | `Orderly` |
| `BodiesAreWhole` | `WholeBody` | `Tame` |
| `OneAnswerEach` | `AnsweredOnce` | `Tame` |
| `NeverLeftPaused` | `PausedForReason` | `Tame` |
| `ComponentsAreItsOwn` | `OwnComponents` | `Tame` |
| `StopIsGraceful` | `StopSpares` (an action property) | `Tame` |

They come from one invariant, since none of them is inductive beside the others:
that no handler reads another's chunks needs that there is one handler; this
needs that the client has had as many answers as requests were begun, and this
that no timer or error handler answers beside it. It has three layers. In every
setting (`Places`, `Begun`) the parser stands within what the client has sent,
requests are begun in their order, and a handler whose request is answered,
streamed or failed has ended. In an orderly setting, while the parser has not
failed (`Calm`): one request runs at a time, the last one begun, by its handler
until the message is whole and by a stream or an error handler afterwards
(`Lone`); it has the timer, the status and the components (`Kept`); what its
handler has read and what the queue holds make up what was parsed of its body
(`Reading`); and answers are in order, the running request's still to come
(`Answers`). On the way to an error of the parser and behind it a request over
the limit is never read to its end (`Refused`): its handler may have read the
chunks up to the limit, and then waits for one that does not come. `Tame`
settings stay calm, as without a body over the limit the parser cannot fail.

`RouterProofs`, for all strategies, routes, prefixes, requests and sizes of the
cache, from `StrategiesAssumption`, `DeclaredAssumption`, `PrefixesAssumption`,
`RequestsAssumption` and `MaxSizeAssumption`: `TypeCorrect`, `LookupsAgree`
(`CacheAgrees`) and `FormsMeet` (`SlashForms`). Two facts carry `LookupsAgree`.
What the tables have for a request depends on nothing but its key
(`KeyDetermines`), so an entry that one request left answers any other that
finds it; and the tables do not change any more once the cache has something in
it (`Fresh`: routes are declared before the first lookup). That no request gets
a route of other hosts needs `Placed`: a route stands in the table that its
hosts and its pattern call for, under a host only if it claims that host. As a
declaration adds a route for each prefix, each form and each host,
`AddPrefixesSound` and `AddToHostsSound` go by induction: the prover cannot use
the library's induction theorems, but a set of numbers without a least element
is empty (`Least`), from which `UpTo` follows, and with it that the recursive
functions of the model exist and keep `Placed`.

`FormsMeet` needs an invariant that looks back at what was declared before
(`BothForms`). The static table has, under CLONE, for each route that serves GET
an entry for the other form, and the same route for GET; under REDIRECT each
redirect leads to an entry, and the other form of it is none (`Entry`). The
routes of a virtual host are a list in which the first match wins, so what is
added later cannot undo what holds of a place of it: a redirect has its original
before it, a clone its twin with nothing between the two but more of the same
route (`Redirects`, `Twin`). Two redirects for the two forms would then each
come before the other, and the twins of two routes that take one form each
would enclose each other (`ListLands`, `ListMeets`). While the prefixes of one
route are added, its redirects lead to the last prefix, which is not there yet:
`Forms` carries what is still to come, under the hosts the route claims, until
the last prefix has come (`FormsExpect`, `FormsMet`).

`ApplicationProofs`, for any blueprints, prefixes, settings and number of
declarations, from `NamesAssumption` (the blueprints are finitely many and none
is the application), `PrefixesAssumption` (a prefix is a sequence of segments),
`SettingsAssumption` (what users declare are hooks of known events, and not the
two of the server) and `ClassesAssumption` (issubclass is an order on the
exception classes, which the default handlers and those of users are for):
`HooksAreKept` (`HooksKept`), `EndpointsAreGuarded` (`Guarded`),
`SessionsAreFlushed` (`SessionFlushed`), `RoutesAreReached` (`Reached`) and
`HandlersAreNearest` (`Nearest`). `HooksKept` counts a hook in what call_hooks
would call; inductive is `Once`, which says list by list that a hook stands once
at its home and nowhere else. It needs `Filed` (a list holds hooks of its own
kind and event only, and only declared ones, so that a new hook is nowhere yet)
and `Untouched`: a blueprint that the application has not taken over still has a
list for each event, else the takeover would lose what it cannot append; and
what was declared before a blueprint was nested is not late. `Guarded` is about
requests long after the connection looked for hooks; it holds since `Accepted`
says that the flags of the connection have the event of every hook it knows
whose home is asked for, and `Known` that the application finds these homes
among its blueprints. Hooks that are added while the server runs change no home
of another hook, so the flags may be stale for them but not for those before.
What a takeover does to a list is a recursive function treated as in
`RouterProofs` (`PartCounts`).

`Reached` compares two recursions over the tree of blueprints: the code collects
routes downwards (`Mounted`), at every `add_blueprint` and once more at the
start, and the property looks upwards from each blueprint (`MountPoints`). Both
are compared with the ways from the application to a blueprint (`Way`, with the
prefix it makes): `MountedIsReached` and `ReachedIsMounted`, `MountsAreWays` and
`WaysAreMounts`, each by induction on the length. Blueprints may well be nested
in a cycle, and both recursions are cut at the number of blueprints; nothing is
lost, since a blueprint is where its parent says (`Linked`) and a longer way
would pass one twice, hence, back along the parents, the application, which is
in none (`WayShort`). The invariant `RInv` adds that what the router was given
early, when less was declared, is on ways all the same (`OnWays`): ways stay
ways when blueprints are added (`WayWider`).

`Nearest` rests on `sort_error_handlers`, which the start runs once
(`SortErrorHandlersSorts`). Its loop ends because issubclass is an order: among
the classes still in the deque one is a subclass of no other
(`SomeIsFree`: the one with the fewest classes above it), so each pass over the
deque takes one out. What is left is never above what was taken (`Sorting`),
and what is taken last comes first, so no class stands before one it is above of
(`Sorted`). The order is strict only between distinct classes, so the dicts must
hold each class once until then (`Distinct`, in `HandlersListed`); a request
finds the handlers sorted, since a connection is accepted only after the start.
A blueprint that is not the application is never sorted, and `Nearest` promises
no more there than that the handler of the class itself comes first.

`MultipartProofs`, for all forms, contents, boundaries, chunks and limits, from
`BoundaryAssumption` (a boundary has no line end: it is dashes and hexadecimal
digits), `FormsAssumption` (a form has a part, its names are distinct and no
line ends, as the keys of a dictionary are in a header, and no content holds
the boundary, which is random) and `LimitsAssumption`: `TypeCorrect` and
`FormsArrive` (`Parses`). The invariant says where in the body the parser
stands: what is pending is the body from a place of part `i` on, up to what was
fed, the place being the delimiter, the end of the delimiter or the `k`-th byte
of the value (`Placed`), and what was written for a name is whole before part
`i` and `k` bytes of it in part `i`. It holds in torn behaviours too, but for
what was written: the place is then one byte further than the value is long.
The rest is about the encoding: it is cut at known places (`Start`), and the
first boundary, or blank line, that a search finds from a place in a part is
the one that ends it (`BoundaryFirst`), since neither overlaps what stands
around it. So a search that finds nothing tells that the delimiter is not whole
yet, and a flush that keeps `BoundaryLength` bytes cuts off at most the CR
before it, which is exactly what `torn` says. `Exhausted` is needed for the end:
a `feed()` that has returned could do nothing more with what was pending.

Model-checked only: all liveness (`ReadEnds`, `AllServed`, `IdleReaped`,
`StopEnds`, `Settles`, `FeedReturns`, `TakenIn`), which is out of reach of the
prover. So are `TemplateCompiler` and `Templates`, whose trees are defined by
recursion.

## 6. Where the code does not do what it says

Two runs show that a claim of the source is not kept:

- `worker_stuck`: the reaper looks for status 2 where 3 means processing, so a
  worker that is stuck in a handler is not killed (`workers/reaper.py:23` says
  it is), and one with a slow upload is.
- `client_rate`: a limit is "how many requests per period are allowed"
  (`client/limits.py:13`), but lets more through: a request that slept counts
  itself and leaves the cycle to the next one, which begins it and counts itself
  for the first (39-52). A call alone sends up to twice the count, which
  `AtMostDoubled` proves to be the most; calls that sleep together may send more.

Modelled as it is, and left out of the properties where they would fail:

1. A request answered from a synchronous cache leaves the body queue finished;
   the next handler sees the end of its body too early
   (`protocol/cprotocol.pyx:235-240`, against the comment at 269).
2. Body data that arrives after the answer pauses the connection for ever
   (`cprotocol.pyx:262`, against 258-259).
3. After a whole response that filled the write buffer `write_premission`, a
   name that does not exist, is called; `write_permission` itself is never
   cleared (`responses/responses.pyx:81`, `cprotocol.pyx:346`).
4. A route timeout beside an awaited error handler, and a hook that fails behind
   the response, add a second response (`cprotocol.pyx:367`, 187-196). The
   client takes it for the next one; from there on two handlers may run on one
   stream.
5. An upgrade fails on `self.route`, which a connection has not
   (`cprotocol.pyx:83`).
6. A full LRU cache stores new routes under evicted keys (`router/router.py:33`).
7. A miss on a virtual host raises KeyError (`router.py:173`), and `/` redirects
   to itself under the redirect strategy (`router.py:106`). The redirects of a
   route with several prefixes all lead to the last one, as their handler reads
   the variable of the loop when it is called (`router.py:102-103`). A static
   route under a prefix with a parameter stays a static route, whose pattern no
   URL equals (`router.py:84`, 315).
8. A hook for a list of server events stays with its blueprint and so is never
   called at the start (`blueprints.py:37-45`). Hooks of blueprints below the
   first level, and hooks declared after a connection was accepted, are skipped
   unless another hook for the event was found at that time
   (`protocol/cprotocol.pyx:73-76`, `application.py:63-75`).
9. A start hook that returns a value keeps sessions from being set up
   (`server.py:212-223`, `workers/handler.py:42-54`).
10. A flush of the multipart parser keeps one byte too few: a delimiter of which
    only the last byte is missing loses its CR to the value
    (`multipart/parser.pyx:282`). The delimiter is then found one byte after the
    start of what is pending, and the slice that should end two bytes before it
    ends one byte before the end of the data instead (274): the value arrives
    with CR, LF, the delimiter and what else has come, but for the last byte. A
    value over the memory limit raises, as `DiskFile` assigns attributes it has
    no place for.
11. A worker killed between truncation and write, or two that write at once,
    leave a session file that no request can load again (`sessions/files.py:41`).
12. An elif is compiled inside the block of its if, and a macro is emitted too
    late (`templates/nodes.py:115-133`, `compilers/python.py:136`). A template
    that shows nothing compiles to a coroutine, which `render()` cannot iterate
    (status `silent`). `render_exception` counts lines from the entry point and
    compares the count with a line counted from the top, so it goes two or three
    lines too far (three if the template before left a comment behind) and
    takes a tag that begins there (`templates/template.py:49-62`): a loop
    `{% for x in y %}{{ x }}` over what cannot be iterated is reported as
    `{{ x }}`.
13. A change of a template reaches those that use it, not those that use these
    (`templates/loader.py:28`); blocks of a child are put into the tree of its
    parent, which other children show (`templates/ast.py:66`). Templates are
    removed by hash: when one of two files of the same content changes, the
    other is unloaded with it and not found until it is written itself
    (`templates/engine.py:43-50`). The loader catches nothing
    (`templates/loader.py:81-84`): its thread dies of a tag that is invalid, of
    code that Python refuses, of an include that is missing, of a template that
    uses itself, of the use of one that was unloaded as above, and of some edits
    between or during its passes (`templates/engine.py:163`). After a
    compilation that failed, the compiler is not reset, and code and indentation
    are left for the next template (`compilers/python.py:169`, 224): nobody
    compiles one any more, since the thread is dead.
14. `is_dropped` of the client takes every pooled connection for a dropped one,
    as a read of no bytes is never late (`client/connection.py:61`): none is ever
    used twice, which hides that an empty response is released twice. A retry
    after a redirect to another host has the wrong `Host`
    (`client/session.py:78`). `Client` has the check as it is (`IsDropped`), so
    what its properties show of pooled connections is that they are taken,
    checked and closed by one call alone, not that they are used again.

Seen in the code and not modelled: the first pass of the Necromancer
(`workers/necromancer.py:19`), `EncryptedCookiesEngine`, whose methods take
other arguments than they are given (`sessions/client.py:22`), sizes in static
files (`static.py:82`, 115), `DiskCache`, whose `store()` raises, and the
multipart encoder, which refuses to encode a form again for a retry
(`multipart/containers.py:95`), text of a template that holds a backslash, which
is not escaped (`compilers/python.py:71-73`), and an iteration over the
connections of a worker that the reaper changes (`workers/handler.py:72`), which
is one step here.

`NoSocketLost` names the case it excepts: a streaming call that retries on a
status leaves its response behind, as the code does.

## 7. Not modelled, and the plan

Of the client: cookies, URL building, the encoding of requests other than forms,
calls without a timeout or without redirects, and several limits beside each
other, and the instant `now == _next_flush` of `RequestRate`
(`client/limits.py:40`). Of the application: static files and templates in
`initialize()`, the command line, the hooks of the stop, and in `Serve` response
caches and hooks or error handlers that raise; caches and failing hooks and
handlers are in `Connection`, which has them as features. Of a connection: error
handlers that stream their response. Of multipart: the text of headers. Of
templates: expressions and their scopes, `DiskCache` and the Cython compiler. Of
responses and requests: the encoding of heads and cookies, header accumulation.
Static files have a cache of their own and are the next to model; websockets
cannot be reached, as the handshake fails. Response caches are engines of the
user, schemas validate without state between calls, utilities are containers and
pure helpers; the Necromancer has nothing that runs. The C parser under
`vendor/` is not part of this program.
