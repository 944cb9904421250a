# TLA+ verification of go-webserver

go-webserver is a web server library for Go on top of fasthttp and its router.
This directory models the parts of it that are hard to test: the life of a
server, the way a request goes through middlewares and pooled contexts, the
rate limiter, the metrics controller, and the answer that the other middlewares
write together. TLC checks the models on small instances, and TLAPS proves their
safety properties for every instance. Two abstract specifications say what the
server and the limiter promise, and the detailed models implement them.

Line numbers below are those of the repository's files.

## The system

| Component | State it keeps | Operations | Correct when |
|---|---|---|---|
| Server lifecycle (`webserver.go`, `webserver_serve.go`) | `Server.state`, the shutdown channel, the goroutines of `Serve` and of `serveLoop`, the listener | `Start`, `Stop`, a failure of `Serve`, the shutdown with its deadline | one `Stop` sends, nobody waits for itself, the state moves forward, a stopped server is quiet |
| Request pipeline (`request.go`, `request_pool.go`, `request_internal.go`, `webserver_internal.go`) | the pool, the fields of each `RequestContext` | take and free a context, `Next`, the router's endpoint handlers, the error handler | the chain runs in order, on a context of its own, whatever was served before |
| Panic middleware (`middleware/panic.go`) | none | recovers a panic of the chain below it | the request ends as if an error had been returned |
| Rate limiter (`middleware/rate_limit.go`, `storage/storage.go`) | an entry for each key, 16 mutexes | count, limit, refund | no hit is lost, no window lets too many through, every request is answered |
| File server (`Server.ServeFiles`) | `basePath`, one slice for all requests; stores a handler in the context | name the file of a request, answer when there is none | each request opens its own file, the custom not-found handler runs |
| Server options (`Create`) | none after the server is made | checks and defaults | every option is used as documented |
| Metrics controller (`metrics/`) | the rundown protection `rp`, the server, the registry, the health callback | `CreateController`, `Start`, `Stop`, `New...WithCallback`, the health, metrics and profile handlers | no callback runs after `Stop`, `Stop` returns, the internal server is down |
| Debug profiles (`debug_profiles.go`) | a global slice of profiles, and the one CPU profiler of the process | gather and serve profiles, fold one into a flame graph | a profile is stopped by its own request, a flame graph loses no time |
| URL, domain and proxy helpers (`util/`, `trusted_proxy/`, `middleware/helpers.go`) | none | sanitise a path, match a subdomain, find the client's address | agree with their definition for every input |
| CORS, ETag, authentication, cache control, compression, safe browsing, trailing slash, conditional middlewares | their options | what each does to the request and the answer before and after `Next` | a grant of CORS survives errors, a 304 names a current copy, the handler runs only for authorised requests, nobody is redirected twice |
| Generated accessors, adapters, generators, test helpers | none | one-line wrappers | – |

How they interact: fasthttp calls the main handler of the server on a goroutine
for each connection; that handler takes a context from the pool and calls
`Next`, which calls the middlewares of `Use`, then the router. The router calls
an endpoint handler, which stores the handler and the middlewares of the route
in the context, and `Next` goes on with those. The rate limiter and the panic
middleware are middlewares: they call `Next` themselves and act on what is left
afterwards. The metrics controller adds routes to a server of its own or to
one of the application; its alive middleware takes the rundown protection
around the callbacks. A request handler may call `Stop` of the server it runs in, and the
`ListenErrorHandler` runs on the goroutine of the serve loop.

What is hard here: several goroutines and callbacks racing through `Start` and
`Stop`; a shutdown that waits for the handler that asked for it; fields of a
pooled context that are not reset; middlewares that call `Next` twice, or not at
all, or panic; a hit that is given back long after it was counted; a storage
that fails between two steps, after it has done what it was told, or answers
late. `PROJECT.json` lists the hazards line by line, with the property that is
aimed at each.

## The modules

| Module | What it is |
|---|---|
| `WebServer` | `Start`, `Stop`, `serve`, `serveLoop`, the goroutine of `Serve`, requests in flight |
| `OneShotServer` | what `Start` and `Stop` promise, in single steps; `WebServer` implements it |
| `FileServer` | `ServeFiles`: the path of the file of a request, on a running `WebServer` |
| `WebServerProofs`, `FileServerProofs` | their theorems |
| `RequestPipeline` | `Next`, the pool, endpoint and main handlers, the panic middleware, the not-found handler of files |
| `RequestPipelineProofs` | its theorems |
| `RateLimiter` | the middleware, its storage, its mutexes, its clock |
| `AtomicLimiter` | what it promises, in single steps; `RateLimiter` implements it |
| `LimiterClients` | whom it counts: `RemoteIP`, trusted proxies and their headers |
| `RateLimiterProofs`, `LimiterClientsProofs` | the theorems about `RateLimiter`, that it implements `AtomicLimiter` among them, and about `LimiterClients` |
| `MetricsController` | the controller's creation, `Start`, `Stop`, registration and requests, composed with `WebServer` |
| `FlameGraph` | `createFlameGraph`, and what a flame graph is |
| `MetricsControllerProofs` | the theorems about `MetricsController` and `FlameGraph` |
| `Middlewares` | the other middlewares around a handler, and a client that stores answers and follows redirections |
| `UrlPath` | `SanitizeUrlPath`, which `Middlewares` and `FileServer` use |
| `MiddlewaresProofs` | the theorems about `Middlewares` |
| `FoldProofs` | induction, what `FoldLeft` computes, and `SanitizeUrlPath` |
| `MCWebServer`, `MCFileServer`, `MCRequestPipeline`, `MCRateLimiter`, `MCLimiterClients`, `MCMetricsController`, `MCMiddlewares` | instances for TLC |

Definitions that start with the comment "Mutant:" are not part of a
specification. Each is a definition of the model as a plausible mistake would
have it, used to see that a property notices the mistake.

### WebServer

`pc[p]` is where process `p` is: a goroutine of the application (`Callers`), a
connection that fasthttp serves (`Workers`), or the goroutine of `serveLoop`
(`Loop`). All three may call `Start` and `Stop`, the last one from the
`ListenErrorHandler`. `state`, `signal`, `ch` and `listener` are the fields and
local variables of that role; `serve` is the goroutine of `webserver_serve.go:31`
and `shutdown` the call of line 58. One action is one atomic operation of the
code: the two CompareAndSwaps, each store to the state, each send and receive,
the end of the spin. A `Start` that fails to listen goes back to not started, as
line 291 of `webserver.go` does. A `Start` or `Stop` that loses its
CompareAndSwap changes nothing and is a stutter.

fasthttp is external. What is used of it: `Serve` registers the listener before
it accepts; `ShutdownWithContext` closes the registered listener, or returns at
once when there is none, then waits for the open connections until the context
ends; `Serve` returns nil when its listener is closed.

`shutdownCompleteSignal` (`webserver.go:46`) is made and never used. It is left
out.

**What it implements.** `OneShotServer` is the promise: a phase (off, up,
stopping, and then drained or abandoned), who is stopping it, and the requests
in flight. `ImplementsOneShot` maps `WebServer` to it: `Phase` is `state`, with
how the shutdown ended; `Stoppers` the processes between the CompareAndSwap of
`Stop` and its return; `Serving` the busy connections. Everything else (the
channel, the two goroutines, the spin, the deadline, a `Start` that fails to
listen) must look like nothing from outside, whichever of `Stop` and a failing
`Serve` gets there first. `GoesDown` is the fairness of `OneShotServer`: a server
on its way down gets there, and its `Stop` returns, with nothing assumed but the
fairness of `WebServer`. A server may be "abandoned" with requests in flight by
the deadline, by a failure of `Serve`, and by the `Stop` that comes too early.

### FileServer

`FileServer` extends `WebServer`: a request that the server handles may look for
a file, and everything else is a step of the server (`ServerStep`). A path is the
sequence of the parts between its slashes. `Rewritten` is what fasthttp's
slash stripper makes of the path, with the number of slashes that line 409
counts, and `BasePath` is `FSBasePath` as lines 414–424 leave it.

Line 436 appends to `basePath`, which all requests share. When Go has allocated
more than `FSBasePath` needs, a path that fits is written behind it, in place,
and the slices of two requests are one piece of memory until fasthttp has made a
string of its own. `PathRewrite` is the call that finds the room (or a new array,
whose request is alone), `Copy` writes the next part, also into the path of
another request that is there, and `Open` is fasthttp's copy. `crossed` is
history: the requests that were in the shared array with another one. What
such a request opens may be the file of the other; `OwnFile` says that all others
open their own. Without that exception TLC refutes it within a few steps. `append`
copies bytes; the model copies parts of a path, which is enough to mix two paths.
How much room Go leaves is a bound of the instance (`room` of a site), as it
depends on the length of `FSBasePath`.

### RequestPipeline

`ctx[c]` has the fields of a `RequestContext` that `Next` reads. Slices are
known by their length (nil is 0), handlers by what they serve. Each call of
`Next` in progress is a frame of `stack[w]` that names the code the call runs.
`Next` is an action for each branch (`RunSrv`, `RunRouterMatch`, `RunRouterNil`,
`RunRouterAnswer`, `RunMw`, `RunHandler`, `InvalidNext`) and one for its return.
Between them user code may do anything the interface allows: call `Next` any
number of times, return an error or not, set the status, set the user's context,
panic. The router is external: it finds a route, finds a nil handler, or answers
itself. A custom `NotFoundHandler` or `MethodNotAllowedHandler` of the server
goes through `createEndpointHandler`, so it is a route without middlewares here.

An object of the pool is taken as it was put there, or a new one is made. A
panic unwinds the stack to the innermost `NewPanic`, without the decrements it
passes; without `NewPanic`, or with `http.ErrAbortHandler`, the process ends.
`spoiled` is a history variable: the contexts in which that has happened, whose
index may be too high for ever after. Nothing reads it but the properties, which
promise the order of the chain to the requests of the other contexts.
Everything is registered before the server starts; `Use` while requests are
served is a data race, listed as a hazard and not modelled yet.

### RateLimiter

One step is one action: lock, load, count, save and unlock, the rest of the
chain, lock again, load again, refund and unlock. The storage may fail at each
of its calls, and a save may fail after it was done. `store[k]` is the stored
entry with the second in which an external storage drops it; the cache in memory
keeps entries. The windows are whole seconds of the clock, but the storage counts
from the moment of `Set`, somewhere within a second (`rate_limit.go:249`), so in
the second in which it expires an entry is found by some loads and not by others:
`Loaded` leaves that open, load by load. `Tick` is the wall clock, which may move between any two steps
unless `Prompt`. `counted` and `refunded` are history: which window (by its end)
counted a request, and which gave it a hit back. They are written where the
store is, and nothing reads them but the properties.

Left out: entries that the cache evicts when full (an eviction only forgets
hits), a wall clock that is set back, one storage shared by several processes
(their mutexes are not shared, and updates are lost), a storage that panics, the
wrap of 32-bit counters.

**What it implements.** In `AtomicLimiter` a request is counted and judged in one
step, with no mutex, storage or copy of an entry, and gives its hit back in one
step. `ImplementsAtomic` maps the stored entries to its windows, and a request
is counted when its entry is saved. How much the window before still weighs is
open in `AtomicLimiter`, between nothing and all of its hits; the exact weight
is `RateLimiter`'s. The storage may drop an entry whose window is over before it
is loaded again, and so the hits before it, which `WithHit` allows.

### LimiterClients

Without a `KeyGenerator` the limiter counts under `RequestContext.RemoteIP`. The
module takes the keys of `RateLimiter` for addresses, and a request arrives with
its peer and two headers. A header is the sequence of its spaces, commas and
words; `Scan` is one step of the loop of `getFirstIpAddress`, and `Address` what
it does at the end of each part of the list; `Walk` is what the loop knows
between two steps. `client` is history: whose request
it is, by a definition without a loop (`ClientOf`): the first part of the list
that is an address and nothing else, if the peer may say so. `Proxies` are the
entries of `TrustedProxies`, texts that are compared with `ip.String()` or ranges;
a range that does not parse is an empty one.

A key is the address as bytes. An IPv4 address has two forms: four bytes, as a
peer has it, and sixteen, as `::ffff:192.0.2.1` in a header is parsed to. `Text`
is `ip.String()`, which is the same for both (the entries of `TrustedProxies` that
are texts are compared with it). `rate_limit.go:34` speaks of
`RemoteIP().String()`, but line 89 takes the bytes. `ClientLimit` is what holds,
of an address in one form; `OneLimitPerClient` is what line 34 says, of a client
in either form, and TLC refutes it within one window as soon as an address has
both: it is a property of no run, and `OneFormTheorem` says where it holds.

### MetricsController

`MetricsController` contains an instance `Srv` of `WebServer`, whose variables
it shares: its requests arrive and end by `Srv!RequestArrives` and
`Srv!RequestEnds`, and its `Start` and `Stop` call those of the server.
`internal` says whose server it is. `at[p]` is where a process is in the code of
the controller: a user (a goroutine, or the `ListenErrorHandler` on `Loop`) is
in `Start` or at one of the steps of `Stop` (close `rp`, wait, check the server,
stop it, clear it, clear the rest); a request is in front of the alive
middleware, past it (`inside`), in a handler (`gathering`) or in a callback of
the application (`calling`). Fields that are only compared with nil are
Booleans. Middlewares may answer themselves (`Refuse`). A panic releases `rp`
by the deferred call and is recovered by a `NewPanic` before it or ends the
process, like a use of a nil pointer outside of a request (`Crash`): a second
`Stop`, or a `Start`, that reads `mws.server` after another `Stop` has cleared
it does that, and so does a `New...WithCallback` after `Stop`.

`CreateController` is one step: nobody else has the controller yet, and a shared
server has not been started. The rundown protection, promhttp and the registry
are external: `Acquire` fails once `Wait` was called, `Wait` returns when nobody
holds it, a registry calls the callbacks one after the other in the goroutine of
the request, and promhttp answers itself when `MaxInFlight` requests are being
served.

The pages of `ServeDebugProfiles` stand behind the alive middleware too. The
process has one CPU profiler (`profiler`): `ProfileCPU` takes it, or fails when
it is in use, and `ProfileEnds` stops it, after the seconds asked for or when the
server shuts down. A profile that is wanted as JSON becomes a flame graph:
`sampled` is the profile that a request has gathered, out of `Profiles`.

`FlameGraph` translates `createFlameGraph`: a fold over the samples (`AddSample`),
and for each a walk from the root over its `Locations`, outermost first (`Visit`).
A node is known by the names on the way to it. `GraphOf` says what the graph is without a walk: a node
for each way some stack goes, the time of the samples that go there, and the
time of those that end there. A sample whose innermost location has no name is
nobody's own time: line 305 is not reached for it.

`over` is history: a `Stop` has returned, or the one that a failing
`CreateController` calls. A failed creation leaves the routes it added on a
shared server; they answer 503.

`Start` and `Stop` of the controller at once, from two goroutines, can leave the
internal server running after `Stop`: `Stop` finds the server not running yet
and forgets it. Nothing says the two may be called at once, and `StopTheorem`
says that this is the only way: as long as no goroutine is in `Start` while
another is in `Stop`, any number of them may call either. The instance has one
goroutine of the application, which calls them in any order, and the error
handler, which calls them only when the server is already going down.

### Middlewares

`server.mws` is the chain of `Use`, in any order and with repetitions, the
router and the handler behind it. `pos` is the middleware that runs or resumes,
`at` the direction: "down" before `Next`, "up" after it. Requests do not mix
(`RequestPipeline` shows it), so there is one at a time. `resp` has what the
middlewares tell apart: the status, where the body comes from and whether it is
compressed, the tag, and a set of kinds of headers. A middleware's part before
`Next` ends with `GoOn` (it calls `Next`) or `Return`; only ETag and compression
have a part after it. `Error` is the way every error is answered: it starts the
answer again and keeps what `preservedHeadersOnError` lists. `Finish` is the
main handler with the default `RequestErrorHandler`.

`AllowedOrigins` is the first half of `NewCORS`. Line 90 of `cors.go` compares
the scheme of an origin after "://" was added to it, so that every origin but
the empty one and `*` panics; `Build` ends there. That leaves two kinds of
CORS: any origin, and nobody (a list of empty strings). `match` and
Allow-Credentials are never reached.

The tag is the length and the CRC of the body. The model takes them to differ
for different bodies. `If-None-Match` names up to two tags that the client has,
each weak or not, and `Matches` compares them as the two branches of
`etag.go:76-96` do.

A path is the sequence of the parts between its slashes and backslashes;
`UrlPath` folds `Keep` over it as the loop of `util/uri.go` does. What comes out
goes through fasthttp's `SetPath` (`trailing_slash.go:49`), which decodes escapes
and makes the path a normal one, as fasthttp has done before when the request
came. `Unescape` gives the parts that still have an escape in them, and what they
decode to: a slash or a backslash may come out of one (`/a%2f/`, which the client
has sent as `/a%252f/`), and so may two dots. `SetPath` knows only the slash, so
it takes the backslashes of a segment as they are. `from` is history: the path
that was redirected to the one asked for now. `RedirectOnce` says that nobody is
redirected again unless `from` had something left to decode; without that
exception TLC refutes it, by `/a%2f/`.

The handler of the application (`Handler`) writes a body or none with status 200,
answers with `Error`, or returns an error. `FilesHandler` is the one that
`ServeFiles` makes (`webserver.go:441-448`): it lets fasthttp's file server
answer, with the file, a part of it or a redirection to a directory, or with
fasthttp's own `Error` (400, 403, 404, 416, 500) or `NotModified`, which reset
the answer. Those answers, and the router's own errors, are `plain`, and have lost
all the middlewares have written: `ReadableByScripts`, `CacheControlKept` and
`FreshCopy` leave them out. `ReadableByScripts` also leaves out an OPTIONS
request without Access-Control-Request-Method, for which CORS sets Vary and
nothing else.

The router, fasthttp's compression, the validator of keys, the evaluator of a
condition and the client are external, and each may do all that its interface
allows. Left out: the values of headers, where a key is found, an `ErrorHandler`
of `AuthOptions` that calls `Next` itself, middlewares of a route (they would run
behind the router, as `RequestPipeline` models them), a handler that resets the
answer itself or chooses other statuses, and `NewPanic`: that middlewares are
skipped after a recovered panic is in `RequestPipeline`, and nothing here is
claimed of a request that meets it.

`reached`, `passed`, `served` and `from` are history. Nothing reads them but the
properties.

## The runs

All bounds are in the `.cfg` files.

| Run | Shows | Instance and why it is enough |
|---|---|---|
| `server_race` | the safety and liveness of `Start` and `Stop`, what they implement, and the files of requests | three callers, two connections, the error handler: three racing Stops are one more than the channel and its receiver can hide; four calls of `ServeFiles` (a route of one part, of two, the root, and one that is refused; `FSBasePath` with and without slashes, or none; room for one or two parts) and three files, one of which does not fit the smaller room; no bound on the behaviour |
| `server_early_stop` | *violation* | the shortest race of a `Stop` with the goroutine of `Serve` |
| `pipeline_safety` | order, exclusive use, clean reuse, whatever panics `NewPanic` recovers | two connections and two contexts give reuse and crossing, of a spoiled context too; two middlewares of the server, `NewPanic` first, and routes with none, one and two give every boundary of the index, and a route with more middlewares before one with fewer |
| `pipeline_panic` | *violation* | one connection that fails once and is reused |
| `pipeline_files` | *violation* | one request for a file that does not exist |
| `limiter_window` | the limit, for keys and for addresses, no lost hit, the refinement | three requests, three addresses (a trusted proxy, and a client in the two forms of its address), all headers of up to four spaces, commas, addresses and other words, one mutex, a limit of one, and eight seconds of windows of two: a window can be full, half decayed, followed at once or after a gap, or be over for a whole window when its entry is loaded in the second it expires in |
| `limiter_skip` | refunds, headers, windows, liveness, the refinement with refunds | three requests of one key, a limit of one, outcomes of every kind, a storage that fails, and a clock that moves while it is called |
| `metrics_stop` | callbacks and CPU profiles against `Stop`, which returns and stops its server; flame graphs | one goroutine and the error handler, two requests, one metric, one metrics request at a time, and three profiles (a function with two callers, recursion, unnamed locations): a request can be at any step of its way at any step of `Stop`, a second one refused or panicking meanwhile, and two `Stop`s can be in progress |
| `middleware_chains` | what the middlewares promise together | five chains of three or four, with each middleware before and behind those it might disturb; weak and strong tags, both directions of the trailing slash, with and without redirection, two contents that alternate, paths with dots, backslashes and escapes; a sixth server panics; no bound on the number of requests |
| `limiter_memory` | *violation* | a pause longer than two windows |
| `limiter_failed` | *violation* | one handler that returns an error |
| `limiter_subsecond` | *violation* | two requests and an expiration of half a second |

The violations are disagreements between the code and its own documentation.
`PROJECT.json` has them under `findings`, with the lines:

- A `Stop` in the first moments of a server shuts nothing down: fasthttp does
  not know the listener yet. The server says it is stopped, and goes on
  accepting (`webserver_serve.go:58`).
- A panic that `NewPanic` recovers leaves `middlewareIndex` too high in a context
  that goes back to the pool. The next request that gets the context skips that
  many middlewares, whatever they were for (`request.go:251`).
- The `NotFoundHandler` of `ServerFilesOptions` is stored and never run
  (`webserver.go:403`).
- With the cache in memory a key that was once over its limit is limited again
  on its first request after any pause (`rate_limit.go:275`).
- `SkipFailedRequests` does not skip a request whose handler returned an error
  (`rate_limit.go:181`).
- An `Expiration` below one second leaves a mutex locked for ever
  (`rate_limit.go:144`), when a `NewPanic` further out recovers the division by
  zero; without one the process ends.

`WindowLimit` is checked without `SkipFailedRequests`. With it, a request that
fails after its window takes a hit out of the window of others, which then lets
one more through. A request should be limited only if the window it belongs to and
the one before let that many through (`LimitedMeansBusy`). The cache in memory
does not see to that (`limiter_memory`), and an external storage not quite: TLC
refutes `LimitedMeansBusy` for it too. What holds is `LimitedMeansRecent`, with three
windows: an entry may be loaded in the second it expires in, a whole window after
its own has ended, and then counts in full. It is checked with a storage that
answers within the second (`Prompt`), since a load that takes longer than a window
sees an entry that was to be dropped, and without refunds, each of which makes
the storage keep the entry longer.

`CacheControlKept` speaks of answers that are not errors: `Error` drops
Cache-Control. The errors that the router and the file server answer by
themselves (`webserver.go:233`, `242`, `442`), and the latter's 304, keep no header.

Disagreements that have no run of their own, because a property that holds of
the rest excepts them, and TLC finds them when the exception is left out:

- `ServeFiles` says nothing of requests that are served at once, but the shared
  `basePath` mixes their paths (`webserver.go:436`, `OwnFile`; see FileServer above).
- With an external storage a key may be limited for hits that belong neither to its
  window nor to the one before, in the second in which its entry expires: Max requests at
  12:00:00.9 with windows of a minute, and one at 12:02:00.5, which still loads
  the entry and counts its hits in full (`rate_limit.go:249`, `275`,
  `LimitedMeansRecent` with two windows instead of three).
- A client whose IPv4 address comes in both forms has the limit twice
  (`rate_limit.go:34` and `89`, `ClientLimit`).
- A path that was encoded twice is decoded twice. With Remove and a redirection a
  client that asks for `/a%252f/` is sent to `/a/`, which still has the slash that
  line 14 says is removed, and from there to `/a` (`trailing_slash.go:49`,
  `RedirectOnce`).

Two options of the server, `StreamRequestBody` and
`DisablePreParseMultipartForm`, are never handed to fasthttp.

CHECK_DEADLOCK is off in `limiter_subsecond`, where requests do block, in
`metrics_stop`, where a crash ends the process and a failed creation may leave
nothing to do, and in `middleware_chains`, where `NewCORS` may panic.
Elsewhere the ends (a stopped server, a crashed process, all requests answered)
are actions that change nothing.

## Fairness

`WebServer`: the goroutines of the library are scheduled, one weak fairness
condition for each; `Timeout` is one of the steps of the loop, because the
deadline of a context always passes. Nothing is assumed of the application: it
need not call anything, and a handler need not return. `Serve` must return once
its listener is closed. The `ListenErrorHandler` is assumed to return.

`RateLimiter`: the chain and the storage return (weak fairness of each request's
steps), and a goroutine that waits for a mutex gets it (strong fairness of
`Lock`): after a millisecond of waiting `sync.Mutex` is handed over directly.
`Arrive`, `Tick` and failures of the storage have no fairness.

`MetricsController`: the goroutines in `Start`, `Stop` and the requests are
scheduled, middlewares and callbacks return, and no callback calls `Stop`, which
would wait for it: without that `Stop` need not return, and the code cannot
provide it. The `ListenErrorHandler` returns, so between its calls of the
controller the loop goes on: strong fairness of `LoopStep`. A CPU profile ends,
because its timer does.

`FileServer` adds no fairness to that of `WebServer`: a request may look for files
for ever.

## The proofs

TLAPS checks every proof, from the assumptions that the modules name:
`ProcessesDistinct`, `PipelineAssumption`, `LimiterAssumption`,
`ControllerAssumption`, `ServersAssumption`, `FilesAssumption`. They say that
parameters have the types the code gives them and that distinct things are
distinct; no set is assumed finite. `ClientsAssumption` says so of addresses,
headers and proxies. Where a theorem needs more, it says so itself: four about
the limiter, two about `Stop` of the controller.

**Folds.** The code walks along paths, headers and profiles, and the models do so
with `FoldLeft`. The library's induction theorems take an operator, which the
provers cannot instantiate. `FoldProofs` gets induction over sets of numbers from
the well-foundedness of `<` (`Least`, `Upwards`), and from that of the order of
sets, over which `FoldLeft` recurs, that a fold goes through values each made
from the one before (`FoldedLeft`, `FoldedAppend`). A proof about a walk then
names what holds between two steps of it, as one would of a loop.
`CleanPathTheorem` is the first: whatever `SanitizeUrlPath` is given, it refuses
it, or what it gives has neither empty parts nor dots, and ends as it was told to.

**WebServer.** The invariant says who may be where in each state: one process at
a time is in `Start` and no serve loop exists until it ends; one process over
the life of the server is between the CompareAndSwap of `Stop` and its return,
and its signal is on its way, in the channel, or taken. None of the properties
is inductive alone: that the channel has room, for instance, rests on the state
not going back to running, which rests on there being one `Start`. Theorems:
`TypeCorrect`, `SignalTheorem`, `HandlerStopTheorem`, `DrainTheorem`,
`ForwardTheorem`, `StopTheorem`. `OneShotTheorem` (`ImplementsOneShot`) goes
through the actions once more: each is a step of `OneShotServer` or changes
nothing that it sees, given the invariant.

**FileServer.** `FilesAreRequests` shows that the server with the file handler
does nothing that `WebServer` does not, so all of the above holds of it.
`StripTheorem` is the arithmetic of the slashes: what is stripped is the route,
for every route and every rest. `OwnFileTheorem` (`OwnFile`) rests on the
invariant that a request in the shared array that has met nobody has there a
prefix of its own path, and is alone. Routes are any paths: that what
`SanitizeUrlPath` makes of one is a path follows from `CleanPathTheorem`.

**RequestPipeline.** The invariant says that `middlewareIndex` is the number of
calls of `Next` in progress, that a context in use has the lengths of its own
request once the router has run, and that its owner is alone. Of a context that
a recovered panic has spoiled it says less: its index is at least that number,
which is what keeps it from going below zero (`TypeCorrect`). A lemma for each
way a step can move the chain (`WithinOK`, `StandingOK`, `PushOK`, `UnwindOK`)
carries the lemmas about the actions. Theorems: `TypeCorrect`,
`ExclusiveTheorem`, `OrderTheorem`, `TargetTheorem`, `PooledTheorem`, for any
number of connections, contexts, routes and middlewares, with `NewPanic` at any
places of the chain. Without the exception for spoiled contexts the order is
lost, as `pipeline_panic` shows.

**RateLimiter.** The invariant says what the holder of a mutex knows: its entry
is the stored one, or blank because the storage dropped a window that is over;
when it is about to save it adds one hit to the stored window or starts a later
one. It ties the history to the store: no request is counted in a window later
than the stored one, and what a window has counted is finite. `HitsTheorem`
(`NoLostHit`) then follows by counting: a save adds one request to one window,
a refund one to the other set. `LimitTheorem` (`WindowLimit`) adds that the
requests a window let through are among those it counted and the last of them
saw how many they are. It assumes `SkipFailed = FALSE`, without which it is
false. Also `TypeCorrect`, `HeadersTheorem`, `ForwardTheorem`. `AtomicTheorem`
(`ImplementsAtomic`) uses the same invariant: a save counts a request in the
window that is stored at that moment, because its entry was loaded from there
under the mutex that it still holds. `BusyTheorem` (`LimitedMeansRecent`) goes the
other way: the hits that a stored window takes over are those of requests that the
window before it counted, and an entry that is being counted was still there, so
that it expires in this second at the earliest and its window ended at most one
window ago (`BInv`); with the window itself that makes three. It assumes what
the run assumes, and the code cannot do without: an external storage, which drops
what is over (the cache does not, as `limiter_memory` shows), answers within the
second (`Prompt`), and no refunds, each of which keeps an entry longer.

**LimiterClients.** `FirstAddressTheorem` says of every header, however long, that
the loop of `getFirstIpAddress` finds the first part of the list that is an
address; `WalkOK` is what the loop knows: it has found the first address, or no
part before this one has any, and of this one it knows the first word and whether
another follows. `RemoteTheorem` makes
of it that `RemoteIP` is the client, as a definition without a loop has it, and is
an address. `ClientTheorem` (`ClientLimit`) puts `LimitTheorem` and `BusyTheorem`
on top, under the same three assumptions: a key is one address in one form, so it
is limited for its own requests only, and no window lets more of them through.
`OneFormTheorem` (`OneLimitPerClient`) is the limit that the documentation
promises to a client: it needs no promptness, but that no address comes in two
forms, which cannot be left out.

**MetricsController.** The invariant is the argument of the rundown protection:
a request past the alive middleware holds it, a `Stop` past its wait has seen
that nobody does, and nobody acquires it once it is closed; before the creation
there is no request. `CallbackTheorem` (`NoCallbackAfterStop`) and `SetTheorem`
(`CallbackIsSet`) hold for any number of goroutines that call `Stop` at once,
although the instance of the run has two, and whatever the server does: no step
of the server touches what the invariant speaks of. `ProfilerTheorem`
(`ProfilerOwned`) is an invariant by itself. `ShutdownTheorem`
(`ShutdownCutsNothing`) adds that the controller's own server is told to shut down
only by a `Stop` past its wait. Also `TypeCorrect`, for the controller's variables.

`ServerTheorem` says that a step of the controller is a step of the `WebServer` it
uses, or leaves that alone. So that server is one of `WebServer`'s, and the
invariant of `WebServerProofs` holds of it (`ServerInvariance`, through an
instance of that module with its theorems).
`StopTheorem` (`StopStopsServer`) needs both invariants and a third (`SInv`): the
controller's own server is started by the controller only, what a `Stop` is
stopping is on its way down, and the controller forgets a server only when it
neither runs nor is about to. `NotAtOnce` is its hypothesis, a
condition on the callers and not on the code; it is false of users that do call
`Start` and `Stop` at once, and then so is the property. `AloneTheorem` is the
case in which it holds by itself: one goroutine of the application and the error
handler.

`FlameGraphTheorem` is about `createFlameGraph` alone: for every profile, of any
number of samples and any depth of their stacks, the graph it makes is `GraphOf`.
The walk of one sample is an induction over its locations (it stands at the calls
seen so far, and has added the value to each way on the path), the profile one over
its samples. `ExactTheorem` (`FlameGraphExact`) says so of every graph that the
controller serves.

**Middlewares.** The invariant says which middlewares have run: all those before
the current one on the way down, and on the way back those up to the one that
turned back; and that the answer still has what each of them has written
(`HeadersOK`), which authorizations the request has passed (`PassedOK`), and that
a preflight request has turned back at the first CORS with an answer that
neither ETag nor compression changes (`PreflightOK`). Three lemmas say what a
step may do to the answer: one that goes on (`GoOnOK`), one that turns back
(`TurnOK`), one on the way back (`ReturnOK`). Theorems: `TypeCorrect`,
`ReadableTheorem`, `CacheControlTheorem`, `GuardTheorem`, `PreflightTheorem`,
`FreshTheorem`, for every chain of any length, any contents and paths. The last
(`FreshCopy`) has an invariant of its own: a tag is that of the body it stands
with, the body is what the handler wrote or an error's, and the tags a client
names are those of its copies. `RedirectTheorem` (`RedirectOnce`) uses
`CleanPathTheorem`: what `SanitizeUrlPath` gives is a clean path, whose trailing
slash is as the middleware wants it. If nothing in it is left to decode,
`SetPath` makes of such a path the same one (`SetPathKeeps`): its segments are
the names themselves, none of them empty or dots, and the walk over them keeps
each. That nothing is left is an invariant too: the names of a clean path are
among those of the path it was made of. So the location is clean and ends as it
should, and when the client asks for it the middleware leaves it alone. The
theorem is about every value of `Unescape`.

Only model-checked: the liveness properties (`StopReturns`, `ServeGoroutineEnds`,
`GoesDown`, `EveryRequestAnswered`, `StopCompletes`), as the provers know neither
fairness nor ENABLED. Every other property of the passing runs is a theorem. The
properties of the runs that end in a violation are false, and
`SkipFailedRequests`, the cache in memory and a slow storage are left out where
the theorems about the limiter say so.

## Not modelled

- `Use` and the route methods while requests are served (`webserver.go:321`): a
  data race in the middleware slice and in the router's tree, which is external.
  Everything is registered before `Start`.
- Two `ServeDebugProfiles` at once (`debug_profiles.go:45`): it belongs to the
  set-up too.
- `Create` and its options: one independent decision each, before a server exists.
- `Host`, `Scheme` and the accessors of `RequestContext`, which only read the
  request, and `DoesSubdomainMatch`: nothing in the library calls them.
  `fastUint2Bytes` writes the digits of a number.
- How `Error` keeps headers in memory that was given back (`request.go:81`):
  aliasing of bytes below the level of the models.
- Overlapping calls of the controller's `Start` and `Stop` by goroutines of the
  application: modelled, and the processes may crash there, but nothing is
  promised of them.
- Generated accessors, adapters and constants (no state), how fasthttp compresses
  and serves files, generators and test helpers (not part of the program),
  wording and layout of answers.
