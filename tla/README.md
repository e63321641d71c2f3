# Formal model of image-optimize-proxy

TLA+ specifications of the image optimisation proxy in `src/`, the TLC runs that
check them and the proofs that TLAPS checks.  The proxy is an HTTP server in
front of an imgproxy sidecar: it looks a request's image up in an S3 bucket, and
on a miss fetches, transforms, answers and stores it.

    request -> middleware chain -> mux -> /health, /ready, /metrics
                                       -> ServeHTTP (below) and back up the chain

               ServeHTTP -> Cache.Get (S3) -> hit: stream it
                         -> Coalescer.Do -> process (one per key, in its own goroutine)
                                             -> Resolve, HEAD
                                             -> imgproxy, or the original as a fallback
                                             -> temporary file -> AsyncPutCache.PutFile
                                                                   -> background upload to S3
             <- every caller of the key gets the result of the one process

The program keeps little state, but what it keeps is shared by goroutines with
different lifetimes: a *request* lives as long as its client, a *flight* (one
execution of `Handler.process`) outlives the request that started it, and a
*background put* outlives the flight.  Most of what can go wrong lies in between.

## 1. The system

| Component (source) | State | Operations | Interacts with |
|---|---|---|---|
| Request coalescing (`coalesce/coalesce.go`, over `x/sync/singleflight`) | the group's map of calls, each call's list of channels, one one-slot channel per caller | `Do` | called by the handler with the request's context; runs `process` in a goroutine |
| Asynchronous cache writes (`cache/async.go`) | semaphore, WaitGroup, in-flight gauge, the temporary files it has taken over | `Put`, `PutFile`, `Get`, `Wait`, `WaitContext` | called by a flight; calls `S3Cache` from background goroutines; drained by `main` |
| S3 cache (`cache/s3.go`) | the bucket | `Get`, `Put`, `PutFile`, `KeyFromRequest` | called by the two above |
| Image handler (`handler/handler.go`, `contenttype.go`) | each request, each flight, its temporary file | `ServeHTTP`, `process`, `passThrough` | composes everything above with the resolver and the imgproxy client |
| Parameters (`handler/params.go`) | none | `ParseParams` | gives the cache key its width, format and quality |
| Upstream resolver (`upstream/resolver.go`) | the presigner | `Resolve`, the HEAD and fetch closures, the retry loop | called by a flight under the context of its leader's request |
| imgproxy client (`imgproxy/client.go`) | none | `Transform` | called by a flight |
| Server lifecycle (`cmd/server/main.go`) | the signal, the shutdown deadline | start, routes, `Shutdown`, `WaitContext`, exit | builds and ends everything above |
| Middleware (`middleware/*.go`) | the headers, the status that Logging's wrapper has seen, the span | six wrappers, down and up, and what a panic leaves of them | around the handler |
| Configuration (`config/config.go`) | the environment | `Load`, `Validate` | read once by `main`; the key and the chain use it |
| Metrics (`metrics/metrics.go`) | counters | one `Inc` each | moved by the handler and the pool, read by the chart's alerts |
| Tracing, request id, transport | values in a context | | observed only |
| Helm chart, Dockerfile, pipelines | none | | the values of the timeouts |

What is hard, and what makes each component correct:

* **Coalescing.**  A caller may ask for a key at any moment of a flight's end,
  its client may go away at any moment, and the result and the cancellation may
  be ready together.  Correct: one flight per key at a time; a caller that waits
  is registered with a flight of its own key or has its result already; a result
  reaches every caller that waits; the send under the group's mutex never blocks.
* **Asynchronous writes.**  Two counters and a WaitGroup move one after the other
  around a `go` statement and four deferred calls, while other puts and a drain
  run.  Correct: the pool is bounded and a put is dropped only when the pool is
  full; the gauge lies between the uploads in progress and the slots taken; the
  file exists while an upload may read it and not when the job is over; a drain
  that reports success has waited for what was there.
* **Handler.**  Ten ways to fail, each with its own cleanup, and work done under
  one client's context on behalf of others.  Correct: S3 never holds anything but
  a whole transformed image; a failure of imgproxy or the cache costs nobody the
  image; each reply says the truth about where it comes from; every temporary
  file has an owner; every request is answered.
* **Shutdown.**  `srv.Shutdown` waits for requests, `WaitContext` for background
  puts, and nobody for a flight between the two.  Correct: the process ends in
  time; what it cuts off it reports.
* **Resolver.**  A loop of three attempts with backoff, ended by some errors and
  not by others, under a context that may end at any moment.  Correct: it returns
  what the last attempt said, in bounded time, with every response body closed.
* **Start and chain.**  `main` builds everything from numbers and lists an operator
  typed; the chain sets headers on the way down and writes the log on the way up,
  which a panic cuts short.  Correct: what `Load` lets through is in range; every
  reply, a rejection and a recovered panic too, carries the id and the security
  headers; the log line and the sample tell what the client was sent; every span
  ends.
* **Keys.**  Widths of integers, clamping, defaults.  Correct: the key is the nearest
  image to the one asked for, of a bounded number per path, and asking for what it
  says finds it again.
* **Metrics.**  Counted on paths that fail later, per reply here and per flight there.
  Correct: what the alerts read is what happened.

## 2. The modules

| Module | Models | Role |
|---|---|---|
| `Coalescer` | what coalescing promises | abstract specification |
| `SingleFlight` | `SingleFlight.Do` with `singleflight.Group.DoChan` and `doCall` | implements `Coalescer` |
| `PutPool` | what the pool of background writes promises | abstract specification |
| `AsyncPut` | `AsyncPutCache` around `S3Cache` | implements `PutPool` |
| `ImageService` | what the service promises clients and cache | abstract specification |
| `Handler` | `Handler`, composing `SingleFlight` and `AsyncPut` by `INSTANCE` | the system; implements `ImageService` |
| `Metrics` | the counters, moved by the steps of `Handler` | extends `Handler` |
| `Shutdown` | `main` from the signal to the end of the process, extending `Handler` | the system and its end |
| `Source` | what the resolver promises the handler | abstract specification |
| `Resolver` | `DefaultResolver`: `Resolve`, HEAD, `fetchHTTP`, `doFetch` | on its own; implements `Source`, whose calls are the steps `Handler` takes |
| `Config` | `config.Load` with its helpers, the defaults, `Validate` | operators |
| `Params` | `ParseParams`, the cap on the width, `KeyFromRequest` | operators over `Config` |
| `Front` | `main` up to the listener, the middleware chain, the mux and its small handlers | the system in front of `Handler` |
| `MCSingleFlight`, `MCAsyncPut`, `MCHandler`, `MCMetrics`, `MCShutdown`, `MCResolver`, `MCFront` | | instances for TLC |
| `SingleFlight_proofs`, `AsyncPut_proofs`, `Handler_proofs`, `Replies_proofs`, `Metrics_proofs`, `Shutdown_proofs`, `Resolver_proofs`, `Front_proofs` | | theorems |

**SingleFlight.**  A caller is one invocation of `Do`.  `Lead` and `Join` are the
two outcomes of `DoChan` (both happen under the group's mutex, so each is one
step); `Finish` is the end of `fn` together with the part of `doCall` that
forgets the call and sends its result, which is one critical section;
`ReturnResult` and `ReturnCancelled` are the cases of the `select`, both possible
when both are ready; `Cancel` is the end of a request's context.  A call is named
by the caller that made it, so a result's identity is its leader.  The library is
outside `src/` and is marked external in the map.

**AsyncPut.**  A job is one invocation of `Put` or `PutFile`; its `job` value is
the program counter, and each step that touches shared state is an action: the
`select` on the semaphore (`Acquire`, `Reject`), the removal of a dropped file,
the gauge, `wg.Add` with the `go` statement, the upload, the removal by `S3Cache`,
then the deferred calls in the order in which Go runs them.  An upload that fails
may have stored its object (`UploadFails`): the timeout of the put or a lost
answer leaves the client unable to tell.  `WaitContext` is `BeginWait` (its helper
goroutine enters `wg.Wait`), `WakeUp` (the counter was zero; `Wait` looks at it
again and panics if it has been added to), `ReturnDrained` and `ReturnExpired`.
`owed` is a history variable: the jobs in the background when the drain began.

**Handler.**  A request's `pc` follows `ServeHTTP`, a flight's `fpc` follows
`process`.  The actions of the coalescer and of the cache are used, not repeated:
`LeadFlight` is `SF!Lead` and starts `process`; `Deliver` is `SF!Finish`;
`Answer` is `SF!ReturnResult` and sends the `draft` of the flight that sent into
the caller's channel; `Putting`, `PutReturns` and `Background` are the actions of
`AsyncPut`.  `temp` is what a flight has written to its temporary file, and so
what an object in `store` (named by the flight that uploaded it) contains.

**ImageService.**  Three variables: the kind of reply each request has had, the keys
whose image imgproxy has made in full, the keys whose image the cache holds.
`Handler` maps its replies, temporary files and `store` to them; every step of a
request, a flight or a put is a step of the promise or a stutter.

**Metrics.**  `MeteredNext` is the next-state relation of `Handler` with each step
moving the counters that the code moves there: a hit when it is streamed
(`handler.go:79`), a miss when the flight's result is made, a fallback or not, a
bypass likewise, an imgproxy error for a failed call and for an answer that is no
image alike, a dropped put in two counters at once.  The three passing runs of
`Handler` are of this specification.

**Shutdown.**  A request may arrive while `main` is serving; `Work` is any step of
`Handler` for a request that has arrived, so requests, flights and puts go on
while `main` shuts down.  `ShutdownReturns` needs every accepted request answered (a
connection is active until its handler returns); `ShutdownExpires` and
`DrainExpires` need the one deadline to have passed; `BeginDrain`, `DrainWakes`,
`DrainSucceeds` are the drain of `AsyncPut` at its place in `main`.  When `main` has
exited, or a goroutine has panicked, nothing moves any more.

**Resolver.**  One use: the choice of the source and the allowlists (`Admissible`),
presigning, HEAD, then up to three attempts with the two backoffs.  An attempt ends
in a class of status, an error of the transport, a deadline or a cancellation;
http.Client reports its own timeout as `context.DeadlineExceeded`, which ends the
loop.  `open` counts response bodies, `clock` the time in units of 100 ms, and the
client may leave at any moment.  `Source` is the same use as its caller sees it: one
step for each call, which ends in one of its outcomes, and nothing from the network
for a client that has gone, unless its body was being read.  These are the steps
`Resolve`, `Head...`, `Fetch` and `ReadOriginal...` of `Handler`.  The steps of a use
touch nothing that another use shares, so one is modelled.  The lazy presigner (`resolver.go:175-182`) is left
out: `main` uses the eager one.

**Config and Params.**  The trimmed value of a variable or query parameter is blank, a
number that `strconv.Atoi` takes, or junk; `Wrap` is the arithmetic of Go's `int`
and `time.Duration`, whose width is a constant, so an overflowing product of
seconds is what it is in the program.  `ConfigOf` is what `Load` returns and `Loads`
whether it does.  A key is the record of the fields that the string is formatted
from: the path is one field and the last segment has no free text, so two records
never make one string.

**Front.**  `main`'s start is one action per step that can end in `os.Exit`.  A request's
`at` is its place in the chain that `main.go:129` nests: on the way down each
wrapper's part before `next.ServeHTTP`, then the handler (`Ready`, `ParseParams`,
`SetHeaders` of its three kinds of reply, `WriteError`, `WriteBody`), then each wrapper's part after it.  `head` is
`w.Header()`, `wire` what was sent with the first `WriteHeader` or `Write`, `seen` the
status in Logging's wrapper, which starts at 200 and does not see what `net/http`
writes for a handler that wrote nothing, nor what Recovery writes around it.  At
any moment of a handler's work it may panic (`Panics`), and then only deferred calls
run: the end of the span and Recovery.  `FlightPanics` is a panic in `process`:
`singleflight` raises it again in a goroutine of its own, and the process dies.

What the models abstract:

* A network call succeeds or fails in one step.  It must fail if the leader's
  client has gone before it, may fail when the constant `Faults` says so, and the
  reading of a body that has begun may succeed after the client has gone.
* An image is not a byte string: `temp` tells empty, partial and transformed
  apart, and a reply names the flight that made its body and whether it is whole.
* Status codes: 200, 404 for every 4xx of the source, 502.
* In `Handler` the key of a request is the constant `KeyOf`; how it is made is in
  `Params`, and `Front` makes it for every request.  Each key has one source: that two
  requests of one key may name different source headers is outside the model
  (`docs/architecture.md:33-37` prescribes the key).
* In `Front` the image handler is the order in which it writes; every request is a GET
  of a clean path and its client stays, because `Handler` has the rest.
* Fetches that share their error handling are one action (`FetchFails` covers the
  bypass and both fallbacks).
* A source does not change while the model runs, so "the last writer wins" in
  `store` does not lose anything.
* Branches no execution of the program reaches are left out: an error of
  `PutFile` (`AsyncPutCache.PutFile` returns nil always, `handler.go:264-268`), an
  error of `headFunc` (`headHTTP` returns none), `streamFromCache` (never true) and
  a result of another type.
* Of the metrics, the in-flight gauge is in `AsyncPut`, six counters are in `Metrics`,
  and the sample of `http_requests_total` is the line of a request in `Front`; the
  histograms of durations are left out.
* After `WaitContext` has returned because its deadline passed, its helper
  goroutine is not followed.  A misuse of the WaitGroup panics in `Wait` or in
  `Add`; the model has the first.

The operators under the heading "Faulty variants" are plausible bugs; no
specification uses them.  Each replaces one definition to see that a property
notices (PROJECT.json, `mutants`).

## 3. The runs

| Run | Instance | Question | Distinct states |
|---|---|---|---|
| `singleflight` | 3 callers of one key, 1 of another | one flight per key, nobody lost, the send never blocks, `Coalescer` implemented, every `Do` returns | 31,180 |
| `asyncput` | 2 `PutFile`, 1 `Put`, 2 slots, 1 drain | gauge, files, drain, `PutPool` implemented, every put ends, the drain ends | 51,438 |
| `handler_shared_key` | 3 requests for one image, 1 slot, counters; clients, imgproxy, both S3 directions fail | fail-open, own replies (hits too), one result for all, few files, `ImageService` implemented, the counters true | 407,883 |
| `handler_mixed` | an image, a source that is no image, a pass-through, counters; every fault | purity of the cache, own replies (bypasses and pass-throughs too), files owned, no step made twice, misses and bypasses counted once, `ImageService` implemented on every error path | 192,060 |
| `handler_live` | 2 requests for one image; every fault | every request answered, every file removed | 31,775 |
| `shutdown` | 2 requests for one image, 1 slot; clients leave, uploads fail; the signal at any moment | the process ends whatever hangs, reports what it cuts off, and panics for a cause | 222,399 |
| `front` | 49 environments, 16 requests of one client, `/health` of another; any place may panic | keys normal, replies marked, lines true, every request ends | 203,167 |
| `resolver` | 2 names, one gateway allowed, any bucket; a timeout of 4 units | the loop's verdict, the bodies, the time, `Source` implemented | 403,464 |

Bounds.  *Three* callers of one key are needed for a leader, a follower, and one
that comes when the flight is over or nearly so and leads the next; a fourth of
another key shows that keys do not interfere.  *Two* slots and *three* puts are the
smallest pool in which some put is refused, a slot is reused, and one put ends
while another is in every place; one of each kind has no file to remove.  In
`Handler` *one* slot makes the third flight's put be dropped while an earlier one
is uploading; `Metrics` needs the same three for a drop, a failed upload and a hit to
meet.  No counter is bounded by a guard: each request and job happens
once, so the state space is finite as it is.  `handler_mixed` has
one request of each kind, so that a bypass, a fallback and a pass-through go on side by
side.  `handler_shared_key` uses symmetry
over the requests, which is sound because they share key and role and the run
checks no liveness.  In `shutdown` *two* requests of one key give a flight whose leader
has gone and a follower that stays, or two flights one after the other.  In
`front` the `int` has 16 bits and a second 1000 units, so that 33 s wraps to a negative
timeout and 66 s to one shorter than a second, as large values do at 64 bits
(`LoadedIsSoundHere` in `MCFront` evaluates `Sound` for each environment); each
environment and each query differs from a good one in one place, because `Load` and
`ParseParams` treat each variable by itself; one client asks everything and the
other `/health`, since requests share nothing but the configuration and `main`.  In
`resolver` a timeout of 4 units is longer than both backoffs, so every order of the
two is there; the theorems are for every timeout.  Deadlock is checked in every run; `Quiescent` is the
stutter of a system in which every request, flight and put has ended.

Types.  The run `shutdown` checks those of `Handler`, `SingleFlight` and `AsyncPut` at
once (`ShutdownTypeOK`) and `front` its own; those of the instances and of `Resolver`
are proved.

The action property `EveryStepCounts` says of every step of `Handler` that it takes one
request, with its flight and its put, nearer to its end: a chain of fallbacks that came
back to an earlier place would break it.  Together with the absence of deadlock, which
the runs check, it means that a system that goes on comes to `Quiescent`.

The promises: `KeepsPromise`, `KeepsPool`, `IsImageService` and `IsSource` are the abstract specifications as properties of the detailed ones, under

    executing <- calls whose fn is running      answer <- the callers' channels
    phase     <- the job's place, in four parts  free  <- Capacity - sem
    answer    <- the kind of each reply         made  <- keys of files written in full
    stored    <- keys with an object in S3
    place     <- the call the place belongs to  says  <- the type that HEAD gave
    outcome   <- what came of it: the original, an error's code, or nothing needed

Fairness.  `singleflight`: each goroutine that can run does (the Go scheduler is
fair to ready goroutines), and `fn` ends.  `asyncput`: each job's goroutine runs
and the put timeout (30 s, `config.go`) ends an upload; callers need not begin
(`Prepare`, `Discard`, `BeginWait` have no fairness), and neither has
`ReturnExpired`, so `DrainReturns` holds without the deadline's help.  `handler_live`:
weak fairness of every request's handler, every flight and every background put.
The imgproxy and upstream clients time out after 30 s.  `GetObject` has no
deadline: liveness assumes that S3 answers.  A client never has to disconnect.
`front`: handlers run and the calls they make end; nobody has to send a request, and
`main`'s start has no fairness.  `shutdown`: only `main` and the clock are fair, so `ProcessEnds` holds even if every
request, flight and put hangs for ever.

### What the code does not do

Four runs end in a violation, each of a sentence in the repository.

* `poisoned_follower` (`coalesce.go:26`, `:29`): `process` uses the leader's
  `*http.Request` all the way.  The leader's client disconnects; HEAD, the
  transform and the fallback's fetch fail with `context.Canceled`; the followers, whose
  clients are still there, are answered 502.  `ErrorsHaveACause` says that with
  trouble confined to clients, imgproxy and the cache this is the *only* way a
  client that stays is refused; when no client leaves, the sentence is true
  (`PatientClientsServed`).
* `truncated_hit` (`README.md:8`): `streamResponse` discards the error of the copy, so
  a hit whose S3 body breaks off ends as a complete chunked reply.  There is no other
  cause for a client that stays (`CutHits`).
* `drained_too_early` (`async.go:24`): a client leaves during the shutdown while its
  flight makes the image.  `srv.Shutdown` finds no connection and `WaitContext` no put;
  `main` logs "async cache drained"; while it runs its deferred calls the flight writes
  its file and calls `PutFile`, and the process ends with that put in flight.
  `LossIsReported` says that only such a flight is lost unreported, and when no client
  leaves, nothing is (`DrainedUnlessLeft`).
* `drain_panics` (`async.go:118`): two keys, two slots.  The helper of `WaitContext` sleeps
  in `wg.Wait`; the last put wakes it; before it runs, an orphaned flight adds to the
  WaitGroup again, which panics and ends the process.  `PanicHasACause` says that it
  takes such a flight, or a `Shutdown` that has given up.

In these places, too, the repository says one thing and the code, or another line of
the repository, does the other.  No run checks them; what the models have of each is
named:

* `s3.go:29-30` demands that the object be readable when `PutFile` returns, and
  forbids an asynchronous `PutFile`; the one `main` installs returns when the upload
  has been launched (`PutReturns`).  Until it lands a new request for the key leads
  another flight, and `OneTransformPerKey` holds of flights under way, not of transforms
  in all.
* `panic_recovery.go:11` says that Recovery returns 500 (`panic_recovery_test.go:21` has
  a panic before anything is written).  Where the body has begun (`Panics` at `"body"`,
  then `Recovers`) `http.Error` comes too late and the client has a 200 that looks
  complete.  A 500 that is sent keeps the `X-Cache` and `Cache-Control` that the handler
  had set.
* A panic in `process` (`FlightPanics`) is in singleflight's own goroutine, where Recovery
  is not, and ends the process.
* `config.go:186` and `main.go:85`, `:88` promise an opt-out from the allowlists
  (`ALLOW_ALL_...`): no code reads it, and `Validate` refuses an empty list, as
  `values.yaml:135-136` says.  `Sound` has the list as the code does.
* `metrics.go:53`, "Cache MISS responses after transform", and `:57`, "Requests bypassed":
  both count *flights*, so requests that share one are counted once, and a fallback, which
  no transform succeeded for, is a miss.  `LedgerBalances` says what is counted.  The miss
  ratio alert (`ImageProxyHighMissRatio`) divides these misses by hits, which are
  counted by *replies*.
* `metrics.go:61`, "imgproxy transform failures": a leader's client that leaves is one.
* `config.go:163` refuses seconds that are not greater than zero, but at `:164` large ones
  overflow a `time.Duration` into a negative or arbitrary timeout; `LoadedIsSound` says
  that nothing else does.

Seen, and contradicted by nothing in the repository:

* Recovery logs the request it was given, whose context the inner wrappers have
  replaced: its line has no request id.  Its 500 goes around Logging's wrapper, so it
  is in no sample, and the alert on 5xx (`ImageProxyHigh5xxRate`) does not see panics.
* The alert on cache puts adds `cache_put_errors` and `async_cache_put_dropped`, and a
  drop is in both.
* `upstream_fetch_duration_seconds` (`metrics.go:95-99`) is observed for the presigning of
  S3 sources only, never for a fetch.

## 4. The proofs

For any number of callers, keys, requests and jobs, any capacity and any set of
faults:

| Theorem | Says |
|---|---|
| `SingleFlight_proofs!TypeCorrect`, `AtMostOneFlight`, `WaitersAreKept`, `SendsDoNotBlock` | the invariants of the run `singleflight`, and its types |
| `SingleFlight_proofs!Refinement` | `Spec => Promise!Spec` |
| `AsyncPut_proofs!TypeCorrect`, `GaugeIsHonest`, `FilesAreReclaimed`, `DrainIsHonest` | the invariants of the run `asyncput`, and its types |
| `AsyncPut_proofs!Refinement` | `Spec => Pool!Spec` |
| `Handler_proofs!UsesCoalescer`, `UsesCache` | a behaviour of `Handler` is one of `SingleFlight` and of `AsyncPut` |
| `Handler_proofs!OneTransform` | one flight per key in the whole handler, from `AtMostOneFlight` |
| `Handler_proofs!CacheIsPure`, `FilesAreOwned`, `DiskBound` | three invariants of the runs of `Handler` |
| `Replies_proofs!HandlerTypes`, `OwnReplies`, `CausedErrors`, `SameResult` | the other invariants of `Handler` |
| `Replies_proofs!StepsAreBounded` | the action property: a request costs 23 steps at most |
| `Replies_proofs!ImplementsService` | `Spec => Service!Spec` |
| `Replies_proofs!PatientClientsServed`, `CutHits`, `WholeHits` | when `coalesce.go:26` and `README.md:8` are true after all |
| `Metrics_proofs!LedgerIsBalanced`, `LossesAreCounted`, `FallbacksCounted` | what the counters tell: the other properties of the runs of `Metrics` |
| `Shutdown_proofs!ShutdownTypes`, `ReportsLosses`, `PanicsAreCaused` | the invariants of the run `shutdown` |
| `Shutdown_proofs!PromisesHold`, `ServiceToTheEnd` | what is proved of `Handler`, and `ImageService`, while the process stops |
| `Shutdown_proofs!DrainedUnlessLeft` | when `async.go:24` is true after all, and no file is left either |
| `Shutdown_proofs!ProcessIsBounded` | from start to exit, at most 24 steps for each request and seven of main |
| `Front_proofs!LoadedIsSound`, `QueriesAreNormalized` | of the operators, for every width of `int`, every environment and query |
| `Front_proofs!FrontTypes`, `NormalKeys`, `MarkedReplies`, `HonestLines` | the invariants of the run `front` |
| `Front_proofs!SpansEnd`, `RepliesStand`, `ChainIsBounded` | spans end, what is sent stands, a request takes 14 steps at most |
| `Resolver_proofs!TypeCorrect`, `VerdictIsRight`, `NoBodyLeaks`, `TimeIsBounded` | the invariants of the run `resolver` and its types, for every timeout |
| `Resolver_proofs!ImplementsSource` | `Spec => Promised!Spec` |

*SingleFlight.*  None of the three invariants is inductive.  The strengthening says
that the group's map and the running goroutines name each other, that a channel
registered with a running call is empty and of its key, that a caller who has not
begun is registered nowhere, and that one who has begun is answered or registered
with the call the map names.

*AsyncPut.*  The counters are the point: `sem`, `gauge` and `wg` are the
cardinalities of the sets of jobs in certain places.  `CountMove` says how such a
cardinality changes when one job moves (from the library's theorems on finite
sets), `NextAccounting` uses it for each action, and the honesty of the gauge
follows by inclusion of the sets.  The drain needs two more facts: once it has
been woken, every job it found in the background is done (`OwedAreDone`), because the
WaitGroup counted them and came to zero; and where it has panicked, some put is in the
background still (`PanicIsBusy`).

*Handler.*  `UsesCoalescer` and `UsesCache` show that each action of `Handler` is an
action, or a stutter, of the instance; the theorems about the instances then hold
inside `Handler` and are not proved again.  `HInv` relates the three state
machines: a flight is under way exactly while its call's `fn` runs; the job of a
flight is where the flight's `fpc` says it can be; what is put, running or stored
was written whole, by a flight whose key is of an image.  `DiskBound` divides the files
between their owners: those of flights go one to one into the keys in flight, because
no two flights share a key, and those of puts are no more than the slots taken
(`OwnedFilesAreFew`).

*Replies.*  `RInv` follows an image from the flight that makes it to the reply that
carries it: what an opened object names was launched under the request's key; the
draft of a flight is honest about its file, its key and its failures
(`HonestDrafts`); what is in a caller's channel is the draft of a flight of its key
that is over (`OwnMail`).  A reply is sent from one of these three, so `RepliesAreOwn`
and `ErrorsHaveACause` follow when it is sent, and stay because files, drafts and
cancellations only grow.  `SameResult` is stronger as an invariant: what a flight has
answered is its draft, and the draft of a flight that is over does not change
(`RepliesAreDrafts`).  `ImplementsService` maps each action under `RInv` and `HInv`.
`StepsAreBounded` gives every place of a request, a flight and a put a number and shows
of each action that one of the three numbers of one request falls, and the other two
and everybody else's do not rise.  `PatientClientsServed`, `CutHits` and `WholeHits`
take the sentences that a violation run refutes and prove them from an
assumption about `Faults` that leaves all other trouble in: only a client that may leave is ever
gone (`ClientsStay`).

*Metrics.*  `MeteredSpec => Spec` lifts all of the above.  A counter is the cardinality of a
set of requests: that it grows by one exactly when the counter does needs that a
flight has no draft before it returns (`LInv`), so no draft is counted twice or
overwritten.
A lost image or a fallback is a request in certain places, and the counter bounds the
number of those: `PInv` counts the jobs whose upload has failed or been dropped while
the key is not in the cache (`Missed`), `FInv` the flights that fall back or have
(`Fell`), from below.  From above, a flight is counted when it becomes `Imageless`, at the
fallback or at its end with no file and no bypass, and it stays so, so it is never counted
twice.  The bound is no tighter than that: flights that failed before imgproxy was asked,
in fetching for a bypass or in creating their file end `Imageless` uncounted.  Both need
that a step moves one request only.

*Shutdown.*  `Handler`'s specification does not hold here, because its drain is idle and
this one is not; but each step of `Shutdown` is a step of `Handler`, of the drain or of
main, so `CoalescerStep`, `CacheStep` and the step lemmas of `RInv` give everything
proved above (`ServesOn`).  `SInv` adds what main knows: nothing is in flight before its
request has arrived, the drain is where main is, the leader of a flight still waits for
it unless its client has gone, after a `Shutdown` that returned nil everyone has been
answered, and after the drain has begun a put in the background is owed to it or comes
from a leader that had gone.  With `DrainHonest` and `FileLifetime` of `AsyncPut` that is
`LossIsReported`, and with `ClientsStay` `DrainedUnlessLeft`; with `OwedAreDone` and `PanicIsBusy` it is `PanicHasACause`, for the
put that makes the WaitGroup panic was not owed.  `PromisesHold` and `ServiceToTheEnd`
repeat the promises of `Handler` for `ShutdownSpec`: their proofs use the step lemmas
and not `Spec`, and no step of `main` touches a reply, a file or an object.
`ProcessIsBounded` is the measure of `StepsAreBounded` with three more numbers: whether
a request has arrived yet, where main is, and where its drain is.

*Front.*  `FrontInv` gives each place of a request what holds there: which headers are
set, whether anything is on the wire, and that wrapper and wire agree wherever
handlers return.  `LoadedIsSound` needs that arithmetic which wraps changes nothing
that fits (`WrapKeeps`); `QueriesAreNormalized` that a clamped value is the nearest of
its range and is clamped to itself.  `GoesOn` says of each step, on the way down, in a
handler or on the way up, that its request comes nearer the end, keeps a span that fits its place
and leaves alone what is on the wire; the last three theorems follow from it.

*Resolver.*  `AnswersInv` ties the number of attempts to the history of answers at each
place of the loop; `ClockInv` gives each place the time that may have passed there
(`Before`).  `ImplementsSource` maps each place to the call it belongs to: the loop and
its backoffs are stutters of `Fetch`, an answer other than 2xx leaves the call where it
was, and a client that is gone gets no answer; until HEAD is over nothing has been said of the
source (`NothingSaid`).

The assumptions are the named `ASSUME`s of the modules: sets of requests and jobs
are finite, the constants have their types, `None` is none of the rest.  TLC
evaluates them in every run.

Every invariant, action property and refinement the passing runs check is proved.  Only
model-checked is all liveness, which this prover cannot do under fairness; what is proved
towards it are the bounds on steps (`StepsAreBounded`, `ProcessIsBounded`,
`ChainIsBounded`): no behaviour runs on without end.

## 5. Not modelled, and the plan

Modelled: coalescing, the background pool, the handler that composes them and the
promise it keeps, the counters, the shutdown over all of it, the resolver, the
configuration, the key, and the start and the chain in front.  Next: `WriteTimeout`, the
server's limit on a reply, in `Handler`, whose replies always reach a client that stays.

Not modelled, and why:

* The building of imgproxy URLs, header values and log fields: formatting.
* The choice between `PutObject` and a multipart upload: S3 sees one object either way.
* Child spans, histograms, the id in requests to other services: no state of the
  service depends on them.
* The lazy presigner, `loadPositiveInt64`, `loadBool`, `metrics.Reset`: nothing, or nothing but
  tests, calls them.
* The transport's connection pool and `promhttp`: libraries.
* The chart, the image and the pipelines: no behaviour of the program.
