# A TLA+ model of vecto

vecto is an HTTP client library in Go: an instance (`Vecto`) carries a
configuration, middleware, an optional circuit breaker per host and a retry
policy; each call of `Vecto.Request` builds a `Request`, runs it through these and
returns a `Response`, while completion events go to channels and metrics to a
collector. Everything is concurrent: calls share the instance, its breakers and its
middleware, and a request can be read by several goroutines.

Paths below are relative to the repository's root (`src/`).

## Inventory

| Part | State | Operations | Interacts with | What makes it correct |
|---|---|---|---|---|
| Circuit breaker (`circuit_breaker.go`) | state, its age, sliding window of failures, half-open slots, consecutive successes, under `mu` | `Execute` (`allowRequest`, record of an error), `RecordResult`, `GetState`, `GetStats` | called by the pipeline twice per call, with anything in between | never opens below the threshold or on expired failures, limits probes, always recovers |
| Breaker manager (`circuit_breaker.go`) | map key → breaker, under `mu` | `GetOrCreate`, `Get`, `Remove`, `Clear` | calls hold breakers after the lock is released | one breaker per key |
| Retry loop (`retry.go`) | attempt counter, last result | `executeWithRetry` | the client, the context, `OnRetry` | bounded attempts, stops on cancellation, announces each retry |
| Backoff (`retry.go`) | none | three strategies, `getRetryWaitTime`, the Retry-After header | the retry loop | the formula of code and tests, the documented maximum |
| Request (`request.go`, `enhanced_request.go`, `request_builder.go`, `url.go`) | URL, parameters, headers, channels, breaker key, under `mu` | builder, setters, getters, `toHTTPRequest` | options, configuration, middleware, transform, events, metrics | no lost lock, no lock taken twice; the URL is that of the parameters; headers behave as values |
| Completion events (`channels.go`, `response.go`) | the request's channels | `OnCompleted`, `dispatch`, `deepCopy` | receivers, the context | each channel offered once, an event lost only where there is no room, never blocks; caller and receivers see each other's writes only in what `deepCopy` shares |
| Pipeline (`vecto.go`, `request_handler.go`, `metrics.go`, `middleware.go`, `client.go`) | middleware collection, per-call progress | `Request`, `UseRequest`, `UseResponse` | everything above | one matching metrics record, one event, middleware in order, every call returns |
| Instance authentication (`auth.go`) | the header map of the configuration | `SetBearerToken`, `SetBasicAuth`, `ClearAuth` | `newRequest` copies the map | safe beside calls |
| Configuration (`config.go`, `validation.go`) | the merged record, its header map | `validateConfig`, `mergeConfig` | `New` | nothing provided is lost, nothing is shared with the defaults |
| Client (`client.go`, `factory.go`) | none | `Do` | the transport | a response is whole or an error |
| Trace (`trace.go`) | times of one exchange | transport hooks, `computeTraceInfo` | `net/http` goroutines | never on in an instance made by `New`, see Observations |
| Responses, URL and form encoding, logger, pool, factory | data | conversion, I/O | | |

What is hard: the breaker is asked and told under two separate locks with the whole
exchange between them, so results arrive in periods they do not belong to; a retry
timer races with cancellation; `sync.RWMutex` is not re-entrant and a waiting writer
holds up new readers; `select` picks among ready cases freely; a range over a map
has no order; maps are references that a missing copy would share; and `Request` has
many ways out.

## Modules

| Module | Models | Correspondence |
|---|---|---|
| `CircuitBreaker` | one breaker, `Callers` calls | an action per branch of `allowRequest` and `recordResult`; ages in place of timestamps; `Tick` is the clock; `panics` a call whose function panics |
| `AbstractBreaker` | what a breaker promises | failures expire at their time; no slots, no lazy cleaning; number of probes unconstrained |
| `BreakerRefinement` | | the mapping between these two |
| `BreakerRegistry` | `CircuitBreakerManager` | the read-locked lookup and the write-locked creation are separate steps; `Get` may find nothing |
| `RetryLoop` | `executeWithRetry`, `shouldRetry` | a step per point at which something else can happen: `client.Do` begins and returns, the decision, the `select` |
| `Backoff` | the waits, as operators | `Wrap` multiplies at `Width` bits; a float too large to convert gives either extreme, as the platform does; a Retry-After header is its form and its value |
| `RetryWaits` | `RetryLoop` with `Backoff` | each action of the loop with what it does to the wait: the response brings a header, the announcement asks for a wait; implements `RetryLoop` |
| `RequestLock` | the order in which methods of `Request` take `mu` | a method is the sequence of its acquisitions; `RLock` … `Unlock` are `sync.RWMutex`, with writer preference |
| `EventDispatch` | `OnCompleted`, `dispatch` | the copy under the lock, then one select per channel; `listening` are the channels with a receiver blocked on them; a response is the place in memory of each of its parts (`Parts`), of which `deepCopy` makes new ones or keeps the old; `disturbed` are the parts in which the last write into one response shows in the other; `sent` counts what a channel has taken |
| `HeaderValues` | what headers are, who has some | a map is a function from names; a holder is the defaults, a configuration, options, a request, an `http.Request` or a copy handed out |
| `HeaderMaps` | every operation on header maps | `place` is each holder's reference, `mem` what is there; `Make` is `make`, `Write` an assignment |
| `AbstractHeaders` | what these maps promise | each holder has a value; a step changes that of one holder |
| `PathParams` | `replacePathParams`, `structToQueryParams` | URLs as sequences of tokens, whose results `PathParamsProofs` gives for any data; the order of a map is a parameter; a struct is the sequence of its fields, each with its kind and that of what it holds or leads to |
| `RequestObject` | one request from `New` to its metrics | extends `HeaderMaps` and `PathParams`; one action per method, two for `toHTTPRequest`, which transforms before it locks; the query as the values of each key, a body as its size |
| `RequestPipeline` | `Vecto.Request` and the collections it reads | a step wherever another goroutine or a user's function can come between; each early return is an action; `SetHeader`/`HeaderSet` bracket an unlocked map assignment |

`MC*` modules give the constants their values for TLC; `*Proofs` modules hold the
proofs.

Abstractions shared by all: text, payloads, headers, log output and durations are
left out or are members of small sets; a user's function (retry condition, transform,
middleware) is any outcome it can have. Operators with a suffix after an underscore
that no action uses (`RejectOpen_RestartsCooldown`) are deliberate mistakes that the
properties are tested against.

What the models leave out within a modelled part:

- The breaker's callers follow the protocol of `Vecto.Request`: a call records one
  result. `OnStateChange` does not call back into the breaker (it would block itself:
  it runs under `mu`, `circuit_breaker.go:304`).
- The early return for `res.success` in the retry loop (`retry.go:219`) is not taken:
  `DefaultClient` never sets `success`.
- `RequestPipeline` ends a call at the key of the breaker (`"key"`): that step is
  shown by `lock_key` never to return. So the breaker, although modelled and checked
  as the exported type it is, is never reached through `Vecto.Request` in this
  commit.
- `RetryWaits` has the package's strategies; a `RetryAfter` or `Backoff` function of
  the user returns what it likes.
- `HeaderMaps` compares header names as they are written, as the code does. Addresses
  are reused when nobody has them. A header that is refused changes nothing, so that
  is no step, except of `newRequest`, where `RequestObject` refuses the request.
- `RequestObject` has one instance and one request; that several do not disturb each
  other's headers is what `MapsNeverShared` shows for any number. A value of a
  parameter is its text; escaping in `PathEscape` is of the characters that could be
  taken for a placeholder or a separator. The answer of a server is the size of its
  body and whether the connection broke. An error of `refreshUrl` after `newRequest`
  has accepted the URL is left out: the base URL has been parsed, and parameters are
  escaped.
- `RequestPipeline` treats the exchange, retries included, as one step, and whatever
  a response middleware changes inside the response it was given as no change.

## Runs

| Run | Instance | Shows |
|---|---|---|
| `breaker` | 5 calls, one of which panics; `FailureThreshold` 3, `SuccessThreshold` 3, `Timeout` 2, `WindowSize` 3, `HalfOpenMaxRequests` its default of 1 | A closed breaker stays below its threshold; the slot counter is exactly the counted probes in flight, less what late successes took off, plus what panics lost; probes stay within `HalfOpenMaxRequests + SuccessThreshold`; slots are only ever taken by probes in flight or lost to panics; the breaker implements the abstract one (lazy cleaning counts the same failures as exact expiry); an open breaker is left, and a half-open period ends unless a slot was lost |
| `cb_panic` ✗ | 2 calls that may panic; thresholds 2 | A probe that panics keeps its slot; the breaker refuses for ever (`circuit_breaker.go:150`) |
| `registry` | 4 callers, 2 keys, 6 breakers | One registered breaker per key; every holder has it unless it was removed since |
| `retry` | `MaxAttempts` negative, zero and positive; waits of 8 bits, every strategy, 4 kinds of Retry-After | Attempts bounded, one retry announced per resend, at most one request after cancellation, the loop ends and ends for a reason; until a product overflows, each retry waits what the tests expect of its strategy (for the exponential one `WaitTime * 2^(attempt-1)`, see Observations) or what the answer that is retried asks, and no earlier one, cut to `MaxWaitTime`; overflow or not, no wait is longer, but for the second in place of an unset `WaitTime` |
| `backoff_wrap` ✗ | as above, without a limit of the attempts | After an overflow the wait is zero or negative and retries run without a pause (`retry.go:57`) |
| `lock` | 3 goroutines, the methods of one request | No method takes `mu` while it holds it, the goroutines that wait for it never all wait for each other, every method returns |
| `lock_key` ✗ | 2 goroutines, with the key of a breaker | `getOrSetCircuitBreakerKey` waits for itself (`request_handler.go:74`) |
| `dispatch` | 2 requests, 2 channels | Each channel registered at the time of the copy is offered the event once, and loses it only if it has taken as many as its buffer holds; the dispatch ends whatever the receivers do; a write of the caller or of a receiver shows in the other's response only in the body of the `http.Request`, the TLS state, the `Request` and the trace, never in the data, the headers or the trailers |
| `pipeline` | 2 calls, 2 middleware functions, 1 setter, with and without adapter and breaker | Exactly one metrics record with the error returned; one event exactly for a returned response of the server; middleware in order and none left out that was registered before the call; a call ends unless it stops at the breaker's key |
| `pipeline_auth` ✗ | 1 call, 1 setter | `SetBearerToken` beside a call is a concurrent map access, which ends the process (`auth.go:66`) |
| `request` | 1 request with 23 choices of options, 2 of them followed through 2 sends and 2 calls of its callers | However the maps of the options are visited, the request has the parameters and the path they ask for or is refused; header maps are never shared and behave as values; the URL carries each parameter once with its last value; metrics have the size that was sent; a response is whole |
| `path_leak` ✗ | as above | `SetPathParam` then `SetParam` puts `__path_params__` into the URL (`enhanced_request.go:209`) |

✗: the run checks what a comment or a test says, and TLC shows what the code does
instead.

`CHECK_DEADLOCK FALSE` stands where the system really stops: calls that have all
returned, a lock that is waited for, a counter at its bound.

### Bounds

- Breaker: with thresholds of 3 the first, the middle and the last failure or success
  differ; five calls leave late results of an earlier period beside more than one
  probe, and beside the one that panics. `WindowSize` above `Timeout` lets failures
  survive an open period. Ages stop at `Timeout` and `WindowSize`, beyond which no
  guard distinguishes them, so time itself is not bounded.
- Registry: `Addresses` ends the supply of new breakers; six leave room for one per
  key, for those of callers that missed together, and for those made after a removal.
- Retry: `MaxAttempts` ranges over a negative value, zero and a few positive ones;
  an unlimited loop's counter stops at `AttemptCap`, the loop itself goes on.
- Locks: three goroutines give a holder, a waiting writer and a reader behind it.
- Request: `Followed` are the options whose request is used once it is built, a form
  and one with a query, so that the many options that only matter to the builder cost
  one step each. `MaxOps` of 2 gives every pair of calls at every point of two sends
  (`MaxSends`): a copy taken and then written, a path parameter and then a parameter,
  two values of one key. `MaxBody` of 2 with limits of 1 and 2 puts a body below, at
  and above the limit. `Addresses` has one more than the holders, so memory never
  ends.
- Dispatch: two requests share the channels, one unbuffered and one with room for one
  event; `MaxRegistrations` per request bounds the slices.
- Waits: at 8 bits the product of the longest wait wraps within `AttemptCap` attempts;
  at 64 bits and one second it takes 35. Waits of 0, 3 and 20 are unset, below and
  above what a doubling reaches; headers ask for less, for more, for nothing and for
  less than nothing.
- Pipeline: two calls show a registration between the start and the copy of each; two
  functions, each registered once, make order observable.

### Fairness

The Go scheduler runs every runnable goroutine: steps of a goroutine that wait for
nothing outside are weakly fair. Beyond that, `CircuitBreaker` assumes that time
passes, that calls keep coming and end; `RequestLock` that `sync.RWMutex` grants a
lock as it documents (a waiting writer holds up new readers, and readers waiting at
an unlock go first); `RetryLoop` that `client.Do` returns and a timer fires, since
`Config.Timeout` is never zero after `mergeConfig`; `RequestPipeline` the same of the
exchange. Functions of the user (middleware, transform, retry condition) return.
Nothing is assumed of receivers of events, of cancellation, of the goroutines that
register middleware or set headers.

## Observations

Points where the code does something other than its comments suggest and that no run
is dedicated to. Each is visible in the module named.

- `HalfOpenMaxRequests + 1` probes can be in flight: the call that opens the half-open
  period is not counted (`circuit_breaker.go:179` beside `:49`; `CircuitBreaker`,
  `AllowAfterTimeout`). `ProbesBounded` is the bound the code keeps, not the comment's.
- The error of a refused call may name the state closed, since the state is read
  after the refusal (`circuit_breaker.go:145`; `getState`).
- `MaxAttempts` counts requests, the first included, where its comment says retry
  attempts (`retry.go:159` beside `:26`; `RetryLoop`).
- The exponential wait is `WaitTime * 2^(attempt-1)`, in the code and in the tests
  (`retry.go:57`, `retry_test.go:14`), where the comment says `2^n * WaitTime`
  (`retry.go:51`) and the first attempt is 1. `WaitsAsTested` takes the side of the code
  and the tests; with the comment's exponent every wait would be twice as long.
- The second that stands in for a `WaitTime` of zero is not cut to `MaxWaitTime`
  (`retry.go:53` beside `:32`), and neither is a wait of `FixedBackoff` (`:81`;
  `Backoff`). `ValidateRetryConfig` accepts the first, and would refuse the second, but
  nothing in the package calls it. `MaxWaitKept` exempts the first.
- An event may still be sent after the context has ended, since `select` takes either
  of two ready cases; `channel_test.go:186` expects that it never is
  (`channels.go:34`; `Deliver` beside `ContextDone`). `EachChannelOffered` says nothing
  of a cancelled request.
- `deepCopy` is deep in the data, the headers and the trailers. The copy and the original
  have in common the body of `RawRequest`, since `http.Request.Clone` does not copy it
  (`response.go:36`), the TLS state (`:54`), the `Request` (`:65`) and `TraceInfo`
  (`:67`); a write into these, or reading that body, shows on both sides (`SharedParts`).
- All receivers of one event share one copy of the response, whose body can be read
  once (`channels.go:20`).
- The body and the URL of one send may be of two moments: the transform runs before
  `toHTTPRequest` takes the lock, and a setter may come between (`request.go:225` beside
  `:229`; `Transform` beside `toHTTPRequest`). `SizeRecorded` and `UrlFromParams` speak
  of the one and of the other.
- A `SetParam` after the send leaves `RawRequest` without a body and without headers
  (`request.go:130`; `refreshRawHeaders`), and the metrics, which read the size from it,
  say that zero bytes were sent (`metrics.go:25` beside `definitions.go:40`).
  `SizeRecorded` exempts this case (`refreshed`).
- `mergeConfig` does not copy `EnableTrace` and `DebugMode`, though
  `integration_test.go:71` and `examples/trace_debug.go:34` expect a trace
  (`config.go:34`). Hence no model of the trace.
- A placeholder whose name begins with another key, or a value with a colon, gives a URL
  that depends on the order of the map (`enhanced_request.go:24`; `Unambiguous`).
- The URL is validated before path parameters are put into it (`vecto.go:290`), so the
  limit of its length may be passed.
- A slice becomes one parameter, the text of the slice, where a comment says repeated
  parameters (`enhanced_request.go:178` beside `url.go:16`; `getUrlInstance`).
- `BaseUrl` is documented to be without query parameters and keeps the query the URL was
  given with (`request.go:140`).
- A form body is passed to the default transform, which encodes it as JSON
  (`vecto.go:317` beside `:298`).
- The instance's `SetBearerToken` accepts a token that `validateHeaders` refuses; every
  request made afterwards fails (`auth.go:66`; `SetAuth`).
- `ClearAuth` deletes `Authorization` as it is written; another spelling stays
  (`auth.go:78`).
- `Params` hands out the map of path parameters itself, not a copy (`request.go:214`).
- A channel that is full when its turn comes loses the event (`channels.go:38` beside
  `request.go:34`; `EventDispatch`).
- A configured adapter bypasses the middleware (`vecto.go:135` beside `:249`;
  `RequestPipeline`, `Adapt`).
- When a response middleware fails, the metrics may hold `Success` true beside an
  error (`vecto.go:206` beside `definitions.go:46`; `MiddlewareFails`).
- A response middleware that returns `nil` or a `Response` of its own makes `dispatch`
  dereference a nil request: the call panics (`vecto.go:214`; `DispatchPanics`).

## Proofs

All are checked by TLAPS for every value of the constants that the named assumptions
allow.

- `CircuitBreakerProofs`: `TypeCorrect`, `ClosedBelow`, `ProbesAccounted`,
  `ProbesStayBounded` and `SlotsAreForProbes` from `ConfigAssumption` (the configured
  numbers are integers; `NewCircuitBreaker` makes them positive) and
  `PanickingAssumption`. The invariant is `TypeOK`, the bound of the window, the accounting of the slots, and that the
  probes are finitely many. The accounting is what makes it inductive:
  `halfOpenRequests` alone does not say how many probes are in flight, since late
  successes lower it; that there are at most `consecutiveSuccesses` of those gives
  the bound, and that they only ever lower it gives `SlotsAreForProbes`, the safe part
  of `HalfOpenResolves`. On the same invariant rests `KeepsPromise`: the breaker implements
  `AbstractBreaker`, one lemma for each operation (`AllowRequestPromise`,
  `RecordResultPromise`, `PanicsPromise`, `TickPromise`). What carries it is that the
  window, cleaned or not, has the same failures that count (`CleanupIdempotent`), that
  a record adds one to them (`RecordFailureAdds`), and that a tick of the clock takes
  away exactly those whose time has come (`TickExpires`).
- `BreakerRegistryProofs`: `OneBreakerPerKey` and `RegistryTypeCorrect`. The invariant is
  the two together: that a caller between the two locks holds no breaker is in the
  types, and is what creating one needs.
- `RetryProofs`: of the loop, `LoopTypeCorrect`, `AttemptsStayBounded`,
  `AtMostOneLateSend`, `EachRetryAnnounced`, `NeverEndsEarly`; each adds to the property
  where the loop is when it holds. `WaitsImplementLoop` carries them over to the loop
  with its waits. `WaitsStayLimited`: each strategy returns a value that is cut, or is
  the one second, or a fixed wait that the validation has compared.
  `WaitsAreAsTested`: as long as the product fits a duration, at any width of it, each
  retry waits what the code and its tests make of the attempt, `WaitTime` times
  `2^(attempt-1)` for the exponential strategy, or what the server asks in the answer that
  is retried, cut to `MaxWaitTime`; it needs that an attempt without an answer has no
  header (`WaitsInv`), that a product that fits has an exponent the code can shift by
  (`ExponentFits`), and this that powers of two grow (`PowerMonotonic`), which is shown
  by counting subsets.
- `RequestLockProofs`: `LockTypeCorrect`, `WritersAreAlone`, `NoneReenters` and
  `LockNeverStuck`, for any number of goroutines, each under the hypothesis
  `Operations \subseteq WithoutBreaker`: with the operation that computes the key of a
  breaker they are false, which is what `lock_key` shows. The invariant says that where
  a goroutine is in its method tells what it holds (`HoldsWhatItReleases`), that a
  writer holds the lock alone (`MutualExclusion`), and that whoever owns `w` is about to
  get the lock or to release it; it is inductive because every method takes and releases
  by turns (`ProgramsAlternate`). For `LockNeverStuck` it adds that a parked reader has
  a writer before it: then a writer can go on, or a reader it waits for can.
- `EventDispatchProofs`: `EachIsOffered`, from an invariant that says of each request
  how far its dispatch has come; that a channel which is passed over was full (`FullOK`)
  needs the account of what it has taken. `ResponsesIsolated`: every response in an event is what
  `deepCopy` makes of the completed one (`CopiesOK`), and a place of the one is a place of
  the other only in the shared parts (`CopyApart`), so a write shows nowhere else
  (`WritesShow`). `DispatchTypeCorrect`: no channel is filled above its capacity and
  nobody waits on one that holds an event. All from `CapacityAssumption`.
- `PathParamsProofs`: what the recursions of `PathParams` compute, for any data.
  `StructConverted`: of any struct, the last field of a name counts, and a field without a
  conversion refuses it. `PathReplaced`: of any template and map of parameters in which
  only the key of a placeholder can be found, each placeholder that has a value is
  replaced by it, in whatever order the map is visited. The library's induction theorems
  cannot be used here; `InductiveSet` takes their place: a set that has 0 and with each
  number the next one has them all, by the pigeonhole principle. With it each recursion
  is shown to have one solution, which is then given in closed form: for a fold, what it
  has made of the positions visited so far; for `ReplaceEvery`, a text put together from
  its end (`FromEndExists`, `FromEndUnique`). From the latter follow the three rules the
  rest is made of: a pass treats the rest of a text as if it were alone (`ScanOfRest`), an
  occurrence is replaced (`ReplaceFirst`), and what no occurrence starts in stays
  (`ReplaceSkips`); hence a pass over a path is a pass over each segment
  (`ReplaceSegments`). What a segment becomes is then a question of its kind: a
  placeholder in braces is that of no other key (`OtherBrace`), one with a colon of no
  key that its name does not begin with (`OtherColon`), and a value has no brace once it
  is escaped, and no colon (`EscapedTokens`).
- `RequestObjectProofs`. The headers: `MapsNeverShared` and `MapsImplementValues`, for any
  names, values, instances and requests. Two lemmas carry both: a map that is made, and a
  write into a map nobody else has, each change what one holder sees. The refinement
  then has one case per operation. `RequestImplementsMaps`: each step of a request is one
  of `HeaderMaps` or leaves the headers alone; hence `RequestHeadersAreValues`.
  The sizes: `SizeIsRecorded` and `ResponsesAreWhole`, whose invariants follow the size
  from the transform to the record and the limit from `New` to the answer;
  `RequestTypeCorrect`. The URL: `UrlIsOfParams`, that it is that of the parameters after
  any setters and sends, under the hypothesis that `__path_params__` is no query key
  (`PathKey \notin Keys`): a caller who uses that name in `SetParam` sees `SetPathParam`
  change the parameter and leave the URL.
  The options: `BuildsWhatIsAsked`, that a request has the parameters its options ask for,
  or is refused for one of the reasons the code has, whatever the order in which its two
  maps are visited; it rests on `StructConverted` and on `MapIsSet`, what a range over a
  map makes of the builder. `PathIsAsTemplated`, that the path of a request is the template
  with its placeholders replaced, from `PathReplaced`; the invariant is that the path is
  what `replacePathParams` made in some order. Both rest on `OptionsAssumption`: a struct
  has its fields in order and a name for each, maps are finite, names and keys of a
  template are words and no key is empty. The first three are so in the code; the last
  two are the model's choice of templates. They leave out a key with a brace, a colon or a
  slash, and a base URL in which a key follows a colon (`replacePathParams` is given the
  whole URL, `vecto.go:295`): there the result is ambiguous, as it is where
  `Unambiguous` fails.
- `RequestPipelineProofs`: `TypeCorrect`, `OneMatchingRecord`, `EventIffReturned`,
  `RunsInOrder`. For the first two of the results, `StepKinds` reduces every step to
  three kinds: it leaves what calls hand back alone, moves one call on, or ends one
  call with its record and event; that a call past the adapter is on an instance
  without one (`ServedWithoutAdapter`) is what the event needs. For the order, the
  invariant `InOrder` says that a call's copy of the middleware continues, in the
  collection as it is now, what the call has run, and that what was registered when
  the call began is no longer than both together; it is stable because registration
  only adds to the end.

Only model-checked: every liveness property (`OpenIsLeft`, `HalfOpenResolves`,
`CancelEnds`, `BoundedEnds`, `OperationsReturn`, `DispatchEnds`, `CallsReturn`), since
fairness is beyond the prover. Every invariant and every action property of a passing
run is also a theorem.

## Plan

Done, in this order: breaker, registry, retry, locks, events, waits, pipeline, the waits
composed with the loop, headers, the request object, what its options come to. Next:

1. A composition of breaker and registry, for a call that records in a breaker that was
   removed.
2. The remaining fields of `mergeConfig`.

## Not modelled

Decoding of responses, JSON and form encoding, which characters a header may have:
conversions of text without state. TLS and transport set-up: I/O. The trace: never on
in an instance that `New` made. The fields of the configuration that `mergeConfig`
copies one by one. The logger and the buffer pool: no state that anything else depends
on. The examples: programs that use the library.
