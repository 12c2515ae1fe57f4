# Formal models of Model-Velo

TLA+ specifications of the stateful parts of the Model-Velo gateway, the TLC
configurations that check them on small instances, and TLAPS proofs of the facts
that matter most for every instance. `PROJECT.json` is the machine-readable index:
components, runs, mutants, the map from definitions to source lines, hazards,
findings and theorems. Paths below are relative to `src/`.

## 1. The system

Model-Velo is a Go gateway in front of LLM providers. An API process takes a
request through: API key authentication, the start of a usage record, model
authorization, the Redis rate limit, the current runtime snapshot, the router's
plan (an ordered list of candidates), a quota reservation in PostgreSQL, the
response cache, and the reliability layer. For each candidate the reliability layer passes
**circuit breaker → provider queue → provider key → adapter**, feeds the outcome
back, and retries or falls back to the next candidate. At the end the quota
reservation is settled and the usage event is written to an outbox. A separate
usage worker moves the outbox to a Redis Stream and from there to the table of usage
events. Administrators change the runtime document and the price list while
requests run; every API process polls for the new version.

### Inventory

| Part | Code | State | Operations | What is hard |
|---|---|---|---|---|
| Failure classes | `internal/reliability/failure.go`, `internal/provider/errors.go` | none | FromProvider, SignalsFor | an error is read differently once the context has ended |
| Circuit breaker | `internal/reliability/breaker.go` | state, generation, counters, permits | Allow, Complete, Abandon, Snapshot | completions from an earlier period; probe slots |
| Provider queue | `internal/reliability/queue.go` | channel of slots, two atomic counters | Acquire, Release | no lock around the three; context, timer and slot race |
| Key selector | `internal/reliability/keyselector.go` | per key: disabled, cooldown, version; rotation | Select, Complete, RetryAfter | reports out of order |
| Executor, orchestrator | `internal/reliability/{attempt,stream_attempt,orchestrator,retry}.go` | position of each request and what it holds | Execute, OpenStream, Finish | every exit gives back what it took; cancellation; panics |
| Quota ledger | `internal/quota/manager.go` | windows, reservations | Reserve, Settle, ReapExpired | crash before Settle, Settle after reaping |
| Quota policy index | `internal/quota/policy_index.go` | in-memory index | Put, Replace, Has | staleness |
| Usage pipeline | `internal/usage/{outbox,worker,store}.go` | write queue, outbox, stream, events, workers | Begin, Emit, Publish, Run | crashes anywhere, lost and repeated messages |
| Administrators | `internal/adminauth/manager.go` | principals, role grants | Bootstrap, create, update | check and write in a READ COMMITTED transaction |
| Control plane | `internal/controlplane/service.go`, `internal/gateway/runtime.go` | active row; per process: snapshot and view | UpdateRuntime, UpdatePricing, Watch | commit, switch and view are three steps |
| Auth cache | `internal/apikey/{service,cache,cache_redis,snapshot}.go` | per process: L1, loads under way; Redis value and channel | load, promotion, invalidation | an invalidation races a load; messages get lost |
| Rate limiter | `internal/ratelimit/limiter.go` | a counter per tenant and model in Redis | one script | expiry, Redis failing |
| Response cache | `internal/responsecache/cache.go` | Redis keys | Lookup, Store | change of routes meanwhile |
| Router | `internal/routing/router.go`, `internal/controlplane/document.go` | none per request | New, Plan | routes and adapters must agree on what a protocol can carry |
| Adapters | `internal/provider/*.go` | per stream: mapper state, goroutine, pipe | build, map, decode | pieces in any order; a reader that leaves |
| Client protocols | `internal/httpapi/{responses,anthropic}*.go` | per stream: open items, tools, usage | convert, write, complete | items opened, numbered and closed |
| HTTP handlers | `internal/httpapi/{chat,embeddings,usage}.go` | the request's session | complete, stream, create, finish | order of reservation, settlement and usage event; every early return |

The correctness properties this suggests: resources taken are given back and limits
are exact; late reports do no harm; requests end; money and tokens are accounted
for once; an event is recorded exactly once whatever fails; all processes come to
use the same configuration; someone can always administer the system.

## 2. Modules

State variables have the names of the Go fields and actions the names of the Go
functions wherever there is one. Time is counted down: a deadline is a variable
such as `openLeft` or `cooldown` that `Tick` decreases. A lock-protected method or
a database transaction that locks what it reads is one action; code without a lock
is cut at every shared access.

| Module | Models | Notes |
|---|---|---|
| `Failure` | categories, `SignalsFor`, `FromProvider` | operators over the kinds of error that an adapter returns (none, HTTP status classes with or without Retry-After, network, protocol ...) and the state of the context |
| `Breaker` | one breaker | every method runs under `mu`, so each is an action; `CurrentState` is the lazy transition to half-open that every method makes first |
| `BreakerPolicy` | what a breaker promises | mode, the calls entitled to vote, a tally: no generations and no counters |
| `ProviderQueue` | one queue | every channel operation and every atomic update is a step; `at[r]` is the line of Acquire or Release a request has reached |
| `Semaphore` | what a queue promises | a set of holders within the limit |
| `KeySelector` | the keys of a provider | selection with preference, exclusion and rotation; completion; what RetryAfter announces |
| `Orchestrator` | composition of breaker, queue and keys with the executor, retries, fallback and streams | calls the actions of `Breaker` and `KeySelector` through INSTANCE; the queue appears as `Semaphore`, which `ProviderQueue` implements |
| `QuotaLedger` | windows and reservations | transactions are actions; the owning request may be lost at any point |
| `UsagePipeline` | API process, outbox, relay, stream, consumers | all Redis and database calls are separate steps and may fail |
| `UsageLedger` | what the pipeline promises | an accepted event is recorded at most once and for good |
| `AdminOwners` | administrators | statements of a transaction that read without a lock are steps of their own |
| `ControlPlane` | updates, polling, restarts | used for the runtime document and, with `Kind = "pricing"`, for the price list |
| `AuthCache` | lookup, shared load, promotion, invalidation | two caches, the Redis channel and a number of processes; the two queries of a load are two steps |
| `ChatRequest` | what a client API, a capability table and a request builder accept | a request is the set of features it has; conversions and builders are operators on that set |
| `StreamMapper` | the events of each provider protocol and the mapper of each adapter | an answer is a list of blocks, cut into pieces; also the decoders of complete answers |
| `ProtocolWriter` | the writers that re-encode a stream for chat, Responses and Anthropic clients | a writer is a record of what the code keeps between chunks |
| `ProviderStream` | composition of the three with the goroutine, the pipe and the handler's loop | one stream, from the choice of the route to the release of its resources |
| `Router` | `New` and `Plan` | operators over routing definitions, with the capabilities of `ChatRequest` |
| `PolicyIndex` | the index of quota policies | commit, Put, and a refresh that reads and replaces in two steps |
| `SnapshotManager` | `gateway.Manager` and the publications of `UpdateRuntime` and `Watch` | a publication reads Current, builds on it, commits and replaces in separate steps; provider queues are what a snapshot takes over |
| `RequestPath` | composition: limiter, snapshots, quota, response cache, provider call and usage session | several requests of one tenant in one process, while routes and policies change; includes `SnapshotManager` and `PolicyIndex` |

`MC*` modules give TLC values for the constants; `*Proofs` modules and `OrchestratorSteps` hold the proofs.

### How the modules abstract the code

- **Outcomes.** `Breaker` and `KeySelector` take any failure record; `Orchestrator`
  generates them with `FromProvider` from the adapter's error and the request's
  context, so a canceled request reports what the code reports. `FromProvider` passes on an
  error that already is a `*Failure`; none of its callers has one, and the branch is left out.
- **Orchestrator.** The plan's candidates are those that name one provider; candidates
  of other providers touch other breakers, queues and keys. The backoff lasts at
  least a key's announced cooldown and is otherwise arbitrary up to a bound. A
  panic in an adapter is an outcome of non-streaming calls (deferred calls run, and
  `gin.Recovery` in `internal/httpapi/router_options.go` keeps the process alive);
  a stream's adapter runs in a goroutine of its own, where a panic ends the process.
  Missing adapters and policies (a configuration error that `Execute` reports before
  it takes anything) and providers without keys are left out.
- **QuotaLedger.** A policy's limits are constant and only its `enabled` flag
  changes. `ReserveSkipped` is a request that runs without a reservation, because
  the policy index misses the policy; `SettleLost` is a crash or a failed
  settlement. The overflow checks are left out: limits are at most 10^15 and amounts
  are added in 64 bits.
- **UsagePipeline.** A row's payload is `real`, `interrupted` (written by
  recovery) or absent. `Crash` is per request; several requests crashing together is
  several crashes. Redis is external: `LoseEntry` drops an entry and its pending
  delivery, `LoseEverything` the stream with its consumer group. `StreamFull` comes
  from the finite set of entry ids and lets the relay give up as after a failed XADD.
- **AdminOwners.** A principal has the owner role or not. `create` needs an
  authenticated administrator, hence a known principal.
- **ControlPlane.** A document is identified with the update that wrote it. After a restart,
  the process may serve the bootstrap document before its first load, which is more
  than the code allows. A client's If-Match is the view of any instance, which need not be the one it
  then sends the update to. `overtaken` holds the processes whose view was last set for a document that
  another publication had already replaced.
- **AuthCache.** One key of one tenant. Their committed states are numbered versions, and a
  snapshot holds the two versions that the two queries of a load saw. Lifetimes are counted in
  ticks; `LoadTime` bounds the time from the start of a load to the last use of its result (the
  request's context has a deadline). The clocks of the processes and of Redis agree.
- **ChatRequest.** Names and texts do not matter to what a builder accepts, so a feature stands
  for every request that has it ("a remote image", "a negative seed"), and refusals that need two
  features together are sets of two. Malformed names, identifiers and parameter values are not enumerated.
- **StreamMapper, ProtocolWriter.** A text is a sequence of pieces, a piece is its block and its
  position: enough to see a piece lost, repeated, misplaced or given to another tool. Token
  counts are the set of the counts that are known. Names of models, identifiers and the JSON
  around them are left out. The newline that Cohere's decoder puts between thinking and tool plan
  is a piece of its own, and an answer may be empty.
- **ProviderStream.** The provider is free to send an invalid event, to end early or to keep the
  connection alive; the client is free to leave. A read from the pipe and a write into it meet in
  one step, as `io.Pipe` has it.
- **RequestPath.** A call of the provider is one step (`Orchestrator` has its attempts), and so
  are the quota transaction (`QuotaLedger`) and the write of an outbox row (`UsagePipeline`); each
  may fail, and where a failed call may nevertheless have committed, it may here.
  `RecoverAbandoned` and `ReapExpired` may come while the handler is at work: a request that
  outlasts the pending timeout or its reservation is one more disturbance.
  Requests with equal bodies are equal; the canonical form that the cache hashes is that identity.
  `Validate` has the checks of `Event.Validate` that relate outcome, status, cache and error; those
  on identifiers, lengths and counts of one event are left out.
- **SnapshotManager.** Of what a snapshot takes over from the current one (queues, breakers, keys) the
  queues are modelled. The process starts from a stored version: the bootstrap configuration has no
  provider states, so the first managed snapshot takes nothing over from it. A publication that begins
  while requests run is one of the disturbances.

## 3. Runs

Eleven runs pass, each within the five minutes they are given; one more is refuted and documents a
disagreement between code and documentation. Deadlock is checked in all passing runs but
`streams` and `request_path`, where everything may have ended.

| Run | Instance | States | Checks |
|---|---|---|---|
| `breaker` | 3 calls, threshold 2, open for 2, 2 probes | 15,547 | implements `BreakerPolicy`; the breaker is never shut for good by its own probes |
| `provider_queue` | 4 requests, 2 slots, 1 waiting | 57,088 | counters agree with positions; implements `Semaphore`; Acquire returns |
| `key_selector` | 3 requests, 2 keys, 2 versions | 94,844 | late success harmless; cooldown not shortened; RetryAfter exact |
| `orchestrator_faults` | a plain and a streaming request, 1 slot, 1 waiting, network and protocol errors, panic, cancellation, deadline | 195,258 | nothing is held outside an attempt; a healthy provider's breaker stays closed; the breaker is used as `Breaker` allows; requests end |
| `orchestrator_route` | 2 requests, 2 candidates, 2 keys, 1 slot, no waiting, errors none/400/401/403/429 | 1,134,628 | upstream calls within MaxAttempts per candidate; a refused key is not asked again within an Execute |
| `quota_ledger` | 2 requests, 2 denying policies (tokens and cost; requests), 2 windows each | 133,024 | counters are the sums of the reservations; the request limit; overruns are caused only by usage beyond a request's own estimate; every reservation is closed in the end |
| `usage_pipeline` | 1 event, 2 workers, 2 ids, 3 faults | 256,281 | nothing lost; recorded once, never changed; stored in the end if the consumer group stays |
| `control_plane` | 2 instances, 3 updates (two on the same instance), 1 restart | 788,696 | no lost update; every instance comes to use the stored document for good, unless the publication that set its view last had been overtaken by another |
| `auth_cache` | 2 processes, 1 request, lifetimes 2, loads of 1 tick, 1 change, 1 fault | 420,896 | a superseded state is used for a bounded time; a process never brings back what it has invalidated |
| `streams` | 17 protocols, 3 client APIs, requests of up to 2 features, 7 shapes of answers in 2 pieces, 1 heartbeat | 221,191 | routes and builders agree; the client gets the answer whole and in order, or sees that it was cut; usage and finish reason as in a complete answer; items opened are closed with their own index; everything is released |
| `request_path` | 2 requests, 4 bodies, 3 routing versions, 2 policy versions, limit 1, 1 slot, 2 disturbances | 393,893 | cached answers belong to the pinned routes; accounting before the call; slots shared between snapshots of which each was built from the one it replaced; valid events; everything is closed in the end; the policy index converges |

**Why these bounds.** Three calls and two probe slots allow a stale permit, a probe
that fails and one that is still out at once. Four requests fill two slots and the
waiting place and leave one to be turned away. Two keys and three users give a key an
older and a newer report and a second key to rotate to. Two windows let a reservation be settled after
its window has passed, and two policies show that a refusal by one leaves the other untouched; a policy
that allows or alerts differs only in never refusing. Three faults cover a crash followed by a failure and a
loss during recovery; two workers are needed for one event to be claimed while its first reader still works on it.
`MaxGeneration` and `MaxVersion` stop the provider from failing further, never the code
from reacting. Three updates, two of them on one instance, are what it takes for one publication to overtake another while
a third comes from elsewhere. With lifetimes of two ticks an entry can be promoted late in its life from
Redis to a process, which is where the bound of `StaleBounded` comes from: it is reached, and a bound
smaller by one fails. The shapes of answers are the orders of text, reasoning and tools that some mapper
or writer tells apart. In `request_path` a disturbance is any failure, cancellation or change: two of them give two publications
that overlap, a change of routes during a request together with a failure of it, or a policy that is switched on between the look at the
index and the reservation; the proofs of section 4 cover the rest.

**Fairness.** Only steps that the process, the Go scheduler or a timer takes by
itself are weakly fair; what clients and providers do is not.

| Run | Fair | Because |
|---|---|---|
| `breaker` | Abandon of a held permit, Tick | `executeOnce` defers Abandon and every attempt has a timeout |
| `provider_queue` | the steps inside Acquire | the scheduler, and the timer that bounds the wait |
| `orchestrator_faults` | the steps of a request, the end of its budget, Tick | attempt timeout and request budget are timers; the end of a stream is not assumed |
| `quota_ledger` | Expire, ReapExpired | the ticker of RunReaper; a row skipped because it is locked belongs to a transaction that ends |
| `usage_pipeline` | queued writes, worker steps (restart included), ageing | `compose.yaml` restarts the worker unless stopped; tickers and claim-idle time |
| `control_plane` | steps of an update that has begun, Watch | its ticker |
| `streams` | the goroutine's step after a failed read or write, the close of a stream that has ended | the scheduler, and a deferred call; nothing is assumed of provider or client |
| `request_path` | the handlers, recovery, reaping and refresh, all together | deadlines on every call, and tickers; nothing is assumed of one request while others run |

**What the instances leave out.** `usage_pipeline` follows a single event, so several events in one
batch are only covered by the proofs. `orchestrator_route` and `orchestrator_faults` offer the adapter
five and three of the error kinds that `Failure` classifies, not all of them. No key cools down in the
instance that checks `RequestEnds`: the 429 that would do it is in `orchestrator_route`, whose properties are safety properties
(with a 429 the fair run takes over ten minutes; it passes). Settle and ReapExpired lock windows in
different orders, and the deadlock that PostgreSQL then breaks appears only as a transaction that fails. A value that
goes from Redis into a process is kept to `StaleBounded` alone, since `PromotionCurrent` is about a process's own loads, and `CallIsAccounted`
accepts a call without a reservation when the policy index is stale: that it does not stay so is `PolicyConverges`. `AdminOwners` is used by a
refuted run only: that an owner remains when calls come one after the other is not checked by a kept run.
`streams` follows one stream at a time; streams share nothing.

The type invariants, `InFlightIsPendingProbes`, `VoteMatchesState`, `ActiveWithinSlots` and `WindowBound`
are proved (section 4) and not repeated in runs; the `TypeOK` of `ProviderStream` and
`AdminOwners`, which have no proofs, only documents their state.

Every property of a passing run has a mutant in `PROJECT.json`: a plausible bug in a
mapped definition for which TLC reports the property violated in the same run.

### Where code and documentation disagree

`admin_owners_concurrent` is a run whose property states what the documentation says and that TLC
refutes: two concurrent updates can take the owner role from the last two owners, or disable them, where
`docs/operations.md:24` says the last one cannot be disabled.

The others are stated as exceptions in the properties, or were met while modelling:

1. A request that outlasts the pending timeout (15 minutes by default) is recorded as interrupted
   although its process is alive, and its complete event is then dropped as a duplicate.
   `docs/detailed-reference.md:54` ties the interrupted event to a process that exits.
2. The consumer group is created when a worker starts and never again; if Redis loses its data,
   running workers fail for ever. `docs/operations.md:32` promises no permanent gap.
   `StoredWithGroup` is what does hold: a restarted worker repairs it.
3. Two updates in one process may switch the runtime in the opposite order of their commits while
   the view ends at the newer version, so polling does not repair it. `docs/operations.md:26`
   describes an atomic switch to the active version. `Converges` makes the exception explicit: it says
   nothing of a process that is `overtaken`.
4. With `Kind = "pricing"` and two updates, `NoLostUpdate` fails: the first version of the price list
   has no row to lock, and `Save` overwrites what the other call has inserted, so both calls with
   `If-Match: 0` succeed.
5. The set of refused keys belongs to one candidate: a plan that names a provider twice, with
   two models, may ask a key again that answered 403 to the first, where
   `docs/detailed-reference.md:393` speaks of the whole request.
6. With the authentication cache switched on, a revoked key is accepted until every process has
   invalidated it, and for the bounded time of `StaleBounded` if a message is lost.
   `docs/detailed-reference.md:468` says that disabling and revoking take effect at once, and
   `ARCHITECTURE.md:296` that every authentication asks PostgreSQL.
7. `EventsValid` names two outcomes that `Event.Validate` refuses, so that the event is not written
   and recovery later records the request as interrupted: a cached chat answer that cannot be
   encoded for its client keeps cache status "hit" with a failed outcome, and an embedding whose client
   leaves during the call is canceled without an error code.
8. A stream and a complete answer of the same provider can differ in the finish reason
   (`NormalisedApart` in `ProviderStream`): Anthropic "refusal", unknown reasons of Bedrock and
   Cohere, Gemini's reasons other than STOP with tools, DashScope's "length" and "max_tokens" and its
   "stop" with tools.
9. The Responses writer gives the text the output index 0 even if a tool was opened before it, so
   that the two share an index; both re-encoders complete at the chunk with the finish reason, and
   the usage chunk that compatible providers send after it does not reach the client; reasoning is
   not re-encoded at all; the first event of an Anthropic stream announces 0 input tokens unless the first chunk has usage.
10. Some builders drop a tool's `strict` (Gemini, Bedrock, Ollama, and the conversion of Anthropic
    requests), and both converters drop unknown fields of content parts, where
    a comment in `internal/provider/chat_request.go:188` asks that what cannot be expressed be refused.
11. Two publications that overlap in a process build on the same snapshot, and each makes a queue for a
    provider that is new or whose queue has changed; the requests of both snapshots may then hold the in-flight limit each.
    The same happens between the bootstrap configuration and the first managed version. A comment in
    `internal/reliability/queue.go:275` says that leases are coordinated across snapshots when the
    queue's configuration is unchanged, and `docs/detailed-reference.md:196` that the limit is per
    provider and process. `SlotsBounded` excludes the runs in which a snapshot was `raced`.
12. Cohere's decoder of complete answers puts a newline between thinking and tool plan, its stream
    does not (`StreamIsWhole` compares the two up to that newline). The decoders of Anthropic,
    Bedrock, Gemini and Cohere refuse an answer without content that is a good stream.

## 4. Proofs

TLAPS checks every theorem for all values of the constants that satisfy the named
assumptions of the component modules (finite sets of requests, positive thresholds,
limits that are natural numbers or absent).

**Breaker** (`BreakerProofs`, `BreakerAssumption`). `BreakerInv` adds to the two
invariants that no permit comes from a future generation. It is needed because
a transition increments the generation: without it, an old permit might carry the new
number and vote in a period it was not admitted to. From it follow `TypeCorrect`,
`ProbeAccounting`, `VotesAreCurrent` and, step by step, `Refinement`: mapped to
mode, current voters and the counter that belongs to the mode, every step of the
breaker is a step of `BreakerPolicy` or changes nothing.

**Provider queue** (`ProviderProofs`, `QueueAssumption`).
`CountersMatchRequests` is inductive together with the type invariant: it gives, for each
of the three counters, the positions in Acquire and Release whose occupants it counts.
`QueueAccounting`, `ActiveBounded` and `QueueRefinement` follow; the lemmas say how the
cardinality of a set of positions changes when one request moves.

**Keys** (`ProviderProofs`, `KeySelectorAssumption`). `KeyInv` adds that no selection
carries a version from the future. A success clears a cooldown only at an
equal version, and every 429 or 401 increases the version. `LateSuccess`,
`CooldownsSurvive` (an action property) and `RetryAfterIsExact` follow.

**Orchestrator** (`OrchestratorSteps` and `OrchestratorProofs`, `OrchestratorAssumption`,
`ReportableAssumption`). `OrchestratorInv` says, for every place an attempt can be at, what the request
holds there (permit, slot, selection), what it may still spend of its attempts and calls, and what its
failure may still do to the breaker. No property is inductive without that: that nothing is held outside an
attempt depends on what each exit finds held, and that a healthy provider's breaker stays closed
(`HealthyProviderServes`) on the failures that are under way. From it follow `NothingHeldOutside`, `CallsAreBounded`,
`RefusedKeysAvoided` and `BreakerUsage`: every step is a step of `Breaker` or leaves it alone. Together with
`BreakerProofs` the latter gives `ProbesAccounted` and `BreakerPolicyKept`, the breaker's own theorems for the
breaker as the executor uses it (its bound on generations is `MaxGeneration + 3` there, which the
orchestrator's own bound never reaches).

**Quota** (`QuotaLedgerProofs`, `QuotaAssumption`). `QuotaInv` is inductive: types, `RowsSound` (a
reservation counts one request), `NewHasNoRow`, `LedgerBalances` itself, and `LimitsRespected`: a denying policy's
counters exceed the limit by no more than the overruns of the window's reservations. `LimitsRespected` is needed
because Settle and ReapExpired move an amount from one counter to the other and only their sum was
compared with the limit. The sums are `SumFunctionOnSet` of the community modules, a recursive function over a finite
set; the lemmas `Least` to `SumChange` show what it does when an element is added, removed or changed, by
the least cardinality of a counterexample. `LedgerIsBalanced`, `OverrunBounded` and `RequestLimit` follow.

**Control plane** (`StorageProofs`, `ControlPlaneAssumption`, assuming `Kind = "runtime"`). `PlaneInv` is
`NoLostUpdate` together with `Versioned`: no process's view and no update under way is ahead of
the stored version. The runtime document always has a row to lock, which is why the theorem
does not extend to the price list (item 4 above). `RuntimeNoLostUpdate` and `RuntimeTypeOK` follow.

**Usage** (`StorageProofs`, `UsageAssumption`). `UsageInv` adds to `TypeOK` and `NothingLost` what a row that
the relay may read carries (`Payloaded`), and that no record of an event exists anywhere while its
row is pending or not yet written (`Sequenced`): `markPublished` goes by the id alone and would
otherwise take a pending row for published. `UsageNothingLost` follows, and `UsageRecordedOnce`: every step
of the pipeline is a step of `UsageLedger` or changes nothing in it, because `InsertBatch` ignores an
event that is there.

**Authentication cache** (`AuthCacheProofs`, `AuthCacheAssumption`). `AuthInv` has four parts
besides types: the clock of a version starts when the next is committed (`Clock`), no process knows
of an uncommitted version (`Committed`), the age of what a cache, a load or a waiting request holds is bounded by the
lifetime it has used up (`Timely`), and a load whose generation is unchanged is no older than the newest change
whose invalidation its process has begun (`Current`). `Timely` is what makes `AuthStaleBounded` inductive, `Current`
does it for `AuthPromotionCurrent`.

**Request path** (`RequestPathProofs`, `RequestPathAssumption`, `PolicyAssumption`,
`DefinitionsAssumption`). An action of a handler touches one request, so `PathInv` is a predicate of a handler,
its outbox row and its reservation (`HandlerOK`) and a few facts about the shared state: a stored answer was made by
the first candidate of the version it is stored under, the limiter's counter is the number admitted,
and `ManagerOK`, which says what the current snapshot and each publication under way know of each other. `Pinned` ties
the plan of a handler to its snapshot: without it a hit could not be compared with what the request would have
asked. From it follow `PathCachedAnswersMatch`, `PathCallIsAccounted`, `PathEventsValid`, `PathOwnEventKept`,
`PathWindowBound` and `PathTypeOK`, for any number of requests, versions and disturbances.
`PathSlotsBounded` needs `SlotsInv` besides: while no snapshot has been published over one it was not
built from, any two snapshots in use have the same queue for a provider whose queue was
configured alike from the one to the other (`SnapshotsAgree`), and no queue has more slots taken than it has
(`SlotsHeld`). A publication that has not been overtaken takes over the queues of the
current snapshot (`Reuses` in `ManagerOK`), which carries the agreement from one replacement to the next.

**Only model-checked.** Everything that needs fairness (`NeverWedged`, `AcquireReturns`,
`RequestEnds`, `ReservationsClose`, `StoredWithGroup`, `Converges`, `StreamReleased`,
`EverythingEnds`, `PolicyConverges`) is out of the prover's reach. The other properties of `streams`
(`RoutedIsAccepted`, `StreamIsWhole`, `UsageReported`, `FinishAgrees`, `ItemsClosed`, `EndMeansWhole`) speak
about operators that walk over sequences, which needs induction over data; they were checked for every
protocol and every pair of features instead. Every other property of a passing run is also proved.

## 5. What could be added

A version of `UsagePipeline` with retention, the change of limits and the creation of policies in `QuotaLedger`,
breakers and keys (besides queues) among what snapshots share, and a run of `AdminOwners` with calls that
do not overlap.

## 6. Not modelled

- **Usage pricing**: exact decimal arithmetic on one event, without state of its own; the catalogue is
  replaced by `ControlPlane` with `Kind = "pricing"`.
- **Usage maintenance**: deletes events older than the retention and reprices stored ones. A
  message that is delivered again after its event was deleted would insert it a second time; between the two lie
  the days of the retention, while messages are repeated within minutes, and the model has no clock
  that spans both.
- **Dead letters**: only rows and messages that do not decode become dead letters, which needs
  a row written by another version of the program.
- **Creation and change of limits of quota policies, of tenants, keys and administrators** beyond what the
  modules name: single transactions whose effect on requests is that of the changes that are modelled.
- **Configuration parsing**: its ranges are the assumptions on constants.
- **Texts, identifiers, headers and token arithmetic** of protocol conversions, and the encryption and redaction of documents: data
  without control.
- **Metrics, logs, traces, read-only queries, connection set-up and migrations, the web frontend and
  the test servers.** A shutdown that runs out of time is the `Crash` of `RequestPath` and `UsagePipeline`.

`PROJECT.json` lists each part with its sources.
