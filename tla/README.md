# A verification development of data-point

TLA+ models of the parts of data-point that are hard to get right: the
stale-while-revalidate cache of `data-point-service`, the two-layer cache of
`data-point-cache` under it, the middleware chain and entity resolution of
`data-point` around it, the reducers that an entity is made of with their trace,
and a whole application of `data-point-express`, from the start of the service to
the answer of a request.  TLC checks small instances; TLAPS proves the main safety
properties for every value of the constants.  Paths are relative to `src/packages/`.

## 1. Inventory

| Component | State | Operations | What is hard |
|---|---|---|---|
| data-point-service, cache middleware (`cache-middleware.js`, `stale-while-revalidate.js`, `redis-controller.js`) | per key in redis: stale entry, control entry, plain entry; per instance: local flags | `before`, `after`, `revalidateEntry` | three threads of control per request, none of them ordered with the others; awaits between test and set; failing redis; overrunning revalidations; restarts |
| data-point-service, revalidation store (`revalidation-store.js`) | a Map of flags with time stamps | `add`, `remove`, `exists`, throttled `clear` | limit, boundary of the timeout, a sweep that depends on traffic |
| data-point-service, parameters (`entity-cache-params.js`) | none | `getCacheParams` | defaults that interact; settings of every type |
| data-point-service, factory (`factory.js`, `setup-middleware.js`) | the service object, the handlers on its middleware | `create`, with or without redis | a connection that fails, returns or hangs in any order; a service that goes on without its cache |
| data-point-cache (`cache.js`, `in-memory.js`) | redis, and a short-lived copy in the memory of each instance | `get`, `set`, `del`, the swipe timer | two layers without a common clock or order |
| data-point-cache, client (`redis-client.js`) | the connection | pipelines of one or two commands | errors inside a resolved pipeline; connection events in any order |
| data-point, middleware control (`middleware-control/`, `middleware/`, `middleware-context/`) | a stack of handlers, a context, a callback called once | `run`, `next` | callbacks that nest, come late, come twice or throw |
| data-point, entity resolution (`entity-types/base-entity/resolve.js`) | the value, whether it was served | ten stages and a catch clause | every await may fail; served values take a short cut |
| data-point, reducers (`reducer-types/`) | none | `createReducer`, `resolveReducer`; path, function, list, object, entity, helpers | order of evaluation, partial failure of `Promise.all`, three notions of falsy |
| data-point, entity types (`entity-types/*`) | none | control, request, schema, hash, collection; `parseCompose` | composition of modifiers |
| data-point, core and stores (`core/`, `stores/`) | registries of entities, types, values, middleware | `create`, `add`, `get`, `clear`, `transform`, `normalizeEntities` | `extends` between entities; specs that share their parts; batches that fail half way; stores that change while transforms run; callbacks |
| data-point, trace (`trace/`) | the graph of one transform | a node per call, the tree at the end | one graph for concurrent calls, some of them abandoned |
| data-point, type checks, helpers | none kept between calls | pure functions | little |
| data-point-express | routes | route map, router, request handlers | order of registration; a request must be answered on every path |
| bench-trial | the suites of one run | tests, benchmarks, report | sequential, statistics |
| data-point-codemods | none | rewriting of source text | out of reach: text processing |

How they interact.  A request reaches `resolveEntity`, which runs the middleware
registered as `before`; the cache middleware is one such handler.  If it calls
`next(null, value)` the value is served; otherwise the entity's reducers run and
the `after` middleware stores what they made.  A stale hit also starts
`revalidateEntry`, which resolves the same entity again, through the same
middleware, with a mark in `locals`.  All cache access goes through
`data-point-cache`, which asks redis for the key first and serves from memory
next.  Instances share redis and nothing else.  `data-point-express` creates the
service, whose start waits for the redis client, and hands out a router once the
service is there; a request that reaches an entity is a transform, which reads the
stores while the application may go on changing them.

What makes each correct: the properties of section 3.  `PROJECT.json` lists the
hazards at their lines, with the properties that would notice each.

## 2. Modules

| Module | Models |
|---|---|
| `StaleWhileRevalidate` | the state of one cache key and the operations of `stale-while-revalidate.js` on it, with every outcome of a redis call |
| `CacheMiddleware` (on the former) | `before`, `after`, `revalidateEntry`, restarts, time |
| `SwrContract` | the abstract specification: a key is fresh, stale or gone, and an instance holds its lease |
| `RevalidationStore` | the local flags of one instance, many keys |
| `DataPointCache` | the two cache layers, one key |
| `MiddlewareControl` | one run of a middleware stack |
| `EntityResolve` (on the former) | `resolveEntity` around the runs of its stacks |
| `ReducerValues` | the values that reducers work on, and reducers as records |
| `ReducerFactory` (on the former) | sources, and the reducers and entities that the factories make of them |
| `Reducers` (on `ReducerValues`) | `resolveReducer` with the `resolve` function of every type |
| `ReducerRules` (on `Reducers`) | what a reducer comes to on a value, as rules over the outcomes of its parts |
| `ReducerMeaning` (on `ReducerRules`, `ReducerFactory`) | the reference: the outcomes that a source may have on a value |
| `ReducerTrace` (on `Reducers`) | the nodes of a traced transform, and the tree written of them |
| `CacheParams` | what the parameters of an entity make of the times, and how long redis keeps an entry |
| `ServiceStart` | the redis client's connection, and `create` of the service |
| `DataPointCore` | the stores, `addEntities` with `extends`, transforms |
| `ExpressRoutes` (on the former) | route map, router, requests |
| `Application` (on `ServiceStart`, `ExpressRoutes`) | their composition: one application from its start on |
| `MC...` | the sets of redis replies, the symmetry, the sources, entities, parameters and applications for TLC |
| `...Proofs` | the theorems; `CacheMiddlewareProofs` has those of `CacheParams` too, `ReducersProofs` those of `ReducerRules` and `ReducerTrace`, `ApplicationProofs` those of `ServiceStart` and `ExpressRoutes` |
| `Induction` | induction on the natural numbers, for the proofs |

A definition named `Faulty...` is a variant of the definition below it with a
plausible mistake (a flag not removed, a comparison reversed, a forgotten
`return`); every property is checked to notice one of them.

### StaleWhileRevalidate and CacheMiddleware

A *slot* is one request on one instance.  Its variables follow the three threads
of control of the code:

| Variable | Code |
|---|---|
| `pc` | the request: `before` up to its answer, the resolution, the wait for `after` |
| `wr` | `after`, from its outputType check to its last write; with `next()` called first (line 300) it runs on its own |
| `bg` | `revalidateEntry`, one state per await, and the catch clause |
| `ctl`, `hit` | the two results of `Promise.all` in `resolveStaleWhileRevalidateEntry` |
| `control`, `stale`, `entry` | the redis entries `<key>:swr.control`, `<key>:swr.stale`, `<key>` |
| `flag` | the entry of the key in the revalidation store of each instance |
| `budget` | what is left of `revalidateTimeout` to a revalidation |

An action ends where the code awaits.  `Serve` is the synchronous stretch from
the results of the lookups to the local flag, and so includes
`shouldTriggerRevalidate`, the call of `revalidateEntry` up to its first await and
`next`.  Abstractions:

- A value is `valid` or `invalid` under the outputType of the entity; `legacy` is
  one that an earlier release stored under another outputType.
- Time counts down: `left` is what remains of a ttl.  A unit is any period that
  holds many redis round trips.  A flag that reached its ttl counts as gone, as
  `exists` has it; the difference to the sweep is the subject of `RevalidationStore`.
- `cache.get` is one step that sees redis as it is; the local layer, with its
  two seconds, is the subject of `DataPointCache`.  The two lookups of
  `Promise.all` are answered in either order.
- A redis call comes to `ok`, `lost` (resolved, but the command failed and nobody
  looked), `rejected`, or `unconfirmed` (carried out, but rejected).
- A value made by the entity's error reducer counts as a failure on the cold path,
  since `after` does not run for it, and as a success of `RevalidateResolve`.
- `cacheKey` functions do not throw, and all requests are for one key.
- An entity without cache has no ttl at all.  With a ttl of 0, `false` or `null` beside
  `staleWhileRevalidate`, which no documentation has, `after` goes on to the two writes of
  stale-while-revalidate where the model writes the plain entry; nobody reads either.

### RevalidationStore

`store` maps each key to the time left, down to -1: 0 is the instant at which
`exists` already says no and the sweep does not yet delete.  `wait` and `pending`
are the throttle of lodash, leading and trailing edge.

### DataPointCache

`get`, `set` and `del` are sequences of steps, one per await.  Copies carry no
value but three observations: whether redis holds this very value (`current`),
how long it has not (`lag`), and how long the copy has been in memory (`age`).
The counters stop at `Horizon`, two above any value a property mentions.  The unit
is the interval of the swipe; a swipe is due once per unit, and a reply is
processed within `Latency` units.  Writes to local memory by replies that arrive
together are taken in any order.

### MiddlewareControl and EntityResolve

`frames` is the stack of handlers that are running: a handler that calls `next`
stays below the one that `next` starts.  Only the innermost may act; when none
runs, any handler that has returned may call `next` from a later turn.  A handler may
throw at any time while it runs, after its call of `next` too: `attempt` catches it
and hands the error to `next`, which takes no further handler, and `done` hears it
only if it has not been called.  `Waiting` says that some handler taken off the
stack has not called `next` yet, and the history `failed` has the errors that came
while one was awaited: `ErrorFails` says that these fail the entity, and no others.
An error that comes later is swallowed.  After an error a handler that is still
pending may call `next`, and so start others, to no effect on the entity.
`Settled` is the moment at which the caller of `execute` continues: `done` has
been called and no handler is running.  `EntityResolve` has one action per stage
of `resolveEntity`, and `Following` is its control flow, with `byPass`.  What types
and reducers compute is open: each may fail, and each reducer may return any
value.  `Catch` is the catch clause; `Fail` adds what a type or reducer can
reject with and middleware cannot pass on, `undefined` or `null`: writing `entityId`
on those throws, and the error reducer is skipped.  Handlers left over from a stack that has ended are not followed: they
hold that stack's own context, which nobody reads any more.

### ReducerValues, ReducerFactory, Reducers, ReducerRules and ReducerMeaning

A source is a tree of records, as the user writes it; `Create` makes a reducer of
it the way `createReducer` does, lists flattened and constants of objects set
apart.  `task` holds every call of `resolveReducer` of one resolution, by its path:
`<<2, 1>>` is the first call of the second call of the outermost one.  Each
`resolve` function is one operator, which is asked what comes next given what its
calls have come to (`got`): more calls, or a result.  `Resume` is the code from one
await to the next, `Reject` the failure that `Promise.all` or an await passes up.
Calls that are started in one synchronous stretch (`Begun`) appear in one step;
they settle in any order.  `Reducers` does not care where its reducers come from: the
constant `Reducer` is a set that has, with each reducer, those it is made of, and
`ReducerMeaning` says that `Roots` are what `Create` makes of the sources.  `Depth` is
how many calls deep one synchronous stretch goes at most.

What a resolution comes to is said twice, and neither knows tasks or steps.
`ReducerRules` has a rule for each type of reducer: the outcomes that it has on a value,
by those of its parts (`OutcomesByType`; `RestByType` where the parts run one at a time).
A set, because two parts that fail together may fail in either order.  `Outcomes` and
`Rest` are constants, of which `FollowTheRules` says that they solve the rules: the
modules with proofs need no RECURSIVE operator then, and TLC gets the solution by
applying the rules (`MCOutcomes`, `MCRest`).  `EachCallAgrees` holds every call to the
rules, `AgreesWithReference` the whole resolution to `Means` of `ReducerMeaning`, which is
defined by recursion over the source, as the README of data-point explains it.
Between the two is `FactoriesAgree`, that the reducers made of the sources do what the
sources mean; `MCReducers` has TLC evaluate it.

A request entity is two calls: its options reducer, then the request itself (`rp`),
whose outcome the constant `Server` gives for its options.  A schema entity asks
`Valid`.

Abstractions: values are `undefined`, `null`, `false`, `NaN`, atoms (numbers, or
`true`), arrays and objects; text occurs as the address of a request (a base
and what is injected into it) and as the empty text, which is missing to predicates
and defaults, and which the `defaultTo` of an entry keeps.  Other text is left out, since JavaScript takes it for a sequence of characters in `find` and `assign`.  Keys of a path are looked up one
level deep.  A function reducer settles to an outcome that depends on its value
only.  Entities run without middleware, which `EntityResolve` has.

The sources are written anew: none contains a reducer that `createReducer` has
already made, nor a default on a constant.  There the code departs from the
reference, as reading it shows: `createReducer` returns an existing reducer as it
is, so `withDefault` around it loses its default (`reducer-types/factory.js:57`), and
the same reducer alone in a list is refused, because it is unwrapped after that
test; a constant in an object loses its default (`reducer-object/factory.js:62`).

### ReducerTrace

With the option trace every call of `resolveReducer` has a node, known by the path
of its task; `createTree` follows the parents as `trace-graph.js` does, level by level.  The
abstraction is of time: a node has a duration or has none.  The property compares
the tree, which is made of parents alone, with the calls that led to each other.

### CacheParams

`getCacheParams` on settings of every JavaScript type, with the milliseconds that a
text stands for, and `Lifetime`, what `cache.set` and `redis.set` make of a ttl.
`MCCacheMiddleware` holds two assumptions that TLC evaluates: that the times of the
runs are those of some entity, and that the three modes of `CacheMiddleware` are all
that parameters lead to.  The second one also exhibits a text that `ms` cannot read
as the stale delta: the stale ttl is `NaN`, and the entry has no expiry.  The empty text
is no setting of the model: `ms` throws on it, and with it `getCacheParams`, before
the middleware has done anything.

### ServiceStart, DataPointCore, ExpressRoutes and Application

`link` is where the ioredis client stands; its events (`OnConnect`, `OnReady`,
`OnError`, `Drop`, `Reconnect`) are the environment, and `server` says whether redis
is up, down, or *locked*: reachable, but reporting an error where it should become
ready.  `client` is the promise that `redis-client.js` settles, `stage` how far
`create` has come.  Continuations of a settled promise run before the next event
(`Idle`).

`DataPointCore` takes `addEntities`, which is synchronous, in one step per entity,
so that a batch can fail half way, and lets nothing come between.  A spec is its
key, its type and the identity of its `select` array, since the factory of control
entities changes that array; `whole` is the set of arrays that still have their
case statements.  The store of values has two paths, `p` and `p.q`; `AddValue` takes
`override`, which `ValuesStay` excepts.  `call` holds
the transforms that are under way and whether the store they took has been
cleared.

In `ExpressRoutes` a route is its method, its path (one of two, or a pattern that
matches both), its priority and its handlers; `GoTo` and `NextMatch` are express's own
dispatch.  `Reply` is `resolveReducer` of `middleware.js` with its try block.

`Application` joins the three: `CreateManager` is `DataPoint.create`, called by the
service; the router is made when the service is there; a request that reaches its
entity is a `Transform` in the same step.  `program` is the application: its options, its
specs, its route map, and what it goes on changing.  One request is enough, since
requests meet only in the stores, whose changes the model has of its own.

## 3. Runs

| Run | Configuration | Shows |
|---|---|---|
| `swr` | 2 instances, 2 slots, legacy entry, redis works | `FreshIsServable`, and `KeepsContract`: `CacheMiddleware` implements `SwrContract`, which admits one revalidation per instance |
| `faults` | 1 instance, 3 slots, ttl alone or stale-while-revalidate, all redis outcomes | `OneRevalidationPerInstance`, `LocalFlagOwned`, `StoredConforms` |
| `live` | 2 instances, 2 slots, ttl alone or stale-while-revalidate, redis calls that may reject, flag store full or not, revalidations that overrun or hang | `Answered`, `FlagLifted`, `Unblocked` |
| `store` | 3 keys, limit 1 | `Bounded`, `SweepKeepsLive`, `RoomAgain` |
| `cache` | 2 instances, 2 calls, all redis outcomes | `BoundedStaleness`, `ServedWasPresent` |
| `entity` | stacks of up to 3 handlers, each calls `next` at most once and may throw before or after | `ResolvesConforming`, `ServedNotStoredAgain`, `EndsOnce`, `ErrorFails`, `Settles` |
| `reducers` | 25 sources, 15 entities (one not registered), 10 input values | `AgreesWithReference`, `EachCallAgrees`, `InTurn`, `NoNeedlessCalls`, `AbandonedOnlyByFailure`, `TraceWhole`, `Settles` |
| `application` | 169 applications, each with redis up, down or locked, 3 entities, one request | `NeverCutOff`, `GivenUpIsClosed`, `HandlersHaveCache`, `ExtensionRight`, `ByPriority`, `EntitiesStay`, `ValuesStay`, `StartSettles`, `Answered` |
| `nottl` | no ttl | violation of `WritesOnlyWhenCaching` |
| `late` | overrunning revalidations | violation of `OneRevalidationPerInstance` |
| `check` | a legacy entry | violation of `RejectsOnlyFailing` |
| `control_extended` | the applications of `application` | violation of `ControlsKeepCases` |

Bounds.  Two requests on one instance are what a race for the local flag takes,
and a third one what it takes to profit from a flag removed too early (`faults`
and `late`); two instances are what a race for the remote flag takes.  TTL 1,
StaleTTL 2 and a timeout of 2 let each of control entry, stale entry and flag
expire before and after each other.  Slots are reused, so a run holds any number
of requests, of which so many overlap.  `live` has a timeout of 1 to keep the
behaviour graph small.  In `store` a limit of 1 with 3 keys reaches the full
store with a key to spare; in `cache` a `LocalTTL` and a `Latency` of 1 put every
event on either side of every limit; in `entity` three handlers give nesting
below a nested handler.  In `reducers` every type of reducer and of modifier occurs
with an input that it takes, one that it refuses, and calls below it that fail; up
to three calls run together, so that a failure can come before, between and after
successes.  In `application` three entities give chains of `extends` two above an
entity and circles that an entity is on or leads into; three routes a tie of
priorities, a disabled route and one hidden by another; stacks of handlers stop at
`MaxHandlers`.  Each application changes one kind of store, or middleware and
redis: no code relates the others.  `Outcomes` of `ExpressRoutes` leaves out a transform rejected with
`undefined`, which is never answered (see `Reply`).  Slots and instances are symmetric, and symmetry is used
only in runs without temporal properties.

Deadlock is checked in all runs but `entity`, `reducers`, `application` and
`control_extended`, where an entity or a reducer that has settled stops, and so does
an application whose service has failed to start.

Fairness.  `CacheMiddleware`: the steps of a request and of `after`, which the
event loop runs and redis answers, and time.  Revalidations get none, because
nothing in the code ends one that hangs; nor do arrivals and restarts.
`RevalidationStore`: time and the throttle's timer; `RoomAgain` says itself that
requests must keep coming, since only requests call `clear`.  `EntityResolve`: the stages, and that every
handler returns and calls `next` once unless it throws, which is the
contract stated in the README of data-point; the cache middleware's own handlers
keep it on the paths inside their `try` (`Answered`).
`Reducers`: the whole of `Next`, since function reducers settle and the event loop
runs what waits for them.  `Application`: what is due in the event loop has its turn,
a handler of the application calls next, answers or fails, and a transform ends
(strongly fair, because a call that adds entities suspends them for a while); the
redis client goes on trying, and a server that is up is reached and becomes ready
in one of infinitely many attempts.

### What disagrees with the documentation

The four violation runs are disagreements between the code and its comments or
README; `PROJECT.json` quotes both sides.  In short: `after` writes for entities
without ttl, and during revalidations, because a `return` is missing (`nottl`);
a revalidation that overruns removes its successor's flag (`late`); the outputType
check of a revalidation looks at the old value (`check`); a control entity and one
that extends it share the array that the first of them empties (`control_extended`).

The flag store holds one key more than its comments say (`revalidation-store.js:5`, "Maximum
number of entries to store", and `:53`, "do not add more than 10000 keys").  `add`
tests `store.size > maxStoreSize` before it inserts, so a store with 10000 keys still takes
one, and holds 10001.  `Size <= MaxStoreSize` is therefore false in the model: with the
limit 1 of the run `store`, two calls of `Add` for two keys violate it.  `Bounded` states,
and `StoreBounded` proves, what is true: one key past the limit, and never
more, so the difference does not grow with traffic.

A second `next` of a handler is not ignored, as the README of data-point (line 3406)
has it: `next` does not know who calls it.  In the turn of the first call, the value of
the second one replaces that in the context before the caller of `execute` reads it
(`middleware.js:28`); with handlers left on the stack, a second `next()` starts one of them.
The test of it (`middleware.test.js:142`) makes the second call from a later turn.
`CallNext` has this behaviour for `MaxCalls` above 1, `OnlyConformingResolved` and
`ServedKeptOut` hold in spite of it, and `RunEndsOnce` and `FailedRunFails` assume that it
does not happen.

Two more faults are plain from reading and have no run.  The remote flag does not keep
two instances apart, although the comments of `stale-while-revalidate.js:17` and
`:109` say that it should: it is read and set in two steps, and `SwrContract` admits
one revalidation per instance.  `create` of the service hangs on a locked server, whose error is neither answered nor given up
(`redis-client.js:12`).

## 4. Proofs

| Theorem | Statement | Assumes |
|---|---|---|
| `CacheMiddlewareProofs!TypeCorrect` | `[]TypeOK` | |
| `...!OnlyConformingStored` | `[]StoredConforms` | |
| `...!FlagsHaveOwners` | `[]LocalFlagOwned` | |
| `...!OneRevalidationAtATime` | `[]OneRevalidationPerInstance` | `LeaseAssumptions`: revalidations end in time, the flag store takes the key |
| `...!FreshServable` | `[]FreshIsServable` | `FreshAssumptions`: redis carries out its commands, and `addEntry` fits in a unit of time |
| `...!Refinement` | `KeepsContract` | both |
| `...!DocumentedTimesInOrder` | documented parameters give times that are in order | |
| `RevalidationStoreProofs!StoreTyped`, `StoreBounded`, `SweepSafe` | `[]TypeOK`, `[]Bounded`, `SweepKeepsLive` | |
| `DataPointCacheProofs!TypeCorrect`, `StalenessBounded`, `ServedPresent` | `[]TypeOK`, `[]BoundedStaleness`, `[]ServedWasPresent` | |
| `EntityResolveProofs!TypeCorrect`, `OnlyConformingResolved`, `ServedKeptOut` | `[]TypeOK`, `[]ResolvesConforming`, `[]ServedNotStoredAgain` | |
| `EntityResolveProofs!RunEndsOnce`, `FailedRunFails` | `EndsOnce`, `ErrorFails` | `OneTurn`: no handler calls `next` twice |
| `ReducersProofs!TypeCorrect`, `CallsInTurn`, `NothingNeedless`, `OnlyFailureAbandons` | `[]TypeOK`, `[]InTurn`, `[]NoNeedlessCalls`, `[]AbandonedOnlyByFailure` | |
| `ReducersProofs!CallsAgree` | `[]EachCallAgrees` | `FollowTheRules`: `Outcomes` and `Rest` solve the rules |
| `ReducersProofs!ResolutionsAgree` | `[]AgreesWithReference` | `FollowTheRules`, and `FactoriesAgree` for the sources at hand |
| `ReducersProofs!TraceIsWhole` | `[]TraceWhole` | `RootsAssumption`: what is resolved is no part of an entity |
| `DataPointCoreProofs!CoreTyped`, `EntitiesExtendRight` | `[]CoreTypeOK`, `[]ExtensionRight` of `CoreSpec` | |
| `DataPointCoreProofs!EntitiesAreKept`, `ValuesAreKept` | `EntitiesStay`, `ValuesStay` of `CoreSpec` | |
| `ApplicationProofs!StartTyped`, `CacheNeverCutOff`, `ClosedWhenGivenUp`, `HandlersFindCache` | `[]StartTypeOK`, `[]NeverCutOff`, `[]GivenUpIsClosed`, `[]HandlersHaveCache` of `StartSpec` | |
| `ApplicationProofs!ApplicationTyped`, `RoutesByPriority` | `[]TypeOK`, `[]ByPriority` | |
| `ApplicationProofs!StartImplemented`, `CoreImplemented` | `Spec => StartSpec`, `Spec => CoreSpec` | |
| `ApplicationProofs!Application...` | the properties of `StartSpec` and `CoreSpec`, of the whole application | |

The assumptions on constants that every proof uses (`TimesAssumption` and the
like) stand in the modules that declare the constants, and TLC evaluates them.
`StaleTTL > TTL` is what `DocumentedTimesInOrder` says of all parameters as the README
of data-point-service documents them: durations, or `true`.

Why the properties are not inductive, and what is added:

- *The lease.*  That two revalidations do not overlap says nothing of the flag.
  `LeaseInv` adds that an active revalidation of an instance has its flag up, for
  at least as long as its own budget lasts, and that there is one such
  revalidation; `OneThread` that a slot with a revalidation is not at the same
  time a request that reads.  Without `Timely` the first half fails: this is
  `late`.
- *Fresh means servable.*  `FreshInv` adds, for each writer between its two
  writes (`MidWrite`), that the stale entry still has its whole ttl.  This is
  where the order of the two writes, and their fitting in a unit, is needed.
- *The refinement.*  `Phase` and `Holder` map the state to that of the contract;
  each action is shown to be a step of `SwrContract` or a stutter, from `LeaseInv`
  (at most one holder, so that `CHOOSE` is determined) and `FreshInv` (fresh never
  turns into gone).
- *Staleness.*  `CacheInv` relates `lag`, `age` and `wait`: a copy in memory lags by
  at most its age plus the latency, and its age is bounded by the swipe.
- *The chain.*  `TurnInv`: while `done` has not been called, all the handlers taken off
  the stack but the last have called `next`, and no error has come; if it was called without
  an error, all of them have; if with one, `failed` is not empty, and a handler
  is still awaited only if somebody threw; those still on the stack have done nothing.
  So who acts after `done` was called without an error can only return or throw, which
  nobody hears any more (`ThrowTurns`), and an error is heard exactly while
  a handler is awaited (`WaitingIsNotAll`).

- *The reducers.*  The four properties are parts of one invariant, `IsGood` of every
  call, which says what a call's own calls are and where it stands: the calls make
  a tree (`IsTree`); all those before the last one were accepted, where they are made
  one at a time (`Before`); after a case that holds, a control entity has called at most
  what that case does (`FirstHolds`); a call that settled while another is
  under way did so with a failure, and one that resolved had accepted all it had
  waited for (`Left`); each call is one that the resolve function asked for, when the
  calls before it had come to what they still are (`Asked`).  For each resolve function a lemma says what
  it asks for next (`IsNextOf`), and from these follows that a step keeps the
  invariant.  A synchronous stretch is `Depth` applications of `Begin`, each of
  which keeps it (`BegunKeeps`).
- *What calls come to.*  `Asked` is what makes `EachCallAgrees` inductive: the outcomes
  that a task sees are a history of what its resolve function has asked for, each of
  them an outcome by the rules of what it was asked for with (`GotIsHistory`).  For each
  resolve function a lemma says that what it makes of any such history is an outcome
  by its rule (`ResolveAgrees`).  Where it uses `Promise.all`, all the calls were
  asked for at once (`StartedTogether`); where it awaits in a loop, each on the outcomes of
  those before it (`StartedInTurn`), so the rule is applied from the last call
  back to the first (`RestBack`).  For an entity this goes twice: back from the last call
  to the failure through the stages of the error reducer, then back to the first stage.
  A step settles one call and adds others that have not settled (`OnlyAdds`), so
  nothing that agreed can cease to.  `FollowTheRules` is no restriction on the program:
  the rules only ever ask more outcomes of a reducer where its parts have more, so
  they have a least solution; a reducer that calls itself without end has
  no outcome in it, and the theorem says then that its call does not settle.
- *The trace.*  The node above that of a call is that of the nearest call above it
  which has one (`ParentIsNearest`), so level `n` of the tree has the nodes of the calls
  with `n` such calls above them (`LevelIsNested`), and every node is on one level.  On
  the way from a call that resolved to one that did not, `Left` says of the first that did
  not that an entity caught it (`UntimedIsCaught`).
- *Extension.*  `AddingInv` says of the batch under way that what it still has to add is
  what `normalizeSpecs` made of it, to the end.  That this is right is a matter of
  the walk of `getAncestors`: as long as it meets nothing twice it goes up the chain of
  parents (`AboveKeeps`), so it ends within as many steps as there are
  specs, and where it ends tells a circle and a missing parent from a chain that
  is sound (`EndTells`); the nearest spec with a select is then that of the reference
  (`NearestIsBelow`).
- *The router.*  `RouteInv` says that the routes added and those to be added are the
  normalised map, and that a request stands at a handler of a route that matches it, past
  only such routes as have nothing but functions.  `Enumerates`, a fact about `InOrder`
  that the normalisation of specs rests on too, says that `normalize` lists every
  enabled route once, in order.
- *The start.*  `LinkInv` ties the connection to `wasConnected`: before the first
  connect, and only then, an error closes the client and rejects the promise.
  `StageInv` ties the service object to the promise, `HandlersInv` the handlers to
  the service object.
- *The stores.*  `StoreInv` says that `p.q` is set below an object only, which `add`
  without override does not replace, and that no transform is under way before there is an instance.
- *The composition.*  Each step of `Application` is shown to be a step of
  `ServiceStart`, or none, and one of `DataPointCore`, or none (a request that reaches
  its entity is a `Transform`, one that is answered an `Ends`; `ProgramKnown` says
  that what `create` is given is in the constants).  So the theorems of the two
  carry over.

Induction over numbers is used as facts about sets of numbers (`Induction`), since the
provers cannot instantiate the library's theorems about predicates; so recursive
functions (the walk up the parents, the stretches of calls) can be reasoned about,
while RECURSIVE operators cannot.

Only model-checked: everything temporal under fairness (`Answered`, `FlagLifted`,
`Unblocked`, `RoomAgain`, `Settles`, `StartSettles`), which is beyond the prover;
and `FactoriesAgree`, on which `AgreesWithReference` rests: `Create` and `Means` are
RECURSIVE operators over sources, and what they compute for every source is induction
over data.  TLC evaluates it for the 25 sources on the 10 values.
The four violation runs are counterexamples, which a proof has nothing to add to.

## 5. Not modelled, and the plan

Left out for good: the wording of errors and logs, the encoding of values, the
code transformations of data-point-codemods (text in, text out), bench-trial (a
sequential tool that prints statistics; its `middle` averages two elements for an
odd number of samples and takes one for an even number), the page of the inspector,
the predicates on JavaScript values, the labels and times of the trace.

Left out so far, with what it would take:

1. `transform` with a callback, which is called a second time when it throws
   (`core/transform.js:54`): a property needs a promise that the callback keeps.
2. The failure of PEXPIRE alone in the pipeline of a SET, after which a
   REVALIDATING control entry never expires: one more outcome of a redis call in
   `SetControl` and `SetStale`.
3. The composition of `CacheMiddleware` with `DataPointCache`, to see what the
   local layer adds to the staleness of the control entry, and with `EntityResolve`.
4. The refusal of invalid specs by the factories, beyond `Creatable`; paths into the
   accumulator and text as a collection in `Reducers`.
5. The age of values: a slow writer may store an older value than the one that is
   there, and nothing in the code or its documentation forbids it.

Theorems to add: that the composition of 3 keeps `SwrContract`.
