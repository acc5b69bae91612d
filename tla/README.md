# A TLA+ development for burnell

Burnell (`src/`) is the management proxy of a Pulsar cluster: it keeps the tenants' plans in a
Pulsar topic, provisions the keys and tokens of a cluster, serves statistics, metrics and function
logs, and forwards admin requests to the brokers.  This directory models the parts of it that keep
state or run concurrently, checks them with TLC on small instances, and proves the most important
properties for every size with TLAPS.

Line references are to the repository (`policy/pulsardb.go:191` is line 191 of
`src/src/policy/pulsardb.go`).

## 1. The system

| component | source | state | operations |
|---|---|---|---|
| tenant plan database | `policy/pulsardb.go` | topic of tenant records; per process a map `tenants` under `tenantsLock` | `Setup`, `dbListener`, `GetTenant`, `GetOrCreateTenant`, `UpdateTenant`, `DeleteTenant`, `updateDb` |
| plan reconciliation | `policy/pulsardb.go`, `policy/policy.go` | none (pure) | `ReconcileTenantPlan`, `getPlanPolicy`, `validateTenantPlan` |
| keys and JWT provisioning | `workflow/keys-jwt.go`, `k8s/clientset.go` | Kubernetes secrets; local key pair | `Create`, `Healer`, `Repair`, `createSuperRolesJWT` |
| rate limiter | `route/middleware.go`, `route/semaphore.go` | buffered channel | `LimitRate`, `Acquire`, `Release` |
| log server | `logserver/logserver.go`, `logclient/reader.go` | log file; a `FileReader` per call; the positions a client holds | `Read`, `ReadBackward`, `ReadForward` |
| broker statistics | `policy/topic-stats.go` | a channel and goroutines per call | `AggregateBrokersStats`, `brokerStatsQuery`, `GetBrokers` |
| topic statistics cache | `policy/topic-stats.go` | in-memory table, a polling worker | `CacheTopicStatsWorker`, `brokersStatsTopicQuery`, `PaginateTopicStats`, `CountTopics` |
| function map | `logclient/reader.go` | map of functions with worker ids, a reader and its watchdog | `ReaderLoop`, `FunctionTopicWatchDog`, `GetFunctionWorkerID`, `TenantFunctionCount` |
| prometheus federation | `metrics/federated-prometheus.go`, `policy/tenant.go` | cache of scrapes, usage table, map of tenants, list of tenants | `GetTenantPromMetrics`, `BuildTenantUsage`, `GetTenantsUsage`, `IsTenant` |
| plan limits | `route/handlers.go`, `policy/pulsardb.go` | none; reads the tenant cache and the function map, then forwards | `limitEnforceProxyHandler`, `NamespacePolicyProxyHandler`, `DirectFunctionProxyHandler`, `EvaluateNamespaceLimit`, `GetFunctionsLimit` |
| authentication | `route/middleware.go`, `route/handlers.go` | none | `AuthVerifyJWT`, `AuthVerifyTenantJWT`, `SuperRoleRequired`, `VerifySubject`, `ExtractTenant` |
| router and admin REST proxy | `route/router.go`, `route/handlers.go` | the list of routes, in order | `NewRouter`, `DirectBrokerProxyHandler`, `CachedProxyHandler` |
| websocket proxy, Pulsar Beam, token encodings, config, feature codes, protobuf, stubs | the rest | none that changes | |

How they interact.  Requests pass the rate limiter, find their route and pass its authentication, then a
handler.  A tenant handler reads and writes the process' cache and publishes to the topic; the listener of
*every* process replays the topic into its own cache.  The limits of a plan are evaluated against
that cache, the namespaces Pulsar lists and the number of functions in the function map; then the request
is forwarded, with Burnell's own token.  The init job and the healer work on the same namespace of
secrets and know nothing of each other.  A log request finds the worker of a function in the function map and
calls the log server of that worker with the positions the client sends.  The broker statistics
handler starts a goroutine per broker and collects their answers from a channel while a ticker runs.
The topic statistics worker polls the brokers into a table that handlers page through.  The usage
builder and the metrics handlers share one cache of scrapes.

What makes it hard.

* *Tenant database*: the order of the records in the topic and the order of the writes to the cache
  are independent; look-up and update are in separate critical sections; the listener restarts from
  the first record over a cache that already holds later plans; a send can fail after the record was
  stored; a restarted process serves requests before it has read anything.  Correct means: what is
  served came from the table, and a process that has read the table agrees with it.
* *Keys*: several creates that are not atomic together, results that are ignored, two processes,
  crashes, secrets deleted by hand.  Correct means: all secrets belong to one key pair as long as only one
  was made, the missing ones come back, none that exists is replaced.
* *Rate limiter*: slots released on paths that hold none, handlers that die with theirs.
  Correct means: it counts the handlers there are, and is never stuck.
* *Log server*: the file grows between the steps of a read; positions mean "end of file" when 0;
  arithmetic near the start of the file.  Correct means: a client that follows the positions sees
  every line, once, and every read ends (the last does not hold, section 6).
* *Broker statistics*: late goroutines of a call that timed out, brokers that never answer, pages over
  a changing list that has no order of its own.  Correct means: the pages cover the brokers, calls and goroutines end.
* *Topic statistics*: rows expire but are never removed, insertions fail half way, answers of brokers are stored
  late, pages shift while the table changes, handlers add rows while they read.  Correct means: a walk skips and
  repeats nothing it need not, deleted topics are forgotten.
* *Function map*: the map replays a topic in which creations and deletions look alike, the first
  record wins, worker ids are cached and an answer from before a move may be stored late.  Correct means:
  all processes show the same, requests that name no worker go to one of the function asked for, and no old worker
  stays.
* *Plan limits and authentication*: the order of a hundred routes decides which authentication a
  request gets; a subject is matched with tenants by the words of its name; limits are checked before the
  effect.  Correct means: only what is permitted is forwarded, limits are overrun by no more than the requests under
  way, reads are never refused.
* *Metering and metrics*: counters start again when a topic moves, builds use the scrapes of other requests,
  scrapes overlap and take up to ten minutes, the list of tenants is decoded in place under the
  eyes of other requests.  Correct means: usage is never overstated and catches up, metrics are fresh, a
  tenant is not said to be missing without a reason.

The full list of hazards, each at its line and with the properties that would catch it, is in
`PROJECT.json` under `hazards`.

## 2. The modules

| module | models | with |
|---|---|---|
| `TenantPlan` | `TenantPlan`, the statuses and tiers, `ReconcileTenantPlan` as pure operators | |
| `TenantDb` | the topic, the caches, the listener and its watchdog, the request handlers | `MCTenantDb`, `TenantDbProofs` |
| `KeysJwt` | the init job and the healer against the secrets of a namespace | `MCKeysJwt`, `KeysJwtProofs` |
| `RateLimit` | the semaphore and the middleware around the handlers | `MCRateLimit`, `AdminProxyProofs` |
| `LogView` | what a client of the function logs is promised: a window of whole lines | `LogServerProofs` |
| `LogServer` | `FileReader`, and a client that walks a growing log in both directions; implements `LogView` | `MCLogServer`, `LogServerProofs` |
| `BrokerStats` | `AggregateBrokersStats`, and a client that pages through it | `MCBrokerStats`, `BrokerStatsProofs` |
| `TopicStats` | the polling worker, the table and a client that walks through its pages | `MCTopicStats`, `TopicStatsProofs` |
| `FunctionMap` | the reader, its watchdog, the map and the requests that need a worker | `MCFunctionMap`, `FunctionMapProofs` |
| `Routes` | the routes in order, authentication, subjects and tenants, as pure operators | `AdminProxyProofs` |
| `AdminProxy` | requests through `Routes` and the plan limits to Pulsar | `MCAdminProxy`, `AdminProxyProofs` |
| `TenantUsage` | scrapes, builds and the usage table while topics move | `MCTenantUsage`, `PromMetricsProofs` |
| `PromMetrics` | overlapping requests for metrics and the list of tenants | `MCPromMetrics`, `PromMetricsProofs` |

Every definition that stands for code is listed with its lines in `PROJECT.json` under `map`.
Definitions whose comment begins with "Mutant" are deliberately wrong versions of the definition after
them; `PROJECT.json` pairs each with the property that refutes it.  They are part of no specification.

### TenantDb

`topic` is the tenants-management topic, `cache[n]` the map `tenants` of process `n` (an absent key
is `emptyPlan`), `reader[n]` and `pos[n]` the listener goroutine and how far it has read, `pc`, `op`,
`plan` the local state of a request handler.  Each critical section of `tenantsLock` and each call to
Pulsar is one action:

| action | code |
|---|---|
| `OpenReader`, `ReadRecord`, `ReaderError`, `Watchdog` | `dbListener` and the loop in `Setup` that starts it again |
| `GetOrCreateTenant`, `CreateFreePlan` | look-up under the read lock; the write under the write lock |
| `UpdateTenant`, `DeleteTenant` | up to the call of `updateDb`: one read of the cache, then local work |
| `Send`, `SendFails`, `SendTimesOut` | `producer.Send`: stored, not stored, stored but reported as failed |
| `StorePlan`, `EvictPlan` | the write to the cache after the send; `DeleteTenant` removing the entry |
| `ForeignRecord`, `Crash` | a record that is not JSON; a process that dies and loses its cache |

Data: a plan keeps two of its six numeric limits and its audit as a sequence of texts; the tiers' limits are
constants.  The last-updated time is left out, no decision depends on it.

### KeysJwt

A *key pair* is a number, and a secret is the number of the pair it was made with, 0 if it does not
exist.  `Runners` are the processes (`init` runs once, `healer` for ever).  A run looks up the private key, then the public
key; generates a pair if one is missing; creates the two key secrets, ignoring failures; then for
every role looks up the token and creates it if it is missing.  Every call to the API server is one
action, with failures and crashes bounded by `MaxFaults`, and secrets deleted by an operator bounded by
`MaxDeletions`.  `mixed` is history: a pair was made while there were other secrets, or another run was under way.

### RateLimit

`slots` is the length of the channel, `Connections` are the requests.  `Acquire`, `Reject`, `HandlerReturns`, `ReleaseRejected` and `Panic` are the
paths through `LimitRate`.  Two history variables: `leaked` counts the handlers that panicked, `taken` the slots that
rejected requests took and no handler has missed yet.

### LogServer and LogView

A file is its size and the offsets at which lines end; a text is an interval.  `StartBackward`,
`SeekEnd`, `ReadBackward` and `ReadForward` are the steps of a call, one per round of the read loops, and the
function's `Write` happens between any two.  The client keeps the two positions of the answers; `copies` counts
how often it was given each byte.  `Lost` ends a call at any point without an answer.
The buffer size (`readStep`, 2400 bytes in the code) is a parameter.

`LogView` says the same without a server: a log that grows by lines, and a window over it that opens at the end
and grows in either direction by whole lines that adjoin it.  `LogServer` implements it under the mapping
`View`: the client's positions are the window, and the bytes with a copy are those it holds.

### BrokerStats

A call reads the list of brokers, starts one goroutine per broker of the page (`query`), and collects
results from its channel (`respChan`) until it has all or the ticker fires.  Goroutines of earlier
calls keep running.  A list is what the admin API answers, in its order: `GetBrokers` converts it with
`sort.StringSlice`, which sorts nothing.  `Relist` changes the brokers or the order alone; `changed` and `reordered`
remember which.

### TopicStats

`age` is the table: how old the row of each key is, or that there is none.  The worker is one goroutine:
`StartPoll` reads the list of brokers, `Ask` one broker's topics, `StoreTopic` inserts one topic in a transaction of
its own, `EndBroker` and `EndPoll` insert the partitioned topic that was remembered.  An insertion may leave the row out
of the tenant's index (`Insert`): no row has a `Topic`, which another index requires, go-memdb fills the indexes in the order
of a map and stops at the error, and the transaction is committed all the same.  `ReadRows`, `FetchMandatory` and
`Answer` are the steps of a `PaginateTopicStats` call; between them the worker, other walks' time and Pulsar go
on.  The client repeats the call with the new offset until the offset is the total.

Data: one tenant; topics are ranks, which give the order of the keys, and a key is a rank behind a number of
`partition-` prefixes; the 90 s after which a row is no longer listed are `Expiry` ticks.  `owed`, `appeared` and `vanished` are
history variables of a walk.

### FunctionMap

`topic` is Pulsar's metadata topic, `runs` what Pulsar really runs.  `ReadRecord` is one round of `ReaderLoop` with
`ParseServiceRequest`; `ReaderError` and `Watchdog` end and restart it.  A log request calls the log server of the worker
that its URL names (`CallNamed`, the parameter `workerid`), of the worker in the map (`CallKnown`), or of the one Pulsar tells:
`AskStatus` (look-up), `StatusAnswered` or `StatusFails`, and `StoreWorker`, each an access to the
map of its own.  `Return` ends the call.  `Crash` empties the map; it stands also for the runtime that ends the process over
an unlocked access.  The key that concatenates tenant, namespace and name without a separator is the parameter `Concat`;
in the run it gives two functions one key.

### Routes and AdminProxy

`Routes` holds the table of `NewRouter` in its order: pattern, methods, authentication, handler.  `RouteOf` is the
first that matches.  A path is a sequence of segments, a subject or tenant name a sequence of words, because
`ExtractTenant` splits at `-`.  `InjectedSubs` is the header `injectedSubs` as a handler finds it, which is the client's own
behind `NoAuth` and `SuperRoleRequired`.  The handlers that only forward are one (`Direct`), Burnell's own endpoints another
(`Own`).  Patterns match whole segments, though `PathPrefix` of gorilla/mux also matches the beginning of one.  One route stands for
those below `schemas`, and a token has one subject.

`AdminProxy` takes requests through it, each with any subject of its token and any subject in its header.  `Arrive` is
everything up to the first call to Pulsar or the lock of the tenant database: route, authentication, and the handler's
decision; for the list of tenants (`RestrictedTenants`) also Pulsar's answer, of which the status is kept.  `CreateFreePlan`,
`Evaluate` and `Forward` are the steps after it.  `ChangePlan` and `CountFunction` are what `TenantDb`
and `FunctionMap` do meanwhile; here any change may happen at any time, which is what the two
modules allow.  Free and starter plans and those without a type are one class for `IsFreeStarterPlan`.

### TenantUsage and PromMetrics

Both model `GetTenantPromMetrics` and its cache.  `TenantUsage` follows the *values*: brokers count messages per
topic, `BeginSuperScrape` takes a sample, `EndSuperScrape` puts it into the cache `superCache`, the builder inserts its rows one by one
(`Insert`) and the tenant's name after each (`ListTenant`).  `received` is the history of what was really sent.
`PromMetrics` follows the *age*: of the data in the cache, of the scrapes under way, of what is answered.  It adds the look-up of tenants
that have no metrics: `Decode` writes Pulsar's list into the shared slice one element at a time, as
`json.Unmarshal` does, and `Listed` reads it at any point.  Pulsar may list the tenants in any order.
One module of proofs extends both, and another `AdminProxy` and `RateLimit`; the smaller of the two
has names of its own for that (`UsageSpec`, `LimiterSpec` and so on).

## 3. The runs

Deadlock is checked where the system always has something to do.  It is not in `BrokerStats_pages`,
`TopicStats_walk` and `FunctionMap_lookup`, where a client that has made its calls, or an environment that
has used up its bounds, may stop; nor in `AdminProxy_limits`, `TenantUsage_builds` and
`PromMetrics_answers`, whose environment need never act again.

| run | shows | instance, and why it is enough |
|---|---|---|
| `TenantDb_concurrent` | `TypeOK`, `CacheFromTable`, `RowsWellFormed`, `ReplicaConverged` | two handlers in one process, a second that only listens, one tenant, two records, one fault: two writers and one replay are what the interleavings need |
| `TenantDb_serial` | `Converged` with one writer, `EventuallyConverged` | three records, two faults: a replay after a replay, over a cache that is ahead |
| `KeysJwt_secrets` | `TypeOK`, `MatchUnlessMixed`, `EventuallyComplete`, `NeverReplaced` | both runners, two roles, an empty namespace or one with a pair and any subset of the tokens; two faults of any kind, one deletion of any secret: a pair is made alone, beside a run, beside half a pair, beside tokens |
| `RateLimit_slots` | `SlotsAccounted`, `NeverWedged` | four requests, two slots, three panics: more requests than slots, more panics than slots |
| `LogServer_lines` | `TypeOK`, `PositionsAligned`, `NothingMissed`, `NothingTwice`, `ShortLinesNeverFail`, `ImplementsView`, with whole-line writes | a file of up to 9 bytes, steps of 3, lines of 1, 2 and 4 bytes: lines shorter and longer than a step, files of three steps, a requested size above the step |
| `LogServer_torn` | that `ReadReturns` fails (section 6) | the same with writes that may stop inside a line and a file of up to 6 bytes |
| `BrokerStats_pages` | `EveryBrokerOnce`, `QueriesEnd`, `Answered` | three brokers in two orders, or two of them; limits 1, 2 and none, two calls, one change of the list or of its order: a page that is repeated beside the goroutines of the first call, a partial last page |
| `TopicStats_walk` | `WalkComplete`, `WalkDistinct`, `Forgotten` | one partition and its partitioned topic, which with the mandatory topic make three keys; two brokers, pages of 1 and 2: walks of up to three pages, a partial last one, rows that appear and expire before, at and behind the offset |
| `FunctionMap_lookup` | `FirstRecordKept`, `WorkerOfFunction`, `CountCoversRunning`, `EventuallyKnown`, `EventuallyRightWorker` | functions of three tenants: two share a key, one moves between two workers and has the name of another tenant's; a worker that URLs name, two requests, two records (created and deleted, or two functions, also of one key), one reader error, one crash |
| `AdminProxy_limits` | `NamespacesBounded`, `OnlyPermitted`, `ReadsServed` | two requests at once, by a super user, two tenants (`acme` and `acme-client`, whose subjects differ by a word that `ExtractTenant` drops) and nobody, each as the subject of the token and of the client's header; three namespaces, limits 1 and 2; a request for every kind of route that shadows or is shadowed |
| `TenantUsage_builds` | `NeverOverstated`, `EventuallyMetered`, `EventuallyListed` | one topic, two brokers, two messages, two moves (away and back, or a restart in between), one request that scrapes beside the builder, one failing scrape, one crash.  Two topics with one message and one move pass as well (626,000 states) |
| `PromMetrics_answers` | `ServedFresh`, `NotFoundExcused` | two requests, two tenants (a list that grows, shrinks and shifts), metrics of one tenant and of all, an interval of two ticks and a scrape timeout of one |

Bounds are guards of the actions that would otherwise count up: `MaxRecords`, `MaxFaults`,
`MaxDeletions`, `MaxPanics`, `MaxSize`, `MaxCalls`, `MaxChanges`, `MaxErrors`, `MaxCrashes`, `MaxReceived`,
`MaxMoves`, `MaxCounted`.  All name environment behaviour or the length of
the run; none cuts a path through the code.  `AdminProxy_limits` and `PromMetrics_answers`
use the symmetry of the requests; both check safety only.

## 4. Fairness

* TenantDb: the listener and the watchdog goroutine are scheduled, and a record that is in the topic
  is delivered.  Reader errors are bounded, which stands for an infrastructure that recovers in the
  end.  Handlers are scheduled once a request has started; that a request starts is not assumed.
* KeysJwt: the healer's ticker fires and its calls return.  Failing calls and deletions are bounded.
* RateLimit: handlers return or panic, and clients that are turned away ask again; that they ask is what
  frees a slot leaked by a panic, and the liveness property holds only for that reason.
* LogServer: the goroutine that serves the call is scheduled, which is all that `ReadReturns` would need.  Nothing is
  assumed of the writer.
* BrokerStats: goroutines are scheduled and the ticker fires.  Nothing is assumed of the brokers: the
  `http.Client` has no timeout.
* TopicStats: the worker's goroutine, which never ends, is scheduled, and time passes.  Nothing is assumed of Pulsar,
  handlers or clients.
* FunctionMap: the reader and its watchdog are scheduled and time passes.  Handlers may wait for
  Pulsar as long as they like.  Reader errors and crashes are bounded.
* TenantUsage: the builder's goroutine is scheduled and time passes, scrapes end because their client has a
  timeout (`federated-prometheus.go:248`).  The builder's own scrape has strong fairness:
  the scrapes of other requests may keep the cache filled whenever its ticker fires, but not for ever; and the data they leave is as good.
* AdminProxy and PromMetrics state no liveness.

## 5. What is proved

TLAPS checks these for every value of the constants that meets the named assumptions in the modules.

* `TenantDbProofs`.  `TypeCorrect`; `CacheProvenance` (`CacheFromTable`); `RowsAlwaysWellFormed` (`RowsWellFormed`: no
  record has the status 0, which means "not given", or a plan type outside the tiers).  These need no
  assumption on the processes or clients, and a request may carry any number for a status; their invariants add that the plan a handler carries is
  itself well formed and that a plan it is about to store is in the topic.
  `ReplicasConverge` (`ReplicaConverged`): a process without handlers agrees with the table whenever it
  has read it to the end.  The invariant has to say what such a cache looks like *during* a replay: a
  tenant whose last record is at or before the position agrees with it, any other still has the
  value of some earlier pass.
  `SerialConvergence` (`Converged`) under `OneWriter`: one handler, no `GET` that makes plans up and no
  request with the status `Deleted`.  Each is needed: the instances in section 6 show what happens without.
* `KeysJwtProofs`.  `TypeCorrect`.  `OnlyMixingMismatches` (`MatchUnlessMixed`), without a condition: any runners and
  roles, any secrets deleted, reads and creates that fail, crashes.  The invariant says that, unless some run made a pair
  beside other secrets or another run, there is at most one pair among the secrets and the keys that runs carry.
  `FirstRunKeysMatch` (`KeysMatch`) under `FirstRun`: one runner in an empty namespace, without faults; the invariant relates
  the stored secrets to the runner's place in its program.  `ExistingNeverReplaced` (`NeverReplaced`) without any
  assumption: every way to a new value of a secret goes through `CreateSecret` or a deletion.
* `LogServerProofs`.  `TypeCorrect`, for any writes: it needs that a round of `ReadForward` has bytes to look
  at, or a length would be negative.  The others are under `WholeLines`, for any read step, lines and requests:
  a write that stops inside a line breaks them (section 6).  `AlignedPositions` (`PositionsAligned`): the positions of the reader
  and the end of the file are line starts as well.  `NoGaps` and `NoRepeats` (`NothingMissed`,
  `NothingTwice`): the invariant ties the reader of a call to the positions of the client who made it, keeps the
  size of a read near the start of the file within what the client asked for, and says
  that the bytes between the positions, and beyond the start only those, have been given.  An answer then joins the interval
  at one end.  `ShortLinesRead` (`ShortLinesNeverFail`): lines are only appended, and the first round of
  a backward read finds the newline it starts at and the one before.  That the truncations cut at the first or the last
  newline rests on the well-foundedness of `<` on the natural numbers.
  `ServerImplementsView` (`ImplementsView`), also under `WholeLines`: the log server, the log client and the
  handler together implement `LogView`.  From the invariant of `NoGaps`, every answer is one of the
  steps of the window: the text starts and ends at newlines, and at the client's position; the one exception, the answer to a call
  that found an empty file, is not seen.
* `BrokerStatsProofs`.  `TypeCorrect` and `PagesCoverBrokers` (`EveryBrokerOnce`), for any lists of brokers, limits,
  calls and changes.  The invariant says that the page of a call is what its offset and limit cut out of a
  list Pulsar gave, in its order (`PageInv`); that only brokers of the page are asked, and every result, gathered or still in the
  call's own channel, comes from a goroutine that has ended, so no broker sends two, whatever the goroutines of earlier calls
  do (`GatherInv`); that channels of later calls are empty (`UnusedInv`); and that, while the list and its order do not change, the client has
  exactly the brokers up to its offset (`ClientInv`); a client that asks for all at once needs the same brokers only.  A call that gathers as many results as the page is long has them all,
  because they are distinct.
* `TopicStatsProofs`.  `TypeCorrect`, `WalksAreComplete` (`WalkComplete`), `WalksAreDistinct` (`WalkDistinct`), for any
  topics, brokers, page sizes and expiry.  A page is a segment of the listed keys in their order, so a key keeps
  its position as long as the number of listed keys before it does not change.  `OwedInv` says of every owed key that
  is not collected yet that at least as many listed keys come before it as the offset counts, unless some
  have vanished; `CollectedInv` the same from the other side, unless some have appeared.
* `FunctionMapProofs`.  `TypeCorrect`; `FirstRecordIsKept` (`FirstRecordKept`): every entry is that of the first
  record of its key in the topic, and whatever the reader is past is in the map.  `WorkerOfEntryCorrect`, without a
  condition: the worker in an entry, or about to be stored in it, is one of the function the *entry* is for.
  `WorkerIsOfFunction` (`WorkerOfFunction`) and `CountCoversRunningFunctions` (`CountCoversRunning`) follow for every
  function that shares its key with none (`Unshared`), beside functions that do; for those that do both are false
  (section 6).
* `AdminProxyProofs`.  `TypeCorrect`.  `NamespacesAreBounded` (`NamespacesBounded`) under `LimitsApply`: authentication is on
  and only super roles count as super users.  A request is granted against the namespaces there are, so a grant adds
  at most itself to a sum that only the other requests under way can have raised before it.
  `RoutesPermit` (`OnlyPermitted`) and `ReadsAreServed` (`ReadsServed`) without a condition: for any paths, methods and
  subjects, whatever the client puts into the header `injectedSubs`.  The last two are converses of one another, proved over the 46
  routes in their order: the route that matches a request *first* closes to a subject exactly what the reference
  `Permitted` denies him, for reads, and at least that for changes.  `SubjectsBelong` and `OwnersVerified` prove that
  `VerifySubject` matches a subject with a tenant if and only if it is the tenant's own in the sense of `BelongsTo`.
  Of the limiter: `LimiterTypeCorrect` and `SlotsAlwaysAccounted` (`SlotsAccounted`), for any finite set of requests, any
  size and any panics; the latter is inductive once the finiteness of `Serving` is known.
* `PromMetricsProofs`.  `TypeCorrect`; `MetricsServedFresh` (`ServedFresh`): the data of a cache entry is older than the
  entry by at most the timeout of a scrape, also where the scrape that began first is stored last.  `NotFoundIsExcused` (`NotFoundExcused`):
  a look-up without an excuse has written the list that Pulsar sent it as far as it got, and finds the tenant there.
  Of the usage: `UsageTypeCorrect`, `NoUsageOverstated` (`NeverOverstated`), for any topics, brokers and tenants, and any number of
  messages, moves, scrapes and crashes.  The invariant is an existence claim: there is a *ledger*
  that gives each topic and broker a number of messages, such that the numbers of a tenant's topics add up to no more than the
  tenant received, and that covers every value that is anywhere (the counter of a topic's broker, the samples of scrapes,
  the cache, the rows the builder has still to insert, the usage table).
  It is needed because a counter starts again when a topic moves, while older samples of it are still on their way
  to the table.  What a tenant is charged is then a sum over rows that correspond to different pairs of the ledger.

The conditions (`OneWriter`, `FirstRun`, `WholeLines`, `LimitsApply`) are those of section 6 that the code does not rule
out.  The instances of the runs meet them: `OneWriter` and `WholeLines` by their constants, `LimitsApply` by an assumption of
`MCAdminProxy` that TLC evaluates; `FirstRunKeysMatch` is of no run.  Most of the
inductive invariants were first checked by TLC on the instances of the runs, among them that of TenantUsage, with the ledger
ranging over small numbers.

Only model-checked: the liveness properties, because temporal reasoning under fairness is outside the prover's
reach.  Every other property of the runs is proved.

## 6. Where the code departs from what one would expect

The properties above hold.  These do not, or hold only with the condition they carry.  For each the
instance that shows it, starting from the configuration of the run named.

**Tenant database** (`TenantDb_serial.cfg`)

* `ReconciledWithTable` fails with one process, one handler and `Requests <- OneRequest`, without faults: an update made before
  the cache has caught up overwrites the stored plan as if the tenant were new (`pulsardb.go:146`).
* `Converged` fails with `Handlers = {"h1", "h2"}`, two records and no faults: two concurrent updates leave the
  cache at the older one for good (`pulsardb.go:191`).
* `Converged` fails with `Ops = {"get", "post"}`: `GetOrCreateTenant` replaces a plan the listener has just stored by the
  free plan.  A request with the status `Deleted` keeps being served after the listener removed it.

* Nothing checks the status that a request carries: any number is stored (`handlers.go:736-743`, `pulsardb.go:304`).

**Keys** (`KeysJwt_secrets.cfg`)

* `KeysMatch` fails, for several reasons that `mixed` sums up.  One healer and one fault are enough: a crash or a failed create
  between the two halves of a pair (`keys-jwt.go:217`, `213`) leaves half a pair that the next run completes with another's;
  a passing error while a key is read (`keys-jwt.go:175`) makes a new pair of which only missing tokens are stored.  So is one
  deletion of a key secret, and so are two runners in an empty namespace, without any fault.

**Rate limiter** (`RateLimit_slots.cfg`)

* `AtMostSize` fails with five requests and no panics: a rejected request frees a slot it does not hold
  (`middleware.go:145`).  That is also what keeps leaked slots from filling the limiter, as `NeverWedged` shows.

**Log server** (`LogServer_torn.cfg`, `LogServer_lines.cfg`)

* `ReadReturns` fails, which is the finding of `PROJECT.json`: the repository's README says that "the algorithm always returns
  a few complete logs" (line 66), but a read that finds no newline up to the end of the file as it saw it reads the same bytes
  for ever (`logserver.go:138`), because the buffer is cut to the bytes there were and nothing in the loop looks at the file's end
  again or at the deadline of the call.
* `NothingMissed` fails with `PartialWrites = TRUE`: the first read of a short file skips the start of an unfinished line.
  With whole lines, near the start of the file a backward read repeats lines (hence the condition in
  `NothingTwice`, and `lo <= to` in `LogView`), and a backward read over a long line fails (hence the one in
  `ShortLinesNeverFail`).

**Broker statistics** (`BrokerStats_pages.cfg`)

* `EveryBrokerOnce` fails without `reordered`: the list is not sorted (`topic-stats.go:173` is a conversion of its type), though
  the repository's README promises the order of names (line 190), and if Pulsar answers in another order between two pages, the
  pages skip brokers and repeat others.  Within a page results are in the order of arrival.
* A call without `limit` asks all brokers, not the first (README, line 200).

**Topic statistics** (`TopicStats_walk.cfg`)

* Rows that expire between two pages make the walk skip topics, rows that appear make it repeat some: `WalkComplete` and `WalkDistinct`
  fail without `vanished` and `appeared`.  The mandatory topics that a page fetches are such rows.  They are stored
  behind a second prefix (`topic-stats.go:452`), so that one topic is listed under two keys.
* Nothing assures that a live topic is ever listed.  No row has a `Topic` (`topic-stats.go:193-199`, `268-274`, `294-300`,
  `451-457`), which the schema requires (`93-97`); the error of the insertion is ignored (`202`, `283`, `302`, `460`), and whether
  the index by tenant was filled before it depends on the order of a map.  Of a tenant's partitioned topics only the last is
  even asked for (`276`).
* Expired rows are deleted in a read-only transaction, which fails, so the number that `CountTopics` returns only ever
  grows (`topic-stats.go:434`).

**Function map** (`FunctionMap_lookup.cfg`)

* Functions whose tenant, namespace and name are the same string, as tenant `ab`, namespace `c` and tenant `a`, namespace `bc`,
  share an entry (`reader.go:219`): that of the first record.  Requests for the other go to a worker of the first, and both count
  as one function, of the first's tenant.  `WorkerOfFunction` and `CountCoversRunning` fail without `Unshared`.
* A log request may name the worker (`workerid`, `handlers.go:502-507`).  The log server there is called without a look-up
  (`reader.go:247-262`), whether or not the function exists or runs there, for a file whose path is built from an empty tenant, namespace and name.
* A function that is deleted and created again as another component keeps its first entry, and its worker is never found.
  Deleted functions count for the limit of the plan.
* A record that is not a `ServiceRequest` ends the process (`reader.go:218`), again after every restart.

**Admin proxy** (`AdminProxy_limits.cfg`)

* `NamespacesBounded` has the term for the requests under way because the check and the effect are apart.  A tenant at its limit also
  cannot delete a namespace: every change but a read is held against the limit for one more (`pulsardb.go:321`).
* The route for `DELETE` of a bundle stands before those for `autoTopicCreation`, `backlogQuota` and `antiAffinity` and
  takes their deletions, which therefore need a super role.
* A `POST` to `reloadBuiltInSources` by a super role passes `SuperRoleRequired` and is then refused with 401, since that
  injects no subject and the handler asks for one; unless the client sends the header `injectedSubs` itself, which neither
  `SuperRoleRequired` nor `NoAuth` clears (`middleware.go:94-133`).
* `GET` of `/k/tenant/{tenant}` is open to the tenant (`router.go:65`), though the repository's README asks for a super role for
  all three methods (lines 120-126); the reference `Permitted` follows the route.
* The policies that only operators may change are theirs with the methods Pulsar has for them (`OperatorOnly`).  With other methods
  their paths reach the tenants' route for all of a namespace.
* The list of tenants for a tenant is the first of Pulsar's list whose name the subject begins with, as a string
  (`handlers.go:194-204`): the name of another tenant, maybe.
* Subjects are ambiguous: `acme-client-k1` is one of the tenant `acme` and one of the tenant `acme-client`
  (`handlers.go:904-930`).  `BelongsTo`, and with it the reference, accepts what `ExtractTenant` makes of them.
* `NamespacePolicyProxyHandler` answers 200 to tenants with a paid plan without forwarding the request.
* A plan without functions limit (-1) refuses every function, because the count is compared with it.

**Metering and metrics** (`TenantUsage_builds.cfg`, `PromMetrics_answers.cfg`)

* `NotFoundExcused` fails without the excuse for overlapping look-ups: an existing tenant gets 404 while another request
  decodes the list (`tenant.go:92`).
* A scrape that began earlier may be stored later and replace newer data in the cache.
* A topic that moved keeps its backlog in the row of its old broker and is counted twice; usage that a broker has counted
  between the last scrape and a move is never charged, nor what was in the row once the same broker loads the topic again.

## 7. Not modelled, and why

* Cryptography, the encodings of keys and tokens, protobuf: library code and formats; a key is a number.
* Websocket proxy and Pulsar Beam handlers: stateless forwarding; the store of the latter is another project's module.
  The response cache for admin requests is commented out where it would be used.
* Configuration and start-up: read once.  Feature codes and the sketches `zk.go` and `restclient.go`: nothing
  calls them.
* Go-level data races on maps are treated where the map is modelled: the tenants map of the database is
  always accessed under its lock, the unlocked accesses to the function map and the map of metered tenants end the
  process (`Crash`), those to the list of tenants read it while it is written.
* Rotation of a log file.  Tokens with several subjects.

## 8. Plan

1. Abstract specifications beside `LogView`, and the step refinements proved: the plan table as one register per
   tenant that a process follows (`TenantDb` under `OneWriter`), the broker and topic statistics as one page of a fixed
   list.
2. The step lemmas that the liveness properties rest on (what a fair action decreases, and that nothing raises it
   again) as theorems about `[Next]_vars`, first for `EventuallyComplete` of `KeysJwt` and `NeverWedged` of
   `RateLimit`.
