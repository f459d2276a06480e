# rs-runtime: specifications, model checking and proofs

rs-runtime is a multi-tenant runtime for small web services, written in
TypeScript for Deno. One process serves every tenant; a tenant is a
configuration (`services.json`) that mounts services at base paths; a service is
a manifest, a module and adapters; requests are routed to services, which call
each other through the same routing. The process is single-threaded: what
interleaves is everything between two `await`s, across requests, timers, streams
and background work.

These TLA+ modules describe the parts of the runtime that keep state across
`await`s. Paths below are relative to the repository (`src/` in `PROJECT.json`).

1. [Inventory](#1-inventory): components, state, operations, hazards
2. [Modules and the code](#2-modules-and-the-code)
3. [Runs, bounds and fairness](#3-runs-bounds-and-fairness)
4. [Proofs](#4-proofs)
5. [Where the documents and the code differ](#5-where-the-documents-and-the-code-differ)
6. [Limits of the models](#6-limits-of-the-models)
7. [Not modelled, and what is next](#7-not-modelled-and-what-is-next)

## 1. Inventory

How the parts call each other:

    server.ts -> handleRequest.ts (getTenant: load or wait) -> tenant.ts (Tenant)
        -> ServiceFactory.ts (choose by base path) -> ServiceWrapper.ts (access, pipelines)
        -> services/*.ts -> adapter/*.ts, context.state (Tenant.state), context.makeRequest
    services/services.ts (putRaw, putChords) -> builds a new Tenant, unloads and replaces the old
    pipeline/*.ts -> context.makeRequest for every step -> handleRequest.ts again
    services with state: timer-store, webhooks, webhooks-trigger, temporary-access,
        deduplicator, server-side-events, logCollector, captcha

| component | state | operations | what makes it hard | what makes it correct |
|---|---|---|---|---|
| Per-path file locks (`adapter/LocalFileAdapter.ts` 32-170) | module-level `Map` of LockState objects: readers, writer, FIFO queue with timers | acquireReadLock, acquireWriteLock, release, timeout | objects leave the Map while closures refer to them; a timer removes the head others wait behind | exclusion per path, no lost wakeup, FIFO, no leaked entry |
| Local file adapter (262-501) | files; locks kept by open streams | read, write, delete, check, move, deleteDirectory | two locks for move; streams outlive the call; `finally`; deleteDirectory takes no lock | every lock given back, no deadlock, a reader's file is stable |
| Tenant loading (`handleRequest.ts` 16-82, `tenant.ts` 137-262) | `config.tenants`, `tenantLoads`, the load timer, `serviceConfigs`, `readyBasePaths` | getTenant, Tenant.init (two phases), getMessageFunctionByUrl | requests that arrive during the load; the load asks itself for manifests; the timer; failures | one load, initialised services only, every request answered |
| Service state and rebuild (`tenant.ts` 47-100, `services/services.ts` 345-420) | `_state` per tenant; `services.json` | context.state, load, unload, putRaw, putChords, rebuildConfig | `await` between test and write; overlapping rebuilds; background writes | the serving tenant is initialised, states do not leak, no update is undone |
| Timer store and timer (`services/timer-store.ts`, `timer.ts`) | run loops, `lastRun`, `count`, the stored specs | put, post, get, delete, run loop, load, unload | restart while a loop sleeps; loops that load in the background | a timer that is not stopped ticks |
| Webhooks and triggers (`services/webhooks.ts`, `webhooks-trigger.ts`) | registrants in a store, a cache and a set of seen URLs; background registrations | register, dispatch with retries and a limit, load, unload | check and write that are not atomic, restarts, cache over store, registrations as tenants are rebuilt | an acknowledged registrant is told of events |
| Accounts (`services/auth.ts`, `account.ts`, `totp.ts`, `user-filter.ts`) | the user record, saved whole, with its tokens | login with lockout, TOTP enrolment, confirmation and verification, token flows | read-modify-write across `await`s | counts and locks are not lost, a token is used once |
| Log collector (`services/logCollector.ts`) | module-level queue, timer and configuration | processEntry, flushQueue, post | flushes that overlap, requeued batches, a shared queue | every entry is sent, dropped by the limit, or still queued |
| Pipelines (`pipeline/*.ts`) | messages on their way, join streams, a limiter per context | steps, transforms, sub-pipelines in their modes; split, fan-out, join | branches that end in any order, errors, streams read while they are written | every message is joined once, the pipeline ends |
| Server-sent events, pub-sub (`services/server-side-events.ts`, `pub-sub.ts`) | sessions by id | connect, push, abort | pushes that overlap, reconnection against a late abort | whole events; the present session stays |
| Temporary access, deduplicator (`services/temporary-access.ts`, `deduplicator.ts`) | tokens with an expiry queue; seen keys | post, access, expire | a token posted again | valid until its expiry |
| Service wrapper (`ServiceWrapper.ts`, `ServiceFactory.ts`, `makeServiceContext.ts`, `mimeHandlers.ts`) | a context with open adapters for each call | internal and external calls, access, pre- and post-pipelines, listings, zips | calls within calls, exceptions, items that nobody waits for | adapters are open while used and closed after; the client is answered |
| Data, dataset, file services (`services/data.ts`, `dataset.ts`, `file.ts`) | the adapter's store; a cache of validators | get, list, put, post, patch, delete, schema, zips, ranges | "this operation should be atomic", cached schemas, parts that fail | own records only, valid records, answers that are true |
| Module cache (`Modules.ts`, `services/services.ts`) | manifests, code, validators and catalogues by URL | getServiceManifest, getService, purgeTenantModules, ensureManifests | cached before validated, purged while loading | what is served was valid, a rebuild takes effect |
| MongoDB adapters (`adapter/MongoDb*.ts`) | a shared client; collections, indexes, schemas | ensureConnection, close, every operation with its retries | calls that fail after they have worked, races of drop and index | no second insertion, indexes as the schema says |
| Elasticsearch adapters (`adapter/Elastic*.ts`) | documents and what a search sees of them; mappings | write, delete, list, query, writeSchema | searches that lag, five requests for one schema | who was told can find it; schema and mapping agree |
| S3 adapter (`adapter/S3FileAdapter.ts`) | objects | read, write, delete, check, list, deleteDirectory | directories that are only prefixes, requests that fail | as the file service |
| Proxy, mail, captcha and other adapters; agent surface; OpenAPI; templates | none of their own | one remote call, or a pure transformation | I/O | not modelled (section 7) |
| rs-core | - | Service, Message, Url, pipelines' parsers | a submodule that is empty in this repository | modelled by its use |

`PROJECT.json` lists every component with its status, and every hazard at the
line where it bites, with the properties that cover it.


## 2. Modules and the code

A step of every model is what JavaScript runs between two `await`s. An action
stands for the whole of that segment, with every synchronous call in it; what an
`await` lets in is any action of another actor. Where a resolved promise must
run before anything else may happen, a predicate `Quiet` keeps the other actions
out until it has.

A definition whose comment begins with `MUTANT` is not part of a model: it is a
plausible slip in the code, kept beside the definition it spoils so that the
property said to catch it can be shown to catch it.

### FileLocks: the lock manager

`fileLocks`, `locks` and `reqs` are the module-level Map, the `LockState` objects
and the promises with their release functions. Objects have identities, because
the closures capture the object and not the path: a release that comes after the
object has left the Map would act on an object nobody else can reach, and nothing
in the code says that this cannot happen. `MapIsLive` says so.

| action | code |
|---|---|
| `AcquireNow`, `AcquireQueued` | `acquireReadLock`, `acquireWriteLock`: the fast path, or the queue with its timer, and `serviceQueue` |
| `Release` | the function both return, which drops an object without users from the Map |
| `Timeout`, `Forget` | the callback of the timer, and the caller that catches the rejection |
| `ServiceQueue`, with `Grants` and `AfterGrants` | the loop of `serviceQueue`, described by how many requests it grants rather than one by one |

### ReadersWriterLock: what the lock manager promises

One variable: what each request has been told. No two holders of a path unless
both read; whoever waits, waits for a holder; a step tells one caller something,
and others only that they are granted what that caller leaves.
`LocalFileAdapter!KeepsPromise` is the refinement, with the `LockState` objects,
the Map and the queue hidden.

### LocalFileAdapter: the operations over it

`EXTENDS FileLocks`. `ops` are calls of `read`, `write`, `delete`, `check`,
`move` and `deleteDirectory`; `file` is what is on disk: nothing, part of a file,
or a whole one. `Start` is a call up to the promise of its lock, `MoveSecond` the
second lock of a move (the paths in their order as strings), `ReadOpened` hands
out the stream that keeps the lock, `Unwind` is `finally`. `deleteDirectory`
takes no lock: it looks (`DirectoryScan`) and later removes (`DirectoryRemove`).

### TenantLoad: getTenant and Tenant.init

`tenant` and `promise` are the entries of `config.tenants` and `tenantLoads`,
`timer` is the one of `tenantLoadTimeoutMs`, `configs` and `ready` are
`serviceConfigs` and `readyBasePaths`. `Ask` is `getTenant` up to its first
`await`: it loads (`BecomeLoader`), throws, returns or waits (`Joined`). `Wake`
and `Dispatch` are the rest of the request. The load goes through
`ReadServices`, `BuildConfigs`, `InitService`, `DeclareReady`, `MergeConfigs`
and `Loaded` or `LoadFailed`; in its second phase it asks for manifests through
`getTenant` like any other request, so it can wait for itself.

### TenantRuntime: states and rebuilds

A tenant is named by the rebuild that makes it and a state object by the call
that makes it, so an object the `_state` map no longer refers to is still in
view: that is what a leaked timer loop is. `Dispatch`, `FindState`, `GetAdapter`,
`MakeState`, `StateLoaded`, `StateFails` are `context.state` with its two
`await`s; `PutRaw`, `PutChords`, `Initialise`, `RebuildFails`, `UnloadCurrent`,
`Swap`, `Write`, `WriteFails` are a put of a configuration, from the read of the
present one to the background write of `services.json`.

### Webhooks: registry and dispatcher

`store` is the private data service (its PUT looks, awaits, writes: `PutCheck`,
`PutWrite`), `seen` and `cache` the module-level `seenRegistrants` and
`regsByDataset`. A registration goes through `Register`, `List`, `Probe`,
`PutCheck`, `PutWrite`, `Record`; a dispatch through `Begin`, `ListRegistrants`,
`ReadRegistrant`, `StartSending`, then `Answer` for every try of every target
that has a slot of the limiter, and `Report`. Any request to the store may fail.
`Restarted` loses what is in memory and every call under way.

### WebhookTriggers: subscriptions that register themselves

`EXTENDS Webhooks`. A manage request registers the absolute URL and then stores
the subscription (`BeginWrite`, `WriteSpec`). A state that is loaded lists the
subscriptions and, for each, deregisters and registers its relative URL; one that
is unloaded deregisters (`ListKeys`, `ReadSpec`, `Deregister`, `Reregister`,
`Reregistered`, `WorkOver`): all of it in the background, while the tenant is
replaced (`BuildTenant`, `ReplaceTenant`) and while others write. A registration
made by a loader is a registration of `Webhooks`, carried out by the call that the
loader's tenant names.

### LogForwarder: the log collector's forwarding

`queue` and `timer` are the module-level `queue` and `flushTimer`; `timer` is named by
the configuration its callback captured, which is also `activeForwardConfig`.
`flights` are the calls of `flushQueue` that await their `fetch`. Entries are
numbered as they are processed, so a batch that the code sorts by timestamp is
numbered after the sort.

| action | code |
|---|---|
| `Post` | the two handlers up to their loop; entries that are not valid are refused before it |
| `ProcessEntry` | `processEntry`: `enqueue` with its drop and its `flushQueue`, then `ensureFlushTimer` |
| `TimerFires` | the callback of `setInterval` |
| `Accepted`, `Refused`, `NetworkError` | what `flushQueue` does after its `fetch`: nothing, `unshift`, or the `catch` |

`delivered`, `dropped` and `discarded` are not in the code: they record where the
entries that left the queue went. A collector with no `forwardUrl` touches none of
this and is left out.

### PipelineRun: one run of a pipeline

`messages` are on their way; `joins` are the streams of joiners with what has been
written to them; `outputs` came out. A message is where it is (`at`: the pipelines it
is in, with its place in each), and `trace` is what was done to it, which stands
for its body. `Modes` and `Branches` build what `runPipelineOne` and `runPipeline`
build before the first message arrives; a sub-pipeline finds the mode the chain
ends with (`LastMode`), as the callback that reads the variable late does.

| action | code |
|---|---|
| `Send`, `Answered`, `Transform` | `PipelineStep.execute` with its conditions, try and variables, its request and the answer; a transform |
| `Pass`, `Fail` | messages that have ended pass; tests that fail, by the mode's `fail` |
| `Split` | `jsonSplit` and fan-out |
| `Enter`, `Leave`, `TeeOver` | a sub-pipeline, serial, parallel or teed, and what comes out of it |
| `JoinFirst`, `JoinMore`, `JoinKeeps`, `JoinDrops`, `JoinEmpty`, `JoinCloses` | `jsonObject`: the first message makes the stream and is its message; later ones are written; the last one closes it |

`outputs` is a sequence: `runPipeline` returns the last message that comes out. A message that a splitter
cannot split is `held` there, one whose call of a fan-out threw is `lost`, and one that is teed to is
waited for by nobody.

`RunOut`, in `PipelineOrder`, is the reference: the pipeline run element by element, with all
messages of an element done before the next one begins, and with any message of a joiner as the one that
came first. `OrderDoesNotMatter` compares what comes out of a run with it: what was joined, the statuses and
whether there is a body. What depends on the order is then who was first at a joiner, which gives the joined message
its status (`jsonObjectJoiner.ts` 18), and who comes out last and so is returned (`pipeline.ts` 361-374).

### Accounts: one user's record

`record` is what the store has, `pending` are the requests between the read of the
record and the save of it. A login (`Login`, `LoginFails`, `LoginSucceeds`, `Verify`), the
second factor (`Enroll`, `EnrollPage`, `Confirm`, `Disable` and their saves), the tokens
sent by mail (`SendToken`, `UpdatePassword`, `ConfirmEmail`) and a change through the user
filter (`Fetch`, `Put`) all read the record, decide, and save the whole of it.
The filter looks at a new password and refuses other roles and another email; whatever else a
user sends back of his record is saved (`user-filter.ts` 40-50), so `Edits` changes the password, a part of the second
factor, the counts or the expiry of the token. `SaveFails` is a save that is refused; the check of a code answers
before it knows (`VerifiedUnsaved`, `RefusedUnsaved`: `totp.ts` 277), so a right code whose save fails still gives
a session. `lost` (history) notes that a save has undone another one, has failed unnoticed, or that a client has put
counts or an expiry of its own; `chosen` are the second factors that clients have put; `wrong`, `wrongCodes`, `uses` and
`confirmed` (history) are what the user has been told.

### Timers, EventSessions, TemporaryAccess

Each is one entry of a service's state. `Timers` has the spec in the store, the state's
configuration and its run loop: `Load` is the reading of specs at the start,
`Start`, `Pause`, `StopTimer`, `Put` and `Unload` are requests, `Fire` and `Answered` the
loop. A loop whose time-out has been cleared is `hung`: nothing resolves its promise.
`EventSessions` has one session id: `Connect`, `Answered`, `Abort`, `Leave` for each
connection, `Push`, `Greet` and `Piped` for events, which are written in two steps.
`TemporaryAccess` has the queue of expiries beside the record of tokens, with the sweep
(`Swept`) that every request begins with.

### DataService: requests to a store of records

`store` is the record (there is one key), `schema` that of its dataset, `cached` the
entry of `schemaValidatorCache`. A request goes through the calls of the adapter that
the code awaits: `CheckRead`, `Read`; or `CheckWrite`, `Existing`, `ReadPatch`, `Recheck`,
`ReadFragment`, `Validate` and `Write` or `Delete`; `CacheSchema`, `WriteSchema` for a
schema, `List` and `DeleteDataset`. `config` is chosen at the start: the data or the dataset
service, rules on fields or none, an enforced schema or none, an adapter that filters
or not. A read that fails with anything but "not found" lets a write or a deletion go on, as if the user's rules allowed it
(`data.ts` 293-294, 408-409).

### Requests: how a call is served

`calls` is the only variable: the calls in the order they were made, each with who
made it, what adapters it has open and where it is. A call is routed in one of three ways
(`Incoming`, `Outgoing`, `Private`: the three functions of `handleRequest.ts`, each with its own
`catch`, or none), checked (`Permit`), run between its pipelines (`Run`, which may
make more calls by `Request` and adapters by `GetAdapter`), listed (`List`, `Ask`: the handlers of
directory listings ask the wrapper again with the same context), matched (`Match`), closed
(`Close`, the `finally`) and filtered (`Filter`, `Filtered`). Any of it may throw, the handlers of types included
(`mimeHandlers.ts` 67), and a pipeline or a service may never end (`Hang`). What
is awaited of its calls is `Awaits`; the parts of a pipeline that are teed to, or whose messages come
after the one that is returned, go on making calls that nobody awaits (`Tee`, `LooseRequest`).

### MongoData, ElasticData, FileService: the stores

`MongoData` has a collection with its indexes and its schema, the client that the
operations of an adapter share (`Connect`, `ConnectQuery`, `Wait`, `Connecting`, `Close`) and the
operations call by call. A call fails for good, or for a time: before it has worked or
after, and then `withFastRetry` starts its section again (`Retried`, `Section`).

`ElasticData` has the documents (`docs`) and those a search finds (`shown`), which the
server brings up to date by itself (`Refresh`); a write waits before it answers (`Answer`), for
`writeDelayMs`: an adapter is `patient` if that is longer than the server takes, as it is unless configured otherwise.
`writeSchema` is `CheckIndex`, `Map`, `EnsureSchemas`, `CreateSchemas`, `Store`. Every request
may be refused, and its answer may be lost.

`FileService` has the objects of a bucket. What is a file and what a directory is worked
out from the first key with a prefix (`KindOf`), as `S3FileAdapter.check` does, so that `d.x` may
hide `d`. `Look`, `LookForDefault`, `Climb`, `Parent`, `Serve`, `Read`, `List` are GET and HEAD;
`LookToWrite`, `WriteFile`, `LookAtEntry`, `WriteEntry`, `Unzipped`, `Unzipping` are PUT and POST with
the files of a zip written side by side; `LookToDelete`, `RemoveFile`, `ListToDelete`,
`DirectoryDone` are DELETE. A listing is cut after a page, and has the files of what is
left before its directories, each of them once; a GET of the root is one of the default resource, if there is one. A request to write that has no data is refused.

### ModuleCache: manifests and code

`stored` is what is on the tenants' stores, which anyone may `Edit`; `manifests`,
`validators`, `modules`, `listed` and `maps` are the caches of `Modules.ts`; `imported` is the cache
of `import()`, which nobody can purge; `catalogue` that of `services/services.ts`. `Request`,
`Report` and `Rebuild` begin a task, and a build whose manifests are there begins an init of each of
its services (`inits`, `Initialise`); `GetManifest`, `NextLayer`, `NextOfReport`, `GetModule`, `ReadCode`,
`KeepCode` and `Serve` are the steps of a task. The configuration of a service is validated before it is sent a message
(`ServiceFactory.ts` 283-288) and that of an adapter before it is made (246-250), which fails if there is no validator;
`initService` (258-263) validates nothing, so `Checked` lets an init pass. `Ensure`, `ListStores`, `LoadStore`, `KeepCatalogue` and `LoadFails`
build the catalogue of a domain. What is stored under a name without a domain (an
adapter's `moduleUrl`) is shared by every tenant that uses the name.

### Components, Stores: compositions

`Components` composes `LogForwarder`, `TenantLoad`, `PipelineRun`, `Timers`, `EventSessions`,
`TemporaryAccess` and `Requests`; `Stores` composes `MongoData`, `ElasticData` and `FileService`. The parts of
each share no state, so their interleavings say nothing that each alone does not: a
behaviour exercises one part, chosen at the start (`part`, `store`), and the run explores the sum
of the parts and not their product. `Parts` says which are exercised: all but the calls of `Requests` in
the run `components`, those alone in the run `requests`. `PipelineOrder` is recursive, so that `MCComponents` and not
`Components` reaches it. The compositions that do interact are
`LocalFileAdapter` over `FileLocks`, and `WebhookTriggers` over `Webhooks`.


## 3. Runs, bounds and fairness

| run (configuration) | instance | distinct states | question |
|---|---|---|---|
| `files_safety` (`LocalFileAdapter_safety.cfg`) | 3 calls of any kind, 2 files, symmetry | 357,025 | do locks leak, do calls wait in a circle, is anybody overtaken, does a file change under its reader, is the abstract lock implemented |
| `files_liveness` (`LocalFileAdapter_liveness.cfg`) | 3 calls that read or write 1 file, with and without timeouts | 8,782 | does every call end |
| `runtime` (`TenantRuntime.cfg`) | 2 rebuilds, 2 requests, a service with an eager state and one with a lazy state, symmetry | 995,354 | why are states leaked; is an update lost; is the file right |
| `webhooks` (`Webhooks.cfg`) | 2 clients, 2 manage requests, 2 tenants, 1 subscription, 1 restart, 1 failure | 805,727 | are registrants kept and told, is the limiter used to its limit, does a dispatch end |
| `components` (`Components.cfg`) | log: 4 entries, 3 configurations; load: 2 callers; pipelines: 5, lists of 0 or 2, limit 2; timer: 4 ticks, 4 changes; sessions: 2 connections, 2 pushes; tokens: 2, 4 posts, time to 6 | 63,704 | order and end of log entries; answers during a load, and loads that stall; results and ends of pipelines; ticks; whole events; access for its time |
| `accounts` (`Accounts.cfg`) | 2 requests at a time, 6 in all, 2 attempts at a password and at a code, symmetry | 1,235,847 | is an unconfirmed secret enabled, are attempts counted, are tokens used once |
| `modules` (`ModuleCache.cfg`) | 2 tenants, a service with its private service, 2 adapters of one name; 1 edit, 4 calls | 446,735 | is anything served that never was valid, or is old; is the catalogue complete |
| `data` (`DataService.cfg`) | 3 requests, 2 at a time, 2 users, every configuration, symmetry | 1,668,251 | are records one's own, valid, and otherwise as they were |
| `requests` (`Requests.cfg`) | 3 calls of any kind, 1 adapter to a call | 175,983 | are adapters open while used and closed after; is the client answered |
| `stores` (`Stores.cfg`) | MongoDB: 3 operations, 2 adapters, 2 failures for a time, 1 retry; Elasticsearch: 3 operations, 1 loss; files: 2 requests, 4 objects, 1 failure | 2,509,588 | are insertions single, indexes made, answers true |
| `webhooks_shadow` (`Webhooks_shadow.cfg`), `stores_deleted` (`Stores_deleted.cfg`) | as `webhooks` with a second client's URL; as `stores` | - | what a document says, refuted (section 5) |

`PROJECT.json` says for each run what it shows, and for each property of each
passing run the mutant of the code that breaks it.

**What the properties say.** Where a guarantee is not absolute, the property names the
exceptions, and nothing else may go wrong:

- `LeaksHaveACause`: a state nobody refers to and nobody unloaded comes of two first
  uses, two rebuilds that overlap, a failed rebuild or a late use; of nothing else.
- `NoDeadlock`: no group of calls, of any size, in which each waits for a lock another of
  them holds. `NoOvertaking`: whoever waits for a path is passed by nobody who came later, reader or
  writer, whatever is released or times out in between.
- `ServedAfterInit`: a request reaches a service that is not initialised only after the
  load has timed out, or if its path was first found under a shorter base path.
- `NoLoadStalls`: as long as a request is not answered somebody can do something,
  even when the load waits for itself: it is then the timer.
- `OrderDoesNotMatter`: what comes out of a pipeline, with its status and whether it has a body, is what
  comes out when it is run element by element, whatever overtakes what; but for who is first at a joiner
  and who comes out last. `NoPipelineStalls`: until all is out, someone can
  go on, except in three cases in which a queue is never closed (`Hung`): a message without a body is split
  (`jsonSplitSplitter.ts` 7), one whose body is no JSON is split (26: nobody catches what `asJson` throws), or a call of a
  fan-out throws (`pipelineStep.ts` 82: nobody catches that either).
- `WholeEvents`: events are whole but for pushes that overlap on one stream.
- `SlotsAreUsed`: a dispatch sends to no more targets at once than its limit, and to exactly as many
  while another waits, however often targets are tried.
- `LockedInTime`, `TokenOnce`: lockouts count and tokens are used once as long as no save
  has undone another or failed unnoticed, and no client has put counts or an expiry of its own. `EnabledIsConfirmed`: a second
  factor that is on has a secret that a code was given for, however saves undo each other, unless the record has exactly the
  second factor that its user has put there himself through the filter.
- `OwnRecords`, `ValidWhenWritten`: what a user is sent and what he stores names him, and is valid,
  however the record and the schema change while a request is under way; what he replaces or
  deletes may be another's if the read before it fails. `PatchKeepsTheRest`: another write between the last read and the write is lost.
- `ReloadedUnlessShared`: after a rebuild a tenant has the new code, unless a load that
  was under way then, or another tenant, has cached the old.
- `NeverValidNeverServed`: a service whose manifest never was valid is sent no message and an adapter never
  made; the init of such a service may be run, once its manifest was refused to another and is found in the cache.
- `ClientsAreAnswered`: however deep something throws, unless the client's call waits for ever for a pipeline or a service that
  never ends (`HeldUp`); what hangs and is not awaited keeps nobody from an answer.
- `AdapterLifetimes`: only what is adrift (the items of a list of which one has failed, the
  rest of a zip) uses adapters that are closed.
- `IndexesAreMade`: indexes are as the stored schema says unless the collection was
  dropped meanwhile. `AnswersAreTrue`: what was told is so: found or not found by searches once an adapter that waits
  long enough has answered, mapped as stored, whole zips, and sizes, but for the range of the first byte.

**Why these bounds.** Three calls are the least for which a queue has a reader
behind a writer behind a holder, and for which a timeout in the middle of the queue
matters; two files are the least for two moves in opposite directions. Two rebuilds are
the least that overlap, and two requests the least that race for one lazy state; one
eager and one lazy service stand for the two ways a service asks for its state. In
`webhooks` two tenants are one replacement, so one unload that overlaps one load
that overlaps one write; `Concurrency` 1 and `RetryCount` 1 put the limiter at
its limit with the second target, and a try that is given up next to one that is
not. `MaxRestarts` and `MaxFaults` bound the restarts and the failed requests.
`Casts` (here and in `modules`) names, for each behaviour, the actors that make calls: the run
explores the sum of the scenarios instead of their product.

In `components`, four entries with
batches of two and of three and a maximum of two give two overlapping flushes with
something queued behind them, a batch put back into a full queue, a drop from a queue that is
over its maximum, and an entry left for the timer; two of the three configurations
have one interval, as before and after a change of the URL alone. Two
callers and one local service have every place of the load where a second
request may arrive, and the two places a manifest may be asked at: below a path
that is ready, and below one that is not. The five pipelines have between them every
element and mode, and lists of two are the least that overtake each other. Four changes stop
a timer, start it, change its spec and stop it again around four triggers; two connections
with a greeting each and two pushes have a reconnection against a late abort, and
pushes that overlap. Four posts of two tokens post one
again after it has expired and after it was deleted.

In `accounts` two requests at a time are the least that undo each other, and five in all are
enough for a login, an enrolment that overlaps a confirmation, and a login after it, or for a login and a change through the
filter that overlaps another; two attempts are the least
for a count that is not the lock. A change through the filter is of one part of the record, as changes of several
parts are several changes, and a secret it puts is one that was confirmed, or none: any other is the
user's own in the same way. In `data` two requests race and a third sees the result;
one record with two fields tells what a patch touches from what it must not. In
`requests` three calls are a client's, one made by it, and one that this makes or that is an
item beside it. In `stores` three operations are a drop between two writes of a schema; a
retry, and a failure more than is tried again; five objects (`a`, `a.x`, `a/a`, `a/s`, `a/s/a`) are a directory with a file and
a directory, a file of each directory's name and one whose name begins with it; pages and sizes are two. The proofs of
section 4 have no bounds.

**Symmetry** is over the calls of `files_safety`, the requests and rebuilds
of `runtime`, the requests of `accounts` and of `data`, and the operations of MongoDB in
`stores`, which are interchangeable; none of these runs checks liveness.

**Deadlock** is checked for the file adapter, where a slot can always begin
another call. The other instances have finitely many calls to make and really
stop, so `CHECK_DEADLOCK FALSE`; that nobody is left waiting is then for the
liveness properties, and for `NoPipelineStalls` and `NoLoadStalls`, to show. These two say
in so many words who can go on, and not with ENABLED; on the instance of the run TLC finds that
this is so, as long as anything is left to do, just when a step is ENABLED.

**Fairness.**
- `LocalFileAdapter!FairSpec` has strong fairness of each call's continuations
  and of its timers. The event loop takes every resolved promise and every timer
  that is due in turn. Strong and not weak, because `Quiet` disables every
  other call's action while one `finally` block runs: each is enabled again and
  again and not continuously. Nothing is assumed of whoever owns a stream;
  `EveryCallEnds` has that as its hypothesis `StreamsEnd`.
- `WebhookTriggers!FairSpec` has weak fairness of the steps of each dispatch and of
  the answers it waits for: requests to the store and to targets are answered or
  fail, which the HTTP client ensures. Nothing is assumed of registrations.
- `Components!PartsSpec` has the fairness of its parts. Log collector: the processing of a
  request's entries, the timer (an interval comes round again and again), and the
  response to each flush; that the sink does not refuse an entry for ever is
  not assumed, it is the hypothesis `SinkRecovers` of `EveryEntrySettles`. Load: a
  request's continuations, the timer, and the load as a whole, which ends by success or by
  failure; that a service's `initFunc` returns is an assumption, and if it does not, the
  timer lets the waiting requests go and only the loader waits. Timers: the reading of the
  specs, the time-out of the loop, and the answer to a trigger; a loop that hangs has no
  time-out, and no fairness helps it. Pipelines need none: no step takes a
  message back, so that a run that can always go on (`NoPipelineStalls`) ends.
- `Requests!Spec`, and so `CallsSpec`, has weak fairness of the steps of all calls together: while any call can go on, one does.
  Whether it ends is not assumed: a pipeline or a service may as well hang (`Hang`), which `ClientsAreAnswered` names.

The other runs check safety only.


## 4. Proofs

TLAPS proves the following for every value of the constants that the named
assumptions allow: any number of calls, paths, rebuilds, requests, users, services and
tenants. Every inductive invariant below was first checked by TLC, as an
invariant of the run on its module's small instance.

| module | theorems | assumptions used |
|---|---|---|
| `LocalFileAdapterProofs` | `LockInvariance`: the inductive invariant of the lock manager, for any callers; `AdapterInvariance`, `AdapterTypes`, `AdapterMutualExclusion`, `AdapterCounters`, `AdapterMapIsLive`, `AdapterNoLostWakeup`, `AdapterNoLeakedLock`, `AdapterNoDeadlock`, `AdapterNoOvertaking`, `AdapterStableRead`, `AdapterKeepsPromise` | `LockConstants`, `FileConstants` |
| `TenantRuntimeProofs` | `RuntimeInvariance`, `RuntimeTypeCorrect`, `RuntimeInitialised`, `RuntimeLeaks`, `RuntimeKeepsChords`, `RuntimeFileCatchesUp` | `RuntimeConstants` |
| `ComponentsProofs` | of the log collector: `ForwarderInvariance`, `ForwarderTypeCorrect`, `ForwarderEachEntryOnce`, `ForwarderOrderKept`; of all parts: `PartsTypes`, `EventsAreWhole`, `TokensGiveAccess`, `ServicesAreInitialised`, `LoadsGoOn`, `PipelinesDoNotStall`, `AdaptersAreClosed` | `ForwarderConstants`, `LoadConstants`, `PipelineConstants`, `TimerConstants`, `SessionConstants`, `TokenConstants`, `CallConstants`; `Limit > 0` for `PipelinesDoNotStall` |
| `AccountsProofs` | `AccountsType`, `SecondFactorIsConfirmed`, `LockoutIsInTime`, `TokenIsUsedOnce` | `AccountsConstants` |
| `DataServiceProofs` | `DataServiceType`, `UsersKeepToTheirRecords`, `StoredIsValid`, `PatchesKeepTheRest` | `DataServiceConstants` |
| `StoresProofs` | `StoresTypes`, `MongoInsertsOnce`, `MongoIndexesAreMade`, `StoresAnswerTruly` | `RetriesConstant`, `NoneConstant`, `LossesConstant`, `NoFieldConstant`, `SizeConstant`, `PathsConstant`, `NoRangeConstant` |
| `ModuleCacheProofs` | `ModuleCacheType`, `NeverValidIsNotServed`, `RebuildReloads`, `CataloguesAreComplete` | `ModuleConstants` |
| `WebhookTriggersProofs` | `WebhooksType`, `RegistrantsAreKept`, `DispatchesTellAll`, `LimiterIsKept`, `SubscriptionsRegister` | `WebhookConstants`, `TriggerConstants` |

**The lock manager.** Mutual exclusion is not inductive: it says nothing of the
counters that admission looks at. `IInv` adds, for every object, that the counters
are the numbers of holders (`ObjectOK`: readers, writer, and the queue, which holds
each waiting request once and no other), that its queue's head cannot be
granted (`Awake`), and, for every path, that live requests and the Map refer to
the same object (`MapOK`). The last is what a path-wide statement needs: without it two
objects could serve one path, each with correct counters. The lemmas about one
object (`TakenOK`, `QueuedOK`, `GivenBackOK`, `LeftOK`, `ServedOK`) are
independent of the Map; `OneObjectChanged` lifts them to the whole state. `Requests`
must be finite: the counters are compared with cardinalities.

**The adapter.** `AInv` is `IInv` and `CallsOK`: which locks a call holds or awaits
at each point of its body, so that no lock is held by a call that is over.
`NoDeadlock` follows since the second path of a move is the greater one
(`HoldsLowerPath`): who waits in a group and is waited for is a move that holds its lower path and wants its
greater one, and of finitely many such moves one wants the greatest path, whose holder then waits for
nobody. `NoOvertaking` is shown for every step of the lock manager by itself (`StepInTurn`): whoever is
granted was at the head of the queue (`AdmittedInTurn`) or came when nobody waited
(`NewcomerInTurn`), and what a timeout takes out of a queue leaves the rest of it in order. `StableRead`
follows from `WritersHoldLocks` and mutual exclusion. For `KeepsPromise`,
`PromiseStep` maps each step to a step of `ReadersWriterLock` or to a stutter,
with `AcquireEffect`, `ReleaseEffect` and `TimeoutEffect` saying what each
operation does to what the callers have been told.

**Rebuilds.** `CoreInv` says what each call and each rebuild may be at given where
the others are: an initialiser's state is in the map of its tenant from
`MakeState` until the tenant is replaced, a tenant that serves has had every one of its
initialisers return, a write is under way only for a finished rebuild.
`CurrentIsInitialised` follows. `LeaksHaveACause` needs `UnloadInv` (what was unloaded
belongs to a tenant some rebuild emptied), `EmptiedInv` and `LateInv` (a state
that is in the map of an emptied tenant was unloaded, or was made late).
`ChordsAreKept` needs `ChordsInv`: a configuration has the chords of its base
and its own.

**Log entries.** `EachEntryOnce` as it stands is nearly inductive; `Once` spells
its places out and is parameterised by the queue, so that `ProcessEntry` can be taken
in two steps: `TakenOnce` for the entry that comes in and the one that is dropped for
it, `SentOnce` for the flush that may follow. `EndOnce` covers the three ends of a
flush. `OrderKept` needs that all flights are the same one as long as no two
have overlapped (`InOrder`); the rest is that a refused batch, put back at the front,
is earlier than all that is queued.

**Parts.** `PartsInv` is the invariant of `PartsSteps`, and so of `PartsSpec` and `CallsSpec`: the parts' own, each proved to be kept by the steps
of its part. As a step is one of one part and leaves the variables of the others, nothing else is to be
shown (`PartsStep`).

*Tokens.* `AccessForItsTime` says nothing of the queue of expiries, which decides it. `TokensInv` adds that
the queue is ordered by time, that a token has one entry in it, that of its last post, and that a token
that has a path is in it: so the sweep, which stops at the first entry that has not expired, takes
all that have and no other.

*Sessions.* An event is two writes to a stream. `PushInv` says that one whose first is written and its second is not
is the last on its stream and the only one under way there, unless it has been crossed (`HeadLast`); so its second
write comes next to its first. `WrittenBy` keeps events that come later apart from it.

*Load.* `ServedAfterInit` is about the moment a request is dispatched, which may be long after the moment that
decided it. `Reason` keeps what was decided: a request that is about to be dispatched to the real tenant is so since
the load is done, the timer has fired, or the base path it was found at was ready. `LoadFacts` says
what is ready and initialised at each stage of the load. `BasePathFacts`: the
path found among many services is found among fewer that have it, so that a path which is ready
is the path of the service asked, unless the service came meanwhile (`Overtaken`).
`NoLoadStalls` needs `LoadGoes`: while the promise of the load is pending its timer is set, one caller
at most loads, and the load waits for nothing but requests for manifests. So whoever is held up is
held up by a promise that the timer resolves at the latest.

*Pipelines.* The type of a run is not inductive by itself, as a message's next place depends on the pipelines
it is in. `AtOK`: it is at an element or at the end of the innermost, and at an element, the
sub-pipeline it has entered, of each of the others. `Fields`: only a message at a step has a request
waiting or under way. Requests under way are within `Limit`, as only `Start` adds
one. Modes and stages are picked with CHOOSE, and `ModeAfterIs` and `StageIn` say that what is picked exists.
`NoPipelineStalls` needs an order in which things get done. Of the messages that are left (they are finitely
many, `Few`) take one that is in the most pipelines, and of these one that is at the earliest element
(`FirstOf`). If none can go on, then no request waits for the limiter, as one under way could be
answered and `Limit` is not zero; nobody waits for messages in its sub-pipeline, as none is deeper; so the
message is kept by its joiner (`WhoCannotGo`). All that could still come to this joiner would be before
it, and a joiner without a stream keeps one message at most (`PlacesInv`): it is the last to come, and
goes on after all. If no messages are left, some stream may be open. Places are ordered from
the outermost pipeline inwards (`PlaceBefore`); what is written to a stream has come out of joiners before that one
(`WrittenBehind`), so that the first joiner whose stream is open closes it (`SomeStreamEnds`).

*Calls.* `AdapterLifetimes` says of an item only that it is adrift if the adapters it uses are closed. `OfItem` adds
that who asked for it has come to its listing, from which no call goes back to its work; that the owner of its
adapters has an item of its own that is no younger; and that the owner is at its listing still, unless the item is adrift.
So when an owner closes its adapters, all who work with them are adrift through that first
item. `Lifetime` says at which stages a call has adapters; it has some after the closing only
if an item got them. Both are stated of any sequence of calls, so that a step is taken as what it does to
it: one call moves (`OneMoves`), or one is made (`OneIsMade`).

**Accounts.** A request holds copies of the record it has read, and writes one of them
back whole; so an invariant of the record is one of the copies too. `Fine` is what
both are, relative to the tokens, the secrets and the confirmations there have been;
these only grow, so a copy stays `Fine` however long it is held; what clients have put (`chosen`) only
grows as well. `CoreInv` is that, with
the counts the bounds are about, and has `EnabledIsConfirmed`. `LockoutInv`: while no update of
the record has been `lost`, the record counts as many attempts as the
user was told of, or has locked the account since. `TokensInv`: while none has been lost, a token
that can still be used was never used. This needs `Fresh`: a token that is being sent is
nowhere else yet, neither in the record nor in a copy of it.

**Data.** `Req` says what a request carries at each stage: that it may write the record it is about
to write, that its data are valid by a schema of its time and, if nobody has written since its last read
(`calm`), that a patch is the patch of what is stored. The three properties follow at the write;
the rest is that a change of the record, of the schema or of the configuration takes
nothing away from requests that have passed the check it is about.

**Stores.** Each of the three stores has an invariant of its own (`MongoInv`, `ElasticInv`, `FilesInv`),
and a step of one leaves the others as they are. For MongoDB, `Operation` says at each stage of the
writing of a schema which of its indexes are made, unless the collection was dropped
meanwhile, and `CollectionInv` that every document has the identity that its insertion gave it
at the first try. For Elasticsearch, `Use`
relates what a user has read of the mapping to the mapping while nobody else has changed
it (`calm`), and what has been refreshed to what searches find and show. For files, `Req` says that
a size told to the client is the size of the object while nothing has stirred it, and that a zip that
is answered "ok" has all its entries.

**Modules.** `Load` says what a task may hold, wherever it is on its way: no code that is older than
the last purge of its item, unless others may have cached it (`shared`), and in the end
nothing that was never valid while the runtime could read it (`seen`), but an init whose manifest was `refused` to another
(a manifest that is bad and cached was, `ManifestsInv`; what a build is still to initialise it has found in the cache, `InitsInv`). `CodeInv` is about the shared maps: code of a
name with a domain is listed under the domain that purges it, and is not older than the
purge. This needs that such a name is the name of one item, as `ModuleConstants` says: TLC finds the types and
`ReloadedUnlessShared` to fail if two items share one. `CatalogueInv` is about a map
that is being filled: as long as it lacks an item that was always valid, some reader since which
nobody has emptied it still has that item to take (`Filling`); and a catalogue that lacks one is still
being made (`Busy`).

**Registrants and dispatches.** `RegistrantKept` says nothing of registrations under way. `RegistryInv`
and `KeptInv` say that on a URL that is not contested at most one registration
works, that past its probe nothing is stored, and that when it records its own secret is.
`AckedInv` ties what was acknowledged to the registry of the process. `DispatchesInv` follows each
registrant a dispatch owes: stored while the dispatch lists and reads; then among the keys it has still to
read or among its targets; then among its targets, each tried no oftener than `RetryCount` allows. For
`SlotsAreUsed` it has `Slots`, of any sequence of targets: the limiter's first tasks take all its slots
(`FannedSlots`), and the slot of one that is over goes to the first that waits, of which there is
exactly one if there is any (`TriedSlots`). Targets are
read in the order of the store; `Numbered` (any finite set of places can be numbered by
the cardinalities of its initial parts) and the least element of a well-founded
relation give that the order the model picks exists and is unique.

**Subscriptions.** `SubscriptionsInv` adds what the subscriptions owe the registry. As long as no request has
failed, a subscription stored but unknown to this life of the process is `Awaited`:
a call is about to record its relative URL, or a load of a tenant has it
still to do; and whoever finds its relative URL in the store, and so does not write it
again, knows that a call that will record it is on its way. Without this last part the invariant is not
inductive. `AbsoluteStored`: an absolute URL whose registration is answered or about to be recorded, or whose
subscription's last write registered nothing (`refused`), is in the store. `TriggerConstants` has what this rests on: the URLs of
different subscriptions differ, and others register callbacks of their own.

**Checked and proved.** The theorems of `ComponentsProofs` state the types of all parts, `OrderKept`,
`NoPipelineStalls`, `NoLoadStalls`, `WholeEvents`, `AccessForItsTime` and `ServedAfterInit` of the run
`components`, and `AdapterLifetimes` of `requests`. The theorems of `AccountsProofs`, `DataServiceProofs`, `StoresProofs`,
`ModuleCacheProofs` and `WebhookTriggersProofs` state all invariants and action properties of the
runs `accounts`, `data`, `stores`, `modules` and `webhooks`, for every value of the constants:
what these runs check and no theorem states is `DispatchEnds`. The theorems
of the file adapter and the runtime state all safety properties of `files_safety` and `runtime`.
Mutual exclusion, the counters, the Map, lost
wakeups, `CurrentIsInitialised`, `EachEntryOnce` and the types
of the adapter, the runtime, the data service, the stores, the caches of modules and the
webhooks were checked by TLC on the way to their proofs
and are left to the proofs now: no run repeats them.

**Only model-checked.** Liveness (`EveryCallEnds`, `EveryRequestEnds`,
`DispatchEnds`, `EveryEntrySettles`, `KeepsTicking`, `ClientsAreAnswered`), which is
out of this prover's reach: of `EveryCallEnds`, `EveryRequestEnds` and `DispatchEnds` the
theorems have the part that is safety, that nobody is overtaken or waits in a circle, that a load
always has somebody to go on with it, and that no slot is left unused. And `OrderDoesNotMatter`, which compares a run with recursive operators
(`RunOut`, the reference result of a pipeline, and `Contents`, both in `PipelineOrder`). All other
properties of the passing runs are stated by theorems.

## 5. Where the documents and the code differ

Two are runs with expected result "violation"; TLC's trace is the explanation.

- `webhooks_shadow`: the dispatcher is described as having a data-backed store. A
  process that has restarted and taken one registration tells nobody else.
- `stores_deleted`: `openApi.ts` 43 says that the answer 200 to DELETE means "The item was deleted
  successfully". `file.ts` 172 turns every status of the adapter but 404 and 500 into
  200: the 423 of a local file that is locked too long (`LocalFileAdapter.ts` 356), the 403, 409
  or 503 of S3 (`S3FileAdapter.ts` 230). The file is still there.

Others are in the models and can be read off them; the properties name them as exceptions:

- The comment at `handleRequest.ts` 20-24 says a request
  triggered by the load does not wait for the load. The code looks at
  `readyBasePaths`, not at the source: a manifest below a chord's path waits for
  the load that waits for it, until the timer of 500 seconds.
- The same comment says later requests
  wait. Until the first manifests are there `serviceConfigs` is null,
  `pathIsReady` throws, and they are answered 500.
- `services/README.md` 104 says `unload` is called before `load` is
  called again. `rebuildConfig` loads the new states first.
- The service guide says a state is made once and reused. Two
  first uses that overlap make two (`tenant.ts` 64).
- `logCollector.rsm.js` 30 says the oldest entries are dropped when
  the maximum of the queue is exceeded. A refused batch is put back whatever
  the queue has taken in meanwhile (`logCollector.ts` 153); and "for one retry" of the comment
  at 152 is for any number.
- A sub-pipeline runs under the mode its parent's chain ends with (`pipeline.ts` 195), not the one
  in force where it stands (121), if its message reaches it later than the chain is built.
- A schema whose collection is dropped while it is written has a hash that says its
  indexes are there (`MongoDbDataAdapter.ts` 737).
- A rebuild purges the code of its tenant's domain; a request that has begun to load it
  puts the old code back (`services.ts` 353-354).

## 6. Limits of the models

- Bodies, headers, query strings, metadata, signatures, log lines and wording are
  left out; answers are named where they differ in what the caller may conclude.
- Paths, URLs and base paths are members of small sets; that a URL begins with a
  base path is a constant (`Prefixes`), and so is the place of a manifest
  (`SourcesOf`).
- One tenant name is modelled, but in `ModuleCache`: tenants share the module-level registries
  but for a prefix of their keys. Exceptions: the lock manager's Map is shared by paths, and the log
  collectors share one queue, whose configurations may be of different tenants.
- One event of webhooks, one user, one timer, one session id, one key of data and
  one dataset are modelled: the code keeps several apart by their keys.
- `deleteDirectory` takes no lock in the code, so what it may do to an open stream
  is excepted in `StableRead`, in so many words.
- `PipelineRun`: services answer the same request in the same way, so that order is all
  that varies; lists have at most two members. Unzip and zip, redirects, host and header
  directives, trace, lists as lines of JSON or of values that are no objects, conditions and transforms that throw, a joiner's `$this` and
  bodies that it cannot read, and a main pipeline that tees are left out. That a call which throws leaves the limiter is
  taken of rs-core; that the process outlives what nobody catches is the handler of `server.ts` 6.
- `Accounts`: a code is the secret it belongs to; registration, deletion, roles, OAuth and the
  password policy are left out.
- `TenantLoad`: the service that encloses a request's own (`()` in its path, `ServiceFactory.ts` 341-353) is left out.
- `WebhookTriggers`: a write to a path that is not that of one subscription (`webhooks-trigger.ts` 142) is as one that fails, and what
  is stored without a base path (146-150) is stored by the pipeline of the manifest.
- `ModuleCache`: the two phases of `Tenant.init` are one; `Modules.getAdapter`, by which the runtime makes the adapters of its own
  configuration without validating it, is left out.
- `Timers`: one time-out stands for all durations; random delays and `repeatUntil` are left out.
- `Requests`: whether a user has a role, an origin is trusted or a header matches is left to
  chance; a bound on calls stands for services that do not call each other for ever; there is one client.
- `MongoData`: what documents hold, which queries are well formed, and a close while the
  client connects are left out. `ElasticData`: a schema has one field. `FileService`: the escaping
  of names, extensions and dates are left out; a listing is one page.
- rs-core (Message, Service, Url, the parsers of pipelines and transforms) is a
  submodule that is not in this repository, and is modelled as it is used.
- That JavaScript runs one segment at a time is taken from the language.

Seen while modelling, and held to nothing, as nothing in the repository says what should be:
`check` of a local file waits for its lock without a timeout (`LocalFileAdapter.ts` 439);
a load that fails leaves an empty tenant; a timer whose specs are read after its service is
unloaded is loaded nevertheless; the abort of a connection deletes whichever session has its id by then
(`server-side-events.ts` 147); `If-Match` is looked at when the work is done;
private services that name each other make a service's manifests a cycle; the deletion of a fragment
does not look at what the adapter answers (`data.ts` 424); a directory that cannot be deleted has lost
the files before the first that may not go (`S3FileAdapter.ts` 331); a key that is not given is
the document "undefined" of Elasticsearch; a listing of S3 has its first page only.

## 7. Not modelled, and what is next

Not modelled, and why:

- **Deduplicator**: sets that only grow, with no `await` between test and change, so nothing interleaves.
  Its one defect needs no model: `checkArrived` (17-21) reads a set nobody has made, and
  throws at the first message of a specification with a `uniqueProperty`.
- **Server shell** (`server.ts`, `config.ts`, `getServerConfig.ts`): start-up and constant tables. What it does with
  the abort of a request is in `EventSessions`.
- **Proxies, mail, captcha, web scraper and other adapters**: one request to an external service for
  each call, without state.
- **Agent surface, discovery, OpenAPI; templates, queries, transforms**: documents
  worked out from others. What external libraries do with a template is not in this
  repository.
- **rs-core**: not in this repository.
- Parts of components that are modelled partly are named in section 6 and in `PROJECT.json`.

Next, what is proved could be taken further: that an order of answers does not matter in a pipeline
whose elements are all in sequence, by an invariant that needs no recursion; and, as for loads and
pipelines, that the log collector, timers and calls of services always have somebody to go on.
