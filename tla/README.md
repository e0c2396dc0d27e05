# Verification of quilla-be-kit

quilla-be-kit is a TypeScript toolkit for back ends: a transactional outbox and
an event bus on Postgres, a unit of work with optimistic locking, a shutdown
manager and process runtime, a job runner, an HTTP router.  This directory
holds TLA+ specifications of the parts whose correctness depends on the order
in which things happen, the TLC configurations that check them on small
instances, and TLAPS proofs of the most important results.  Paths below are
relative to `src/packages/`.

## 1. Inventory

| Component (source) | State | Operations | What is hard |
|---|---|---|---|
| Outbox and forwarder (`messaging/src/postgres/pg-local-outbox.ts`, `messaging/src/local-outbox/outbox.forwarder.ts`) | table rows: status, owner, claim time, retries; per replica: timer, tick in flight, `stopping` | `insert`, `claim`, `markSent`, `markFailed`, `resetStale`, `cleanup`; `start`, `dispose`, tick | replicas interleave at every statement; crash or error between publish and `markSent`; slow ticks against `staleClaimAfterMs`; shutdown in the middle of a batch |
| Event bus and consumer (`messaging/src/postgres/pg-event-bus.ts`, `messaging/src/event-bus/event.consumer.ts`) | events table, deleted on success; per replica: tick, handlers by type | `publish` (deduplicating), `claim` (NOT EXISTS guard, advisory lock, SKIP LOCKED), `markDone`, `markFailed`, `resetStale`, `cleanupFailed`; handler attempts with delays | snapshot of a claim older than its locks; one handler of several failing; order per aggregate; retry delays outliving the claim |
| Outbox → bus | both tables | a forwarder tick calls `publish` | at-least-once end to end; what deduplication covers after the bus row is gone |
| Unit of work (`persistence/src/unit-of-work`, `postgres/pg.transaction.ts`, `postgres/pg.database.ts`) | transaction state, tracked aggregates, pool clients | `transaction` (nested calls join), commit, rollback, release, `disconnect` | failing BEGIN, COMMIT or ROLLBACK; events drained before the commit; client accounting, also while the pool is being closed |
| Column type cache (`persistence/src/postgres/pg-sql.ts`) | a map of table metadata | `get` | a cold cache needs a second pool client inside a transaction; concurrent misses |
| Write DAO, adapter, repositories (`persistence/src/dao`, `persistence/src/repository`, `postgres/pg-write-db-adapter.ts`) | rows with `updated_at` | create, update, delete and their `Many` forms, locked reads; mapping of names and values, audit columns | lost updates; millisecond truncation; rows without `updated_at`; names and values that do not come back; columns of a batch; objects that outlive a session |
| Read side (`persistence/src/postgres/pg-query-builder.ts`, `persistence/src/query-schema/zod.ts`, `persistence/src/dao/base-read.dao.ts`) | none; a client's walk through pages | query schema, filters, conditions, sort, pagination, `findPaginated` | parameters numbered across filters and conditions; data and count on two connections; offsets while rows are written |
| Aggregates (`ddd/src/entities`) | buffer of domain events | add, drain | drained exactly once |
| Shutdown manager (`runtime/src/shutdown/shutdown.manager.ts`) | phases, `draining`, the run in flight | `addPhase`, `shutdown` | timeout racing the phases; failing participants |
| Runtime (`runtime/src/process/runtime.ts`) | `triggered`, the trigger promise, signal handlers | `run`, `triggerShutdown`, signals, uncaught errors | a signal during startup; the first cause wins; exit code |
| Component registry (`runtime/src/component/component.registry.ts`) | registered components | register, validate, phases | names, missing contracts |
| Job runner (`jobs/src/in-process.job-runner.ts`) | timers, one execution per job name | `register`, `stop`, `drain`, `dispose` | ticks of one job that overlap |
| HTTP router (`http/src/router/router.ts`, `http/src/decorator`) | route table, fixed at construction | registration, stack resolution, middleware chains, specificity | order of overlapping routes; names of stacks at four levels; inherited metadata |
| HTTP adapter, security middleware (`http/src/adapter/hono`, `security/src`) | attributes of each request; session store | dispatch, credential, session, scopes, validation | requests interleave at every await; sessions are revoked while tokens are valid |
| Execution context (`execution-context/src`, `ddd/src/events/event.metadata.ts`) | nested contexts of each request, job and handler | establishing contexts, metadata of events, contexts made of them, fields of log entries | contexts must not be mixed up; an identity goes through two tables as JSON |
| Observability (`observability/src/logger`) | emissions in flight of each logger | log, obfuscate, format, `flush` | emissions that nobody awaits reject; entries logged while the process drains |
| Errors (`errors/src`) | none | serialization | nothing that interleaves |

How they interact: application code runs inside `UnitOfWork.transaction`, which
drains the domain events of its aggregates and hands them to `PgLocalOutbox.insert`
in the same database transaction.  `OutboxForwarder` claims outbox rows and calls
`PgEventBus.publish`.  `EventConsumer` claims bus rows and calls handlers, which
may start a unit of work again.  `Runtime` runs the start-up, waits for a signal,
and calls `ShutdownManager.shutdown`, which disposes the forwarders, the
consumers, the job runner, the pool and the logger phase by phase; an emission of the
logger that rejects is one of its triggers.  A request's execution context is given to
the events it records and from them to the handlers.

What makes each correct, in a sentence:

* outbox: an entry is SENT only if the bus was given it; no two replicas work on
  an entry; it is retried `maxRetries` times at most and never stranded;
* bus: an event is deleted only after all its handlers returned; one replica per
  event, one per aggregate, older events first; never stranded;
* outbox to bus: every committed event is handled at least once;
* unit of work: the state and the events of a transaction commit together or not
  at all, and every client goes back to the pool exactly once;
* optimistic lock: no update is lost;
* write side: what was saved is found again; the audit columns name who wrote;
* shutdown: phases are disposed in order, all of a phase before the next; the
  answer comes by the timeout; the process exits, with the code of its cause, and
  nothing that was logged is lost;
* HTTP: no protected step runs for a request that its route's stack has not
  authenticated; a request sees its own identity only, and so does a handler of the events
  that it records; the narrowest route answers;
* read side: a page holds rows of the caller's scope only, totals agree with pages,
  and a walk through the pages misses nothing.

The hazards behind these are listed, each at its line, in `PROJECT.json`.

## 2. Plan

In this order, most important first.  "done" marks what exists.

1. `OutboxForwarder` (done): table and replicas.  `OutboxForwarderProofs` (done).
2. `EventConsumer` (done): table and replicas.  `EventConsumerProofs` (done).
3. `AtLeastOnce` and `Pipeline` (done): the abstract promise of the messaging package
   (recorded, then handled or given up, never lost), and the composition of 1 and
   2 by a joint publish step.  `PipelineProofs` (done): the composition implements both
   components and the promise, step by step.
4. `UnitOfWork` (done): transactions over a pool of clients, the event buffer of the
   aggregates, the column type cache.  `UnitOfWorkProofs` (done).
5. `OptimisticLock` (done): read, modify, write cycles of several sessions over rows
   with a truncated clock; DAO, adapter and repositories.  `OptimisticLockProofs`
   (done).
6. `Shutdown`, `JobRunner` and their composition `Process` (done): the shutdown
   manager with its timeout, the runtime around it, the job runner and the pool as
   participants.  `Logger` and its composition with it, `Service` (done).  `ServiceProofs`
   (done) is about all of them.
7. `Router` and `HttpRequests` (done): the route table as pure operators, and requests
   that run through it interleaved.  `Contexts` (done): the execution contexts of jobs and
   handlers, and how they come from that of a request.  `ContextsProofs` (done) is about
   all three.
8. `ListQuery` (done): query parameters, SQL builder and pages as pure operators, and a
   walk through the pages while rows are written.  `Records` (done): the write side of the
   same table, with the mapper in between.  `RecordsProofs` (done) is about both.

Runs: one safety run and one liveness run per concurrent component, one run per
divergence between code and documentation worth recording; two replicas and one
or two entries each, for the reasons in section 5.  Theorems: for each concurrent
module type correctness and its main safety invariant; for the pipeline, that its
steps are steps of `AtLeastOnce`.

## 3. Modules

### OutboxForwarder

One row per entry of `Entries` (status, owner, whether its claim is older than
`staleClaimAfterMs`, retry count), `bus` for the rows the bus holds under their
origin id, and for each replica `life` (what `start` and `dispose` set), `pc`
(the await at which its tick is), `batch` (the claimed rows its loop has not
finished with) and `cur`.  Each statement of the tick has an action that succeeds
and one that fails: `SweepOk`/`SweepFails`, `ClaimOk`/`ClaimFails`,
`PublishInserts`/`PublishConflicts`/`PublishSelects`/`PublishFails`,
`MarkSentOk`/`MarkSentFails`, `MarkFailedOk`/`MarkFailedFails`; `LoopHead` is the
`for` with its `stopping` check.  A statement that fails may have taken effect
("lostAck").  `RETURNING` promises no order, so the loop takes the batch in any.
The consumers of the bus are the one action `BusConsumes`.

Deployment faults are chosen in `Init` and kept for ever, so that one run covers
several kinds of deployment and a property can name the faults it tolerates:
"slowTick" (a tick may outlive `staleClaimAfterMs`) and "lostAck".

### EventConsumer

The same layout with the events table, except that the claim has two steps:
`ClaimBegins` takes the statement's READ COMMITTED snapshot and `ClaimOk` locks,
updates and commits.  What lies in between is exactly what the NOT EXISTS guard
does not see.  `FOR UPDATE SKIP LOCKED` rechecks the row it locks
(`bus[e].status = "PENDING"` in `Claimable`) but not the other rows; the advisory
lock makes a claim skip aggregates that a claim in flight has locked
(`LockedByOthers`), for a time nobody controls, hence the choice in
`ClaimResult`.  `Attempt`, `HandlerReturns`, `HandlerThrows` and `HandlerOver`
are `executeWithRetry` and the loop over the handlers of a type.  Faults are
"slowTick", "lostAck", "overlap" (claims of two replicas in flight at once),
"badPayload" (the payload of an event in `Invalid` matches no schema) and "lateEvent"
(events of an aggregate are published out of the order of `created_at`, which is that of
the outbox and not of the bus: forwarders of two batches, or a retry, may swap them).

### AtLeastOnce and Pipeline

`AtLeastOnce` is what the package promises, without tables, claims and replicas: an
entry is recorded, accepted by the bus, acknowledged, delivered to all its handlers or
abandoned after its retries.

`Pipeline` is an instance of `OutboxForwarder` and one of `EventConsumer` with their own
variables.  The only joint step is `Publish`, the INSERT of `publish()`; every other step
belongs to one side (`Outbox`, `Bus`).  A bus row is `<<e, n>>`, the n-th row of entry e,
since the unique index on `origin_event_id` forgets a row that `markDone` has deleted.
The forwarders see the entries with a row (`OnBus`).  Two refinements are checked: the
pipeline implements `AtLeastOnce` (`KeepsPromise`, and with fairness `PromiseSettles`),
and the bus with its consumers implements the abstract bus that `OutboxForwarder` has in
its place (`ForwardersSeeBus`), so that what is shown of the outbox alone holds here.
`PipelineProofs` proves both for every instance.  The faults are those that the two
components share: "overlap", "badPayload" and "lateEvent" are left to `EventConsumer`.

### UnitOfWork

A call of `Calls` is one top-level `transaction()`; its `pc` is the await it is at.
Its operation writes a row -- creates it, or saves or deletes the version it has read --
for which it needs the column types of the table (`Write`; a cold cache queries the pool),
and, for a call in `Recording`, changes an aggregate whose event is drained (`Drain`) and
given to the sink before `Commit`.  The operation ends well (`Flush`), with an error
(`Rollback`), or catches an error and goes on (`FlushAnyway`).  Three errors can be caught:
a statement that Postgres refuses, which aborts the block; the `OptimisticLockError` after an
UPDATE or DELETE of no row (`base-write.dao.ts` 109-111, 138-140), which does not; and a failed
query of the column types (`TypesFail`, `pg-sql.ts` 225), which runs on the pool and does not
either.  Whether the event is drained then depends on the repository: `loadForUpdate*`
registers the aggregate before the write, `create()` after it (`base-aggregate.repository.ts`
23-41), so `FlushAnyway` chooses.  `swallowed` is, as history, what was caught: in which mode
the block was left, and whether an event was drained.  Writes that match no row without being
checked -- the Many forms, objects without `updated_at` -- are in `OptimisticLock`.
`answer` is what the awaited statement came back with; `Settle` is the
end of the call, with the release of its client.  A client sends its statements
one after the other (`queue`), the server executes them in the transaction block
of the client (`block`): these two are Postgres and its driver, and external.
`Disconnect` ends the pool while calls are under way: idle clients are closed at once,
the others when they are released, and a request for a client that waits in the pool is
never answered (`stuck`).
`PgTransaction` sends COMMIT and ROLLBACK and changes its state only when they are
answered, which is where `Straggle`, a query of a branch of the operation that
nobody awaits, comes in.  `ConnectionLost` breaks a connection with whatever it
has under way; a COMMIT may have taken effect.  Faults are "swallow" (the
operation may catch the error of its write and go on), "straggler",
"queryTimeout" (the driver gives up on a statement that the server may still
execute), "reuse" (a rejected call is issued again with the same aggregate) and
"disconnect".

### OptimisticLock

A session is a request with transactions of its own and objects in memory that
outlive them.  `row` is what is committed, `image` what the holder of the row's
`lock` sees, `object[s][r]` the aggregate or row object with its `updatedAt` and, as
history, the versions it came from or wrote (`known`).  `start` is
CURRENT_TIMESTAMP, the start of a transaction, which is what the statements stamp
(`Timestamp`); time counts half milliseconds so that truncation (`Trunc`) shows.
`SaveChecked` and `SaveRefused` are `update()` and `delete()` with the two outcomes of
their WHERE clause (`Matches`), `SaveUnchecked` the Many forms.  A deleted row can be
created again under its id.  Saving does not change the object's `updatedAt`: no
RETURNING brings the new value back.  Conditions are chosen in `Init`: "sameMs"
(transactions start within one millisecond), "foreign" (somebody else writes
`updated_at` with microseconds), "resave" (an object is saved a second time),
"touch" (the application sets `updatedAt`, as `ddd/README.md` 193-208 shows).

### Shutdown, JobRunner, Process

`Shutdown` is `ShutdownManager` and the `Runtime` around it.  What happens between
two macrotasks is one step: the end of a phase starts the next one, and whichever
of the last phase and the timer comes first makes the result.  The phases go on
after a timeout until `Exit`, as the loop of the code does.  "direct" in `usage`
means that somebody else calls `shutdownManager.shutdown()`.

`JobRunner` has one timer and one map entry (`active`) per job; `running` are the
ticks that have not settled, which the map does not know when ticks of a job
overlap.  `Dispose` is `stop()` and the snapshot that `drain()` takes of the map.

`Process` composes them: the disposal of the participant `Runner` begins with
`JR!Dispose` and ends with `JR!Drained`; `Pool` is a participant of a later phase.

### Logger and Service

`Logger` is what `StructuredLogger` does with an emission: it prints or throws at once, or
is kept in `inflight` while its data is obfuscated.  An entry carries its logger, since each
has a set of its own, also those that `forMethod()` and `withMeta()` make; `Flush` takes the
snapshot that `Promise.all` awaits.

`Service` is `Process` with loggers (`Log == INSTANCE Logger`): ticks and participants log,
the `dispose()` of the participant `Logs` is `flush()` of one logger, and an emission that
rejects and is not awaited by `flush()` is a trigger with cause "unhandled-rejection".
Before the runtime is armed Node would end the process, so rejections are taken from then on.
An obfuscator may hang.

### Router and HttpRequests

`Router` is the constructor of class `Router` as operators over a description of the
decorated controllers: a controller is its class and the classes it inherits from, nearest
first, each with what `@Controller` sets, its routes and its methods with their guards.
`Method` is the method that runs, with the guards of its own class only (`http/README.md` 531).
`RouteTable` is the set of its routes, each with the place where it was defined, and `Before`
the order that sorting them gives; `Refused` are the errors: nothing is served by a router that
is refused.

`HttpRequests` runs requests through that table.  `Receive` dispatches to the matching route
that is before the others; `Steps` is the chain of its middlewares, then the guards of the method from
the outermost to the innermost, then the method; each is an action that goes on or answers.
`attributes` are those of `getRequestAttributes`, `contexts` the `runWithContext` calls a
request is nested in (a thrown error or a return leaves them all).  `Revoke` changes the
session store between any two steps.  Middlewares and methods of the application may throw;
`Status` is what the error resolver answers.  Hono's matching, the token service and the
validator are external.  `PathsAssumption` says that the paths an instance has tell its routes
apart: each pattern is filled with two different segments (`Sample`), with and without a rest.

### Contexts

`Contexts` adds what comes after a request: its method, a job or a handler records an event
(`Record`) with metadata of its context, which are stored as JSON (`Stored`); `Dispatch` runs
a handler in the context made of them (`FromEventMetadata`), as often as it likes, since
`Pipeline` says when.  `options.metadata` is what the application's `serialize()` writes: an
`EventMetadata`, a plain object, or nothing.  `root` is, as history, the context in which the
chain of events began.

### ListQuery

A WHERE clause is what Postgres makes of its text: alternatives of sets of predicates.
`And` is `join(' AND ')`: what stands at the seam is ANDed, the rest of a condition with an
OR stays outside, which is how `pg-query-builder.ts` 180 composes it.  Predicates refer to
parameters by number, so that a wrong number is a wrong value.  `Ask` is a request up to
`Promise.all`; `DataArrives`, `CountArrives` and `QueryFails` are its two queries in any
order, each on the table as it is then; `Answer` is the result, from which the client knows
whether there is another page.  `Results` gives every set of rows that Postgres may return:
where the order has ties, OFFSET and LIMIT may cut them anywhere, and differently each time.
`Put` is one assignment to the record that `filters()` builds.  `Refused` is the schema: a
page or page size that is no string, which a parameter given twice is not (`Repeated`;
`hono-request.adapter.ts` 102 makes an array of it), and a filter value that its schema does
not take are refused by any schema, all else by a strict one.  `ParseSort` drops the entries
that are not valid, one after the other.  `WalksAssumption` says what methods and clients are:
sizes are positive, a key is in an object once, a condition has the parameters it refers to.

### Records

`Records` is the write side of the table that `ListQuery` lists; the table of the one is the
`rows` of the other.  A name is a sequence of chunks with the places where a word begins,
which is what `camelToSnake` and `snakeToCamel` look at.  `ToPersistence` and `ToDomain` are the
mapper, `Encode` the serialization of the adapter, the driver and the casts, `Decode` what the
driver gives back.  `Create`, `Update` and `Delete` are the DAO's forms for one and many
objects: a statement has the columns of its first row (`Sent`).  `Update` takes an object that
was loaded or one that is held since it was saved; `due` and `by` record, as history, what was
saved and by whom.  A write is one step: locks, versions and conflicts are in `OptimisticLock`.
`Over` is the spread of one object over another.  The instance's values are free but for four
assumptions: undefined, NULL, value objects and texts of numbers are not one another
(`ValuesAssumption`); a digit begins no word of a name and each name has its form as a column
(`NamesAssumption`); a table has the audit columns, types that `Cast` knows, and one column
for each key (`StoresAssumption`); and lists are sorted by integer columns, which no mapper
derives and whose keys come back (`SortAssumption`).  The last one is about the model rather than
about the code: Postgres compares values of any type of column, `<` of TLA+ numbers only, so the
columns that a list is sorted by stand for any that are ordered.

### MC modules

`MCOutboxForwarder`, `MCEventConsumer`, `MCPipeline`, `MCUnitOfWork`,
`MCOptimisticLock`, `MCService`, `MCContexts` and `MCRecords` give the constants their values;
the last three instantiate `Process`, `HttpRequests` and `ListQuery` with them.

## 4. Runs

| Run | Checks | Shows |
|---|---|---|
| `outbox_safety` | `TypeOK`, `SentWasPublished`, `OneForwarderPerEntry`, `SentIsTerminal` | what the outbox keeps in a deployment without faults, with lost answers, with slow ticks as well |
| `outbox_live` | `EveryEntrySettles` | no crash, disposal, aborted tick or lost answer strands an entry |
| `bus_safety` | `TypeOK`, `DeletedWasHandled`, `OneReplicaPerEvent`, `OneReplicaPerAggregate`, `OlderFirst`, `OnlyHolderEndsClaim` | what the bus keeps, for replicas with different topics |
| `bus_live` | `EveryEventSettles` | no event is stranded |
| `bus_claim_race` | `LockClosesRace`, violated | the advisory lock does not close the race the comment in `claim` says it closes: it is released by the commit a stale snapshot does not see |
| `pipeline` | `KeepsPromise`, `PromiseSettles`, `ForwardersSeeBus` | at-least-once delivery from the outbox table to the handlers, end to end |
| `pipeline_dedup` | `NoSecondRow`, violated | deduplication ends when the consumer deletes the row: a replayed entry becomes a second row, which the handlers see as another event |
| `uow_safety` | `AllOrNothing`, `TruthfulOutcome`, `WritesStayInside`, `OnlyStarvationBlocks` | what a transaction keeps when statements fail, connections break, two calls share two clients and the pool is closed |
| `lock_safety` | `TypeOK`, `NoLostUpdate`, `LockedNeverLost`, `NoSpuriousConflict` | when `updated_at` and row locks keep a version from being overwritten unseen, and when a save is refused for no reason |
| `process` | `TypeOK`, `PhaseOrder`, `ExitZeroIsClean`, `NoTickOnClosedPool`, `FlushedBeforeExit`, `TriggerLeadsToExit` | the drain order, the exit code, the job runner and the logger in a process whose participants fail or hang and whose log entries are rejected |
| `http` | `ProtectedStepsAreAuthenticated`, `OwnIdentity`, `NothingFailsLate`, `NarrowerFirst`, `HandlersKnowOrigin` | what a router that was built guarantees to interleaved requests whose sessions are revoked, and to the handlers of the events they record |
| `list` | `ListTypeOK`, `PagesAreFiltered`, `TotalAgrees`, `WalkIsComplete`, `SavedIsRead`, `AuditNamesTheUser` | what the pages of a list and their totals hold, for good and bad parameters, while rows are written; what becomes of what is saved |

What the code keeps only under a condition is stated with the condition:
`OneForwarderPerEntry`, `OneReplicaPerEvent` and `OnlyHolderEndsClaim` hold while no
tick is slow, although the documentation promises them without it
(`messaging/README.md` 20-21, 262-263); `SentIsTerminal` needs truthful answers
too, since `markFailed` follows a `markSent` that reports an error and does not
look at the status.  `SentWasPublished` and `DeletedWasHandled`
hold whatever the faults are.  The retry budgets (`RetryBudget` of both modules) and
`DisposedOnce` are proved and not in a run, as they follow from what a single step does.

A payload that matches no schema is not "marked FAILED directly" (`messaging/README.md`
482-484): it is not tried again in the same tick, but `markFailed` puts it back to PENDING until
its retries are used up, as it does with every other failure ("badPayload").

In `UnitOfWork`, `AllOrNothing` fails with "reuse" because the events are drained
before COMMIT and are not put back (a second attempt commits the state without
them), and `WritesStayInside` with "queryTimeout" because `ROLLBACK` may be withdrawn from
the queue of a client that is then released.  With "swallow", `AllOrNothing`
and `TruthfulOutcome` have an exception, which names the error that was caught.  After one
that left the block open, the rest of the transaction is committed without the row: the event
of an aggregate that was loaded for update is durable although the optimistic lock refused its
save, or it was never sent, and the call resolves.  After one that aborted the block, COMMIT
reports success and commits nothing: the call resolves without its row if no event was
drained; with one, the sink's INSERT fails and the call is rejected.
`OnlyStarvationBlocks` names the two ways the pool can run dry: a BEGIN
that fails is outside the `try` and its client is never released, and a cold type
cache asks for a second client inside a transaction.  Everything else that holds a
client goes on and releases it, so that after `disconnect()` all are closed and it resolves,
but for the same two.  `TypeOK` of `UnitOfWork` is proved and in no run.

In `OptimisticLock`, `NoLostUpdate` excepts what was only read when two transactions
start within one millisecond (their versions carry the same stamp) or `updatedAt` was
set, and created objects that are saved again, which carry no `updatedAt` and so are
not checked.  `LockedNeverLost` has no exception: the row lock alone protects what was
loaded for update.  `NoSpuriousConflict` excepts a stamp with microseconds, which a
truncated value never equals, a second save of an object, which still carries the stamp
it was loaded with, and "touch": the value that `ddd/README.md` 232 tells applications to
set becomes the expected version, and a locked, unchanged row is refused.  The Many forms check nothing, so `lost` counts
what they overwrite only if it was locked.

`ExitZeroIsClean` leaves out direct calls of `shutdown()`, after which a phase that
is added late is not disposed (`runtime/README.md` 93 forbids them);
`NoTickOnClosedPool` leaves out overlapping ticks and jobs registered after
`dispose()`: the map has one entry per job, a tick that outlasts its interval is
overwritten by the next one, and `drain()` does not await it, although `jobs/README.md`
72 says that it awaits every tick in flight.

`FlushedBeforeExit` is about the logger whose `flush()` is a participant: loggers made from it
have emissions of their own that nobody awaits (`observability/README.md` 209-225 does not say
so), and entries whose formatter threw are lost.  That such an emission ends up as an unhandled
rejection, and with `Runtime` as a shutdown, contradicts `structured.logger.ts` 36-39, where
logging must never surface errors; `TriggerLeadsToExit` covers it as one more cause.

The order of events within an aggregate, which `messaging/README.md` 267-268 promises, is kept
as far as `OlderFirst` says: nobody gets an event in hand while an older one of his topics has
never been tried.  Events overtake each other within a batch, for which `RETURNING` promises
no order, after a failure, which puts an event back to PENDING while later ones of its batch
are handled, when they are published late, and when the older one's topic belongs to another
service.  The query that `WritesStayInside` excepts with "straggler" is one that is issued while COMMIT or
ROLLBACK is under way: it runs outside the transaction.

In `HttpRequests`, `ProtectedStepsAreAuthenticated` is about routers that declare stacks: one
without has no authentication, by design.  `NothingFailsLate`
excepts `@ValidateRequest` in a router without `executionContext`, which fails every request as
soon as the validator describes schemas, while `http/README.md` 282 says that nothing fails at
request time.  `OwnIdentity` excepts fields `userId` and `scopeId` for which the application
names a header, which `validate-request.decorator.ts` 71-80 puts over those of the session, and
schemas whose fields cannot be listed, such as unions, where `zod.ts` 28-29 says that nothing is
injected.  `NarrowerFirst` excepts `/a/*`, which matches `/a` as well and is scored above it,
and a `*` in the middle of a path, which matches what a parameter does and is worth less:
`/*/*/b` is tried after `/:x/:y/:z`, of which it matches only a part.
That a controller is registered twice is listed among the errors in `http/README.md` 292; the
code accepts it.

`HandlersKnowOrigin` excepts the session of a handler if the operation that recorded its event
had none and `serialize()` wrote an `EventMetadata`: its `toJSON()` writes null for what is
absent, `createFromEventMetadata` compares with undefined, and the handler runs with a session
whose user and scope are null.  `execution-context/README.md` 118-121 takes the presence of a
session for the sign that somebody is authenticated, and lines 134-136 say that half of one
cannot happen.  A plain object without the absent keys is handled as documented.

In `ListQuery`, everything about rows needs `Parenthesized` conditions: with an OR
outside parentheses, the filters before it, the scope of the caller among them,
apply to its first alternative only, although `persistence/README.md` 557 says that
each call is ANDed with the rest. `TotalAgrees` excepts `distinctOn`, which the
count ignores. That `ListTypeOK` bounds a page by `maxPageSize` needs a default not
above `maxPageSize`: the default is not clamped. `WalkIsComplete` needs an order
that determines the rows (`Determined`): the defaults are dropped when the client
sorts, and what is enforced comes before what it sorts by, so that only a unique
column in one of those two breaks ties. It also needs pages of one size
(`SameSize`). `ListTypeOK` says for which input a schema that is not strict refuses
a request: a filter value that it cannot read, and a page or page size that is given twice.
The code contradicts its documentation in both: `zod.ts` 77-78 says that invalid input is
tolerated, `persistence/README.md` 753 that invalid pages and page sizes are replaced.

In `Records`, `SavedIsRead` leaves out what the code does not bring back: names with
acronyms (`userID` becomes `user_id` and comes back as `userId`), values that the type of their
column changes (text in a JSONB column that happens to be JSON, numbers in a bigint or numeric
column, which the driver returns as text) and columns that the first object of a batch does not
have.  Columns of types that `mapPostgresType` casts to TEXT, such as enums, refuse every
write.  `AuditNamesTheUser` has no exception: it also covers objects that were loaded under
another session, and writes without one.

## 5. Bounds and fairness

Two replicas are the fewest that can race, and every property of two replicas
quantifies over pairs.  Two entries make a batch that can be left half done;
the two bus events belong to one aggregate, one has two handlers, and the second
replica's service has no handler for the other one.  `MaxRetries = 2` has one
retry and one exhaustion.  `MaxStops` bounds crashes and disposals together;
one is enough to leave a tick anywhere.  Retries are bounded by the code itself.
The liveness runs have a single entry, because a settled row never blocks another:
the batch limit is at least the number of entries.

`Pipeline` has one forwarder, one consumer and one entry with one handler: two replicas
of each side race in the runs above, and here end-to-end liveness needs a small state
space.  What a crashed replica leaves in the tables another one finds the same way a
disposed and restarted one does, and lost answers and slow ticks supply late writers.
`MaxRows = 2` is one replay.  `PromiseSettles` is conditional on a forwarder and a
consumer that have not crashed.  `pipeline_dedup` has two forwarders and no faults.

Two calls over two clients are the fewest in which a call can wait for a client,
inherit a client that somebody left in a bad state, or wait for a second one while
the other call does the same.  `MaxAttempts = 2` is one retry, `MaxLosses = 1` one
broken connection at any point.  Clients are interchangeable (`SYMMETRY`); the calls
are not, since one records an event.  The faults are taken one at a time.  These
runs do not check deadlock: all calls may be over, or starved as described.

One row is enough for `OptimisticLock`, since no statement relates two; two sessions
race, and three transactions let one of them keep an object while the other changes
the row and changes it back or replaces it.  `MaxWrites = 3` makes three versions.  The
run ends when the transactions are used up, so deadlock is not checked.

`Service`, with `Process` in it, has two phases of two participants (job runner and server,
pool and logs), so that one can fail while the other is under way; two ticks of one job are
enough to overlap, and two loggers and one entry enough to lose it.  Of the causes, which the
code treats alike, there are two: one that an emission brings about and one that may come before
the start.  It ends with `Exit`, so deadlock is not checked either.  Its fairness: continuations
run and the timer fires; the start-up function, participants, ticks and obfuscators may hang.

`HttpRequests` has two requests, the fewest whose contexts can be confused; a request is
interchangeable with the other (`SYMMETRY`).  The six inputs hold tokens of each stack,
users and scopes, none, and client-sent fields that compete with those of the session.  One
schema takes `userId` from a header and one is a union.
Seven options of a router are accepted (guards, a subclass hierarchy, stacks of the module,
of the class and of the route, no stacks with and without a context, overlapping patterns)
and ten are refused, one for each error.  Three more record events, one for each form of
metadata: two events make a chain of two hops, from a request with a session, one without or
a job, with or without a scope of its own.  The session of a user is revoked once.  Requests
end, so deadlock is not checked; nor is it for `ListQuery`, whose walks end.

`ListQuery` has every table over four rows, with equal values, a NULL and two scopes: enough
for two pages, a tie at their boundary, and a row outside the scope.  Nine methods vary the
enforced and default order, conditions, grouping, `distinctOn`, page sizes and strictness;
nine clients send valid, unknown, unreadable and repeated parameters.  `MaxWrites = 2` is one write
between the two queries of a page and one between pages.

`Records` adds five tables to these, each with names, subclasses or types that are hard to map
(acronyms, digits, renamed columns, derived columns, JSONB, bigint, numeric and enum columns,
two subclasses in one batch) and three or four writes: create, change under another session,
and load, change or create again.

Fairness of the messaging modules: `WF(Tick \/ Start)` says that timers fire, statements and handlers
come to an end and a disposed replica is started again; the event loop and the
driver's own timeouts justify it.  Strong fairness of the successful sweep, of the
successful claim with rows to work on, and of the acknowledgement says that an
outage does not last for ever; without it no database program makes progress.
`WF(ClaimExpires)` is time.  The last member standing is covered because
`MaxStops` is smaller than the number of replicas.

## 6. Proofs

`OutboxForwarderProofs` proves, for any finite set of replicas and entries, any
batch size and retry limit:

* `TypeCorrect`: `Spec => []TypeOK`;
* `SentImpliesPublished`: `Spec => []SentWasPublished`.  Not inductive alone: the
  strengthening adds that a replica at `markSent` has a current entry that was
  published, and that `bus` is a part of `published`;
* `RetryBudgetKept`: `Spec => []RetryBudget`, from a lemma that classifies what one
  step can do to a row;
* `PublishedWasRecorded`: only recorded entries are claimed or published, a lemma of
  `PipelineProofs` rather than a property of a run;
* `ClaimsAreExclusive`: `Spec => []OneForwarderPerEntry`.  The strengthening says
  that, without slow ticks, every entry in a batch has a row that is CLAIMED by that
  replica and not expired, or is SENT or DELETED already while the replica is at
  `markFailed` for it, after a lost answer of `markSent`; it is what makes the sweep harmless;
* `SentStays`: `Spec => SentIsTerminal`.  With truthful answers the second case does not arise:
  whatever a replica has in hand is CLAIMED (`ClaimedInv`), so that its `markFailed` never meets
  a row that is SENT.

`EventConsumerProofs` proves, for any finite sets of replicas and events, any
topics, handlers and limits:

* `TypeCorrect`: `Spec => []TypeOK`, in two halves (table, replicas) that change
  independently;
* `DeletionImpliesHandling`: `Spec => []DeletedWasHandled`.  Strengthened by: a tick
  that has not failed so far has had all handlers before the current one return
  (`SoFar`), and one at `ack` all of them;
* `RetryBudgetKept`: `Spec => []RetryBudget`, from `RowStep`, the list of what one
  step can do to a row;
* `OlderEventsFirst`: `Spec => []OlderFirst`;
* `ClaimsAreExclusive`: `Spec => []OneReplicaPerEvent` and `ClaimsEndByHolder`:
  `Spec => OnlyHolderEndsClaim`, from `HolderInv` (without slow ticks an event in hand
  has a row CLAIMED by that replica and not expired, and is in one hand);
* `AggregatesAreExclusive`: `Spec => []OneReplicaPerAggregate`.  `AggInv` adds: one
  claim is in flight at most, its snapshot shows the aggregate of every CLAIMED row,
  and CLAIMED rows of one aggregate have one owner.  The first conjunct is what the
  condition "no overlap" gives, and `bus_claim_race` shows that it is needed.

`PipelineProofs` proves, for any forwarders, consumers, entries, handlers and limits:

* `ForwardersImplemented`: `Spec => ForwardersSeeBus`, and `ConsumersImplemented`:
  `Spec => EC!Spec`.  A step of one side is a step of its module and a stutter of the other,
  but for two: `Publish` is a step of both, and a row that the consumers delete is a step of
  the abstract bus of `OutboxForwarder` if it was the last one of its entry (`OneRowLess`);
* `OutboxStaysCorrect` and `BusStaysCorrect`: therefore what is proved of the two modules
  alone holds of their composition.  The proofs modules are instantiated for it, and their
  assumptions are proved of what `Pipeline` gives them;
* `PromiseKept`: `Spec => KeepsPromise`, with one case for each action of the two modules.
  That an acknowledgement, a delivery or an abandonment is a step of the promise depends on
  what happened before: the entry was published, or recorded.  `PipelineInv` has this from the
  invariants of both sides, which hold here because both are implemented, and adds what
  neither can say: a bus row belongs to an entry that was published (`RowsArePublished`).
  A consumer that deletes a FAILED row, late, revives an entry only if it was delivered, which
  is `DeletedWasHandled` one step earlier;
* `NothingFromNowhere`, a consequence in every state: what is acknowledged or delivered was
  published, what was published or given up was recorded.

`UnitOfWorkProofs` proves, for any calls, clients, numbers of attempts and lost connections:

* `TypeCorrect`: `Spec => []TypeOK`;
* `OnlyStarved`: `Spec => []OnlyStarvationBlocks`, from `PoolInv` (each client is free, closed,
  leaked or held by one call) and `QueueInv` (a queue has at most one statement that
  somebody awaits, and that one is its holder's);
* `Inside`: `Spec => []WritesStayInside`, `Atomic`: `Spec => []AllOrNothing` and `Truthful`:
  `Spec => []TruthfulOutcome`.  `BlockInv` says what the transaction block of a held client
  is at each await of its call and for each answer of it: whose it is, which writes it
  has, and when it may be aborted.  At the sink it has the row, or none after an
  error that was caught in an open block (`AtSink`, `Missed`); at COMMIT row and event
  (`Whole`), and no row only if an error was caught that explains it (`Excused`).  Without this,
  nothing is known of what a COMMIT makes durable.  `CallInv` ties `buffer` and the state of `PgTransaction` to the await, and
  `DurableInv` adds to `AllOrNothing` that only the call whose COMMIT was answered with
  success has durable writes, unless connections are lost.  With "queryTimeout" nothing of
  this holds of a block, since a statement that its call has given up is still executed; so
  `BlockInv` and `DurableInv` are conditional on its absence, as the properties are.

`OptimisticLockProofs` proves, for any sessions, rows and bounds:

* `TypeCorrect`: `Spec => []TypeOK`, which includes that only the holder of a lock sees
  what is not committed;
* `LockedIsSafe`: `Spec => []LockedNeverLost`, from `LockInv`: the row of a locked object
  is locked by its session and as the object knows it;
* `UpdatesAreNotLost`: `Spec => []NoLostUpdate`, from `StampInv`.  A version with an
  object's stamp must be one the object knows (`Fits`), both for the committed row and
  for what the holder of its lock sees.  For a step that writes a new version this needs
  that no other session's object has the stamp of the writing transaction
  (`ObjectStamps`), which in turn needs that transactions in progress have distinct
  stamps (`SessionStamps`) that no committed row has yet (`RowStamps`);
* `ConflictsAreReal`: `Spec => []NoSpuriousConflict`, from `ExactInv`: a version number is one
  image of its row and is not used again, stamps are whole, and what an object that is not
  saved yet knows of its row is true.

`ServiceProofs` proves, for any number of phases, any participants and any jobs:

* `TypeCorrect`: `ProcessSpec => []TypeOK`;
* `PhasesInOrder` and `DisposedAtMostOnce`, from `PhaseInv`, which says where a
  participant of phase i is while `phase` is before, at or after i.  `PhaseOrder` is
  part of it: when the loop is over, `phase` does not tell any more which of the
  phases were added in time;
* `CleanExit`: `ProcessSpec => []ExitZeroIsClean`.  `ExitInv` traces exit code 0 back
  to a result without timeout and errors, and that to the end of the loop;
* `MapHoldsNewest`: `ProcessSpec => []ActiveIsNewest`, a lemma of the next one rather than a
  property of a run;
* `PoolOutlivesJobs`: `ProcessSpec => []NoTickOnClosedPool`.  `DrainInv` ties the stage
  of the job runner to its disposal and says that without faults a running tick is
  its job's latest, so that `ActiveIsNewest` puts it into the snapshot of `drain()`.

It proves as well, for any loggers:

* `ServiceIsProcess`: `ServiceSpec => ProcessSpec`, step by step, so that everything that is
  proved of `Process` holds of a process whose loggers reject as well;
* `NothingLoggedIsLost`: `ServiceSpec => []FlushedBeforeExit`, which needs that whoever logs
  has stopped before the phase of `Logs` begins, and from `Process` that phases are in order,
  that no job ticks when the runner is disposed and that `dispose()` is called once.

`ContextsProofs` proves, for any routers, clients, requests, workers, scopes and number of
events:

* `Authenticated`: `ContextsSpec => []ProtectedStepsAreAuthenticated`, `OwnIdentities`:
  `ContextsSpec => []OwnIdentity` and `NothingLate`: `ContextsSpec => []NothingFailsLate`.
  None of the three is inductive: they speak of a few kinds of steps, and what a request has
  at one of them comes from those before it.  `RouteSteps` therefore says at which index of
  the steps of any route of a router that is not refused each kind of step is (`StepOrder`),
  and `AuthInv` what a request that is at index k has by then (`Reached`): its contexts, its
  verified credential, the session that was good when it was received, and its validated
  fields.  `OptionsAssumption` says which lists a declaration consists of,
  `InputsAssumption` that tokens were signed for users and sessions that there were in the
  beginning, so that a stamp that is good at the check was good when the request came in;
* `HandlersActForOrigin`: `ContextsSpec => []HandlersKnowOrigin`.  `RequestInv` says that the
  contexts of a request have identities of tokens that clients have sent, `EventInv` and
  `WorkerInv` that what is made of the metadata of an event agrees with the context its chain
  began in.  `RecordedMetadata` is the step that keeps it: a context that is written as
  metadata and read back is the same, or has got its session from nulls.  `NoneAssumption`
  says that no actor, session or metadata is what stands for their absence;
* `NarrowFirst`: `ContextsSpec => []NarrowerFirst`, for patterns of any length.  A route that
  matches its own samples and whose paths the other one matches as well must be matched by the
  other segment by segment (`SampleMatches`, `SampleMatched`): a literal of the other is the
  same literal, since two samples differ wherever there is none, and the other is not longer.  Where the
  two differ, the narrower one therefore has a segment that is worth more, or more segments
  (`NarrowerScore`), so its sum is greater (`HigherScore`).  That the score is a sum is a fold,
  of which `ScoreChain` says what it adds at each index.

`RecordsProofs` proves, for any methods, clients, tables, names, values and objects:

* `TypeCorrect`: `Spec => []ListTypeOK`, from `PageInv`.  A page is bounded by what `Pagination` and
  `Results` give; a total is bounded because no step makes fewer rows and writes together than
  there were (`RowsKept`), which is counted by the ids of the table, as two rows of it are
  never equal;
* `FiltersHold`: `Spec => []PagesAreFiltered` and `TotalIsTrue`: `Spec => []TotalAgrees`, from
  `FilterInv`: what the data query has brought, and every page so far, has only rows that are
  `Wanted`.  The WHERE clause of a query holds of exactly these (`WantedRows`).  `FilterAdded` and `ConditionAdded` say this of one
  call of the builder: what is ANDed has the numbers of its own parameters, and the numbers in
  the clause so far keep their meaning when parameters are appended.  The clause is a fold over
  the filters and one over the conditions, and so is `filters()`.  The prover cannot take a
  lemma that has an operator for a parameter, so what a fold computes is said by a function on
  the set of indices: `FoldChain` says that there is one that begins with the base and goes on by
  the operator, and `Along` that what holds at the beginning and is kept by each index holds at
  the end, by a least counterexample.  `KnownFilters` says that a schema puts the filters of a
  client one after the other without losing a key, `OwnFilters` that those of the method come
  last and win;
* `SavedComesBack`: `Spec => []SavedIsRead`, from `DueInv`: of every row that was saved, each
  column whose key is due holds the value that `Encode` made of it (`Kept`).  The step rests on
  `RegularReturns` (a name that is regular is the same after `camelToSnake` and `snakeToCamel`),
  `KeyOfColumn` (the column of a key belongs to this key only) and `RoundTrip` (`Decode` takes
  back what `Encode` did, for values that the type of their column does not change);
* `AuditIsTrue`: `Spec => []AuditNamesTheUser`, from `TableInv`, which says of every row that its
  id and audit columns hold what `held` and `by` have of it, that the object in memory is of a
  kind that the store maps, and that `rows` is what the read side is shown of the table;
* `WalksComplete`: `Spec => []WalkIsComplete`, from `WalkInv`.  What a page is depends on the
  rows of its moment, and the walk remembers only which rows it was given, so the invariant is
  about every set of rows T that is initial in the order (`InitialOf`: with a row, all that
  precede it).  Let n be how far the pages reach so far (`Reach`).  Of the rows of T that stayed
  at most as many are missing as T has more than n, and one for each write (`Missed`); of the
  rows that were given at most as many are outside of T as T has less than n, and one for each
  write, less those that were given twice (`Twice`).  For an initial T the next page has a part of it
  that can be counted (`PageMissed`, `PageTwice`): this is the step when the data query answers.
  A write takes rows from T or adds some, one for each row it writes, so T is compared with the
  initial set that it was (`WriteMissed`, `WriteTwice`).  For T all rows that are wanted the first gives
  what the property says once the pages reach that far, which the total decides: if writes
  have made it too small, the walk ends too early by as many rows, and this is paid
  for when the total comes before the data (`Slack`).  `SortOrders` says that an order with the id
  in it is total, which the counting needs, provided that the values can be compared; that they
  can is `SortInv`: every object that an application holds, or loads and changes, has numbers or
  nothing for the keys of these columns, and so has every row.

The assumptions are the named ones of the modules.  Each proof has the three parts
initial state, step, conclusion; the step has one case per action.  Every invariant that a run
checks is proved; checked by TLC only are the liveness properties, since the prover has no
support for fairness.

## 7. Not modelled

Of the messaging tables the columns that no statement of the protocol reads (payload, timestamps
other than `created_at` and `claimed_at`) and table creation; `on()` and `subscribe()` after
`start()`; unwrapping of payloads.  Metadata of events are in `Contexts` only.

Of the claims, which rows `SKIP LOCKED` skips because another claim that is under way has
locked them: `OldestPending` and `Claimable` offer them all, and the claim that comes first takes
them.

Of the read side, that `name` and `name__eq` are two keys of the merged filters (`SameKey`): the
code then applies both, which is only stricter.  Of the mapper `String(id)`: an id is the same
value as a row's and as an aggregate's.  Of `mapPostgresType` six types that stand for the
others (`Cast`).  Of the DAO calls without a transaction, which its signature allows and no
repository makes (`SaveCheck`).

Of the database `healthCheck()`, which changes nothing; of the DAOs `exists()`, RETURNING and an
expected version that a client supplies to `delete()`.  Of the read side the texts of SQL and of
numbers, joins and `extraFields`.

Of HTTP CORS, cookies, parsing of bodies, serializers, `listen()` and `close()`; of the execution
context the ids of attempts.

Of observability log levels, the formatters' layout, the names of meta fields and how values are
obfuscated; of `errors` everything: its classes serialize what they are given.  The component
registry is a list that the composition root fills, and validates, before the process runs; the
phase that it makes is one of `PartsOf`.  Components without a module, with the reason, are in
`PROJECT.json`.
