# A verification project for the contract-driven messaging platform

TLA+ models of the event flow of this repository, checked by TLC on small
instances and, where a statement matters most, proved by TLAPS for every value
of the constants. `PROJECT.json` holds the machine-readable side: the map from
definitions to source lines, the runs, the mutants, the findings, the hazards
and the theorems. Paths below are relative to `src/`.

ADR-006 asks for a formal model of the outbox's "fencing token + reaper + SKIP
LOCKED" protocol. `OutboxRelay` is that model; `LazyChannel` and `Consumer` put
the AMQP channel and the messaging service next to it, `Contracts` the event
contracts, and `Platform` composes the parts from an HTTP request to the audit
queue. `ServiceProcess` is the process around them, from boot to exit, and
`Migrations` and `Messages` are the database below them.

## 1. The system

```
HTTP --> gateway --tx--> gateway_outbox_events --relay--> messaging.direct
                                                             |
                                                       messaging.work <--- TTL --- messaging.retry
                                                             |                          ^
                                                     MessagingController ---retry copy--+
                                                       |            |
                                                    nack           tx: processed_events + messages + outbox_events
                                                       v                                         |
                                                 messaging.dlq                                 relay
                                                       |                                         v
                                              DlqConsumerService                         messaging.events
```

| component | state | operations | source |
|---|---|---|---|
| Gateway HTTP API, producer transaction | none of its own; `gateway_outbox_events` | `sendTestMessage`, `sendTestMessageV2`, `record`, `runWithOutboxEvent` | `apps/gateway/src/app.controller.ts`, `outbox/gateway-outbox-transaction.service.ts` |
| Outbox relay (gateway and messaging) | the outbox table; per tick a batch of claimed rows; timers | claim, publish, await confirm, mark sent, mark failed attempt, reap stale locks, shutdown | `apps/*/src/outbox/*outbox-relay.service.ts` |
| Outbox admin | the outbox table | `replayById`, `replayAllFailed` | `apps/*/src/outbox/*outbox-admin.service.ts` |
| Lazy AMQP channel | `amqpConnection`, `amqpChannel`, `connecting` | `getChannel`, `connectAmqp`, reset handlers, `closeAmqp` | in both relays and `reliability/retry-publisher.service.ts` |
| Consumer | deliveries held, `event_attempts`, `processed_events`, `messages` | `handleMessage`, `handleTestRabbit`, `recordAttempt`, `runIdempotentWithOutboxEvents`, `clearAttempts`, `publishToRetry` | `apps/messaging/src/messaging.controller.ts` and the services it calls |
| Topology, DLQ consumer | queues `messaging.work`, `.retry`, `.dlq` | assert topology, `handleDlqMessage` | `apps/messaging/src/reliability/` |
| Event contracts | none (pure) | version dispatch, validation, building, upcast | `libs/contracts/src/events/` |
| Start-up and shutdown of the messaging process | the RMQ transport's consumer, the hooks' progress, the DLQ consumer's connection, what the broker has declared | `startAllMicroservices`, `TopologyService.onModuleInit`, `assertTopology`, `DlqConsumerService.onModuleInit`, `onModuleDestroy` | `apps/messaging/src/reliability/`, `main.ts` |
| Probes | one connection per readiness probe | `isHealthy`, `connectWithTimeout` | `apps/*/src/health/` |
| Lifecycle records | a connection and its `connecting` promise; a fanout exchange | best-effort `publish`, `ensureChannel`, `connect`; subscribe (tests only) | `libs/contracts/src/lifecycle/` |
| Messages CRUD | the `messages` table | `create`, `findAll`, `findOne`, `update`, `remove` | `apps/messaging/src/messages/` |
| Migrations | the schema, the ledger of executed migrations | `up`, `down`; run, revert, run:all | `apps/*/src/migrations/`, the data sources, `package.json` |
| Logging, metrics, tracing, API-key guard | | | |

Components meet in three places. A **table row** is written by one transaction
(`insertOutboxEvents`) and polled by the relay. A **queue** is fed by the relay
and by the retry publisher and consumed with manual acks. The **ledger**
(`processed_events`) makes the at-least-once delivery of the first two
idempotent.

What is hard in this code:

* ticks of `setInterval` are not awaited, so they overlap inside a process and
  between processes; the claim query ignores `locked_at`; only the fencing
  token `lock_version` separates competing claimants;
* every `await` of `publishOne()` and `handleMessage()` is a point where a crash,
  a lost connection, a database error or a lost reply can come in;
* the confirm of a channel is shared by everything published on it, and a
  publish that reported back-pressure is nevertheless in the write buffer;
* the cached connect promise outlives the connection attempt it stands for;
* the durable attempt count is read before, and used after, the processing;
* acks, nacks and retry copies of a delivery race with its redelivery;
* the messaging process has six AMQP connections: the transport's, which
  the library restores, the relay's, on which the code listens for errors, and four
  on which nobody listens;
* `main.ts` starts the transport before the hooks that declare its topology, and
  the two declare one queue with different arguments; the hooks run side by side,
  although one needs what the other declares;
* the broker confirms a publish that no queue is bound for, and no publish asks
  for it back (`mandatory`);
* the timer of a readiness probe races a connect that it cannot cancel;
* `update()` is three statements outside a transaction, and the column it pages
  by is finer in the database than in the cursor;
* two services' migrations share one ledger and one revert command each.

`PROJECT.json` lists each of these under "hazards", at its line, with the
properties that cover it.

## 2. Modules

| module | models | used by |
|---|---|---|
| `RetryPolicy` | the retry decision and delay | `OutboxRelay` |
| `OutboxRelay` | either outbox: table, relay, reaper, admin | implements `Outbox` |
| `Outbox` | what an outbox promises its callers | `Platform`, twice |
| `LazyChannel` | the shared AMQP channel | `ServiceProcess`, which implements it |
| `ServiceProcess` | the messaging process: hooks, probes, its other connections | |
| `Consumer` | the messaging service's handlers and queues | implements `Intake` |
| `Intake` | what becomes of an event in `messaging.work` | `Platform` |
| `Contracts` | the event contracts (pure operators) | `Platform` |
| `Platform` | gateway, both outboxes, intake, routing | |
| `Migrations` | schema, ledger, both services' migrations | `Messages` |
| `Messages` | the messages table and `MessagesService` | |

`MC<module>` gives a module its constants for TLC. `<module>_proofs` and
`<module>_refinement` hold theorems. The detailed modules are not put together
directly: their product is out of TLC's reach and says nothing new, since
`Platform` uses `Outbox` and `Intake`, which the detailed modules are proved to
implement.

### OutboxRelay

Models `OutboxRelayService` (`outbox-relay.service.ts`), `insertOutboxEvents()`
and `OutboxAdminService`. `GatewayOutboxRelayService` has the same statements in
the same order (the two files differ in names and log texts), so the module
stands for both relays.

*State.* The columns `status`, `attempts`, `lock_version` and `locked_at`, row by
row; `due` is the order `ORDER BY next_retry_at` would give the rows whose time
has come. Each tick of `Ticks` has a position `pc`, the rows its claim statement
has locked (`selected`), its claimed `batch` and the row `cur` in hand;
`InstanceOf` says which process it runs in. `wire` and `stored` are the
publishes under way and those the broker has taken and confirms, named by the
claim `<<row, lock_version>>` they belong to. A confirm does not say that a queue
got the event; what becomes of it is in `Platform`.

*Actions.* One per step between two awaits: `ClaimSelect` (the statement takes its
row locks), `ClaimReturns` (it commits, with a new token per row), `Publish` (with
or without back-pressure), `PublishThrows`, `ConfirmResolves`,
`ConfirmRejects`, `MarkSent`, `MarkFailedAttempt`. Each statement can fail,
or commit and lose its reply (`LoseReplies`). An error in `markFailedAttempt()` is
caught by nobody: the unhandled rejection ends the process with all its ticks
(`Kill`). `ReapStaleLocks`, `ReplayById`, `ReplayAllFailed`, `ModuleDestroy`,
`Exit` and `ModuleInit` complete the operations.

*Abstractions.* Time is what the queries compare: a lock is fresh or stale, a row
is due or not. `SKIP LOCKED` and the row lock of a compare-and-swap appear as the
order of statements; the model has no other concurrency control of PostgreSQL.
The gauge of pending rows and the lifecycle publishes change nothing here.
`MaxLockVersion` bounds the claims of a row. `MaxOvertaking` is an assumption rather
than a bound: from that claim on, a tick that finds the row in the hands of another
leaves it alone, so that ticks do not fence each other off for ever. The code has
no such rule; section 3 (*Fairness*) says why progress needs it. In the runs about
safety alone it equals the bound and so never applies.

*External assumption.* `query()` of an `UPDATE ... RETURNING` gives back the rows, as
`claimBatch()`, `markSent()`, `markFailedAttempt()` and the reaper type it (`ClaimReturns`, `StillOwned`), and
as the repository's unit tests stub it. TypeORM is outside the repository; the
PostgreSQL driver of its 0.3 line answers an `UPDATE` with a pair of rows and count,
under which these four would read other values. The model follows the code's
own reading.

`RetryPolicy` holds `computeFailureOutcome()` and `retryDelayMs()`.

### LazyChannel

Models `getChannel()`, `connectAmqp()`, its reset handlers and `closeAmqp()`. A
promise is named by the caller that made it, so "the promise in
`this.connecting`" and "a promise whose caller still waits" are two things. The
'error' and 'close' events of one loss are one step. An 'error' event that comes
while `createConfirmChannel()` is pending finds no listener and ends the
process (`FreshProcess`); a connection may also end alone (`SingleLoss`) while the
broker stays. When the broker closes the channel alone, amqplib emits 'error' on
the channel, on which nobody listens: this too is `FreshProcess`.

### ServiceProcess

Extends `LazyChannel` with the rest of the messaging process, in the order of
`main.ts:125-126`. `phase` is "starting" in `startAllMicroservices()`, "booting" in the
`onModuleInit` hooks, which only `app.listen()` runs, then "running". `transport` is the
consumer of `messaging.work`, `topology` and `dlq` are how far the two hooks of
`ReliabilityModule` are, `declared` what the broker has of the topology (it
survives the process), `probe`, `late` and `leaked` the readiness probe and what its
timer left behind, `lifecycle` and `record` the lifecycle publisher and a handler
that awaits it.

*Actions.* `TransportConsumes` is the transport: it declares `messaging.work`, consumes
it, and does so again after every loss. Then one action per await of each hook, of
`isHealthy()` and of `ensureChannel()`; the relay's steps are those of
`LazyChannel`, once all hooks have returned (`Started`). Handlers, and with them
records, run as soon as the transport consumes. An outage is one of two kinds.
`ClosedInOrder`: amqplib raises only
'close', which nobody but the relay and the transport hears; the DLQ consumer falls
silent and the lifecycle channel stays, dead. Or an 'error' on a connection
without a listener (`Unheard`) ends the process, which a supervisor starts again
(`Reboot`). `ProcessSingleLoss` is the end of one connection, a cancelled consumer, or
a crash. `Shutdown` closes what the code closes.

*`agree`.* `main.ts:105-109` declares `messaging.work` with `durable` alone,
`topology.service.ts:110-116` with `x-dead-letter-exchange` and
`x-dead-letter-routing-key`. The variable `agree`, which no step changes, tells whether the
two ask for the same queue. **In this commit it is FALSE**: the broker refuses the
second declaration (406), the hook throws and the process never runs, which is
what `RefusedNeverRuns` says. Everything after the boot would then be out of reach, so
`Init` has both values: what the run `process` shows of a relay, a DLQ consumer and probes
at work is about the service once both places declare the queue alike.

*External assumptions.* Nest runs `startAllMicroservices()` to its end before
`listen()` and its hooks, and awaits the hooks of one module together; its transport
connects through a connection manager that waits for the broker and reconnects;
RabbitMQ refuses a declaration whose arguments differ from the queue's; amqplib
emits only 'close' for an orderly `CONNECTION_FORCED`; a supervisor restarts
an ended process (the repository's compose file has no restart policy). Timer and
connect of a probe settle in any order.

### Migrations

*State.* The committed `schema` (columns and indexes), the ledger `applied`, the
command under way (`job`: the set of migrations left, next statement, uncommitted
schema and ledger) and whether the services are up. Migrations are numbered in the
order of their timestamps, so TypeORM's next one is the least of those left
(`Current`). *Actions.* Run, run:all and revert of
either service, statement by statement (`Execute`), with the ledger entry
(`Record`) in the same transaction, `Commit`, and `Rollback` at any point. All nine
`up()` and `down()` scripts are there as sequences of statements. Column types,
defaults and existing data are left out, as no script depends on them; so is the
`UNIQUE` of the partial indexes of messaging's 007 and the gateway's 001, as no
`ON CONFLICT` names them (`CreateIndex`). What a
statement adds and drops is told column by column and index by index
(`NewColumns`, `DropsIndex`, ...), and `Built` is the schema a *set* of migrations
stands for: the union of what their `up()` scripts create. `SchemaSpec` is the
specification of the migrations alone.

*External assumptions.* TypeORM runs all pending migrations in one transaction and
keeps them in one `migrations` table (neither data source names another), and a
revert whose last entry is not its own service's fails. The operator stops the
services before changing the schema.

### Messages

Extends `Migrations`. `rows` is the table, `birth` the millisecond of each insert
(for the properties), `call` the concurrent calls of `update()` and `remove()`, `walk` a
client that pages through `findAll()` with cursors. Each call is made once.
`update()` is `findOne()` with the merge, and the two statements of TypeORM's
`save()`: a `SELECT`, then an `UPDATE` of the columns that differ or, if the row has
gone meanwhile, an `INSERT` under its old id with all columns as they were read.
`Texts` tells only whether a column was last given by its creator or by an update,
which is what stale writes are about. Callers are assumed to send an
`UpdateMessageDto`, a title and a content: the service registers no
`ValidationPipe`, so `Object.assign()` would merge any key of a payload, `id` and
`createdAt` included, and `KeepsItsPlace` is not about such a payload. `ToDate` is the loss of precision
between `timestamp` and `Date`. `Limits` is the ceiling as the code computes it;
TypeORM leaves out a `LIMIT` of 0.

### Consumer

Models `MessagingController` with `RetryAttemptTrackerService`,
`MessagingService`, `OutboxTransactionService`, `RetryPublisherService` and
`DlqConsumerService`. A *slot* is one delivery a process may hold; `live` tells
whether the broker still counts it as unacked, which is not the same as the
handler still running: after `ConnectionLost` the handlers go on with
deliveries that the broker has already given to somebody else. The queues are
bags of events; `attempts`, `processed` and `messages` are the tables.

*Abstractions.* The `x-retry-count` header only feeds the delay, so a copy
carries nothing but its event. A copy in `messaging.retry` may expire at any
time; that RabbitMQ expires only the head of a queue makes a copy later, never
lost. Every failure in the `try` block is classified in every way
`classifyError()` can. An ack or nack on a dead channel throws inside the
library and has no effect on the queues. `consumer_timeout` of the broker
appears as a lost connection. Lifecycle publishes swallow their errors. An
invalid envelope is acked and dropped, as the code and ADR-004 do.

*External assumptions.* TypeORM's `query()` gives back the rows of an `INSERT ...
RETURNING`; the Nest transport re-connects its consumer. The queue is taken to
have the arguments of `TopologyService`, so that a nack goes to the DLQ: those of
`main.ts` differ, which `ServiceProcess` models (`agree`), and `Consumer` is the service on a broker where they do not. Nest finds the handler of
a message by the `pattern` of its content, which the relays' raw payloads do
not carry; the library is not part of the repository, and the model assumes, as
the repository's tests do, that the payload reaches `handleMessage()`.

### Outbox and Intake

The abstract specifications. `Outbox` has a row's `status` and the set of rows
`delivered`, which the broker has confirmed at least once; its actions are insert, deliver, mark sent, give up,
replay and, where `MayForget` holds, take back (a `markSent()` whose reply was
lost is overwritten by `markFailedAttempt()`). `Intake` has the `fate` of each
event: absent, queued, persisted, dead or dropped. `Abstract` in `OutboxRelay`
and in `Consumer` is the refinement mapping: `delivered` is the set of rows with
a stored publish, `fate` is `FateOf`, computed from the queues and tables. A
fate of "queued" needs the event to be in custody: a lost event would have a
fate `Intake` does not know.

### Contracts

Version dispatch, validation, builders, upcast and outbox routing, operator by
operator under the names of the code. Validation is kept per *kind* of check: one
field stands for all envelope fields with a format, one for subject and content
(with every length limit, the recipient's too), one for priority and metadata.
The spellings of a version are those the three steps of the dispatch tell
apart: absent, exact, recognised only by `coerceToSchemaVersion()`, unknown.
Parsing is modelled by what it does: stripping for v1, defaults for v2.

### Platform

*State.* Where each HTTP request is (`answer`), the envelope and header of each
event, two outboxes (`rowStatus`/`rowDelivered`, `factStatus`/`factDelivered`), the
intake's `fate`, the text of each message row and the audit queue. `bound` tells
whether `messaging.work` is bound to its exchange yet, `unrouted` are the events
whose publish was confirmed before it was. *Actions.* `Bind` is `assertTopology()`
reaching the binding.
`Send` to `Respond` are `sendTestMessage()` and `sendTestMessageV2()` with the
correlation-id middleware and `record()`, including a commit whose reply is lost
and a client that goes away. `PublishRow`, `SettleRow`, `DisturbRow` and their
siblings for facts are steps of `Outbox` with their effect on the queues (a publish
to an exchange without the binding is confirmed and gone);
`Persist` writes the message and its `MessagePersisted` row in one transaction.

*Abstractions.* `Strangers` are other producers on `messaging.direct`, with any
envelope and header. The legacy `test-rabbit` pattern (in `Consumer`) and the
lifecycle records are left out. A fact that strays to `messaging.work` gets a
fate and stays queued, which is enough to see it there. An operator replays rows
one by one.

## 3. Properties and runs

Passing runs:

| run | instance | shows |
|---|---|---|
| `relay_fencing` | 1 row, 2 overlapping ticks of one process that overtake each other up to the third claim, 2 attempts, a fault, a replay, TTLs elapse | `OneOwner`, `NoLostFailure`, `SentIsFinal`, `TypeOK`; `EventuallySettled` under fairness |
| `relay_lost_replies` | 2 rows in one batch, 2 processes, lost replies | `SentOnlyAfterConfirm`, `OwnerReadCurrentAttempts`, `RetryBudget`, `ImplementsOutbox` |
| `process` | 2 callers of the channel, 3 outages, crashes or shutdowns, a probe that times out, tracing on, queue arguments that differ (this commit) or agree | `RefusedNeverRuns`, `OneConnection`, `LeaksOnlyAfterTimeout`, `ProcessTypeOK`, `ImplementsChannel`, `OnlyRestartUnsticks`; `CallersReturn`, `DlqConsumerReturns`, `RelayReconnects`, `RecordsReturn` under fairness |
| `consumer_safety` | 1 event in 2 copies, 2 processes, a requeue, 4 faults, 3 attempts | `PersistedOnce`, `NothingLost`, `RetryBudgetIsDurable`, `TypeOK` |
| `consumer_settles` | a contract event, an invalid one, a legacy one, 2 slots, 2 faults | `EventuallySettled` under fairness, `ImplementsIntake` |
| `platform` | 1 HTTP request, 1 other producer with any malformed field, 3 headers, lost replies, publishes before and after the binding | `AnswersAreHonest`, `TextIsKept`, `DroppedOnlyIfMisnamed`, `FactsAreTrue`, `TypeOK`; `AcceptedIsSettled` and `PersistedIsAnnounced` under fairness |
| `database` | all nine migrations; then 2 rows, 3 concurrent calls, 2 ticks per millisecond, limits 0, 1 and over the ceiling | `StatementsAccepted`, `LedgerTellsSchema`, `ServicesFitSchema`, `NeverTwice`, `WalkMissesOnlyTies`, `KeepsItsPlace`, `AloneChangesOnlyItsField`, `MessagesTypeOK` |

Runs that show a disagreement between the code and what the repository says of
it (each is a finding in `PROJECT.json`, with the quoted line):

| run | the repository says | the code does |
|---|---|---|
| `relay_overlap` | each instance acquires a disjoint batch | the claim ignores `locked_at`: two ticks hold one row |
| `relay_outage` | an outage leaves rows pending | an outage spends the attempts and fails the row |
| `channel_stuck` | the next poll reconnects | one refused connect stays in `this.connecting` for ever, with the broker up all the time |
| `boot_order` | the topology exists before the first message is delivered | the transport consumes first, then the hooks run |
| `consumer_outage` | a delivery the database cannot take is nacked into the retry path | `recordAttempt()` rejects outside the `try`: neither ack nor nack |

The README's "every event committed to the outbox will eventually be delivered"
is too strong for the same reason as `relay_outage`: a `failed` row waits for an
operator. What does hold is `EventuallySettled`, as long as overlapping ticks do not
fence each other off for ever. Two findings have a counterpart that says
how far they reach: `OnlyRestartUnsticks` (a connect that was rejected keeps the
publisher without a channel until the process starts anew, and nothing else
does) for `channel_stuck`, and the theorem `OnlyRecordAttemptStrands` (with an attempt
tracker that answers, no handler leaves its delivery unsettled) for
`consumer_outage`. The comment in
`error-classifier.ts` on validation errors disagrees with the ack of an invalid
envelope, on which ADR-004 and the code agree. `app.controller.ts:233-238` says
that `publishOne()` sets the `x-schema-version` header; no code does, and
`GatewayBuildsAccepted` proves that the consumer does not need it. The recipient
of an event is validated and upcast, but no column keeps it.
`docs/contract-evolution.md:57-59` says that a v1 event that passes its schema is
processed as successfully as a v2 event; but that schema takes a `schemaVersion` of
2, and the dispatch prefers this field, or a header, to the type, as
`envelope.schema.ts` documents: such an event is validated as v2 and dropped.
`DroppedOnlyIfMisnamed` is what holds.

Other places where text and code differ, without a run of their own:

* ADR-004:124 says that an event over its budget goes to the DLQ unprocessed; the
  budget is compared only after a failure, so it is processed once more.
* `main.ts:107-108` leaves the dead-letter arguments of `messaging.work` to
  `TopologyService`, "which runs before the consumer loop starts", and ADR-001:133 has a
  restart re-assert a lost topology. The transport comes first and declares the queue
  without them, so `TopologyService` is refused at every boot (`RefusedNeverRuns`).
* README:380 says that a row marked `sent` means the message is in a durable queue.
  No publish has the `mandatory` flag, and one that meets `messaging.direct`
  (`topology.service.ts:75`) before `messaging.work` is bound to it (`:117`) is confirmed and
  gone. `AnswersAreHonest` and `AcceptedIsSettled` name this as the only way in which an
  accepted request ends nowhere.
* On a broker that has no topology yet, `DlqConsumerService` may consume before the
  queue is declared, and the boot fails; the next one finds more declared.
* PM-004:176 says that `/health/ready` answers 200 only after the DLQ consumer and
  the main consumer are connected; it dials a connection of its own and pings
  the database. README:674 relies on a liveness
  probe, which checks nothing. `RabbitMQHealthIndicator` promises to close its
  connection immediately; one that is established after the timeout is never
  closed (`LeaksOnlyAfterTimeout` is what holds).
* `event-lifecycle-publisher.ts:47-49` says that tracing must never break the flow;
  its connection has no 'error' listener, so its abrupt loss ends the process.
* `DlqConsumerService` does not notice an orderly close or a cancel and stays
  silent until the process ends (`DlqConsumerReturns`).
* `messages.service.ts:32-36` and `production-readiness-fixes.md:110-113` call 200 a
  hard ceiling; a limit of 0 removes the `LIMIT`, and a negative one is an error of
  PostgreSQL. Rows that share a millisecond with a cursor are skipped
  (`WalkMissesOnlyTies`), an overtaken `update()` writes back columns it read
  before (`AloneChangesOnlyItsField` says when it does not), and one that races a
  `remove()` may bring the row back (`KeepsItsPlace`).
* `architecture-internals.md:194` names a pattern `createMessage`; the code has
  `messages.create`. The handlers of `MessagesController` never ack, with a prefetch
  of 10; the gateway does not call them.
* `migration:revert` fails while the last entry of the shared ledger is the other
  service's.

*Bounds.* Two processes (or two ticks of one) suffice to have a claimant fenced
off while it publishes. In `relay_fencing` the first three claims may overtake one
another (a tick that was fenced off claims the row back), and later ones come one
per recorded failure, fault or replay, so that its bound of 8 claims never stops a
row: the run has no other way out than to settle it. One row is enough there, since
a batch is worked off row by row. Safety does not hang on `MaxOvertaking`: the theorems
hold for every value, so also where it never applies. Two rows matter only where a batch has more
than one, and there the two are symmetric. Two callers of `getChannel()` are one
that connects and one that waits, or that comes after; three outages are one in
the boot, one in the connect and one after it. The migrations need no bound: all
their states are explored, though only while the table is unused (`Unused`), and
rows are served only on a database that run:all set up from nothing (`SetUp`); no
migration looks at rows and no row at migrations. Three calls on one row are the
one that is overtaken, a removal and an update that meets the gap; two rows and
limits below, at and above their number give every kind of page, and ticks 0 to 2
two rows in one millisecond and one in another. The calls are interchangeable
(`MCSymmetry`; the run has no liveness property). Two copies of one event
are enough for every race on a ledger key, since the third copy waits as the
second does; four faults allow a crash in the retry of a retry. In `Platform`
each event has rows and a fate of its own, so one request and one stranger show
every way two of them could meet: in a queue, or as a fact and its event. In
the consumer and the platform, `CHECK_DEADLOCK FALSE` is there because a system
whose events are all settled has nothing left to do.

*Fairness.* Weak fairness of a tick's, a handler's, a hook's or a connect's own steps:
Node's event loop runs every continuation, a statement or an AMQP call settles
(a dead connection is noticed by heartbeats), and timers keep firing. Weak
fairness of back-offs, retry TTLs, broker deliveries and of the restart of a
stopped process by its supervisor, and of the broker's recovery. Nothing is
assumed of probes and of records being published: they only must not hold others
up. Nothing is assumed about *how* a publish or a
statement turns out. Faults are bounded. Two things this leaves out. Ticks that
overlap can fence each other off for ever: a tick starts while another publishes,
takes the row's token, is overtaken in its turn, and no failure is ever recorded.
This livelock is in the code (`setInterval` does not wait, the claim ignores
`locked_at`) and no fairness of single steps excludes it; what does in practice is
that a publish takes less than the poll interval most of the time. `MaxOvertaking`
states that assumption: after so many claims a row is not claimed under another's
hands. And a database that rejects `recordAttempt()` for good strands
deliveries (`consumer_settles` sets `RecordFails` to FALSE, `consumer_outage`
shows the rest). `Platform` assumes of its parts what their `EventuallySettled`
says: a pending row is settled, a queued event gets an outcome, no particular
one, and no operator ever acts.

*Mutants.* Each property of a passing run has a mutated definition, kept in the
module before the definition it mutates and marked `Mutant`, under which the run
fails.

## 4. Proofs

All theorems hold for any finite or infinite number of processes and ticks and
any bounds, from the named assumptions of the constants only
(`RelayAssumption`, `ChannelAssumption`, `ProcessAssumption`, `ConsumerAssumption`,
`PlatformAssumption`, `MessagesAssumption`).

* `OutboxRelay_proofs`. `TypeOK` is inductive. `SentOnlyAfterConfirm` and
  `RetryBudget` are not: `RelayInv` adds that tokens in use were issued
  (`TokensIssued`), that two claims of one row never carry one token
  (`TokensUnique`), that the owner of a row's current token sees it pending with
  the attempts it read (`OwnerFacts`), that rows under a claim statement are pending
  (`SelectedPending`) and that a tick about to mark a row sent has its publish
  stored (`ConfirmedBeforeMark`). With lost replies `OwnerFacts` must allow for an
  owner whose row is already sent. `NoLostFailure` and `SentIsFinal` (the latter
  where `LoseReplies` is FALSE) are action properties proved from it.
* `ServiceProcess_proofs`, the channel. `OneConnection` follows from
  `ConnectionInv`: a connect under way is the one in `this.connecting`, no channel
  exists beside it, and the one socket belongs to it or to the channel, and every
  waiting caller awaits it. The last part is `NoWaiterIsForgotten`, the safety
  behind `CallersReturn`. `StuckUntilRestart` is the safety side of the finding
  `channel_stuck`: in a stuck state each action but `FreshProcess` leaves the
  rejected promise cached and the channel missing, so no course of the broker or
  of the callers helps.
* `ServiceProcess_proofs`, the process. `ProcessInv` = a running process has passed both
  hooks, one that is not running has not touched its relay, the transport's queue
  is there before any hook runs, `TopologyService` passes only where
  the arguments agree, and the count of leaked connections; types come first
  (`ProcessTypeCorrect`). `ArgumentsKeepServiceDown` (with differing
  arguments no restart, crash or outage ever leads to a running process)
  and `ProbesClose` follow.
  `ProcessImplementsChannel`: each step of the process is a step or a stutter of
  `LazyChannel`, so `AtMostOneConnection` and `StuckUntilRestart` carry over
  (`ProcessOneConnection`, `ProcessStuckUntilRestart`).
* `Migrations_proofs`. `Migrations` has no constants and TLC visits all states of
  `SchemaSpec`; the proof says *why* nine scripts, written one after the other and
  run and reverted in two orders, fit together. It is an argument about sets, not
  an enumeration of states. Every column and every index is created by one
  migration, its home (`Homes`, `BuiltHome`); hence nothing of a migration that is
  not in the ledger exists yet (`NothingLater`), an `up()` creates nothing twice
  (`UpsNoRepeat`) and finds the columns it builds on (`UpsGrounded`). Each `down()`
  undoes its `up()` statement by statement, last one first (`DownsMirrored`), drops
  nothing twice (`DownsOnce`), drops all that its `up()` created (`DownsThorough`) and
  nothing of an earlier migration (`DownsHarmless`); the later ones are not in the
  ledger when it runs.
  `LedgerTellsSchema` is not inductive: between two statements neither schema is
  that of a ledger. `SchemaInv` adds the schema a transaction must have at each
  statement (what its ledger builds, plus the part of the `up()` or minus the part
  of the `down()` already executed), that ledgers hold no
  migration twice and those of messaging without gaps, and that the second command
  of run:all finds all of them executed. The four steps `Execute`,
  `Record`, `Commit` and the start of a command keep it; `ScriptsAreAccepted`,
  `LedgerAlwaysTellsSchema` and `ServicesAlwaysFitSchema` follow. TLC confirmed
  `SchemaInv` on the full state space of `SchemaSpec` before it was proved.
* `Messages_proofs`. `MessagesInv` = types, `KeepsItsPlace` for rows and for entities
  that a `save()` may still insert (`EntitiesKeepPlace`), ids inserted in order
  (`IdsInOrder`), what a walk has shown lies at or behind its cursor
  (`ShownIsBehind`) and what it owes lies ahead, shares a cut, or has been shown
  (`OwedIsAhead`). `KeepsItsPlace` is needed for `NoRowTwice`: a row removed and
  brought back must not jump ahead of the cursor. `UndisturbedUpdates` adds that an
  update nobody overtook knows its row (`AloneInv`). The arithmetic of `ToDate` is
  in lemmas of its own (`DateBounds`, `DatesOrdered`). `SchemaUnderMessages`: with the
  table in use the schema still follows `SchemaSpec`, so the theorems of
  `Migrations_proofs` hold there, where the run `database` checks them.
* `Consumer_proofs`. `ConsumerInv` = where a handler can be (`Stages`), one open
  transaction per event (`OneTransaction`), a ledger that agrees with the
  messages (`Ledger`), attempt numbers in use by one pending handler at a time
  and spent in order (`AttemptNumbers`), and the budget itself. `PersistedOnce` and
  `RetryBudgetIsDurable` follow. `NothingLost` is inductive together with
  `TypeOK` and `ConsumerInv`. `OnlyRecordAttemptStrands`: where `RecordFails` is FALSE
  no handler ends with its delivery unsettled, so the await outside the `try` that
  `consumer_outage` shows is the only such place.
* `OutboxRelay_refinement`. `RelayImplementsOutbox`: besides `RelayInv` it needs
  that rows in a batch or on the wire have been inserted (`RowsExist`).
  `ConfirmedBeforeMark` is what makes a `MarkSent` of the relay one of the outbox,
  and `OwnerFacts` what allows `TakeBack` only where replies are lost.
* `Consumer_refinement`. `ConsumerImplementsIntake`: an event never published has
  left no trace (`Unpublished`), an invalid one is neither persisted nor
  dead-lettered (`InvalidNeverKept`), and since `NothingLost` holds, custody never
  decides a fate (`FateCases`). Then each step moves at most one event (`OneFate`).
* `Platform_proofs`. `PlatformInv` = what the gateway's handler has done at each
  stage (`Gateway`), what a row and the fate of its event say of each other, an unrouted
  publish included (`Transport`), no fate without an envelope (`Published`), no fact without its
  message (`FactRows`) and the properties themselves. Three lemmas carry the
  contracts: what the gateway validates the consumer accepts
  (`GatewayBuildsAccepted`), parsing and upcast keep the text
  (`NormalisedKeepsText`), a refused envelope names the other version
  (`RefusedIsMisnamed`). `PlatformComposes`: every behaviour of the platform is one of
  `Outbox` for the gateway's rows, of `Outbox` for the facts and of `Intake` for the
  events, so the platform asks of its parts nothing beyond the specifications that
  `RelayImplementsOutbox` and `ConsumerImplementsIntake` are about.

Only model-checked: the liveness properties (`EventuallySettled` of both modules,
`CallersReturn`, `DlqConsumerReturns`, `RelayReconnects`, `RecordsReturn`,
`AcceptedIsSettled`, `PersistedIsAnnounced`), which need fairness and `ENABLED`. Every
invariant and every action property of a passing run is a theorem as well.

## 5. Not modelled, and the plan

Not modelled:

* the lifecycle subscriber (integration tests only) and `close()` of the publisher,
  which has no caller;
* `IdempotencyService.checkAndMark()` and the messaging service's older
  `OutboxService`: no handler calls them any more;
* logging, metrics, tracing, API-key guard, the gauge of pending rows: no state of
  the flow;
* the load scenarios under `perf/` and the reliability test harness: programs that
  exercise the system from outside.

Plan, in this order:

1. The two ends of the outbox proved to meet: that a row of `Outbox` in `Platform`
   which is sent stays sent unless `MayForget` holds, and what the refinements
   carry over to the HTTP client.
2. The channel inside its users: a publish of the relay and of the retry
   publisher that goes through `LazyChannel`, so that a stuck connect spends the
   attempts of rows and the retries of events.
3. Larger batches for `SKIP LOCKED`: two claim statements that each take part of
   the due rows.
