# A TLA+ model of the PushSDK gateway

The gateway sits between face-recognition terminals, which poll it over HTTP
with the PushSDK protocol, and a school application, to which it delivers
attendance events. Its state is a PostgreSQL database and a few in-memory maps.
This directory models the parts of it whose correctness depends on failures,
restarts and interleavings, checks them with TLC and proves the most important
properties with TLAPS. File names below are relative to `src/`.

## Inventory

| part | state | operations | what makes it hard |
|---|---|---|---|
| PushSDK sessions (`internal/pushsdk/service.go`, `session.go`) | a session per terminal in memory, its checkpoint in `pushsdk_sessions`, `terminals.connection_status`, a gauge | AuthInfo, Login, authenticated exchange, Logout, idle and login sweeps, restore at start | each handler makes up to three database calls, any of which can fail, or commit and report a failure; the process can stop between any two |
| command queue (`internal/store/isapi_commands.go`) | `isapi_commands` | queue, claim, complete a batch, expire | deadlines race answers, answers are repeated, one bad result rolls back a batch |
| reconciliation (`internal/store/access_event_sync.go`) | `access_event_sync_runs`, `..._commands`, `retained_access_events` | start, clock answer, page answer, fail | a chain of commands that must never break silently; duplicate records |
| event delivery (`internal/store/event_deliveries.go`, `internal/delivery/worker.go`) | `event_delivery_routes`, `event_deliveries` | save and delete a route, claim, send, finish, retry | leases, lost answers, routes that change between attempts |
| attachments (`internal/store/event_attachments.go`) | `event_attachment_deliveries` | claim, finish, retry, backfill | a second queue that follows the first |
| backfill (`internal/store/event_backfills.go`) | `event_delivery_backfills` | preview, submit | stale previews, two archives that describe the same events |
| ingestion (`InsertDeviceEventBatch`) | `device_events`, projections | insert a batch and queue its deliveries | vendors repeat batches |
| start (`cmd/gateway/main.go`, `Migrate`, `BackfillAccessEventProjections`) | `schema_migrations`, the schema, `access_event_projections` | migrate, project, seed, reconcile the administrator, restore | one 30-second limit over many transactions; releases deployed in any order |
| administrators (`internal/httpapi`, `store.go`) | `admin_users`, `admin_sessions` | sign in and out, expire, replace | references from other tables |
| activity log and monitor (`internal/monitor/hub.go`, `monitorSocket`) | `gateway_activities`, channels of 64 messages | record, publish, subscribe, read the history, forward, unsubscribe | full channels, browsers that stall or vanish, activities committed while one connects |
| parsing, encryption, configuration, web interface | | pure or presentation | |

The parts meet in few places. An authenticated exchange calls the command queue
or ingestion between its proof and its new challenge; the status that sessions
write decides whether a command may be queued; a page answer fills the retained
archive that a backfill reads; ingestion queues deliveries in its transaction.
The modules keep these interfaces as nondeterministic inputs: the exchange may
be refused (`Reject`), terminals go online and offline at any moment
(`ConnectionChanges`), records arrive in the archives in any order.

`PROJECT.json` lists every component, and every hazard with the line where it
bites and the properties that would notice it.

## Modules

**`PushSDKSession`** has one step per database call together with the changes to
memory that follow it, because a crash, a failure or another actor can come
between two calls. `exchange[t]` is the handler that holds the terminal's mutex
and the point it has reached; it also carries what the handler keeps for its
compensation (`prev`) and what it will answer (`reply`). Challenges are numbers
drawn in increasing order per terminal, so "used" and "revoked" are comparisons;
knowing a challenge stands for proving it. `Faults` and `Ambiguous` name the
calls that may fail, and that may commit and be reported as failed. Deadlines
are watermarks: a handshake or challenge is overdue once its number is at or
below the mark. A configuration is a version number (the session fingerprint),
which only grows; a terminal removed from the configuration is one whose
fingerprint no longer matches. A refused request changes nothing unless it has
resumed the session first. The mutex of a session (`Session.mu`) has no
variable: it is only taken by who holds the mutex of the terminal (the handlers
under `ServeHTTP`, the sweep after `TryLock`), so nobody ever waits for it.
`served`, `loggedIn` and `revoked` are history: they record committed exchanges
for the properties and no action depends on them.

**`ISAPICommands`** models commands and reconciliation runs together, since they
change in the same transactions. `CompleteISAPICommands` takes one step per
result; `undo` is what a rollback restores, and `CommittedCommands` what others
see meanwhile. Every other transaction is one step that waits while a batch is
open. This is sound: claims and results of one terminal are serialised by its
session mutex, those of different terminals touch disjoint rows, queueing a
plain command commutes with a batch, and the sweep blocks on the rows the batch
has locked and re-evaluates them (or the database breaks a deadlock, which is
`Rollback`). A start that comes during a batch still finds the run active, and
is refused. That two starts of one terminal follow each other is taken from
PostgreSQL: an advisory lock (`access_event_sync.go:79`), and behind it a
partial unique index. Only the connection status changes during a batch. An
answer is the few facts the code tells apart: a clock, or a page with its
search, position arithmetic, status and set of records. A lost response is an
answer the terminal may give again.

**`CommandLifecycle`** is the abstract specification of a command: queued once,
sent at most once and before its deadline, ended once. `ISAPICommands`
implements it under the mapping of the committed rows (`ImplementsLifecycle`).

**`EventDelivery`** models both delivery queues, routes, ingestion and backfill.
Every transaction that queues or retries rows or changes a route locks the row
of the terminal, so each is one step; a claim and a result are single
statements. `due` stands for both `next_attempt_at` and `lease_until`. A worker
keeps what it claimed in `workers[w]` and may send, lose the answer, stop, or
finish long after its lease. `received` is what the school has stored; the
school is external and may store and not answer. A preview token is a digest of
the preview, so the model compares the previews. A picture backfill stops at the
id the administrator names (`PictureBounds`) or at the newest delivery. Records
are those that are delivered at all (major type 5, subtype 75, active). The
initial states include deliveries from before migration 015, which have no
picture job.

**`EventOutbox`** is the abstract specification of both queues: messages (events
and pictures) that are accepted, stored by a school and confirmed. What is
accepted is never withdrawn or redirected, a school stores only what was accepted
for it and a picture only when its event is confirmed, and only what is stored is
confirmed. Rows, claims, leases, attempts and failures do not appear in it.
`EventDelivery` implements it (`ImplementsOutbox`) when a row that exists is an
accepted message, a delivered row a confirmed one, and `received` is what is
stored: claiming, failing, retrying and waiting are stuttering steps, and so is
the late attempt of a worker whose row another one has delivered.

**`DeliverySchedule`** is the same event worker in time. `EventDelivery` lets a
row fall due at any moment, which hides what the delays do; here a row waits the
seconds that `RetryDelay` gives, an attempt at a school that does not answer
takes `SendTimeout` (10), and `Run` claims up to `Batch` (25) rows, lowest id
first, between two looks at its one-second ticker.

**`GatewayStart`** models `run` up to the point where it serves, and what a
serving process does to the same tables. `pc` is the step of `run`, `file` the
migration that `applyMigrationFiles` is at. Each transaction is a step; it spends
one unit of `time`, the 30-second context, if it is a migration or a batch of
projections (the others are short). An error, the end of the 30 seconds, a crash
or a deployment ends the process, and `Start` begins again from the database. A
release is an image and its environment: number of forward files, files whose
text it changed, projection version, administrator. A migration is its name, and
`schema` is the sequence of the files whose statements were executed, so that a
file applied twice, out of order or without its record can be seen. A projection
is the version that wrote it and the version whose columns it has (0: all NULL);
what a version's extractor classifies is the relation `Classifies`. The route and
the backfills are here only as references to an administrator. The initial
databases are an empty one, one left by a release from before the baseline in
the middle of its legacy files, and tables of unknown origin.

**`ActivityMonitor`** models the log, the hub and `monitorSocket`. An activity is
a number in the order of `occurred_at`, which is when its transaction begins;
commits may come in another order. A broadcast takes one step per client while
it holds the read lock; subscribing and unsubscribing need the write lock.
Activities of delivery administration are recorded and not broadcast (`silent`).
The context of an upgraded connection is not cancelled when its browser goes
away, so only a failing write or ping ends a socket.

The `MC...` modules instantiate these for TLC. The proofs are in
`PushSDKSessionSteps` (one lemma per step of an exchange), `PushSDKSessionProofs`
(restart, sweeps, agreement of memory and database, theorems),
`ISAPICommandsTables` (what happens to rows), `ISAPICommandsProofs`,
`EventDeliveryRows` (inserting, claiming and writing rows),
`EventDeliveryProofs`, `GatewayStartProofs` and `ActivityMonitorProofs`.

## Runs

| run | checks | bounds |
|---|---|---|
| `session_durability` | a used proof stays used, a revoked session stays revoked, commit before reply | 1 terminal, 5 salts and challenges (`MaxId`), 2 configurations, all calls fail or are ambiguous |
| `session_compensation` | memory and checkpoint agree; status and gauge cover online sessions; exchanges end, silent terminals go offline | 1 terminal, `MaxId` 5, 1 configuration, all calls fail, no ambiguous commits |
| `commands_sync` | runs wait for one command, one run per terminal, totals, positions, records, imports | 2 runs, 5 commands, 2 records, pages of 0 to 2, one of which announces more and has none |
| `commands_lifecycle` | oldest first, refinement of `CommandLifecycle`, commands and runs end | 3 commands, up to 3 plain, 1 run, claims of up to 2 |
| `delivery_claims` | routes, receipts, one school, claims, delivered is final, refinement of `EventOutbox`; deliveries end | 1 event, 2 workers per queue, 2 destinations, 2 attempts |
| `delivery_backfill` | one delivery per record, copies, previews | 2 live and 2 retained records, 3 rows, 2 windows, limits 2 and 1, picture backfills up to row 1 or the newest |
| `start_upgrade` | one history of the schema, one interpretation per version, a serving process is prepared; a start leads to serving or is refused | 4 releases, 2 deployments, 1 crash, 2 legacy files, 3 events in batches of 2, 1 long transaction per start, 1 token |
| `monitor` | no send on a closed channel, no gap between history and channel; broadcasts end, sockets of vanished browsers close | 2 publishers, 1 socket that reconnects, channel of 1, history of 2, 3 activities |

Four runs are expected to fail, each on a sentence of the repository:

- `session_gauge_leak`: an AuthInfo that fails to change the status and then
  fails to restore the online session it replaced leaves
  `pushsdk_sessions_active` one too high until the next restart (`README.md:95`:
  "counts online sessions"). Both calls share the request's context, so one
  disconnect fails both.
- `session_login_replay`: a Logout whose checkpoint cannot be deleted leaves an
  unauthenticated session in memory; its Login is then accepted a second time
  (`README.md:101`: "A completed `Login` cannot be replayed").
- `delivery_starvation`: one worker serves all schools, lowest id first. 31 due
  rows of a school that does not answer take 310 seconds to time out, and the
  first is due again after 300. A later row that met network errors, whose school
  answers again, is due and is not retried while that outage lasts
  (`docs/EVENT-DELIVERY.md:73`: "Network errors [...] retry after 5, 10, 20, 40,
  80, 160, then 300 seconds, continuing at the 300-second cap"). With 30 such rows
  the property holds.
- `start_rename`: `ReconcileConfiguredAdministrator` deletes the accounts other
  than the configured one; a saved destination or a backfill references its
  administrator without `ON DELETE` (`db/schema.sql:339`, `:348`), so after a
  change of `ADMIN_USERNAME` every start fails there (`store.go:234`: it
  "maintains the one administrator account configured by ADMIN_USERNAME and
  ADMIN_PASSWORD").

One more disagreement was met in reading and is not in a model, since
`last_seen_at` decides nothing: `TransitionTerminalState` refreshes it for
"authenticating" (`store.go:295`), while the comment at `store.go:429` says that
only an authenticated exchange does.

### Why the bounds suffice

`MaxId` bounds how many handshakes and challenges follow each other: five are a
handshake, its Login, an exchange and a second handshake that replaces it and
logs in, which is every pair of a session and its predecessor. Terminals share
nothing but the gauge and the process, so one is enough for TLC; the theorems
cover any set. Five commands are a run of a clock and two pages and the start of
a second run that meets its duplicates. Three delivery rows are a live event, a
retained one and a third that shares a window with either; `delivery_backfill`
takes the two destinations as symmetric, since no definition names one and the
run checks no liveness. Deliveries with one
event still have every race of claims, because rows are independent; two
attempts are a claim and the one that overtakes it. `MaxAttempts` leaves the
last attempt undisturbed (no lost answer, no lease running out), since otherwise
a bounded model would stop in the middle of a retry; the safety properties are
checked with every earlier attempt free to go wrong.

Two deployments are an upgrade and a downgrade, or an upgrade and a change of
administrator; with `Deadline` 1 every start that has two long transactions to do
is cut short, and three events in batches of two need two of them. A channel of
one slot is full at once, three activities exceed a history of two, and two
publishers can commit and broadcast in opposite orders. Sockets share only the
lock, which the broadcasts contend for in the same way. `delivery_starvation`
uses the real delays, and starts from a restart after a long outage, when all
rows are due and at the cap; one school answers again. Row 1 is enough as a named
end of a picture backfill: it is beyond all rows before the first is queued, and
before the newest afterwards.

`CopiesAreNotQueued` covers one order, a copy submitted when its live record is
stored. In the other order, a live record that arrives after its copy was
queued, the code delivers both and leaves it to the school: "ISAPI-only records
retain their own source identity. The school deduplicates by
terminal/source/event ID and daily attendance" (`docs/EVENT-DELIVERY.md`).

### Fairness

- Sessions: weak fairness of the handler (database calls return, the server has
  read and write timeouts), of the clock and of the restart. Strong fairness of
  the sweep: it runs every five seconds and skips a terminal whose mutex is
  taken, so infinitely many of its attempts have to succeed.
  `SilentTerminalGoesOffline` holds because `MaxId` makes every terminal silent
  eventually; the exchanges before that are not restricted.
- Commands: weak fairness of a batch in progress and of deadlines, strong
  fairness of the sweep. Nothing is assumed of terminals or administrators.
- Delivery: weak fairness of the workers' steps and of rows falling due. The
  code retries for ever while a school gives no answer, so `RowsEnd` rests on
  one assumption about the world, which `MaxAttempts` states: after some
  attempts that go wrong in any way, one is answered, its result is recorded and
  its worker is not stopped.
- `DeliverySchedule`: the worker runs on.
- Start: weak fairness of `Start` (the container has a restart policy) and of the
  steps of a start. `StartsServe` assumes that the database allows at least one
  long transaction in the 30 seconds of a start (`Deadline` is not 0); it does
  not assume that all of the work fits, and crashes and deployments are bounded.
- Monitor: weak fairness of a broadcast and of a socket's handler; a stalled
  browser blocks its handler's write. Strong fairness of taking the write lock,
  because a blocked `Lock` of `sync.RWMutex` keeps new readers out. Nothing is
  assumed of browsers, transactions or restarts.

## Proofs

The theorems hold for every value of the constants: any set of terminals, any
number of commands, runs and records, any claim limit and page size, any set of
failing and ambiguous calls, any number of workers, schools and browsers, any
size of a channel. What they assume of the constants is named beside the
declarations (`...Assumption`), and TLC evaluates it in the runs. They cover every
safety property that a passing run checks, and two that the code violates, under
the assumption that one call does not fail.

**Sessions** (`PushSDKSessionProofs`). `UsedProofStaysUsed` alone is not
inductive: a compensation may bring an old session back, so the copy a handler
holds must be known to be unused too, and a challenge drawn later must be known
to be larger. `IInv` therefore adds, per terminal: everything in use was drawn
before (`IdsDrawn`); only a running process has sessions; rows carry a
fingerprint in force; no copy in memory, in the database or held by a handler
is revoked (`CopiesNotRevoked`) or used (`CopiesNotUsed`); and what the exchange
has done so far (`ExchangeProgress`). Each action changes one terminal, so the
proof has one lemma per action about the values of one terminal
(`TerminalInv`), in `PushSDKSessionSteps`. Restart and restore,
which change all terminals, are in `PushSDKSessionProofs`.

Whether memory agrees with the database depends on which failures a handler can
tell from a commit. `RowInv`, `StatusInv` and `GaugeInv` say for each step of an
exchange what the handler holds to undo and what is in the row, the status and
the gauge meanwhile; `OnlineInv` says when a session is online, and the other
three need it. Each action is shown to keep all of them at once (`StepAgrees`).

- `CheckpointsMatch` assumes `RowOutcomesKnown`: the calls that write the row in
  AuthInfo and in the rotation of the challenge do not commit and report an
  error. If one does, the handler restores the old session over a row that has
  changed. Every other call may fail in both ways, since what follows such a
  failure writes the row again or ends the session in memory.
- `OnlineIsShown` assumes `StatusOutcomesKnown`, the same of the three
  transitions that leave "online" (in AuthInfo, Logout and the idle sweep).
- `GaugeCovers` assumes neither. `GaugeInv` counts, beside the online sessions,
  the ones that an AuthInfo has replaced and may still put back: they leave the
  gauge only when its second commit succeeds, and are put back uncounted. The
  theorem is an inequality because of the leak that `session_gauge_leak` shows.
- `GaugeIsExact` assumes `ReplacementIsUndone`: the call with which a failed
  AuthInfo puts back the session it replaced neither fails nor is ambiguous. Then
  the gauge counts exactly the online sessions (`GaugeCountsOnline`), whatever
  else fails: every leak goes through the call that fails in `session_gauge_leak`.
  `GaugeInv` carries the equality beside the inequality.
- `LoginOnce` assumes `LogoutIsFinal`: the deletion of the checkpoint in Logout
  neither fails nor is ambiguous. Then a completed Login is never accepted again
  (`CompletedLoginIsNotReplayed`): every replay goes through the call that fails
  in `session_login_replay`. `HandshakeInv` says that a session, checkpoint or
  copy in a handler's hands that still waits for its Login has a salt no Login
  was completed with.

**Commands** (`ISAPICommandsProofs`). `IInv` is `TablesInv` of the tables and of
the tables a rollback restores, and `BatchMoves`: what an open batch has done to
each row. `TablesInv` adds to the properties that rows not yet numbered are
empty, links are sound, and that the outstanding page of a run lies behind all
its others (`PositionsGrow`), from which the uniqueness of positions follows.
`ISAPICommandsTables` proves how queueing, completing, failing, importing and
expiring change `TablesInv`; the actions are combinations of these. `Refinement`
shows that every step of the committed rows is a step of `CommandLifecycle` or a
stutter, where a commit moves all rows of a batch at once: that is what
`BatchMoves` is for. `ClaimOrder` proves the action property `OldestFirst`.

`ImportedOnce` proves `ImportsAreRetained`, that the imports of all runs of a
terminal add up to the records it retains. The prover has no induction over data
and so no sums over sets of any size; the property is therefore stated with
`Imports`, the set of all pairs of a run and a number up to its `imported`, whose
size is the sum. A page that is counted adds as many pairs as records, and the
sizes of two finite sets that grow by disjoint sets of equal size stay equal.
`ImportsInv` says it of the tables and of what a rollback restores.

**Delivery** (`EventDeliveryProofs`). `OneSchool` is about what the schools have
stored and says nothing about rows, so `IInv` links the two: everything received
has a row for the same record and destination (`ReceivedWasQueued`), and that row
is the only one of its record (`OneDeliveryPerSource`). `DeliveredWasReceived`
needs to know of a worker that was answered that the school has the message of
its row (`EventClaimsHold`, `PictureClaimsHold`), also when the row has been
claimed again. The same two say that no worker holds an attempt number above that of
its row, without which `NewestClaimIsOpen` would not be inductive: a new claim is
then newer than all that are held. `PicturesWait` says that a picture job is
untouched until its event is delivered, and `TypeOK` that rows are numbered
without gaps, from which it follows that a batch or a backfill, which may add any
number of rows, overwrites none. The
action properties `DeliveredIsFinal`, `CopiesAreNotQueued` and
`OnlyPreviewedIsQueued` follow from `IInv` and one case per action.
`OutboxIsImplemented` shows that every step is one of `EventOutbox` or a stutter:
a transaction that queues rows accepts their messages; an attempt stores at most
the message of its row; writing a row (`RowIsWritten`: a claim, a result, a retry,
the clock) keeps its message and confirms it only with a receipt. That the
accepted messages name one school per record, and each picture its event, follows
from `OneDeliveryPerSource` and `RowsAreFilled`. `PicturesFollowEvents` states one
consequence on its own.

**Monitor** (`ActivityMonitorProofs`). `IInv` adds to the two properties that what
is being broadcast is committed (`WorkIsLogged`), and that a socket is known to
the hub from before its history is read until it unsubscribes
(`ClientsAreSubscribed`), which is why nothing that commits after the history was
read can pass it by. That the history lists every activity that it selects is
`AscendingIsComplete`: the rank of an element is an injection of the set into as
many places as the set has elements, so no place is left over.

**Start** (`GatewayStartProofs`). `IInv` is `TypeOK` and one part per group of
tables. `SchemaInv` adds to `SchemaIsOneHistory` how far `Migrate` has come: the
files before the next one are recorded, so the next one that is not is the next
of the history; without that a file could be applied out of order. `EventInv`
says that a version that has interpreted an event never exceeds the version of
its projection, which is why `schema_version < $1` never selects it again, also
after a downgrade. `AccountInv` is the foreign key of the sessions, needed to see
that replacing the administrator leaves no session of another one. Each part
also says what holds after its step of `run`; `ServesPrepared` is those together
at "serving". `EmptyBatch` (an empty batch means that nothing is outdated, since
the lowest outdated id is always in it) uses that the naturals are well founded.
The theorems assume `StartAssumption` and nothing about `Classifies`.

**Only model-checked**: liveness (no fairness or `ENABLED` in the prover), which
includes `EveryRowIsTried` of `DeliverySchedule` and
`ConfiguredAdministratorServes`. The properties of the four runs that are expected
to fail are false of the code as it is; `GaugeIsExact` and `LoginOnce` say when
two of them hold.

## Not modelled

- Ciphers, hashes and parsing: a proof is knowledge of a challenge, a message is
  well formed or refused, an extractor is a relation. Their correctness is about
  bytes, where a test against the vendor's examples says more than a model.
- Read-only queries and pages of the administrator interface, reading and
  validating the configuration, the web interface, nginx and deployment.
- The statements of a migration, and two processes that start at once on one
  database: the gateway runs as a single container.
- The draining of requests at a shutdown; to the modelled state a stop is a
  crash, which can come anywhere.
- Rows that no operation writes, such as a picture job whose event body does not
  parse (`event_attachments.go:56`).
- In `GatewayStart`, the refusal to delete a destination with unfinished
  deliveries: the deliveries are in `EventDelivery`, which has it. Deleting at any
  time only adds behaviours to those the properties are checked on.
