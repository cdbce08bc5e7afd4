---------------------------- MODULE GatewayStart ----------------------------
(***************************************************************************)
(* How the gateway process starts (run in cmd/gateway/main.go): it brings  *)
(* the schema up to date, interprets the archived events that an older     *)
(* projection version interpreted, makes the configured administrator the  *)
(* only one, and only then serves.  Every transaction of the start commits *)
(* on its own and one 30-second context bounds them all, so a start may    *)
(* stop between any two of them; Docker starts the container again, with   *)
(* the same release or with another one.                                   *)
(***************************************************************************)
EXTENDS Integers, Sequences, FiniteSets

CONSTANTS
  Legacy,      \* the number of files of db/migrations/legacy
  Releases,    \* what can be deployed: an image and its environment, a record
               \*   forward   the number of files of db/migrations
               \*   edited    the files whose text this release changed
               \*   version   accesscontrol.SchemaVersion
               \*   name, password   ADMIN_USERNAME and ADMIN_PASSWORD
  Classifies,  \* the pairs <<e, v>>: version v's extractor classifies event e
  Tokens,      \* the session tokens that may be handed out
  MaxEvents,   \* bound: rows of device_events, numbered by id
  BatchSize,   \* rows of one projection batch (500 in the code)
  Deadline,    \* schema and projection transactions that fit in one start
  MaxDeploys,  \* bound: how often another release is deployed
  MaxCrashes   \* bound: how often the process dies

Versions == {r.version : r \in Releases}
Names == {r.name : r \in Releases}
Passwords == {r.password : r \in Releases}

Baseline == <<"baseline", 0>>
Unmanaged == <<"unmanaged", 0>>
\* The first n files of a directory, in the order of their names.
migrationFiles(directory, n) == [i \in 1 .. n |-> <<directory, i>>]
LegacyFiles == migrationFiles("legacy", Legacy)
ForwardFiles(r) == migrationFiles("forward", r.forward)
FilesOf(s) == {s[i] : i \in DOMAIN s}
Files == {Baseline} \cup FilesOf(LegacyFiles)
           \cup UNION {FilesOf(ForwardFiles(r)) : r \in Releases}

\* None: no administrator, no password.  Unrecorded: no row of that name.
None == "none"
Unrecorded == 0
Checksum(r, f) == IF f \in r.edited THEN 2 ELSE 1

ASSUME StartAssumption ==
  /\ Legacy \in Nat \ {0} /\ MaxEvents \in Nat
  /\ BatchSize \in Nat \ {0} /\ Deadline \in Nat \ {0}
  /\ MaxDeploys \in Nat /\ MaxCrashes \in Nat
  /\ \A r \in Releases :
       /\ r.forward \in Nat /\ r.version \in Nat \ {0}
       /\ r.name # None /\ r.password # None

VARIABLES
  release,      \* the deployed release
  pc,           \* where the start is; "down": no process, "serving": it listens
  file,         \* the next file of the directory being applied
  time,         \* what is left of the start's 30-second context
  registry,     \* schema_migrations: the recorded checksum of each file
  schema,       \* the files whose statements made the schema, in order
  archived,     \* the number of rows of device_events
  projection,   \* access_event_projections, per event
  admins,       \* admin_users: the password of each administrator
  sessions,     \* admin_sessions: the administrator each token belongs to
  expired,      \* the tokens with a session whose expires_at has passed
  route,        \* event_delivery_routes.updated_by
  backfills,    \* the administrators event_delivery_backfills.created_by names
  interpreted,  \* history: how often a version's interpretation was committed
  deploys, crashes

process == <<pc, file, time>>
accounts == <<admins, sessions, expired>>
references == <<route, backfills>>
events == <<archived, projection, interpreted>>
database == <<registry, schema>>
world == <<release, deploys, crashes>>
vars == <<process, database, events, accounts, references, world>>

Steps == {"down", "schema", "legacy", "forward", "projections", "terminals",
          "administrator", "sessions", "restore", "deadlines", "serving"}

NoProjection == [version |-> 0, columns |-> 0]

-----------------------------------------------------------------------------
\* The start.

Goto(step) == pc' = step /\ file' = 1
\* run returns an error and the process exits; its transaction is rolled back.
Stop == Goto("down") /\ time' = 0
Spend_Unbounded == time' = time - 1
Spend == time > 0 /\ time' = time - 1

\* run: config.Load, the 30-second context and Open.
Start ==
  /\ pc = "down"
  /\ Goto("schema") /\ time' = Deadline
  /\ UNCHANGED <<database, events, accounts, references, world>>

\* The canonical schema is what the baseline and the release's forward files
\* build; one transaction creates it and records all of them.
InstallBaseline ==
  /\ Spend /\ Goto("forward")
  /\ schema' = <<Baseline>> \o ForwardFiles(release)
  /\ registry' = [f \in Files |->
       IF f = Baseline \/ f \in FilesOf(ForwardFiles(release))
         THEN Checksum(release, f) ELSE registry[f]]

\* The rows of schema_migrations.
Recorded == {f \in Files : registry[f] # Unrecorded}

\* ensureCanonicalSchema: a recorded baseline, a recorded history, tables
\* without a history, an empty database.
ensureCanonicalSchema ==
  /\ pc = "schema"
  /\ \/ registry[Baseline] # Unrecorded /\ Goto("forward")
        /\ UNCHANGED <<time, database>>
     \/ registry[Baseline] = Unrecorded /\ Recorded # {} /\ Goto("legacy")
        /\ UNCHANGED <<time, database>>
     \/ Recorded = {} /\ schema # <<>> /\ Stop /\ UNCHANGED database
     \/ Recorded = {} /\ schema = <<>> /\ InstallBaseline
  /\ UNCHANGED <<events, accounts, references, world>>

ApplyFile_Unrecorded(f) ==
  /\ Spend
  /\ schema' = Append(schema, f)
  /\ registry' = registry

\* One file and its record, in one transaction.
ApplyFile(f) ==
  /\ Spend
  /\ schema' = Append(schema, f)
  /\ registry' = [registry EXCEPT ![f] = Checksum(release, f)]

\* applyMigrationFiles, one file at a time: a recorded file is skipped when its
\* text is the recorded one and refused otherwise.
applyMigrationFiles(files, next) ==
  \/ file > Len(files) /\ Goto(next) /\ UNCHANGED <<time, database>>
  \/ /\ file <= Len(files)
     /\ LET f == files[file] IN
        \/ /\ registry[f] = Checksum(release, f)
           /\ file' = file + 1 /\ UNCHANGED <<pc, time, database>>
        \/ /\ registry[f] \notin {Unrecorded, Checksum(release, f)}
           /\ Stop /\ UNCHANGED database
        \/ /\ registry[f] = Unrecorded
           /\ ApplyFile(f)
           /\ file' = file + 1 /\ UNCHANGED pc

Migrate ==
  /\ \/ pc = "legacy" /\ applyMigrationFiles(LegacyFiles, "forward")
     \/ pc = "forward" /\ applyMigrationFiles(ForwardFiles(release), "projections")
  /\ UNCHANGED <<events, accounts, references, world>>

insertAccessEventProjection_KeepsColumns(old, e, v) ==
  [version |-> v, columns |-> IF <<e, v>> \in Classifies THEN v ELSE old.columns]

\* insertAccessEventProjection: the columns are those of the version that
\* classifies the event; an event it does not classify has them all NULL (0).
insertAccessEventProjection(old, e, v) ==
  [version |-> v, columns |-> IF <<e, v>> \in Classifies THEN v ELSE 0]

\* The rows a batch looks for, and the batch: the lowest ids among them.
Outdated_AnyOther == {e \in 1 .. archived : projection[e].version # release.version}
Outdated == {e \in 1 .. archived : projection[e].version < release.version}
Batch == {e \in Outdated : Cardinality({d \in Outdated : d < e}) < BatchSize}
Interpret(rows) ==
  /\ projection' = [e \in 1 .. MaxEvents |->
       IF e \in rows
         THEN insertAccessEventProjection(projection[e], e, release.version)
         ELSE projection[e]]
  /\ interpreted' = [p \in (1 .. MaxEvents) \X Versions |->
       IF p[1] \in rows /\ p[2] = release.version
         THEN interpreted[p] + 1 ELSE interpreted[p]]

BackfillAccessEventProjections_OneTransaction ==
  /\ pc = "projections"
  /\ \/ Outdated = {} /\ Goto("terminals") /\ UNCHANGED <<time, events>>
     \/ /\ Outdated # {} /\ time * BatchSize >= Cardinality(Outdated)
        /\ time' = 0 /\ Interpret(Outdated) /\ UNCHANGED <<pc, file, archived>>
     \/ time * BatchSize < Cardinality(Outdated) /\ Stop /\ UNCHANGED events
  /\ UNCHANGED <<database, accounts, references, world>>

\* BackfillAccessEventProjections: batches, each committed on its own, until
\* one is empty.
BackfillAccessEventProjections ==
  /\ pc = "projections"
  /\ \/ Batch = {} /\ Goto("terminals") /\ UNCHANGED <<time, events>>
     \/ Batch # {} /\ Spend /\ Interpret(Batch) /\ UNCHANGED <<pc, file, archived>>
  /\ UNCHANGED <<database, accounts, references, world>>

\* SeedConfiguredTerminals, RestoreSessions and ExpireISAPICommandDeadlines
\* change what PushSDKSession and ISAPICommands model, and nothing here.
PassThrough ==
  /\ \/ pc = "terminals" /\ Goto("administrator")
     \/ pc = "restore" /\ Goto("deadlines")
     \/ pc = "deadlines" /\ Goto("serving")
  /\ UNCHANGED <<time, database, events, accounts, references, world>>

\* ReconcileConfiguredAdministrator.  Sessions go with their administrator;
\* a route or a backfill refuses the deletion, and with it the start.
References == ({route} \ {None}) \cup backfills
Replaced == {n \in Names : admins[n] # None} \ {release.name}
ReconcileConfiguredAdministrator ==
  /\ pc = "administrator"
  /\ \/ Replaced \cap References # {} /\ Stop /\ UNCHANGED accounts
     \/ /\ Replaced \cap References = {}
        /\ Goto("sessions") /\ UNCHANGED time
        /\ admins' = [n \in Names |->
             IF n = release.name THEN release.password ELSE None]
        /\ sessions' = [k \in Tokens |->
             IF sessions[k] \in Replaced THEN None ELSE sessions[k]]
        /\ expired' = {k \in expired : sessions[k] \notin Replaced}
  /\ UNCHANGED <<database, events, references, world>>

PurgeExpiredSessions ==
  /\ pc = "sessions"
  /\ Goto("restore")
  /\ sessions' = [k \in Tokens |-> IF k \in expired THEN None ELSE sessions[k]]
  /\ expired' = {}
  /\ UNCHANGED <<time, admins, database, events, references, world>>

\* The 30 seconds are over before the next long transaction commits.
DeadlineElapses ==
  /\ pc \notin {"down", "serving"} /\ time = 0
  /\ Stop
  /\ UNCHANGED <<database, events, accounts, references, world>>

StartStep ==
  \/ ensureCanonicalSchema \/ Migrate \/ BackfillAccessEventProjections
  \/ PassThrough \/ ReconcileConfiguredAdministrator \/ PurgeExpiredSessions
  \/ DeadlineElapses

-----------------------------------------------------------------------------
\* What a serving process does to the tables the start works on.

\* InsertDeviceEventBatch: a new row is projected in its own transaction.
ArchiveEvent ==
  /\ pc = "serving" /\ archived < MaxEvents
  /\ archived' = archived + 1
  /\ Interpret({archived + 1})
  /\ UNCHANGED <<process, database, accounts, references, world>>

\* login: VerifyAdmin, then CreateSessionWithActivity.
login(k, name, password) ==
  /\ pc = "serving" /\ sessions[k] = None
  /\ admins[name] # None /\ admins[name] = password
  /\ sessions' = [sessions EXCEPT ![k] = name]
  /\ UNCHANGED <<process, database, events, admins, expired, references, world>>

\* logout deletes the row of the token whether or not it has expired.
logout(k) ==
  /\ pc = "serving" /\ sessions[k] # None
  /\ sessions' = [sessions EXCEPT ![k] = None]
  /\ expired' = expired \ {k}
  /\ UNCHANGED <<process, database, events, admins, references, world>>

SessionExpires(k) ==
  /\ sessions[k] # None /\ k \notin expired
  /\ expired' = expired \cup {k}
  /\ UNCHANGED <<process, database, events, admins, sessions, references, world>>

\* withSession: AdminIdentityForSession joins the session to its administrator.
withSession(k) == pc = "serving" /\ sessions[k] # None /\ k \notin expired

SaveRoute(k) ==
  /\ withSession(k)
  /\ route' = sessions[k]
  /\ UNCHANGED <<process, database, events, accounts, backfills, world>>

\* DeleteDeliveryRoute refuses while deliveries are unfinished.  Those are in
\* EventDelivery; here the route may be deleted at any time.
DeleteRoute(k) ==
  /\ withSession(k) /\ route # None
  /\ route' = None
  /\ UNCHANGED <<process, database, events, accounts, backfills, world>>

QueueBackfill(k) ==
  /\ withSession(k) /\ route # None
  /\ backfills' = backfills \cup {sessions[k]}
  /\ UNCHANGED <<process, database, events, accounts, route, world>>

Serve ==
  \/ ArchiveEvent
  \/ \E k \in Tokens :
       \/ \E n \in Names, p \in Passwords : login(k, n, p)
       \/ logout(k) \/ SaveRoute(k) \/ DeleteRoute(k) \/ QueueBackfill(k)

-----------------------------------------------------------------------------
\* The process dies or is stopped; Docker runs it again (Start).
Crash ==
  /\ pc # "down" /\ crashes < MaxCrashes
  /\ crashes' = crashes + 1
  /\ Stop
  /\ UNCHANGED <<database, events, accounts, references, release, deploys>>

\* The container is replaced by one of another release, or of another
\* environment; the old process has ended before the new one starts.
Deploy(r) ==
  /\ r # release /\ deploys < MaxDeploys
  /\ release' = r /\ deploys' = deploys + 1
  /\ Stop
  /\ UNCHANGED <<database, events, accounts, references, crashes>>

\* An empty database; one that a release before the baseline left behind, in the
\* middle of its files, with its administrator and with events nobody has
\* projected; or tables of unknown origin.
Init ==
  /\ release \in Releases
  /\ pc = "down" /\ file = 1 /\ time = 0
  /\ \/ schema \in {<<>>, <<Unmanaged>>} /\ archived = 0
        /\ admins = [n \in Names |-> None]
     \/ /\ \E n \in 1 .. Legacy : schema = migrationFiles("legacy", n)
        /\ archived \in 0 .. MaxEvents
        /\ \E n \in Names, p \in Passwords :
             admins = [m \in Names |-> IF m = n THEN p ELSE None]
  /\ registry = [f \in Files |->
       IF f \in FilesOf(schema) THEN 1 ELSE Unrecorded]
  /\ projection = [e \in 1 .. MaxEvents |-> NoProjection]
  /\ interpreted = [p \in (1 .. MaxEvents) \X Versions |-> 0]
  /\ sessions = [k \in Tokens |-> None] /\ expired = {}
  /\ route = None /\ backfills = {}
  /\ deploys = 0 /\ crashes = 0

Next ==
  \/ Start \/ StartStep \/ Serve \/ Crash
  \/ \E k \in Tokens : SessionExpires(k)
  \/ \E r \in Releases : Deploy(r)

Spec == Init /\ [][Next]_vars

\* Docker restarts the container, and a start runs until it ends.
FairSpec == Spec /\ WF_vars(Start) /\ WF_vars(StartStep)

-----------------------------------------------------------------------------
TypeOK ==
  /\ release \in Releases /\ pc \in Steps /\ file \in Nat \ {0}
  /\ time \in 0 .. Deadline
  /\ registry \in [Files -> {Unrecorded, 1, 2}]
  /\ schema \in Seq(Files \cup {Unmanaged})
  /\ archived \in 0 .. MaxEvents
  /\ projection \in [1 .. MaxEvents ->
       [version : Versions \cup {0}, columns : Versions \cup {0}]]
  /\ interpreted \in [(1 .. MaxEvents) \X Versions -> Nat]
  /\ admins \in [Names -> Passwords \cup {None}]
  /\ sessions \in [Tokens -> Names \cup {None}]
  /\ expired \in SUBSET Tokens
  /\ route \in Names \cup {None} /\ backfills \in SUBSET Names
  /\ deploys \in 0 .. MaxDeploys /\ crashes \in 0 .. MaxCrashes

\* Migrate: whatever releases were deployed and wherever a start stopped, the
\* schema is the baseline or the legacy files, then forward files, each of them
\* once and in order, and the registry names exactly the files that made it.
SchemaIsOneHistory ==
  /\ \/ \E n \in 0 .. Legacy : schema = migrationFiles("legacy", n)
     \/ \E n \in 0 .. Len(schema) :
          \/ schema = <<Baseline>> \o migrationFiles("forward", n)
          \/ schema = LegacyFiles \o migrationFiles("forward", n)
     \/ schema = <<Unmanaged>>
  /\ Recorded = FilesOf(schema) \ {Unmanaged}

\* BackfillAccessEventProjections: "Every row is interpreted at most once per
\* explicit schema version", over restarts, upgrades and downgrades.
InterpretedOnce == \A p \in DOMAIN interpreted : interpreted[p] <= 1

\* The forward files of the release are in the schema, on a complete base, each
\* with the text the release was built with.
SchemaIsCurrent ==
  /\ Baseline \in FilesOf(schema) \/ FilesOf(LegacyFiles) \subseteq FilesOf(schema)
  /\ \A f \in FilesOf(ForwardFiles(release)) :
       f \in FilesOf(schema) /\ registry[f] = Checksum(release, f)

\* No projection is older than the release's version, and each is what one
\* version's extractor says: no column of an earlier interpretation stays.
ProjectionsAreCurrent ==
  \A e \in 1 .. archived : LET p == projection[e] IN
    /\ p.version >= release.version
    /\ p.columns = IF <<e, p.version>> \in Classifies THEN p.version ELSE 0

\* The configured administrator is the only one, and every session is theirs.
AdministratorIsConfigured ==
  /\ \A n \in Names : admins[n] = IF n = release.name THEN release.password ELSE None
  /\ \A k \in Tokens : sessions[k] \in {None, release.name}

\* run: a process that serves finds what its start prepared, and keeps finding
\* it, whichever releases ran before and wherever their starts stopped.
ServesPrepared ==
  pc = "serving" =>
    SchemaIsCurrent /\ ProjectionsAreCurrent /\ AdministratorIsConfigured

\* What the code refuses to start on: tables without a history, a file whose
\* text changed, a replaced administrator that a route or a backfill names.
Refused ==
  \/ schema = <<Unmanaged>>
  \/ \E f \in FilesOf(LegacyFiles) \cup FilesOf(ForwardFiles(release)) :
       registry[f] \notin {Unrecorded, Checksum(release, f)}
  \/ Replaced \cap References # {}

\* run: the gateway comes to serve unless it refuses to, however much longer
\* than 30 seconds the work of the start takes: every restart goes on from the
\* transactions that the earlier ones committed.
StartsServe == pc # "serving" ~> (pc = "serving" \/ Refused)

\* ReconcileConfiguredAdministrator "maintains the one administrator account
\* configured by ADMIN_USERNAME and ADMIN_PASSWORD": whichever name is deployed,
\* a gateway whose tables have a history comes to serve with that administrator.
ConfiguredAdministratorServes ==
  (pc # "serving" /\ schema # <<Unmanaged>>) ~> pc = "serving"
=============================================================================
