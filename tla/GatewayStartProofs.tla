------------------------- MODULE GatewayStartProofs -------------------------
(***************************************************************************)
(* What the start of the gateway establishes, for every set of releases,   *)
(* every number of files, events and tokens and every batch size.          *)
(***************************************************************************)
EXTENDS GatewayStart, FiniteSetTheorems, WellFoundedInduction, TLAPS

-----------------------------------------------------------------------------
(* The inductive invariant, one part per group of tables.                  *)

AfterSchema == {"projections", "terminals", "administrator", "sessions",
                "restore", "deadlines", "serving"}
AfterProjections == AfterSchema \ {"projections"}
AfterAdministrator == {"sessions", "restore", "deadlines", "serving"}

\* The schema has a complete base, for forward files to be applied to.
Based == Baseline \in FilesOf(schema) \/ FilesOf(LegacyFiles) \subseteq FilesOf(schema)

\* Migrate applies the files of a directory in order: those before the next one
\* are recorded.
SchemaInv ==
  /\ SchemaIsOneHistory
  /\ pc = "legacy" =>
       /\ registry[Baseline] = Unrecorded /\ Recorded # {}
       /\ \A i \in 1 .. Legacy : i < file => registry[<<"legacy", i>>] # Unrecorded
  /\ pc = "forward" =>
       /\ Based
       /\ \A i \in 1 .. release.forward : i < file =>
            registry[<<"forward", i>>] = Checksum(release, <<"forward", i>>)
  /\ pc \in AfterSchema => SchemaIsCurrent

\* A committed interpretation is never followed by one of a lower version.
EventInv ==
  /\ \A e \in 1 .. MaxEvents : \A v \in Versions :
       /\ interpreted[<<e, v>>] <= 1
       /\ interpreted[<<e, v>>] > 0 => e <= archived /\ projection[e].version >= v
  /\ \A e \in 1 .. MaxEvents :
       projection[e].columns =
         IF <<e, projection[e].version>> \in Classifies
           THEN projection[e].version ELSE 0
  /\ pc \in AfterProjections =>
       \A e \in 1 .. archived : projection[e].version >= release.version

\* Sessions belong to administrators (the foreign key of admin_sessions).
AccountInv ==
  /\ \A k \in Tokens : sessions[k] = None \/ admins[sessions[k]] # None
  /\ pc \in AfterAdministrator => AdministratorIsConfigured

-----------------------------------------------------------------------------
(* Sequences of files.                                                     *)

\* Which files a directory has.
LEMMA FilesOfDirectory ==
  ASSUME NEW d, NEW n \in Nat
  PROVE  /\ migrationFiles(d, n) \in Seq({<<d, i>> : i \in 1 .. n})
         /\ Len(migrationFiles(d, n)) = n
         /\ FilesOf(migrationFiles(d, n)) = {<<d, i>> : i \in 1 .. n}
  BY DEF migrationFiles, FilesOf

\* Which files a schema has after one more, and after two groups of them.
LEMMA FilesOfAppend ==
  ASSUME NEW S, NEW s \in Seq(S), NEW f
  PROVE  FilesOf(Append(s, f)) = FilesOf(s) \cup {f}
<1>1. DOMAIN Append(s, f) = 1 .. Len(s) + 1 /\ Append(s, f)[Len(s) + 1] = f
  OBVIOUS
<1>2. \A i \in 1 .. Len(s) : Append(s, f)[i] = s[i]
  OBVIOUS
<1> QED BY <1>1, <1>2 DEF FilesOf

\* The files of a concatenation are those of its parts.
LEMMA FilesOfConcat ==
  ASSUME NEW S, NEW s \in Seq(S), NEW t \in Seq(S)
  PROVE  FilesOf(s \o t) = FilesOf(s) \cup FilesOf(t)
<1> DEFINE u == s \o t
<1>1. DOMAIN u = 1 .. Len(s) + Len(t)
  OBVIOUS
<1>2. \A i \in 1 .. Len(s) : u[i] = s[i]
  OBVIOUS
<1>3. \A i \in 1 .. Len(t) : u[Len(s) + i] = t[i]
  OBVIOUS
<1>4. \A i \in 1 .. Len(s) + Len(t) :
        i \in 1 .. Len(s) \/ \E j \in 1 .. Len(t) : i = Len(s) + j
  <2> TAKE i \in 1 .. Len(s) + Len(t)
  <2>1. i \notin 1 .. Len(s) => i - Len(s) \in 1 .. Len(t) /\ i = Len(s) + (i - Len(s))
    OBVIOUS
  <2> QED BY <2>1, Zenon
<1>5. FilesOf(u) \subseteq FilesOf(s) \cup FilesOf(t)
  BY <1>1, <1>2, <1>3, <1>4 DEF FilesOf
<1>6. FilesOf(s) \subseteq FilesOf(u)
  BY <1>1, <1>2 DEF FilesOf
<1>7. FilesOf(t) \subseteq FilesOf(u)
  <2>1. \A i \in 1 .. Len(t) : Len(s) + i \in DOMAIN u /\ u[Len(s) + i] = t[i]
    BY <1>1, <1>3
  <2>2. \A i \in 1 .. Len(t) : t[i] \in FilesOf(u)
    BY <2>1, Zenon DEF FilesOf
  <2>3. DOMAIN t = 1 .. Len(t)
    OBVIOUS
  <2> HIDE DEF u
  <2> QED BY <2>2, <2>3, Zenon DEF FilesOf
<1> QED BY <1>5, <1>6, <1>7, Zenon

\* Applying the next file of a directory.
LEMMA NextFile ==
  ASSUME NEW d, NEW n \in Nat
  PROVE  Append(migrationFiles(d, n), <<d, n + 1>>) = migrationFiles(d, n + 1)
  BY DEF migrationFiles

\* The same on a base that other files made.
LEMMA NextFileOnBase ==
  ASSUME NEW S, NEW b \in Seq(S), NEW d, NEW n \in Nat
  PROVE  Append(b \o migrationFiles(d, n), <<d, n + 1>>) = b \o migrationFiles(d, n + 1)
<1> DEFINE T == S \cup {<<d, i>> : i \in 1 .. n + 1}
           m == migrationFiles(d, n)
           f == <<d, n + 1>>
<1>1. b \in Seq(T) /\ m \in Seq(T) /\ f \in T
  BY DEF migrationFiles
<1> HIDE DEF T, m, f
<1>2. Append(b \o m, f) = b \o Append(m, f)
  BY <1>1
<1> QED BY <1>2, NextFile, Zenon DEF m, f

\* A base with no forward file is the base.
LEMMA NoFileOnBase ==
  ASSUME NEW S, NEW b \in Seq(S), NEW d
  PROVE  b \o migrationFiles(d, 0) = b
  BY DEF migrationFiles

\* A batch is empty only when nothing is left to interpret: it holds the row
\* with the lowest id (BackfillAccessEventProjections stops on an empty batch).
LEMMA EmptyBatch ==
  ASSUME TypeOK, Batch = {}
  PROVE  Outdated = {}
<1> SUFFICES ASSUME Outdated # {} PROVE FALSE
  BY Zenon
<1> DEFINE R == OpToRel(<, Nat)
<1>1. IsWellFoundedOn(R, Nat)
  BY NatLessThanWellFounded, Zenon
<1>2. Outdated \subseteq Nat
  BY DEF TypeOK, Outdated
<1>3. PICK e \in Outdated : \A d \in Outdated : <<d, e>> \notin R
  BY <1>1, <1>2, WFMin, Zenon
<1>4. {d \in Outdated : d < e} = {}
  BY <1>2, <1>3, Zenon DEF OpToRel
<1>5. Cardinality({d \in Outdated : d < e}) < BatchSize
  BY <1>4, FS_EmptySet, StartAssumption
<1> QED BY <1>5, Zenon DEF Batch

\* What the projection of a set of rows leaves behind (Interpret).
LEMMA InterpretType ==
  ASSUME TypeOK, NEW rows, Interpret(rows)
  PROVE  /\ projection' \in [1 .. MaxEvents ->
              [version : Versions \cup {0}, columns : Versions \cup {0}]]
         /\ interpreted' \in [(1 .. MaxEvents) \X Versions -> Nat]
<1>1. release.version \in Versions
  BY Zenon DEF TypeOK, Versions
<1>2. \A e \in 1 .. MaxEvents :
        insertAccessEventProjection(projection[e], e, release.version)
          \in [version : Versions \cup {0}, columns : Versions \cup {0}]
  BY <1>1, Zenon DEF insertAccessEventProjection
<1>3. projection' \in [1 .. MaxEvents ->
              [version : Versions \cup {0}, columns : Versions \cup {0}]]
  BY <1>2, Zenon DEF TypeOK, Interpret
<1>4. \A p \in (1 .. MaxEvents) \X Versions :
        interpreted[p] \in Nat /\ interpreted[p] + 1 \in Nat
  BY DEF TypeOK
<1>5. interpreted' \in [(1 .. MaxEvents) \X Versions -> Nat]
  BY <1>4, Zenon DEF Interpret
<1> QED BY <1>3, <1>5, Zenon

-----------------------------------------------------------------------------
(* Types.                                                                  *)

\* Files of the deployed release are files.
LEMMA KnownFiles ==
  ASSUME TypeOK
  PROVE  /\ Baseline \in Files
         /\ \A i \in 1 .. Legacy : <<"legacy", i>> \in Files
         /\ \A i \in 1 .. release.forward : <<"forward", i>> \in Files
         /\ release.forward \in Nat
         /\ FilesOf(LegacyFiles) = {<<"legacy", i>> : i \in 1 .. Legacy}
         /\ FilesOf(ForwardFiles(release))
              = {<<"forward", i>> : i \in 1 .. release.forward}
<1>1. release \in Releases /\ release.forward \in Nat /\ Legacy \in Nat
  BY StartAssumption, Zenon DEF TypeOK
<1>2. FilesOf(LegacyFiles) = {<<"legacy", i>> : i \in 1 .. Legacy}
  BY <1>1, FilesOfDirectory, Zenon DEF LegacyFiles
<1>3. FilesOf(ForwardFiles(release)) = {<<"forward", i>> : i \in 1 .. release.forward}
  BY <1>1, FilesOfDirectory, Zenon DEF ForwardFiles
<1>4. FilesOf(ForwardFiles(release)) \subseteq Files
  BY <1>1, Zenon DEF Files
<1> QED BY <1>1, <1>2, <1>3, <1>4, Zenon DEF Files

\* Applying a migration file keeps the types.
LEMMA ApplyFileType ==
  ASSUME TypeOK, NEW f \in Files, ApplyFile(f)
  PROVE  /\ time' \in 0 .. Deadline
         /\ registry' \in [Files -> {Unrecorded, 1, 2}]
         /\ schema' \in Seq(Files \cup {Unmanaged})
<1>1. Checksum(release, f) \in {1, 2}
  BY Zenon DEF Checksum
<1> QED BY <1>1, StartAssumption DEF TypeOK, ApplyFile, Spend

\* The type invariant is inductive.
LEMMA TypeStep ==
  ASSUME TypeOK, [Next]_vars
  PROVE  TypeOK'
<1> USE StartAssumption
<1>1. CASE Start
  BY <1>1 DEF TypeOK, Start, Goto, Steps, process, accounts, references, events,
              database, world
<1>2. CASE ensureCanonicalSchema
  <2>1. CASE InstallBaseline
    <3>1. \A f \in Files : Checksum(release, f) \in {1, 2}
      BY Zenon DEF Checksum
    <3>2. registry' \in [Files -> {Unrecorded, 1, 2}]
      BY <2>1, <3>1, Zenon DEF InstallBaseline, TypeOK
    <3>3. ForwardFiles(release) \in Seq(Files \cup {Unmanaged})
      BY KnownFiles DEF ForwardFiles, migrationFiles
    <3>4. schema' \in Seq(Files \cup {Unmanaged})
      BY <2>1, <3>3, KnownFiles DEF InstallBaseline
    <3> QED BY <1>2, <2>1, <3>2, <3>4
            DEF ensureCanonicalSchema, InstallBaseline, TypeOK, Goto, Spend, Steps,
                accounts, references, events, world
  <2>2. CASE ~InstallBaseline
    BY <1>2, <2>2 DEF ensureCanonicalSchema, TypeOK, Goto, Stop, Steps,
                      accounts, references, events, database, world
  <2> QED BY <2>1, <2>2, Zenon
<1>3. CASE Migrate
  <2> SUFFICES ASSUME NEW d \in {"legacy", "forward"}, NEW n \in Nat,
                      NEW next \in {"forward", "projections"},
                      \A i \in 1 .. n : <<d, i>> \in Files,
                      applyMigrationFiles(migrationFiles(d, n), next)
               PROVE  TypeOK'
    BY <1>3, KnownFiles, Zenon DEF Migrate, LegacyFiles, ForwardFiles
  <2>1. UNCHANGED <<events, accounts, references, world>>
    BY <1>3, Zenon DEF Migrate
  <2>2. Len(migrationFiles(d, n)) = n
        /\ \A i \in 1 .. n : migrationFiles(d, n)[i] = <<d, i>>
    BY DEF migrationFiles
  <2>3. file \in Nat \ {0}
    BY Zenon DEF TypeOK
  <2>4. CASE /\ file <= n
             /\ ApplyFile(<<d, file>>) /\ file' = file + 1 /\ UNCHANGED pc
    <3>1. <<d, file>> \in Files
      BY <2>3, <2>4
    <3>2. file + 1 \in Nat \ {0}
      BY <2>3
    <3> QED BY <2>1, <2>4, <3>1, <3>2, ApplyFileType, Zenon
            DEF TypeOK, accounts, references, events, world
  <2>5. CASE /\ UNCHANGED database
             /\ \/ Goto(next) /\ UNCHANGED time
                \/ file' = file + 1 /\ UNCHANGED <<pc, time>>
                \/ Stop
    <3>1. 1 \in Nat \ {0} /\ file + 1 \in Nat \ {0} /\ 0 \in 0 .. Deadline
      BY <2>3
    <3>2. file' \in Nat \ {0} /\ time' \in 0 .. Deadline
      BY <2>5, <3>1, Zenon DEF TypeOK, Goto, Stop
    <3>3. pc' \in Steps
      BY <2>5, Zenon DEF TypeOK, Goto, Stop, Steps
    <3> QED BY <2>1, <2>5, <3>2, <3>3, Zenon
            DEF TypeOK, accounts, references, events, database, world
  <2>6. file > n \/ (file <= n /\ migrationFiles(d, n)[file] = <<d, file>>)
    BY <2>2, <2>3
  <2> QED BY <2>2, <2>3, <2>4, <2>5, <2>6 DEF applyMigrationFiles
<1>4. CASE BackfillAccessEventProjections
  <2>1. CASE Interpret(Batch) /\ Spend /\ UNCHANGED <<pc, file, archived>>
    <3>1. time' \in 0 .. Deadline
      BY <2>1 DEF TypeOK, Spend
    <3> QED BY <1>4, <2>1, <3>1, InterpretType, Zenon
            DEF BackfillAccessEventProjections, TypeOK, accounts, references, database,
                world
  <2>2. CASE Goto("terminals") /\ UNCHANGED <<time, events>>
    BY <1>4, <2>2 DEF BackfillAccessEventProjections, TypeOK, Goto, Steps, accounts,
                      references, events, database, world
  <2> QED BY <1>4, <2>1, <2>2, Zenon DEF BackfillAccessEventProjections
<1>5. CASE PassThrough
  BY <1>5 DEF PassThrough, TypeOK, Goto, Steps, accounts, references, events,
              database, world
<1>6. CASE ReconcileConfiguredAdministrator
  <2>1. release.name \in Names /\ release.password \in Passwords
    BY Zenon DEF TypeOK, Names, Passwords
  <2> QED BY <1>6, <2>1 DEF ReconcileConfiguredAdministrator, TypeOK, Goto, Stop,
          Steps, accounts, references, events, database, world
<1>7. CASE PurgeExpiredSessions
  BY <1>7 DEF PurgeExpiredSessions, TypeOK, Goto, Steps, references, events,
              database, world
<1>8. CASE DeadlineElapses
  BY <1>8 DEF DeadlineElapses, TypeOK, Goto, Stop, Steps, accounts, references,
              events, database, world
<1>9. CASE ArchiveEvent
  BY <1>9, InterpretType DEF ArchiveEvent, TypeOK, process, accounts, references,
                             database, world
<1>10. CASE \E k \in Tokens :
              \/ \E n \in Names, p \in Passwords : login(k, n, p)
              \/ logout(k) \/ SessionExpires(k)
  <2>1. sessions' \in [Tokens -> Names \cup {None}] /\ expired' \in SUBSET Tokens
    <3>1. CASE \E k \in Tokens, n \in Names, p \in Passwords : login(k, n, p)
      BY <3>1 DEF login, TypeOK
    <3>2. CASE \E k \in Tokens : logout(k)
      BY <3>2, Zenon DEF logout, TypeOK
    <3>3. CASE \E k \in Tokens : SessionExpires(k)
      BY <3>3, Zenon DEF SessionExpires, TypeOK
    <3> QED BY <1>10, <3>1, <3>2, <3>3, Zenon
  <2>2. UNCHANGED <<process, database, events, admins, references, world>>
    BY <1>10, Zenon DEF login, logout, SessionExpires
  <2> QED BY <2>1, <2>2, Zenon DEF TypeOK, process, references, events, database, world
<1>11. CASE \E k \in Tokens : SaveRoute(k) \/ DeleteRoute(k) \/ QueueBackfill(k)
  <2>1. PICK k \in Tokens : SaveRoute(k) \/ DeleteRoute(k) \/ QueueBackfill(k)
    BY <1>11, Zenon
  <2>2. sessions[k] \in Names \/ ~withSession(k)
    BY Zenon DEF TypeOK, withSession
  <2>3. route' \in Names \cup {None} /\ backfills' \in SUBSET Names
    BY <2>1, <2>2, Zenon DEF SaveRoute, DeleteRoute, QueueBackfill, TypeOK
  <2>4. UNCHANGED <<process, database, events, accounts, world>>
    BY <2>1, Zenon DEF SaveRoute, DeleteRoute, QueueBackfill
  <2> QED BY <2>3, <2>4, Zenon DEF TypeOK, process, accounts, events, database, world
<1>12. CASE Crash
  BY <1>12 DEF Crash, TypeOK, Goto, Stop, Steps, accounts, references, events, database
<1>13. CASE \E r \in Releases : Deploy(r)
  BY <1>13 DEF Deploy, TypeOK, Goto, Stop, Steps, accounts, references, events, database
<1>14. CASE UNCHANGED vars
  BY <1>14, Zenon DEF TypeOK, vars, process, accounts, references, events, database, world
<1> QED BY <1>1, <1>2, <1>3, <1>4, <1>5, <1>6, <1>7, <1>8, <1>9, <1>10, <1>11, <1>12,
           <1>13, <1>14, Zenon DEF Next, StartStep, Serve

-----------------------------------------------------------------------------
(* The schema.                                                             *)

\* The files that make each form a schema can have.
LEMMA FilesOfForms ==
  ASSUME NEW n \in Nat
  PROVE  /\ FilesOf(migrationFiles("legacy", n)) = {<<"legacy", i>> : i \in 1 .. n}
         /\ FilesOf(<<Baseline>> \o migrationFiles("forward", n))
              = {Baseline} \cup {<<"forward", i>> : i \in 1 .. n}
         /\ FilesOf(LegacyFiles \o migrationFiles("forward", n))
              = {<<"legacy", i>> : i \in 1 .. Legacy} \cup {<<"forward", i>> : i \in 1 .. n}
         /\ Len(<<Baseline>> \o migrationFiles("forward", n)) = n + 1
         /\ Len(LegacyFiles \o migrationFiles("forward", n)) = Legacy + n
         /\ FilesOf(<<Unmanaged>>) = {Unmanaged}
<1> DEFINE T == {Baseline} \cup {<<"legacy", i>> : i \in 1 .. Legacy}
                  \cup {<<"forward", i>> : i \in 1 .. n}
           m == migrationFiles("forward", n)
           b == <<Baseline>>
<1>1. Legacy \in Nat
  BY StartAssumption, Zenon
<1>2. LegacyFiles \in Seq(T) /\ Len(LegacyFiles) = Legacy
      /\ FilesOf(LegacyFiles) = {<<"legacy", i>> : i \in 1 .. Legacy}
  <2>1. LegacyFiles \in Seq(T)
    BY <1>1 DEF LegacyFiles, migrationFiles
  <2> QED BY <1>1, <2>1, FilesOfDirectory, Zenon DEF LegacyFiles
<1>3. m \in Seq(T) /\ Len(m) = n /\ FilesOf(m) = {<<"forward", i>> : i \in 1 .. n}
  <2>1. m \in Seq(T)
    BY DEF migrationFiles
  <2> QED BY <2>1, FilesOfDirectory, Zenon
<1>4. b \in Seq(T) /\ Len(b) = 1 /\ FilesOf(b) = {Baseline}
  BY DEF FilesOf
<1>5. FilesOf(migrationFiles("legacy", n)) = {<<"legacy", i>> : i \in 1 .. n}
  BY FilesOfDirectory, Zenon
<1>6. FilesOf(<<Unmanaged>>) = {Unmanaged}
  BY DEF FilesOf
<1> HIDE DEF T, m, b
<1>7. FilesOf(b \o m) = {Baseline} \cup {<<"forward", i>> : i \in 1 .. n}
  BY <1>3, <1>4, FilesOfConcat
<1>8. FilesOf(LegacyFiles \o m)
        = {<<"legacy", i>> : i \in 1 .. Legacy} \cup {<<"forward", i>> : i \in 1 .. n}
  BY <1>2, <1>3, FilesOfConcat
<1>9. Len(b \o m) = n + 1 /\ Len(LegacyFiles \o m) = Legacy + n
  <2>1. b \in Seq(T) /\ m \in Seq(T) /\ LegacyFiles \in Seq(T)
    BY <1>2, <1>3, <1>4, Zenon
  <2>2. /\ Len(b \o m) = Len(b) + Len(m)
        /\ Len(LegacyFiles \o m) = Len(LegacyFiles) + Len(m)
    BY <2>1
  <2> QED BY <1>1, <1>2, <1>3, <1>4, <2>2
<1> QED BY <1>5, <1>6, <1>7, <1>8, <1>9, Zenon DEF m, b

\* The names of files of different kinds differ.
LEMMA DistinctFiles ==
  \A i, j \in Int :
    /\ <<"legacy", i>> # <<"forward", j>> /\ <<"legacy", i>> # Baseline
    /\ <<"forward", i>> # Baseline /\ Unmanaged # Baseline
    /\ <<"legacy", i>> # Unmanaged /\ <<"forward", i>> # Unmanaged
    /\ <<"legacy", i>> = <<"legacy", j>> => i = j
    /\ <<"forward", i>> = <<"forward", j>> => i = j
  BY Zenon DEF Baseline, Unmanaged

\* On a complete base the schema is that base and the forward files so far.
LEMMA BasedForm ==
  ASSUME TypeOK, SchemaIsOneHistory, Based
  PROVE  \E n \in Nat : \/ schema = <<Baseline>> \o migrationFiles("forward", n)
                        \/ schema = LegacyFiles \o migrationFiles("forward", n)
<1>1. Legacy \in Nat \ {0} /\ Len(schema) \in Nat
  BY StartAssumption DEF TypeOK
<1>2. FilesOf(LegacyFiles) = {<<"legacy", i>> : i \in 1 .. Legacy}
  BY KnownFiles, Zenon
<1>3. <<"legacy", Legacy>> \in FilesOf(LegacyFiles)
  BY <1>1, <1>2
<1>4. CASE \E n \in 0 .. Legacy : schema = migrationFiles("legacy", n)
  <2>1. PICK n \in 0 .. Legacy : schema = migrationFiles("legacy", n)
    BY <1>4, Zenon
  <2>2. FilesOf(schema) = {<<"legacy", i>> : i \in 1 .. n}
    <3>1. n \in Nat
      BY <1>1
    <3> QED BY <2>1, <3>1, FilesOfDirectory, Zenon
  <2>3. Baseline \notin FilesOf(schema)
    BY <2>2, DistinctFiles
  <2>4. <<"legacy", Legacy>> \in FilesOf(schema)
    BY <2>3, <1>3, Zenon DEF Based
  <2>5. n = Legacy
    BY <2>2, <2>4, <1>1, DistinctFiles
  <2>6. LegacyFiles \in Seq(FilesOf(LegacyFiles))
    BY <1>1, <1>2, FilesOfDirectory, Zenon DEF LegacyFiles
  <2>7. schema = LegacyFiles \o migrationFiles("forward", 0)
    BY <2>1, <2>5, <2>6, NoFileOnBase, Zenon DEF LegacyFiles
  <2> QED BY <2>7, Zenon
<1>5. CASE schema = <<Unmanaged>>
  <2>1. FilesOf(schema) = {Unmanaged}
    BY <1>5, FilesOfForms, Zenon
  <2> QED BY <2>1, <1>3, <1>1, DistinctFiles DEF Based
<1>6. CASE \E n \in 0 .. Len(schema) :
             \/ schema = <<Baseline>> \o migrationFiles("forward", n)
             \/ schema = LegacyFiles \o migrationFiles("forward", n)
  <2>1. 0 .. Len(schema) \subseteq Nat
    BY <1>1
  <2> QED BY <1>6, <2>1, Zenon
<1> QED BY <1>4, <1>5, <1>6, Zenon DEF SchemaIsOneHistory

\* A recorded file is one that made the schema, and the other way round.
LEMMA RecordedFiles ==
  ASSUME TypeOK, SchemaIsOneHistory, NEW f \in Files, f # Unmanaged
  PROVE  registry[f] # Unrecorded <=> f \in FilesOf(schema)
  BY Zenon DEF SchemaIsOneHistory, Recorded

\* Steps that leave the schema alone, and stop or go on after it was migrated.
LEMMA SchemaFrame ==
  ASSUME SchemaInv, UNCHANGED database,
         \/ pc' \in {"down", "schema"}
         \/ UNCHANGED <<release, pc, file>>
         \/ UNCHANGED release /\ pc \in AfterSchema /\ pc' \in AfterSchema
  PROVE  SchemaInv'
<1>1. SchemaIsOneHistory'
  BY Zenon DEF SchemaInv, SchemaIsOneHistory, Recorded, database
<1>2. CASE pc' \in {"down", "schema"}
  BY <1>1, <1>2, Zenon DEF SchemaInv, AfterSchema
<1>3. CASE UNCHANGED <<release, pc, file>>
  BY <1>1, <1>3, Zenon DEF SchemaInv, SchemaIsCurrent, Recorded, Based, database
<1>4. CASE UNCHANGED release /\ pc \in AfterSchema /\ pc' \in AfterSchema
  BY <1>1, <1>4, Zenon DEF SchemaInv, SchemaIsCurrent, AfterSchema, database
<1> QED BY <1>2, <1>3, <1>4, Zenon

\* ApplyFile adds one record for the one file that it adds to the schema.
LEMMA AppliedFile ==
  ASSUME TypeOK, SchemaIsOneHistory, NEW f \in Files, f # Unmanaged, ApplyFile(f)
  PROVE  /\ FilesOf(schema') = FilesOf(schema) \cup {f}
         /\ Recorded' = FilesOf(schema') \ {Unmanaged}
         /\ registry'[f] = Checksum(release, f) /\ registry'[f] # Unrecorded
         /\ \A g \in Files \ {f} : registry'[g] = registry[g]
<1>1. FilesOf(schema') = FilesOf(schema) \cup {f}
  BY FilesOfAppend, Zenon DEF TypeOK, ApplyFile
<1>2. registry'[f] = Checksum(release, f) /\ Checksum(release, f) # Unrecorded
  BY DEF TypeOK, ApplyFile, Checksum, Unrecorded
<1>3. \A g \in Files \ {f} : registry'[g] = registry[g]
  BY Zenon DEF TypeOK, ApplyFile
<1>4. Recorded' = Recorded \cup {f}
  BY <1>2, <1>3, Zenon DEF Recorded
<1> QED BY <1>1, <1>2, <1>3, <1>4, Zenon DEF SchemaIsOneHistory

\* Applying the next legacy file: the schema so far is the files before it.
LEMMA LegacyFileApplied ==
  ASSUME TypeOK, SchemaInv, pc = "legacy", file <= Legacy,
         registry[<<"legacy", file>>] = Unrecorded, ApplyFile(<<"legacy", file>>)
  PROVE  SchemaIsOneHistory'
<1> DEFINE f == <<"legacy", file>>
<1>1. Legacy \in Nat \ {0} /\ file \in 1 .. Legacy
  BY StartAssumption DEF TypeOK
<1>2. f \in Files /\ f # Unmanaged /\ f # Baseline
  BY <1>1, KnownFiles, DistinctFiles
<1>3. SchemaIsOneHistory /\ f \notin FilesOf(schema)
  BY <1>2, RecordedFiles, Zenon DEF SchemaInv
<1>4. Baseline \notin FilesOf(schema)
  BY <1>3, KnownFiles, RecordedFiles, DistinctFiles DEF SchemaInv
<1>5. schema # <<Unmanaged>>
  BY <1>3, FilesOfForms, Zenon DEF SchemaInv, SchemaIsOneHistory
<1>6. ASSUME NEW n \in Nat
      PROVE  /\ schema # <<Baseline>> \o migrationFiles("forward", n)
             /\ schema # LegacyFiles \o migrationFiles("forward", n)
  <2>1. Baseline \in FilesOf(<<Baseline>> \o migrationFiles("forward", n))
    BY FilesOfForms, Zenon
  <2>2. FilesOf(LegacyFiles \o migrationFiles("forward", n))
          = {<<"legacy", i>> : i \in 1 .. Legacy} \cup {<<"forward", i>> : i \in 1 .. n}
    BY FilesOfForms, Zenon
  <2>3. f \in FilesOf(LegacyFiles \o migrationFiles("forward", n))
    BY <1>1, <2>2, Zenon
  <2> QED BY <1>3, <1>4, <2>1, <2>3, Zenon
<1>7. PICK n \in 0 .. Legacy : schema = migrationFiles("legacy", n)
  <2>1. 0 .. Len(schema) \subseteq Nat
    BY DEF TypeOK
  <2> QED BY <1>3, <1>5, <1>6, <2>1, Zenon DEF SchemaIsOneHistory
<1>8. n \in Nat /\ FilesOf(schema) = {<<"legacy", i>> : i \in 1 .. n}
  <2>1. n \in Nat
    BY <1>1
  <2> QED BY <1>7, <2>1, FilesOfDirectory, Zenon
<1>9. file > n
  BY <1>1, <1>3, <1>8
<1>10. file <= n + 1
  <2> SUFFICES ASSUME file > n + 1 PROVE FALSE
    BY <1>1, <1>8
  <2>1. n + 1 \in 1 .. Legacy /\ n + 1 < file
    BY <1>1, <1>8
  <2>2. registry[<<"legacy", n + 1>>] # Unrecorded
    BY <2>1, Zenon DEF SchemaInv
  <2>3. <<"legacy", n + 1>> \in FilesOf(schema)
    BY <1>3, <2>1, <2>2, KnownFiles, RecordedFiles, DistinctFiles
  <2> QED BY <1>8, <2>3, DistinctFiles
<1>11. file = n + 1
  BY <1>1, <1>8, <1>9, <1>10
<1>12. schema' = migrationFiles("legacy", n + 1)
  BY <1>7, <1>8, <1>11, NextFile, Zenon DEF ApplyFile
<1>13. n + 1 \in 0 .. Legacy
  BY <1>1, <1>8, <1>11
<1>14. Recorded' = FilesOf(schema') \ {Unmanaged}
  BY <1>2, <1>3, AppliedFile, Zenon
<1> QED BY <1>12, <1>13, <1>14, Zenon DEF SchemaIsOneHistory

\* Applying the next forward file, on either base.
LEMMA ForwardFileApplied ==
  ASSUME TypeOK, SchemaInv, pc = "forward", file <= release.forward,
         registry[<<"forward", file>>] = Unrecorded, ApplyFile(<<"forward", file>>)
  PROVE  SchemaIsOneHistory'
<1> DEFINE f == <<"forward", file>>
<1>1. release.forward \in Nat /\ file \in 1 .. release.forward /\ Legacy \in Nat
  BY KnownFiles, StartAssumption DEF TypeOK
<1>2. f \in Files /\ f # Unmanaged
  BY <1>1, KnownFiles, DistinctFiles
<1>3. SchemaIsOneHistory /\ f \notin FilesOf(schema)
  BY <1>2, RecordedFiles, Zenon DEF SchemaInv
<1>4. PICK n \in Nat : \/ schema = <<Baseline>> \o migrationFiles("forward", n)
                       \/ schema = LegacyFiles \o migrationFiles("forward", n)
  BY <1>3, BasedForm, Zenon DEF SchemaInv
<1>5. \A i \in Int : <<"forward", i>> \in FilesOf(schema) <=> i \in 1 .. n
  <2>1. CASE schema = <<Baseline>> \o migrationFiles("forward", n)
    <3>1. FilesOf(schema) = {Baseline} \cup {<<"forward", i>> : i \in 1 .. n}
      BY <2>1, FilesOfForms, Zenon
    <3> QED BY <3>1, DistinctFiles, Zenon
  <2>2. CASE schema = LegacyFiles \o migrationFiles("forward", n)
    <3>1. FilesOf(schema) = {<<"legacy", i>> : i \in 1 .. Legacy}
                              \cup {<<"forward", i>> : i \in 1 .. n}
      BY <2>2, FilesOfForms, Zenon
    <3> QED BY <3>1, DistinctFiles, Zenon
  <2> QED BY <1>4, <2>1, <2>2, Zenon
<1>6. file > n
  BY <1>1, <1>3, <1>5
<1>7. file <= n + 1
  <2> SUFFICES ASSUME file > n + 1 PROVE FALSE
    BY <1>1
  <2>1. n + 1 \in 1 .. release.forward /\ n + 1 < file
    BY <1>1
  <2>2. registry[<<"forward", n + 1>>] # Unrecorded
    BY <2>1 DEF SchemaInv, Checksum, Unrecorded
  <2>3. <<"forward", n + 1>> \in FilesOf(schema)
    BY <1>3, <2>1, <2>2, KnownFiles, RecordedFiles, DistinctFiles
  <2> QED BY <1>5, <2>3
<1>8. f = <<"forward", n + 1>>
  BY <1>1, <1>6, <1>7
<1>9. \/ schema' = <<Baseline>> \o migrationFiles("forward", n + 1)
      \/ schema' = LegacyFiles \o migrationFiles("forward", n + 1)
  <2> DEFINE b == <<Baseline>>
  <2>1. b \in Seq({Baseline}) /\ LegacyFiles \in Seq({<<"legacy", i>> : i \in 1 .. Legacy})
    BY <1>1, FilesOfDirectory DEF LegacyFiles
  <2>2. schema' = Append(schema, <<"forward", n + 1>>)
    BY <1>8, Zenon DEF ApplyFile
  <2> HIDE DEF b
  <2>3. Append(b \o migrationFiles("forward", n), <<"forward", n + 1>>)
          = b \o migrationFiles("forward", n + 1)
    BY <2>1, NextFileOnBase, Zenon
  <2>4. Append(LegacyFiles \o migrationFiles("forward", n), <<"forward", n + 1>>)
          = LegacyFiles \o migrationFiles("forward", n + 1)
    BY <2>1, NextFileOnBase, Zenon
  <2> QED BY <1>4, <2>2, <2>3, <2>4, Zenon DEF b
<1>10. n + 1 \in 0 .. Len(schema')
  <2>1. n + 1 \in Nat
    OBVIOUS
  <2>2. /\ Len(<<Baseline>> \o migrationFiles("forward", n + 1)) = (n + 1) + 1
        /\ Len(LegacyFiles \o migrationFiles("forward", n + 1)) = Legacy + (n + 1)
    BY <2>1, FilesOfForms, Zenon
  <2>3. Len(schema') = (n + 1) + 1 \/ Len(schema') = Legacy + (n + 1)
    BY <1>9, <2>2, Zenon
  <2> QED BY <1>1, <2>3
<1>11. Recorded' = FilesOf(schema') \ {Unmanaged}
  BY <1>2, <1>3, AppliedFile, Zenon
<1> QED BY <1>9, <1>10, <1>11, Zenon DEF SchemaIsOneHistory

\* InstallBaseline builds and records the whole schema at once.
LEMMA BaselineInstalled ==
  ASSUME TypeOK, Recorded = {}, InstallBaseline
  PROVE  SchemaIsOneHistory' /\ Based'
<1> DEFINE n == release.forward
<1>1. n \in Nat /\ Legacy \in Nat
  BY KnownFiles, StartAssumption, Zenon
<1>2. schema' = <<Baseline>> \o migrationFiles("forward", n)
  BY Zenon DEF InstallBaseline, ForwardFiles
<1>3. FilesOf(schema') = {Baseline} \cup {<<"forward", i>> : i \in 1 .. n}
  BY <1>1, <1>2, FilesOfForms, Zenon
<1>4. FilesOf(ForwardFiles(release)) = {<<"forward", i>> : i \in 1 .. n}
  BY <1>1, FilesOfDirectory, Zenon DEF ForwardFiles
<1>5. \A f \in Files : registry'[f] # Unrecorded <=> f \in FilesOf(schema')
  <2>1. \A f \in Files : registry[f] = Unrecorded
    BY Zenon DEF Recorded
  <2>2. \A f \in Files : Checksum(release, f) # Unrecorded
    BY DEF Checksum, Unrecorded
  <2> QED BY <1>3, <1>4, <2>1, <2>2, Zenon DEF InstallBaseline
<1>6. FilesOf(schema') \subseteq Files /\ Unmanaged \notin FilesOf(schema')
  BY <1>1, <1>3, KnownFiles, DistinctFiles
<1>7. Recorded' = FilesOf(schema') \ {Unmanaged}
  BY <1>5, <1>6, Zenon DEF Recorded
<1>8. n \in 0 .. Len(schema')
  <2>1. Len(schema') = n + 1
    BY <1>1, <1>2, FilesOfForms, Zenon
  <2> QED BY <1>1, <2>1
<1> QED BY <1>2, <1>3, <1>7, <1>8, Zenon DEF SchemaIsOneHistory, Based

\* The schema part of the invariant is inductive.
LEMMA SchemaStep ==
  ASSUME TypeOK, SchemaInv, [Next]_vars
  PROVE  SchemaInv'
<1>1. SchemaIsOneHistory /\ release \in Releases /\ Legacy \in Nat \ {0}
      /\ release.forward \in Nat /\ file \in Nat \ {0}
  BY StartAssumption, KnownFiles, Zenon DEF SchemaInv, TypeOK
<1>2. CASE ensureCanonicalSchema
  <2>1. CASE registry[Baseline] # Unrecorded /\ Goto("forward") /\ UNCHANGED database
    <3>1. Baseline \in FilesOf(schema)
      BY <1>1, <2>1, KnownFiles, RecordedFiles, DistinctFiles
    <3>2. SchemaIsOneHistory' /\ Based'
      BY <1>1, <2>1, <3>1, Zenon DEF SchemaIsOneHistory, Recorded, Based, database
    <3>3. pc' = "forward" /\ file' = 1
      BY <2>1, Zenon DEF Goto
    <3> QED BY <3>2, <3>3 DEF SchemaInv, AfterSchema
  <2>2. CASE registry[Baseline] = Unrecorded /\ Recorded # {} /\ Goto("legacy")
             /\ UNCHANGED database
    <3>1. SchemaIsOneHistory' /\ registry'[Baseline] = Unrecorded /\ Recorded' # {}
      BY <1>1, <2>2, Zenon DEF SchemaIsOneHistory, Recorded, database
    <3>2. pc' = "legacy" /\ file' = 1
      BY <2>2, Zenon DEF Goto
    <3> QED BY <3>1, <3>2 DEF SchemaInv, AfterSchema
  <2>3. CASE Stop /\ UNCHANGED database
    BY <2>3, SchemaFrame, Zenon DEF Stop, Goto
  <2>4. CASE Recorded = {} /\ InstallBaseline
    <3>1. SchemaIsOneHistory' /\ Based'
      BY <2>4, BaselineInstalled, Zenon
    <3>2. pc' = "forward" /\ file' = 1
      BY <2>4, Zenon DEF InstallBaseline, Goto
    <3> QED BY <3>1, <3>2 DEF SchemaInv, AfterSchema
  <2> QED BY <1>2, <2>1, <2>2, <2>3, <2>4, Zenon DEF ensureCanonicalSchema
<1>3. CASE Migrate /\ pc = "legacy"
  <2> DEFINE f == <<"legacy", file>>
  <2>1. applyMigrationFiles(LegacyFiles, "forward")
    BY <1>3, Zenon DEF Migrate
  <2>2. Len(LegacyFiles) = Legacy /\ (file <= Legacy => LegacyFiles[file] = f)
    BY <1>1 DEF LegacyFiles, migrationFiles
  <2>3. CASE file > Legacy /\ Goto("forward") /\ UNCHANGED database
    <3>1. \A i \in 1 .. Legacy : <<"legacy", i>> \in FilesOf(schema)
      <4> TAKE i \in 1 .. Legacy
      <4>1. registry[<<"legacy", i>>] # Unrecorded
        BY <1>1, <1>3, <2>3 DEF SchemaInv
      <4> QED BY <1>1, <4>1, KnownFiles, RecordedFiles, DistinctFiles
    <3>2. Based'
      <4>1. FilesOf(LegacyFiles) \subseteq FilesOf(schema)
        BY <3>1, KnownFiles
      <4> QED BY <2>3, <4>1, Zenon DEF Based, database
    <3>3. SchemaIsOneHistory'
      BY <1>1, <2>3, Zenon DEF SchemaIsOneHistory, Recorded, database
    <3>4. pc' = "forward" /\ file' = 1
      BY <2>3, Zenon DEF Goto
    <3> QED BY <3>2, <3>3, <3>4 DEF SchemaInv, AfterSchema
  <2>4. CASE /\ file <= Legacy /\ registry[f] = Checksum(release, f)
             /\ file' = file + 1 /\ UNCHANGED <<pc, database>>
    <3>1. registry[f] # Unrecorded
      BY <2>4 DEF Checksum, Unrecorded
    <3>2. \A i \in 1 .. Legacy : i < file + 1 => registry[<<"legacy", i>>] # Unrecorded
      <4> SUFFICES ASSUME NEW i \in 1 .. Legacy, i < file + 1
                   PROVE  registry[<<"legacy", i>>] # Unrecorded
        BY Zenon
      <4>1. i < file \/ i = file
        BY <1>1
      <4> QED BY <1>3, <3>1, <4>1, Zenon DEF SchemaInv
    <3> QED BY <1>1, <1>3, <2>4, <3>2, Zenon
            DEF SchemaInv, SchemaIsOneHistory, Recorded, AfterSchema, database
  <2>5. CASE Stop /\ UNCHANGED database
    BY <2>5, SchemaFrame DEF Stop, Goto
  <2>6. CASE /\ file <= Legacy /\ registry[f] = Unrecorded /\ ApplyFile(f)
             /\ file' = file + 1 /\ UNCHANGED pc
    <3>1. SchemaIsOneHistory'
      BY <1>3, <2>6, LegacyFileApplied, Zenon
    <3>2. f \in Files /\ f # Unmanaged /\ f # Baseline /\ Baseline \in Files
      BY <1>1, <2>6, KnownFiles, DistinctFiles
    <3>3. registry'[f] # Unrecorded /\ \A g \in Files \ {f} : registry'[g] = registry[g]
      BY <1>1, <2>6, <3>2, AppliedFile, Zenon
    <3>4. registry'[Baseline] = Unrecorded /\ Recorded' # {}
      BY <1>3, <3>2, <3>3, Zenon DEF SchemaInv, Recorded
    <3>5. \A i \in 1 .. Legacy : i < file + 1 => registry'[<<"legacy", i>>] # Unrecorded
      <4> SUFFICES ASSUME NEW i \in 1 .. Legacy, i < file + 1
                   PROVE  registry'[<<"legacy", i>>] # Unrecorded
        BY Zenon
      <4>1. CASE i = file
        BY <3>3, <4>1, Zenon
      <4>2. CASE i < file
        <5>1. <<"legacy", i>> \in Files \ {f}
          BY <1>1, <4>2, KnownFiles, DistinctFiles
        <5> QED BY <1>3, <3>3, <4>2, <5>1, Zenon DEF SchemaInv
      <4> QED BY <1>1, <4>1, <4>2
    <3> QED BY <1>3, <2>6, <3>1, <3>4, <3>5, Zenon DEF SchemaInv, AfterSchema
  <2> QED BY <1>1, <2>1, <2>2, <2>3, <2>4, <2>5, <2>6, Zenon DEF applyMigrationFiles
<1>4. CASE Migrate /\ pc = "forward"
  <2> DEFINE f == <<"forward", file>>
  <2>1. applyMigrationFiles(ForwardFiles(release), "projections") /\ UNCHANGED release
    BY <1>4, Zenon DEF Migrate, world
  <2>2. Len(ForwardFiles(release)) = release.forward
        /\ (file <= release.forward => ForwardFiles(release)[file] = f)
    BY <1>1 DEF ForwardFiles, migrationFiles
  <2>3. CASE file > release.forward /\ Goto("projections") /\ UNCHANGED database
    <3>1. \A i \in 1 .. release.forward :
            /\ registry[<<"forward", i>>] = Checksum(release, <<"forward", i>>)
            /\ <<"forward", i>> \in FilesOf(schema)
      <4> TAKE i \in 1 .. release.forward
      <4>1. registry[<<"forward", i>>] = Checksum(release, <<"forward", i>>)
        BY <1>1, <1>4, <2>3 DEF SchemaInv
      <4>2. registry[<<"forward", i>>] # Unrecorded
        BY <4>1 DEF Checksum, Unrecorded
      <4> QED BY <1>1, <4>1, <4>2, KnownFiles, RecordedFiles, DistinctFiles
    <3>2. FilesOf(ForwardFiles(release)) = {<<"forward", i>> : i \in 1 .. release.forward}
      BY KnownFiles, Zenon
    <3>3. SchemaIsCurrent
      BY <1>4, <3>1, <3>2, Zenon DEF SchemaIsCurrent, SchemaInv, Based
    <3>4. SchemaIsCurrent' /\ SchemaIsOneHistory'
      BY <1>1, <2>1, <2>3, <3>3, Zenon
         DEF SchemaIsCurrent, SchemaIsOneHistory, Recorded, database
    <3>5. pc' = "projections"
      BY <2>3, Zenon DEF Goto
    <3> QED BY <3>4, <3>5, Zenon DEF SchemaInv
  <2>4. CASE /\ file <= release.forward /\ registry[f] = Checksum(release, f)
             /\ file' = file + 1 /\ UNCHANGED <<pc, database>>
    <3>1. \A i \in 1 .. release.forward : i < file + 1 =>
            registry[<<"forward", i>>] = Checksum(release, <<"forward", i>>)
      <4> SUFFICES ASSUME NEW i \in 1 .. release.forward, i < file + 1
                   PROVE  registry[<<"forward", i>>] = Checksum(release, <<"forward", i>>)
        BY Zenon
      <4>1. i < file \/ i = file
        BY <1>1
      <4> QED BY <1>4, <2>4, <4>1, Zenon DEF SchemaInv
    <3> QED BY <1>1, <1>4, <2>1, <2>4, <3>1, Zenon
            DEF SchemaInv, SchemaIsOneHistory, Recorded, Based, AfterSchema, database
  <2>5. CASE Stop /\ UNCHANGED database
    BY <2>5, SchemaFrame DEF Stop, Goto
  <2>6. CASE /\ file <= release.forward /\ registry[f] = Unrecorded /\ ApplyFile(f)
             /\ file' = file + 1 /\ UNCHANGED pc
    <3>1. SchemaIsOneHistory'
      BY <1>4, <2>6, ForwardFileApplied, Zenon
    <3>2. f \in Files /\ f # Unmanaged
      BY <1>1, <2>6, KnownFiles, DistinctFiles
    <3>3. /\ registry'[f] = Checksum(release, f)
          /\ \A g \in Files \ {f} : registry'[g] = registry[g]
          /\ FilesOf(schema') = FilesOf(schema) \cup {f}
      BY <1>1, <2>6, <3>2, AppliedFile, Zenon
    <3>4. Based'
      BY <1>4, <3>3, Zenon DEF SchemaInv, Based
    <3>5. \A i \in 1 .. release.forward : i < file + 1 =>
            registry'[<<"forward", i>>] = Checksum(release, <<"forward", i>>)
      <4> SUFFICES ASSUME NEW i \in 1 .. release.forward, i < file + 1
                   PROVE  registry'[<<"forward", i>>] = Checksum(release, <<"forward", i>>)
        BY Zenon
      <4>1. CASE i = file
        BY <3>3, <4>1, Zenon
      <4>2. CASE i < file
        <5>1. <<"forward", i>> \in Files \ {f}
          BY <1>1, <4>2, KnownFiles, DistinctFiles
        <5> QED BY <1>4, <3>3, <4>2, <5>1, Zenon DEF SchemaInv
      <4> QED BY <1>1, <4>1, <4>2
    <3> QED BY <1>4, <2>1, <2>6, <3>1, <3>4, <3>5, Zenon DEF SchemaInv, AfterSchema
  <2> QED BY <1>1, <2>1, <2>2, <2>3, <2>4, <2>5, <2>6, Zenon DEF applyMigrationFiles
<1>5. CASE Start \/ DeadlineElapses \/ Crash \/ \E r \in Releases : Deploy(r)
  BY <1>5, SchemaFrame, Zenon DEF Start, DeadlineElapses, Crash, Deploy, Stop, Goto
<1>6. CASE BackfillAccessEventProjections \/ PassThrough
           \/ ReconcileConfiguredAdministrator \/ PurgeExpiredSessions
  <2>1. UNCHANGED database /\ UNCHANGED release
    BY <1>6, Zenon DEF BackfillAccessEventProjections, PassThrough,
       ReconcileConfiguredAdministrator, PurgeExpiredSessions, world
  <2>2. pc \in AfterSchema /\ pc' \in AfterSchema \cup {"down"}
    BY <1>6, Zenon DEF BackfillAccessEventProjections, PassThrough,
       ReconcileConfiguredAdministrator, PurgeExpiredSessions, AfterSchema, Goto, Stop
  <2> QED BY <2>1, <2>2, SchemaFrame, Zenon
<1>7. CASE Serve \/ (\E k \in Tokens : SessionExpires(k)) \/ UNCHANGED vars
  <2>1. UNCHANGED <<process, database, world>>
    BY <1>7, Zenon DEF Serve, ArchiveEvent, login, logout, SessionExpires, SaveRoute,
                DeleteRoute, QueueBackfill, vars
  <2> QED BY <2>1, SchemaFrame, Zenon DEF process, world
<1>8. Migrate => pc \in {"legacy", "forward"}
  BY Zenon DEF Migrate
<1> QED BY <1>2, <1>3, <1>4, <1>5, <1>6, <1>7, <1>8, Zenon DEF Next, StartStep

-----------------------------------------------------------------------------
(* The projections.                                                        *)

\* Versions can be compared.
LEMMA VersionsAreNumbers ==
  ASSUME TypeOK
  PROVE  /\ release.version \in Versions /\ release.version \in Nat \ {0}
         /\ Versions \subseteq Nat
         /\ MaxEvents \in Nat /\ archived \in Nat /\ archived <= MaxEvents
         /\ \A e \in 1 .. MaxEvents : projection[e].version \in Nat
         /\ \A e \in 1 .. archived : projection[e].version \in Nat
<1>1. release \in Releases /\ release.version \in Versions
      /\ release.version \in Nat \ {0}
  BY StartAssumption, Zenon DEF TypeOK, Versions
<1>2. Versions \subseteq Nat
  BY StartAssumption, Zenon DEF Versions
<1>3. MaxEvents \in Nat /\ archived \in Nat /\ archived <= MaxEvents
  BY StartAssumption DEF TypeOK
<1>4. \A e \in 1 .. MaxEvents : projection[e].version \in Versions \cup {0}
  <2> TAKE e \in 1 .. MaxEvents
  <2>1. projection[e] \in [version : Versions \cup {0}, columns : Versions \cup {0}]
    BY Zenon DEF TypeOK
  <2> QED BY <2>1, Zenon
<1>5. \A e \in 1 .. MaxEvents : projection[e].version \in Nat
  <2> TAKE e \in 1 .. MaxEvents
  <2>1. projection[e].version \in Versions \/ projection[e].version = 0
    BY <1>4, Zenon
  <2>2. 0 \in Nat
    BY Zenon
  <2> QED BY <1>2, <2>1, <2>2, Zenon
<1>6. 1 .. archived \subseteq 1 .. MaxEvents
  BY <1>3
<1> QED BY <1>1, <1>2, <1>3, <1>5, <1>6, Zenon

\* Steps that leave the projections alone.
LEMMA EventFrame ==
  ASSUME TypeOK, EventInv, UNCHANGED events,
         \/ pc' \notin AfterProjections
         \/ UNCHANGED release /\ pc \in AfterProjections
         \/ UNCHANGED release /\ Outdated = {}
  PROVE  EventInv'
<1>1. Outdated = {} => \A e \in 1 .. archived : projection[e].version >= release.version
  <2> SUFFICES ASSUME Outdated = {}, NEW e \in 1 .. archived
               PROVE  projection[e].version >= release.version
    BY Zenon
  <2>1. ~(projection[e].version < release.version)
    BY Zenon DEF Outdated
  <2>2. projection[e].version \in Nat /\ release.version \in Nat
    BY VersionsAreNumbers, Zenon
  <2> QED BY <2>1, <2>2
<1>2. pc' \in AfterProjections =>
        \A e \in 1 .. archived' : projection'[e].version >= release'.version
  BY <1>1, Zenon DEF EventInv, events
<1> QED BY <1>2, Zenon DEF EventInv, events

\* Interpreting rows that are archived afterwards and that no version from the
\* release's on has interpreted.
LEMMA InterpretStep ==
  ASSUME TypeOK, EventInv, NEW rows \in SUBSET (1 .. MaxEvents), Interpret(rows),
         archived' \in archived .. MaxEvents, rows \subseteq 1 .. archived',
         UNCHANGED <<pc, release>>, 1 .. archived' \subseteq (1 .. archived) \cup rows,
         \A e \in rows : e > archived \/ projection[e].version < release.version
  PROVE  EventInv'
<1>1. release.version \in Versions /\ release.version \in Nat /\ Versions \subseteq Nat
      /\ MaxEvents \in Nat /\ archived \in Nat /\ archived' \in Nat
  BY VersionsAreNumbers
<1>2. \A e \in 1 .. MaxEvents : projection[e].version \in Nat
  BY VersionsAreNumbers, Zenon
<1>3. \A e \in rows : /\ projection'[e].version = release.version
                      /\ projection'[e].columns =
                           IF <<e, release.version>> \in Classifies
                             THEN release.version ELSE 0
  BY Zenon DEF Interpret, insertAccessEventProjection
<1>4. \A e \in rows : projection'[e].version = release.version
  BY <1>3, Zenon
<1>5. \A e \in (1 .. MaxEvents) \ rows : projection'[e] = projection[e]
  BY Zenon DEF Interpret
<1>6. \A e \in 1 .. MaxEvents, v \in Versions :
        interpreted'[<<e, v>>] = IF e \in rows /\ v = release.version
                                   THEN interpreted[<<e, v>>] + 1
                                   ELSE interpreted[<<e, v>>]
  BY Zenon DEF Interpret
<1>7. \A e \in 1 .. MaxEvents, v \in Versions : interpreted[<<e, v>>] \in Nat
  BY Zenon DEF TypeOK
<1>8. \A e \in 1 .. MaxEvents : \A v \in Versions :
        /\ interpreted'[<<e, v>>] <= 1
        /\ interpreted'[<<e, v>>] > 0 => e <= archived' /\ projection'[e].version >= v
  <2> TAKE e \in 1 .. MaxEvents
  <2> TAKE v \in Versions
  <2>1. /\ interpreted[<<e, v>>] <= 1
        /\ interpreted[<<e, v>>] > 0 => e <= archived /\ projection[e].version >= v
    BY Zenon DEF EventInv
  <2>2. CASE e \notin rows
    BY <1>1, <1>5, <1>6, <1>7, <2>1, <2>2
  <2>3. CASE e \in rows /\ v = release.version
    <3>1. interpreted[<<e, v>>] = 0
      BY <1>1, <1>2, <1>7, <2>1, <2>3
    <3> QED BY <1>1, <1>3, <1>6, <2>3, <3>1
  <2>4. CASE e \in rows /\ v # release.version
    <3>1. interpreted'[<<e, v>>] = interpreted[<<e, v>>]
      BY <1>6, <2>4, Zenon
    <3>2. interpreted[<<e, v>>] > 0 => release.version > v
      BY <1>1, <1>2, <2>1, <2>4
    <3>3. projection'[e].version = release.version
      BY <2>4, <1>4, Zenon
    <3>5. e \in 1 .. archived'
      BY <2>4, Zenon
    <3>4. v \in Nat
      BY <1>1, Zenon
    <3> QED BY <1>1, <2>1, <3>1, <3>2, <3>3, <3>4, <3>5
  <2> QED BY <2>2, <2>3, <2>4, Zenon
<1>9. \A e \in 1 .. MaxEvents :
        projection'[e].columns = IF <<e, projection'[e].version>> \in Classifies
                                   THEN projection'[e].version ELSE 0
  BY <1>3, <1>5, Zenon DEF EventInv
<1>10. pc' \in AfterProjections =>
        \A e \in 1 .. archived' : projection'[e].version >= release'.version
  <2> SUFFICES ASSUME pc \in AfterProjections, NEW e \in 1 .. archived'
               PROVE  projection'[e].version >= release.version
    BY Zenon
  <2>1. CASE e \in rows
    <3>1. projection'[e].version = release.version
      BY <1>4, <2>1, Zenon
    <3> QED BY <1>1, <3>1
  <2>2. CASE e \notin rows
    <3>1. e \in 1 .. archived /\ e \in (1 .. MaxEvents) \ rows
      BY <1>1, <2>2
    <3> QED BY <1>5, <3>1, Zenon DEF EventInv
  <2> QED BY <2>1, <2>2, Zenon
<1> QED BY <1>8, <1>9, <1>10, Zenon DEF EventInv

\* The projection part of the invariant is inductive.
LEMMA EventStep ==
  ASSUME TypeOK, EventInv, [Next]_vars
  PROVE  EventInv'
<1>1. CASE BackfillAccessEventProjections
  <2>1. UNCHANGED release /\ pc = "projections"
    BY <1>1, Zenon DEF BackfillAccessEventProjections, world
  <2>2. CASE Batch = {} /\ UNCHANGED events
    BY <2>1, <2>2, EmptyBatch, EventFrame, Zenon
  <2>3. CASE Interpret(Batch) /\ UNCHANGED <<pc, archived>>
    <3>1. Batch \subseteq 1 .. archived /\ archived \in 0 .. MaxEvents
          /\ \A e \in Batch : projection[e].version < release.version
      BY Zenon DEF TypeOK, Batch, Outdated
    <3>2. /\ Batch \in SUBSET (1 .. MaxEvents) /\ archived' \in archived .. MaxEvents
          /\ Batch \subseteq 1 .. archived'
          /\ 1 .. archived' \subseteq (1 .. archived) \cup Batch
      BY <2>3, <3>1, StartAssumption
    <3> QED BY <2>1, <2>3, <3>1, <3>2, InterpretStep, Zenon
  <2> QED BY <1>1, <2>2, <2>3, Zenon DEF BackfillAccessEventProjections
<1>2. CASE ArchiveEvent
  <2>1. archived' = archived + 1 /\ archived \in 0 .. MaxEvents /\ archived < MaxEvents
        /\ MaxEvents \in Nat /\ Interpret({archived + 1}) /\ UNCHANGED <<pc, release>>
    BY <1>2, StartAssumption, Zenon DEF ArchiveEvent, TypeOK, process, world
  <2> QED BY <2>1, InterpretStep
<1>3. CASE Start \/ DeadlineElapses \/ Crash \/ (\E r \in Releases : Deploy(r))
           \/ ensureCanonicalSchema \/ Migrate
  <2>1. UNCHANGED events
    BY <1>3, Zenon DEF Start, DeadlineElapses, Crash, Deploy, ensureCanonicalSchema, Migrate
  <2>2. pc' \notin AfterProjections
    BY <1>3, Zenon DEF Start, DeadlineElapses, Crash, Deploy, ensureCanonicalSchema, Migrate,
       applyMigrationFiles, InstallBaseline, Stop, Goto, AfterProjections, AfterSchema
  <2> QED BY <2>1, <2>2, EventFrame, Zenon
<1>4. CASE PassThrough \/ ReconcileConfiguredAdministrator \/ PurgeExpiredSessions
  <2>1. UNCHANGED events /\ UNCHANGED release /\ pc \in AfterProjections
    BY <1>4, Zenon DEF PassThrough, ReconcileConfiguredAdministrator, PurgeExpiredSessions,
                AfterProjections, AfterSchema, world
  <2> QED BY <2>1, EventFrame, Zenon
<1>5. CASE (Serve /\ ~ArchiveEvent) \/ (\E k \in Tokens : SessionExpires(k))
           \/ UNCHANGED vars
  <2>1. UNCHANGED <<process, events, world>>
    BY <1>5, Zenon DEF Serve, login, logout, SessionExpires, SaveRoute, DeleteRoute,
                QueueBackfill, vars
  <2> QED BY <2>1, EventFrame, Zenon DEF process, world
<1> QED BY <1>1, <1>2, <1>3, <1>4, <1>5, Zenon DEF Next, StartStep, Serve

-----------------------------------------------------------------------------
(* The administrator.                                                      *)

\* Steps that leave the accounts alone.
LEMMA AccountFrame ==
  ASSUME AccountInv, UNCHANGED <<admins, sessions>>,
         \/ pc' \notin AfterAdministrator
         \/ UNCHANGED release /\ pc \in AfterAdministrator
  PROVE  AccountInv'
  BY Zenon DEF AccountInv, AdministratorIsConfigured

\* The account part of the invariant is inductive: a session is handed out only
\* for an administrator that exists, and goes with them.
LEMMA AccountStep ==
  ASSUME TypeOK, AccountInv, [Next]_vars
  PROVE  AccountInv'
<1>1. release.name \in Names /\ release.name # None /\ release.password # None
  BY StartAssumption, Zenon DEF TypeOK, Names
<1>2. CASE ReconcileConfiguredAdministrator
  <2>1. CASE Stop /\ UNCHANGED accounts
    <3>1. pc' \notin AfterAdministrator
      BY <2>1, Zenon DEF Stop, Goto, AfterAdministrator
    <3> QED BY <2>1, <3>1, AccountFrame, Zenon DEF accounts
  <2>2. CASE ~(Stop /\ UNCHANGED accounts)
    <3>1. /\ admins' = [n \in Names |->
               IF n = release.name THEN release.password ELSE None]
          /\ sessions' = [k \in Tokens |->
               IF sessions[k] \in Replaced THEN None ELSE sessions[k]]
          /\ UNCHANGED release
      BY <1>2, <2>2, Zenon DEF ReconcileConfiguredAdministrator, world
    <3>2. \A k \in Tokens : sessions'[k] \in {None, release.name}
      <4> TAKE k \in Tokens
      <4>1. sessions[k] \in Names \cup {None}
        BY Zenon DEF TypeOK
      <4>2. CASE sessions[k] = None \/ sessions[k] \in Replaced
        BY <3>1, <4>2, Zenon
      <4>3. CASE sessions[k] # None /\ sessions[k] \notin Replaced
        <5>1. sessions[k] \in Names /\ admins[sessions[k]] # None
          BY <4>1, <4>3, Zenon DEF AccountInv
        <5>2. sessions[k] = release.name
          BY <4>3, <5>1, Zenon DEF Replaced
        <5> QED BY <3>1, <4>3, <5>2, Zenon
      <4> QED BY <4>2, <4>3, Zenon
    <3>3. AdministratorIsConfigured'
      BY <3>1, <3>2, Zenon DEF AdministratorIsConfigured
    <3>4. \A k \in Tokens : sessions'[k] = None \/ admins'[sessions'[k]] # None
      BY <1>1, <3>1, <3>2, Zenon
    <3> QED BY <3>3, <3>4, Zenon DEF AccountInv
  <2> QED BY <2>1, <2>2, Zenon
<1>3. CASE PurgeExpiredSessions
  <2>1. /\ UNCHANGED <<admins, release>> /\ pc \in AfterAdministrator
        /\ sessions' = [k \in Tokens |-> IF k \in expired THEN None ELSE sessions[k]]
    BY <1>3, Zenon DEF PurgeExpiredSessions, AfterAdministrator, world
  <2>2. \A k \in Tokens : sessions'[k] \in {None, sessions[k]}
    BY <2>1, Zenon
  <2>3. AdministratorIsConfigured'
    BY <2>1, <2>2, Zenon DEF AccountInv, AdministratorIsConfigured
  <2> QED BY <2>1, <2>2, <2>3, Zenon DEF AccountInv
<1>4. CASE \E k \in Tokens, n \in Names, p \in Passwords : login(k, n, p)
  <2>1. PICK k \in Tokens, n \in Names, p \in Passwords : login(k, n, p)
    BY <1>4, Zenon
  <2>2. /\ pc = "serving" /\ admins[n] # None /\ UNCHANGED <<admins, release>>
        /\ sessions' = [sessions EXCEPT ![k] = n]
    BY <2>1, Zenon DEF login, world
  <2>3. \A j \in Tokens : sessions'[j] = sessions[j] \/ sessions'[j] = n
    BY <2>2, Zenon DEF TypeOK
  <2>4. n = release.name
    BY <2>2, Zenon DEF AccountInv, AdministratorIsConfigured, AfterAdministrator
  <2>5. AdministratorIsConfigured
    BY <2>2, Zenon DEF AccountInv, AfterAdministrator
  <2>6. AdministratorIsConfigured'
    BY <2>2, <2>3, <2>4, <2>5, Zenon DEF AdministratorIsConfigured
  <2>7. \A j \in Tokens : sessions'[j] = None \/ admins'[sessions'[j]] # None
    BY <2>2, <2>3, Zenon DEF AccountInv
  <2> QED BY <2>6, <2>7, Zenon DEF AccountInv
<1>5. CASE \E k \in Tokens : logout(k)
  <2>1. PICK k \in Tokens : logout(k)
    BY <1>5, Zenon
  <2>2. /\ pc = "serving" /\ UNCHANGED <<admins, release>>
        /\ sessions' = [sessions EXCEPT ![k] = None]
    BY <2>1, Zenon DEF logout, world
  <2>3. \A j \in Tokens : sessions'[j] \in {None, sessions[j]}
    BY <2>2, Zenon DEF TypeOK
  <2>4. AdministratorIsConfigured'
    BY <2>2, <2>3, Zenon DEF AccountInv, AdministratorIsConfigured, AfterAdministrator
  <2> QED BY <2>2, <2>3, <2>4, Zenon DEF AccountInv
<1>6. CASE Start \/ DeadlineElapses \/ Crash \/ (\E r \in Releases : Deploy(r))
           \/ ensureCanonicalSchema \/ Migrate \/ BackfillAccessEventProjections
  <2>1. UNCHANGED accounts
    BY <1>6, Zenon DEF Start, DeadlineElapses, Crash, Deploy, ensureCanonicalSchema, Migrate,
                BackfillAccessEventProjections
  <2>2. pc' \notin AfterAdministrator
    BY <1>6, Zenon DEF Start, DeadlineElapses, Crash, Deploy, ensureCanonicalSchema, Migrate,
       BackfillAccessEventProjections, applyMigrationFiles, InstallBaseline, Stop, Goto,
       AfterAdministrator
  <2> QED BY <2>1, <2>2, AccountFrame, Zenon DEF accounts
<1>7. CASE PassThrough
  <2>1. UNCHANGED accounts /\ UNCHANGED release
    BY <1>7, Zenon DEF PassThrough, world
  <2>2. pc' \notin AfterAdministrator \/ pc \in AfterAdministrator
    BY <1>7, Zenon DEF PassThrough, Goto, AfterAdministrator
  <2> QED BY <2>1, <2>2, AccountFrame, Zenon DEF accounts
<1>8. CASE \/ ArchiveEvent \/ UNCHANGED vars
           \/ \E k \in Tokens :
                SaveRoute(k) \/ DeleteRoute(k) \/ QueueBackfill(k) \/ SessionExpires(k)
  <2>1. UNCHANGED <<process, admins, sessions, world>>
    BY <1>8, Zenon DEF ArchiveEvent, SaveRoute, DeleteRoute, QueueBackfill, SessionExpires,
                vars, accounts
  <2> QED BY <2>1, AccountFrame, Zenon DEF process, world
<1> QED BY <1>2, <1>3, <1>4, <1>5, <1>6, <1>7, <1>8, Zenon DEF Next, StartStep, Serve

-----------------------------------------------------------------------------
(* The theorems.                                                           *)

IInv == TypeOK /\ SchemaInv /\ EventInv /\ AccountInv

\* The databases the gateway can be started on satisfy the invariant.
LEMMA InitIInv == Init => IInv
<1> SUFFICES ASSUME Init PROVE IInv
  BY Zenon
<1>1. Legacy \in Nat \ {0} /\ MaxEvents \in Nat
  BY StartAssumption, Zenon
<1>2. \E n \in 0 .. Legacy : schema = migrationFiles("legacy", n) \/ schema = <<Unmanaged>>
  <2>1. CASE schema = <<>>
    <3>1. schema = migrationFiles("legacy", 0)
      BY <2>1 DEF migrationFiles
    <3> QED BY <1>1, <3>1
  <2> QED BY <1>1, <2>1 DEF Init
<1>3. PICK n \in 0 .. Legacy :
        schema = migrationFiles("legacy", n) \/ schema = <<Unmanaged>>
  BY <1>2, Zenon
<1>4. n \in Nat /\ FilesOf(migrationFiles("legacy", n)) = {<<"legacy", i>> : i \in 1 .. n}
      /\ FilesOf(<<Unmanaged>>) = {Unmanaged}
  <2>1. n \in Nat
    BY <1>1
  <2> QED BY <2>1, FilesOfForms, Zenon
<1>5. FilesOf(LegacyFiles) = {<<"legacy", i>> : i \in 1 .. Legacy}
  <2>1. Legacy \in Nat
    BY <1>1, Zenon
  <2> QED BY <2>1, FilesOfDirectory, Zenon DEF LegacyFiles
<1>6. \A i \in 1 .. n : <<"legacy", i>> \in Files /\ <<"legacy", i>> # Unmanaged
  BY <1>1, <1>4, <1>5, DistinctFiles DEF Files
<1>7. Recorded = {f \in Files : f \in FilesOf(schema)}
  BY DEF Init, Recorded, Unrecorded
<1>8. Unmanaged \notin Files
  <2>1. \A r \in Releases :
          FilesOf(ForwardFiles(r)) = {<<"forward", i>> : i \in 1 .. r.forward}
    <3> TAKE r \in Releases
    <3>1. r.forward \in Nat
      BY StartAssumption, Zenon
    <3> QED BY <3>1, FilesOfDirectory, Zenon DEF ForwardFiles
  <2> QED BY <1>1, <1>5, <2>1, DistinctFiles DEF Files
<1>9. Recorded = FilesOf(schema) \ {Unmanaged}
  <2>1. CASE schema = <<Unmanaged>>
    BY <1>4, <1>7, <1>8, <2>1, Zenon
  <2>2. CASE schema = migrationFiles("legacy", n)
    BY <1>4, <1>6, <1>7, <2>2, Zenon
  <2> QED BY <1>3, <2>1, <2>2, Zenon
<1>10. SchemaIsOneHistory
  BY <1>3, <1>9, Zenon DEF SchemaIsOneHistory
<1>11. SchemaInv
  BY <1>10, Zenon DEF SchemaInv, Init, AfterSchema
<1>12. schema \in Seq(Files \cup {Unmanaged})
  <2>1. CASE schema = <<Unmanaged>>
    BY <2>1
  <2>2. CASE schema = migrationFiles("legacy", n)
    <3> DEFINE T == Files \cup {Unmanaged}
    <3>1. \A i \in 1 .. n : <<"legacy", i>> \in T
      BY <1>6, Zenon
    <3> HIDE DEF T
    <3>2. migrationFiles("legacy", n) \in Seq(T)
      BY <1>4, <3>1 DEF migrationFiles
    <3> QED BY <2>2, <3>2, Zenon DEF T
  <2> QED BY <1>3, <2>1, <2>2, Zenon
<1>13. admins \in [Names -> Passwords \cup {None}]
  BY Zenon DEF Init
<1>14. archived \in 0 .. MaxEvents
  BY <1>1 DEF Init
<1>15. TypeOK
  <2>1. /\ release \in Releases /\ pc \in Steps /\ file \in Nat \ {0}
        /\ time \in 0 .. Deadline /\ deploys \in 0 .. MaxDeploys
        /\ crashes \in 0 .. MaxCrashes
    BY StartAssumption DEF Init, Steps
  <2>2. /\ registry \in [Files -> {Unrecorded, 1, 2}]
        /\ interpreted \in [(1 .. MaxEvents) \X Versions -> Nat]
    BY Zenon DEF Init
  <2>3. projection \in [1 .. MaxEvents ->
          [version : Versions \cup {0}, columns : Versions \cup {0}]]
    BY Zenon DEF Init, NoProjection
  <2>4. /\ sessions \in [Tokens -> Names \cup {None}] /\ expired \in SUBSET Tokens
        /\ route \in Names \cup {None} /\ backfills \in SUBSET Names
    BY Zenon DEF Init
  <2> QED BY <1>12, <1>13, <1>14, <2>1, <2>2, <2>3, <2>4, Zenon DEF TypeOK
<1>16. EventInv
  BY DEF EventInv, Init, NoProjection, AfterProjections, AfterSchema
<1>17. AccountInv
  BY Zenon DEF AccountInv, Init, AfterAdministrator
<1> QED BY <1>11, <1>15, <1>16, <1>17, Zenon DEF IInv

\* The inductive invariant holds in every behaviour, wherever starts stop and
\* whichever releases are deployed in which order.
THEOREM Invariance == Spec => []IInv
<1>1. IInv /\ [Next]_vars => IInv'
  BY TypeStep, SchemaStep, EventStep, AccountStep, Zenon DEF IInv
<1> QED BY <1>1, InitIInv, PTL DEF Spec

\* Every variable keeps its type.
THEOREM TypeCorrect == Spec => []TypeOK
<1>1. IInv => TypeOK
  BY Zenon DEF IInv
<1> QED BY <1>1, Invariance, PTL

\* Migrate leaves one history, which the registry names, wherever starts stop.
THEOREM OneHistory == Spec => []SchemaIsOneHistory
<1>1. IInv => SchemaIsOneHistory
  BY Zenon DEF IInv, SchemaInv
<1> QED BY <1>1, Invariance, PTL

\* BackfillAccessEventProjections and InsertDeviceEventBatch together interpret
\* no event twice under one version, over upgrades and downgrades.
THEOREM Interpretations == Spec => []InterpretedOnce
<1>1. IInv => InterpretedOnce
  <2> SUFFICES ASSUME IInv, NEW p \in DOMAIN interpreted PROVE interpreted[p] <= 1
    BY Zenon DEF InterpretedOnce
  <2>1. p \in (1 .. MaxEvents) \X Versions
    BY Zenon DEF IInv, TypeOK
  <2>2. p = <<p[1], p[2]>> /\ p[1] \in 1 .. MaxEvents /\ p[2] \in Versions
    BY <2>1
  <2>3. interpreted[<<p[1], p[2]>>] <= 1
    BY <2>2, Zenon DEF IInv, EventInv
  <2> QED BY <2>2, <2>3, Zenon
<1> QED BY <1>1, Invariance, PTL

\* A process that serves has the schema, the projections and the administrator
\* of its release (run in cmd/gateway/main.go).
THEOREM ServingIsPrepared == Spec => []ServesPrepared
<1>1. IInv => ServesPrepared
  <2> SUFFICES ASSUME IInv, pc = "serving"
               PROVE  SchemaIsCurrent /\ ProjectionsAreCurrent /\ AdministratorIsConfigured
    BY Zenon DEF ServesPrepared
  <2>1. SchemaIsCurrent
    BY Zenon DEF IInv, SchemaInv, AfterSchema
  <2>2. AdministratorIsConfigured
    BY Zenon DEF IInv, AccountInv, AfterAdministrator
  <2>3. ProjectionsAreCurrent
    <3> SUFFICES ASSUME NEW e \in 1 .. archived
                 PROVE  /\ projection[e].version >= release.version
                        /\ projection[e].columns =
                             IF <<e, projection[e].version>> \in Classifies
                               THEN projection[e].version ELSE 0
      BY Zenon DEF ProjectionsAreCurrent
    <3>1. e \in 1 .. MaxEvents
      BY VersionsAreNumbers DEF IInv
    <3>2. projection[e].version >= release.version
      BY Zenon DEF IInv, EventInv, AfterProjections, AfterSchema
    <3> QED BY <3>1, <3>2, Zenon DEF IInv, EventInv
  <2> QED BY <2>1, <2>2, <2>3, Zenon
<1> QED BY <1>1, Invariance, PTL
=============================================================================
