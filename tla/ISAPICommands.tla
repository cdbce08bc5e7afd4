--------------------------- MODULE ISAPICommands ---------------------------
(***************************************************************************)
(* The durable ISAPI command queue (internal/store/isapi_commands.go) and  *)
(* the retained-event sync that is built on it                             *)
(* (internal/store/access_event_sync.go): commands are queued for an       *)
(* online terminal, claimed by its CommandRequest, completed by its        *)
(* CommandResult or expired at their deadline; a sync run is driven by one *)
(* command at a time, the terminal's clock first and then the pages of its *)
(* archive.                                                                *)
(*                                                                         *)
(* A transaction is one step, except CompleteISAPICommands: its batch is   *)
(* worked off result by result, time passes meanwhile, and an error undoes *)
(* the whole batch.  Other transactions wait for it on the rows it locked. *)
(* Command and run UUIDs are numbers in the order of their creation.       *)
(***************************************************************************)
EXTENDS Integers, FiniteSets

CONSTANTS
  Terminals,    \* configured terminals
  Records,      \* archive records, named by their SHA-256
  Answers,      \* the answers that terminals return
  PageSize,     \* RetainedEventPageSize
  MaxTotal,     \* largest archive the search supports
  ClaimLimit,   \* commands one CommandRequest may collect
  MaxCommands,  \* bound on the commands ever queued
  MaxPlain,     \* bound on those that belong to no sync run
  MaxRuns       \* bound on the sync runs ever queued

ASSUME TerminalsAssumption == "none" \notin Terminals
ASSUME RecordsAssumption == IsFiniteSet(Records)
ASSUME SizesAssumption == PageSize \in Nat /\ MaxTotal \in Nat
ASSUME CommandBoundsAssumption ==
  /\ ClaimLimit \in Nat \ {0}
  /\ MaxCommands \in Nat /\ MaxPlain \in Nat /\ MaxRuns \in Nat

VARIABLES
  online,       \* the terminals whose connection_status is online
  commands,     \* the isapi_commands rows with their sync link
  runs,         \* the access_event_sync_runs rows
  retained,     \* retained[t]: the retained_access_events of t
  nextCommand,  \* next unused command UUID
  nextRun,      \* next unused run UUID
  due,          \* commands whose expires_at has passed
  held,         \* commands whose delivery reached the terminal
  batch,        \* the terminal whose CommandResult is being stored, or "none"
  undo          \* the tables as they were when it began

vars == <<online, commands, runs, retained, nextCommand, nextRun, due,
          held, batch, undo>>

-----------------------------------------------------------------------------
(* Rows and answers.                                                       *)

CommandIds == 1 .. MaxCommands
RunIds == 1 .. MaxRuns

\* What a terminal may return: a clock that can bound a search, a page of the
\* archive, or bytes that are neither (undecodable Base64, another declared
\* format, a missing or negative count, an unsupported status, an undocumented
\* record).  own: the page carries the searchID of the run; num: its
\* numOfMatches; len: the length of its InfoList; recs: the distinct records
\* in InfoList.
AnswerType == [kind : {"time", "page", "other"}, own : BOOLEAN,
               status : {"MORE", "OK", "NO MATCH"}, num : Nat, total : Nat,
               len : Nat, recs : SUBSET Records]

ASSUME AnswersAssumption ==
  /\ Answers \subseteq AnswerType
  /\ \A a \in Answers : Cardinality(a.recs) <= a.len

NoAnswer == [kind |-> "none", own |-> FALSE, status |-> "OK", num |-> 0,
             total |-> 0, len |-> 0, recs |-> {}]

Command == [status : {"none", "queued", "sent", "completed", "expired"},
            terminal : Terminals \cup {"none"}, run : Nat,
            phase : {"none", "time", "page"}, position : Nat,
            answer : AnswerType \cup {NoAnswer}]

NoCommand == [status |-> "none", terminal |-> "none", run |-> 0,
              phase |-> "none", position |-> 0, answer |-> NoAnswer]

\* total = -1 stands for NULL; owner: created_by_admin_user_id is not NULL.
Run == [status : {"none", "awaiting_time", "running", "completed", "failed"},
        terminal : Terminals \cup {"none"}, owner : BOOLEAN, total : Int,
        imported : Nat, duplicate : Nat]

NoRun == [status |-> "none", terminal |-> "none", owner |-> FALSE,
          total |-> -1, imported |-> 0, duplicate |-> 0]

Tables == [commands |-> commands, runs |-> runs, retained |-> retained,
           nextCommand |-> nextCommand]

EmptyTables == [commands |-> [c \in CommandIds |-> NoCommand],
                runs |-> [r \in RunIds |-> NoRun],
                retained |-> [t \in Terminals |-> {}], nextCommand |-> 1]

Outstanding(row) == row.status \in {"queued", "sent"}

Active(run) == run.status \in {"awaiting_time", "running"}

\* No transaction holds the rows.
Unlocked == batch = "none"

\* The rows that other transactions see.
CommittedCommands == IF Unlocked THEN commands ELSE undo.commands

-----------------------------------------------------------------------------
(* Queueing and deadlines.                                                 *)

NewCommand(t, run, phase, position) ==
  [NoCommand EXCEPT !.status = "queued", !.terminal = t, !.run = run,
                    !.phase = phase, !.position = position]

\* queueISAPICommandTx succeeds; MaxCommands bounds the model.
CanQueue(t) == t \in online /\ nextCommand <= MaxCommands

\* Mutant: commands that the terminal collected are not expired.
Overdue_QueuedOnly(ts) ==
  {c \in CommandIds : commands[c].terminal \in ts
                      /\ commands[c].status = "queued" /\ c \in due}

\* The rows that expireOverdueISAPICommandsTx resolves, for one terminal or,
\* from the sweep, for all of them.
Overdue(ts) ==
  {c \in CommandIds :
     commands[c].terminal \in ts /\ Outstanding(commands[c]) /\ c \in due}

Expired(ts) ==
  [c \in CommandIds |->
     IF c \in Overdue(ts) THEN [commands[c] EXCEPT !.status = "expired"]
     ELSE commands[c]]

\* Mutant: an expired command leaves its run as it is.
FailedByExpiry_Unlinked(ts) == runs

\* failExpiredAccessEventSyncCommand for every row that expires.
FailedByExpiry(ts) ==
  [r \in RunIds |->
     IF Active(runs[r]) /\ \E c \in Overdue(ts) : commands[c].run = r
     THEN [runs[r] EXCEPT !.status = "failed"] ELSE runs[r]]

QueueISAPICommand(t) ==
  /\ Unlocked
  /\ CanQueue(t)
  /\ Cardinality({c \in CommandIds : commands[c].status # "none"
                                     /\ commands[c].run = 0}) < MaxPlain
  /\ commands' = [commands EXCEPT ![nextCommand] = NewCommand(t, 0, "none", 0)]
  /\ nextCommand' = nextCommand + 1
  /\ UNCHANGED <<online, runs, retained, nextRun, due, held, batch, undo>>

\* Mutant: no look at the active run.
QueueAccessEventSync_Unchecked(t) ==
  /\ Unlocked
  /\ CanQueue(t)
  /\ nextRun <= MaxRuns
  /\ runs' = [FailedByExpiry({t}) EXCEPT
                ![nextRun] = [NoRun EXCEPT !.status = "awaiting_time",
                                           !.terminal = t, !.owner = TRUE]]
  /\ commands' = [Expired({t}) EXCEPT
                    ![nextCommand] = NewCommand(t, nextRun, "time", 0)]
  /\ nextCommand' = nextCommand + 1
  /\ nextRun' = nextRun + 1
  /\ UNCHANGED <<online, retained, due, held, batch, undo>>

\* The active run is looked up after the overdue commands have expired.
QueueAccessEventSync(t) ==
  /\ Unlocked
  /\ CanQueue(t)
  /\ nextRun <= MaxRuns
  /\ \A r \in RunIds :
       FailedByExpiry({t})[r].terminal = t => ~Active(FailedByExpiry({t})[r])
  /\ runs' = [FailedByExpiry({t}) EXCEPT
                ![nextRun] = [NoRun EXCEPT !.status = "awaiting_time",
                                           !.terminal = t, !.owner = TRUE]]
  /\ commands' = [Expired({t}) EXCEPT
                    ![nextCommand] = NewCommand(t, nextRun, "time", 0)]
  /\ nextCommand' = nextCommand + 1
  /\ nextRun' = nextRun + 1
  /\ UNCHANGED <<online, retained, due, held, batch, undo>>

\* The sweep of MaintainISAPICommandDeadlines.
ExpireOverdueISAPICommands ==
  /\ Unlocked
  /\ Overdue(Terminals) # {}
  /\ commands' = Expired(Terminals)
  /\ runs' = FailedByExpiry(Terminals)
  /\ UNCHANGED <<online, retained, nextCommand, nextRun, due, held, batch,
                 undo>>

-----------------------------------------------------------------------------
(* CommandRequest.                                                         *)

Claimable(t) ==
  {c \in CommandIds : commands[c].terminal = t /\ commands[c].status = "queued"
                      /\ c \notin due}

\* Mutant: the newest ClaimLimit of them.
Selected_Newest(t) ==
  {c \in Claimable(t) :
     Cardinality({d \in Claimable(t) : d > c}) < ClaimLimit}

\* The oldest ClaimLimit of them.
Selected(t) ==
  {c \in Claimable(t) :
     Cardinality({d \in Claimable(t) : d < c}) < ClaimLimit}

\* The rows are sent before the response is written, and the response may be
\* lost: its challenge is not persisted, the connection breaks, the process
\* stops.
ClaimISAPICommands(t) ==
  /\ Unlocked
  /\ commands' = [c \in CommandIds |->
                    IF c \in Selected(t)
                    THEN [commands[c] EXCEPT !.status = "sent"]
                    ELSE Expired({t})[c]]
  /\ runs' = FailedByExpiry({t})
  /\ held' \in {held, held \cup Selected(t)}
  /\ UNCHANGED <<online, retained, nextCommand, nextRun, due, batch, undo>>

-----------------------------------------------------------------------------
(* CommandResult: a batch of answers to commands that the terminal holds.  *)

CompleteISAPICommands(t) ==
  /\ Unlocked
  /\ batch' = t
  /\ undo' = Tables
  /\ commands' = Expired({t})
  /\ runs' = FailedByExpiry({t})
  /\ UNCHANGED <<online, retained, nextCommand, nextRun, due, held>>

\* The next result of the batch is an answer to c, a command of the terminal.
ResultFor(c) ==
  /\ ~Unlocked
  /\ c \in held
  /\ commands[c].terminal = batch
  /\ UNCHANGED <<online, nextRun, due, held, batch, undo>>

Completed(c, a) == [commands[c] EXCEPT !.status = "completed", !.answer = a]

\* A sent command that no sync run waits for.
PlainResult(c, a) ==
  /\ ResultFor(c)
  /\ commands[c].status = "sent" /\ commands[c].run = 0
  /\ commands' = [commands EXCEPT ![c] = Completed(c, a)]
  /\ UNCHANGED <<runs, retained, nextCommand>>

\* Mutant: a changed result replaces the completed one.
RepeatedResult_Overwrites(c, a) ==
  /\ ResultFor(c)
  /\ commands[c].status = "completed"
  /\ commands' = [commands EXCEPT ![c] = Completed(c, a)]
  /\ UNCHANGED <<runs, retained, nextCommand>>

\* A byte-for-byte duplicate is idempotent.
RepeatedResult(c, a) ==
  /\ ResultFor(c)
  /\ commands[c].status = "completed" /\ commands[c].answer = a
  /\ UNCHANGED <<commands, runs, retained, nextCommand>>

-----------------------------------------------------------------------------
(* CommandResult for the command of a sync run: completeAccessEventSync-   *)
(* Command, in the same transaction.                                       *)

\* The answer completes c; the run of c is active.
SyncResult(c, a) ==
  /\ ResultFor(c)
  /\ commands[c].status = "sent" /\ commands[c].run # 0
  /\ Active(runs[commands[c].run])

\* The pagination state that ParseRetainedEventPage accepts.
ParseRetainedEventPage(a) ==
  /\ a.kind = "page"
  /\ a.num <= PageSize /\ a.total <= MaxTotal
  /\ a.num = a.len
  /\ a.status = "NO MATCH" => a.num = 0 /\ a.total = 0

\* The clock can bound the search of the run.
ClockFits(run, a) ==
  run.status = "awaiting_time" /\ a.kind = "time" /\ run.owner

\* Mutant: a page without records may announce more of them.
PageFits_Standing(run, position, a) ==
  /\ run.status = "running"
  /\ ParseRetainedEventPage(a)
  /\ a.own
  /\ run.total # -1 => a.total = run.total
  /\ position + a.num <= a.total
  /\ CASE a.status = "NO MATCH" -> position = 0
       [] a.status = "MORE" -> position + a.num < a.total
       [] OTHER -> position + a.num = a.total

\* The page continues the search of the run where it stands.
PageFits(run, position, a) ==
  /\ run.status = "running"
  /\ ParseRetainedEventPage(a)
  /\ a.own
  /\ run.total # -1 => a.total = run.total
  /\ position + a.num <= a.total
  /\ CASE a.status = "NO MATCH" -> position = 0
       [] a.status = "MORE" -> a.num # 0 /\ position + a.num < a.total
       [] OTHER -> position + a.num = a.total

\* Mutant: every record of the page counts as imported.
Imported_CountsAll(t, a) == a.len

\* insertRetainedAccessEvents: records already retained count as duplicates.
Imported(t, a) == Cardinality(a.recs \ retained[t])

\* Mutant: the duplicates are the imports less the page.
Counted_Swapped(run, a) ==
  [run EXCEPT !.total = a.total,
              !.imported = run.imported + Imported(run.terminal, a),
              !.duplicate = run.duplicate
                              + (Imported(run.terminal, a) - a.len)]

\* Mutant: duplicates are not counted.
Counted_NewOnly(run, a) ==
  [run EXCEPT !.total = a.total, !.imported = run.imported + Imported(run.terminal, a)]

Counted(run, a) ==
  [run EXCEPT !.total = a.total,
              !.imported = run.imported + Imported(run.terminal, a),
              !.duplicate = run.duplicate
                              + (a.len - Imported(run.terminal, a))]

\* Mutant: only the last page is stored.
Retain_LastPage(t, a) ==
  retained' = IF a.status = "MORE" THEN retained
              ELSE [retained EXCEPT ![t] = @ \cup a.recs]

Retain(t, a) == retained' = [retained EXCEPT ![t] = @ \cup a.recs]

Fail(r, run) == runs' = [runs EXCEPT ![r] = [run EXCEPT !.status = "failed"]]

\* The clock bounds the search; the first page is asked for.
SearchStarts(c, a) ==
  LET r == commands[c].run
      t == commands[c].terminal IN
  /\ SyncResult(c, a)
  /\ commands[c].phase = "time" /\ ClockFits(runs[r], a) /\ CanQueue(t)
  /\ runs' = [runs EXCEPT ![r].status = "running"]
  /\ commands' = [commands EXCEPT ![c] = Completed(c, a),
                                  ![nextCommand] = NewCommand(t, r, "page", 0)]
  /\ nextCommand' = nextCommand + 1
  /\ UNCHANGED retained

\* A page that is not the last: the next one is asked for.
NextPage(c, a) ==
  LET r == commands[c].run
      t == commands[c].terminal
      next == commands[c].position + a.num IN
  /\ SyncResult(c, a)
  /\ commands[c].phase = "page"
  /\ PageFits(runs[r], commands[c].position, a) /\ a.status = "MORE"
  /\ runs[r].owner /\ CanQueue(t)
  /\ Retain(t, a)
  /\ runs' = [runs EXCEPT ![r] = Counted(runs[r], a)]
  /\ commands' = [commands EXCEPT
                    ![c] = Completed(c, a),
                    ![nextCommand] = NewCommand(t, r, "page", next)]
  /\ nextCommand' = nextCommand + 1

\* The last page: the run is completed if every record is accounted for.
LastPage(c, a) ==
  LET r == commands[c].run
      run == Counted(runs[r], a) IN
  /\ SyncResult(c, a)
  /\ commands[c].phase = "page"
  /\ PageFits(runs[r], commands[c].position, a) /\ a.status # "MORE"
  /\ Retain(commands[c].terminal, a)
  /\ IF run.imported + run.duplicate = a.total
     THEN runs' = [runs EXCEPT ![r] = [run EXCEPT !.status = "completed"]]
     ELSE Fail(r, runs[r])
  /\ commands' = [commands EXCEPT ![c] = Completed(c, a)]
  /\ UNCHANGED nextCommand

\* The answer is not what the run waits for: nothing is retained.
AnswerFailsSync(c, a) ==
  LET r == commands[c].run IN
  /\ SyncResult(c, a)
  /\ IF commands[c].phase = "time"
     THEN ~ClockFits(runs[r], a)
     ELSE ~PageFits(runs[r], commands[c].position, a)
  /\ Fail(r, runs[r])
  /\ commands' = [commands EXCEPT ![c] = Completed(c, a)]
  /\ UNCHANGED <<retained, nextCommand>>

\* There are more pages, but the next cannot be queued: the administrator is
\* gone or the terminal is not online.  The records of this page are retained
\* all the same.
PageFailsSync(c, a) ==
  LET r == commands[c].run
      t == commands[c].terminal
      run == Counted(runs[r], a) IN
  /\ SyncResult(c, a)
  /\ commands[c].phase = "page"
  /\ PageFits(runs[r], commands[c].position, a) /\ a.status = "MORE"
  /\ \/ ~runs[r].owner /\ Fail(r, runs[r])
     \/ runs[r].owner /\ t \notin online /\ Fail(r, run)
  /\ Retain(t, a)
  /\ commands' = [commands EXCEPT ![c] = Completed(c, a)]
  /\ UNCHANGED nextCommand

\* The clock is right, but no search can be queued.
ClockFailsSync(c, a) ==
  LET r == commands[c].run IN
  /\ SyncResult(c, a)
  /\ commands[c].phase = "time" /\ ClockFits(runs[r], a)
  /\ commands[c].terminal \notin online
  /\ Fail(r, runs[r])
  /\ commands' = [commands EXCEPT ![c] = Completed(c, a)]
  /\ UNCHANGED <<retained, nextCommand>>

Commit ==
  /\ ~Unlocked
  /\ batch' = "none"
  /\ undo' = EmptyTables
  /\ UNCHANGED <<online, commands, runs, retained, nextCommand, nextRun,
                 due, held>>

\* An unknown, conflicting, queued or expired command in the batch, a failed
\* statement, or a crash: nothing of the batch remains, and the numbers of the
\* commands it queued are free again.
Rollback ==
  /\ ~Unlocked
  /\ commands' = undo.commands
  /\ runs' = undo.runs
  /\ retained' = undo.retained
  /\ nextCommand' = undo.nextCommand
  /\ batch' = "none"
  /\ undo' = EmptyTables
  /\ UNCHANGED <<online, nextRun, due, held>>

-----------------------------------------------------------------------------
(* The environment.                                                        *)

\* Also while a batch is being stored.  The deadline of a command that has
\* ended, or that is not committed, is of no consequence.
DeadlinePasses(c) ==
  /\ Outstanding(CommittedCommands[c]) /\ c \notin due
  /\ due' = due \cup {c}
  /\ UNCHANGED <<online, commands, runs, retained, nextCommand, nextRun,
                 held, batch, undo>>

\* TransitionTerminalState by the session handlers, which no lock on commands
\* or runs delays.
ConnectionChanges(t) ==
  /\ online' \in {online \cup {t}, online \ {t}}
  /\ UNCHANGED <<commands, runs, retained, nextCommand, nextRun, due, held,
                 batch, undo>>

\* ReconcileConfiguredAdministrator, at startup, removes the account: ON DELETE
\* SET NULL.
AdministratorReplaced ==
  /\ Unlocked
  /\ runs' = [r \in RunIds |-> [runs[r] EXCEPT !.owner = FALSE]]
  /\ UNCHANGED <<online, commands, retained, nextCommand, nextRun, due,
                 held, batch, undo>>

-----------------------------------------------------------------------------
(* The specification.                                                      *)

Init ==
  /\ online = {}
  /\ commands = [c \in CommandIds |-> NoCommand]
  /\ runs = [r \in RunIds |-> NoRun]
  /\ retained = [t \in Terminals |-> {}]
  /\ nextCommand = 1 /\ nextRun = 1
  /\ due = {} /\ held = {}
  /\ batch = "none" /\ undo = EmptyTables

BatchResult(c, a) ==
  \/ PlainResult(c, a) \/ RepeatedResult(c, a) \/ SearchStarts(c, a)
  \/ NextPage(c, a) \/ LastPage(c, a) \/ AnswerFailsSync(c, a)
  \/ PageFailsSync(c, a) \/ ClockFailsSync(c, a)

Next ==
  \/ \E t \in Terminals :
       \/ QueueISAPICommand(t) \/ QueueAccessEventSync(t)
       \/ ClaimISAPICommands(t) \/ CompleteISAPICommands(t)
       \/ ConnectionChanges(t)
  \/ \E c \in CommandIds, a \in Answers : BatchResult(c, a)
  \/ Commit \/ Rollback
  \/ ExpireOverdueISAPICommands
  \/ \E c \in CommandIds : DeadlinePasses(c)
  \/ AdministratorReplaced

Spec == Init /\ [][Next]_vars

\* Transactions end, deadlines pass, and the sweep, one every five seconds,
\* gets its turn on the rows again and again.
Fairness ==
  /\ WF_vars(Commit \/ Rollback)
  /\ \A c \in CommandIds : WF_vars(DeadlinePasses(c))
  /\ SF_vars(ExpireOverdueISAPICommands)

FairSpec == Spec /\ Fairness

-----------------------------------------------------------------------------
(* Properties.                                                             *)

CommandsType(cs) == cs \in [CommandIds -> Command]
RunsType(rs) == rs \in [RunIds -> Run]
RetainedType(ret) == ret \in [Terminals -> SUBSET Records]

\* Type invariant: the columns of every row, and of what a rollback restores,
\* have the types and status values of the schema.
TypeOK ==
  /\ online \subseteq Terminals
  /\ CommandsType(commands) /\ CommandsType(undo.commands)
  /\ RunsType(runs) /\ RunsType(undo.runs)
  /\ RetainedType(retained) /\ RetainedType(undo.retained)
  /\ nextCommand \in 1 .. MaxCommands + 1
  /\ undo.nextCommand \in 1 .. MaxCommands + 1
  /\ nextRun \in 1 .. MaxRuns + 1
  /\ due \subseteq CommandIds /\ held \subseteq CommandIds
  /\ batch \in Terminals \cup {"none"}

\* A run waits for exactly one command, of the phase it is in, and only an
\* active run does.
RunsWait(cs, rs) ==
  /\ \A r \in RunIds :
       Active(rs[r]) => \E c \in CommandIds : cs[c].run = r /\ Outstanding(cs[c])
  /\ \A c \in CommandIds :
       cs[c].run # 0 /\ Outstanding(cs[c]) =>
         /\ cs[c].run \in RunIds
         /\ rs[cs[c].run].status =
              (IF cs[c].phase = "time" THEN "awaiting_time" ELSE "running")
         /\ rs[cs[c].run].terminal = cs[c].terminal
  /\ \A c, d \in CommandIds :
       /\ cs[c].run # 0 /\ cs[c].run = cs[d].run
       /\ Outstanding(cs[c]) /\ Outstanding(cs[d])
       => c = d

\* An active sync run always waits for exactly one outstanding command, of the
\* phase it is in, and no outstanding command belongs to a run that has ended:
\* a run can neither hang without a command nor be answered twice
\* (completeAccessEventSyncCommand, failExpiredAccessEventSyncCommand).
ActiveRunWaitsForOneCommand == RunsWait(commands, runs)

OneActive(rs) ==
  \A r, s \in RunIds :
    Active(rs[r]) /\ Active(rs[s]) /\ rs[r].terminal = rs[s].terminal => r = s

\* A terminal has at most one active sync run (the 409 of
\* QueueAccessEventSync), also when runs end by expiry in the same transaction
\* and when the results that ended one are rolled back.  That two starts follow
\* each other is the work of pg_advisory_xact_lock and not checked here.
OneActiveRunPerTerminal == OneActive(runs)

Accounted(cs, rs) ==
  /\ \A c \in CommandIds :
       cs[c].run # 0 /\ Outstanding(cs[c]) /\ cs[c].phase = "page" =>
         cs[c].position = rs[cs[c].run].imported + rs[cs[c].run].duplicate
  /\ \A r \in RunIds :
       rs[r].status = "completed" => rs[r].imported + rs[r].duplicate = rs[r].total
  /\ \A r \in RunIds :
       rs[r].status = "awaiting_time" => rs[r].imported = 0 /\ rs[r].duplicate = 0

\* The search position of the outstanding page is the number of records counted
\* so far, none before the clock is known, and a completed run counted every
\* record the terminal announced:
\* a page is neither skipped nor counted twice (completeAccessEventSyncPage).
PagesAreAccountedFor == Accounted(commands, runs)

Distinct(cs) ==
  \A c, d \in CommandIds :
    /\ cs[c].run # 0 /\ cs[c].run = cs[d].run
    /\ cs[c].phase = cs[d].phase /\ cs[c].position = cs[d].position
    => c = d

\* The pages of a run start at different positions: the UNIQUE link of
\* access_event_sync_commands never aborts the transaction that stores a
\* page, which would make the terminal's answer fail for ever.
PagePositionsAreDistinct == Distinct(commands)

RecordsKept(cs, rs, ret) ==
  \A c \in CommandIds :
    /\ cs[c].run # 0 /\ cs[c].phase = "page" /\ cs[c].status = "completed"
    /\ rs[cs[c].run].status \in {"running", "completed"}
    => cs[c].answer.recs \subseteq ret[cs[c].terminal]

\* Every record on every page of a run that is going on or completed is
\* retained, whatever was rolled back and delivered again meanwhile
\* (insertRetainedAccessEvents).
PagesAreRetained == RecordsKept(commands, runs, retained)

\* The imports that the runs of t report, one by one: as many as their sum.
Imports(rs, t) ==
  UNION {{r} \X (1 .. rs[r].imported) : r \in {s \in RunIds : rs[s].terminal = t}}

ImportsKept(rs, ret) ==
  \A t \in Terminals : Cardinality(Imports(rs, t)) <= Cardinality(ret[t])

\* Records are imported once: the imports that the runs of a terminal report
\* never add up to more than the records retained for it, whatever pages of
\* different runs overlap (ON CONFLICT DO NOTHING).
ImportsAreRetained == ImportsKept(runs, retained)

\* A claim that sends a command leaves no older command of the terminal queued
\* unless its deadline has passed (ORDER BY created_at, LIMIT).
OldestFirst ==
  [][\A c, d \in CommandIds :
       /\ c < d /\ commands[c].terminal = commands[d].terminal
       /\ commands[c].status = "queued" /\ c \notin due
       /\ commands[d].status = "queued" /\ commands'[d].status = "sent"
       => commands'[c].status = "sent"]_vars

Lifecycle == INSTANCE CommandLifecycle WITH
  Commands <- CommandIds,
  state <- [c \in CommandIds |-> CommittedCommands[c].status],
  answer <- [c \in CommandIds |-> CommittedCommands[c].answer],
  overdue <- due

\* The committed rows implement CommandLifecycle: a command is sent at most once
\* and before its deadline, keeps its one answer, and ends once.
ImplementsLifecycle == Lifecycle!Spec

\* Every command that is queued ends completed or expired, though the terminal
\* never asks for it, never answers it, or answers what is rejected
\* (MaintainISAPICommandDeadlines).
CommandsEnd ==
  \A c \in CommandIds :
    Unlocked /\ Outstanding(commands[c]) ~>
      Unlocked /\ commands[c].status \in {"completed", "expired"}

\* Every sync run ends completed or failed.
RunsEnd ==
  \A r \in RunIds :
    Unlocked /\ Active(runs[r]) ~>
      Unlocked /\ runs[r].status \in {"completed", "failed"}

-----------------------------------------------------------------------------
(* The inductive invariant.                                                *)

\* Rows that do not exist yet.
RowsFree(cs, rs, nc, nr) ==
  /\ \A c \in CommandIds : c >= nc => cs[c] = NoCommand
  /\ \A r \in RunIds : r >= nr => rs[r] = NoRun

\* The sync link of a command.
Linked(cs, rs, nr) ==
  \A c \in CommandIds :
    cs[c].run # 0 => /\ cs[c].run \in RunIds /\ cs[c].run < nr
                     /\ cs[c].phase # "none" /\ cs[c].terminal \in Terminals
                     /\ cs[c].terminal = rs[cs[c].run].terminal

\* Nothing of a run lies at or behind the page it waits for.
PositionsGrow(cs) ==
  \A c, d \in CommandIds :
    cs[c].run # 0 /\ cs[d].run = cs[c].run /\ Outstanding(cs[c]) /\ d # c =>
      /\ cs[c].phase = "page"
      /\ cs[d].phase = "page" => cs[d].position < cs[c].position

\* The response columns of the rows.
AnswersMatch(cs) ==
  \A c \in CommandIds : cs[c].status # "completed" => cs[c].answer = NoAnswer

TablesType(cs, rs, ret, nc) ==
  /\ CommandsType(cs) /\ RunsType(rs) /\ RetainedType(ret)
  /\ nc \in 1 .. MaxCommands + 1

TablesInv(cs, rs, ret, nc, nr) ==
  /\ TablesType(cs, rs, ret, nc)
  /\ RowsFree(cs, rs, nc, nr)
  /\ Linked(cs, rs, nr)
  /\ PositionsGrow(cs)
  /\ AnswersMatch(cs)
  /\ RunsWait(cs, rs)
  /\ OneActive(rs)
  /\ Accounted(cs, rs)
  /\ Distinct(cs)
  /\ RecordsKept(cs, rs, ret)

\* What an open batch may have done to a row.
Moved(before, after, c) ==
  \/ after = before
  \/ before.status = "none" /\ after.status = "queued" /\ after.answer = NoAnswer
  \/ /\ before.status = "sent" /\ after.status = "completed"
     /\ after.answer \in Answers
  \/ /\ Outstanding(before) /\ c \in due
     /\ after.status = "expired" /\ after.answer = NoAnswer

BatchMoves ==
  ~Unlocked => \A c \in CommandIds : Moved(undo.commands[c], commands[c], c)

\* The sums hold in the tables that a rollback restores, too.
ImportsInv ==
  ImportsKept(runs, retained) /\ ImportsKept(undo.runs, undo.retained)

IInv ==
  /\ TypeOK
  /\ TablesInv(commands, runs, retained, nextCommand, nextRun)
  /\ TablesInv(undo.commands, undo.runs, undo.retained, undo.nextCommand, nextRun)
  /\ BatchMoves
=============================================================================
