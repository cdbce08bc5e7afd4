------------------------ MODULE ISAPICommandsProofs ------------------------
(***************************************************************************)
(* Theorems about ISAPICommands for every set of terminals, records and    *)
(* answers and every bound: the type invariant, the invariants of the sync *)
(* runs, that the committed rows implement CommandLifecycle, the order of  *)
(* delivery, and the sum of the imports.                                   *)
(***************************************************************************)
EXTENDS ISAPICommandsTables, FiniteSetTheorems

Now == TablesInv(commands, runs, retained, nextCommand, nextRun)

-----------------------------------------------------------------------------
(* What the actions are built from.                                        *)

\* The overdue rows of some terminals exist and are outstanding.
LEMMA OverdueRows ==
  ASSUME NEW ts
  PROVE /\ Overdue(ts) \subseteq CommandIds
        /\ \A c \in Overdue(ts) : Outstanding(commands[c]) /\ c \in due
  BY Zenon DEF Overdue

\* Expiry keeps the tables in order.
LEMMA ExpiryInv ==
  ASSUME Now, nextRun \in Nat, NEW ts
  PROVE TablesInv(Expired(ts), FailedByExpiry(ts), retained, nextCommand, nextRun)
  <1> DEFINE S == Overdue(ts)
  <1>1. S \in SUBSET CommandIds /\ \A c \in S : Outstanding(commands[c])
    BY OverdueRows, Zenon
  <1> HIDE DEF S
  <1>2. TablesInv(
          [c \in CommandIds |->
             IF c \in S THEN [commands[c] EXCEPT !.status = "expired"]
             ELSE commands[c]],
          [r \in RunIds |->
             IF Active(runs[r]) /\ \E c \in S : commands[c].run = r
             THEN [runs[r] EXCEPT !.status = "failed"] ELSE runs[r]],
          retained, nextCommand, nextRun)
    BY <1>1, ExpireRows DEF Now
  <1> QED BY <1>2, Zenon DEF Expired, FailedByExpiry, S

\* A page imports at most as many records as it lists.
LEMMA ImportedBound ==
  ASSUME NEW a \in Answers, NEW t
  PROVE /\ Imported(t, a) \in Nat /\ Imported(t, a) <= a.len
        /\ a.len \in Nat /\ a.num \in Nat /\ a.total \in Nat
        /\ a.recs \subseteq Records
  <1>1. /\ a.recs \subseteq Records /\ a.len \in Nat /\ a.num \in Nat
        /\ a.total \in Nat /\ Cardinality(a.recs) <= a.len
    BY AnswersAssumption, Zenon DEF AnswerType
  <1>2. IsFiniteSet(a.recs)
    BY <1>1, RecordsAssumption, FS_Subset, Zenon
  <1>3. /\ IsFiniteSet(a.recs \ retained[t])
        /\ Cardinality(a.recs \ retained[t]) <= Cardinality(a.recs)
    BY <1>2, FS_Subset, Zenon
  <1>4. Cardinality(a.recs \ retained[t]) \in Nat /\ Cardinality(a.recs) \in Nat
    BY <1>2, <1>3, FS_CardinalityType, Zenon
  <1> QED BY <1>1, <1>3, <1>4 DEF Imported

\* The counters of a run after a page.
LEMMA CountedRun ==
  ASSUME NEW a \in Answers, NEW run \in Run
  PROVE /\ Counted(run, a) \in Run
        /\ Counted(run, a).status = run.status
        /\ Counted(run, a).terminal = run.terminal
        /\ Counted(run, a).total = a.total
        /\ Counted(run, a).imported = run.imported + Imported(run.terminal, a)
        /\ Counted(run, a).imported + Counted(run, a).duplicate
             = run.imported + run.duplicate + a.len
  <1> DEFINE i == Imported(run.terminal, a)
             x == run.imported + i
             y == run.duplicate + (a.len - i)
             z == a.total
  <1>1. i \in Nat /\ i <= a.len /\ a.len \in Nat /\ z \in Nat
    BY ImportedBound, Zenon
  <1> HIDE DEF i
  <1>2. /\ run.imported \in Nat /\ run.duplicate \in Nat
        /\ x \in Nat /\ y \in Nat
        /\ x + y = run.imported + run.duplicate + a.len
    BY <1>1 DEF Run
  <1>3. Counted(run, a) = [run EXCEPT !.total = z, !.imported = x, !.duplicate = y]
    BY Zenon DEF Counted, i
  <1> HIDE DEF x, y, z
  <1> DEFINE n == [run EXCEPT !.total = z, !.imported = x, !.duplicate = y]
  <1>4. z \in Int /\ x \in Nat /\ y \in Nat
    BY <1>1, <1>2
  <1>5. n \in Run
    BY <1>4, Zenon DEF Run
  <1>6. n.status = run.status /\ n.terminal = run.terminal
    BY Zenon DEF Run
  <1>7. n.total = z /\ n.imported = x /\ n.duplicate = y
    BY Zenon DEF Run
  <1> HIDE DEF n
  <1>8. Counted(run, a) = n
    BY <1>3, Zenon DEF n
  <1> QED BY <1>2, <1>5, <1>6, <1>7, <1>8, Zenon DEF x, z, i

\* Retaining a page keeps what was retained and adds its records.
LEMMA RetainPage ==
  ASSUME RetainedType(retained), NEW a \in Answers, NEW t \in Terminals, Retain(t, a)
  PROVE /\ RetainedType(retained')
        /\ \A u \in Terminals : retained[u] \subseteq retained'[u]
        /\ a.recs \subseteq retained'[t]
  <1>1. a.recs \subseteq Records
    BY ImportedBound, Zenon
  <1> QED BY <1>1, Zenon DEF RetainedType, Retain

\* The command and the run that a sync result is about.
LEMMA SyncFacts ==
  ASSUME IInv, NEW c \in CommandIds, NEW a \in Answers, SyncResult(c, a)
  PROVE /\ commands[c].status = "sent" /\ commands[c].run # 0
        /\ commands[c].run \in RunIds /\ commands[c].terminal \in Terminals
        /\ runs[commands[c].run] \in Run
        /\ runs[commands[c].run].terminal = commands[c].terminal
        /\ commands[c] \in Command
        /\ a \in AnswerType /\ nextRun \in Nat /\ nextRun' = nextRun
        /\ RetainedType(retained) /\ nextCommand \in Nat
        /\ commands[c].phase \in {"time", "page"}
        /\ commands[c].phase = "page" =>
             commands[c].position = runs[commands[c].run].imported
                                      + runs[commands[c].run].duplicate
        /\ runs[commands[c].run].status = "awaiting_time" =>
             /\ runs[commands[c].run].imported = 0
             /\ runs[commands[c].run].duplicate = 0
  <1>1. commands[c].status = "sent" /\ commands[c].run # 0 /\ nextRun' = nextRun
    BY Zenon DEF SyncResult, ResultFor
  <1>2. TypeOK /\ Now
    BY Zenon DEF IInv, Now
  <1>3. /\ commands \in [CommandIds -> Command] /\ runs \in [RunIds -> Run]
        /\ RetainedType(retained) /\ nextCommand \in Nat /\ nextRun \in Nat
    BY <1>2, CommandBoundsAssumption DEF TypeOK, CommandsType, RunsType
  <1>4. /\ commands[c].run \in RunIds /\ commands[c].terminal \in Terminals
        /\ commands[c].terminal = runs[commands[c].run].terminal
        /\ commands[c].phase # "none"
    BY <1>1, <1>2, Zenon DEF Now, TablesInv, Linked
  <1>5. commands[c].phase \in {"time", "page"}
    BY <1>3, <1>4, Zenon DEF Command
  <1>6. Outstanding(commands[c])
    BY <1>1, Zenon DEF Outstanding
  <1>7. /\ commands[c].phase = "page" =>
             commands[c].position = runs[commands[c].run].imported
                                      + runs[commands[c].run].duplicate
        /\ runs[commands[c].run].status = "awaiting_time" =>
             /\ runs[commands[c].run].imported = 0
             /\ runs[commands[c].run].duplicate = 0
    BY <1>1, <1>2, <1>4, <1>6, Zenon DEF Now, TablesInv, Accounted
  <1> QED BY <1>1, <1>3, <1>4, <1>5, <1>7, AnswersAssumption, Zenon

-----------------------------------------------------------------------------
(* The tables in force after each action.                                  *)

\* Queueing a command outside every run.
LEMMA QueueCommandInv ==
  ASSUME IInv, NEW t \in Terminals, QueueISAPICommand(t)
  PROVE Now'
  <1>1. /\ TablesInv(commands, runs, retained, nextCommand, nextRun)
        /\ nextRun \in Nat /\ nextCommand <= MaxCommands
    BY CommandBoundsAssumption DEF IInv, TypeOK, QueueISAPICommand, CanQueue
  <1>2. TablesInv([commands EXCEPT ![nextCommand] = NewCommand(t, 0, "none", 0)],
                  runs, retained, nextCommand + 1, nextRun)
    BY <1>1, AddPlain, Zenon
  <1> QED BY <1>2, Zenon DEF QueueISAPICommand, Now

\* Queueing a sync run: the overdue commands expire first.
LEMMA QueueSyncInv ==
  ASSUME IInv, NEW t \in Terminals, QueueAccessEventSync(t)
  PROVE Now'
  <1> DEFINE cs == Expired({t})
             rs == FailedByExpiry({t})
  <1>1. nextRun \in Nat /\ nextRun \in RunIds /\ nextCommand <= MaxCommands /\ Now
    BY CommandBoundsAssumption DEF IInv, TypeOK, QueueAccessEventSync, CanQueue,
       RunIds, Now
  <1>2. TablesInv(cs, rs, retained, nextCommand, nextRun)
    BY <1>1, ExpiryInv, Zenon
  <1>3. /\ \A r \in RunIds : rs[r].terminal = t => ~Active(rs[r])
        /\ runs' = [rs EXCEPT ![nextRun] = [NoRun EXCEPT !.status = "awaiting_time",
                                                         !.terminal = t,
                                                         !.owner = TRUE]]
        /\ commands' = [cs EXCEPT ![nextCommand] = NewCommand(t, nextRun, "time", 0)]
        /\ nextCommand' = nextCommand + 1 /\ nextRun' = nextRun + 1
        /\ retained' = retained
    BY Zenon DEF QueueAccessEventSync
  <1> HIDE DEF cs, rs
  <1>4. TablesInv([cs EXCEPT ![nextCommand] = NewCommand(t, nextRun, "time", 0)],
                  [rs EXCEPT ![nextRun] = [NoRun EXCEPT !.status = "awaiting_time",
                                                        !.terminal = t,
                                                        !.owner = TRUE]],
                  retained, nextCommand + 1, nextRun + 1)
    BY <1>1, <1>2, <1>3, AddRun, Zenon
  <1> QED BY <1>3, <1>4, Zenon DEF Now

\* The sweep, and the beginning of a CommandResult.
LEMMA ExpireInv ==
  ASSUME IInv,
         \/ ExpireOverdueISAPICommands
         \/ \E t \in Terminals : CompleteISAPICommands(t)
  PROVE Now'
  <1>1. Now /\ nextRun \in Nat
    BY CommandBoundsAssumption DEF IInv, TypeOK, Now
  <1>2. PICK ts : /\ commands' = Expired(ts) /\ runs' = FailedByExpiry(ts)
                  /\ retained' = retained /\ nextCommand' = nextCommand
                  /\ nextRun' = nextRun
    BY Zenon DEF ExpireOverdueISAPICommands, CompleteISAPICommands
  <1> QED BY <1>1, <1>2, ExpiryInv, Zenon DEF Now

\* CommandRequest: expiry, then the selected rows are sent.
LEMMA ClaimInv ==
  ASSUME IInv, NEW t \in Terminals, ClaimISAPICommands(t)
  PROVE Now'
  <1> DEFINE cs == Expired({t})
             rs == FailedByExpiry({t})
             S == Selected(t)
  <1>1. Now /\ nextRun \in Nat
    BY CommandBoundsAssumption DEF IInv, TypeOK, Now
  <1>2. TablesInv(cs, rs, retained, nextCommand, nextRun)
    BY <1>1, ExpiryInv, Zenon
  <1>3. /\ S \in SUBSET CommandIds
        /\ \A c \in S : commands[c].status = "queued" /\ cs[c] = commands[c]
    BY Zenon DEF Selected, Claimable, Expired, Overdue
  <1>4. commands' = [c \in CommandIds |->
                       IF c \in S THEN [commands[c] EXCEPT !.status = "sent"]
                       ELSE cs[c]]
    BY Zenon DEF ClaimISAPICommands
  <1>5. runs' = rs /\ retained' = retained /\ nextCommand' = nextCommand
        /\ nextRun' = nextRun
    BY Zenon DEF ClaimISAPICommands
  <1> HIDE DEF cs, rs, S
  <1>6. commands' = [c \in CommandIds |->
                       IF c \in S THEN [cs[c] EXCEPT !.status = "sent"] ELSE cs[c]]
    BY <1>3, <1>4, Zenon
  <1>7. TablesInv([c \in CommandIds |->
                     IF c \in S THEN [cs[c] EXCEPT !.status = "sent"] ELSE cs[c]],
                  rs, retained, nextCommand, nextRun)
    BY <1>1, <1>2, <1>3, SendRows
  <1> QED BY <1>5, <1>6, <1>7, Zenon DEF Now

\* A result outside every run.
LEMMA PlainResultInv ==
  ASSUME IInv, NEW c \in CommandIds, NEW a \in Answers,
         PlainResult(c, a) \/ RepeatedResult(c, a)
  PROVE Now'
  <1>1. Now /\ nextRun \in Nat /\ a \in AnswerType
    BY CommandBoundsAssumption, AnswersAssumption DEF IInv, TypeOK, Now
  <1>2. CASE RepeatedResult(c, a)
    BY <1>1, <1>2, Zenon DEF RepeatedResult, ResultFor, Now
  <1>3. CASE PlainResult(c, a)
    <2>1. /\ commands[c].run = 0 /\ commands[c].status = "sent"
          /\ commands' = [commands EXCEPT ![c] =
                            [commands[c] EXCEPT !.status = "completed", !.answer = a]]
          /\ runs' = runs /\ retained' = retained /\ nextCommand' = nextCommand
          /\ nextRun' = nextRun
      BY <1>3, Zenon DEF PlainResult, ResultFor, Completed
    <2>2. TablesInv([commands EXCEPT ![c] =
                       [commands[c] EXCEPT !.status = "completed", !.answer = a]],
                    runs, retained, nextCommand, nextRun)
      BY <1>1, <2>1, PlainDone, Zenon DEF Now
    <2> QED BY <2>1, <2>2, Zenon DEF Now
  <1> QED BY <1>2, <1>3, Zenon

\* A result that ends its run.
LEMMA EndResultInv ==
  ASSUME IInv, NEW c \in CommandIds, NEW a \in Answers,
         SyncResult(c, a), NEW run \in Run,
         run.terminal = runs[commands[c].run].terminal,
         run.status \in {"completed", "failed"},
         run.status = "completed" =>
           /\ run.imported + run.duplicate = run.total
           /\ a.recs \subseteq retained'[commands[c].terminal],
         RetainedType(retained'),
         \A t \in Terminals : retained[t] \subseteq retained'[t],
         commands' = [commands EXCEPT ![c] = Completed(c, a)],
         runs' = [runs EXCEPT ![commands[c].run] = run],
         nextCommand' = nextCommand
  PROVE Now'
  <1>1. /\ commands[c].status = "sent" /\ commands[c].run # 0
        /\ a \in AnswerType /\ nextRun \in Nat /\ nextRun' = nextRun
    BY SyncFacts, Zenon
  <1>2. TablesInv(commands, runs, retained, nextCommand, nextRun)
    BY Zenon DEF IInv
  <1>3. TablesInv([commands EXCEPT ![c] =
                     [commands[c] EXCEPT !.status = "completed", !.answer = a]],
                  [runs EXCEPT ![commands[c].run] = run], retained',
                  nextCommand, nextRun)
    BY <1>1, <1>2, EndRun, Zenon
  <1> QED BY <1>1, <1>3, Zenon DEF Now, Completed

\* A result that asks for the next page.
LEMMA ContinueResultInv ==
  ASSUME IInv, NEW c \in CommandIds, NEW a \in Answers,
         SyncResult(c, a), NEW run \in Run, nextCommand <= MaxCommands,
         run.terminal = runs[commands[c].run].terminal, run.status = "running",
         NEW p \in Nat, p = run.imported + run.duplicate,
         commands[c].phase = "page" =>
           /\ commands[c].position < p
           /\ a.recs \subseteq retained'[commands[c].terminal],
         RetainedType(retained'),
         \A t \in Terminals : retained[t] \subseteq retained'[t],
         commands' = [commands EXCEPT
                        ![c] = Completed(c, a),
                        ![nextCommand] = NewCommand(commands[c].terminal,
                                                    commands[c].run, "page", p)],
         runs' = [runs EXCEPT ![commands[c].run] = run],
         nextCommand' = nextCommand + 1
  PROVE Now'
  <1>1. /\ commands[c].status = "sent" /\ commands[c].run # 0
        /\ a \in AnswerType /\ nextRun \in Nat /\ nextRun' = nextRun
    BY SyncFacts, Zenon
  <1>2. TablesInv(commands, runs, retained, nextCommand, nextRun)
    BY Zenon DEF IInv
  <1>3. TablesInv([commands EXCEPT
                     ![c] = [commands[c] EXCEPT !.status = "completed", !.answer = a],
                     ![nextCommand] = NewCommand(commands[c].terminal,
                                                 commands[c].run, "page", p)],
                  [runs EXCEPT ![commands[c].run] = run], retained',
                  nextCommand + 1, nextRun)
    BY <1>1, <1>2, ContinueRun, Zenon
  <1> QED BY <1>1, <1>3, Zenon DEF Now, Completed

\* A run failed from any counters keeps its type and terminal.
LEMMA FailedRun ==
  ASSUME NEW run \in Run
  PROVE LET n == [run EXCEPT !.status = "failed"] IN
        n \in Run /\ n.terminal = run.terminal /\ n.status = "failed"
  BY Zenon DEF Run

\* The clock arrives and the search starts.
LEMMA SearchStartsInv ==
  ASSUME IInv, NEW c \in CommandIds, NEW a \in Answers, SearchStarts(c, a)
  PROVE Now'
  <1> DEFINE r == commands[c].run
             run == [runs[r] EXCEPT !.status = "running"]
  <1>1. SyncResult(c, a)
    BY Zenon DEF SearchStarts
  <1>2. /\ runs[r] \in Run /\ runs[r].status = "awaiting_time"
        /\ runs[r].imported = 0 /\ runs[r].duplicate = 0
        /\ RetainedType(retained) /\ commands[c].phase = "time"
    BY <1>1, SyncFacts, Zenon DEF SearchStarts, ClockFits
  <1>3. /\ run \in Run /\ run.terminal = runs[r].terminal
        /\ run.status = "running" /\ run.imported = 0 /\ run.duplicate = 0
    BY <1>2, Zenon DEF Run
  <1>4. /\ nextCommand <= MaxCommands /\ retained' = retained
        /\ commands' = [commands EXCEPT
                          ![c] = Completed(c, a),
                          ![nextCommand] = NewCommand(commands[c].terminal, r,
                                                      "page", 0)]
        /\ runs' = [runs EXCEPT ![r] = run]
        /\ nextCommand' = nextCommand + 1
    BY Zenon DEF SearchStarts, CanQueue
  <1> HIDE DEF run
  <1>5. 0 = run.imported + run.duplicate
    BY <1>3
  <1> QED BY <1>1, <1>2, <1>3, <1>4, <1>5, ContinueResultInv, Zenon

\* A page arrives and the next one is asked for.
LEMMA NextPageInv ==
  ASSUME IInv, NEW c \in CommandIds, NEW a \in Answers, NextPage(c, a)
  PROVE Now'
  <1> DEFINE r == commands[c].run
             t == commands[c].terminal
             run == Counted(runs[r], a)
             p == commands[c].position + a.num
  <1>1. SyncResult(c, a)
    BY Zenon DEF NextPage
  <1>2. /\ runs[r] \in Run /\ t \in Terminals /\ RetainedType(retained)
        /\ commands[c].position = runs[r].imported + runs[r].duplicate
        /\ commands[c] \in Command
    BY <1>1, SyncFacts, Zenon DEF NextPage
  <1>3. /\ runs[r].status = "running" /\ a.num = a.len /\ a.num # 0
    BY Zenon DEF NextPage, PageFits, ParseRetainedEventPage
  <1>4. /\ run \in Run /\ run.terminal = runs[r].terminal
        /\ run.status = "running"
        /\ run.imported + run.duplicate = runs[r].imported + runs[r].duplicate + a.len
    BY <1>2, <1>3, CountedRun, Zenon
  <1>5. a.num \in Nat
    BY ImportedBound, Zenon
  <1>6. commands[c].position \in Nat
    BY <1>2, Zenon DEF Command
  <1>7. /\ p \in Nat /\ p = run.imported + run.duplicate
        /\ commands[c].position < p
    BY <1>2, <1>3, <1>4, <1>5, <1>6
  <1>8. Retain(t, a)
    BY Zenon DEF NextPage
  <1>9. /\ RetainedType(retained')
        /\ \A u \in Terminals : retained[u] \subseteq retained'[u]
        /\ a.recs \subseteq retained'[t]
    BY <1>2, <1>8, RetainPage, Zenon
  <1>10. /\ nextCommand <= MaxCommands
         /\ commands' = [commands EXCEPT
                           ![c] = Completed(c, a),
                           ![nextCommand] = NewCommand(t, r, "page", p)]
         /\ runs' = [runs EXCEPT ![r] = run]
         /\ nextCommand' = nextCommand + 1
    BY Zenon DEF NextPage, CanQueue
  <1> HIDE DEF run, p
  <1> QED BY <1>1, <1>4, <1>7, <1>9, <1>10, ContinueResultInv, Zenon

\* The last page arrives.
LEMMA LastPageInv ==
  ASSUME IInv, NEW c \in CommandIds, NEW a \in Answers, LastPage(c, a)
  PROVE Now'
  <1> DEFINE r == commands[c].run
             t == commands[c].terminal
             run == Counted(runs[r], a)
             done == [run EXCEPT !.status = "completed"]
             lost == [runs[r] EXCEPT !.status = "failed"]
  <1>1. SyncResult(c, a)
    BY Zenon DEF LastPage
  <1>2. runs[r] \in Run /\ t \in Terminals /\ RetainedType(retained)
    BY <1>1, SyncFacts, Zenon
  <1>3. /\ run \in Run /\ run.terminal = runs[r].terminal /\ run.total = a.total
    BY <1>2, CountedRun, Zenon
  <1>4. Retain(t, a)
    BY Zenon DEF LastPage
  <1>5. /\ RetainedType(retained')
        /\ \A u \in Terminals : retained[u] \subseteq retained'[u]
        /\ a.recs \subseteq retained'[t]
    BY <1>2, <1>4, RetainPage, Zenon
  <1>6. /\ commands' = [commands EXCEPT ![c] = Completed(c, a)]
        /\ nextCommand' = nextCommand
        /\ \/ run.imported + run.duplicate = a.total
              /\ runs' = [runs EXCEPT ![r] = done]
           \/ runs' = [runs EXCEPT ![r] = lost]
    BY Zenon DEF LastPage, Fail
  <1> HIDE DEF run
  <1>7. /\ done \in Run /\ done.terminal = runs[r].terminal
        /\ done.status = "completed" /\ done.total = run.total
        /\ done.imported = run.imported /\ done.duplicate = run.duplicate
    BY <1>3, Zenon DEF Run
  <1>8. lost \in Run /\ lost.terminal = runs[r].terminal /\ lost.status = "failed"
    BY <1>2, FailedRun, Zenon
  <1> HIDE DEF done, lost
  <1>9. CASE run.imported + run.duplicate = a.total
             /\ runs' = [runs EXCEPT ![r] = done]
    <2>1. done.imported + done.duplicate = done.total
      BY <1>3, <1>7, <1>9, Zenon
    <2> QED BY <1>1, <1>5, <1>6, <1>7, <1>9, <2>1, EndResultInv, Zenon
  <1>10. CASE runs' = [runs EXCEPT ![r] = lost]
    BY <1>1, <1>5, <1>6, <1>8, <1>10, EndResultInv, Zenon
  <1> QED BY <1>6, <1>9, <1>10, Zenon

\* The three ways in which an answer makes its run fail.
LEMMA FailResultInv ==
  ASSUME IInv, NEW c \in CommandIds, NEW a \in Answers,
         AnswerFailsSync(c, a) \/ PageFailsSync(c, a) \/ ClockFailsSync(c, a)
  PROVE Now'
  <1> DEFINE r == commands[c].run
             t == commands[c].terminal
  <1>1. SyncResult(c, a)
    BY Zenon DEF AnswerFailsSync, PageFailsSync, ClockFailsSync
  <1>2. runs[r] \in Run /\ t \in Terminals /\ RetainedType(retained)
    BY <1>1, SyncFacts, Zenon
  <1>3. /\ Counted(runs[r], a) \in Run
        /\ Counted(runs[r], a).terminal = runs[r].terminal
    BY <1>2, CountedRun, Zenon
  <1>4. PICK run \in {runs[r], Counted(runs[r], a)} :
          runs' = [runs EXCEPT ![r] = [run EXCEPT !.status = "failed"]]
    BY Zenon DEF AnswerFailsSync, PageFailsSync, ClockFailsSync, Fail
  <1>5. /\ commands' = [commands EXCEPT ![c] = Completed(c, a)]
        /\ nextCommand' = nextCommand
        /\ retained' = retained \/ Retain(t, a)
    BY Zenon DEF AnswerFailsSync, PageFailsSync, ClockFailsSync
  <1>6. /\ RetainedType(retained')
        /\ \A u \in Terminals : retained[u] \subseteq retained'[u]
    BY <1>2, <1>5, RetainPage, Zenon
  <1> DEFINE n == [run EXCEPT !.status = "failed"]
  <1>7. n \in Run /\ n.terminal = runs[r].terminal /\ n.status = "failed"
    BY <1>2, <1>3, FailedRun, Zenon
  <1>8. runs' = [runs EXCEPT ![r] = n]
    BY <1>4, Zenon
  <1> HIDE DEF n
  <1> QED BY <1>1, <1>5, <1>6, <1>7, <1>8, EndResultInv, Zenon

\* Every step keeps the tables in force in order.
LEMMA NowInv ==
  ASSUME IInv, Next
  PROVE Now'
  <1>1. Now /\ nextRun \in Nat
    BY CommandBoundsAssumption DEF IInv, TypeOK, Now
  <1>2. ASSUME NEW t \in Terminals,
               \/ QueueISAPICommand(t) \/ QueueAccessEventSync(t)
               \/ ClaimISAPICommands(t) \/ CompleteISAPICommands(t)
        PROVE Now'
    BY <1>2, QueueCommandInv, QueueSyncInv, ClaimInv, ExpireInv, Zenon
  <1>3. ASSUME NEW t \in Terminals, ConnectionChanges(t) PROVE Now'
    BY <1>1, <1>3, Zenon DEF ConnectionChanges, Now
  <1>4. ASSUME NEW c \in CommandIds, NEW a \in Answers, BatchResult(c, a)
        PROVE Now'
    BY <1>4, PlainResultInv, SearchStartsInv, NextPageInv, LastPageInv,
       FailResultInv, Zenon DEF BatchResult
  <1>5. ASSUME Commit PROVE Now'
    BY <1>1, <1>5, Zenon DEF Commit, Now
  <1>6. ASSUME Rollback PROVE Now'
    BY <1>6, Zenon DEF Rollback, Now, IInv
  <1>7. ASSUME ExpireOverdueISAPICommands PROVE Now'
    BY <1>7, ExpireInv, Zenon
  <1>8. ASSUME NEW c \in CommandIds, DeadlinePasses(c) PROVE Now'
    BY <1>1, <1>8, Zenon DEF DeadlinePasses, Now
  <1>9. ASSUME AdministratorReplaced PROVE Now'
    BY <1>1, <1>9, ReleaseRuns, Zenon DEF AdministratorReplaced, Now
  <1> QED
    BY <1>2, <1>3, <1>4, <1>5, <1>6, <1>7, <1>8, <1>9, Zenon DEF Next

-----------------------------------------------------------------------------
(* The tables that a rollback restores, and the open batch.                *)

Saved ==
  TablesInv(undo.commands, undo.runs, undo.retained, undo.nextCommand, nextRun)

\* A new run number leaves stored tables in order.
LEMMA LaterRun ==
  ASSUME NEW cs, NEW rs, NEW ret, NEW nc, NEW nr \in Nat,
         TablesInv(cs, rs, ret, nc, nr)
  PROVE TablesInv(cs, rs, ret, nc, nr + 1)
  <1>1. RowsFree(cs, rs, nc, nr + 1)
    BY DEF TablesInv, RowsFree, RunIds
  <1>2. Linked(cs, rs, nr + 1)
    BY DEF TablesInv, Linked, RunIds
  <1> QED BY <1>1, <1>2, Zenon DEF TablesInv

\* Every step keeps the tables that a rollback would restore in order.
LEMMA SavedInv ==
  ASSUME IInv, Next
  PROVE Saved'
  <1>1. /\ Now /\ Saved /\ nextRun \in Nat \ {0}
    BY CommandBoundsAssumption DEF IInv, TypeOK, Now, Saved
  <1>2. CASE undo' = undo /\ nextRun' = nextRun
    BY <1>1, <1>2, Zenon DEF Saved
  <1>3. CASE undo' = undo /\ nextRun' = nextRun + 1
    BY <1>1, <1>3, LaterRun, Zenon DEF Saved
  <1>4. CASE undo' = Tables /\ nextRun' = nextRun
    BY <1>1, <1>4, Zenon DEF Saved, Now, Tables
  <1>5. CASE undo' = EmptyTables /\ nextRun' = nextRun
    BY <1>1, <1>5, EmptyInv, Zenon DEF Saved, EmptyTables
  <1>6. ASSUME NEW t \in Terminals,
               \/ QueueISAPICommand(t) \/ QueueAccessEventSync(t)
               \/ ClaimISAPICommands(t) \/ CompleteISAPICommands(t)
               \/ ConnectionChanges(t)
        PROVE \/ undo' = undo /\ nextRun' = nextRun
              \/ undo' = undo /\ nextRun' = nextRun + 1
              \/ undo' = Tables /\ nextRun' = nextRun
    BY <1>6, Zenon DEF QueueISAPICommand, QueueAccessEventSync, ClaimISAPICommands,
       CompleteISAPICommands, ConnectionChanges
  <1>7. ASSUME NEW c \in CommandIds, NEW a \in Answers, BatchResult(c, a)
        PROVE undo' = undo /\ nextRun' = nextRun
    BY <1>7, Zenon DEF BatchResult, PlainResult, RepeatedResult, SearchStarts, NextPage,
       LastPage, AnswerFailsSync, PageFailsSync, ClockFailsSync, SyncResult,
       ResultFor
  <1>8. ASSUME Commit \/ Rollback PROVE undo' = EmptyTables /\ nextRun' = nextRun
    BY <1>8, Zenon DEF Commit, Rollback
  <1>9. ASSUME ExpireOverdueISAPICommands \/ AdministratorReplaced
        PROVE undo' = undo /\ nextRun' = nextRun
    BY <1>9, Zenon DEF ExpireOverdueISAPICommands, AdministratorReplaced
  <1>10. ASSUME NEW c \in CommandIds, DeadlinePasses(c)
         PROVE undo' = undo /\ nextRun' = nextRun
    BY <1>10, Zenon DEF DeadlinePasses
  <1> QED
    BY <1>2, <1>3, <1>4, <1>5, <1>6, <1>7, <1>8, <1>9, <1>10, Zenon DEF Next

\* What a result of a batch does to the rows.
LEMMA ResultRows ==
  ASSUME IInv, NEW c \in CommandIds, NEW a \in Answers, BatchResult(c, a),
         NEW d \in CommandIds
  PROVE \/ commands'[d] = commands[d]
        \/ /\ commands[d].status = "sent" /\ commands'[d].status = "completed"
           /\ commands'[d].answer = a
        \/ /\ commands[d] = NoCommand /\ commands'[d].status = "queued"
           /\ commands'[d].answer = NoAnswer
  <1> DEFINE row == Completed(c, a)
  <1>1. /\ commands \in [CommandIds -> Command] /\ nextCommand \in Nat
        /\ RowsFree(commands, runs, nextCommand, nextRun)
    BY CommandBoundsAssumption DEF IInv, TypeOK, TablesInv, CommandsType
  <1>2. row.status = "completed" /\ row.answer = a
    BY <1>1 DEF Completed, Command
  <1>3. \A t, r, p : LET new == NewCommand(t, r, "page", p) IN
                     new.status = "queued" /\ new.answer = NoAnswer
    BY Zenon DEF NewCommand, NoCommand
  <1>4. nextCommand \in CommandIds => commands[nextCommand] = NoCommand
    BY <1>1 DEF RowsFree
  <1>5. CASE SearchStarts(c, a) \/ NextPage(c, a)
    <2>1. PICK p : /\ commands[c].status = "sent"
                   /\ commands' = [commands EXCEPT
                                     ![c] = row,
                                     ![nextCommand] = NewCommand(commands[c].terminal,
                                                        commands[c].run, "page", p)]
      BY <1>5, Zenon DEF SearchStarts, NextPage, SyncResult
    <2> HIDE DEF row
    <2>2. CASE d = nextCommand
      BY <2>1, <2>2, <1>1, <1>3, <1>4
    <2>3. CASE d # nextCommand
      BY <2>1, <2>3, <1>1, <1>2, Zenon
    <2> QED BY <2>2, <2>3, Zenon
  <1>6. CASE RepeatedResult(c, a)
    BY <1>6, Zenon DEF RepeatedResult
  <1>7. CASE \/ PlainResult(c, a) \/ LastPage(c, a) \/ AnswerFailsSync(c, a)
             \/ PageFailsSync(c, a) \/ ClockFailsSync(c, a)
    <2>1. /\ commands[c].status = "sent"
          /\ commands' = [commands EXCEPT ![c] = row]
      BY <1>7, Zenon DEF PlainResult, LastPage, AnswerFailsSync, PageFailsSync,
         ClockFailsSync, SyncResult
    <2> HIDE DEF row
    <2> QED BY <2>1, <1>1, <1>2, Zenon
  <1> QED BY <1>5, <1>6, <1>7, Zenon DEF BatchResult

\* What expiry does to the rows.
LEMMA ExpiredRows ==
  ASSUME IInv, NEW ts, NEW d \in CommandIds
  PROVE \/ Expired(ts)[d] = commands[d]
        \/ /\ Outstanding(commands[d]) /\ d \in due
           /\ Expired(ts)[d].status = "expired" /\ Expired(ts)[d].answer = NoAnswer
  <1>1. commands \in [CommandIds -> Command] /\ AnswersMatch(commands)
    BY Zenon DEF IInv, TypeOK, TablesInv, CommandsType
  <1>2. CASE d \notin Overdue(ts)
    BY <1>2, Zenon DEF Expired
  <1>3. CASE d \in Overdue(ts)
    <2>1. Outstanding(commands[d]) /\ d \in due
      BY <1>3, OverdueRows, Zenon
    <2>2. commands[d].answer = NoAnswer
      BY <2>1, <1>1, Zenon DEF AnswersMatch, Outstanding
    <2>3. Expired(ts)[d] = [commands[d] EXCEPT !.status = "expired"]
      BY <1>3, Zenon DEF Expired
    <2> QED BY <2>1, <2>2, <2>3, <1>1 DEF Command
  <1> QED BY <1>2, <1>3, Zenon

\* The open batch has moved every row at most one step.
LEMMA BatchMovesInv ==
  ASSUME IInv, Next
  PROVE BatchMoves'
  <1>1. BatchMoves
    BY Zenon DEF IInv
  <1>2. ASSUME NEW t \in Terminals, CompleteISAPICommands(t) PROVE BatchMoves'
    <2>1. /\ undo'.commands = commands /\ commands' = Expired({t}) /\ due' = due
      BY <1>2, Zenon DEF CompleteISAPICommands, Tables
    <2>2. \A c \in CommandIds : Moved(commands[c], Expired({t})[c], c)
      BY ExpiredRows, Zenon DEF Moved
    <2> QED BY <2>1, <2>2, Zenon DEF BatchMoves, Moved
  <1>3. ASSUME NEW c \in CommandIds, NEW a \in Answers, BatchResult(c, a)
        PROVE BatchMoves'
    <2>1. undo' = undo /\ due' = due /\ batch' = batch /\ ~Unlocked
      BY <1>3, Zenon DEF BatchResult, PlainResult, RepeatedResult, SearchStarts, NextPage,
         LastPage, AnswerFailsSync, PageFailsSync, ClockFailsSync, SyncResult,
         ResultFor
    <2>2. ASSUME NEW d \in CommandIds
          PROVE Moved(undo.commands[d], commands'[d], d)
      <3>1. Moved(undo.commands[d], commands[d], d)
        BY <1>1, <2>1, Zenon DEF BatchMoves
      <3>2. CASE commands'[d] = commands[d]
        BY <3>1, <3>2, Zenon
      <3>3. CASE /\ commands[d].status = "sent" /\ commands'[d].status = "completed"
                 /\ commands'[d].answer = a
        BY <3>1, <3>3, Zenon DEF Moved
      <3>4. CASE /\ commands[d] = NoCommand /\ commands'[d].status = "queued"
                 /\ commands'[d].answer = NoAnswer
        BY <3>1, <3>4 DEF Moved, NoCommand
      <3> QED BY <1>3, <3>2, <3>3, <3>4, ResultRows, Zenon
    <2> QED BY <2>1, <2>2, Zenon DEF BatchMoves, Moved
  <1>4. ASSUME NEW c \in CommandIds, DeadlinePasses(c) PROVE BatchMoves'
    BY <1>1, <1>4, Zenon DEF DeadlinePasses, BatchMoves, Moved, Unlocked
  <1>5. ASSUME NEW t \in Terminals, ConnectionChanges(t) PROVE BatchMoves'
    BY <1>1, <1>5, Zenon DEF ConnectionChanges, BatchMoves, Moved, Unlocked
  <1>6. ASSUME \/ Commit \/ Rollback \/ ExpireOverdueISAPICommands
               \/ AdministratorReplaced
        PROVE BatchMoves'
    BY <1>6, Zenon DEF Commit, Rollback, ExpireOverdueISAPICommands,
       AdministratorReplaced, BatchMoves, Unlocked
  <1>7. ASSUME NEW t \in Terminals,
               \/ QueueISAPICommand(t) \/ QueueAccessEventSync(t)
               \/ ClaimISAPICommands(t)
        PROVE BatchMoves'
    BY <1>7, Zenon DEF QueueISAPICommand, QueueAccessEventSync, ClaimISAPICommands,
       BatchMoves, Unlocked
  <1> QED
    BY <1>2, <1>3, <1>4, <1>5, <1>6, <1>7, Zenon DEF Next

\* Types of the variables outside the tables.
LEMMA TypesInv ==
  ASSUME IInv, Next
  PROVE /\ online' \subseteq Terminals /\ nextRun' \in 1 .. MaxRuns + 1
        /\ due' \subseteq CommandIds /\ held' \subseteq CommandIds
        /\ batch' \in Terminals \cup {"none"}
  <1>1. TypeOK
    BY Zenon DEF IInv
  <1>2. ASSUME NEW t \in Terminals,
               \/ QueueISAPICommand(t) \/ CompleteISAPICommands(t)
               \/ ConnectionChanges(t)
        PROVE /\ online' \subseteq Terminals /\ nextRun' = nextRun
              /\ due' = due /\ held' = held
              /\ batch' \in Terminals \cup {"none"}
    BY <1>1, <1>2, Zenon DEF TypeOK, QueueISAPICommand, CompleteISAPICommands,
       ConnectionChanges
  <1>3. ASSUME NEW t \in Terminals, QueueAccessEventSync(t)
        PROVE /\ online' = online /\ nextRun' \in 1 .. MaxRuns + 1
              /\ due' = due /\ held' = held /\ batch' = batch
    BY <1>1, <1>3, CommandBoundsAssumption DEF TypeOK, QueueAccessEventSync
  <1>4. ASSUME NEW t \in Terminals, ClaimISAPICommands(t)
        PROVE /\ online' = online /\ nextRun' = nextRun /\ due' = due
              /\ held' \subseteq CommandIds /\ batch' = batch
    BY <1>1, <1>4, Zenon DEF TypeOK, ClaimISAPICommands, Selected, Claimable
  <1>5. ASSUME NEW c \in CommandIds, NEW a \in Answers, BatchResult(c, a)
        PROVE UNCHANGED <<online, nextRun, due, held, batch>>
    BY <1>5, Zenon DEF BatchResult, PlainResult, RepeatedResult, SearchStarts, NextPage,
       LastPage, AnswerFailsSync, PageFailsSync, ClockFailsSync, SyncResult,
       ResultFor
  <1>6. ASSUME \/ Commit \/ Rollback \/ ExpireOverdueISAPICommands
               \/ AdministratorReplaced
        PROVE /\ UNCHANGED <<online, nextRun, due, held>>
              /\ batch' \in {batch, "none"}
    BY <1>6, Zenon DEF Commit, Rollback, ExpireOverdueISAPICommands,
       AdministratorReplaced
  <1>7. ASSUME NEW c \in CommandIds, DeadlinePasses(c)
        PROVE /\ UNCHANGED <<online, nextRun, held, batch>>
              /\ due' \subseteq CommandIds
    BY <1>1, <1>7, Zenon DEF TypeOK, DeadlinePasses
  <1> QED
    BY <1>1, <1>2, <1>3, <1>4, <1>5, <1>6, <1>7, Zenon DEF Next, TypeOK

\* The invariant holds initially.
LEMMA InitInv ==
  ASSUME Init
  PROVE IInv
  <1>1. /\ commands = EmptyTables.commands /\ runs = EmptyTables.runs
        /\ retained = EmptyTables.retained
        /\ nextCommand = EmptyTables.nextCommand /\ undo = EmptyTables
        /\ nextRun = 1
    BY Zenon DEF Init, EmptyTables
  <1>2. Now /\ Saved
    <2>1. TablesInv(EmptyTables.commands, EmptyTables.runs, EmptyTables.retained,
                    EmptyTables.nextCommand, 1)
      <3>1. 1 \in Nat \ {0}
        OBVIOUS
      <3>2. TablesInv([c \in CommandIds |-> NoCommand], [r \in RunIds |-> NoRun],
                      [t \in Terminals |-> {}], 1, 1)
        BY <3>1, EmptyInv, Zenon
      <3> QED BY <3>2, Zenon DEF EmptyTables
    <2> QED BY <1>1, <2>1, Zenon DEF Now, Saved
  <1>3. TypeOK
    BY <1>2, CommandBoundsAssumption
    DEF Init, TypeOK, Now, Saved, TablesInv, TablesType
  <1> QED BY <1>2, <1>3, Zenon DEF IInv, Init, Now, Saved, BatchMoves, Unlocked

\* Every step keeps the invariant.
LEMMA StepInv ==
  ASSUME IInv, [Next]_vars
  PROVE IInv'
  <1>1. CASE Next
    <2>1. Now' /\ Saved' /\ BatchMoves'
      BY <1>1, NowInv, SavedInv, BatchMovesInv, Zenon
    <2>2. TypeOK'
      BY <1>1, <2>1, TypesInv, Zenon DEF TypeOK, Now, Saved, TablesInv, TablesType
    <2> QED BY <2>1, <2>2, Zenon DEF IInv, Now, Saved
  <1>2. CASE UNCHANGED vars
    <2>1. Now' /\ Saved'
      BY <1>2, Zenon DEF vars, IInv, Now, Saved
    <2>2. TypeOK'
      BY <1>2, Zenon DEF vars, IInv, TypeOK
    <2>3. BatchMoves'
      BY <1>2, Zenon DEF vars, IInv, BatchMoves, Moved, Unlocked
    <2> QED BY <2>1, <2>2, <2>3, Zenon DEF IInv, Now, Saved
  <1> QED BY <1>1, <1>2, Zenon

-----------------------------------------------------------------------------
(* The results.                                                            *)

\* The tables, the tables a rollback restores and an open batch satisfy the
\* inductive invariant in every behaviour of the queue.
THEOREM Invariance == Spec => []IInv
  <1>1. Init => IInv
    BY InitInv, Zenon
  <1>2. IInv /\ [Next]_vars => IInv'
    BY StepInv, Zenon
  <1> QED BY <1>1, <1>2, PTL DEF Spec

\* The rows and the indexes of the queue stay in their types.
THEOREM TypeCorrect == Spec => []TypeOK
  <1>1. IInv => TypeOK
    BY Zenon DEF IInv
  <1> QED BY <1>1, Invariance, PTL

\* A sync run that is going on waits for exactly one command, and no command is
\* outstanding for a run that has ended, for any number of terminals, runs,
\* commands and records (completeAccessEventSyncCommand,
\* failExpiredAccessEventSyncCommand).
THEOREM RunsNeverHang == Spec => []ActiveRunWaitsForOneCommand
  <1>1. IInv => ActiveRunWaitsForOneCommand
    BY Zenon DEF IInv, TablesInv, ActiveRunWaitsForOneCommand
  <1> QED BY <1>1, Invariance, PTL

\* A terminal has at most one active sync run (QueueAccessEventSync).
THEOREM SingleRun == Spec => []OneActiveRunPerTerminal
  <1>1. IInv => OneActiveRunPerTerminal
    BY Zenon DEF IInv, TablesInv, OneActiveRunPerTerminal
  <1> QED BY <1>1, Invariance, PTL

\* No page is skipped or counted twice, and the counters of a completed run add
\* up to what the terminal announced (completeAccessEventSyncPage).
THEOREM PageAccounting == Spec => []PagesAreAccountedFor
  <1>1. IInv => PagesAreAccountedFor
    BY Zenon DEF IInv, TablesInv, PagesAreAccountedFor
  <1> QED BY <1>1, Invariance, PTL

\* The unique index over the links of a run never aborts a batch
\* (queueISAPICommandTx from completeAccessEventSyncPage).
THEOREM PagePositions == Spec => []PagePositionsAreDistinct
  <1>1. IInv => PagePositionsAreDistinct
    BY Zenon DEF IInv, TablesInv, PagePositionsAreDistinct
  <1> QED BY <1>1, Invariance, PTL

\* The records of every stored page of a live or completed run are retained
\* (insertRetainedAccessEvents).
THEOREM PageRecords == Spec => []PagesAreRetained
  <1>1. IInv => PagesAreRetained
    BY Zenon DEF IInv, TablesInv, PagesAreRetained
  <1> QED BY <1>1, Invariance, PTL

-----------------------------------------------------------------------------
(* The refinement of CommandLifecycle.                                     *)

\* One step of a row in CommandLifecycle.
LifeStep(before, after, c) ==
  \/ after.status = before.status /\ after.answer = before.answer
  \/ before.status = "none" /\ after.status = "queued" /\ after.answer = NoAnswer
  \/ /\ before.status = "queued" /\ c \notin due
     /\ after.status = "sent" /\ after.answer = NoAnswer
  \/ /\ before.status = "sent" /\ after.status = "completed"
     /\ after.answer \in Answers
  \/ /\ before.status \in {"queued", "sent"} /\ c \in due
     /\ after.status = "expired" /\ after.answer = NoAnswer

\* The rows that a claim sends are queued, before their deadline and not among
\* the rows it expires.
LEMMA ClaimedRows ==
  ASSUME IInv, NEW t \in Terminals, ClaimISAPICommands(t), NEW c \in CommandIds
  PROVE LifeStep(commands[c], commands'[c], c)
  <1>1. commands \in [CommandIds -> Command] /\ AnswersMatch(commands)
    BY Zenon DEF IInv, TypeOK, TablesInv, CommandsType
  <1>2. CASE c \in Selected(t)
    <2>1. commands[c].status = "queued" /\ c \notin due
      BY <1>2, Zenon DEF Selected, Claimable
    <2>2. commands'[c] = [commands[c] EXCEPT !.status = "sent"]
      BY <1>2, Zenon DEF ClaimISAPICommands
    <2>3. commands[c].answer = NoAnswer
      BY <1>1, <2>1, Zenon DEF AnswersMatch
    <2> QED BY <1>1, <2>1, <2>2, <2>3, Zenon DEF LifeStep, Command
  <1>3. CASE c \notin Selected(t)
    <2>1. commands'[c] = Expired({t})[c]
      BY <1>3, Zenon DEF ClaimISAPICommands
    <2> QED BY <2>1, ExpiredRows DEF LifeStep, Outstanding
  <1> QED BY <1>2, <1>3, Zenon

\* Queueing writes one row that did not exist.
LEMMA QueuedRows ==
  ASSUME IInv, NEW t \in Terminals,
         QueueISAPICommand(t) \/ QueueAccessEventSync(t), NEW c \in CommandIds
  PROVE LifeStep(commands[c], commands'[c], c)
  <1>1. /\ commands \in [CommandIds -> Command] /\ nextCommand \in CommandIds
        /\ commands[nextCommand] = NoCommand
    BY CommandBoundsAssumption DEF IInv, TypeOK, TablesInv, CommandsType, RowsFree,
       QueueISAPICommand, QueueAccessEventSync, CanQueue, CommandIds
  <1>2. PICK r, phase : \/ commands' = commands
                        \/ commands' = Expired({t})
                        \/ commands' = [commands EXCEPT ![nextCommand] =
                                          NewCommand(t, r, phase, 0)]
                        \/ commands' = [Expired({t}) EXCEPT ![nextCommand] =
                                          NewCommand(t, r, phase, 0)]
    BY Zenon DEF QueueISAPICommand, QueueAccessEventSync
  <1>3. LET new == NewCommand(t, r, phase, 0)
        IN  new.status = "queued" /\ new.answer = NoAnswer
    BY Zenon DEF NewCommand, NoCommand
  <1>4. LifeStep(commands[c], Expired({t})[c], c)
    BY ExpiredRows, Zenon DEF LifeStep, Outstanding
  <1>5. CASE commands'[c] = commands[c]
    BY <1>5, Zenon DEF LifeStep
  <1>6. CASE commands'[c] = Expired({t})[c]
    BY <1>4, <1>6, Zenon
  <1>7. CASE c = nextCommand /\ commands'[c] = NewCommand(t, r, phase, 0)
    BY <1>1, <1>3, <1>7 DEF LifeStep, NoCommand
  <1>8. \/ commands'[c] = commands[c] \/ commands'[c] = Expired({t})[c]
        \/ c = nextCommand /\ commands'[c] = NewCommand(t, r, phase, 0)
    <2>1. DOMAIN Expired({t}) = CommandIds /\ DOMAIN commands = CommandIds
      BY <1>1, Zenon DEF Expired
    <2> HIDE DEF Expired
    <2> QED BY <1>1, <1>2, <2>1, Zenon
  <1> QED BY <1>5, <1>6, <1>7, <1>8, Zenon

\* Every step of the queue moves every committed row at most one step.
LEMMA CommittedRows ==
  ASSUME IInv, Next, NEW c \in CommandIds
  PROVE LifeStep(CommittedCommands[c], CommittedCommands'[c], c)
  <1>1. CASE CommittedCommands' = CommittedCommands
    BY <1>1, Zenon DEF LifeStep
  <1>2. ASSUME NEW t \in Terminals, ClaimISAPICommands(t)
        PROVE LifeStep(CommittedCommands[c], CommittedCommands'[c], c)
    <2>1. CommittedCommands = commands /\ CommittedCommands' = commands'
      BY <1>2, Zenon DEF ClaimISAPICommands, CommittedCommands, Unlocked
    <2> QED BY <1>2, <2>1, ClaimedRows, Zenon
  <1>3. ASSUME NEW t \in Terminals, QueueISAPICommand(t) \/ QueueAccessEventSync(t)
        PROVE LifeStep(CommittedCommands[c], CommittedCommands'[c], c)
    <2>1. CommittedCommands = commands /\ CommittedCommands' = commands'
      BY <1>3, Zenon DEF QueueISAPICommand, QueueAccessEventSync, CommittedCommands,
         Unlocked
    <2> QED BY <1>3, <2>1, QueuedRows, Zenon
  <1>4. ASSUME ExpireOverdueISAPICommands
        PROVE LifeStep(CommittedCommands[c], CommittedCommands'[c], c)
    <2>1. /\ CommittedCommands = commands
          /\ CommittedCommands' = Expired(Terminals)
      BY <1>4, Zenon DEF ExpireOverdueISAPICommands, CommittedCommands, Unlocked
    <2> QED BY <2>1, ExpiredRows, Zenon DEF LifeStep, Outstanding
  <1>5. ASSUME Commit
        PROVE LifeStep(CommittedCommands[c], CommittedCommands'[c], c)
    <2>1. /\ CommittedCommands = undo.commands /\ CommittedCommands' = commands
          /\ ~Unlocked
      BY <1>5, Zenon DEF Commit, CommittedCommands, Unlocked
    <2>2. Moved(undo.commands[c], commands[c], c)
      BY <2>1, Zenon DEF IInv, BatchMoves
    <2> QED BY <2>1, <2>2, Zenon DEF Moved, LifeStep, Outstanding
  <1>6. ASSUME Rollback PROVE CommittedCommands' = CommittedCommands
    BY <1>6, Zenon DEF Rollback, CommittedCommands, Unlocked
  <1>7. ASSUME NEW t \in Terminals, CompleteISAPICommands(t)
        PROVE CommittedCommands' = CommittedCommands
    BY <1>7, TerminalsAssumption, Zenon DEF CompleteISAPICommands, CommittedCommands,
       Unlocked, Tables
  <1>8. ASSUME NEW d \in CommandIds, NEW a \in Answers, BatchResult(d, a)
        PROVE CommittedCommands' = CommittedCommands
    BY <1>8, Zenon DEF BatchResult, PlainResult, RepeatedResult, SearchStarts, NextPage,
       LastPage, AnswerFailsSync, PageFailsSync, ClockFailsSync, SyncResult,
       ResultFor, CommittedCommands, Unlocked
  <1>9. ASSUME NEW d \in CommandIds, DeadlinePasses(d)
        PROVE CommittedCommands' = CommittedCommands
    BY <1>9, Zenon DEF DeadlinePasses, CommittedCommands, Unlocked
  <1>10. ASSUME NEW t \in Terminals, ConnectionChanges(t)
         PROVE CommittedCommands' = CommittedCommands
    BY <1>10, Zenon DEF ConnectionChanges, CommittedCommands, Unlocked
  <1>11. ASSUME AdministratorReplaced
         PROVE CommittedCommands' = CommittedCommands
    BY <1>11, Zenon DEF AdministratorReplaced, CommittedCommands, Unlocked
  <1> QED
    BY <1>1, <1>2, <1>3, <1>4, <1>5, <1>6, <1>7, <1>8, <1>9, <1>10, <1>11, Zenon DEF Next

\* Deadlines only pass.
LEMMA DueGrows ==
  ASSUME Next
  PROVE due \subseteq due'
  <1>1. ASSUME NEW t \in Terminals,
               \/ QueueISAPICommand(t) \/ QueueAccessEventSync(t)
               \/ ClaimISAPICommands(t) \/ CompleteISAPICommands(t)
               \/ ConnectionChanges(t)
        PROVE due' = due
    BY <1>1, Zenon DEF QueueISAPICommand, QueueAccessEventSync, ClaimISAPICommands,
       CompleteISAPICommands, ConnectionChanges
  <1>2. ASSUME NEW c \in CommandIds, NEW a \in Answers, BatchResult(c, a)
        PROVE due' = due
    BY <1>2, Zenon DEF BatchResult, PlainResult, RepeatedResult, SearchStarts, NextPage,
       LastPage, AnswerFailsSync, PageFailsSync, ClockFailsSync, SyncResult,
       ResultFor
  <1>3. ASSUME \/ Commit \/ Rollback \/ ExpireOverdueISAPICommands
               \/ AdministratorReplaced
        PROVE due' = due
    BY <1>3, Zenon DEF Commit, Rollback, ExpireOverdueISAPICommands,
       AdministratorReplaced
  <1>4. ASSUME NEW c \in CommandIds, DeadlinePasses(c) PROVE due \subseteq due'
    BY <1>4, Zenon DEF DeadlinePasses
  <1> QED BY <1>1, <1>2, <1>3, <1>4, Zenon DEF Next

\* The committed rows implement CommandLifecycle for any number of terminals
\* and commands: whatever batches, claims, sweeps and rollbacks do, a command is
\* sent at most once and before its deadline and ends once.
THEOREM Refinement == Spec => ImplementsLifecycle
  <1>1. Init => Lifecycle!Init
    <2> SUFFICES ASSUME Init PROVE Lifecycle!Init
      OBVIOUS
    <2>1. \A c \in CommandIds : CommittedCommands[c] = NoCommand
      BY Zenon DEF Init, CommittedCommands, Unlocked
    <2> QED BY <2>1 DEF Lifecycle!Init, Init, NoCommand
  <1>2. IInv /\ [Next]_vars => [Lifecycle!Next]_(Lifecycle!vars)
    <2> SUFFICES ASSUME IInv, [Next]_vars
                 PROVE [Lifecycle!Next]_(Lifecycle!vars)
      BY Zenon
    <2>1. CASE Next
      <3>1. \A c \in CommandIds :
              LifeStep(CommittedCommands[c], CommittedCommands'[c], c)
        BY <2>1, CommittedRows, Zenon
      <3>2. ASSUME NEW c \in CommandIds PROVE Lifecycle!Move(c)
        BY <3>1, Zenon DEF LifeStep, Lifecycle!Move, Lifecycle!Stay, Lifecycle!Queue,
           Lifecycle!Send, Lifecycle!Complete, Lifecycle!Expire
      <3> QED BY <2>1, <3>2, DueGrows, Zenon DEF Lifecycle!Next
    <2>2. CASE UNCHANGED vars
      BY <2>2, Zenon DEF vars, Lifecycle!vars, CommittedCommands, Unlocked
    <2> QED BY <2>1, <2>2, Zenon
  <1> QED
    BY <1>1, <1>2, Invariance, PTL DEF Spec, ImplementsLifecycle, Lifecycle!Spec

-----------------------------------------------------------------------------
(* The order of a claim.                                                   *)

\* Whatever a claim sends, it sends the older queued commands too.
LEMMA SelectedOlder ==
  ASSUME NEW t \in Terminals, NEW c \in Claimable(t), NEW d \in Selected(t), c < d
  PROVE c \in Selected(t)
  <1> DEFINE older(e) == {f \in Claimable(t) : f < e}
  <1>1. Claimable(t) \subseteq CommandIds /\ CommandIds \subseteq Int
    BY CommandBoundsAssumption DEF Claimable, CommandIds
  <1>2. IsFiniteSet(CommandIds)
    BY CommandBoundsAssumption, FS_Interval DEF CommandIds
  <1>3. d \in Claimable(t) /\ Cardinality(older(d)) < ClaimLimit
    BY Zenon DEF Selected
  <1>4. older(c) \subseteq older(d) /\ older(d) \subseteq CommandIds
    <2>1. ASSUME NEW f \in Claimable(t), f < c PROVE f < d
      <3>1. f \in Int /\ c \in Int /\ d \in Int
        BY <1>1, <1>3, Zenon
      <3> QED BY <2>1, <3>1
    <2> QED BY <1>1, <2>1, Zenon
  <1> HIDE DEF older
  <1>5. IsFiniteSet(older(d)) /\ IsFiniteSet(older(c))
    BY <1>2, <1>4, FS_Subset, Zenon
  <1>6. Cardinality(older(c)) <= Cardinality(older(d))
    BY <1>4, <1>5, FS_Subset, Zenon
  <1>7. Cardinality(older(c)) < ClaimLimit
    BY <1>3, <1>5, <1>6, FS_CardinalityType, CommandBoundsAssumption
  <1> QED BY <1>7, Zenon DEF Selected, older

\* Only a claim sends a row: no other step, a rollback included, turns a queued
\* row of the tables into a sent one.
LEMMA OnlyClaimsSend ==
  ASSUME IInv, Next, NEW d \in CommandIds,
         commands[d].status = "queued", commands'[d].status = "sent"
  PROVE \E t \in Terminals : ClaimISAPICommands(t)
  <1>1. ASSUME NEW t \in Terminals, QueueISAPICommand(t) \/ QueueAccessEventSync(t)
        PROVE FALSE
    <2>1. LifeStep(commands[d], commands'[d], d)
      BY <1>1, QueuedRows, Zenon
    <2>2. /\ nextCommand \in CommandIds /\ commands[nextCommand] = NoCommand
          /\ commands \in [CommandIds -> Command]
      <3>1. nextCommand <= MaxCommands
        BY <1>1, Zenon DEF QueueISAPICommand, QueueAccessEventSync, CanQueue
      <3>2. /\ commands \in [CommandIds -> Command]
            /\ nextCommand \in 1 .. MaxCommands + 1
            /\ RowsFree(commands, runs, nextCommand, nextRun)
        BY Zenon DEF IInv, TablesInv, TablesType, CommandsType
      <3>3. nextCommand \in CommandIds /\ nextCommand >= nextCommand
        BY <3>1, <3>2, CommandBoundsAssumption DEF CommandIds
      <3> QED BY <3>2, <3>3, Zenon DEF RowsFree
    <2>3. d # nextCommand
      BY <2>2 DEF NoCommand
    <2>4. commands'[d] = commands[d] \/ commands'[d] = Expired({t})[d]
      <3>1. DOMAIN Expired({t}) = CommandIds
        BY Zenon DEF Expired
      <3> QED BY <1>1, <2>2, <2>3, <3>1, Zenon DEF QueueISAPICommand, QueueAccessEventSync
    <2> QED BY <2>4, ExpiredRows, Zenon
  <1>2. ASSUME NEW ts, commands' = Expired(ts) PROVE FALSE
    BY <1>2, ExpiredRows, Zenon
  <1>3. ASSUME NEW t \in Terminals, CompleteISAPICommands(t) PROVE FALSE
    BY <1>2, <1>3, Zenon DEF CompleteISAPICommands
  <1>4. ASSUME ExpireOverdueISAPICommands PROVE FALSE
    BY <1>2, <1>4, Zenon DEF ExpireOverdueISAPICommands
  <1>5. ASSUME NEW c \in CommandIds, NEW a \in Answers, BatchResult(c, a)
        PROVE FALSE
    BY <1>5, ResultRows, Zenon DEF NoCommand
  <1>6. ASSUME Rollback PROVE FALSE
    <2>1. /\ commands' = undo.commands
          /\ Moved(undo.commands[d], commands[d], d)
      BY <1>6, Zenon DEF Rollback, IInv, BatchMoves, Unlocked
    <2> QED BY <2>1, Zenon DEF Moved
  <1>7. ASSUME Commit \/ AdministratorReplaced PROVE FALSE
    BY <1>7, Zenon DEF Commit, AdministratorReplaced
  <1>8. ASSUME NEW c \in CommandIds, DeadlinePasses(c) PROVE FALSE
    BY <1>8, Zenon DEF DeadlinePasses
  <1>9. ASSUME NEW t \in Terminals, ConnectionChanges(t) PROVE FALSE
    BY <1>9, Zenon DEF ConnectionChanges
  <1> QED
    BY <1>1, <1>3, <1>4, <1>5, <1>6, <1>7, <1>8, <1>9, Zenon DEF Next

\* A claim never passes over an older command that is still in time, for any
\* claim limit (ClaimISAPICommands, ORDER BY created_at and LIMIT).
THEOREM ClaimOrder == Spec => OldestFirst
  <1> DEFINE InOrder ==
        \A c, d \in CommandIds :
          /\ c < d /\ commands[c].terminal = commands[d].terminal
          /\ commands[c].status = "queued" /\ c \notin due
          /\ commands[d].status = "queued" /\ commands'[d].status = "sent"
          => commands'[c].status = "sent"
  <1>1. IInv /\ Next => InOrder
    <2> SUFFICES ASSUME IInv, Next, NEW c \in CommandIds, NEW d \in CommandIds,
                        c < d, commands[c].terminal = commands[d].terminal,
                        commands[c].status = "queued", c \notin due,
                        commands[d].status = "queued", commands'[d].status = "sent"
                 PROVE commands'[c].status = "sent"
      BY Zenon
    <2>1. PICK t \in Terminals : ClaimISAPICommands(t)
      BY OnlyClaimsSend, Zenon
    <2>2. d \in Selected(t)
      <3>1. CASE d \notin Selected(t)
        <4>1. commands'[d] = Expired({t})[d]
          BY <2>1, <3>1, Zenon DEF ClaimISAPICommands
        <4> QED BY <4>1, ExpiredRows, Zenon
      <3> QED BY <3>1, Zenon
    <2>3. c \in Claimable(t)
      BY <2>2, Zenon DEF Selected, Claimable
    <2>4. c \in Selected(t)
      BY <2>2, <2>3, SelectedOlder, Zenon
    <2>5. commands'[c] = [commands[c] EXCEPT !.status = "sent"]
      BY <2>1, <2>4, Zenon DEF ClaimISAPICommands
    <2>6. commands[c] \in Command
      BY Zenon DEF IInv, TypeOK, CommandsType
    <2> QED BY <2>5, <2>6, Zenon DEF Command
  <1>2. IInv /\ [Next]_vars => [InOrder]_vars
    BY <1>1, Zenon
  <1> QED BY <1>2, Invariance, PTL DEF Spec, OldestFirst

-----------------------------------------------------------------------------
(* The sum of the imports.                                                 *)

\* An import of a terminal belongs to one of its runs.
LEMMA ImportElim ==
  ASSUME NEW rs, NEW t, NEW x \in Imports(rs, t)
  PROVE \E r \in RunIds :
          rs[r].terminal = t /\ \E i \in 1 .. rs[r].imported : x = <<r, i>>
  <1>1. PICK r \in RunIds : rs[r].terminal = t /\ x \in {r} \X (1 .. rs[r].imported)
    BY Zenon DEF Imports
  <1>2. \E i \in 1 .. rs[r].imported : x = <<r, i>>
    BY <1>1, SMT
  <1> QED BY <1>1, <1>2, Zenon

\* Every import that a run of a terminal reports is one of them.
LEMMA ImportIntro ==
  ASSUME NEW rs, NEW t, NEW r \in RunIds, rs[r].terminal = t,
         NEW i \in 1 .. rs[r].imported
  PROVE <<r, i>> \in Imports(rs, t)
  <1>1. <<r, i>> \in {r} \X (1 .. rs[r].imported)
    BY SMT
  <1> QED BY <1>1, Zenon DEF Imports

\* There are finitely many of them.
LEMMA ImportsFinite ==
  ASSUME NEW rs, RunsType(rs), NEW t
  PROVE IsFiniteSet(Imports(rs, t))
  <1> DEFINE S == {s \in RunIds : rs[s].terminal = t}
             f == [r \in S |-> {r} \X (1 .. rs[r].imported)]
             T == {{r} \X (1 .. rs[r].imported) : r \in S}
  <1>1. IsFiniteSet(RunIds)
    BY CommandBoundsAssumption, FS_Interval DEF RunIds
  <1>2. IsFiniteSet(S)
    BY <1>1, FS_Subset, Zenon
  <1>3. f \in Surjection(S, T)
    BY Zenon DEF Surjection
  <1>4. IsFiniteSet(T)
    BY <1>2, <1>3, FS_Surjection, Zenon
  <1>5. ASSUME NEW r \in S PROVE IsFiniteSet({r} \X (1 .. rs[r].imported))
    <2>1. rs[r].imported \in Int
      <3>1. rs[r].imported \in Nat
        BY Zenon DEF RunsType, Run
      <3> QED BY <3>1
    <2>2. IsFiniteSet(1 .. rs[r].imported)
      BY <2>1, FS_Interval
    <2>3. IsFiniteSet({r})
      BY FS_Singleton, Zenon
    <2> QED BY <2>2, <2>3, FS_Product, Zenon
  <1>6. \A U \in T : IsFiniteSet(U)
    BY <1>5, Zenon
  <1>7. IsFiniteSet(UNION T)
    BY <1>4, <1>6, FS_UNION, Zenon
  <1> QED BY <1>7, Zenon DEF Imports

\* What is retained for a terminal can be counted.
LEMMA RetainedFinite ==
  ASSUME NEW ret, RetainedType(ret), NEW t \in Terminals
  PROVE IsFiniteSet(ret[t]) /\ Cardinality(ret[t]) \in Nat
  <1>1. ret[t] \subseteq Records
    BY Zenon DEF RetainedType
  <1> QED BY <1>1, RecordsAssumption, FS_Subset, FS_CardinalityType, Zenon

\* A step that counts no import, of a run that had any, and drops no record.
LEMMA ImportsStay ==
  ASSUME NEW rs, NEW rs2, NEW ret, NEW ret2,
         RunsType(rs), RunsType(rs2), RetainedType(ret), RetainedType(ret2),
         ImportsKept(rs, ret),
         \A r \in RunIds : /\ rs2[r].imported = rs[r].imported
                           /\ rs2[r].terminal = rs[r].terminal \/ rs[r].imported = 0,
         \A t \in Terminals : ret[t] \subseteq ret2[t]
  PROVE ImportsKept(rs2, ret2)
  <1> SUFFICES ASSUME NEW t \in Terminals
               PROVE Cardinality(Imports(rs2, t)) <= Cardinality(ret2[t])
    BY Zenon DEF ImportsKept
  <1>1. ASSUME NEW x \in Imports(rs2, t) PROVE x \in Imports(rs, t)
    <2>1. PICK r \in RunIds :
            rs2[r].terminal = t /\ \E i \in 1 .. rs2[r].imported : x = <<r, i>>
      BY ImportElim
    <2>2. PICK i \in 1 .. rs[r].imported : x = <<r, i>>
      BY <2>1, Zenon
    <2>3. rs[r].imported # 0
      BY <2>2
    <2>4. rs[r].terminal = t
      BY <2>1, <2>3, Zenon
    <2> QED BY <2>2, <2>4, ImportIntro, Zenon
  <1>2. Cardinality(Imports(rs2, t)) <= Cardinality(Imports(rs, t))
    BY <1>1, ImportsFinite, FS_Subset, Zenon
  <1>3. Cardinality(ret[t]) <= Cardinality(ret2[t])
    BY RetainedFinite, FS_Subset, Zenon
  <1>4. Cardinality(Imports(rs, t)) <= Cardinality(ret[t])
    BY Zenon DEF ImportsKept
  <1>5. /\ Cardinality(Imports(rs2, t)) \in Nat /\ Cardinality(Imports(rs, t)) \in Nat
        /\ Cardinality(ret[t]) \in Nat /\ Cardinality(ret2[t]) \in Nat
    BY ImportsFinite, RetainedFinite, FS_CardinalityType, Zenon
  <1> QED BY <1>2, <1>3, <1>4, <1>5

\* Run r counts the new records of a page, and its terminal u retains the page.
PageCounted(rs, rs2, ret, ret2, r, u, recs) ==
  /\ rs[r].terminal = u /\ rs2[r].terminal = u
  /\ rs2[r].imported = rs[r].imported + Cardinality(recs \ ret[u])
  /\ \A s \in RunIds : s # r => rs2[s] = rs[s]
  /\ ret2[u] = ret[u] \cup recs
  /\ \A t \in Terminals : t # u => ret2[t] = ret[t]

\* A page adds to the sum what it adds to the retained records.
LEMMA ImportsAdded ==
  ASSUME NEW rs, NEW rs2, NEW ret, NEW ret2,
         RunsType(rs), RunsType(rs2), RetainedType(ret), RetainedType(ret2),
         ImportsKept(rs, ret),
         NEW r \in RunIds, NEW u \in Terminals, NEW recs, recs \subseteq Records,
         PageCounted(rs, rs2, ret, ret2, r, u, recs)
  PROVE ImportsKept(rs2, ret2)
  <1> DEFINE new == recs \ ret[u]
             k == rs[r].imported
             n == Cardinality(new)
             added == {r} \X ((k + 1) .. (k + n))
  <1>0. /\ rs[r].terminal = u /\ rs2[r].terminal = u
        /\ rs2[r].imported = rs[r].imported + Cardinality(recs \ ret[u])
        /\ \A s \in RunIds : s # r => rs2[s] = rs[s]
        /\ ret2[u] = ret[u] \cup recs
        /\ \A t \in Terminals : t # u => ret2[t] = ret[t]
    BY Zenon DEF PageCounted
  <1>1. IsFiniteSet(new) /\ n \in Nat
    BY RecordsAssumption, FS_Subset, FS_CardinalityType, Zenon
  <1>2. k \in Nat /\ rs2[r].imported = k + n
    BY <1>0, Zenon DEF RunsType, Run
  <1> HIDE DEF n, k
  <1> SUFFICES ASSUME NEW t \in Terminals
               PROVE Cardinality(Imports(rs2, t)) <= Cardinality(ret2[t])
    BY Zenon DEF ImportsKept
  <1>4. /\ Cardinality(Imports(rs, t)) <= Cardinality(ret[t])
        /\ IsFiniteSet(Imports(rs, t)) /\ IsFiniteSet(Imports(rs2, t))
        /\ IsFiniteSet(ret[t])
    BY ImportsFinite, RetainedFinite, Zenon DEF ImportsKept
  <1>5. /\ Cardinality(Imports(rs, t)) \in Nat /\ Cardinality(ret[t]) \in Nat
        /\ Cardinality(Imports(rs2, t)) \in Nat
    BY <1>4, FS_CardinalityType, Zenon
  <1>6. CASE t # u
    <2>1. ret2[t] = ret[t]
      BY <1>0, <1>6, Zenon
    <2>2. ASSUME NEW x \in Imports(rs2, t) PROVE x \in Imports(rs, t)
      <3>1. PICK s \in RunIds :
              rs2[s].terminal = t /\ \E i \in 1 .. rs2[s].imported : x = <<s, i>>
        BY ImportElim
      <3>2. rs2[s] = rs[s]
        BY <1>0, <1>6, <3>1, Zenon
      <3>3. PICK i \in 1 .. rs[s].imported : x = <<s, i>>
        BY <3>1, <3>2, Zenon
      <3>4. rs[s].terminal = t
        BY <3>1, <3>2, Zenon
      <3> QED BY <3>3, <3>4, ImportIntro, Zenon
    <2>3. Cardinality(Imports(rs2, t)) <= Cardinality(Imports(rs, t))
      BY <1>4, <2>2, FS_Subset, Zenon
    <2> QED BY <1>4, <1>5, <2>1, <2>3
  <1>7. CASE t = u
    <2>1. ASSUME NEW x \in Imports(rs2, t) PROVE x \in Imports(rs, t) \cup added
      <3>1. PICK s \in RunIds :
              rs2[s].terminal = t /\ \E i \in 1 .. rs2[s].imported : x = <<s, i>>
        BY ImportElim
      <3>2. CASE s # r
        <4>1. rs2[s] = rs[s]
          BY <1>0, <3>2, Zenon
        <4>2. PICK i \in 1 .. rs[s].imported : x = <<s, i>>
          BY <3>1, <4>1, Zenon
        <4>3. rs[s].terminal = t
          BY <3>1, <4>1, Zenon
        <4>4. x \in Imports(rs, t)
          BY <4>2, <4>3, ImportIntro, Zenon
        <4> QED BY <4>4, Zenon
      <3>3. CASE s = r
        <4>1. PICK i \in 1 .. (k + n) : x = <<r, i>>
          BY <1>2, <3>1, <3>3, Zenon
        <4>2. i \in 1 .. k \/ i \in (k + 1) .. (k + n)
          BY <1>1, <1>2
        <4>3. CASE i \in 1 .. k
          BY <1>0, <1>7, <4>1, <4>3, ImportIntro, Zenon DEF k
        <4>4. CASE i \in (k + 1) .. (k + n)
          BY <4>1, <4>4, SMT
        <4> QED BY <4>2, <4>3, <4>4, Zenon
      <3> QED BY <3>2, <3>3, Zenon
    <2>2. IsFiniteSet(added) /\ Cardinality(added) = n
      <3>1. /\ IsFiniteSet((k + 1) .. (k + n))
            /\ Cardinality((k + 1) .. (k + n)) = n
        <4>1. k + 1 \in Int /\ k + n \in Int
          BY <1>1, <1>2
        <4>2. /\ IsFiniteSet((k + 1) .. (k + n))
              /\ Cardinality((k + 1) .. (k + n))
                   = IF k + 1 > k + n THEN 0 ELSE (k + n) - (k + 1) + 1
          BY <4>1, FS_Interval
        <4> QED BY <1>1, <1>2, <4>2
      <3>2. IsFiniteSet({r}) /\ Cardinality({r}) = 1
        BY FS_Singleton, Zenon
      <3>3. /\ IsFiniteSet(added)
            /\ Cardinality(added) = Cardinality({r}) * Cardinality((k + 1) .. (k + n))
        BY <3>1, <3>2, FS_Product, Zenon
      <3> QED BY <1>1, <3>1, <3>2, <3>3
    <2> HIDE DEF added
    <2>3. /\ IsFiniteSet(Imports(rs, t) \cup added)
          /\ Cardinality(Imports(rs, t) \cup added)
               = Cardinality(Imports(rs, t)) + Cardinality(added)
                   - Cardinality(Imports(rs, t) \cap added)
      BY <1>4, <2>2, FS_Union, Zenon
    <2>4. Cardinality(Imports(rs, t) \cap added) \in Nat
      <3>1. IsFiniteSet(Imports(rs, t) \cap added)
        BY <2>2, FS_Subset, Zenon
      <3> QED BY <3>1, FS_CardinalityType, Zenon
    <2>5. Cardinality(Imports(rs2, t)) <= Cardinality(Imports(rs, t) \cup added)
      BY <2>1, <2>3, FS_Subset, Zenon
    <2>6. ret2[t] = ret[t] \cup new /\ ret[t] \cap new = {}
      <3>1. ret2[t] = ret[t] \cup recs
        BY <1>0, <1>7, Zenon
      <3> QED BY <1>7, <3>1, Zenon
    <2> HIDE DEF new
    <2>7. Cardinality(ret2[t]) = Cardinality(ret[t]) + n - Cardinality({})
      <3>1. Cardinality(ret[t] \cup new)
              = Cardinality(ret[t]) + Cardinality(new) - Cardinality(ret[t] \cap new)
        BY <1>1, <1>4, FS_Union, Zenon
      <3> QED BY <2>6, <3>1, Zenon DEF n
    <2>8. Cardinality({}) = 0
      BY FS_EmptySet, Zenon
    <2> QED BY <1>1, <1>4, <1>5, <2>2, <2>3, <2>4, <2>5, <2>7, <2>8
  <1> QED BY <1>6, <1>7, Zenon

\* Runs that only change their status or owner keep their imports.
LEMMA SameImports ==
  ASSUME NEW ts, RunsType(runs), NEW r \in RunIds
  PROVE /\ FailedByExpiry(ts)[r].imported = runs[r].imported
        /\ FailedByExpiry(ts)[r].terminal = runs[r].terminal
  <1>1. runs[r] \in Run
    BY Zenon DEF RunsType
  <1>2. /\ [runs[r] EXCEPT !.status = "failed"].imported = runs[r].imported
        /\ [runs[r] EXCEPT !.status = "failed"].terminal = runs[r].terminal
    BY <1>1, Zenon DEF Run
  <1>3. \/ FailedByExpiry(ts)[r] = runs[r]
        \/ FailedByExpiry(ts)[r] = [runs[r] EXCEPT !.status = "failed"]
    BY Zenon DEF FailedByExpiry
  <1> QED BY <1>2, <1>3, Zenon

\* A result that ends or starts a run with the counters it had.
LEMMA UncountedResult ==
  ASSUME IInv, IInv', ImportsInv, NEW r \in RunIds, NEW run \in Run,
         run.imported = runs[r].imported, run.terminal = runs[r].terminal,
         runs' = [runs EXCEPT ![r] = run],
         \A t \in Terminals : retained[t] \subseteq retained'[t]
  PROVE ImportsKept(runs', retained')
  <1>1. /\ RunsType(runs) /\ RunsType(runs')
        /\ RetainedType(retained) /\ RetainedType(retained')
    BY Zenon DEF IInv, TypeOK
  <1>2. \A s \in RunIds : /\ runs'[s].imported = runs[s].imported
                          /\ runs'[s].terminal = runs[s].terminal
    BY <1>1, Zenon DEF RunsType
  <1> QED BY <1>1, <1>2, ImportsStay, Zenon DEF ImportsInv

\* A result that counts its page.
LEMMA CountedResult ==
  ASSUME IInv, IInv', ImportsInv, NEW c \in CommandIds, NEW a \in Answers,
         SyncResult(c, a), NEW run,
         run.imported = Counted(runs[commands[c].run], a).imported,
         run.terminal = Counted(runs[commands[c].run], a).terminal,
         runs' = [runs EXCEPT ![commands[c].run] = run],
         Retain(commands[c].terminal, a)
  PROVE ImportsKept(runs', retained')
  <1> DEFINE r == commands[c].run
             u == commands[c].terminal
  <1>1. /\ RunsType(runs) /\ RunsType(runs')
        /\ RetainedType(retained) /\ RetainedType(retained')
    BY Zenon DEF IInv, TypeOK
  <1>2. r \in RunIds /\ u \in Terminals /\ runs[r] \in Run /\ runs[r].terminal = u
    BY SyncFacts, Zenon
  <1>3. runs'[r] = run /\ \A s \in RunIds : s # r => runs'[s] = runs[s]
    BY <1>1, <1>2, Zenon DEF RunsType
  <1>4. /\ runs'[r].terminal = u
        /\ runs'[r].imported = runs[r].imported + Cardinality(a.recs \ retained[u])
    <2>1. /\ Counted(runs[r], a).terminal = runs[r].terminal
          /\ Counted(runs[r], a).imported
               = runs[r].imported + Imported(runs[r].terminal, a)
      BY <1>2, CountedRun, Zenon
    <2>2. /\ runs'[r].terminal = Counted(runs[r], a).terminal
          /\ runs'[r].imported = Counted(runs[r], a).imported
      BY <1>3, Zenon
    <2> HIDE DEF r, u
    <2> QED BY <1>2, <2>1, <2>2, Zenon DEF Imported
  <1>5. /\ a.recs \subseteq Records
        /\ retained' = [retained EXCEPT ![u] = @ \cup a.recs]
        /\ ImportsKept(runs, retained)
    BY ImportedBound, Zenon DEF Retain, ImportsInv
  <1>6. PageCounted(runs, runs', retained, retained', r, u, a.recs)
    BY <1>1, <1>2, <1>3, <1>4, <1>5, Zenon DEF RetainedType, PageCounted
  <1> HIDE DEF r, u
  <1> QED BY <1>1, <1>2, <1>5, <1>6, ImportsAdded, Zenon

\* The results of a batch keep the sums.
LEMMA ResultImports ==
  ASSUME IInv, IInv', ImportsInv, NEW c \in CommandIds, NEW a \in Answers,
         BatchResult(c, a)
  PROVE ImportsInv'
  <1> DEFINE r == commands[c].run
  <1>1. undo' = undo
    BY Zenon DEF BatchResult, PlainResult, RepeatedResult, SearchStarts, NextPage,
       LastPage, AnswerFailsSync, PageFailsSync, ClockFailsSync, SyncResult,
       ResultFor
  <1> SUFFICES ImportsKept(runs', retained')
    BY <1>1, Zenon DEF ImportsInv
  <1>2. CASE PlainResult(c, a) \/ RepeatedResult(c, a)
    BY <1>2, Zenon DEF PlainResult, RepeatedResult, ImportsInv
  <1>3. ASSUME NEW status \in {"running", "failed"}, SyncResult(c, a),
               runs' = [runs EXCEPT ![r] = [runs[r] EXCEPT !.status = status]],
               retained' = retained \/ Retain(commands[c].terminal, a)
        PROVE ImportsKept(runs', retained')
    <2>1. /\ r \in RunIds /\ runs[r] \in Run /\ RetainedType(retained)
          /\ commands[c].terminal \in Terminals
      BY <1>3, SyncFacts, Zenon
    <2>2. \A t \in Terminals : retained[t] \subseteq retained'[t]
      BY <1>3, <2>1, RetainPage, Zenon
    <2> DEFINE run == [runs[r] EXCEPT !.status = status]
    <2>3. run \in Run /\ run.imported = runs[r].imported
          /\ run.terminal = runs[r].terminal
      BY <2>1, Zenon DEF Run
    <2>4. runs' = [runs EXCEPT ![r] = run]
      BY <1>3, Zenon
    <2> HIDE DEF run, r
    <2> QED BY <2>1, <2>2, <2>3, <2>4, UncountedResult, Zenon
  <1>4. ASSUME NEW status \in {"completed", "failed"}, SyncResult(c, a),
               runs' = [runs EXCEPT
                          ![r] = [Counted(runs[r], a) EXCEPT !.status = status]],
               Retain(commands[c].terminal, a)
        PROVE ImportsKept(runs', retained')
    <2>1. Counted(runs[r], a) \in Run
      <3>1. runs[r] \in Run
        BY <1>4, SyncFacts, Zenon
      <3> QED BY <3>1, CountedRun, Zenon
    <2> DEFINE run == [Counted(runs[r], a) EXCEPT !.status = status]
    <2>2. /\ run.imported = Counted(runs[r], a).imported
          /\ run.terminal = Counted(runs[r], a).terminal
      BY <2>1, Zenon DEF Run
    <2>3. runs' = [runs EXCEPT ![r] = run]
      BY <1>4, Zenon
    <2> HIDE DEF run
    <2> QED BY <1>4, <2>2, <2>3, CountedResult, Zenon
  <1>5. CASE SearchStarts(c, a)
    BY <1>3, <1>5, Zenon DEF SearchStarts
  <1>6. CASE NextPage(c, a)
    BY <1>6, CountedResult, Zenon DEF NextPage
  <1>7. CASE LastPage(c, a)
    BY <1>3, <1>4, <1>7, Zenon DEF LastPage, Fail
  <1>8. CASE AnswerFailsSync(c, a) \/ ClockFailsSync(c, a)
    BY <1>3, <1>8, Zenon DEF AnswerFailsSync, ClockFailsSync, Fail
  <1>9. CASE PageFailsSync(c, a)
    BY <1>3, <1>4, <1>9, Zenon DEF PageFailsSync, Fail
  <1> QED
    BY <1>2, <1>5, <1>6, <1>7, <1>8, <1>9, Zenon DEF BatchResult

\* Queueing, claiming, expiring and replacing the administrator leave the sums.
LEMMA QueueImports ==
  ASSUME IInv, IInv', ImportsInv,
         \/ \E t \in Terminals : \/ QueueISAPICommand(t) \/ QueueAccessEventSync(t)
                                 \/ ClaimISAPICommands(t) \/ CompleteISAPICommands(t)
         \/ ExpireOverdueISAPICommands
         \/ AdministratorReplaced
  PROVE ImportsKept(runs', retained')
  <1>1. /\ RunsType(runs) /\ RunsType(runs')
        /\ RetainedType(retained) /\ RetainedType(retained')
    BY Zenon DEF IInv, TypeOK
  <1>2. retained' = retained /\ ImportsKept(runs, retained)
    BY Zenon DEF QueueISAPICommand, QueueAccessEventSync, ClaimISAPICommands,
       CompleteISAPICommands, ExpireOverdueISAPICommands, AdministratorReplaced,
       ImportsInv
  <1>3. ASSUME \A r \in RunIds :
                 /\ runs'[r].imported = runs[r].imported
                 /\ runs'[r].terminal = runs[r].terminal \/ runs[r].imported = 0
        PROVE ImportsKept(runs', retained')
    BY <1>1, <1>2, <1>3, ImportsStay, Zenon
  <1>4. ASSUME NEW t \in Terminals, QueueISAPICommand(t)
        PROVE ImportsKept(runs', retained')
    BY <1>2, <1>4, Zenon DEF QueueISAPICommand
  <1>5. ASSUME NEW ts, runs' = FailedByExpiry(ts)
        PROVE ImportsKept(runs', retained')
    BY <1>1, <1>3, <1>5, SameImports, Zenon
  <1>6. ASSUME NEW t \in Terminals, QueueAccessEventSync(t)
        PROVE ImportsKept(runs', retained')
    <2> DEFINE rs == FailedByExpiry({t})
               new == [NoRun EXCEPT !.status = "awaiting_time", !.terminal = t,
                                    !.owner = TRUE]
    <2>1. runs' = [rs EXCEPT ![nextRun] = new] /\ nextRun <= MaxRuns
      BY <1>6, Zenon DEF QueueAccessEventSync
    <2>2. nextRun \in RunIds
      BY <2>1, CommandBoundsAssumption DEF IInv, TypeOK, RunIds
    <2>3. runs[nextRun] = NoRun
      <3>1. nextRun >= nextRun
        BY <2>2 DEF RunIds
      <3> QED BY <2>2, <3>1, Zenon DEF IInv, TablesInv, RowsFree
    <2>4. new.imported = 0 /\ runs[nextRun].imported = 0
      BY <2>3, SMT DEF NoRun
    <2>5. DOMAIN rs = RunIds
      BY Zenon DEF FailedByExpiry
    <2>6. \A r \in RunIds : /\ rs[r].imported = runs[r].imported
                            /\ rs[r].terminal = runs[r].terminal
      BY <1>1, SameImports, Zenon
    <2> HIDE DEF rs, new
    <2>7. ASSUME NEW r \in RunIds
          PROVE /\ runs'[r].imported = runs[r].imported
                /\ runs'[r].terminal = runs[r].terminal \/ runs[r].imported = 0
      <3>1. CASE r = nextRun
        BY <2>1, <2>2, <2>4, <2>5, <3>1, Zenon
      <3>2. CASE r # nextRun
        BY <2>1, <2>5, <2>6, <3>2, Zenon
      <3> QED BY <3>1, <3>2, Zenon
    <2> QED BY <1>3, <2>7, Zenon
  <1>7. ASSUME AdministratorReplaced PROVE ImportsKept(runs', retained')
    <2>1. \A r \in RunIds : runs[r] \in Run
                            /\ runs'[r] = [runs[r] EXCEPT !.owner = FALSE]
      BY <1>1, <1>7, Zenon DEF AdministratorReplaced, RunsType
    <2>2. \A r \in RunIds : /\ runs'[r].imported = runs[r].imported
                            /\ runs'[r].terminal = runs[r].terminal
      BY <2>1, Zenon DEF Run
    <2> QED BY <1>3, <2>2, Zenon
  <1>8. ASSUME NEW t \in Terminals, ClaimISAPICommands(t) \/ CompleteISAPICommands(t)
        PROVE ImportsKept(runs', retained')
    BY <1>5, <1>8, Zenon DEF ClaimISAPICommands, CompleteISAPICommands
  <1>9. ASSUME ExpireOverdueISAPICommands PROVE ImportsKept(runs', retained')
    BY <1>5, <1>9, Zenon DEF ExpireOverdueISAPICommands
  <1> QED BY <1>4, <1>6, <1>7, <1>8, <1>9, Zenon

\* Before anything is queued there is nothing to import.
LEMMA NoImports ==
  ASSUME NEW rs, RunsType(rs), \A r \in RunIds : rs[r] = NoRun,
         NEW ret, RetainedType(ret)
  PROVE ImportsKept(rs, ret)
  <1> SUFFICES ASSUME NEW t \in Terminals
               PROVE Cardinality(Imports(rs, t)) <= Cardinality(ret[t])
    BY Zenon DEF ImportsKept
  <1>1. ASSUME NEW x \in Imports(rs, t) PROVE FALSE
    <2>1. PICK r \in RunIds : rs[r].terminal = t
      BY ImportElim
    <2>2. rs[r].terminal = "none"
      BY SMT DEF NoRun
    <2> QED BY <2>1, <2>2, TerminalsAssumption, Zenon
  <1>2. Imports(rs, t) = {}
    BY <1>1, Zenon
  <1>3. Cardinality(Imports(rs, t)) = 0
    BY <1>2, FS_EmptySet, Zenon
  <1> QED BY <1>3, RetainedFinite

\* The sums hold in the empty tables.
LEMMA EmptyImports ==
  ImportsKept(EmptyTables.runs, EmptyTables.retained)
  <1>1. NoRun \in Run
    BY SMT DEF NoRun, Run
  <1>2. RunsType(EmptyTables.runs) /\ RetainedType(EmptyTables.retained)
        /\ \A r \in RunIds : EmptyTables.runs[r] = NoRun
    BY <1>1, SMT DEF EmptyTables, RunsType, RetainedType
  <1> QED BY <1>2, NoImports, Zenon

\* Every step keeps the sums.
LEMMA ImportsStep ==
  ASSUME IInv, IInv', ImportsInv, [Next]_vars
  PROVE ImportsInv'
  <1>1. CASE UNCHANGED vars
    BY <1>1, Zenon DEF vars, ImportsInv
  <1>2. ASSUME NEW c \in CommandIds, NEW a \in Answers, BatchResult(c, a)
        PROVE ImportsInv'
    BY <1>2, ResultImports, Zenon
  <1>3. ASSUME \/ \E t \in Terminals : \/ QueueISAPICommand(t)
                                       \/ QueueAccessEventSync(t)
                                       \/ ClaimISAPICommands(t)
               \/ ExpireOverdueISAPICommands
               \/ AdministratorReplaced
        PROVE ImportsInv'
    <2>1. undo' = undo
      BY <1>3, Zenon DEF QueueISAPICommand, QueueAccessEventSync, ClaimISAPICommands,
         ExpireOverdueISAPICommands, AdministratorReplaced
    <2>2. ImportsKept(runs', retained')
      BY <1>3, QueueImports, Zenon
    <2> QED BY <2>1, <2>2, Zenon DEF ImportsInv
  <1>4. ASSUME NEW t \in Terminals, CompleteISAPICommands(t) PROVE ImportsInv'
    <2>1. undo'.runs = runs /\ undo'.retained = retained
      BY <1>4, Zenon DEF CompleteISAPICommands, Tables
    <2>2. ImportsKept(runs', retained')
      BY <1>4, QueueImports, Zenon
    <2> QED BY <2>1, <2>2, Zenon DEF ImportsInv
  <1>5. CASE Commit
    BY <1>5, EmptyImports, Zenon DEF Commit, ImportsInv
  <1>6. CASE Rollback
    BY <1>6, EmptyImports, Zenon DEF Rollback, ImportsInv
  <1>7. ASSUME \/ \E t \in Terminals : ConnectionChanges(t)
               \/ \E c \in CommandIds : DeadlinePasses(c)
        PROVE ImportsInv'
    BY <1>7, Zenon DEF ConnectionChanges, DeadlinePasses, ImportsInv
  <1> QED BY <1>1, <1>2, <1>3, <1>4, <1>5, <1>6, <1>7, Zenon DEF Next

\* A record counts as imported once, for any number of records, runs and
\* overlapping pages: what the runs of a terminal report never adds up to more
\* than what is retained for it, also across rollbacks
\* (insertRetainedAccessEvents, ON CONFLICT DO NOTHING).
THEOREM ImportedOnce == Spec => []ImportsAreRetained
  <1>1. Init => ImportsInv
    <2> SUFFICES ASSUME Init PROVE ImportsInv
      OBVIOUS
    <2>1. /\ runs = EmptyTables.runs /\ retained = EmptyTables.retained
          /\ undo = EmptyTables
      BY Zenon DEF Init, EmptyTables
    <2> QED BY <2>1, EmptyImports, Zenon DEF ImportsInv
  <1>2. IInv /\ IInv' /\ ImportsInv /\ [Next]_vars => ImportsInv'
    BY ImportsStep, Zenon
  <1>3. ImportsInv => ImportsAreRetained
    BY Zenon DEF ImportsInv, ImportsAreRetained
  <1> QED BY <1>1, <1>2, <1>3, Invariance, PTL DEF Spec
=============================================================================
