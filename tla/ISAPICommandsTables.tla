------------------------ MODULE ISAPICommandsTables -------------------------
(***************************************************************************)
(* What queueing, sending, expiring and releasing rows, and the result of  *)
(* a command, do to the invariant of the command and sync tables.  The     *)
(* lemmas are about table values, so that they apply to the rows in force  *)
(* and to the rows that a rollback would restore.                          *)
(***************************************************************************)
EXTENDS ISAPICommands, TLAPS

\* The tables before anything is stored satisfy the invariant.
LEMMA EmptyInv ==
  ASSUME NEW nr \in Nat \ {0}
  PROVE TablesInv([c \in CommandIds |-> NoCommand], [r \in RunIds |-> NoRun],
                  [t \in Terminals |-> {}], 1, nr)
  <1> DEFINE cs == [c \in CommandIds |-> NoCommand]
             rs == [r \in RunIds |-> NoRun]
             ret == [t \in Terminals |-> {}]
  <1>1. NoCommand \in Command /\ NoRun \in Run
    BY DEF NoCommand, Command, NoRun, Run
  <1>2. TablesType(cs, rs, ret, 1)
    BY <1>1, CommandBoundsAssumption DEF TablesType, CommandsType, RunsType,
                                         RetainedType
  <1>3. /\ \A c \in CommandIds : cs[c] = NoCommand
        /\ \A r \in RunIds : rs[r] = NoRun
    BY Zenon
  <1>4. /\ NoCommand.run = 0 /\ ~Outstanding(NoCommand)
        /\ NoCommand.answer = NoAnswer
        /\ ~Active(NoRun) /\ NoRun.status = "none"
    BY Zenon DEF NoCommand, NoRun, Outstanding, Active
  <1> HIDE DEF cs, rs, ret
  <1>5. RowsFree(cs, rs, 1, nr) /\ Linked(cs, rs, nr) /\ PositionsGrow(cs)
    BY <1>3, <1>4, Zenon DEF RowsFree, Linked, PositionsGrow
  <1>6. AnswersMatch(cs) /\ RunsWait(cs, rs) /\ OneActive(rs)
    BY <1>3, <1>4, Zenon DEF AnswersMatch, RunsWait, OneActive
  <1>7. Accounted(cs, rs) /\ Distinct(cs) /\ RecordsKept(cs, rs, ret)
    BY <1>3, <1>4, Zenon DEF Accounted, Distinct, RecordsKept
  <1> QED
    BY <1>2, <1>5, <1>6, <1>7, Zenon DEF TablesInv, cs, rs, ret

\* Commands of S expire, and the active runs that waited for them fail.
LEMMA ExpireRows ==
  ASSUME NEW cs, NEW rs, NEW ret, NEW nc, NEW nr \in Nat,
         TablesInv(cs, rs, ret, nc, nr),
         NEW S \in SUBSET CommandIds, \A c \in S : Outstanding(cs[c])
  PROVE TablesInv(
          [c \in CommandIds |->
             IF c \in S THEN [cs[c] EXCEPT !.status = "expired"] ELSE cs[c]],
          [r \in RunIds |->
             IF Active(rs[r]) /\ \E c \in S : cs[c].run = r
             THEN [rs[r] EXCEPT !.status = "failed"] ELSE rs[r]],
          ret, nc, nr)
  <1> DEFINE cs2 == [c \in CommandIds |->
                       IF c \in S THEN [cs[c] EXCEPT !.status = "expired"]
                       ELSE cs[c]]
             hit(r) == Active(rs[r]) /\ \E c \in S : cs[c].run = r
             rs2 == [r \in RunIds |->
                       IF hit(r) THEN [rs[r] EXCEPT !.status = "failed"]
                       ELSE rs[r]]
  <1>1. /\ cs \in [CommandIds -> Command] /\ rs \in [RunIds -> Run]
        /\ nc \in 1 .. MaxCommands + 1
    BY Zenon DEF TablesInv, TablesType, CommandsType, RunsType
  <1>2. \A c \in CommandIds :
          /\ cs2[c] \in Command
          /\ cs2[c].status = IF c \in S THEN "expired" ELSE cs[c].status
          /\ cs2[c].run = cs[c].run /\ cs2[c].terminal = cs[c].terminal
          /\ cs2[c].phase = cs[c].phase /\ cs2[c].position = cs[c].position
          /\ cs2[c].answer = cs[c].answer
          /\ c \notin S => cs2[c] = cs[c]
    BY <1>1 DEF Command
  <1>3. \A r \in RunIds :
          /\ rs2[r] \in Run
          /\ rs2[r].status = IF hit(r) THEN "failed" ELSE rs[r].status
          /\ rs2[r].terminal = rs[r].terminal /\ rs2[r].total = rs[r].total
          /\ rs2[r].imported = rs[r].imported
          /\ rs2[r].duplicate = rs[r].duplicate
          /\ ~hit(r) => rs2[r] = rs[r]
    BY <1>1 DEF Run
  <1>4. cs2 \in [CommandIds -> Command] /\ rs2 \in [RunIds -> Run]
    <2>1. cs2 = [c \in CommandIds |-> cs2[c]] /\ rs2 = [r \in RunIds |-> rs2[r]]
      BY Zenon
    <2> HIDE DEF cs2, rs2
    <2> QED BY <1>2, <1>3, <2>1
  <1> HIDE DEF cs2, rs2
  <1>5. /\ \A c \in CommandIds : c \in S \/ ~Outstanding(cs2[c]) \/ cs2[c] = cs[c]
        /\ \A c \in CommandIds : Outstanding(cs2[c]) => c \notin S /\ Outstanding(cs[c])
        /\ \A r \in RunIds : Active(rs2[r]) => Active(rs[r]) /\ ~hit(r)
    BY <1>2, <1>3, Zenon DEF Outstanding, Active
  <1> HIDE DEF hit
  <1>6. TablesType(cs2, rs2, ret, nc)
    BY <1>4, Zenon DEF TablesInv, TablesType, CommandsType, RunsType
  <1>7. RowsFree(cs2, rs2, nc, nr)
    <2>1. \A c \in CommandIds : c >= nc => cs2[c] = NoCommand
      <3> SUFFICES ASSUME NEW c \in CommandIds, c >= nc PROVE cs2[c] = NoCommand
        BY Zenon
      <3>1. cs[c] = NoCommand
        BY Zenon DEF TablesInv, RowsFree
      <3>2. c \notin S
        BY <3>1 DEF NoCommand, Outstanding
      <3> QED BY <1>2, <3>1, <3>2, Zenon
    <2>2. \A r \in RunIds : r >= nr => rs2[r] = NoRun
      <3> SUFFICES ASSUME NEW r \in RunIds, r >= nr PROVE rs2[r] = NoRun
        BY Zenon
      <3>1. rs[r] = NoRun
        BY Zenon DEF TablesInv, RowsFree
      <3>2. ~hit(r)
        BY <3>1 DEF NoRun, Active, hit
      <3> QED BY <1>3, <3>1, <3>2, Zenon
    <2> QED BY <2>1, <2>2, Zenon DEF RowsFree
  <1>8. Linked(cs2, rs2, nr)
    BY <1>2, <1>3 DEF TablesInv, Linked
  <1>9. PositionsGrow(cs2)
    BY <1>2, <1>5 DEF TablesInv, PositionsGrow
  <1>10. AnswersMatch(cs2)
    BY <1>2, <1>5, Zenon DEF TablesInv, AnswersMatch, Outstanding
  <1>11. RunsWait(cs2, rs2)
    <2>1. ASSUME NEW r \in RunIds, Active(rs2[r])
          PROVE \E c \in CommandIds : cs2[c].run = r /\ Outstanding(cs2[c])
      <3>1. PICK c \in CommandIds : cs[c].run = r /\ Outstanding(cs[c])
        BY <2>1, <1>5, Zenon DEF TablesInv, RunsWait
      <3>2. c \notin S
        BY <2>1, <3>1, <1>5, Zenon DEF hit
      <3> QED BY <3>1, <3>2, <1>2, Zenon DEF Outstanding
    <2>2. ASSUME NEW c \in CommandIds, cs2[c].run # 0, Outstanding(cs2[c])
          PROVE /\ cs2[c].run \in RunIds
                /\ rs2[cs2[c].run].status =
                     (IF cs2[c].phase = "time" THEN "awaiting_time" ELSE "running")
                /\ rs2[cs2[c].run].terminal = cs2[c].terminal
      <3>1. /\ cs[c].run # 0 /\ Outstanding(cs[c]) /\ c \notin S
        BY <2>2, <1>2, <1>5, Zenon
      <3>2. /\ cs[c].run \in RunIds
            /\ rs[cs[c].run].status =
                 (IF cs[c].phase = "time" THEN "awaiting_time" ELSE "running")
            /\ rs[cs[c].run].terminal = cs[c].terminal
        BY <3>1, Zenon DEF TablesInv, RunsWait
      <3>3. ~hit(cs[c].run)
        <4> SUFFICES ASSUME NEW d \in S, cs[d].run = cs[c].run PROVE FALSE
          BY Zenon DEF hit
        <4> QED BY <3>1, Zenon DEF TablesInv, RunsWait
      <3> QED BY <3>2, <3>3, <1>2, <1>3
    <2>3. ASSUME NEW c \in CommandIds, NEW d \in CommandIds,
                 cs2[c].run # 0, cs2[c].run = cs2[d].run,
                 Outstanding(cs2[c]), Outstanding(cs2[d])
          PROVE c = d
      BY <2>3, <1>2, <1>5, Zenon DEF TablesInv, RunsWait
    <2> QED BY <2>1, <2>2, <2>3, Zenon DEF RunsWait
  <1>12. OneActive(rs2)
    BY <1>3, <1>5, Zenon DEF TablesInv, OneActive
  <1>13. Accounted(cs2, rs2)
    <2>1. ASSUME NEW c \in CommandIds, cs2[c].run # 0, Outstanding(cs2[c]),
                 cs2[c].phase = "page"
          PROVE cs2[c].position = rs2[cs2[c].run].imported + rs2[cs2[c].run].duplicate
      <3>1. cs[c].run # 0 /\ Outstanding(cs[c]) /\ cs[c].phase = "page"
        BY <2>1, <1>2, <1>5, Zenon
      <3>2. cs[c].position = rs[cs[c].run].imported + rs[cs[c].run].duplicate
        BY <3>1, Zenon DEF TablesInv, Accounted
      <3>3. cs[c].run \in RunIds
        BY <3>1, Zenon DEF TablesInv, Linked
      <3> QED BY <3>2, <3>3, <1>2, <1>3, Zenon
    <2>2. ASSUME NEW r \in RunIds, rs2[r].status = "completed"
          PROVE rs2[r].imported + rs2[r].duplicate = rs2[r].total
      <3>1. rs[r].status = "completed"
        BY <2>2, <1>3, Zenon
      <3> QED BY <3>1, <1>3, Zenon DEF TablesInv, Accounted
    <2>3. \A r \in RunIds : rs2[r].status = "awaiting_time" =>
                              rs2[r].imported = 0 /\ rs2[r].duplicate = 0
      BY <1>3, Zenon DEF TablesInv, Accounted
    <2> QED BY <2>1, <2>2, <2>3, Zenon DEF Accounted
  <1>14. Distinct(cs2)
    BY <1>2 DEF TablesInv, Distinct
  <1>15. RecordsKept(cs2, rs2, ret)
    <2> SUFFICES ASSUME NEW c \in CommandIds, cs2[c].run # 0,
                        cs2[c].phase = "page", cs2[c].status = "completed",
                        rs2[cs2[c].run].status \in {"running", "completed"}
                 PROVE cs2[c].answer.recs \subseteq ret[cs2[c].terminal]
      BY Zenon DEF RecordsKept
    <2>1. /\ cs[c].run # 0 /\ cs[c].phase = "page" /\ cs[c].status = "completed"
          /\ cs[c].run \in RunIds
      BY <1>2, Zenon DEF TablesInv, Linked
    <2>2. rs[cs[c].run].status \in {"running", "completed"}
      BY <2>1, <1>2, <1>3, Zenon
    <2> QED BY <2>1, <2>2, <1>2, Zenon DEF TablesInv, RecordsKept
  <1> QED
    BY <1>6, <1>7, <1>8, <1>9, <1>10, <1>11, <1>12, <1>13, <1>14, <1>15, Zenon
    DEF TablesInv, cs2, rs2, hit

\* Queued commands of S are sent.
LEMMA SendRows ==
  ASSUME NEW cs, NEW rs, NEW ret, NEW nc, NEW nr \in Nat,
         TablesInv(cs, rs, ret, nc, nr),
         NEW S \in SUBSET CommandIds, \A c \in S : cs[c].status = "queued"
  PROVE TablesInv(
          [c \in CommandIds |->
             IF c \in S THEN [cs[c] EXCEPT !.status = "sent"] ELSE cs[c]],
          rs, ret, nc, nr)
  <1> DEFINE cs2 == [c \in CommandIds |->
                       IF c \in S THEN [cs[c] EXCEPT !.status = "sent"]
                       ELSE cs[c]]
  <1>1. cs \in [CommandIds -> Command] /\ nc \in 1 .. MaxCommands + 1
    BY Zenon DEF TablesInv, TablesType, CommandsType
  <1>2. \A c \in CommandIds :
          /\ cs2[c] \in Command
          /\ cs2[c].status = IF c \in S THEN "sent" ELSE cs[c].status
          /\ cs2[c].run = cs[c].run /\ cs2[c].terminal = cs[c].terminal
          /\ cs2[c].phase = cs[c].phase /\ cs2[c].position = cs[c].position
          /\ cs2[c].answer = cs[c].answer
          /\ c \notin S => cs2[c] = cs[c]
    BY <1>1 DEF Command
  <1>3. cs2 \in [CommandIds -> Command]
    <2>1. cs2 = [c \in CommandIds |-> cs2[c]]
      BY Zenon
    <2> HIDE DEF cs2
    <2> QED BY <1>2, <2>1, Zenon
  <1> HIDE DEF cs2
  <1>4. \A c \in CommandIds : /\ Outstanding(cs2[c]) <=> Outstanding(cs[c])
                              /\ cs2[c].status = "completed" <=>
                                   cs[c].status = "completed"
    BY <1>2, Zenon DEF Outstanding
  <1>5. TablesType(cs2, rs, ret, nc)
    BY <1>3, Zenon DEF TablesInv, TablesType, CommandsType
  <1>6. RowsFree(cs2, rs, nc, nr)
    <2>1. \A c \in CommandIds : c >= nc => cs2[c] = NoCommand
      <3> SUFFICES ASSUME NEW c \in CommandIds, c >= nc PROVE cs2[c] = NoCommand
        BY Zenon
      <3>1. cs[c] = NoCommand
        BY Zenon DEF TablesInv, RowsFree
      <3>2. c \notin S
        BY <3>1 DEF NoCommand
      <3> QED BY <1>2, <3>1, <3>2, Zenon
    <2> QED BY <2>1, Zenon DEF TablesInv, RowsFree
  <1>7. Linked(cs2, rs, nr) /\ PositionsGrow(cs2) /\ AnswersMatch(cs2)
    BY <1>2, <1>4 DEF TablesInv, Linked, PositionsGrow, AnswersMatch
  <1>8. RunsWait(cs2, rs)
    BY <1>2, <1>4 DEF TablesInv, RunsWait
  <1>9. /\ Accounted(cs2, rs)
        /\ Distinct(cs2)
        /\ RecordsKept(cs2, rs, ret)
    <2>1. Accounted(cs2, rs)
      BY <1>2, <1>4 DEF TablesInv, Accounted
    <2>2. Distinct(cs2)
      BY <1>2 DEF TablesInv, Distinct
    <2>3. RecordsKept(cs2, rs, ret)
      BY <1>2, <1>4 DEF TablesInv, RecordsKept
    <2> QED BY <2>1, <2>2, <2>3, Zenon
  <1> QED
    BY <1>5, <1>6, <1>7, <1>8, <1>9, Zenon DEF TablesInv, cs2

\* The runs lose their administrator.
LEMMA ReleaseRuns ==
  ASSUME NEW cs, NEW rs, NEW ret, NEW nc, NEW nr \in Nat,
         TablesInv(cs, rs, ret, nc, nr)
  PROVE TablesInv(cs, [r \in RunIds |-> [rs[r] EXCEPT !.owner = FALSE]],
                  ret, nc, nr)
  <1> DEFINE rs2 == [r \in RunIds |-> [rs[r] EXCEPT !.owner = FALSE]]
  <1>1. rs \in [RunIds -> Run]
    BY Zenon DEF TablesInv, TablesType, RunsType
  <1>2. \A r \in RunIds :
          /\ rs2[r] \in Run
          /\ rs2[r].status = rs[r].status
          /\ rs2[r].terminal = rs[r].terminal /\ rs2[r].total = rs[r].total
          /\ rs2[r].imported = rs[r].imported
          /\ rs2[r].duplicate = rs[r].duplicate
          /\ rs[r] = NoRun => rs2[r] = NoRun
    <2>1. NoRun \in Run /\ NoRun.owner = FALSE
      BY DEF NoRun, Run
    <2>2. \A n \in Run : [n EXCEPT !.owner = n.owner] = n
      BY Zenon DEF Run
    <2>3. \A r \in RunIds : rs[r] = NoRun => rs2[r] = NoRun
      BY <2>1, <2>2, Zenon
    <2>4. \A r \in RunIds :
            /\ rs2[r] \in Run
            /\ rs2[r].status = rs[r].status
            /\ rs2[r].terminal = rs[r].terminal /\ rs2[r].total = rs[r].total
            /\ rs2[r].imported = rs[r].imported
            /\ rs2[r].duplicate = rs[r].duplicate
      BY <1>1, Zenon DEF Run
    <2> QED BY <2>3, <2>4, Zenon
  <1>3. rs2 \in [RunIds -> Run]
    <2>1. rs2 = [r \in RunIds |-> rs2[r]]
      BY Zenon
    <2> HIDE DEF rs2
    <2> QED BY <1>2, <2>1, Zenon
  <1> HIDE DEF rs2
  <1>4. \A r \in RunIds : Active(rs2[r]) <=> Active(rs[r])
    BY <1>2, Zenon DEF Active
  <1>5. \A c \in CommandIds : cs[c].run # 0 => cs[c].run \in RunIds
    BY Zenon DEF TablesInv, Linked
  <1>6. TablesType(cs, rs2, ret, nc) /\ RowsFree(cs, rs2, nc, nr)
    BY <1>2, <1>3, Zenon DEF TablesInv, TablesType, RunsType, RowsFree
  <1>7. Linked(cs, rs2, nr) /\ OneActive(rs2)
    BY <1>2, <1>4 DEF TablesInv, Linked, OneActive
  <1>8. RunsWait(cs, rs2)
    BY <1>2, <1>4 DEF TablesInv, RunsWait
  <1>9. Accounted(cs, rs2)
    BY <1>2, <1>5, Zenon DEF TablesInv, Accounted
  <1>10. RecordsKept(cs, rs2, ret)
    BY <1>2, <1>5, Zenon DEF TablesInv, RecordsKept
  <1> QED
    BY <1>6, <1>7, <1>8, <1>9, <1>10, Zenon DEF TablesInv, rs2

\* A command outside every run is queued.
LEMMA AddPlain ==
  ASSUME NEW cs, NEW rs, NEW ret, NEW nc, NEW nr \in Nat, NEW t \in Terminals,
         TablesInv(cs, rs, ret, nc, nr), nc <= MaxCommands
  PROVE TablesInv([cs EXCEPT ![nc] = NewCommand(t, 0, "none", 0)], rs, ret,
                  nc + 1, nr)
  <1> DEFINE row == NewCommand(t, 0, "none", 0)
             cs2 == [cs EXCEPT ![nc] = row]
  <1>1. cs \in [CommandIds -> Command] /\ nc \in 1 .. MaxCommands + 1
    BY Zenon DEF TablesInv, TablesType, CommandsType
  <1>2. nc \in CommandIds
    BY <1>1, CommandBoundsAssumption DEF CommandIds
  <1>3. /\ row \in Command /\ row.run = 0 /\ row.answer = NoAnswer
    BY Zenon DEF NewCommand, NoCommand, Command
  <1> HIDE DEF row
  <1>4. /\ cs2 \in [CommandIds -> Command]
        /\ \A c \in CommandIds : cs2[c] = IF c = nc THEN row ELSE cs[c]
    BY <1>1, <1>2, <1>3, Zenon
  <1>5. cs[nc].run = 0
    <2>1. nc >= nc
      BY <1>1, CommandBoundsAssumption
    <2> QED BY <1>2, <2>1 DEF TablesInv, RowsFree, NoCommand
  <1> HIDE DEF cs2
  <1>6. TablesType(cs2, rs, ret, nc + 1)
    BY <1>1, <1>2, <1>4, CommandBoundsAssumption
    DEF TablesInv, TablesType, CommandsType, CommandIds
  <1>7. RowsFree(cs2, rs, nc + 1, nr)
    BY <1>1, <1>4 DEF TablesInv, RowsFree, CommandIds
  <1>8. Linked(cs2, rs, nr) /\ PositionsGrow(cs2) /\ AnswersMatch(cs2)
    BY <1>3, <1>4, Zenon DEF TablesInv, Linked, PositionsGrow, AnswersMatch
  <1>9. RunsWait(cs2, rs)
    <2>1. ASSUME NEW r \in RunIds, Active(rs[r])
          PROVE \E c \in CommandIds : cs2[c].run = r /\ Outstanding(cs2[c])
      <3>1. PICK c \in CommandIds : cs[c].run = r /\ Outstanding(cs[c])
        BY <2>1, Zenon DEF TablesInv, RunsWait
      <3>2. c # nc
        BY <3>1, <1>5 DEF RunIds
      <3> QED BY <3>1, <3>2, <1>4, Zenon
    <2>2. \A c \in CommandIds : cs2[c].run # 0 => c # nc /\ cs2[c] = cs[c]
      BY <1>3, <1>4, Zenon
    <2> QED BY <2>1, <2>2, SMTT(20) DEF TablesInv, RunsWait
  <1>10. Accounted(cs2, rs)
    BY <1>3, <1>4, Zenon DEF TablesInv, Accounted
  <1>11. Distinct(cs2)
    BY <1>3, <1>4 DEF TablesInv, Distinct
  <1>12. RecordsKept(cs2, rs, ret)
    BY <1>3, <1>4, Zenon DEF TablesInv, RecordsKept
  <1> QED
    BY <1>6, <1>7, <1>8, <1>9, <1>10, <1>11, <1>12, Zenon DEF TablesInv, cs2, row

\* A run is stored with the command that asks for the clock.
LEMMA AddRun ==
  ASSUME NEW cs, NEW rs, NEW ret, NEW nc, NEW nr \in Nat, NEW t \in Terminals,
         TablesInv(cs, rs, ret, nc, nr), nc <= MaxCommands, nr \in RunIds,
         \A r \in RunIds : rs[r].terminal = t => ~Active(rs[r])
  PROVE TablesInv([cs EXCEPT ![nc] = NewCommand(t, nr, "time", 0)],
                  [rs EXCEPT ![nr] = [NoRun EXCEPT !.status = "awaiting_time",
                                                   !.terminal = t,
                                                   !.owner = TRUE]],
                  ret, nc + 1, nr + 1)
  <1> DEFINE row == NewCommand(t, nr, "time", 0)
             run == [NoRun EXCEPT !.status = "awaiting_time", !.terminal = t,
                                  !.owner = TRUE]
             cs2 == [cs EXCEPT ![nc] = row]
             rs2 == [rs EXCEPT ![nr] = run]
  <1>1. /\ cs \in [CommandIds -> Command] /\ rs \in [RunIds -> Run]
        /\ nc \in 1 .. MaxCommands + 1
    BY Zenon DEF TablesInv, TablesType, CommandsType, RunsType
  <1>2. nc \in CommandIds /\ nr # 0
    BY <1>1, CommandBoundsAssumption DEF CommandIds, RunIds
  <1>3. /\ row \in Command /\ row.run = nr /\ row.answer = NoAnswer
        /\ row.phase = "time" /\ row.terminal = t /\ Outstanding(row)
        /\ row.status = "queued"
    BY Zenon DEF NewCommand, NoCommand, Command, Outstanding
  <1>4. /\ run \in Run /\ run.status = "awaiting_time" /\ run.terminal = t
        /\ Active(run) /\ run.imported = 0 /\ run.duplicate = 0
    <2>1. NoRun \in Run /\ NoRun.imported = 0 /\ NoRun.duplicate = 0
      BY DEF NoRun, Run
    <2> QED BY <2>1, Zenon DEF Run, Active
  <1> HIDE DEF row, run
  <1>5. /\ cs2 \in [CommandIds -> Command]
        /\ \A c \in CommandIds : cs2[c] = IF c = nc THEN row ELSE cs[c]
        /\ rs2 \in [RunIds -> Run]
        /\ \A r \in RunIds : rs2[r] = IF r = nr THEN run ELSE rs[r]
    BY <1>1, <1>2, <1>3, <1>4, Zenon
  <1>6. /\ cs[nc].run = 0
        /\ \A c \in CommandIds : cs[c].run # nr
        /\ \A c \in CommandIds : cs[c].run # 0 => cs[c].run \in RunIds
    <2>1. nc >= nc
      BY <1>1, CommandBoundsAssumption
    <2>2. cs[nc].run = 0
      BY <1>2, <2>1 DEF TablesInv, RowsFree, NoCommand
    <2>3. \A c \in CommandIds : cs[c].run # 0 => cs[c].run \in RunIds /\ cs[c].run < nr
      BY Zenon DEF TablesInv, Linked
    <2> QED BY <1>2, <2>2, <2>3 DEF RunIds
  <1> HIDE DEF cs2, rs2
  <1>7. TablesType(cs2, rs2, ret, nc + 1)
    BY <1>1, <1>2, <1>5, CommandBoundsAssumption
    DEF TablesInv, TablesType, CommandsType, RunsType, CommandIds
  <1>8. RowsFree(cs2, rs2, nc + 1, nr + 1)
    BY <1>1, <1>5 DEF TablesInv, RowsFree, CommandIds, RunIds
  <1>9. Linked(cs2, rs2, nr + 1)
    <2> SUFFICES ASSUME NEW c \in CommandIds, cs2[c].run # 0
                 PROVE /\ cs2[c].run \in RunIds /\ cs2[c].run < nr + 1
                       /\ cs2[c].phase # "none" /\ cs2[c].terminal \in Terminals
                       /\ cs2[c].terminal = rs2[cs2[c].run].terminal
      BY Zenon DEF Linked
    <2>1. CASE c = nc
      BY <2>1, <1>3, <1>4, <1>5
    <2>2. CASE c # nc
      <3>1. /\ cs[c].run \in RunIds /\ cs[c].run < nr /\ cs[c].phase # "none"
            /\ cs[c].terminal \in Terminals
            /\ cs[c].terminal = rs[cs[c].run].terminal
        BY <2>2, <1>5, Zenon DEF TablesInv, Linked
      <3> QED BY <2>2, <3>1, <1>5 DEF RunIds
    <2> QED BY <2>1, <2>2, Zenon
  <1>10. PositionsGrow(cs2)
    BY <1>2, <1>3, <1>5, <1>6, SMTT(20) DEF TablesInv, PositionsGrow
  <1>11. AnswersMatch(cs2)
    BY <1>3, <1>5, Zenon DEF TablesInv, AnswersMatch
  <1>12. RunsWait(cs2, rs2)
    <2>1. ASSUME NEW r \in RunIds, Active(rs2[r])
          PROVE \E c \in CommandIds : cs2[c].run = r /\ Outstanding(cs2[c])
      <3>1. CASE r = nr
        BY <3>1, <1>2, <1>3, <1>5, Zenon
      <3>2. CASE r # nr
        <4>1. PICK c \in CommandIds : cs[c].run = r /\ Outstanding(cs[c])
          BY <2>1, <3>2, <1>5, Zenon DEF TablesInv, RunsWait
        <4>2. c # nc
          BY <4>1, <1>6 DEF RunIds
        <4> QED BY <4>1, <4>2, <1>5, Zenon
      <3> QED BY <3>1, <3>2, Zenon
    <2>2. ASSUME NEW c \in CommandIds, cs2[c].run # 0, Outstanding(cs2[c])
          PROVE /\ cs2[c].run \in RunIds
                /\ rs2[cs2[c].run].status =
                     (IF cs2[c].phase = "time" THEN "awaiting_time" ELSE "running")
                /\ rs2[cs2[c].run].terminal = cs2[c].terminal
      <3>1. CASE c = nc
        BY <3>1, <1>3, <1>4, <1>5, Zenon
      <3>2. CASE c # nc
        <4>1. /\ cs[c].run \in RunIds /\ cs[c].run # nr /\ cs2[c] = cs[c]
              /\ rs[cs[c].run].status =
                   (IF cs[c].phase = "time" THEN "awaiting_time" ELSE "running")
              /\ rs[cs[c].run].terminal = cs[c].terminal
          BY <2>2, <3>2, <1>5, <1>6, Zenon DEF TablesInv, RunsWait
        <4> QED BY <4>1, <1>5, Zenon
      <3> QED BY <3>1, <3>2, Zenon
    <2>3. ASSUME NEW c \in CommandIds, NEW d \in CommandIds,
                 cs2[c].run # 0, cs2[c].run = cs2[d].run,
                 Outstanding(cs2[c]), Outstanding(cs2[d])
          PROVE c = d
      <3>1. CASE cs2[c].run = nr
        <4>1. \A e \in CommandIds : e # nc => cs2[e].run # nr
          BY <1>5, <1>6, Zenon
        <4> QED BY <2>3, <3>1, <4>1, Zenon
      <3>2. CASE cs2[c].run # nr
        <4>1. cs2[c] = cs[c] /\ cs2[d] = cs[d]
          BY <2>3, <3>2, <1>3, <1>5, Zenon
        <4> QED BY <2>3, <4>1, Zenon DEF TablesInv, RunsWait
      <3> QED BY <3>1, <3>2, Zenon
    <2> QED BY <2>1, <2>2, <2>3, Zenon DEF RunsWait
  <1>13. OneActive(rs2)
    BY <1>4, <1>5, Zenon DEF TablesInv, OneActive
  <1>14. Accounted(cs2, rs2)
    <2>1. ASSUME NEW c \in CommandIds, cs2[c].run # 0, Outstanding(cs2[c]),
                 cs2[c].phase = "page"
          PROVE cs2[c].position = rs2[cs2[c].run].imported + rs2[cs2[c].run].duplicate
      <3>1. c # nc /\ cs2[c] = cs[c] /\ rs2[cs[c].run] = rs[cs[c].run]
        BY <2>1, <1>3, <1>5, <1>6, Zenon
      <3> QED BY <2>1, <3>1, Zenon DEF TablesInv, Accounted
    <2>2. ASSUME NEW r \in RunIds, rs2[r].status = "completed"
          PROVE rs2[r].imported + rs2[r].duplicate = rs2[r].total
      <3>1. rs2[r] = rs[r]
        BY <2>2, <1>4, <1>5, Zenon
      <3> QED BY <2>2, <3>1, Zenon DEF TablesInv, Accounted
    <2>3. \A r \in RunIds : rs2[r].status = "awaiting_time" =>
                              rs2[r].imported = 0 /\ rs2[r].duplicate = 0
      BY <1>4, <1>5, Zenon DEF TablesInv, Accounted
    <2> QED BY <2>1, <2>2, <2>3, Zenon DEF Accounted
  <1>15. Distinct(cs2)
    BY <1>3, <1>5, <1>6, SMTT(20) DEF TablesInv, Distinct
  <1>16. RecordsKept(cs2, rs2, ret)
    <2> SUFFICES ASSUME NEW c \in CommandIds, cs2[c].run # 0,
                        cs2[c].phase = "page", cs2[c].status = "completed",
                        rs2[cs2[c].run].status \in {"running", "completed"}
                 PROVE cs2[c].answer.recs \subseteq ret[cs2[c].terminal]
      BY Zenon DEF RecordsKept
    <2>1. c # nc /\ cs2[c] = cs[c] /\ rs2[cs[c].run] = rs[cs[c].run]
      BY <1>3, <1>5, <1>6, Zenon
    <2> QED BY <2>1, Zenon DEF TablesInv, RecordsKept
  <1> QED
    BY <1>7, <1>8, <1>9, <1>10, <1>11, <1>12, <1>13, <1>14, <1>15, <1>16, Zenon
    DEF TablesInv, cs2, rs2, row, run

-----------------------------------------------------------------------------
(* The result of a command: a command outside every run is completed, a    *)
(* run ends, a run goes on.                                                *)

\* A command outside every run is completed.
LEMMA PlainDone ==
  ASSUME NEW cs, NEW rs, NEW ret, NEW nc, NEW nr \in Nat,
         TablesInv(cs, rs, ret, nc, nr),
         NEW c \in CommandIds, cs[c].run = 0, cs[c].status = "sent",
         NEW a \in AnswerType
  PROVE TablesInv([cs EXCEPT ![c] = [cs[c] EXCEPT !.status = "completed",
                                                  !.answer = a]],
                  rs, ret, nc, nr)
  <1> DEFINE row == [cs[c] EXCEPT !.status = "completed", !.answer = a]
             cs2 == [cs EXCEPT ![c] = row]
  <1>1. cs \in [CommandIds -> Command] /\ nc \in 1 .. MaxCommands + 1
    BY Zenon DEF TablesInv, TablesType, CommandsType
  <1>2. row \in Command /\ row.run = 0 /\ row.status = "completed"
    BY <1>1, Zenon DEF Command
  <1> HIDE DEF row
  <1>3. /\ cs2 \in [CommandIds -> Command]
        /\ \A d \in CommandIds : cs2[d] = IF d = c THEN row ELSE cs[d]
    BY <1>1, <1>2, Zenon
  <1> HIDE DEF cs2
  <1>4. \A d \in CommandIds : cs2[d].run # 0 => cs2[d] = cs[d]
    BY <1>2, <1>3, Zenon
  <1>5. \A d \in CommandIds : cs[d].run # 0 => cs2[d] = cs[d]
    BY <1>3, Zenon
  <1>6. TablesType(cs2, rs, ret, nc)
    BY <1>3, Zenon DEF TablesInv, TablesType, CommandsType
  <1>7. RowsFree(cs2, rs, nc, nr)
    BY <1>3 DEF TablesInv, RowsFree, NoCommand
  <1>8. Linked(cs2, rs, nr) /\ PositionsGrow(cs2)
    BY <1>4 DEF TablesInv, Linked, PositionsGrow
  <1>9. AnswersMatch(cs2)
    BY <1>2, <1>3, Zenon DEF TablesInv, AnswersMatch
  <1>10. RunsWait(cs2, rs)
    <2>1. \A r \in RunIds : r # 0
      BY DEF RunIds
    <2> QED BY <1>4, <1>5, <2>1 DEF TablesInv, RunsWait
  <1>11. Accounted(cs2, rs)
    BY <1>4, Zenon DEF TablesInv, Accounted
  <1>12. Distinct(cs2)
    BY <1>4 DEF TablesInv, Distinct
  <1>13. RecordsKept(cs2, rs, ret)
    BY <1>4, Zenon DEF TablesInv, RecordsKept
  <1> QED
    BY <1>6, <1>7, <1>8, <1>9, <1>10, <1>11, <1>12, <1>13, Zenon DEF TablesInv, cs2, row

\* The answer to the command of a run ends the run: it fails, or it is completed
\* with every record counted and retained.
LEMMA EndRun ==
  ASSUME NEW cs, NEW rs, NEW ret, NEW nc, NEW nr \in Nat,
         TablesInv(cs, rs, ret, nc, nr),
         NEW c \in CommandIds, cs[c].run # 0, cs[c].status = "sent",
         NEW a \in AnswerType, NEW run \in Run, NEW ret2, RetainedType(ret2),
         \A t \in Terminals : ret[t] \subseteq ret2[t],
         run.terminal = rs[cs[c].run].terminal,
         run.status \in {"completed", "failed"},
         run.status = "completed" =>
           /\ run.imported + run.duplicate = run.total
           /\ cs[c].phase = "page" => a.recs \subseteq ret2[cs[c].terminal]
  PROVE TablesInv([cs EXCEPT ![c] = [cs[c] EXCEPT !.status = "completed",
                                                  !.answer = a]],
                  [rs EXCEPT ![cs[c].run] = run], ret2, nc, nr)
  <1> DEFINE row == [cs[c] EXCEPT !.status = "completed", !.answer = a]
             k == cs[c].run
             cs2 == [cs EXCEPT ![c] = row]
             rs2 == [rs EXCEPT ![k] = run]
  <1>1. /\ cs \in [CommandIds -> Command] /\ rs \in [RunIds -> Run]
        /\ nc \in 1 .. MaxCommands + 1
    BY Zenon DEF TablesInv, TablesType, CommandsType, RunsType
  <1>2. k \in RunIds /\ k < nr /\ k # 0
    BY Zenon DEF TablesInv, Linked
  <1>3. /\ row \in Command /\ row.run = k /\ row.status = "completed"
        /\ row.terminal = cs[c].terminal /\ row.phase = cs[c].phase
        /\ row.position = cs[c].position /\ row.answer = a /\ ~Outstanding(row)
    BY <1>1, Zenon DEF Command, Outstanding
  <1>4. Outstanding(cs[c]) /\ ~Active(run)
    BY Zenon DEF Outstanding, Active
  <1> HIDE DEF row
  <1>5. /\ cs2 \in [CommandIds -> Command]
        /\ \A d \in CommandIds : cs2[d] = IF d = c THEN row ELSE cs[d]
        /\ rs2 \in [RunIds -> Run]
        /\ \A r \in RunIds : rs2[r] = IF r = k THEN run ELSE rs[r]
    BY <1>1, <1>2, <1>3, Zenon
  <1> HIDE DEF cs2, rs2
  <1>6. /\ \A d \in CommandIds :
             /\ cs2[d].run = cs[d].run /\ cs2[d].phase = cs[d].phase
             /\ cs2[d].position = cs[d].position
             /\ cs2[d].terminal = cs[d].terminal
             /\ Outstanding(cs2[d]) => d # c /\ cs2[d] = cs[d]
        /\ \A r \in RunIds : /\ rs2[r].terminal = rs[r].terminal
                             /\ Active(rs2[r]) => r # k /\ rs2[r] = rs[r]
    BY <1>3, <1>4, <1>5, Zenon
  <1>7. \A d \in CommandIds : Outstanding(cs2[d]) => cs[d].run # k
    BY <1>2, <1>4, <1>6, Zenon DEF TablesInv, RunsWait
  <1>8. \A d \in CommandIds :
          cs[d].run # 0 => cs[d].run \in RunIds /\ cs[d].terminal \in Terminals
    BY Zenon DEF TablesInv, Linked
  <1>9. TablesType(cs2, rs2, ret2, nc)
    BY <1>1, <1>5, Zenon DEF TablesType, CommandsType, RunsType
  <1>10. RowsFree(cs2, rs2, nc, nr)
    <2>1. \A d \in CommandIds : d >= nc => cs2[d] = NoCommand
      BY <1>5 DEF TablesInv, RowsFree, NoCommand
    <2>2. \A r \in RunIds : r >= nr => rs2[r] = NoRun
      BY <1>2, <1>5 DEF TablesInv, RowsFree, RunIds
    <2> QED BY <2>1, <2>2, Zenon DEF RowsFree
  <1>11. Linked(cs2, rs2, nr)
    BY <1>6, <1>8 DEF TablesInv, Linked
  <1>12. PositionsGrow(cs2)
    BY <1>6 DEF TablesInv, PositionsGrow
  <1>13. AnswersMatch(cs2)
    BY <1>3, <1>5, Zenon DEF TablesInv, AnswersMatch
  <1>14. RunsWait(cs2, rs2)
    <2>1. ASSUME NEW r \in RunIds, Active(rs2[r])
          PROVE \E d \in CommandIds : cs2[d].run = r /\ Outstanding(cs2[d])
      <3>1. r # k /\ Active(rs[r])
        BY <2>1, <1>6, Zenon
      <3>2. PICK d \in CommandIds : cs[d].run = r /\ Outstanding(cs[d])
        BY <3>1, Zenon DEF TablesInv, RunsWait
      <3>3. d # c
        BY <3>1, <3>2, Zenon
      <3> QED BY <3>2, <3>3, <1>5, Zenon
    <2>2. ASSUME NEW d \in CommandIds, cs2[d].run # 0, Outstanding(cs2[d])
          PROVE /\ cs2[d].run \in RunIds
                /\ rs2[cs2[d].run].status =
                     (IF cs2[d].phase = "time" THEN "awaiting_time" ELSE "running")
                /\ rs2[cs2[d].run].terminal = cs2[d].terminal
      <3>1. /\ cs2[d] = cs[d] /\ cs[d].run \in RunIds
            /\ rs2[cs[d].run] = rs[cs[d].run]
        BY <2>2, <1>5, <1>6, <1>7, <1>8
      <3> QED BY <2>2, <3>1 DEF TablesInv, RunsWait
    <2>3. ASSUME NEW d \in CommandIds, NEW e \in CommandIds,
                 cs2[d].run # 0, cs2[d].run = cs2[e].run,
                 Outstanding(cs2[d]), Outstanding(cs2[e])
          PROVE d = e
      BY <2>3, <1>6 DEF TablesInv, RunsWait
    <2> QED BY <2>1, <2>2, <2>3, Zenon DEF RunsWait
  <1>15. OneActive(rs2)
    BY <1>6 DEF TablesInv, OneActive
  <1>16. Accounted(cs2, rs2)
    <2>1. ASSUME NEW d \in CommandIds, cs2[d].run # 0, Outstanding(cs2[d]),
                 cs2[d].phase = "page"
          PROVE cs2[d].position = rs2[cs2[d].run].imported + rs2[cs2[d].run].duplicate
      <3>1. cs2[d] = cs[d] /\ rs2[cs[d].run] = rs[cs[d].run]
        BY <2>1, <1>5, <1>6, <1>7, <1>8
      <3> QED BY <2>1, <3>1, Zenon DEF TablesInv, Accounted
    <2>2. ASSUME NEW r \in RunIds, rs2[r].status = "completed"
          PROVE rs2[r].imported + rs2[r].duplicate = rs2[r].total
      BY <2>2, <1>5, Zenon DEF TablesInv, Accounted
    <2>3. \A r \in RunIds : rs2[r].status = "awaiting_time" =>
                              rs2[r].imported = 0 /\ rs2[r].duplicate = 0
      BY <1>5 DEF TablesInv, Accounted
    <2> QED BY <2>1, <2>2, <2>3, Zenon DEF Accounted
  <1>17. Distinct(cs2)
    BY <1>6 DEF TablesInv, Distinct
  <1>18. RecordsKept(cs2, rs2, ret2)
    <2> SUFFICES ASSUME NEW d \in CommandIds, cs2[d].run # 0,
                        cs2[d].phase = "page", cs2[d].status = "completed",
                        rs2[cs2[d].run].status \in {"running", "completed"}
                 PROVE cs2[d].answer.recs \subseteq ret2[cs2[d].terminal]
      BY Zenon DEF RecordsKept
    <2>1. CASE d = c
      BY <2>1, <1>2, <1>3, <1>5
    <2>2. CASE d # c
      <3>1. cs2[d] = cs[d] /\ cs[d].run \in RunIds
        BY <2>2, <1>5, <1>8, Zenon
      <3>2. CASE cs[d].run # k
        <4>1. cs[d].answer.recs \subseteq ret[cs[d].terminal]
          BY <3>1, <3>2, <1>5 DEF TablesInv, RecordsKept
        <4> QED BY <4>1, <3>1, <1>8, Zenon
      <3>3. CASE cs[d].run = k
        <4>1. rs[k].status \in {"awaiting_time", "running"}
          BY <1>2, <1>4, Zenon DEF TablesInv, RunsWait
        <4>2. rs[k].status = "running"
          BY <2>2, <3>1, <3>3, <1>2, <1>4, <4>1, Zenon DEF TablesInv, RunsWait,
             PositionsGrow
        <4>3. cs[d].answer.recs \subseteq ret[cs[d].terminal]
          BY <3>1, <3>3, <4>2, Zenon DEF TablesInv, RecordsKept
        <4> QED BY <4>3, <3>1, <1>8
      <3> QED BY <3>2, <3>3, Zenon
    <2> QED BY <2>1, <2>2, Zenon
  <1> QED
    BY <1>9, <1>10, <1>11, <1>12, <1>13, <1>14, <1>15, <1>16, <1>17, <1>18, Zenon
    DEF TablesInv, cs2, rs2, row

\* The answer to the command of a run is stored and the next page is asked for,
\* at the position up to which the run has counted.
LEMMA ContinueRun ==
  ASSUME NEW cs, NEW rs, NEW ret, NEW nc, NEW nr \in Nat,
         TablesInv(cs, rs, ret, nc, nr), nc <= MaxCommands,
         NEW c \in CommandIds, cs[c].run # 0, cs[c].status = "sent",
         NEW a \in AnswerType, NEW run \in Run, NEW ret2, RetainedType(ret2),
         \A t \in Terminals : ret[t] \subseteq ret2[t],
         run.terminal = rs[cs[c].run].terminal, run.status = "running",
         NEW p \in Nat, p = run.imported + run.duplicate,
         cs[c].phase = "page" => /\ cs[c].position < p
                                 /\ a.recs \subseteq ret2[cs[c].terminal]
  PROVE TablesInv([cs EXCEPT ![c] = [cs[c] EXCEPT !.status = "completed",
                                                  !.answer = a],
                             ![nc] = NewCommand(cs[c].terminal, cs[c].run, "page", p)],
                  [rs EXCEPT ![cs[c].run] = run], ret2, nc + 1, nr)
  <1> DEFINE row == [cs[c] EXCEPT !.status = "completed", !.answer = a]
             k == cs[c].run
             new == NewCommand(cs[c].terminal, k, "page", p)
             cs2 == [cs EXCEPT ![c] = row, ![nc] = new]
             rs2 == [rs EXCEPT ![k] = run]
  <1>1. /\ cs \in [CommandIds -> Command] /\ rs \in [RunIds -> Run]
        /\ nc \in 1 .. MaxCommands + 1
    BY Zenon DEF TablesInv, TablesType, CommandsType, RunsType
  <1>2. /\ k \in RunIds /\ k < nr /\ k # 0 /\ k \in Nat
        /\ cs[c].terminal \in Terminals /\ cs[c].terminal = rs[k].terminal
    BY DEF TablesInv, Linked, RunIds
  <1>3. nc \in CommandIds /\ nc # c /\ cs[nc].run = 0
    <2>1. nc \in CommandIds /\ nc >= nc
      BY <1>1, CommandBoundsAssumption DEF CommandIds
    <2>2. cs[nc].run = 0
      BY <2>1 DEF TablesInv, RowsFree, NoCommand
    <2> QED BY <2>1, <2>2, Zenon
  <1>4. /\ row \in Command /\ row.run = k /\ row.status = "completed"
        /\ row.terminal = cs[c].terminal /\ row.phase = cs[c].phase
        /\ row.position = cs[c].position /\ row.answer = a /\ ~Outstanding(row)
    BY <1>1, Zenon DEF Command, Outstanding
  <1>5. /\ new \in Command /\ new.run = k /\ new.status = "queued"
        /\ new.terminal = cs[c].terminal /\ new.phase = "page"
        /\ new.position = p /\ new.answer = NoAnswer /\ Outstanding(new)
    <2>1. NoCommand \in Command /\ NoCommand.answer = NoAnswer
      BY Zenon DEF NoCommand, Command
    <2> QED BY <2>1, <1>2, Zenon DEF NewCommand, Command, Outstanding
  <1>6. Outstanding(cs[c]) /\ Active(run)
    BY Zenon DEF Outstanding, Active
  <1>7. Active(rs[k])
    BY <1>2, <1>6, Zenon DEF TablesInv, RunsWait, Active
  <1> HIDE DEF row, new
  <1>8. /\ cs2 \in [CommandIds -> Command]
        /\ cs2[c] = row /\ cs2[nc] = new
        /\ \A d \in CommandIds : d # c /\ d # nc => cs2[d] = cs[d]
        /\ rs2 \in [RunIds -> Run]
        /\ \A r \in RunIds : rs2[r] = IF r = k THEN run ELSE rs[r]
    BY <1>1, <1>2, <1>3, <1>4, <1>5, Zenon
  <1> HIDE DEF cs2, rs2
  <1>9. \A d \in CommandIds :
          d # nc => /\ cs2[d].run = cs[d].run /\ cs2[d].phase = cs[d].phase
                    /\ cs2[d].position = cs[d].position
                    /\ cs2[d].terminal = cs[d].terminal
                    /\ Outstanding(cs2[d]) => d # c /\ cs2[d] = cs[d]
    BY <1>4, <1>8, Zenon
  <1>10. \A r \in RunIds : /\ rs2[r].terminal = rs[r].terminal
                           /\ Active(rs2[r]) <=> Active(rs[r])
    BY <1>6, <1>7, <1>8, Zenon
  <1>11. \A d \in CommandIds : d # nc /\ Outstanding(cs2[d]) => cs[d].run # k
    BY <1>2, <1>6, <1>9, Zenon DEF TablesInv, RunsWait
  <1>12. \A d \in CommandIds :
           cs[d].run # 0 => cs[d].run \in RunIds /\ cs[d].terminal \in Terminals
    BY Zenon DEF TablesInv, Linked
  <1>13. \A d \in CommandIds :
           d # nc /\ cs[d].run = k /\ cs[d].phase = "page" => cs[d].position < p
    <2> SUFFICES ASSUME NEW d \in CommandIds, cs[d].run = k, cs[d].phase = "page"
                 PROVE cs[d].position < p
      BY Zenon
    <2>1. CASE d = c
      BY <2>1, Zenon
    <2>2. CASE d # c
      <3>1. cs[c].phase = "page" /\ cs[d].position < cs[c].position
        BY <2>2, <1>2, <1>6, Zenon DEF TablesInv, PositionsGrow
      <3>2. cs[c].position \in Nat /\ cs[d].position \in Nat
        BY <1>1, Zenon DEF Command
      <3> QED BY <3>1, <3>2
    <2> QED BY <2>1, <2>2, Zenon
  <1>14. TablesType(cs2, rs2, ret2, nc + 1)
    BY <1>1, <1>8, CommandBoundsAssumption DEF TablesType, CommandsType, RunsType
  <1>15. RowsFree(cs2, rs2, nc + 1, nr)
    <2>1. ASSUME NEW d \in CommandIds, d >= nc + 1 PROVE cs2[d] = NoCommand
      <3>1. d >= nc /\ d # nc
        BY <2>1, <1>1, CommandBoundsAssumption DEF CommandIds
      <3>2. cs[d] = NoCommand
        BY <3>1, Zenon DEF TablesInv, RowsFree
      <3>3. d # c
        BY <3>2, SMTT(30) DEF NoCommand
      <3> QED BY <3>1, <3>2, <3>3, <1>8, Zenon
    <2>2. \A r \in RunIds : r >= nr => rs2[r] = NoRun
      BY <1>2, <1>8 DEF TablesInv, RowsFree, RunIds
    <2> QED BY <2>1, <2>2, Zenon DEF RowsFree
  <1>16. Linked(cs2, rs2, nr)
    <2> SUFFICES ASSUME NEW d \in CommandIds, cs2[d].run # 0
                 PROVE /\ cs2[d].run \in RunIds /\ cs2[d].run < nr
                       /\ cs2[d].phase # "none" /\ cs2[d].terminal \in Terminals
                       /\ cs2[d].terminal = rs2[cs2[d].run].terminal
      BY Zenon DEF Linked
    <2>1. CASE d = nc
      BY <2>1, <1>2, <1>5, <1>8, Zenon
    <2>2. CASE d # nc
      BY <2>2, <1>9, <1>10 DEF TablesInv, Linked
    <2> QED BY <2>1, <2>2, Zenon
  <1>17. PositionsGrow(cs2)
    <2> SUFFICES ASSUME NEW d \in CommandIds, NEW e \in CommandIds,
                        cs2[d].run # 0, cs2[e].run = cs2[d].run,
                        Outstanding(cs2[d]), e # d
                 PROVE /\ cs2[d].phase = "page"
                       /\ cs2[e].phase = "page" =>
                            cs2[e].position < cs2[d].position
      BY Zenon DEF PositionsGrow
    <2>1. CASE d = nc
      BY <2>1, <1>5, <1>8, <1>9, <1>13
    <2>2. CASE d # nc
      <3>1. e # nc /\ cs[e].run = cs[d].run
        BY <2>2, <1>5, <1>8, <1>9, <1>11
      <3> QED BY <2>2, <3>1, <1>9 DEF TablesInv, PositionsGrow
    <2> QED BY <2>1, <2>2, Zenon
  <1>18. AnswersMatch(cs2)
    BY <1>4, <1>5, <1>8 DEF TablesInv, AnswersMatch
  <1>19. RunsWait(cs2, rs2)
    <2>1. ASSUME NEW r \in RunIds, Active(rs2[r])
          PROVE \E d \in CommandIds : cs2[d].run = r /\ Outstanding(cs2[d])
      <3>1. CASE r = k
        BY <3>1, <1>3, <1>5, <1>8, Zenon
      <3>2. CASE r # k
        <4>1. PICK d \in CommandIds : cs[d].run = r /\ Outstanding(cs[d])
          BY <2>1, <1>10, Zenon DEF TablesInv, RunsWait
        <4>2. d # c /\ d # nc
          BY <3>2, <4>1, <1>3 DEF RunIds
        <4> QED BY <4>1, <4>2, <1>8, Zenon
      <3> QED BY <3>1, <3>2, Zenon
    <2>2. ASSUME NEW d \in CommandIds, cs2[d].run # 0, Outstanding(cs2[d])
          PROVE /\ cs2[d].run \in RunIds
                /\ rs2[cs2[d].run].status =
                     (IF cs2[d].phase = "time" THEN "awaiting_time" ELSE "running")
                /\ rs2[cs2[d].run].terminal = cs2[d].terminal
      <3>1. CASE d = nc
        BY <3>1, <1>2, <1>5, <1>8, Zenon
      <3>2. CASE d # nc
        <4>1. /\ cs2[d] = cs[d] /\ cs[d].run \in RunIds
              /\ rs2[cs[d].run] = rs[cs[d].run]
          BY <2>2, <3>2, <1>8, <1>9, <1>11, <1>12, Zenon
        <4> QED BY <2>2, <4>1 DEF TablesInv, RunsWait
      <3> QED BY <3>1, <3>2, Zenon
    <2>3. ASSUME NEW d \in CommandIds, NEW e \in CommandIds,
                 cs2[d].run # 0, cs2[d].run = cs2[e].run,
                 Outstanding(cs2[d]), Outstanding(cs2[e])
          PROVE d = e
      <3>1. CASE d = nc \/ e = nc
        BY <2>3, <3>1, <1>5, <1>8, <1>9, <1>11, SMTT(30)
      <3>2. CASE d # nc /\ e # nc
        BY <2>3, <3>2, <1>9 DEF TablesInv, RunsWait
      <3> QED BY <3>1, <3>2, Zenon
    <2> QED BY <2>1, <2>2, <2>3, Zenon DEF RunsWait
  <1>20. OneActive(rs2)
    BY <1>10, Zenon DEF TablesInv, OneActive
  <1>21. Accounted(cs2, rs2)
    <2>1. ASSUME NEW d \in CommandIds, cs2[d].run # 0, Outstanding(cs2[d]),
                 cs2[d].phase = "page"
          PROVE cs2[d].position = rs2[cs2[d].run].imported + rs2[cs2[d].run].duplicate
      <3>1. CASE d = nc
        BY <3>1, <1>2, <1>5, <1>8, Zenon
      <3>2. CASE d # nc
        <4>1. cs2[d] = cs[d] /\ rs2[cs[d].run] = rs[cs[d].run]
          BY <2>1, <3>2, <1>8, <1>9, <1>11, <1>12, Zenon
        <4> QED BY <2>1, <4>1, Zenon DEF TablesInv, Accounted
      <3> QED BY <3>1, <3>2, Zenon
    <2>2. ASSUME NEW r \in RunIds, rs2[r].status = "completed"
          PROVE rs2[r].imported + rs2[r].duplicate = rs2[r].total
      BY <2>2, <1>8, Zenon DEF TablesInv, Accounted
    <2>3. \A r \in RunIds : rs2[r].status = "awaiting_time" =>
                              rs2[r].imported = 0 /\ rs2[r].duplicate = 0
      BY <1>8, Zenon DEF TablesInv, Accounted
    <2> QED BY <2>1, <2>2, <2>3, Zenon DEF Accounted
  <1>22. Distinct(cs2)
    <2> SUFFICES ASSUME NEW d \in CommandIds, NEW e \in CommandIds,
                        cs2[d].run # 0, cs2[d].run = cs2[e].run,
                        cs2[d].phase = cs2[e].phase,
                        cs2[d].position = cs2[e].position, d # e
                 PROVE FALSE
      BY Zenon DEF Distinct
    <2>1. CASE d = nc
      BY <2>1, <1>5, <1>8, <1>9, <1>13, SMTT(30)
    <2>2. CASE e = nc
      BY <2>2, <1>5, <1>8, <1>9, <1>13, SMTT(30)
    <2>3. CASE d # nc /\ e # nc
      BY <2>3, <1>9 DEF TablesInv, Distinct
    <2> QED BY <2>1, <2>2, <2>3, Zenon
  <1>23. RecordsKept(cs2, rs2, ret2)
    <2> SUFFICES ASSUME NEW d \in CommandIds, cs2[d].run # 0,
                        cs2[d].phase = "page", cs2[d].status = "completed",
                        rs2[cs2[d].run].status \in {"running", "completed"}
                 PROVE cs2[d].answer.recs \subseteq ret2[cs2[d].terminal]
      BY Zenon DEF RecordsKept
    <2>1. d # nc
      BY <1>5, <1>8, Zenon
    <2>2. CASE d = c
      BY <2>2, <1>4, <1>8, Zenon
    <2>3. CASE d # c
      <3>1. cs2[d] = cs[d] /\ cs[d].run \in RunIds /\ cs[d].terminal \in Terminals
        BY <2>1, <2>3, <1>8, <1>12, Zenon
      <3>2. rs[cs[d].run].status \in {"running", "completed"}
        <4>1. CASE cs[d].run # k
          BY <3>1, <4>1, <1>8, Zenon
        <4>2. CASE cs[d].run = k
          <5>1. cs[c].phase = "page"
            BY <2>3, <4>2, <1>2, <1>6, Zenon DEF TablesInv, PositionsGrow
          <5> QED BY <4>2, <5>1, <1>2, <1>6, Zenon DEF TablesInv, RunsWait
        <4> QED BY <4>1, <4>2, Zenon
      <3>3. cs[d].answer.recs \subseteq ret[cs[d].terminal]
        BY <3>1, <3>2, Zenon DEF TablesInv, RecordsKept
      <3> QED BY <3>1, <3>3, Zenon
    <2> QED BY <2>2, <2>3, Zenon
  <1> QED
    BY <1>14, <1>15, <1>16, <1>17, <1>18, <1>19, <1>20, <1>21, <1>22, <1>23, Zenon
    DEF TablesInv, cs2, rs2, row, new
=============================================================================
