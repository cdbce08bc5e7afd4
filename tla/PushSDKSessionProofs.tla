------------------------ MODULE PushSDKSessionProofs ------------------------
(***************************************************************************)
(* Theorems about PushSDKSession for every set of terminals, every bound   *)
(* and every choice of failing or ambiguous database calls: the type       *)
(* invariant, that used proofs stay used, revoked sessions stay revoked,   *)
(* and what a response carries was committed before it; and how far the    *)
(* memory of the process agrees with the checkpoint, the connection status *)
(* and the gauge, and when a completed login is the last of its handshake. *)
(***************************************************************************)
EXTENDS PushSDKSessionSteps, FiniteSetTheorems

-----------------------------------------------------------------------------
(* The inductive invariant.                                                *)

\* A step that does not touch a terminal keeps the invariant there.
LEMMA Frame ==
  ASSUME NEW u \in Terminals, TerminalInv(u), process' = process,
         config'[u] = config[u], sessions'[u] = sessions[u],
         exchange'[u] = exchange[u], checkpoint'[u] = checkpoint[u],
         fresh'[u] = fresh[u], served'[u] = served[u], revoked'[u] = revoked[u]
  PROVE TerminalInv(u)'
  BY Zenon DEF TerminalInv, Running

\* What concerns one terminal leaves the others alone: a handler holds the
\* mutex of its terminal and writes only the rows of its terminal.
LEMMA OthersUntouched ==
  ASSUME TypeOK, NEW t \in Terminals, NEW u \in Terminals, u # t,
         TerminalStep(t) \/ ExchangeStep(t) \/ MaintenanceStep(t) \/ TimeStep(t)
  PROVE /\ process' = process
        /\ config'[u] = config[u] /\ sessions'[u] = sessions[u]
        /\ exchange'[u] = exchange[u] /\ checkpoint'[u] = checkpoint[u]
        /\ fresh'[u] = fresh[u] /\ served'[u] = served[u]
        /\ revoked'[u] = revoked[u] /\ status'[u] = status[u]
        /\ loggedIn'[u] = loggedIn[u]
  <1> USE DEF TypeOK, Draw, Hold, Advance, Release, volatile, durable, clocks,
              history, UpsertPushSDKSession, DeletePushSDKSession,
              TransitionTerminalState
  <1>1. CASE TerminalStep(t)
    BY <1>1 DEF TerminalStep, AuthInfo, Login, Request
  <1>2. CASE AuthInfoPersist(t) \/ AuthInfoTransition(t) \/ AuthInfoRestore(t)
    BY <1>2 DEF AuthInfoPersist, AuthInfoTransition, AuthInfoRestore
  <1>3. CASE LoginPersist(t) \/ LoginTransition(t) \/ LoginRestore(t)
    BY <1>3 DEF LoginPersist, LoginTransition, LoginRestore, RevertLogin
  <1>4. CASE Resume(t) \/ Reject(t) \/ Handle(t) \/ Rotate(t)
    BY <1>4 DEF Resume, Reject, Handle, Rotate
  <1>5. CASE Logout(t) \/ LogoutDelete(t) \/ Reply(t)
    BY <1>5 DEF Logout, LogoutDelete, Reply
  <1>6. CASE MaintenanceStep(t)
    BY <1>6 DEF MaintenanceStep, MarkSessionIdle, ExpireLoginChallenge
  <1>7. CASE TimeStep(t)
    BY <1>7, Zenon DEF TimeStep, LoginDeadlinePasses, IdleTimeoutPasses
  <1> QED
    BY <1>1, <1>2, <1>3, <1>4, <1>5, <1>6, <1>7, Zenon DEF ExchangeStep

\* The configuration in force changes only when the process starts.
LEMMA ConfigKept ==
  ASSUME NEW t \in Terminals,
         TerminalStep(t) \/ ExchangeStep(t) \/ MaintenanceStep(t) \/ TimeStep(t)
  PROVE config' = config
  BY Zenon DEF TerminalStep, ExchangeStep, MaintenanceStep, TimeStep, AuthInfo,
     AuthInfoPersist, AuthInfoTransition, AuthInfoRestore, Login, LoginPersist,
     LoginTransition, LoginRestore, Request, Resume, Reject, Handle, Rotate,
     Logout, LogoutDelete, Reply, MarkSessionIdle, ExpireLoginChallenge,
     LoginDeadlinePasses, IdleTimeoutPasses, volatile

\* Every step about a terminal keeps the invariant at that terminal.
LEMMA TerminalInvStep ==
  ASSUME IInv, NEW t \in Terminals,
         TerminalStep(t) \/ ExchangeStep(t) \/ MaintenanceStep(t) \/ TimeStep(t)
  PROVE TerminalInv(t)'
  <1>0. TypeOK /\ TerminalInv(t)
    BY Zenon DEF IInv
  <1>1. CASE TerminalStep(t)
    BY <1>1, AuthInfoInv, LoginInv, RequestInv, Zenon DEF TerminalStep
  <1>2. CASE Reject(t)
    BY <1>0, <1>2, QuietInv, ReleaseFields, Zenon
       DEF Reject, At, Running, durable, clocks, history
  <1>3. CASE Reply(t)
    BY <1>0, <1>3, QuietInv, ReleaseFields, Zenon
       DEF Reply, At, Running, durable, clocks
  <1>4. CASE ExchangeStep(t)
    BY <1>2, <1>3, <1>4, AuthInfoPersistInv, AuthInfoTransitionInv,
       AuthInfoRestoreInv, LoginPersistInv, LoginTransitionInv,
       LoginRestoreInv, ResumeInv, HandleInv, RotateInv, LogoutInv,
       LogoutDeleteInv, Zenon DEF ExchangeStep
  <1>5. CASE MarkSessionIdle(t)
    <2>1. /\ sessions'[t].login = sessions[t].login
          /\ sessions'[t].next = sessions[t].next
          /\ sessions'[t].auth = sessions[t].auth
      BY <1>0, <1>5, OnlineFields, Zenon DEF MarkSessionIdle
    <2>2. sessions[t] # NoSession
      BY <1>5, Empty, Zenon DEF MarkSessionIdle
    <2> QED
      BY <1>0, <1>5, <2>1, <2>2, QuietInv, Zenon DEF MarkSessionIdle, At,
         Running, clocks, history
  <1>6. CASE ExpireLoginChallenge(t)
    BY <1>6, ExpireLoginChallengeInv, Zenon
  <1>7. CASE TimeStep(t)
    BY <1>0, <1>7, Frame, Zenon DEF TimeStep, LoginDeadlinePasses, IdleTimeoutPasses,
       volatile, durable, history
  <1> QED
    BY <1>1, <1>4, <1>5, <1>6, <1>7, Zenon DEF MaintenanceStep

\* Without sessions and exchanges, what remains is what is said of the row.
LEMMA DownInv ==
  ASSUME NEW c, NEW k, NEW f, NEW u, NEW r, NEW run \in BOOLEAN,
         Typed(NoSession, Free, c, k, f, u, r), r < f, u < f,
         c.login < f, c.next < f, FingerprintInForce(run, c, k),
         c # NoCheckpoint /\ c.fingerprint = k => c.login > r,
         c.auth => c.next > u
  PROVE /\ IdsDrawn(NoSession, Free, c, f, u, r)
        /\ VolatileOnlyWhileRunning(run, NoSession, Free)
        /\ CopiesNotRevoked(NoSession, Free, c, k, r)
        /\ CopiesNotUsed(NoSession, Free, c, u)
        /\ ExchangeProgress(NoSession, Free, c)
  BY Empty DEF Typed, IdsDrawn, VolatileOnlyWhileRunning, CopiesNotRevoked,
     CopiesNotUsed, ExchangeProgress, AuthInfoSteps, LoginSteps

\* A crash forgets all sessions and exchanges; what remains was sound.
LEMMA CrashInv ==
  ASSUME IInv, NEW t \in Terminals, Crash
  PROVE TerminalInv(t)'
  <1> DEFINE s == sessions[t]  e == exchange[t]  c == checkpoint[t]
             k == config[t]  f == fresh[t]  u == served[t]  r == revoked[t]
  <1>1. /\ process' = "down" /\ sessions'[t] = NoSession /\ exchange'[t] = Free
        /\ config'[t] = k /\ checkpoint'[t] = c /\ fresh'[t] = f
        /\ served'[t] = u /\ revoked'[t] = r
    BY Zenon DEF Crash, durable, clocks, history
  <1>2. Known(s, e, c, k, f, u, r)
    BY KnownAt, Zenon DEF IInv
  <1> HIDE DEF s, e, c, k, f, u, r
  <1>3. Typed(NoSession, Free, c, k, f, u, r)
    BY <1>2, Zenon DEF Known, Typed, Free, NoSession
  <1>4. FingerprintInForce(FALSE, c, k)
    BY <1>2, Zenon DEF Known, FingerprintInForce
  <1>5. /\ IdsDrawn(NoSession, Free, c, f, u, r)
        /\ VolatileOnlyWhileRunning(FALSE, NoSession, Free)
        /\ CopiesNotRevoked(NoSession, Free, c, k, r)
        /\ CopiesNotUsed(NoSession, Free, c, u)
        /\ ExchangeProgress(NoSession, Free, c)
    BY <1>2, <1>3, <1>4, DownInv, Zenon DEF Known, IdsDrawn,
       CopiesNotRevoked, CopiesNotUsed
  <1>6. Running' = FALSE
    BY <1>1, Zenon DEF Running
  <1> QED
    BY <1>1, <1>4, <1>5, <1>6, Zenon DEF TerminalInv, s, e, c, k, f, u, r

\* A changed configuration revokes the row of the terminal, whose fingerprint
\* is older.
LEMMA BootInv ==
  ASSUME IInv, NEW t \in Terminals, Boot
  PROVE TerminalInv(t)'
  <1> DEFINE s == sessions[t]  e == exchange[t]  c == checkpoint[t]
             k == config[t]  f == fresh[t]  u == served[t]  r == revoked[t]
             k1 == config'[t]  r1 == revoked'[t]
  <1>1. /\ ~Running /\ Running' = FALSE
        /\ sessions'[t] = s /\ exchange'[t] = e /\ checkpoint'[t] = c
        /\ fresh'[t] = f /\ served'[t] = u
        /\ (k1 = k /\ r1 = r) \/ (k1 = k + 1 /\ r1 = f - 1)
    BY Zenon DEF Boot, clocks, Running
  <1>2. Known(s, e, c, k, f, u, r)
    BY KnownAt DEF IInv
  <1> HIDE DEF s, e, c, k, f, u, r, k1, r1
  <1>3. s = NoSession /\ e = Free
    BY <1>1, <1>2, Zenon DEF Known, VolatileOnlyWhileRunning
  <1>4. Typed(NoSession, Free, c, k1, f, u, r1)
    BY <1>1, <1>2, <1>3 DEF Known, Typed
  <1>5. FingerprintInForce(FALSE, c, k1)
    BY <1>1, <1>2 DEF Known, Typed, FingerprintInForce
  <1>6. c # NoCheckpoint /\ c.fingerprint = k1 => c.login > r1
    BY <1>1, <1>2 DEF Known, Typed, FingerprintInForce, CopiesNotRevoked
  <1>7. /\ r1 < f /\ u < f /\ c.login < f /\ c.next < f
        /\ c.auth => c.next > u
    BY <1>1, <1>2 DEF Known, Typed, IdsDrawn, CopiesNotUsed
  <1>8. /\ IdsDrawn(NoSession, Free, c, f, u, r1)
        /\ VolatileOnlyWhileRunning(FALSE, NoSession, Free)
        /\ CopiesNotRevoked(NoSession, Free, c, k1, r1)
        /\ CopiesNotUsed(NoSession, Free, c, u)
        /\ ExchangeProgress(NoSession, Free, c)
    BY <1>4, <1>5, <1>6, <1>7, DownInv, Zenon
  <1> QED
    BY <1>1, <1>3, <1>5, <1>8, Zenon DEF TerminalInv, s, e, c, k, f, u, r,
       k1, r1

\* A row that Restore deletes leaves nothing behind, whether or not the other
\* deletes succeed.
LEMMA RestoreAbortedInv ==
  ASSUME IInv, NEW t \in Terminals, RestoreAborted
  PROVE TerminalInv(t)'
  <1> DEFINE s == sessions[t]  e == exchange[t]  c == checkpoint[t]
             k == config[t]  f == fresh[t]  u == served[t]  r == revoked[t]
             c1 == checkpoint'[t]
  <1>1. /\ ~Running /\ Running' = FALSE
        /\ sessions'[t] = s /\ exchange'[t] = e
        /\ c1 = c \/ c1 = NoCheckpoint
        /\ config'[t] = k /\ fresh'[t] = f /\ served'[t] = u /\ revoked'[t] = r
    BY Zenon DEF RestoreAborted, clocks, history, Running
  <1>2. Known(s, e, c, k, f, u, r)
    BY KnownAt DEF IInv
  <1> HIDE DEF s, e, c, k, f, u, r, c1
  <1>3. s = NoSession /\ e = Free
    BY <1>1, <1>2, Zenon DEF Known, VolatileOnlyWhileRunning
  <1>4. Typed(NoSession, Free, c1, k, f, u, r)
    <2>1. CASE c1 = c
      BY <1>2, <1>3, <2>1, Zenon DEF Known
    <2>2. CASE c1 = NoCheckpoint
      <3>1. Typed(s, e, c, k, f, u, r)
        BY <1>2, Zenon DEF Known
      <3>2. Typed(NoSession, Free, c, k, f, u, r)
        BY <1>3, <3>1, Zenon
      <3> QED
        BY <2>2, <3>2, Zenon DEF Typed, NoCheckpoint
    <2> QED
      BY <1>1, <2>1, <2>2, Zenon
  <1>5. FingerprintInForce(FALSE, c1, k)
    BY <1>1, <1>2, Empty DEF Known, Typed, FingerprintInForce
  <1>6. c1 # NoCheckpoint /\ c1.fingerprint = k => c1.login > r
    BY <1>1, <1>2, Zenon DEF Known, CopiesNotRevoked
  <1>7. /\ r < f /\ u < f /\ c1.login < f /\ c1.next < f
        /\ c1.auth => c1.next > u
    BY <1>1, <1>2, Empty DEF Known, Typed, IdsDrawn, CopiesNotUsed
  <1>8. /\ IdsDrawn(NoSession, Free, c1, f, u, r)
        /\ VolatileOnlyWhileRunning(FALSE, NoSession, Free)
        /\ CopiesNotRevoked(NoSession, Free, c1, k, r)
        /\ CopiesNotUsed(NoSession, Free, c1, u)
        /\ ExchangeProgress(NoSession, Free, c1)
    BY <1>4, <1>5, <1>6, <1>7, DownInv, Zenon
  <1> QED
    BY <1>1, <1>3, <1>5, <1>8, Zenon DEF TerminalInv, s, e, c, k, f, u, r, c1

\* Only a row of the configuration in force becomes a session again.
LEMMA RestoreSessionsInv ==
  ASSUME IInv, NEW t \in Terminals, RestoreSessions
  PROVE TerminalInv(t)'
  <1> DEFINE s == sessions[t]  e == exchange[t]  c == checkpoint[t]
             k == config[t]  f == fresh[t]  u == served[t]  r == revoked[t]
             s1 == sessions'[t]  c1 == checkpoint'[t]
  <1>1. /\ ~Running /\ Running' = TRUE /\ exchange'[t] = e
        /\ config'[t] = k /\ fresh'[t] = f /\ served'[t] = u /\ revoked'[t] = r
        /\ \/ c1 = NoCheckpoint /\ s1 = NoSession
           \/ /\ c1 = c
              /\ c # NoCheckpoint => c.fingerprint = k
              /\ s1 = [login |-> c.login, next |-> c.next, auth |-> c.auth,
                       online |-> FALSE]
    BY Zenon DEF RestoreSessions, Outdated, clocks, history, Running
  <1>2. Known(s, e, c, k, f, u, r)
    BY KnownAt DEF IInv
  <1> HIDE DEF s, e, c, k, f, u, r, s1, c1
  <1>3. \/ c1 = NoCheckpoint /\ s1 = NoSession
        \/ /\ c1 = c
           /\ c # NoCheckpoint => c.fingerprint = k
           /\ s1.login = c.login /\ s1.next = c.next /\ s1.auth = c.auth
           /\ c = NoCheckpoint => s1 = NoSession
    BY <1>1 DEF NoCheckpoint, NoSession
  <1>4. e = Free
    BY <1>1, <1>2, Zenon DEF Known, VolatileOnlyWhileRunning
  <1>5. IdsDrawn(s1, e, c1, f, u, r)
    BY <1>2, <1>3, Empty DEF Known, Typed, IdsDrawn
  <1>6. VolatileOnlyWhileRunning(TRUE, s1, e) /\ FingerprintInForce(TRUE, c1, k)
    BY <1>2, <1>3, Empty DEF Known, Typed, VolatileOnlyWhileRunning,
       FingerprintInForce
  <1>7. CopiesNotRevoked(s1, e, c1, k, r)
    BY <1>2, <1>3, <1>4, Empty, Zenon DEF Known, CopiesNotRevoked, AuthInfoSteps
  <1>8. CopiesNotUsed(s1, e, c1, u)
    BY <1>2, <1>3, <1>4, Empty, Zenon DEF Known, CopiesNotUsed, AuthInfoSteps
  <1>9. ExchangeProgress(s1, e, c1)
    BY <1>4, Empty, Zenon DEF ExchangeProgress, AuthInfoSteps, LoginSteps
  <1> QED
    BY <1>1, <1>5, <1>6, <1>7, <1>8, <1>9, Zenon DEF TerminalInv, s, e, c, k,
       f, u, r, s1, c1

\* The invariant holds initially.
LEMMA InitInv == Init => IInv
  <1> SUFFICES ASSUME Init PROVE IInv
    BY Zenon
  <1>1. TypeOK
    BY DEF Init, TypeOK, NoSession, Session, Free, Exchange, Actions, Steps,
       NoCheckpoint, Checkpoint
  <1>2. ASSUME NEW t \in Terminals PROVE TerminalInv(t)
    <2>1. /\ process = "down" /\ config[t] = 1 /\ sessions[t] = NoSession
          /\ exchange[t] = Free /\ checkpoint[t] = NoCheckpoint
          /\ fresh[t] = 1 /\ served[t] = 0 /\ revoked[t] = 0
      BY Zenon DEF Init
    <2> QED
      BY <2>1, Empty DEF TerminalInv, IdsDrawn, VolatileOnlyWhileRunning,
         FingerprintInForce, CopiesNotRevoked, CopiesNotUsed, ExchangeProgress,
         Running, AuthInfoSteps, LoginSteps
  <1> QED
    BY <1>1, <1>2, Zenon DEF IInv

\* Every step keeps the invariant.
LEMMA NextInv == IInv /\ [Next]_vars => IInv'
  <1> SUFFICES ASSUME IInv, [Next]_vars PROVE IInv'
    BY Zenon
  <1>1. CASE UNCHANGED vars
    <2>1. TypeOK'
      BY <1>1, Zenon DEF IInv, TypeOK, vars
    <2>2. ASSUME NEW t \in Terminals PROVE TerminalInv(t)'
      BY <1>1, <2>2, Frame, Zenon DEF IInv, vars
    <2> QED
      BY <2>1, <2>2, Zenon DEF IInv
  <1>2. ASSUME NEW t \in Terminals,
               TerminalStep(t) \/ ExchangeStep(t) \/ MaintenanceStep(t)
                 \/ TimeStep(t)
        PROVE IInv'
    <2>1. TypeOK /\ TerminalInv(t)
      BY Zenon DEF IInv
    <2>2. TypeOK'
      BY <1>2, <2>1, TerminalStepType, ExchangeStepType, SweepAndClockType, Zenon
    <2>3. ASSUME NEW u \in Terminals PROVE TerminalInv(u)'
      <3>1. CASE u = t
        BY <1>2, <3>1, TerminalInvStep, Zenon
      <3>2. CASE u # t
        <4>1. TerminalInv(u)
          BY Zenon DEF IInv
        <4> QED
          BY <1>2, <2>1, <3>2, <4>1, OthersUntouched, Frame, Zenon
      <3> QED
        BY <3>1, <3>2, Zenon
    <2> QED
      BY <2>2, <2>3, Zenon DEF IInv
  <1>3. CASE Crash \/ Boot \/ RestoreSessions \/ RestoreAborted
    <2>1. TypeOK'
      BY <1>3, ProcessStepType, Zenon DEF IInv
    <2>2. ASSUME NEW t \in Terminals PROVE TerminalInv(t)'
      BY <1>3, CrashInv, BootInv, RestoreSessionsInv, RestoreAbortedInv, Zenon
    <2> QED
      BY <2>1, <2>2 DEF IInv
  <1> QED
    BY <1>1, <1>2, <1>3, Zenon DEF Next

-----------------------------------------------------------------------------
(* Memory agrees with the checkpoint, the connection status and the gauge. *)

\* The gauge follows a terminal that is counted (b) and will be (b1); a session
\* that is lost stays on the gauge.
GaugeFollows(b, b1, g, g1) ==
  \/ g1 = g /\ (b1 => b) /\ (ReplacementIsUndone => (b => b1))
  \/ g1 = g - 1 /\ b /\ ~b1
  \/ g1 = g + 1 /\ ~b /\ b1

\* A step from s, e, c, st to s1, e1, c1, st1 keeps the agreement.
Agrees(s, e, c, k, st, s1, e1, c1, st1) ==
  /\ OnlineProgress(s1, e1)
  /\ StatusOutcomesKnown /\ ShownAsHeld(s, e, st) => ShownAsHeld(s1, e1, st1)
  /\ RowOutcomesKnown /\ RowAsHeld(s, e, c, k) => RowAsHeld(s1, e1, c1, k)
  /\ GaugeFollows(CountedAt(s, e), CountedAt(s1, e1), gauge, gauge')

StepAgrees(t) ==
  Agrees(sessions[t], exchange[t], checkpoint[t], config[t], status[t],
         sessions'[t], exchange'[t], checkpoint'[t], status'[t])

\* What a step may use of the terminal before it.
LEMMA AgreeAt ==
  ASSUME IInv, OnlineInv, NEW t \in Terminals
  PROVE /\ OnlineProgress(sessions[t], exchange[t])
        /\ ExchangeProgress(sessions[t], exchange[t], checkpoint[t])
        /\ sessions[t].auth \in BOOLEAN /\ exchange[t].prev.auth \in BOOLEAN
  BY TypedAt, Zenon DEF IInv, OnlineInv, TerminalInv, Typed

\* An upsert that is not applied leaves the row alone.
LEMMA UpsertRow ==
  ASSUME TypeOK, NEW t \in Terminals, NEW s \in Session, NEW o,
         UpsertPushSDKSession(t, s, o)
  PROVE /\ Applied(o) => CheckpointOf(checkpoint'[t], s, config[t])
        /\ ~Applied(o) => checkpoint'[t] = checkpoint[t]
  <1>1. Applied(o) => checkpoint'[t] = PersistentState(t, s)
    BY Zenon DEF TypeOK, UpsertPushSDKSession
  <1>2. ~Applied(o) => checkpoint'[t] = checkpoint[t]
    BY Zenon DEF UpsertPushSDKSession
  <1> QED
    BY <1>1, <1>2, PersistentFields, Zenon

\* A transition that is not applied leaves the status alone.
LEMMA TransitionRow ==
  ASSUME TypeOK, NEW t \in Terminals, NEW to, NEW o,
         TransitionTerminalState(t, to, o)
  PROVE /\ Applied(o) => status'[t] = to
        /\ ~Applied(o) => status'[t] = status[t]
  BY Zenon DEF TypeOK, TransitionTerminalState

\* A reported failure was not applied unless the call site is ambiguous.
LEMMA OutcomeKnown ==
  ASSUME NEW site, NEW o \in Outcomes(site)
  PROVE /\ o = "ok" => Applied(o)
        /\ o # "ok" /\ site \notin Ambiguous => ~Applied(o)
  BY DEF Outcomes, Applied

\* The sites of the two hypotheses.
LEMMA KnownSites ==
  /\ RowOutcomesKnown => "authinfo" \notin Ambiguous /\ "rotate" \notin Ambiguous
  /\ StatusOutcomesKnown => /\ "authinfo_transition" \notin Ambiguous
                            /\ "logout" \notin Ambiguous
                            /\ "idle" \notin Ambiguous
  BY Zenon DEF RowOutcomesKnown, StatusOutcomesKnown

\* AuthInfo: the replaced session moves into the exchange.
LEMMA AuthInfoAgrees ==
  ASSUME IInv, OnlineInv, NEW t \in Terminals, AuthInfo(t)
  PROVE StepAgrees(t)
  <1> DEFINE s == sessions[t]  e == exchange[t]  c == checkpoint[t]
             k == config[t]  st == status[t]  g == gauge
             s1 == sessions'[t]  e1 == exchange'[t]  c1 == checkpoint'[t]
             st1 == status'[t]  g1 == gauge'
  <1>1. /\ e.step = "free" /\ ~s1.auth /\ ~s1.online
        /\ e1.step = "authinfo" /\ e1.prev = s
        /\ c1 = c /\ st1 = st /\ g1 = g
    BY HoldFields DEF AuthInfo, IInv, TypeOK, At, durable, NoSession
  <1>2. /\ OnlineProgress(s, e) /\ ExchangeProgress(s, e, c)
        /\ s.auth \in BOOLEAN /\ e.prev.auth \in BOOLEAN
    BY AgreeAt, Zenon
  <1> HIDE DEF s, e, c, k, st, g, s1, e1, c1, st1, g1
  <1>3. OnlineProgress(s1, e1)
    BY <1>1, <1>2, Empty, Zenon DEF OnlineProgress, ExchangeProgress,
       AuthInfoSteps, LoginSteps
  <1>4. ASSUME StatusOutcomesKnown, ShownAsHeld(s, e, st)
        PROVE ShownAsHeld(s1, e1, st1)
    BY <1>1, <1>2, <1>4, KnownSites, Empty, Zenon DEF OnlineProgress,
       ShownAsHeld, AuthInfoSteps, LoginSteps
  <1>5. ASSUME RowOutcomesKnown, RowAsHeld(s, e, c, k)
        PROVE RowAsHeld(s1, e1, c1, k)
    BY <1>1, <1>2, <1>5, KnownSites, Empty, Zenon DEF OnlineProgress,
       ExchangeProgress, RowAsHeld, CheckpointOf, AuthInfoSteps, LoginSteps
  <1>6. GaugeFollows(CountedAt(s, e), CountedAt(s1, e1), g, g1)
    BY <1>1, <1>2, Empty, Zenon DEF OnlineProgress, GaugeFollows, CountedAt,
       AuthInfoSteps, LoginSteps
  <1> QED
    BY <1>3, <1>4, <1>5, <1>6, Zenon DEF StepAgrees, Agrees, s, e, c, k, st, g,
       s1, e1, c1, st1, g1

\* AuthInfo, first commit: the replaced session comes back with its row.
LEMMA AuthInfoPersistAgrees ==
  ASSUME IInv, OnlineInv, NEW t \in Terminals, AuthInfoPersist(t)
  PROVE StepAgrees(t)
  <1> DEFINE s == sessions[t]  e == exchange[t]  c == checkpoint[t]
             k == config[t]  st == status[t]  g == gauge
             s1 == sessions'[t]  e1 == exchange'[t]  c1 == checkpoint'[t]
             st1 == status'[t]  g1 == gauge'
  <1>1. /\ e.step = "authinfo" /\ st1 = st /\ g1 = g
        /\ \/ /\ e1.step = "authinfo_transition" /\ e1.prev = e.prev /\ s1 = s
           \/ /\ e1 = Free /\ s1 = e.prev
              /\ "authinfo" \notin Ambiguous => c1 = c
    <2>1. TypeOK /\ sessions[t] \in Session
      BY Zenon DEF IInv, TypeOK
    <2>2. PICK o \in Outcomes("authinfo") :
            /\ UpsertPushSDKSession(t, sessions[t], o)
            /\ \/ o = "ok" /\ Advance(t, "authinfo_transition") /\ UNCHANGED sessions
               \/ /\ o # "ok" /\ Release(t)
                  /\ sessions' = [sessions EXCEPT ![t] = exchange[t].prev]
      BY Zenon DEF AuthInfoPersist
    <2>3. e.step = "authinfo" /\ st1 = st /\ g1 = g
      BY Zenon DEF AuthInfoPersist, At
    <2>4. CASE o = "ok"
      BY <2>1, <2>2, <2>3, <2>4, AdvanceFields, Zenon
    <2>5. CASE o # "ok"
      <3>1. "authinfo" \notin Ambiguous => c1 = c
        <4>1. "authinfo" \notin Ambiguous => ~Applied(o)
          BY <2>2, <2>5, OutcomeKnown, Zenon
        <4>2. ~Applied(o) => c1 = c
          BY <2>1, <2>2, UpsertRow, Zenon
        <4> QED
          BY <4>1, <4>2, Zenon
      <3>2. e1 = Free /\ s1 = e.prev
        BY <2>1, <2>2, <2>5, ReleaseFields, Zenon DEF TypeOK
      <3> QED
        BY <2>3, <3>1, <3>2, Zenon
    <2> QED
      BY <2>4, <2>5, Zenon
  <1>2. /\ OnlineProgress(s, e) /\ ExchangeProgress(s, e, c)
        /\ s.auth \in BOOLEAN /\ e.prev.auth \in BOOLEAN
    BY AgreeAt, Zenon
  <1> HIDE DEF s, e, c, k, st, g, s1, e1, c1, st1, g1
  <1>3. OnlineProgress(s1, e1)
    BY <1>1, <1>2, Empty, Zenon DEF OnlineProgress, ExchangeProgress,
       AuthInfoSteps, LoginSteps
  <1>4. ASSUME StatusOutcomesKnown, ShownAsHeld(s, e, st)
        PROVE ShownAsHeld(s1, e1, st1)
    BY <1>1, <1>2, <1>4, KnownSites, Empty, Zenon DEF OnlineProgress,
       ShownAsHeld, AuthInfoSteps, LoginSteps
  <1>5. ASSUME RowOutcomesKnown, RowAsHeld(s, e, c, k)
        PROVE RowAsHeld(s1, e1, c1, k)
    BY <1>1, <1>2, <1>5, KnownSites, Empty, Zenon DEF OnlineProgress,
       ExchangeProgress, RowAsHeld, CheckpointOf, AuthInfoSteps, LoginSteps
  <1>6. GaugeFollows(CountedAt(s, e), CountedAt(s1, e1), g, g1)
    BY <1>1, <1>2, Empty, Zenon DEF OnlineProgress, GaugeFollows, CountedAt,
       AuthInfoSteps, LoginSteps
  <1> QED
    BY <1>3, <1>4, <1>5, <1>6, Zenon DEF StepAgrees, Agrees, s, e, c, k, st, g,
       s1, e1, c1, st1, g1

\* AuthInfo, second commit: the replaced session leaves the gauge.
LEMMA AuthInfoTransitionAgrees ==
  ASSUME IInv, OnlineInv, NEW t \in Terminals, AuthInfoTransition(t)
  PROVE StepAgrees(t)
  <1> DEFINE s == sessions[t]  e == exchange[t]  c == checkpoint[t]
             k == config[t]  st == status[t]  g == gauge
             s1 == sessions'[t]  e1 == exchange'[t]  c1 == checkpoint'[t]
             st1 == status'[t]  g1 == gauge'
  <1>1. /\ e.step = "authinfo_transition" /\ s1 = s /\ c1 = c /\ e1.prev = e.prev
        /\ \/ /\ e1.step = "reply"
              /\ g1 = IF e.prev.online THEN g - 1 ELSE g
           \/ /\ e1.step = "authinfo_restore" /\ g1 = g
              /\ "authinfo_transition" \notin Ambiguous => st1 = st
    <2>1. TypeOK
      BY Zenon DEF IInv
    <2>2. PICK o \in Outcomes("authinfo_transition") :
            /\ TransitionTerminalState(t, "authenticating", o)
            /\ \/ /\ o = "ok" /\ Advance(t, "reply")
                  /\ gauge' = IF exchange[t].prev.online THEN gauge - 1 ELSE gauge
               \/ o # "ok" /\ Advance(t, "authinfo_restore") /\ UNCHANGED gauge
      BY Zenon DEF AuthInfoTransition
    <2>3. e.step = "authinfo_transition" /\ s1 = s /\ c1 = c
      BY Zenon DEF AuthInfoTransition, At
    <2>4. CASE o = "ok"
      BY <2>1, <2>2, <2>3, <2>4, AdvanceFields, Zenon
    <2>5. CASE o # "ok"
      <3>1. "authinfo_transition" \notin Ambiguous => st1 = st
        <4>1. "authinfo_transition" \notin Ambiguous => ~Applied(o)
          BY <2>2, <2>5, OutcomeKnown, Zenon
        <4>2. ~Applied(o) => st1 = st
          BY <2>1, <2>2, TransitionRow, Zenon
        <4> QED
          BY <4>1, <4>2, Zenon
      <3>2. e1.prev = e.prev /\ e1.step = "authinfo_restore" /\ g1 = g
        BY <2>1, <2>2, <2>5, AdvanceFields, Zenon
      <3> QED
        BY <2>3, <3>1, <3>2, Zenon
    <2> QED
      BY <2>4, <2>5, Zenon
  <1>2. /\ OnlineProgress(s, e) /\ ExchangeProgress(s, e, c)
        /\ s.auth \in BOOLEAN /\ e.prev.auth \in BOOLEAN
    BY AgreeAt, Zenon
  <1> HIDE DEF s, e, c, k, st, g, s1, e1, c1, st1, g1
  <1>3. OnlineProgress(s1, e1)
    BY <1>1, <1>2, Empty, Zenon DEF OnlineProgress, ExchangeProgress,
       AuthInfoSteps, LoginSteps
  <1>4. ASSUME StatusOutcomesKnown, ShownAsHeld(s, e, st)
        PROVE ShownAsHeld(s1, e1, st1)
    BY <1>1, <1>2, <1>4, KnownSites, Empty, Zenon DEF OnlineProgress,
       ShownAsHeld, AuthInfoSteps, LoginSteps
  <1>5. ASSUME RowOutcomesKnown, RowAsHeld(s, e, c, k)
        PROVE RowAsHeld(s1, e1, c1, k)
    BY <1>1, <1>2, <1>5, KnownSites, Empty, Zenon DEF OnlineProgress,
       ExchangeProgress, RowAsHeld, CheckpointOf, AuthInfoSteps, LoginSteps
  <1>6. GaugeFollows(CountedAt(s, e), CountedAt(s1, e1), g, g1)
    BY <1>1, <1>2, Empty, Zenon DEF OnlineProgress, GaugeFollows, CountedAt,
       AuthInfoSteps, LoginSteps
  <1> QED
    BY <1>3, <1>4, <1>5, <1>6, Zenon DEF StepAgrees, Agrees, s, e, c, k, st, g,
       s1, e1, c1, st1, g1

\* AuthInfo, compensation: the session comes back only with its row.
LEMMA AuthInfoRestoreAgrees ==
  ASSUME IInv, OnlineInv, NEW t \in Terminals, AuthInfoRestore(t)
  PROVE StepAgrees(t)
  <1> DEFINE s == sessions[t]  e == exchange[t]  c == checkpoint[t]
             k == config[t]  st == status[t]  g == gauge
             s1 == sessions'[t]  e1 == exchange'[t]  c1 == checkpoint'[t]
             st1 == status'[t]  g1 == gauge'
  <1>1. /\ e.step = "authinfo_restore" /\ e1 = Free /\ st1 = st /\ g1 = g
        /\ \/ s1 = s /\ (ReplacementIsUndone => ~e.prev.auth)
           \/ s1 = e.prev /\ (e.prev.auth => CheckpointOf(c1, e.prev, k))
    <2>1. TypeOK /\ exchange[t].prev \in Session
      BY Zenon DEF IInv, TypeOK, Exchange
    <2>2. PICK o \in UpsertOutcomes("authinfo_restore", exchange[t].prev) :
            /\ \/ exchange[t].prev = NoSession
               \/ UpsertPushSDKSession(t, exchange[t].prev, o)
            /\ sessions' = IF o = "ok"
                             THEN [sessions EXCEPT ![t] = exchange[t].prev]
                             ELSE sessions
      BY Zenon DEF AuthInfoRestore
    <2>3. e.step = "authinfo_restore" /\ e1 = Free /\ st1 = st /\ g1 = g
      BY <2>1, ReleaseFields, Zenon DEF AuthInfoRestore, At
    <2>4. CASE o = "ok"
      <3>1. Applied(o)
        BY <2>4 DEF Applied
      <3>2. e.prev.auth => CheckpointOf(c1, e.prev, k)
        BY <2>1, <2>2, <3>1, UpsertRow, Empty, Zenon
      <3>3. s1 = e.prev
        BY <2>1, <2>2, <2>4, Zenon DEF TypeOK
      <3> QED
        BY <2>3, <3>2, <3>3, Zenon
    <2>5. CASE o # "ok"
      <3>1. ReplacementIsUndone => ~Storable(exchange[t].prev)
        <4>1. ReplacementIsUndone => Outcomes("authinfo_restore") = {"ok"}
          BY Zenon DEF ReplacementIsUndone, Outcomes
        <4> QED
          BY <2>2, <2>5, <4>1, Zenon DEF UpsertOutcomes
      <3> QED
        BY <2>2, <2>3, <2>5, <3>1, Zenon DEF Storable
    <2> QED
      BY <2>4, <2>5, Zenon
  <1>2. /\ OnlineProgress(s, e) /\ ExchangeProgress(s, e, c)
        /\ s.auth \in BOOLEAN /\ e.prev.auth \in BOOLEAN
    BY AgreeAt, Zenon
  <1> HIDE DEF s, e, c, k, st, g, s1, e1, c1, st1, g1
  <1>3. OnlineProgress(s1, e1)
    BY <1>1, <1>2, Empty, Zenon DEF OnlineProgress, ExchangeProgress,
       AuthInfoSteps, LoginSteps
  <1>4. ASSUME StatusOutcomesKnown, ShownAsHeld(s, e, st)
        PROVE ShownAsHeld(s1, e1, st1)
    BY <1>1, <1>2, <1>4, KnownSites, Empty, Zenon DEF OnlineProgress,
       ShownAsHeld, AuthInfoSteps, LoginSteps
  <1>5. ASSUME RowOutcomesKnown, RowAsHeld(s, e, c, k)
        PROVE RowAsHeld(s1, e1, c1, k)
    BY <1>1, <1>2, <1>5, KnownSites, Empty, Zenon DEF OnlineProgress,
       ExchangeProgress, RowAsHeld, CheckpointOf, AuthInfoSteps, LoginSteps
  <1>6. GaugeFollows(CountedAt(s, e), CountedAt(s1, e1), g, g1)
    BY <1>1, <1>2, Empty, Zenon DEF OnlineProgress, GaugeFollows, CountedAt,
       AuthInfoSteps, LoginSteps
  <1> QED
    BY <1>3, <1>4, <1>5, <1>6, Zenon DEF StepAgrees, Agrees, s, e, c, k, st, g,
       s1, e1, c1, st1, g1

\* Login: the session is not online yet.
LEMMA LoginAgrees ==
  ASSUME IInv, OnlineInv, NEW t \in Terminals, Login(t)
  PROVE StepAgrees(t)
  <1> DEFINE s == sessions[t]  e == exchange[t]  c == checkpoint[t]
             k == config[t]  st == status[t]  g == gauge
             s1 == sessions'[t]  e1 == exchange'[t]  c1 == checkpoint'[t]
             st1 == status'[t]  g1 == gauge'
  <1>1. /\ e.step = "free" /\ ~s.auth /\ s1.online = s.online
        /\ e1.step = "login"
        /\ s1.auth /\ c1 = c /\ st1 = st /\ g1 = g
    BY HoldFields DEF Login, IInv, TypeOK, At, Session, durable
  <1>2. /\ OnlineProgress(s, e) /\ ExchangeProgress(s, e, c)
        /\ s.auth \in BOOLEAN /\ e.prev.auth \in BOOLEAN
    BY AgreeAt, Zenon
  <1> HIDE DEF s, e, c, k, st, g, s1, e1, c1, st1, g1
  <1>3. OnlineProgress(s1, e1)
    BY <1>1, <1>2, Empty, Zenon DEF OnlineProgress, ExchangeProgress,
       AuthInfoSteps, LoginSteps
  <1>4. ASSUME StatusOutcomesKnown, ShownAsHeld(s, e, st)
        PROVE ShownAsHeld(s1, e1, st1)
    BY <1>1, <1>2, <1>4, KnownSites, Empty, Zenon DEF OnlineProgress,
       ShownAsHeld, AuthInfoSteps, LoginSteps
  <1>5. ASSUME RowOutcomesKnown, RowAsHeld(s, e, c, k)
        PROVE RowAsHeld(s1, e1, c1, k)
    BY <1>1, <1>2, <1>5, KnownSites, Empty, Zenon DEF OnlineProgress,
       ExchangeProgress, RowAsHeld, CheckpointOf, AuthInfoSteps, LoginSteps
  <1>6. GaugeFollows(CountedAt(s, e), CountedAt(s1, e1), g, g1)
    BY <1>1, <1>2, Empty, Zenon DEF OnlineProgress, GaugeFollows, CountedAt,
       AuthInfoSteps, LoginSteps
  <1> QED
    BY <1>3, <1>4, <1>5, <1>6, Zenon DEF StepAgrees, Agrees, s, e, c, k, st, g,
       s1, e1, c1, st1, g1

\* Login, first commit: the row holds the authenticated session.
LEMMA LoginPersistAgrees ==
  ASSUME IInv, OnlineInv, NEW t \in Terminals, LoginPersist(t)
  PROVE StepAgrees(t)
  <1> DEFINE s == sessions[t]  e == exchange[t]  c == checkpoint[t]
             k == config[t]  st == status[t]  g == gauge
             s1 == sessions'[t]  e1 == exchange'[t]  c1 == checkpoint'[t]
             st1 == status'[t]  g1 == gauge'
  <1>1. /\ e.step = "login" /\ st1 = st /\ g1 = g /\ s1.online = s.online
        /\ \/ e1.step = "login_transition" /\ s1 = s /\ CheckpointOf(c1, s, k)
           \/ e1 = Free /\ ~s1.auth
    <2>1. TypeOK /\ sessions[t] \in Session
      BY Zenon DEF IInv, TypeOK
    <2>2. PICK o \in Outcomes("login") :
            /\ UpsertPushSDKSession(t, sessions[t], o)
            /\ \/ o = "ok" /\ Advance(t, "login_transition") /\ UNCHANGED sessions
               \/ o # "ok" /\ RevertLogin(t) /\ Release(t)
      BY Zenon DEF LoginPersist
    <2>3. e.step = "login" /\ st1 = st /\ g1 = g
      BY Zenon DEF LoginPersist, At
    <2>4. CASE o = "ok"
      <3>1. CheckpointOf(c1, s, k)
        BY <2>1, <2>2, <2>4, OutcomeKnown, UpsertRow, Zenon
      <3> QED
        BY <2>1, <2>2, <2>3, <2>4, <3>1, AdvanceFields, Zenon
    <2>5. CASE o # "ok"
      BY <2>1, <2>2, <2>3, <2>5, RevertLoginFields, ReleaseFields, Zenon
    <2> QED
      BY <2>4, <2>5, Zenon
  <1>2. /\ OnlineProgress(s, e) /\ ExchangeProgress(s, e, c)
        /\ s.auth \in BOOLEAN /\ e.prev.auth \in BOOLEAN
    BY AgreeAt, Zenon
  <1> HIDE DEF s, e, c, k, st, g, s1, e1, c1, st1, g1
  <1>3. OnlineProgress(s1, e1)
    BY <1>1, <1>2, Empty, Zenon DEF OnlineProgress, ExchangeProgress,
       AuthInfoSteps, LoginSteps
  <1>4. ASSUME StatusOutcomesKnown, ShownAsHeld(s, e, st)
        PROVE ShownAsHeld(s1, e1, st1)
    BY <1>1, <1>2, <1>4, KnownSites, Empty, Zenon DEF OnlineProgress,
       ShownAsHeld, AuthInfoSteps, LoginSteps
  <1>5. ASSUME RowOutcomesKnown, RowAsHeld(s, e, c, k)
        PROVE RowAsHeld(s1, e1, c1, k)
    BY <1>1, <1>2, <1>5, KnownSites, Empty, Zenon DEF OnlineProgress,
       ExchangeProgress, RowAsHeld, CheckpointOf, AuthInfoSteps, LoginSteps
  <1>6. GaugeFollows(CountedAt(s, e), CountedAt(s1, e1), g, g1)
    BY <1>1, <1>2, Empty, Zenon DEF OnlineProgress, GaugeFollows, CountedAt,
       AuthInfoSteps, LoginSteps
  <1> QED
    BY <1>3, <1>4, <1>5, <1>6, Zenon DEF StepAgrees, Agrees, s, e, c, k, st, g,
       s1, e1, c1, st1, g1

\* Login, second commit: session, status and gauge go online together.
LEMMA LoginTransitionAgrees ==
  ASSUME IInv, OnlineInv, NEW t \in Terminals, LoginTransition(t)
  PROVE StepAgrees(t)
  <1> DEFINE s == sessions[t]  e == exchange[t]  c == checkpoint[t]
             k == config[t]  st == status[t]  g == gauge
             s1 == sessions'[t]  e1 == exchange'[t]  c1 == checkpoint'[t]
             st1 == status'[t]  g1 == gauge'
  <1>1. /\ e.step = "login_transition" /\ c1 = c
        /\ \/ /\ e1.step = "reply" /\ s1.online /\ st1 = "online" /\ g1 = g + 1
              /\ s1.login = s.login /\ s1.next = s.next /\ s1.auth = s.auth
           \/ /\ e1.step = "login_restore" /\ ~s1.auth /\ s1.online = s.online
              /\ g1 = g
    <2>1. TypeOK
      BY Zenon DEF IInv
    <2>2. PICK o \in Outcomes("login_transition") :
            /\ TransitionTerminalState(t, "online", o)
            /\ \/ /\ o = "ok" /\ Advance(t, "reply") /\ gauge' = gauge + 1
                  /\ sessions' = [sessions EXCEPT ![t].online = TRUE]
               \/ /\ o # "ok" /\ RevertLogin(t) /\ Advance(t, "login_restore")
                  /\ UNCHANGED gauge
      BY Zenon DEF LoginTransition
    <2>3. e.step = "login_transition" /\ c1 = c
      BY Zenon DEF LoginTransition, At
    <2>4. CASE o = "ok"
      <3>1. st1 = "online"
        BY <2>1, <2>2, <2>4, OutcomeKnown, TransitionRow, Zenon
      <3>2. /\ s1.login = s.login /\ s1.next = s.next /\ s1.auth = s.auth
            /\ s1.online
        BY <2>1, <2>2, <2>4, OnlineFields, Zenon
      <3> QED
        BY <2>1, <2>2, <2>3, <2>4, <3>1, <3>2, AdvanceFields, Zenon
    <2>5. CASE o # "ok"
      BY <2>1, <2>2, <2>3, <2>5, RevertLoginFields, AdvanceFields, Zenon
    <2> QED
      BY <2>4, <2>5, Zenon
  <1>2. /\ OnlineProgress(s, e) /\ ExchangeProgress(s, e, c)
        /\ s.auth \in BOOLEAN /\ e.prev.auth \in BOOLEAN
    BY AgreeAt, Zenon
  <1> HIDE DEF s, e, c, k, st, g, s1, e1, c1, st1, g1
  <1>3. OnlineProgress(s1, e1)
    BY <1>1, <1>2, Empty, Zenon DEF OnlineProgress, ExchangeProgress,
       AuthInfoSteps, LoginSteps
  <1>4. ASSUME StatusOutcomesKnown, ShownAsHeld(s, e, st)
        PROVE ShownAsHeld(s1, e1, st1)
    BY <1>1, <1>2, <1>4, KnownSites, Empty, Zenon DEF OnlineProgress,
       ShownAsHeld, AuthInfoSteps, LoginSteps
  <1>5. ASSUME RowOutcomesKnown, RowAsHeld(s, e, c, k)
        PROVE RowAsHeld(s1, e1, c1, k)
    BY <1>1, <1>2, <1>5, KnownSites, Empty, Zenon DEF OnlineProgress,
       ExchangeProgress, RowAsHeld, CheckpointOf, AuthInfoSteps, LoginSteps
  <1>6. GaugeFollows(CountedAt(s, e), CountedAt(s1, e1), g, g1)
    BY <1>1, <1>2, Empty, Zenon DEF OnlineProgress, GaugeFollows, CountedAt,
       AuthInfoSteps, LoginSteps
  <1> QED
    BY <1>3, <1>4, <1>5, <1>6, Zenon DEF StepAgrees, Agrees, s, e, c, k, st, g,
       s1, e1, c1, st1, g1

\* Login, compensation: the handshake is neither online nor authenticated.
LEMMA LoginRestoreAgrees ==
  ASSUME IInv, OnlineInv, NEW t \in Terminals, LoginRestore(t)
  PROVE StepAgrees(t)
  <1> DEFINE s == sessions[t]  e == exchange[t]  c == checkpoint[t]
             k == config[t]  st == status[t]  g == gauge
             s1 == sessions'[t]  e1 == exchange'[t]  c1 == checkpoint'[t]
             st1 == status'[t]  g1 == gauge'
  <1>1. /\ e.step = "login_restore" /\ e1 = Free
        /\ s1 = s /\ st1 = st /\ g1 = g
    BY ReleaseFields, Zenon DEF LoginRestore, IInv, At
  <1>2. /\ OnlineProgress(s, e) /\ ExchangeProgress(s, e, c)
        /\ s.auth \in BOOLEAN /\ e.prev.auth \in BOOLEAN
    BY AgreeAt, Zenon
  <1> HIDE DEF s, e, c, k, st, g, s1, e1, c1, st1, g1
  <1>3. OnlineProgress(s1, e1)
    BY <1>1, <1>2, Empty, Zenon DEF OnlineProgress, ExchangeProgress,
       AuthInfoSteps, LoginSteps
  <1>4. ASSUME StatusOutcomesKnown, ShownAsHeld(s, e, st)
        PROVE ShownAsHeld(s1, e1, st1)
    BY <1>1, <1>2, <1>4, KnownSites, Empty, Zenon DEF OnlineProgress,
       ShownAsHeld, AuthInfoSteps, LoginSteps
  <1>5. ASSUME RowOutcomesKnown, RowAsHeld(s, e, c, k)
        PROVE RowAsHeld(s1, e1, c1, k)
    BY <1>1, <1>2, <1>5, KnownSites, Empty, Zenon DEF OnlineProgress,
       ExchangeProgress, RowAsHeld, CheckpointOf, AuthInfoSteps, LoginSteps
  <1>6. GaugeFollows(CountedAt(s, e), CountedAt(s1, e1), g, g1)
    BY <1>1, <1>2, Empty, Zenon DEF OnlineProgress, GaugeFollows, CountedAt,
       AuthInfoSteps, LoginSteps
  <1> QED
    BY <1>3, <1>4, <1>5, <1>6, Zenon DEF StepAgrees, Agrees, s, e, c, k, st, g,
       s1, e1, c1, st1, g1

\* A request is handled at once only in an online session.
LEMMA RequestAgrees ==
  ASSUME IInv, OnlineInv, NEW t \in Terminals, NEW action, Request(t, action)
  PROVE StepAgrees(t)
  <1> DEFINE s == sessions[t]  e == exchange[t]  c == checkpoint[t]
             k == config[t]  st == status[t]  g == gauge
             s1 == sessions'[t]  e1 == exchange'[t]  c1 == checkpoint'[t]
             st1 == status'[t]  g1 == gauge'
  <1>1. /\ e.step = "free" /\ s.auth /\ s1 = s /\ c1 = c /\ st1 = st /\ g1 = g
        /\ \/ e1.step = "handle" /\ s.online
           \/ e1.step = "resume" /\ ~s.online
    BY HoldFields DEF Request, IInv, At, durable
  <1>2. /\ OnlineProgress(s, e) /\ ExchangeProgress(s, e, c)
        /\ s.auth \in BOOLEAN /\ e.prev.auth \in BOOLEAN
    BY AgreeAt, Zenon
  <1> HIDE DEF s, e, c, k, st, g, s1, e1, c1, st1, g1
  <1>3. OnlineProgress(s1, e1)
    BY <1>1, <1>2, Empty, Zenon DEF OnlineProgress, ExchangeProgress,
       AuthInfoSteps, LoginSteps
  <1>4. ASSUME StatusOutcomesKnown, ShownAsHeld(s, e, st)
        PROVE ShownAsHeld(s1, e1, st1)
    BY <1>1, <1>2, <1>4, KnownSites, Empty, Zenon DEF OnlineProgress,
       ShownAsHeld, AuthInfoSteps, LoginSteps
  <1>5. ASSUME RowOutcomesKnown, RowAsHeld(s, e, c, k)
        PROVE RowAsHeld(s1, e1, c1, k)
    BY <1>1, <1>2, <1>5, KnownSites, Empty, Zenon DEF OnlineProgress,
       ExchangeProgress, RowAsHeld, CheckpointOf, AuthInfoSteps, LoginSteps
  <1>6. GaugeFollows(CountedAt(s, e), CountedAt(s1, e1), g, g1)
    BY <1>1, <1>2, Empty, Zenon DEF OnlineProgress, GaugeFollows, CountedAt,
       AuthInfoSteps, LoginSteps
  <1> QED
    BY <1>3, <1>4, <1>5, <1>6, Zenon DEF StepAgrees, Agrees, s, e, c, k, st, g,
       s1, e1, c1, st1, g1

\* A resumed session goes online with its status and is counted.
LEMMA ResumeAgrees ==
  ASSUME IInv, OnlineInv, NEW t \in Terminals, Resume(t)
  PROVE StepAgrees(t)
  <1> DEFINE s == sessions[t]  e == exchange[t]  c == checkpoint[t]
             k == config[t]  st == status[t]  g == gauge
             s1 == sessions'[t]  e1 == exchange'[t]  c1 == checkpoint'[t]
             st1 == status'[t]  g1 == gauge'
  <1>1. /\ e.step = "resume" /\ c1 = c
        /\ st1 = st \/ st1 = "online"
        /\ \/ /\ e1.step = "handle" /\ s1.online /\ st1 = "online" /\ g1 = g + 1
              /\ s1.login = s.login /\ s1.next = s.next /\ s1.auth = s.auth
           \/ e1 = Free /\ s1 = s /\ g1 = g
    <2>1. TypeOK
      BY Zenon DEF IInv
    <2>2. PICK o \in Outcomes("resume") :
            /\ TransitionTerminalState(t, "online", o)
            /\ \/ /\ o = "ok" /\ Advance(t, "handle") /\ gauge' = gauge + 1
                  /\ sessions' = [sessions EXCEPT ![t].online = TRUE]
               \/ o # "ok" /\ Release(t) /\ UNCHANGED <<sessions, gauge>>
      BY Zenon DEF Resume
    <2>3. e.step = "resume" /\ c1 = c
      BY Zenon DEF Resume, At
    <2>4. st1 = st \/ st1 = "online"
      BY <2>1, <2>2, TransitionRow, Zenon
    <2>5. CASE o = "ok"
      <3>1. st1 = "online"
        BY <2>1, <2>2, <2>5, OutcomeKnown, TransitionRow, Zenon
      <3>2. /\ s1.login = s.login /\ s1.next = s.next /\ s1.auth = s.auth
            /\ s1.online
        BY <2>1, <2>2, <2>5, OnlineFields, Zenon
      <3> QED
        BY <2>1, <2>2, <2>3, <2>5, <3>1, <3>2, AdvanceFields, Zenon
    <2>6. CASE o # "ok"
      BY <2>1, <2>2, <2>3, <2>4, <2>6, ReleaseFields, Zenon
    <2> QED
      BY <2>5, <2>6, Zenon
  <1>2. /\ OnlineProgress(s, e) /\ ExchangeProgress(s, e, c)
        /\ s.auth \in BOOLEAN /\ e.prev.auth \in BOOLEAN
    BY AgreeAt, Zenon
  <1> HIDE DEF s, e, c, k, st, g, s1, e1, c1, st1, g1
  <1>3. OnlineProgress(s1, e1)
    BY <1>1, <1>2, Empty, Zenon DEF OnlineProgress, ExchangeProgress,
       AuthInfoSteps, LoginSteps
  <1>4. ASSUME StatusOutcomesKnown, ShownAsHeld(s, e, st)
        PROVE ShownAsHeld(s1, e1, st1)
    BY <1>1, <1>2, <1>4, KnownSites, Empty, Zenon DEF OnlineProgress,
       ShownAsHeld, AuthInfoSteps, LoginSteps
  <1>5. ASSUME RowOutcomesKnown, RowAsHeld(s, e, c, k)
        PROVE RowAsHeld(s1, e1, c1, k)
    BY <1>1, <1>2, <1>5, KnownSites, Empty, Zenon DEF OnlineProgress,
       ExchangeProgress, RowAsHeld, CheckpointOf, AuthInfoSteps, LoginSteps
  <1>6. GaugeFollows(CountedAt(s, e), CountedAt(s1, e1), g, g1)
    BY <1>1, <1>2, Empty, Zenon DEF OnlineProgress, GaugeFollows, CountedAt,
       AuthInfoSteps, LoginSteps
  <1> QED
    BY <1>3, <1>4, <1>5, <1>6, Zenon DEF StepAgrees, Agrees, s, e, c, k, st, g,
       s1, e1, c1, st1, g1

\* Rejecting or answering a request only releases the mutex.
LEMMA AnswerAgrees ==
  ASSUME IInv, OnlineInv, NEW t \in Terminals, Reject(t) \/ Reply(t)
  PROVE StepAgrees(t)
  <1> DEFINE s == sessions[t]  e == exchange[t]  c == checkpoint[t]
             k == config[t]  st == status[t]  g == gauge
             s1 == sessions'[t]  e1 == exchange'[t]  c1 == checkpoint'[t]
             st1 == status'[t]  g1 == gauge'
  <1>1. /\ e.step \in {"handle", "reply"} /\ e1 = Free
        /\ s1 = s /\ c1 = c /\ st1 = st /\ g1 = g
    BY ReleaseFields, Zenon DEF Reject, Reply, IInv, At, durable
  <1>2. /\ OnlineProgress(s, e) /\ ExchangeProgress(s, e, c)
        /\ s.auth \in BOOLEAN /\ e.prev.auth \in BOOLEAN
    BY AgreeAt, Zenon
  <1> HIDE DEF s, e, c, k, st, g, s1, e1, c1, st1, g1
  <1>3. OnlineProgress(s1, e1)
    BY <1>1, <1>2, Empty, Zenon DEF OnlineProgress, ExchangeProgress,
       AuthInfoSteps, LoginSteps
  <1>4. ASSUME StatusOutcomesKnown, ShownAsHeld(s, e, st)
        PROVE ShownAsHeld(s1, e1, st1)
    BY <1>1, <1>2, <1>4, KnownSites, Empty, Zenon DEF OnlineProgress,
       ShownAsHeld, AuthInfoSteps, LoginSteps
  <1>5. ASSUME RowOutcomesKnown, RowAsHeld(s, e, c, k)
        PROVE RowAsHeld(s1, e1, c1, k)
    BY <1>1, <1>2, <1>5, KnownSites, Empty, Zenon DEF OnlineProgress,
       ExchangeProgress, RowAsHeld, CheckpointOf, AuthInfoSteps, LoginSteps
  <1>6. GaugeFollows(CountedAt(s, e), CountedAt(s1, e1), g, g1)
    BY <1>1, <1>2, Empty, Zenon DEF OnlineProgress, GaugeFollows, CountedAt,
       AuthInfoSteps, LoginSteps
  <1> QED
    BY <1>3, <1>4, <1>5, <1>6, Zenon DEF StepAgrees, Agrees, s, e, c, k, st, g,
       s1, e1, c1, st1, g1

\* The rotated challenge is in memory, the row still holds the old one.
LEMMA HandleAgrees ==
  ASSUME IInv, OnlineInv, NEW t \in Terminals, Handle(t)
  PROVE StepAgrees(t)
  <1> DEFINE s == sessions[t]  e == exchange[t]  c == checkpoint[t]
             k == config[t]  st == status[t]  g == gauge
             s1 == sessions'[t]  e1 == exchange'[t]  c1 == checkpoint'[t]
             st1 == status'[t]  g1 == gauge'
  <1>1. /\ e.step = "handle" /\ e1.step = "rotate" /\ e1.prev = s
        /\ s1.login = s.login /\ s1.auth = s.auth /\ s1.online = s.online
        /\ c1 = c /\ st1 = st /\ g1 = g
    BY HoldFields DEF Handle, IInv, TypeOK, At, Session, durable
  <1>2. /\ OnlineProgress(s, e) /\ ExchangeProgress(s, e, c)
        /\ s.auth \in BOOLEAN /\ e.prev.auth \in BOOLEAN
    BY AgreeAt, Zenon
  <1> HIDE DEF s, e, c, k, st, g, s1, e1, c1, st1, g1
  <1>3. OnlineProgress(s1, e1)
    BY <1>1, <1>2, Empty, Zenon DEF OnlineProgress, ExchangeProgress,
       AuthInfoSteps, LoginSteps
  <1>4. ASSUME StatusOutcomesKnown, ShownAsHeld(s, e, st)
        PROVE ShownAsHeld(s1, e1, st1)
    BY <1>1, <1>2, <1>4, KnownSites, Empty, Zenon DEF OnlineProgress,
       ShownAsHeld, AuthInfoSteps, LoginSteps
  <1>5. ASSUME RowOutcomesKnown, RowAsHeld(s, e, c, k)
        PROVE RowAsHeld(s1, e1, c1, k)
    BY <1>1, <1>2, <1>5, KnownSites, Empty, Zenon DEF OnlineProgress,
       ExchangeProgress, RowAsHeld, CheckpointOf, AuthInfoSteps, LoginSteps
  <1>6. GaugeFollows(CountedAt(s, e), CountedAt(s1, e1), g, g1)
    BY <1>1, <1>2, Empty, Zenon DEF OnlineProgress, GaugeFollows, CountedAt,
       AuthInfoSteps, LoginSteps
  <1> QED
    BY <1>3, <1>4, <1>5, <1>6, Zenon DEF StepAgrees, Agrees, s, e, c, k, st, g,
       s1, e1, c1, st1, g1

\* The rotation is committed, or undone in memory.
LEMMA RotateAgrees ==
  ASSUME IInv, OnlineInv, NEW t \in Terminals, Rotate(t)
  PROVE StepAgrees(t)
  <1> DEFINE s == sessions[t]  e == exchange[t]  c == checkpoint[t]
             k == config[t]  st == status[t]  g == gauge
             s1 == sessions'[t]  e1 == exchange'[t]  c1 == checkpoint'[t]
             st1 == status'[t]  g1 == gauge'
  <1>1. /\ e.step = "rotate" /\ st1 = st /\ g1 = g
        /\ s1.login = s.login /\ s1.auth = s.auth /\ s1.online = s.online
        /\ \/ e1.step = "reply" /\ s1 = s /\ CheckpointOf(c1, s, k)
           \/ /\ e1 = Free /\ s1.next = e.prev.next
              /\ "rotate" \notin Ambiguous => c1 = c
    <2>1. TypeOK /\ sessions[t] \in Session
      BY Zenon DEF IInv, TypeOK
    <2>2. PICK o \in Outcomes("rotate") :
            /\ UpsertPushSDKSession(t, sessions[t], o)
            /\ \/ o = "ok" /\ Advance(t, "reply") /\ UNCHANGED sessions
               \/ /\ o # "ok" /\ Release(t)
                  /\ sessions' = [sessions EXCEPT ![t].next = exchange[t].prev.next]
      BY Zenon DEF Rotate
    <2>3. e.step = "rotate" /\ st1 = st /\ g1 = g
      BY Zenon DEF Rotate, At
    <2>4. CASE o = "ok"
      <3>1. CheckpointOf(c1, s, k)
        BY <2>1, <2>2, <2>4, OutcomeKnown, UpsertRow, Zenon
      <3> QED
        BY <2>1, <2>2, <2>3, <2>4, <3>1, AdvanceFields, Zenon
    <2>5. CASE o # "ok"
      <3>1. "rotate" \notin Ambiguous => c1 = c
        <4>1. "rotate" \notin Ambiguous => ~Applied(o)
          BY <2>2, <2>5, OutcomeKnown, Zenon
        <4>2. ~Applied(o) => c1 = c
          BY <2>1, <2>2, UpsertRow, Zenon
        <4> QED
          BY <4>1, <4>2, Zenon
      <3>2. /\ s1.login = s.login /\ s1.auth = s.auth /\ s1.online = s.online
            /\ s1.next = e.prev.next
        BY <2>1, <2>2, <2>5 DEF TypeOK, Session
      <3>3. e1 = Free
        BY <2>1, <2>2, <2>5, ReleaseFields, Zenon
      <3> QED
        BY <2>3, <3>1, <3>2, <3>3, Zenon
    <2> QED
      BY <2>4, <2>5, Zenon
  <1>2. /\ OnlineProgress(s, e) /\ ExchangeProgress(s, e, c)
        /\ s.auth \in BOOLEAN /\ e.prev.auth \in BOOLEAN
    BY AgreeAt, Zenon
  <1> HIDE DEF s, e, c, k, st, g, s1, e1, c1, st1, g1
  <1>3. OnlineProgress(s1, e1)
    BY <1>1, <1>2, Empty, Zenon DEF OnlineProgress, ExchangeProgress,
       AuthInfoSteps, LoginSteps
  <1>4. ASSUME StatusOutcomesKnown, ShownAsHeld(s, e, st)
        PROVE ShownAsHeld(s1, e1, st1)
    BY <1>1, <1>2, <1>4, KnownSites, Empty, Zenon DEF OnlineProgress,
       ShownAsHeld, AuthInfoSteps, LoginSteps
  <1>5. ASSUME RowOutcomesKnown, RowAsHeld(s, e, c, k)
        PROVE RowAsHeld(s1, e1, c1, k)
    BY <1>1, <1>2, <1>5, KnownSites, Empty, Zenon DEF OnlineProgress,
       ExchangeProgress, RowAsHeld, CheckpointOf, AuthInfoSteps, LoginSteps
  <1>6. GaugeFollows(CountedAt(s, e), CountedAt(s1, e1), g, g1)
    BY <1>1, <1>2, Empty, Zenon DEF OnlineProgress, GaugeFollows, CountedAt,
       AuthInfoSteps, LoginSteps
  <1> QED
    BY <1>3, <1>4, <1>5, <1>6, Zenon DEF StepAgrees, Agrees, s, e, c, k, st, g,
       s1, e1, c1, st1, g1

\* Logout, first commit: session, status and gauge go offline together.
LEMMA LogoutAgrees ==
  ASSUME IInv, OnlineInv, NEW t \in Terminals, Logout(t)
  PROVE StepAgrees(t)
  <1> DEFINE s == sessions[t]  e == exchange[t]  c == checkpoint[t]
             k == config[t]  st == status[t]  g == gauge
             s1 == sessions'[t]  e1 == exchange'[t]  c1 == checkpoint'[t]
             st1 == status'[t]  g1 == gauge'
  <1>1. /\ e.step = "handle" /\ c1 = c
        /\ \/ /\ e1.step = "logout_delete" /\ ~s1.auth /\ ~s1.online
              /\ g1 = g - 1
           \/ /\ e1 = Free /\ s1 = s /\ g1 = g
              /\ "logout" \notin Ambiguous => st1 = st
    <2>1. TypeOK
      BY Zenon DEF IInv
    <2>2. PICK o \in Outcomes("logout") :
            /\ TransitionTerminalState(t, "offline", o)
            /\ \/ /\ o = "ok" /\ gauge' = gauge - 1
                  /\ sessions' = [sessions EXCEPT ![t].next = fresh[t],
                                                  ![t].auth = FALSE,
                                                  ![t].online = FALSE]
                  /\ Hold(t, "Logout", "logout_delete", sessions[t], fresh[t])
               \/ o # "ok" /\ Release(t) /\ UNCHANGED <<sessions, gauge>>
      BY Zenon DEF Logout
    <2>3. e.step = "handle" /\ c1 = c
      BY Zenon DEF Logout, At
    <2>4. CASE o = "ok"
      <3>1. ~s1.auth /\ ~s1.online
        BY <2>1, <2>2, <2>4 DEF TypeOK, Session
      <3>2. e1.step = "logout_delete"
        BY <2>1, <2>2, <2>4, HoldFields, Zenon
      <3> QED
        BY <2>2, <2>3, <2>4, <3>1, <3>2, Zenon
    <2>5. CASE o # "ok"
      <3>1. "logout" \notin Ambiguous => st1 = st
        <4>1. "logout" \notin Ambiguous => ~Applied(o)
          BY <2>2, <2>5, OutcomeKnown, Zenon
        <4>2. ~Applied(o) => st1 = st
          BY <2>1, <2>2, TransitionRow, Zenon
        <4> QED
          BY <4>1, <4>2, Zenon
      <3> QED
        BY <2>1, <2>2, <2>3, <2>5, <3>1, ReleaseFields, Zenon
    <2> QED
      BY <2>4, <2>5, Zenon
  <1>2. /\ OnlineProgress(s, e) /\ ExchangeProgress(s, e, c)
        /\ s.auth \in BOOLEAN /\ e.prev.auth \in BOOLEAN
    BY AgreeAt, Zenon
  <1> HIDE DEF s, e, c, k, st, g, s1, e1, c1, st1, g1
  <1>3. OnlineProgress(s1, e1)
    BY <1>1, <1>2, Empty, Zenon DEF OnlineProgress, ExchangeProgress,
       AuthInfoSteps, LoginSteps
  <1>4. ASSUME StatusOutcomesKnown, ShownAsHeld(s, e, st)
        PROVE ShownAsHeld(s1, e1, st1)
    BY <1>1, <1>2, <1>4, KnownSites, Empty, Zenon DEF OnlineProgress,
       ShownAsHeld, AuthInfoSteps, LoginSteps
  <1>5. ASSUME RowOutcomesKnown, RowAsHeld(s, e, c, k)
        PROVE RowAsHeld(s1, e1, c1, k)
    BY <1>1, <1>2, <1>5, KnownSites, Empty, Zenon DEF OnlineProgress,
       ExchangeProgress, RowAsHeld, CheckpointOf, AuthInfoSteps, LoginSteps
  <1>6. GaugeFollows(CountedAt(s, e), CountedAt(s1, e1), g, g1)
    BY <1>1, <1>2, Empty, Zenon DEF OnlineProgress, GaugeFollows, CountedAt,
       AuthInfoSteps, LoginSteps
  <1> QED
    BY <1>3, <1>4, <1>5, <1>6, Zenon DEF StepAgrees, Agrees, s, e, c, k, st, g,
       s1, e1, c1, st1, g1

\* Logout, second commit: the session is no longer online.
LEMMA LogoutDeleteAgrees ==
  ASSUME IInv, OnlineInv, NEW t \in Terminals, LogoutDelete(t)
  PROVE StepAgrees(t)
  <1> DEFINE s == sessions[t]  e == exchange[t]  c == checkpoint[t]
             k == config[t]  st == status[t]  g == gauge
             s1 == sessions'[t]  e1 == exchange'[t]  c1 == checkpoint'[t]
             st1 == status'[t]  g1 == gauge'
  <1>1. /\ e.step = "logout_delete" /\ st1 = st /\ g1 = g
        /\ s1 = s \/ s1 = NoSession
        /\ e1 = Free \/ e1.step = "reply"
    <2>1. TypeOK
      BY Zenon DEF IInv
    <2>2. e.step = "logout_delete" /\ st1 = st /\ g1 = g
      BY Zenon DEF LogoutDelete, At
    <2>3. s1 = s \/ s1 = NoSession
      BY <2>1, Zenon DEF LogoutDelete, TypeOK
    <2>4. e1 = Free \/ e1.step = "reply"
      BY <2>1, AdvanceFields, ReleaseFields, Zenon DEF LogoutDelete
    <2> QED
      BY <2>2, <2>3, <2>4, Zenon
  <1>2. /\ OnlineProgress(s, e) /\ ExchangeProgress(s, e, c)
        /\ s.auth \in BOOLEAN /\ e.prev.auth \in BOOLEAN
    BY AgreeAt, Zenon
  <1> HIDE DEF s, e, c, k, st, g, s1, e1, c1, st1, g1
  <1>3. OnlineProgress(s1, e1)
    BY <1>1, <1>2, Empty, Zenon DEF OnlineProgress, ExchangeProgress,
       AuthInfoSteps, LoginSteps
  <1>4. ASSUME StatusOutcomesKnown, ShownAsHeld(s, e, st)
        PROVE ShownAsHeld(s1, e1, st1)
    BY <1>1, <1>2, <1>4, KnownSites, Empty, Zenon DEF OnlineProgress,
       ShownAsHeld, AuthInfoSteps, LoginSteps
  <1>5. ASSUME RowOutcomesKnown, RowAsHeld(s, e, c, k)
        PROVE RowAsHeld(s1, e1, c1, k)
    BY <1>1, <1>2, <1>5, KnownSites, Empty, Zenon DEF OnlineProgress,
       ExchangeProgress, RowAsHeld, CheckpointOf, AuthInfoSteps, LoginSteps
  <1>6. GaugeFollows(CountedAt(s, e), CountedAt(s1, e1), g, g1)
    BY <1>1, <1>2, Empty, Zenon DEF OnlineProgress, GaugeFollows, CountedAt,
       AuthInfoSteps, LoginSteps
  <1> QED
    BY <1>3, <1>4, <1>5, <1>6, Zenon DEF StepAgrees, Agrees, s, e, c, k, st, g,
       s1, e1, c1, st1, g1

\* An idle session, its status and the gauge go offline together.
LEMMA MarkSessionIdleAgrees ==
  ASSUME IInv, OnlineInv, NEW t \in Terminals, MarkSessionIdle(t)
  PROVE StepAgrees(t)
  <1> DEFINE s == sessions[t]  e == exchange[t]  c == checkpoint[t]
             k == config[t]  st == status[t]  g == gauge
             s1 == sessions'[t]  e1 == exchange'[t]  c1 == checkpoint'[t]
             st1 == status'[t]  g1 == gauge'
  <1>1. /\ e.step = "free" /\ e1 = e /\ c1 = c /\ s.online
        /\ s1.login = s.login /\ s1.next = s.next /\ s1.auth = s.auth
        /\ \/ ~s1.online /\ g1 = g - 1
           \/ /\ s1 = s /\ g1 = g
              /\ "idle" \notin Ambiguous => st1 = st
    <2>1. TypeOK
      BY Zenon DEF IInv
    <2>2. PICK o \in Outcomes("idle") :
            /\ TransitionTerminalState(t, "offline", o)
            /\ \/ /\ o = "ok" /\ gauge' = gauge - 1
                  /\ sessions' = [sessions EXCEPT ![t].online = FALSE]
               \/ o # "ok" /\ UNCHANGED <<sessions, gauge>>
      BY Zenon DEF MarkSessionIdle
    <2>3. e.step = "free" /\ e1 = e /\ c1 = c /\ s.online
      BY Zenon DEF MarkSessionIdle, At
    <2>4. CASE o = "ok"
      <3>1. /\ s1.login = s.login /\ s1.next = s.next /\ s1.auth = s.auth
            /\ s1.online = FALSE
        BY <2>1, <2>2, <2>4, OnlineFields, Zenon
      <3> QED
        BY <2>2, <2>3, <2>4, <3>1, Zenon
    <2>5. CASE o # "ok"
      <3>1. "idle" \notin Ambiguous => st1 = st
        <4>1. "idle" \notin Ambiguous => ~Applied(o)
          BY <2>2, <2>5, OutcomeKnown, Zenon
        <4>2. ~Applied(o) => st1 = st
          BY <2>1, <2>2, TransitionRow, Zenon
        <4> QED
          BY <4>1, <4>2, Zenon
      <3> QED
        BY <2>2, <2>3, <2>5, <3>1, Zenon
    <2> QED
      BY <2>4, <2>5, Zenon
  <1>2. /\ OnlineProgress(s, e) /\ ExchangeProgress(s, e, c)
        /\ s.auth \in BOOLEAN /\ e.prev.auth \in BOOLEAN
    BY AgreeAt, Zenon
  <1> HIDE DEF s, e, c, k, st, g, s1, e1, c1, st1, g1
  <1>3. OnlineProgress(s1, e1)
    BY <1>1, <1>2, Empty, Zenon DEF OnlineProgress, ExchangeProgress,
       AuthInfoSteps, LoginSteps
  <1>4. ASSUME StatusOutcomesKnown, ShownAsHeld(s, e, st)
        PROVE ShownAsHeld(s1, e1, st1)
    BY <1>1, <1>2, <1>4, KnownSites, Empty, Zenon DEF OnlineProgress,
       ShownAsHeld, AuthInfoSteps, LoginSteps
  <1>5. ASSUME RowOutcomesKnown, RowAsHeld(s, e, c, k)
        PROVE RowAsHeld(s1, e1, c1, k)
    BY <1>1, <1>2, <1>5, KnownSites, Empty, Zenon DEF OnlineProgress,
       ExchangeProgress, RowAsHeld, CheckpointOf, AuthInfoSteps, LoginSteps
  <1>6. GaugeFollows(CountedAt(s, e), CountedAt(s1, e1), g, g1)
    BY <1>1, <1>2, Empty, Zenon DEF OnlineProgress, GaugeFollows, CountedAt,
       AuthInfoSteps, LoginSteps
  <1> QED
    BY <1>3, <1>4, <1>5, <1>6, Zenon DEF StepAgrees, Agrees, s, e, c, k, st, g,
       s1, e1, c1, st1, g1

\* An overdue handshake is neither authenticated nor online.
LEMMA ExpireLoginChallengeAgrees ==
  ASSUME IInv, OnlineInv, NEW t \in Terminals, ExpireLoginChallenge(t)
  PROVE StepAgrees(t)
  <1> DEFINE s == sessions[t]  e == exchange[t]  c == checkpoint[t]
             k == config[t]  st == status[t]  g == gauge
             s1 == sessions'[t]  e1 == exchange'[t]  c1 == checkpoint'[t]
             st1 == status'[t]  g1 == gauge'
  <1>1. /\ e.step = "free" /\ e1 = e /\ g1 = g /\ ~s.auth
        /\ s1 = s \/ s1 = NoSession
    BY Zenon DEF ExpireLoginChallenge, IInv, TypeOK, At
  <1>2. /\ OnlineProgress(s, e) /\ ExchangeProgress(s, e, c)
        /\ s.auth \in BOOLEAN /\ e.prev.auth \in BOOLEAN
    BY AgreeAt, Zenon
  <1> HIDE DEF s, e, c, k, st, g, s1, e1, c1, st1, g1
  <1>3. OnlineProgress(s1, e1)
    BY <1>1, <1>2, Empty, Zenon DEF OnlineProgress, ExchangeProgress,
       AuthInfoSteps, LoginSteps
  <1>4. ASSUME StatusOutcomesKnown, ShownAsHeld(s, e, st)
        PROVE ShownAsHeld(s1, e1, st1)
    BY <1>1, <1>2, <1>4, KnownSites, Empty, Zenon DEF OnlineProgress,
       ShownAsHeld, AuthInfoSteps, LoginSteps
  <1>5. ASSUME RowOutcomesKnown, RowAsHeld(s, e, c, k)
        PROVE RowAsHeld(s1, e1, c1, k)
    BY <1>1, <1>2, <1>5, KnownSites, Empty, Zenon DEF OnlineProgress,
       ExchangeProgress, RowAsHeld, CheckpointOf, AuthInfoSteps, LoginSteps
  <1>6. GaugeFollows(CountedAt(s, e), CountedAt(s1, e1), g, g1)
    BY <1>1, <1>2, Empty, Zenon DEF OnlineProgress, GaugeFollows, CountedAt,
       AuthInfoSteps, LoginSteps
  <1> QED
    BY <1>3, <1>4, <1>5, <1>6, Zenon DEF StepAgrees, Agrees, s, e, c, k, st, g,
       s1, e1, c1, st1, g1

\* A step that touches neither the terminal nor the gauge keeps the agreement.
LEMMA SameAgrees ==
  ASSUME OnlineInv, NEW t \in Terminals,
         sessions'[t] = sessions[t], exchange'[t] = exchange[t],
         checkpoint'[t] = checkpoint[t], status'[t] = status[t], gauge' = gauge
  PROVE StepAgrees(t)
  BY Zenon DEF OnlineInv, StepAgrees, Agrees, GaugeFollows

\* Every step about a terminal keeps the agreement at that terminal.
LEMMA TerminalAgrees ==
  ASSUME IInv, OnlineInv, NEW t \in Terminals,
         TerminalStep(t) \/ ExchangeStep(t) \/ MaintenanceStep(t) \/ TimeStep(t)
  PROVE StepAgrees(t)
  <1>1. CASE TerminalStep(t)
    BY <1>1, AuthInfoAgrees, LoginAgrees, RequestAgrees, Zenon DEF TerminalStep
  <1>2. CASE ExchangeStep(t)
    BY <1>2, AuthInfoPersistAgrees, AuthInfoTransitionAgrees,
       AuthInfoRestoreAgrees, LoginPersistAgrees, LoginTransitionAgrees,
       LoginRestoreAgrees, ResumeAgrees, AnswerAgrees, HandleAgrees,
       RotateAgrees, LogoutAgrees, LogoutDeleteAgrees, Zenon DEF ExchangeStep
  <1>3. CASE MaintenanceStep(t)
    BY <1>3, MarkSessionIdleAgrees, ExpireLoginChallengeAgrees, Zenon
       DEF MaintenanceStep
  <1>4. CASE TimeStep(t)
    BY <1>4, SameAgrees, Zenon DEF TimeStep, LoginDeadlinePasses,
       IdleTimeoutPasses, volatile, durable
  <1> QED
    BY <1>1, <1>2, <1>3, <1>4, Zenon

\* A terminal without a session and an exchange agrees with any row, any
\* status, and is not counted.
LEMMA NothingHeld ==
  ASSUME NEW s, NEW e, NEW c, NEW k, NEW st, e = Free, ~s.online,
         s.auth => CheckpointOf(c, s, k)
  PROVE /\ OnlineProgress(s, e) /\ ShownAsHeld(s, e, st) /\ RowAsHeld(s, e, c, k)
        /\ ~CountedAt(s, e)
  BY Empty, Zenon DEF OnlineProgress, ShownAsHeld, RowAsHeld, CountedAt,
     AuthInfoSteps, LoginSteps

\* After a crash, a start or an aborted one no terminal holds anything; after
\* a restore a terminal holds what its row holds, under the configuration in
\* force, and is not online.
LEMMA ProcessAgrees ==
  ASSUME IInv, NEW t \in Terminals,
         Crash \/ Boot \/ RestoreSessions \/ RestoreAborted
  PROVE /\ OnlineProgress(sessions[t], exchange[t])'
        /\ ShownAsHeld(sessions[t], exchange[t], status[t])'
        /\ RowAsHeld(sessions[t], exchange[t], checkpoint[t], config[t])'
        /\ ~CountedAt(sessions[t], exchange[t])'
  <1> DEFINE s1 == sessions'[t]  e1 == exchange'[t]  c1 == checkpoint'[t]
             k1 == config'[t]
  <1>1. ~Running => sessions[t] = NoSession /\ exchange[t] = Free
    BY Zenon DEF IInv, TerminalInv, VolatileOnlyWhileRunning
  <1>2. e1 = Free /\ ~s1.online /\ (s1.auth => CheckpointOf(c1, s1, k1))
    <2>1. CASE Crash
      BY <2>1, Empty, Zenon DEF Crash
    <2>2. CASE Boot \/ RestoreAborted
      <3>1. ~Running
        BY <2>2 DEF Boot, RestoreAborted, Running
      <3>2. s1 = sessions[t] /\ e1 = exchange[t]
        BY <2>2, Zenon DEF Boot, RestoreAborted
      <3> QED
        BY <1>1, <3>1, <3>2, Empty, Zenon
    <2>3. CASE RestoreSessions
      <3>1. ~Running
        BY <2>3 DEF RestoreSessions, Running
      <3>2. /\ e1 = exchange[t] /\ k1 = config[t]
            /\ \/ s1 = NoSession
               \/ /\ c1 = checkpoint[t]
                  /\ c1 # NoCheckpoint => c1.fingerprint = k1
                  /\ s1 = [login |-> c1.login, next |-> c1.next,
                           auth |-> c1.auth, online |-> FALSE]
        BY <2>3, Zenon DEF RestoreSessions, Outdated
      <3> HIDE DEF s1, e1, c1, k1
      <3>3. \/ s1 = NoSession
            \/ /\ c1 # NoCheckpoint => c1.fingerprint = k1
               /\ s1.login = c1.login /\ s1.next = c1.next
               /\ s1.auth = c1.auth /\ ~s1.online
        BY <3>2
      <3> QED
        BY <1>1, <3>1, <3>2, <3>3, Empty, Zenon DEF CheckpointOf
    <2> QED
      BY <2>1, <2>2, <2>3, Zenon
  <1> HIDE DEF s1, e1, c1, k1
  <1>3. \A st : /\ OnlineProgress(s1, e1) /\ ShownAsHeld(s1, e1, st)
                /\ RowAsHeld(s1, e1, c1, k1) /\ ~CountedAt(s1, e1)
    BY <1>2, NothingHeld, Zenon
  <1> QED
    BY <1>3, Zenon DEF s1, e1, c1, k1

\* The gauge counts at least a set that grows or shrinks by the terminal whose
\* step it follows.
LEMMA GaugeStep ==
  ASSUME TypeOK, GaugeInv, NEW t \in Terminals,
         \A u \in Terminals \ {t} : u \in Counted' <=> u \in Counted,
         GaugeFollows(t \in Counted, t \in Counted', gauge, gauge')
  PROVE GaugeInv'
  <1> DEFINE C == Counted  C1 == Counted'
  <1>1. C \subseteq Terminals /\ C1 \subseteq Terminals
    BY Zenon DEF Counted
  <1>2. IsFiniteSet(C)
    BY <1>1, TerminalsAssumption, FS_Subset, Zenon
  <1>3. /\ Cardinality(C) \in Nat /\ gauge \in Int /\ gauge >= Cardinality(C)
        /\ ReplacementIsUndone => gauge = Cardinality(C)
    BY <1>2, FS_CardinalityType, Zenon DEF TypeOK, GaugeInv
  <1>4. GaugeFollows(t \in C, t \in C1, gauge, gauge')
    BY Zenon
  <1>5. \A u \in Terminals \ {t} : u \in C1 <=> u \in C
    BY Zenon
  <1> HIDE DEF C, C1
  <1>6. CASE (t \in C1) <=> (t \in C)
    <2>1. ASSUME NEW u PROVE u \in C1 <=> u \in C
      BY <1>1, <1>5, <1>6, Zenon
    <2>2. C1 = C
      BY <2>1, Zenon
    <2>3. gauge' = gauge
      BY <1>4, <1>6, Zenon DEF GaugeFollows
    <2> QED
      BY <1>3, <2>2, <2>3, Zenon DEF GaugeInv, C1
  <1>7. CASE t \in C1 /\ t \notin C
    <2>1. C1 = C \cup {t}
      BY <1>1, <1>5, <1>7, Zenon
    <2>2. Cardinality(C1) = Cardinality(C) + 1
      BY <1>2, <1>7, <2>1, FS_AddElement, Zenon
    <2>3. gauge' = gauge + 1
      BY <1>4, <1>7, Zenon DEF GaugeFollows
    <2> QED
      BY <1>3, <2>2, <2>3 DEF GaugeInv, C1
  <1>8. CASE t \notin C1 /\ t \in C
    <2>1. C1 = C \ {t}
      BY <1>1, <1>5, <1>8, Zenon
    <2>2. Cardinality(C1) = Cardinality(C) - 1
      BY <1>2, <1>8, <2>1, FS_RemoveElement, Zenon
    <2>3. \/ gauge' = gauge - 1
          \/ gauge' = gauge /\ ~ReplacementIsUndone
      BY <1>4, <1>8, Zenon DEF GaugeFollows
    <2> QED
      BY <1>3, <2>2, <2>3 DEF GaugeInv, C1
  <1> QED
    BY <1>6, <1>7, <1>8, Zenon

\* With nothing counted, the gauge is zero.
LEMMA GaugeEmpty ==
  ASSUME gauge = 0, Counted = {}
  PROVE GaugeInv
  BY FS_EmptySet DEF GaugeInv

\* The four invariants hold initially.
LEMMA InitAgrees == Init => OnlineInv /\ StatusInv /\ RowInv /\ GaugeInv
  <1> SUFFICES ASSUME Init PROVE OnlineInv /\ StatusInv /\ RowInv /\ GaugeInv
    BY Zenon
  <1>1. ASSUME NEW t \in Terminals
        PROVE /\ OnlineProgress(sessions[t], exchange[t])
              /\ ShownAsHeld(sessions[t], exchange[t], status[t])
              /\ RowAsHeld(sessions[t], exchange[t], checkpoint[t], config[t])
              /\ ~CountedAt(sessions[t], exchange[t])
    <2>1. sessions[t] = NoSession /\ exchange[t] = Free
      BY Zenon DEF Init
    <2> QED
      BY <2>1, Empty, NothingHeld, Zenon
  <1>2. GaugeInv
    <2>1. Counted = {}
      BY <1>1, Zenon DEF Counted
    <2>2. gauge = 0
      BY Zenon DEF Init
    <2> QED
      BY <2>1, <2>2, GaugeEmpty, Zenon
  <1> QED
    BY <1>1, <1>2, Zenon DEF OnlineInv, StatusInv, RowInv

\* Every step keeps the four invariants, each under the outcomes it needs.
LEMMA NextAgrees ==
  ASSUME IInv, OnlineInv, [Next]_vars
  PROVE /\ OnlineInv'
        /\ StatusOutcomesKnown /\ StatusInv => StatusInv'
        /\ RowOutcomesKnown /\ RowInv => RowInv'
        /\ GaugeInv => GaugeInv'
  <1>1. CASE UNCHANGED vars
    BY <1>1, Zenon DEF vars, OnlineInv, StatusInv, RowInv, GaugeInv, Counted
  <1>2. ASSUME NEW t \in Terminals,
               TerminalStep(t) \/ ExchangeStep(t) \/ MaintenanceStep(t)
                 \/ TimeStep(t)
        PROVE /\ OnlineInv'
              /\ StatusOutcomesKnown /\ StatusInv => StatusInv'
              /\ RowOutcomesKnown /\ RowInv => RowInv'
              /\ GaugeInv => GaugeInv'
    <2>1. TypeOK
      BY Zenon DEF IInv
    <2>2. StepAgrees(t)
      BY <1>2, TerminalAgrees, Zenon
    <2>3. ASSUME NEW u \in Terminals, u # t
          PROVE /\ config'[u] = config[u] /\ sessions'[u] = sessions[u]
                /\ exchange'[u] = exchange[u] /\ checkpoint'[u] = checkpoint[u]
                /\ status'[u] = status[u]
      BY <1>2, <2>1, <2>3, OthersUntouched, Zenon
    <2>4. config'[t] = config[t]
      BY <1>2, ConfigKept, Zenon
    <2>5. OnlineInv'
      BY <2>2, <2>3, Zenon DEF StepAgrees, Agrees, OnlineInv
    <2>6. StatusOutcomesKnown /\ StatusInv => StatusInv'
      BY <2>2, <2>3, Zenon DEF StepAgrees, Agrees, StatusInv
    <2>7. RowOutcomesKnown /\ RowInv => RowInv'
      BY <2>2, <2>3, <2>4, Zenon DEF StepAgrees, Agrees, RowInv
    <2>8. ASSUME GaugeInv PROVE GaugeInv'
      <3>1. \A u \in Terminals \ {t} : u \in Counted' <=> u \in Counted
        BY <2>3, Zenon DEF Counted
      <3>2. /\ t \in Counted <=> CountedAt(sessions[t], exchange[t])
            /\ t \in Counted' <=> CountedAt(sessions'[t], exchange'[t])
        BY Zenon DEF Counted
      <3>3. GaugeFollows(t \in Counted, t \in Counted', gauge, gauge')
        BY <2>2, <3>2, Zenon DEF StepAgrees, Agrees, GaugeFollows
      <3> QED
        BY <2>1, <2>8, <3>1, <3>3, GaugeStep, Zenon
    <2> QED
      BY <2>5, <2>6, <2>7, <2>8, Zenon
  <1>3. CASE Crash \/ Boot \/ RestoreSessions \/ RestoreAborted
    <2>1. ASSUME NEW t \in Terminals
          PROVE /\ OnlineProgress(sessions[t], exchange[t])'
                /\ ShownAsHeld(sessions[t], exchange[t], status[t])'
                /\ RowAsHeld(sessions[t], exchange[t], checkpoint[t], config[t])'
                /\ ~CountedAt(sessions[t], exchange[t])'
      BY <1>3, ProcessAgrees, Zenon
    <2>2. Counted' = {}
      BY <2>1, Zenon DEF Counted
    <2>3. GaugeInv => GaugeInv'
      <3>1. CASE Crash \/ RestoreSessions
        <4>1. gauge' = 0
          BY <3>1, Zenon DEF Crash, RestoreSessions
        <4> QED
          BY <2>2, <4>1, FS_EmptySet DEF GaugeInv
      <3>2. CASE Boot \/ RestoreAborted
        <4>1. /\ ~Running /\ gauge' = gauge
              /\ sessions' = sessions /\ exchange' = exchange
          BY <3>2 DEF Boot, RestoreAborted, Running
        <4>2. Counted' = Counted
          BY <4>1, Zenon DEF Counted
        <4> QED
          BY <4>1, <4>2, Zenon DEF GaugeInv
      <3> QED
        BY <1>3, <3>1, <3>2, Zenon
    <2> QED
      BY <2>1, <2>3, Zenon DEF OnlineInv, StatusInv, RowInv
  <1> QED
    BY <1>1, <1>2, <1>3, Zenon DEF Next

-----------------------------------------------------------------------------
(* Theorems.                                                               *)

\* The inductive invariant holds in every reachable state.
THEOREM Invariance == Spec => []IInv
  BY InitInv, NextInv, PTL DEF Spec

\* Every variable keeps its type, whatever handlers, sweeps, failures and
\* restarts do.
THEOREM TypeCorrect == Spec => []TypeOK
  <1>1. IInv => TypeOK
    BY Zenon DEF IInv
  <1> QED
    BY <1>1, Invariance, PTL

\* authenticated() never again accepts a proof whose exchange was committed,
\* and no restart brings the used challenge back.
THEOREM UsedProofs == Spec => []UsedProofStaysUsed
  <1>1. IInv => UsedProofStaysUsed
    BY Zenon DEF IInv, TerminalInv, CopiesNotUsed, UsedProofStaysUsed
  <1> QED
    BY <1>1, Invariance, PTL

\* A session that was replaced, logged out or outdated by a configuration
\* change comes back neither by a compensation nor by a restart.
THEOREM RevokedSessions == Spec => []RevokedSessionStaysRevoked
  <1>1. IInv => RevokedSessionStaysRevoked
    BY Zenon DEF IInv, TerminalInv, CopiesNotRevoked, FingerprintInForce,
       RevokedSessionStaysRevoked
  <1> QED
    BY <1>1, Invariance, PTL

\* respond() writes a challenge only after the checkpoint that carries it was
\* committed, and answers a Logout only after the checkpoint is gone.
THEOREM CommitsBeforeReplies == Spec => []CommittedBeforeReply
  <1>1. IInv => CommittedBeforeReply
    BY Zenon DEF IInv, TerminalInv, ExchangeProgress, CommittedBeforeReply,
       At
  <1> QED
    BY <1>1, Invariance, PTL

\* Only authenticated sessions are online, in every reachable state.
LEMMA OnlineInvariance == Spec => []OnlineInv
  <1>1. Init => OnlineInv
    BY InitAgrees, Zenon
  <1>2. IInv /\ OnlineInv /\ [Next]_vars => OnlineInv'
    BY NextAgrees, Zenon
  <1> QED
    BY <1>1, <1>2, Invariance, PTL DEF Spec

\* When the handlers learn the outcome of the commits of AuthInfo and of the
\* rotation, memory and database agree between exchanges on every
\* authenticated session, whatever other call fails or fails ambiguously and
\* whenever the process stops.
THEOREM CheckpointsMatch ==
  ASSUME RowOutcomesKnown
  PROVE Spec => []CheckpointMatchesSession
  <1>1. Init => RowInv
    BY InitAgrees, Zenon
  <1>2. IInv /\ OnlineInv /\ RowInv /\ [Next]_vars => RowInv'
    BY NextAgrees, Zenon
  <1>3. IInv /\ RowInv => CheckpointMatchesSession
    <2> SUFFICES ASSUME IInv, RowInv, NEW t \in Terminals, At(t, "free"),
                        sessions[t].auth
                 PROVE checkpoint[t] = PersistentState(t, sessions[t])
      BY Zenon DEF CheckpointMatchesSession
    <2>1. CheckpointOf(checkpoint[t], sessions[t], config[t])
      BY Zenon DEF RowInv, RowAsHeld, At
    <2>2. checkpoint[t] \in Checkpoint
      BY Zenon DEF IInv, TypeOK
    <2> QED
      BY <2>1, <2>2, Zenon DEF CheckpointOf, Checkpoint, PersistentState
  <1> QED
    BY <1>1, <1>2, <1>3, Invariance, OnlineInvariance, PTL DEF Spec

\* When the handlers learn the outcome of the transitions that leave "online",
\* a session that the process counts as online is shown as online.
THEOREM OnlineIsShown ==
  ASSUME StatusOutcomesKnown
  PROVE Spec => []OnlineSessionIsShownOnline
  <1>1. Init => StatusInv
    BY InitAgrees, Zenon
  <1>2. IInv /\ OnlineInv /\ StatusInv /\ [Next]_vars => StatusInv'
    BY NextAgrees, Zenon
  <1>3. StatusInv => OnlineSessionIsShownOnline
    BY Zenon DEF StatusInv, ShownAsHeld, OnlineSessionIsShownOnline
  <1> QED
    BY <1>1, <1>2, <1>3, Invariance, OnlineInvariance, PTL DEF Spec

\* pushsdk_sessions_active is never below the number of online sessions,
\* whatever call fails or fails ambiguously.
THEOREM GaugeCovers == Spec => []GaugeCoversOnline
  <1>1. Init => GaugeInv
    BY InitAgrees, Zenon
  <1>2. IInv /\ OnlineInv /\ GaugeInv /\ [Next]_vars => GaugeInv'
    BY NextAgrees, Zenon
  <1>3. IInv /\ GaugeInv => GaugeCoversOnline
    <2> SUFFICES ASSUME IInv, GaugeInv PROVE GaugeCoversOnline
      BY Zenon
    <2>1. OnlineSessions \subseteq Counted /\ Counted \subseteq Terminals
      BY Zenon DEF OnlineSessions, Counted, CountedAt
    <2>2. IsFiniteSet(Counted)
      BY <2>1, TerminalsAssumption, FS_Subset, Zenon
    <2>3. /\ Cardinality(OnlineSessions) \in Nat /\ Cardinality(Counted) \in Nat
          /\ Cardinality(OnlineSessions) <= Cardinality(Counted)
      BY <2>1, <2>2, FS_Subset, FS_CardinalityType, Zenon
    <2> QED
      BY <2>3 DEF IInv, TypeOK, GaugeInv, GaugeCoversOnline
  <1> QED
    BY <1>1, <1>2, <1>3, Invariance, OnlineInvariance, PTL DEF Spec

\* pushsdk_sessions_active counts the online sessions between exchanges as long
\* as restoreReplacedSession succeeds, whatever other call fails or fails
\* ambiguously and whenever the process stops: its failure, after a failed
\* transition, is the only way for the gauge to drift.
THEOREM GaugeIsExact ==
  ASSUME ReplacementIsUndone
  PROVE Spec => []GaugeCountsOnline
  <1>1. Init => GaugeInv
    BY InitAgrees, Zenon
  <1>2. IInv /\ OnlineInv /\ GaugeInv /\ [Next]_vars => GaugeInv'
    BY NextAgrees, Zenon
  <1>3. GaugeInv => GaugeCountsOnline
    <2> SUFFICES ASSUME GaugeInv, \A t \in Terminals : exchange[t].step = "free"
                 PROVE gauge = Cardinality(OnlineSessions)
      BY Zenon DEF GaugeCountsOnline
    <2>1. \A t \in Terminals : exchange[t].step \notin AuthInfoSteps
      BY DEF AuthInfoSteps
    <2>2. OnlineSessions = Counted
      BY <2>1, Zenon DEF OnlineSessions, Counted, CountedAt
    <2> QED
      BY <2>2, Zenon DEF GaugeInv
  <1> QED
    BY <1>1, <1>2, <1>3, Invariance, OnlineInvariance, PTL DEF Spec

-----------------------------------------------------------------------------
(* A handshake is completed once.                                          *)

\* The handshake at a terminal, and the next one, are open after a step.
StaysOpen(t) ==
  HandshakeOpen(sessions'[t], exchange'[t], checkpoint'[t], loggedIn'[t])

\* What a step may use of the terminal before it.
LEMMA OpenAt ==
  ASSUME IInv, HandshakeInv, NEW t \in Terminals
  PROVE /\ TypeOK /\ sessions[t] \in Session /\ exchange[t].prev \in Session
        /\ HandshakeOpen(sessions[t], exchange[t], checkpoint[t], loggedIn[t])
        /\ ExchangeProgress(sessions[t], exchange[t], checkpoint[t])
        /\ fresh[t] > loggedIn[t]
  <1>1. fresh[t] \in Nat /\ loggedIn[t] \in Nat /\ loggedIn[t] < fresh[t]
    BY Zenon DEF IInv, TypeOK, HandshakeInv
  <1>2. fresh[t] > loggedIn[t]
    BY <1>1
  <1> QED
    BY <1>2, Zenon DEF IInv, TypeOK, Exchange, TerminalInv, HandshakeInv

\* The requests of the terminal: AuthInfo opens a new handshake.
LEMMA RequestOpen ==
  ASSUME IInv, HandshakeInv, NEW t \in Terminals, TerminalStep(t)
  PROVE StaysOpen(t)
  <1> DEFINE s == sessions[t]  e == exchange[t]  c == checkpoint[t]
             l == loggedIn[t]  f == fresh[t]
             s1 == sessions'[t]  e1 == exchange'[t]  c1 == checkpoint'[t]
             l1 == loggedIn'[t]
  <1>1. /\ TypeOK /\ s \in Session /\ HandshakeOpen(s, e, c, l) /\ f > l
    BY OpenAt, Zenon
  <1>2. e.step = "free" /\ c1 = c /\ l1 = l
    BY Zenon DEF TerminalStep, AuthInfo, Login, Request, At, durable, history
  <1>3. \/ e1.step = "authinfo" /\ e1.prev = s /\ s1.login = f
        \/ e1.step = "login" /\ s # NoSession /\ ~s.auth /\ s1.login = s.login
        \/ e1.step \in {"handle", "resume"} /\ s1.auth
    <2>1. CASE AuthInfo(t)
      <3>1. e1.step = "authinfo" /\ e1.prev = s
        BY <1>1, <2>1, HoldFields, Zenon DEF AuthInfo
      <3>2. s1 = [NoSession EXCEPT !.login = f]
        BY <1>1, <2>1, Zenon DEF AuthInfo, TypeOK
      <3>3. s1.login = f
        BY <3>2, Zenon DEF NoSession
      <3> QED
        BY <3>1, <3>3, Zenon
    <2>2. CASE Login(t)
      <3>1. e1.step = "login" /\ s # NoSession /\ ~s.auth
        BY <1>1, <2>2, HoldFields, Zenon DEF Login
      <3>2. s1 = [s EXCEPT !.next = f, !.auth = TRUE]
        BY <1>1, <2>2, Zenon DEF Login, TypeOK, Session
      <3>3. s1.login = s.login
        BY <1>1, <3>2, Zenon DEF Session
      <3> QED
        BY <3>1, <3>3, Zenon
    <2>3. ASSUME NEW action \in {"Exchange", "Logout"}, Request(t, action)
          PROVE e1.step \in {"handle", "resume"} /\ s1.auth
      <3>1. e1.step = IF s.online THEN "handle" ELSE "resume"
        BY <1>1, <2>3, HoldFields, Zenon DEF Request
      <3> QED
        BY <2>3, <3>1, Zenon DEF Request
    <2> QED
      BY <2>1, <2>2, <2>3, Zenon DEF TerminalStep
  <1> HIDE DEF s, e, c, l, f, s1, e1, c1, l1
  <1>4. HandshakeOpen(s1, e1, c1, l1)
    BY <1>1, <1>2, <1>3 DEF HandshakeOpen, AuthInfoSteps, LoginSteps
  <1> QED
    BY <1>4, Zenon DEF StaysOpen, s1, e1, c1, l1

\* The steps of AuthInfo move the new handshake and the replaced session.
LEMMA AuthInfoOpen ==
  ASSUME IInv, HandshakeInv, NEW t \in Terminals,
         AuthInfoPersist(t) \/ AuthInfoTransition(t) \/ AuthInfoRestore(t)
  PROVE StaysOpen(t)
  <1> DEFINE s == sessions[t]  e == exchange[t]  c == checkpoint[t]
             k == config[t]  l == loggedIn[t]
             s1 == sessions'[t]  e1 == exchange'[t]  c1 == checkpoint'[t]
             l1 == loggedIn'[t]
  <1>1. /\ TypeOK /\ s \in Session /\ e.prev \in Session
        /\ HandshakeOpen(s, e, c, l) /\ ExchangeProgress(s, e, c)
    BY OpenAt, Zenon
  <1>2. /\ e.step \in AuthInfoSteps /\ l1 = l
        /\ s1 = s \/ (s1 = e.prev /\ e1 = Free)
        /\ \/ c1 = c \/ c1 = NoCheckpoint \/ CheckpointOf(c1, s, k)
           \/ CheckpointOf(c1, e.prev, k) /\ e.prev # NoSession
        /\ \/ e1 = Free \/ e1.step = "reply"
           \/ e1.step \in AuthInfoSteps /\ e1.prev = e.prev
    <2>1. e.step \in AuthInfoSteps /\ l1 = l
      BY Zenon DEF AuthInfoPersist, AuthInfoTransition, AuthInfoRestore, At,
         AuthInfoSteps, history
    <2>2. CASE AuthInfoPersist(t)
      <3>1. PICK o : /\ UpsertPushSDKSession(t, sessions[t], o)
                     /\ \/ Advance(t, "authinfo_transition") /\ UNCHANGED sessions
                        \/ /\ sessions' = [sessions EXCEPT ![t] = exchange[t].prev]
                           /\ Release(t)
        BY <2>2, Zenon DEF AuthInfoPersist
      <3>2. c1 = c \/ CheckpointOf(c1, s, k)
        BY <1>1, <3>1, UpsertRow, Zenon
      <3>3. \/ s1 = s /\ e1.step = "authinfo_transition" /\ e1.prev = e.prev
            \/ s1 = e.prev /\ e1 = Free
        BY <1>1, <3>1, AdvanceFields, ReleaseFields, Zenon DEF TypeOK
      <3> QED
        BY <2>1, <3>2, <3>3, Zenon DEF AuthInfoSteps
    <2>3. CASE AuthInfoTransition(t)
      <3>1. s1 = s /\ c1 = c
        BY <2>3, Zenon DEF AuthInfoTransition
      <3>2. \/ e1.step = "reply"
            \/ e1.step = "authinfo_restore" /\ e1.prev = e.prev
        BY <1>1, <2>3, AdvanceFields, Zenon DEF AuthInfoTransition
      <3> QED
        BY <2>1, <3>1, <3>2, Zenon DEF AuthInfoSteps
    <2>4. CASE AuthInfoRestore(t)
      <3>1. PICK o : /\ \/ DeletePushSDKSession(t, o)
                        \/ /\ exchange[t].prev # NoSession
                           /\ UpsertPushSDKSession(t, exchange[t].prev, o)
                     /\ \/ sessions' = [sessions EXCEPT ![t] = exchange[t].prev]
                        \/ sessions' = sessions
        BY <2>4, Zenon DEF AuthInfoRestore
      <3>2. \/ c1 = c \/ c1 = NoCheckpoint
            \/ CheckpointOf(c1, e.prev, k) /\ e.prev # NoSession
        <4>1. CASE DeletePushSDKSession(t, o)
          BY <1>1, <4>1, Zenon DEF DeletePushSDKSession, TypeOK
        <4>2. CASE UpsertPushSDKSession(t, exchange[t].prev, o)
                   /\ exchange[t].prev # NoSession
          BY <1>1, <4>2, UpsertRow, Zenon
        <4> QED
          BY <3>1, <4>1, <4>2, Zenon
      <3>3. (s1 = s \/ s1 = e.prev) /\ e1 = Free
        BY <1>1, <2>4, <3>1, ReleaseFields, Zenon DEF AuthInfoRestore, TypeOK
      <3> QED
        BY <2>1, <3>2, <3>3, Zenon
    <2> QED
      BY <2>2, <2>3, <2>4, Zenon
  <1> HIDE DEF s, e, c, k, l, s1, e1, c1, l1
  <1>3. /\ s # NoSession /\ ~s.auth /\ s.login > l
        /\ e.prev # NoSession /\ ~e.prev.auth => e.prev.login > l
        /\ c # NoCheckpoint /\ ~c.auth => c.login > l
    BY <1>1, <1>2 DEF HandshakeOpen, ExchangeProgress, AuthInfoSteps, LoginSteps
  <1>4. c1 # NoCheckpoint /\ ~c1.auth => c1.login > l1
    BY <1>2, <1>3, Zenon DEF CheckpointOf
  <1>5. s1 # NoSession /\ ~s1.auth => s1.login > l1
    BY <1>2, <1>3, Zenon
  <1>6. e1.step \notin LoginSteps
    BY <1>2, Empty DEF AuthInfoSteps, LoginSteps
  <1>7. e1.step \in AuthInfoSteps /\ e1.prev # NoSession /\ ~e1.prev.auth
          => e1.prev.login > l1
    <2>1. CASE e1 = Free \/ e1.step = "reply"
      BY <2>1, Empty DEF AuthInfoSteps
    <2>2. CASE e1.prev = e.prev
      BY <1>2, <1>3, <2>2, Zenon
    <2> QED
      BY <1>2, <2>1, <2>2, Zenon
  <1>8. HandshakeOpen(s1, e1, c1, l1)
    BY <1>4, <1>5, <1>6, <1>7, Zenon DEF HandshakeOpen
  <1> QED
    BY <1>8, Zenon DEF StaysOpen, s1, e1, c1, l1

\* The steps of Login: a handshake that completes leaves no open copy behind.
LEMMA LoginOpen ==
  ASSUME IInv, HandshakeInv, NEW t \in Terminals,
         LoginPersist(t) \/ LoginTransition(t) \/ LoginRestore(t)
  PROVE StaysOpen(t)
  <1> DEFINE s == sessions[t]  e == exchange[t]  c == checkpoint[t]
             k == config[t]  l == loggedIn[t]
             s1 == sessions'[t]  e1 == exchange'[t]  c1 == checkpoint'[t]
             l1 == loggedIn'[t]
  <1>1. /\ TypeOK /\ s \in Session
        /\ HandshakeOpen(s, e, c, l) /\ ExchangeProgress(s, e, c)
    BY OpenAt, Zenon
  <1>2. /\ e.step \in LoginSteps /\ s1.login = s.login
        /\ e1 = Free \/ e1.step \in LoginSteps \cup {"reply"}
        /\ \/ l1 = l /\ (c1 = c \/ CheckpointOf(c1, s, k))
           \/ c1 = c /\ c.auth /\ s1.auth /\ e1.step = "reply"
    <2>1. CASE LoginPersist(t)
      <3>1. e.step \in LoginSteps /\ l1 = l
        BY <2>1, Zenon DEF LoginPersist, At, LoginSteps, history
      <3>2. PICK o : /\ UpsertPushSDKSession(t, sessions[t], o)
                     /\ \/ Advance(t, "login_transition") /\ UNCHANGED sessions
                        \/ RevertLogin(t) /\ Release(t)
        BY <2>1, Zenon DEF LoginPersist
      <3>3. c1 = c \/ CheckpointOf(c1, s, k)
        BY <1>1, <3>2, UpsertRow, Zenon
      <3>4. s1.login = s.login /\ (e1 = Free \/ e1.step = "login_transition")
        BY <1>1, <3>2, AdvanceFields, ReleaseFields, RevertLoginFields, Zenon
      <3> QED
        BY <3>1, <3>3, <3>4, Zenon DEF LoginSteps
    <2>2. CASE LoginTransition(t)
      <3>1. e.step = "login_transition" /\ c1 = c
        BY <2>2, Zenon DEF LoginTransition, At
      <3>2. c.auth /\ s.auth
        BY <1>1, <3>1, Zenon DEF ExchangeProgress, LoginSteps
      <3>3. \/ sessions' = [sessions EXCEPT ![t].online = TRUE] /\ Advance(t, "reply")
            \/ RevertLogin(t) /\ Advance(t, "login_restore") /\ UNCHANGED loggedIn
        BY <2>2, Zenon DEF LoginTransition
      <3>4. CASE sessions' = [sessions EXCEPT ![t].online = TRUE]
                 /\ Advance(t, "reply")
        <4>1. s1.login = s.login /\ s1.auth = s.auth
          BY <1>1, <3>4, OnlineFields, Zenon
        <4>2. e1.step = "reply"
          BY <1>1, <3>4, AdvanceFields, Zenon
        <4> QED
          BY <3>1, <3>2, <4>1, <4>2, Zenon DEF LoginSteps
      <3>5. CASE RevertLogin(t) /\ Advance(t, "login_restore") /\ UNCHANGED loggedIn
        <4>1. s1.login = s.login /\ e1.step = "login_restore" /\ l1 = l
          BY <1>1, <3>5, AdvanceFields, RevertLoginFields, Zenon
        <4> QED
          BY <3>1, <4>1, Zenon DEF LoginSteps
      <3> QED
        BY <3>3, <3>4, <3>5, Zenon
    <2>3. CASE LoginRestore(t)
      <3>1. e.step \in LoginSteps /\ l1 = l /\ s1 = s
        BY <2>3, Zenon DEF LoginRestore, At, LoginSteps, history
      <3>2. c1 = c \/ CheckpointOf(c1, s, k)
        BY <1>1, <2>3, UpsertRow, Zenon DEF LoginRestore
      <3>3. e1 = Free
        BY <1>1, <2>3, ReleaseFields, Zenon DEF LoginRestore
      <3> QED
        BY <3>1, <3>2, <3>3, Zenon
    <2> QED
      BY <2>1, <2>2, <2>3, Zenon
  <1> HIDE DEF s, e, c, k, l, s1, e1, c1, l1
  <1>3. s.login > l /\ (c # NoCheckpoint /\ ~c.auth => c.login > l)
    BY <1>1, <1>2 DEF HandshakeOpen, ExchangeProgress, LoginSteps
  <1>4. e1.step \notin AuthInfoSteps
    BY <1>2, Empty DEF AuthInfoSteps, LoginSteps
  <1>5. ASSUME l1 = l PROVE HandshakeOpen(s1, e1, c1, l1)
    BY <1>2, <1>3, <1>4, <1>5, Zenon DEF HandshakeOpen, CheckpointOf
  <1>6. ASSUME c1 = c, c.auth, s1.auth, e1.step = "reply"
        PROVE HandshakeOpen(s1, e1, c1, l1)
    <2>1. e1.step \notin LoginSteps
      BY <1>6 DEF LoginSteps
    <2> QED
      BY <1>4, <1>6, <2>1, Zenon DEF HandshakeOpen
  <1>7. HandshakeOpen(s1, e1, c1, l1)
    BY <1>2, <1>5, <1>6, Zenon
  <1> QED
    BY <1>7, Zenon DEF StaysOpen, s1, e1, c1, l1

\* The exchanges of an authenticated session, and a Logout that can delete its
\* row, leave no handshake that was completed.
LEMMA ExchangeOpen ==
  ASSUME LogoutIsFinal, IInv, HandshakeInv, NEW t \in Terminals,
         \/ Resume(t) \/ Reject(t) \/ Handle(t) \/ Rotate(t)
         \/ Logout(t) \/ LogoutDelete(t) \/ Reply(t)
  PROVE StaysOpen(t)
  <1> DEFINE s == sessions[t]  e == exchange[t]  c == checkpoint[t]
             k == config[t]  l == loggedIn[t]
             s1 == sessions'[t]  e1 == exchange'[t]  c1 == checkpoint'[t]
             l1 == loggedIn'[t]
  <1>1. /\ TypeOK /\ s \in Session
        /\ HandshakeOpen(s, e, c, l) /\ ExchangeProgress(s, e, c)
    BY OpenAt, Zenon
  <1>2. /\ e.step \in {"resume", "handle", "rotate", "logout_delete", "reply"}
        /\ l1 = l
    BY Zenon DEF Resume, Reject, Handle, Rotate, Logout, LogoutDelete, Reply, At,
       history
  <1>3. /\ e1 = Free \/ e1.step \in {"handle", "rotate", "logout_delete", "reply"}
        /\ \/ s1.auth \/ s1 = NoSession \/ e1.step = "logout_delete"
           \/ s1 = s /\ e.step = "reply"
        /\ c1 = c \/ c1 = NoCheckpoint \/ c1.auth
    <2>1. e.step \in {"resume", "handle", "rotate"} => s.auth
      BY <1>1, Zenon DEF ExchangeProgress
    <2>2. CASE Resume(t)
      <3>1. s.auth /\ c1 = c
        BY <2>1, <2>2, Zenon DEF Resume, At
      <3>2. s1.auth = s.auth
        BY <1>1, <2>2, OnlineFields, Zenon DEF Resume
      <3>3. e1 = Free \/ e1.step = "handle"
        BY <1>1, <2>2, AdvanceFields, ReleaseFields, Zenon DEF Resume
      <3> QED
        BY <3>1, <3>2, <3>3, Zenon
    <2>3. CASE Reject(t) \/ Reply(t)
      <3>1. s1 = s /\ c1 = c /\ (s.auth \/ e.step = "reply")
        BY <2>1, <2>3, Zenon DEF Reject, Reply, At, durable
      <3>2. e1 = Free
        BY <1>1, <2>3, ReleaseFields, Zenon DEF Reject, Reply
      <3> QED
        BY <3>1, <3>2, Zenon
    <2>4. CASE Handle(t)
      <3>1. s.auth /\ c1 = c
        BY <2>1, <2>4, Zenon DEF Handle, At, durable
      <3>2. s1 = [s EXCEPT !.next = fresh[t]]
        BY <1>1, <2>4, Zenon DEF Handle, TypeOK, Session
      <3>3. s1.auth
        BY <1>1, <3>1, <3>2, Zenon DEF Session
      <3>4. e1.step = "rotate"
        BY <1>1, <2>4, HoldFields, Zenon DEF Handle
      <3> QED
        BY <3>1, <3>3, <3>4, Zenon
    <2>5. CASE Rotate(t)
      <3>1. s.auth
        BY <2>1, <2>5, Zenon DEF Rotate, At
      <3>2. PICK o : /\ UpsertPushSDKSession(t, sessions[t], o)
                     /\ \/ Advance(t, "reply") /\ UNCHANGED sessions
                        \/ /\ sessions' = [sessions EXCEPT
                                             ![t].next = exchange[t].prev.next]
                           /\ Release(t)
        BY <2>5, Zenon DEF Rotate
      <3>3. c1 = c \/ c1.auth
        BY <1>1, <3>1, <3>2, UpsertRow, Zenon DEF CheckpointOf
      <3>4. s1.auth
        <4>1. s1 = s \/ s1 = [s EXCEPT !.next = e.prev.next]
          BY <1>1, <3>2, Zenon DEF TypeOK, Session
        <4> QED
          BY <1>1, <3>1, <4>1, Zenon DEF Session
      <3>5. e1 = Free \/ e1.step = "reply"
        BY <1>1, <3>2, AdvanceFields, ReleaseFields, Zenon
      <3> QED
        BY <3>3, <3>4, <3>5, Zenon
    <2>6. CASE Logout(t)
      <3>1. s.auth /\ c1 = c
        BY <2>1, <2>6, Zenon DEF Logout, At
      <3>2. \/ Hold(t, "Logout", "logout_delete", sessions[t], fresh[t])
            \/ Release(t) /\ UNCHANGED sessions
        BY <2>6, Zenon DEF Logout
      <3>3. e1.step = "logout_delete" \/ (e1 = Free /\ s1 = s)
        <4>1. CASE Hold(t, "Logout", "logout_delete", sessions[t], fresh[t])
          BY <1>1, <4>1, HoldFields, Zenon
        <4>2. CASE Release(t) /\ UNCHANGED sessions
          BY <1>1, <4>2, ReleaseFields, Zenon
        <4> QED
          BY <3>2, <4>1, <4>2, Zenon
      <3> QED
        BY <3>1, <3>3, Zenon
    <2>7. CASE LogoutDelete(t)
      <3>1. Outcomes("logout_delete") = {"ok"}
        BY Zenon DEF LogoutIsFinal, Outcomes
      <3>2. /\ DeletePushSDKSession(t, "ok") /\ Advance(t, "reply")
            /\ sessions' = [sessions EXCEPT ![t] = NoSession]
        BY <2>7, <3>1, Zenon DEF LogoutDelete
      <3>3. Applied("ok")
        BY Zenon DEF Applied
      <3>4. c1 = NoCheckpoint /\ s1 = NoSession
        BY <1>1, <3>2, <3>3, Zenon DEF DeletePushSDKSession, TypeOK
      <3>5. e1.step = "reply"
        BY <1>1, <3>2, AdvanceFields, Zenon
      <3> QED
        BY <3>4, <3>5, Zenon
    <2> QED
      BY <2>2, <2>3, <2>4, <2>5, <2>6, <2>7, Zenon
  <1> HIDE DEF s, e, c, k, l, s1, e1, c1, l1
  <1>4. e1.step \notin AuthInfoSteps \cup LoginSteps
    BY <1>3, Empty DEF AuthInfoSteps, LoginSteps
  <1>5. /\ c # NoCheckpoint /\ ~c.auth => c.login > l
        /\ e.step = "reply" /\ s # NoSession /\ ~s.auth => s.login > l
    BY <1>1 DEF HandshakeOpen
  <1>6. HandshakeOpen(s1, e1, c1, l1)
    BY <1>2, <1>3, <1>4, <1>5, Zenon DEF HandshakeOpen
  <1> QED
    BY <1>6, Zenon DEF StaysOpen, s1, e1, c1, l1

\* The sweep and the clock.
LEMMA SweepOpen ==
  ASSUME IInv, HandshakeInv, NEW t \in Terminals, MaintenanceStep(t) \/ TimeStep(t)
  PROVE StaysOpen(t)
  <1> DEFINE s == sessions[t]  e == exchange[t]  c == checkpoint[t]
             l == loggedIn[t]
             s1 == sessions'[t]  e1 == exchange'[t]  c1 == checkpoint'[t]
             l1 == loggedIn'[t]
  <1>1. TypeOK /\ s \in Session /\ HandshakeOpen(s, e, c, l)
    BY OpenAt, Zenon
  <1>2. CASE TimeStep(t)
    BY <1>1, <1>2, Zenon DEF TimeStep, LoginDeadlinePasses, IdleTimeoutPasses,
       volatile, durable, history, StaysOpen
  <1>3. CASE MaintenanceStep(t)
    <2>1. e1 = e /\ e.step = "free" /\ l1 = l
      BY <1>3, Zenon DEF MaintenanceStep, MarkSessionIdle, ExpireLoginChallenge, At,
         history
    <2>2. /\ s1 = s \/ s1 = NoSession \/ s1.auth
          /\ c1 = c \/ c1 = NoCheckpoint
      <3>1. CASE MarkSessionIdle(t)
        <4>1. s1 = s \/ s1.auth = s.auth
          BY <1>1, <3>1, OnlineFields, Zenon DEF MarkSessionIdle
        <4> QED
          BY <3>1, <4>1, Zenon DEF MarkSessionIdle
      <3>2. CASE ExpireLoginChallenge(t)
        <4>1. s1 = s \/ s1 = NoSession
          BY <1>1, <3>2, Zenon DEF ExpireLoginChallenge, TypeOK
        <4>2. c1 = c \/ c1 = NoCheckpoint
          <5>1. PICK o : DeletePushSDKSession(t, o)
            BY <3>2, Zenon DEF ExpireLoginChallenge
          <5> QED
            BY <1>1, <5>1, Zenon DEF DeletePushSDKSession, TypeOK
        <4> QED
          BY <4>1, <4>2, Zenon
      <3> QED
        BY <1>3, <3>1, <3>2, Zenon DEF MaintenanceStep
    <2> HIDE DEF s, e, c, l, s1, e1, c1, l1
    <2>3. e1.step \notin AuthInfoSteps \cup LoginSteps
      BY <2>1 DEF AuthInfoSteps, LoginSteps
    <2>4. /\ c # NoCheckpoint /\ ~c.auth => c.login > l
          /\ s # NoSession /\ ~s.auth => s.login > l
      BY <1>1, <2>1 DEF HandshakeOpen
    <2>5. HandshakeOpen(s1, e1, c1, l1)
      BY <2>1, <2>2, <2>3, <2>4, Zenon DEF HandshakeOpen
    <2> QED
      BY <2>5, Zenon DEF StaysOpen, s1, e1, c1, l1
  <1> QED
    BY <1>2, <1>3, Zenon

\* A start and a stop: what is restored was open in its row.
LEMMA ProcessOpen ==
  ASSUME IInv, HandshakeInv, NEW t \in Terminals,
         Crash \/ Boot \/ RestoreSessions \/ RestoreAborted
  PROVE StaysOpen(t)
  <1> DEFINE s == sessions[t]  e == exchange[t]  c == checkpoint[t]
             l == loggedIn[t]
             s1 == sessions'[t]  e1 == exchange'[t]  c1 == checkpoint'[t]
             l1 == loggedIn'[t]
  <1>1. /\ TypeOK /\ HandshakeOpen(s, e, c, l)
        /\ ~Running => s = NoSession /\ e = Free
    BY OpenAt, Zenon DEF IInv, TerminalInv, VolatileOnlyWhileRunning
  <1>2. l1 = l
    BY Zenon DEF Crash, Boot, RestoreSessions, RestoreAborted, history
  <1>3. /\ e1 = Free /\ (c1 = c \/ c1 = NoCheckpoint)
        /\ \/ s1 = NoSession
           \/ /\ c1 = c /\ s1.auth = c.auth /\ s1.login = c.login
              /\ c = NoCheckpoint => s1 = NoSession
    <2>1. CASE Crash
      BY <2>1, Zenon DEF Crash, durable
    <2>2. CASE Boot \/ RestoreAborted
      <3>1. ~Running
        BY <2>2 DEF Boot, RestoreAborted, Running
      <3>2. s1 = s /\ e1 = e /\ (c1 = c \/ c1 = NoCheckpoint)
        BY <2>2, Zenon DEF Boot, RestoreAborted
      <3> QED
        BY <1>1, <3>1, <3>2, Zenon
    <2>3. CASE RestoreSessions
      <3>1. ~Running
        BY <2>3 DEF RestoreSessions, Running
      <3>2. /\ e1 = e
            /\ \/ s1 = NoSession /\ c1 = NoCheckpoint
               \/ /\ c1 = c
                  /\ s1 = [login |-> c.login, next |-> c.next, auth |-> c.auth,
                           online |-> FALSE]
        BY <2>3, Zenon DEF RestoreSessions
      <3>3. c = NoCheckpoint =>
              [login |-> c.login, next |-> c.next, auth |-> c.auth,
               online |-> FALSE] = NoSession
        BY SMT DEF NoCheckpoint, NoSession
      <3>4. LET n == [login |-> c.login, next |-> c.next, auth |-> c.auth,
                      online |-> FALSE]
            IN  n.auth = c.auth /\ n.login = c.login
        BY Zenon
      <3> HIDE DEF s1, e1, c1, c
      <3> QED
        BY <1>1, <3>1, <3>2, <3>3, <3>4, Zenon
    <2> QED
      BY <2>1, <2>2, <2>3, Zenon
  <1> HIDE DEF s, e, c, l, s1, e1, c1, l1
  <1>4. e1.step \notin AuthInfoSteps \cup LoginSteps
    BY <1>3, Empty DEF AuthInfoSteps, LoginSteps
  <1>5. c # NoCheckpoint /\ ~c.auth => c.login > l
    BY <1>1, Zenon DEF HandshakeOpen
  <1>6. HandshakeOpen(s1, e1, c1, l1)
    BY <1>2, <1>3, <1>4, <1>5, Zenon DEF HandshakeOpen
  <1> QED
    BY <1>6, Zenon DEF StaysOpen, s1, e1, c1, l1

\* The sessions that logged in were drawn before.
LEMMA LoggedInDrawn ==
  ASSUME IInv, IInv', HandshakeInv, Next, NEW t \in Terminals
  PROVE loggedIn'[t] < fresh'[t]
  <1>1. /\ fresh[t] \in Nat /\ loggedIn[t] \in Nat /\ sessions[t].login \in Nat
        /\ sessions[t].login < fresh[t] /\ loggedIn[t] < fresh[t]
        /\ TypeOK /\ fresh'[t] \in Nat
    BY TypedAt, Zenon DEF IInv, TypeOK, TerminalInv, IdsDrawn, HandshakeInv, Typed
  <1>2. \/ loggedIn' = loggedIn
        \/ \E u \in Terminals :
             LoginTransition(u)
             /\ loggedIn' = [loggedIn EXCEPT ![u] = sessions[u].login]
    <2>1. ASSUME NEW u \in Terminals, TerminalStep(u) \/ MaintenanceStep(u)
                                      \/ TimeStep(u)
          PROVE loggedIn' = loggedIn
      BY <2>1, Zenon DEF TerminalStep, MaintenanceStep, TimeStep, AuthInfo, Login,
         Request, MarkSessionIdle, ExpireLoginChallenge, LoginDeadlinePasses,
         IdleTimeoutPasses, history
    <2>2. ASSUME NEW u \in Terminals, ExchangeStep(u), ~LoginTransition(u)
          PROVE loggedIn' = loggedIn
      BY <2>2, Zenon DEF ExchangeStep, AuthInfoPersist, AuthInfoTransition,
         AuthInfoRestore, LoginPersist, LoginRestore, Resume, Reject, Handle,
         Rotate, Logout, LogoutDelete, Reply, history
    <2>3. ASSUME NEW u \in Terminals, LoginTransition(u)
          PROVE \/ loggedIn' = loggedIn
                \/ loggedIn' = [loggedIn EXCEPT ![u] = sessions[u].login]
      BY <2>3, Zenon DEF LoginTransition
    <2>4. CASE Crash \/ Boot \/ RestoreSessions \/ RestoreAborted
      BY <2>4, Zenon DEF Crash, Boot, RestoreSessions, RestoreAborted, history
    <2> QED
      BY <2>1, <2>2, <2>3, <2>4, Zenon DEF Next
  <1>3. loggedIn'[t] = loggedIn[t] \/ loggedIn'[t] = sessions[t].login
    BY <1>1, <1>2, Zenon DEF TypeOK
  <1>4. fresh' = fresh \/ \E u \in Terminals : Draw(u)
    <2>1. ASSUME NEW u \in Terminals, TerminalStep(u) \/ MaintenanceStep(u)
                                      \/ TimeStep(u)
          PROVE fresh' = fresh \/ Draw(u)
      BY <2>1, Zenon DEF TerminalStep, MaintenanceStep, TimeStep, AuthInfo, Login,
         Request, MarkSessionIdle, ExpireLoginChallenge, LoginDeadlinePasses,
         IdleTimeoutPasses, clocks
    <2>2. ASSUME NEW u \in Terminals, ExchangeStep(u)
          PROVE fresh' = fresh \/ Draw(u)
      <3>1. CASE \/ AuthInfoPersist(u) \/ AuthInfoTransition(u)
                 \/ AuthInfoRestore(u) \/ LoginPersist(u) \/ LoginTransition(u)
                 \/ LoginRestore(u)
        BY <3>1, Zenon DEF AuthInfoPersist, AuthInfoTransition, AuthInfoRestore,
           LoginPersist, LoginTransition, LoginRestore, clocks
      <3>2. CASE \/ Resume(u) \/ Reject(u) \/ Handle(u) \/ Rotate(u)
                 \/ LogoutDelete(u) \/ Reply(u)
        BY <3>2, Zenon DEF Resume, Reject, Handle, Rotate, LogoutDelete, Reply,
           clocks
      <3>3. CASE Logout(u)
        BY <3>3, Zenon DEF Logout
      <3> QED
        BY <2>2, <3>1, <3>2, <3>3, Zenon DEF ExchangeStep
    <2>3. CASE Crash \/ Boot \/ RestoreSessions \/ RestoreAborted
      BY <2>3, Zenon DEF Crash, Boot, RestoreSessions, RestoreAborted, clocks
    <2> QED
      BY <2>1, <2>2, <2>3, Zenon DEF Next
  <1>5. fresh'[t] = fresh[t] \/ fresh'[t] = fresh[t] + 1
    BY <1>1, <1>4, Zenon DEF TypeOK, Draw
  <1> QED
    BY <1>1, <1>3, <1>5

\* Every step keeps the open handshakes open.
LEMMA HandshakeStep ==
  ASSUME LogoutIsFinal, IInv, IInv', HandshakeInv, [Next]_vars
  PROVE HandshakeInv'
  <1>1. CASE UNCHANGED vars
    BY <1>1, Zenon DEF vars, HandshakeInv
  <1>2. CASE Next
    <2>1. ASSUME NEW t \in Terminals PROVE StaysOpen(t)
      <3>1. ASSUME NEW u \in Terminals,
                   TerminalStep(u) \/ ExchangeStep(u) \/ MaintenanceStep(u)
                     \/ TimeStep(u)
            PROVE StaysOpen(t)
        <4>1. CASE u = t
          BY <3>1, <4>1, RequestOpen, AuthInfoOpen, LoginOpen, ExchangeOpen,
             SweepOpen, Zenon DEF ExchangeStep
        <4>2. CASE u # t
          <5>1. /\ sessions'[t] = sessions[t] /\ exchange'[t] = exchange[t]
                /\ checkpoint'[t] = checkpoint[t]
            BY <3>1, <4>2, OthersUntouched, Zenon DEF IInv
          <5>2. loggedIn'[t] = loggedIn[t]
            BY <3>1, <4>2, OthersUntouched, Zenon DEF IInv
          <5> QED
            BY <5>1, <5>2, Zenon DEF HandshakeInv, StaysOpen
        <4> QED
          BY <4>1, <4>2, Zenon
      <3> QED
        BY <1>2, <3>1, ProcessOpen, Zenon DEF Next
    <2>2. \A t \in Terminals : loggedIn'[t] < fresh'[t]
      BY <1>2, LoggedInDrawn, Zenon
    <2> QED
      BY <2>1, <2>2, Zenon DEF HandshakeInv, StaysOpen
  <1> QED
    BY <1>1, <1>2, Zenon

\* A completed Login cannot be replayed as long as Logout can delete the
\* session row, whatever other call fails or fails ambiguously and whenever the
\* process stops: a Logout whose delete fails is the only way back to a
\* handshake that was completed (login(), removeSession).
THEOREM LoginOnce ==
  ASSUME LogoutIsFinal
  PROVE Spec => []CompletedLoginIsNotReplayed
  <1>1. Init => HandshakeInv
    <2> SUFFICES ASSUME Init, NEW t \in Terminals
                 PROVE /\ loggedIn[t] < fresh[t]
                       /\ HandshakeOpen(sessions[t], exchange[t], checkpoint[t],
                                        loggedIn[t])
      BY Zenon DEF HandshakeInv
    <2>1. /\ sessions[t] = NoSession /\ checkpoint[t] = NoCheckpoint
          /\ exchange[t] = Free /\ loggedIn[t] = 0 /\ fresh[t] = 1
      BY Zenon DEF Init
    <2>2. Free.step \notin AuthInfoSteps
      BY DEF Free, AuthInfoSteps
    <2>3. loggedIn[t] < fresh[t]
      BY <2>1
    <2> QED
      BY <2>1, <2>2, <2>3, Zenon DEF HandshakeOpen
  <1>2. IInv /\ IInv' /\ HandshakeInv /\ [Next]_vars => HandshakeInv'
    BY HandshakeStep, Zenon
  <1>3. IInv /\ HandshakeInv => CompletedLoginIsNotReplayed
    <2> SUFFICES ASSUME IInv, HandshakeInv, NEW t \in Terminals,
                        exchange[t].step = "login"
                 PROVE sessions[t].login > loggedIn[t]
      BY Zenon DEF CompletedLoginIsNotReplayed
    <2>1. sessions[t] # NoSession
      BY Zenon DEF IInv, TerminalInv, ExchangeProgress, LoginSteps
    <2>2. HandshakeOpen(sessions[t], exchange[t], checkpoint[t], loggedIn[t])
      BY Zenon DEF HandshakeInv
    <2> QED
      BY <2>1, <2>2 DEF HandshakeOpen, LoginSteps
  <1> QED
    BY <1>1, <1>2, <1>3, Invariance, PTL DEF Spec
=============================================================================
