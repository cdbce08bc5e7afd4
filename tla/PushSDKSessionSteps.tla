------------------------ MODULE PushSDKSessionSteps -------------------------
(***************************************************************************)
(* Facts about the records and helpers of PushSDKSession, that every       *)
(* action keeps its type invariant, and that every action keeps the        *)
(* inductive invariant at the terminal it is about.                        *)
(***************************************************************************)
EXTENDS PushSDKSession, TLAPS

-----------------------------------------------------------------------------
(* Facts about the records and the helpers.                                *)

\* The empty entry, row and exchange carry nothing.
LEMMA Empty ==
  /\ NoSession.login = 0 /\ NoSession.next = 0 /\ ~NoSession.auth
  /\ ~NoSession.online
  /\ NoCheckpoint.login = 0 /\ NoCheckpoint.next = 0 /\ ~NoCheckpoint.auth
  /\ NoCheckpoint.fingerprint = 0
  /\ Free.step = "free" /\ Free.prev = NoSession
  BY Zenon DEF NoSession, NoCheckpoint, Free

\* The types of the values that describe one terminal.
Typed(s, e, c, k, f, u, r) ==
  /\ s.login \in Nat /\ s.next \in Nat /\ s.auth \in BOOLEAN
  /\ c.login \in Nat /\ c.next \in Nat /\ c.auth \in BOOLEAN
  /\ c.fingerprint \in Nat
  /\ e.prev.login \in Nat /\ e.prev.next \in Nat /\ e.prev.auth \in BOOLEAN
  /\ e.reply \in Nat
  /\ k \in Nat /\ f \in Nat \ {0} /\ u \in Nat /\ r \in Nat

\* What an action of a running process may use about them.
Known(s, e, c, k, f, u, r) ==
  /\ Typed(s, e, c, k, f, u, r)
  /\ IdsDrawn(s, e, c, f, u, r)
  /\ VolatileOnlyWhileRunning(Running, s, e)
  /\ FingerprintInForce(Running, c, k)
  /\ CopiesNotRevoked(s, e, c, k, r)
  /\ CopiesNotUsed(s, e, c, u)
  /\ ExchangeProgress(s, e, c)

\* The type invariant gives the types of one terminal's values.
LEMMA TypedAt ==
  ASSUME TypeOK, NEW t \in Terminals
  PROVE Typed(sessions[t], exchange[t], checkpoint[t], config[t], fresh[t],
              served[t], revoked[t])
  BY Zenon DEF TypeOK, Session, Checkpoint, Exchange, Typed

\* The inductive invariant gives what is known of one terminal's values.
LEMMA KnownAt ==
  ASSUME TypeOK, NEW t \in Terminals, TerminalInv(t)
  PROVE Known(sessions[t], exchange[t], checkpoint[t], config[t], fresh[t],
              served[t], revoked[t])
  BY TypedAt, Zenon DEF Known, TerminalInv

\* Taking the mutex records the exchange.
LEMMA HoldFields ==
  ASSUME TypeOK, NEW t \in Terminals, NEW action, NEW step, NEW prev, NEW reply,
         Hold(t, action, step, prev, reply)
  PROVE /\ exchange'[t].action = action /\ exchange'[t].step = step
        /\ exchange'[t].prev = prev /\ exchange'[t].reply = reply
  BY Zenon DEF TypeOK, Hold

\* Advancing an exchange changes its step alone.
LEMMA AdvanceFields ==
  ASSUME TypeOK, NEW t \in Terminals, NEW step, Advance(t, step)
  PROVE /\ exchange'[t].step = step
        /\ exchange'[t].action = exchange[t].action
        /\ exchange'[t].prev = exchange[t].prev
        /\ exchange'[t].reply = exchange[t].reply
  BY DEF TypeOK, Advance, Exchange

\* Releasing the mutex forgets the exchange.
LEMMA ReleaseFields ==
  ASSUME TypeOK, NEW t \in Terminals, Release(t)
  PROVE exchange'[t] = Free
  BY Zenon DEF TypeOK, Release

\* Undoing a login in memory keeps the handshake.
LEMMA RevertLoginFields ==
  ASSUME TypeOK, NEW t \in Terminals, RevertLogin(t)
  PROVE /\ sessions'[t].login = sessions[t].login
        /\ sessions'[t].next = exchange[t].prev.next
        /\ ~sessions'[t].auth
        /\ sessions'[t].online = sessions[t].online
        /\ sessions' \in [Terminals -> Session]
  <1> DEFINE s == [sessions[t] EXCEPT !.next = exchange[t].prev.next,
                                      !.auth = FALSE]
  <1>1. sessions[t] \in Session /\ exchange[t].prev.next \in Nat
    BY Zenon DEF TypeOK, Session, Exchange
  <1>2. /\ s \in Session /\ s.login = sessions[t].login
        /\ s.next = exchange[t].prev.next /\ ~s.auth
        /\ s.online = sessions[t].online
    BY <1>1, Zenon DEF Session
  <1>3. sessions' = [sessions EXCEPT ![t] = s]
    BY <1>1, Zenon DEF RevertLogin, TypeOK, Session
  <1> QED
    BY <1>2, <1>3, Zenon DEF TypeOK

\* Going online or offline in memory keeps the challenges.
LEMMA OnlineFields ==
  ASSUME TypeOK, NEW t \in Terminals, NEW b \in BOOLEAN,
         sessions' = [sessions EXCEPT ![t].online = b]
  PROVE /\ sessions'[t].login = sessions[t].login
        /\ sessions'[t].next = sessions[t].next
        /\ sessions'[t].auth = sessions[t].auth
        /\ sessions'[t].online = b
        /\ sessions' \in [Terminals -> Session]
  <1> DEFINE s == [sessions[t] EXCEPT !.online = b]
  <1>1. sessions[t] \in Session
    BY Zenon DEF TypeOK
  <1>2. /\ s \in Session /\ s.login = sessions[t].login
        /\ s.next = sessions[t].next /\ s.auth = sessions[t].auth
        /\ s.online = b
    BY <1>1, Zenon DEF Session
  <1>3. sessions' = [sessions EXCEPT ![t] = s]
    BY <1>1, Zenon DEF TypeOK, Session
  <1> QED
    BY <1>2, <1>3, Zenon DEF TypeOK

\* PersistentState copies the session and the fingerprint.
LEMMA PersistentFields ==
  ASSUME TypeOK, NEW t \in Terminals, NEW s \in Session
  PROVE /\ PersistentState(t, s) \in Checkpoint
        /\ CheckpointOf(PersistentState(t, s), s, config[t])
  BY Zenon DEF TypeOK, PersistentState, Checkpoint, Session, CheckpointOf

-----------------------------------------------------------------------------
(* The type invariant.                                                     *)

\* Taking the mutex keeps the type of exchange.
LEMMA HoldType ==
  ASSUME TypeOK, NEW t \in Terminals, NEW action \in Actions,
         NEW step \in Steps, NEW prev \in Session, NEW reply \in Nat,
         Hold(t, action, step, prev, reply)
  PROVE exchange' \in [Terminals -> Exchange]
  BY Zenon DEF TypeOK, Exchange, Hold

\* Advancing an exchange keeps the type of exchange.
LEMMA AdvanceType ==
  ASSUME TypeOK, NEW t \in Terminals, NEW step \in Steps, Advance(t, step)
  PROVE exchange' \in [Terminals -> Exchange]
  <1>1. exchange \in [Terminals -> Exchange]
    BY Zenon DEF TypeOK
  <1>2. exchange' = [exchange EXCEPT ![t] = [exchange[t] EXCEPT !.step = step]]
    BY <1>1, Zenon DEF Advance
  <1>3. [exchange[t] EXCEPT !.step = step] \in Exchange
    BY <1>1, Zenon DEF Exchange
  <1> QED
    BY <1>1, <1>2, <1>3, Zenon

\* Releasing the mutex keeps the type of exchange.
LEMMA ReleaseType ==
  ASSUME TypeOK, NEW t \in Terminals, Release(t)
  PROVE exchange' \in [Terminals -> Exchange]
  BY Zenon DEF TypeOK, Exchange, Release, Free, NoSession, Session, Actions, Steps

\* Drawing a challenge keeps the type of fresh.
LEMMA DrawType ==
  ASSUME TypeOK, NEW t \in Terminals, Draw(t)
  PROVE fresh' \in [Terminals -> Nat \ {0}]
  BY DEF TypeOK, Draw

\* Writing a checkpoint keeps the types.
LEMMA UpsertType ==
  ASSUME TypeOK, NEW t \in Terminals, NEW s \in Session, NEW o,
         UpsertPushSDKSession(t, s, o)
  PROVE /\ checkpoint' \in [Terminals -> Checkpoint]
  BY PersistentFields, Zenon DEF TypeOK, UpsertPushSDKSession

\* Deleting a checkpoint keeps the type.
LEMMA DeleteType ==
  ASSUME TypeOK, NEW t \in Terminals, NEW o, DeletePushSDKSession(t, o)
  PROVE checkpoint' \in [Terminals -> Checkpoint]
  BY Zenon DEF TypeOK, DeletePushSDKSession, NoCheckpoint, Checkpoint

\* A status transition keeps the types.
LEMMA TransitionType ==
  ASSUME TypeOK, NEW t \in Terminals,
         NEW to \in {"offline", "authenticating", "online"}, NEW o,
         TransitionTerminalState(t, to, o)
  PROVE /\ status' \in [Terminals -> {"offline", "authenticating", "online"}]
  BY Zenon DEF TypeOK, TransitionTerminalState

\* A request of the terminal keeps the types.
LEMMA TerminalStepType ==
  ASSUME TypeOK, NEW t \in Terminals, TerminalStep(t)
  PROVE TypeOK'
  <1> USE DEF Actions, Steps
  <1>1. CASE AuthInfo(t)
    <2>1. sessions' \in [Terminals -> Session]
      BY <1>1, Zenon DEF AuthInfo, TypeOK, NoSession, Session
    <2>2. exchange' \in [Terminals -> Exchange]
      BY <1>1, HoldType, Zenon DEF AuthInfo, TypeOK
    <2>3. fresh' \in [Terminals -> Nat \ {0}]
      BY <1>1, DrawType, Zenon DEF AuthInfo
    <2> QED
      BY <1>1, <2>1, <2>2, <2>3, Zenon DEF AuthInfo, TypeOK, durable, history
  <1>2. CASE Login(t)
    <2>1. sessions' \in [Terminals -> Session]
      <3> DEFINE s == [sessions[t] EXCEPT !.next = fresh[t], !.auth = TRUE]
      <3>1. sessions[t] \in Session /\ fresh[t] \in Nat
        BY Zenon DEF TypeOK
      <3>2. s \in Session
        BY <3>1, Zenon DEF Session
      <3>3. sessions' = [sessions EXCEPT ![t] = s]
        BY <1>2, <3>1, Zenon DEF Login, TypeOK, Session
      <3> QED BY <3>2, <3>3, Zenon DEF TypeOK
    <2>2. exchange' \in [Terminals -> Exchange]
      BY <1>2, HoldType, Zenon DEF Login, TypeOK
    <2>3. fresh' \in [Terminals -> Nat \ {0}]
      BY <1>2, DrawType, Zenon DEF Login
    <2> QED
      BY <1>2, <2>1, <2>2, <2>3, Zenon DEF Login, TypeOK, durable, history
  <1>3. ASSUME NEW action \in {"Exchange", "Logout"}, Request(t, action)
        PROVE TypeOK'
    <2>1. NoSession \in Session
      BY Zenon DEF NoSession, Session
    <2>2. exchange' \in [Terminals -> Exchange]
      BY <1>3, <2>1, HoldType DEF Request
    <2> QED
      BY <1>3, <2>2, Zenon DEF Request, TypeOK, durable, clocks, history
  <1> QED
    BY <1>1, <1>2, <1>3, Zenon DEF TerminalStep

\* A step of an exchange keeps the types.  The predecessor that AuthInfo
\* revokes is a number because a session that is being opened has drawn one.
LEMMA ExchangeStepType ==
  ASSUME TypeOK, NEW t \in Terminals, TerminalInv(t), ExchangeStep(t)
  PROVE TypeOK'
  <1> USE DEF Actions, Steps
  <1>0. /\ sessions[t] \in Session /\ exchange[t].prev \in Session
        /\ exchange[t].prev.next \in Nat /\ exchange[t].prev.login \in Nat
        /\ NoCheckpoint \in Checkpoint /\ NoSession \in Session
    BY Zenon DEF TypeOK, Exchange, Session, NoCheckpoint, Checkpoint, NoSession
  <1>1. CASE AuthInfoPersist(t)
    <2>1. exchange' \in [Terminals -> Exchange]
      BY <1>1, AdvanceType, ReleaseType, Zenon DEF AuthInfoPersist
    <2>2. /\ checkpoint' \in [Terminals -> Checkpoint]
      BY <1>0, <1>1, UpsertType, Zenon DEF AuthInfoPersist
    <2>3. sessions' \in [Terminals -> Session]
      BY <1>0, <1>1, Zenon DEF AuthInfoPersist, TypeOK
    <2> QED
      BY <1>1, <2>1, <2>2, <2>3, Zenon DEF AuthInfoPersist, TypeOK, clocks, history
  <1>2. CASE AuthInfoTransition(t)
    <2>1. exchange' \in [Terminals -> Exchange]
      BY <1>2, AdvanceType, Zenon DEF AuthInfoTransition
    <2>2. revoked' \in [Terminals -> Nat]
      <3>1. sessions[t].login - 1 \in Nat
        BY <1>0, <1>2, TypedAt DEF AuthInfoTransition, At, TerminalInv,
           ExchangeProgress, CopiesNotRevoked, AuthInfoSteps, Typed
      <3> QED
        BY <1>2, <3>1, Zenon DEF AuthInfoTransition, TypeOK
    <2>3. gauge' \in Int
      BY <1>2 DEF AuthInfoTransition, TypeOK
    <2>4. /\ status' \in [Terminals -> {"offline", "authenticating", "online"}]
      BY <1>2, TransitionType, Zenon DEF AuthInfoTransition
    <2> QED
      BY <1>2, <2>1, <2>2, <2>3, <2>4, Zenon DEF AuthInfoTransition, TypeOK, clocks
  <1>3. CASE AuthInfoRestore(t)
    <2>1. exchange' \in [Terminals -> Exchange]
      BY <1>3, ReleaseType, Zenon DEF AuthInfoRestore
    <2>2. /\ checkpoint' \in [Terminals -> Checkpoint]
      BY <1>0, <1>3, UpsertType, DeleteType, Zenon DEF AuthInfoRestore, TypeOK
    <2>3. sessions' \in [Terminals -> Session]
      BY <1>0, <1>3, Zenon DEF AuthInfoRestore, TypeOK
    <2> QED
      BY <1>3, <2>1, <2>2, <2>3, Zenon DEF AuthInfoRestore, TypeOK, clocks,
         history
  <1>4. CASE LoginPersist(t)
    <2>1. exchange' \in [Terminals -> Exchange]
      BY <1>4, AdvanceType, ReleaseType, Zenon DEF LoginPersist
    <2>2. sessions' \in [Terminals -> Session]
      BY <1>4, RevertLoginFields, Zenon DEF LoginPersist, TypeOK
    <2>3. /\ checkpoint' \in [Terminals -> Checkpoint]
      BY <1>0, <1>4, UpsertType, Zenon DEF LoginPersist
    <2> QED
      BY <1>4, <2>1, <2>2, <2>3, Zenon DEF LoginPersist, TypeOK, clocks, history
  <1>5. CASE LoginTransition(t)
    <2>1. exchange' \in [Terminals -> Exchange]
      BY <1>5, AdvanceType, Zenon DEF LoginTransition
    <2>2. sessions' \in [Terminals -> Session]
      BY <1>5, RevertLoginFields, OnlineFields, Zenon DEF LoginTransition
    <2>3. loggedIn' \in [Terminals -> Nat] /\ gauge' \in Int
      BY <1>0, <1>5 DEF LoginTransition, TypeOK, Session
    <2>4. /\ status' \in [Terminals -> {"offline", "authenticating", "online"}]
      BY <1>5, TransitionType, Zenon DEF LoginTransition
    <2> QED
      BY <1>5, <2>1, <2>2, <2>3, <2>4, Zenon DEF LoginTransition, TypeOK, clocks
  <1>6. CASE LoginRestore(t)
    <2>1. exchange' \in [Terminals -> Exchange]
      BY <1>6, ReleaseType, Zenon DEF LoginRestore
    <2>2. /\ checkpoint' \in [Terminals -> Checkpoint]
      BY <1>0, <1>6, UpsertType, Zenon DEF LoginRestore
    <2> QED
      BY <1>6, <2>1, <2>2, Zenon DEF LoginRestore, TypeOK, clocks, history
  <1>7. CASE Resume(t)
    <2>1. exchange' \in [Terminals -> Exchange]
      BY <1>7, AdvanceType, ReleaseType, Zenon DEF Resume
    <2>2. sessions' \in [Terminals -> Session]
      BY <1>7, OnlineFields, Zenon DEF Resume, TypeOK
    <2>3. /\ status' \in [Terminals -> {"offline", "authenticating", "online"}]
      BY <1>7, TransitionType, Zenon DEF Resume
    <2> QED
      BY <1>7, <2>1, <2>2, <2>3 DEF Resume, TypeOK, clocks, history
  <1>8. CASE Reject(t)
    BY <1>8, ReleaseType, Zenon DEF Reject, TypeOK, durable, clocks, history
  <1>9. CASE Handle(t)
    <2>1. exchange' \in [Terminals -> Exchange]
      BY <1>9, HoldType, Zenon DEF Handle, TypeOK
    <2>2. sessions' \in [Terminals -> Session]
      BY <1>9, ZenonT(30) DEF Handle, TypeOK, Session
    <2>3. fresh' \in [Terminals -> Nat \ {0}]
      BY <1>9, DrawType, Zenon DEF Handle
    <2> QED
      BY <1>9, <2>1, <2>2, <2>3, Zenon DEF Handle, TypeOK, durable, history
  <1>10. CASE Rotate(t)
    <2>1. exchange' \in [Terminals -> Exchange]
      BY <1>10, AdvanceType, ReleaseType, Zenon DEF Rotate
    <2>2. sessions' \in [Terminals -> Session]
      <3>1. [sessions[t] EXCEPT !.next = exchange[t].prev.next] \in Session
        BY <1>0, Zenon DEF Session
      <3> QED
        BY <1>0, <1>10, <3>1, Zenon DEF Rotate, TypeOK, Session
    <2>3. served' \in [Terminals -> Nat]
      BY <1>0, <1>10, Zenon DEF Rotate, TypeOK
    <2>4. /\ checkpoint' \in [Terminals -> Checkpoint]
      BY <1>0, <1>10, UpsertType, Zenon DEF Rotate
    <2> QED
      BY <1>10, <2>1, <2>2, <2>3, <2>4, Zenon DEF Rotate, TypeOK, clocks
  <1>11. CASE Logout(t)
    <2>1. exchange' \in [Terminals -> Exchange]
      BY <1>11, HoldType, ReleaseType, Zenon DEF Logout, TypeOK
    <2>2. sessions' \in [Terminals -> Session]
      <3> DEFINE s == [sessions[t] EXCEPT !.next = fresh[t], !.auth = FALSE,
                                          !.online = FALSE]
      <3>1. s \in Session
        BY <1>0, Zenon DEF TypeOK, Session
      <3>2. sessions' = [sessions EXCEPT ![t] = s] \/ sessions' = sessions
        BY <1>0, <1>11, Zenon DEF Logout, TypeOK, Session
      <3> QED
        BY <3>1, <3>2, Zenon DEF TypeOK
    <2>3. fresh' \in [Terminals -> Nat \ {0}]
      BY <1>11, DrawType, Zenon DEF Logout, TypeOK
    <2>4. gauge' \in Int
      BY <1>11 DEF Logout, TypeOK
    <2>5. /\ status' \in [Terminals -> {"offline", "authenticating", "online"}]
      BY <1>11, TransitionType, Zenon DEF Logout
    <2> QED
      BY <1>11, <2>1, <2>2, <2>3, <2>4, <2>5, Zenon DEF Logout, TypeOK, history
  <1>12. CASE LogoutDelete(t)
    <2>1. exchange' \in [Terminals -> Exchange]
      BY <1>12, AdvanceType, ReleaseType, Zenon DEF LogoutDelete
    <2>2. checkpoint' \in [Terminals -> Checkpoint]
      BY <1>12, DeleteType, Zenon DEF LogoutDelete
    <2> QED
      BY <1>0, <1>12, <2>1, <2>2 DEF LogoutDelete, TypeOK, clocks
  <1>13. CASE Reply(t)
    <2>1. exchange' \in [Terminals -> Exchange]
      BY <1>13, ReleaseType, Zenon DEF Reply
    <2>2. known' \in [Terminals -> SUBSET Nat]
      <3>1. exchange[t].reply \in Nat
        BY TypedAt, Zenon DEF Typed
      <3>2. known[t] \cup {exchange[t].reply} \in SUBSET Nat
        BY <3>1, Zenon DEF TypeOK
      <3> QED
        BY <1>13, <3>2, Zenon DEF Reply, TypeOK
    <2> QED
      BY <1>13, <2>1, <2>2, Zenon DEF Reply, TypeOK, durable, clocks
  <1> QED
    BY <1>1, <1>2, <1>3, <1>4, <1>5, <1>6, <1>7, <1>8, <1>9, <1>10, <1>11,
       <1>12, <1>13, Zenon DEF ExchangeStep

\* The sweep and the clock keep the types.
LEMMA SweepAndClockType ==
  ASSUME TypeOK, NEW t \in Terminals, MaintenanceStep(t) \/ TimeStep(t)
  PROVE TypeOK'
  <1>1. CASE MarkSessionIdle(t)
    <2>1. sessions' \in [Terminals -> Session]
      BY <1>1, OnlineFields, Zenon DEF MarkSessionIdle, TypeOK
    <2>2. gauge' \in Int
      BY <1>1 DEF MarkSessionIdle, TypeOK
    <2>3. /\ status' \in [Terminals -> {"offline", "authenticating", "online"}]
      BY <1>1, TransitionType, Zenon DEF MarkSessionIdle
    <2> QED
      BY <1>1, <2>1, <2>2, <2>3, Zenon DEF MarkSessionIdle, TypeOK, clocks,
         history
  <1>2. CASE ExpireLoginChallenge(t)
    <2>1. NoCheckpoint \in Checkpoint /\ NoSession \in Session
      BY Zenon DEF NoCheckpoint, Checkpoint, NoSession, Session
    <2>2. checkpoint' \in [Terminals -> Checkpoint]
      BY <1>2, DeleteType, Zenon DEF ExpireLoginChallenge
    <2>3. /\ sessions' \in [Terminals -> Session]
          /\ status' \in [Terminals -> {"offline", "authenticating", "online"}]
      BY <1>2, <2>1 DEF ExpireLoginChallenge, TypeOK
    <2> QED
      BY <1>2, <2>2, <2>3, Zenon DEF ExpireLoginChallenge, TypeOK, clocks,
         history
  <1>3. CASE LoginDeadlinePasses(t)
    BY <1>3 DEF LoginDeadlinePasses, TypeOK, volatile, durable, history
  <1>4. CASE IdleTimeoutPasses(t)
    BY <1>4 DEF IdleTimeoutPasses, TypeOK, volatile, durable, history
  <1> QED
    BY <1>1, <1>2, <1>3, <1>4, Zenon DEF MaintenanceStep, TimeStep

\* Crashes and restarts keep the types.
LEMMA ProcessStepType ==
  ASSUME TypeOK, Crash \/ Boot \/ RestoreSessions \/ RestoreAborted
  PROVE TypeOK'
  <1>0. /\ NoSession \in Session /\ NoCheckpoint \in Checkpoint
        /\ Free \in Exchange
    BY Zenon DEF NoSession, Session, NoCheckpoint, Checkpoint, Free, Exchange,
       Actions, Steps
  <1>1. CASE Crash
    BY <1>0, <1>1 DEF Crash, TypeOK, durable, clocks, history
  <1>2. CASE Boot
    BY <1>2 DEF Boot, TypeOK, clocks
  <1>3. CASE RestoreSessions
    <2>1. sessions' \in [Terminals -> Session]
      BY <1>0, <1>3, Zenon DEF RestoreSessions, TypeOK, Session, Checkpoint
    <2>2. checkpoint' \in [Terminals -> Checkpoint]
      BY <1>0, <1>3, Zenon DEF RestoreSessions, TypeOK
    <2> QED
      BY <1>3, <2>1, <2>2 DEF RestoreSessions, TypeOK, clocks, history
  <1>4. CASE RestoreAborted
    BY <1>0, <1>4, Zenon DEF RestoreAborted, TypeOK, clocks, history
  <1> QED
    BY <1>1, <1>2, <1>3, <1>4, Zenon

-----------------------------------------------------------------------------
(* Every action keeps the inductive invariant at the terminal it is about. *)
(* The values before the step are s, e, c, k, f, u and r as in the module; *)
(* s1, e1, ... are those the step changes.                                 *)

\* A step that leaves the challenges alone and releases the mutex, or keeps
\* it free, keeps the invariant.
LEMMA QuietInv ==
  ASSUME TypeOK, NEW t \in Terminals, TerminalInv(t), Running, Running',
         sessions'[t].login = sessions[t].login,
         sessions'[t].next = sessions[t].next,
         sessions'[t].auth = sessions[t].auth,
         sessions'[t] = sessions[t] \/ sessions[t] # NoSession,
         exchange'[t] = Free \/ (exchange'[t] = exchange[t]
                                 /\ exchange[t].step = "free"),
         config'[t] = config[t], checkpoint'[t] = checkpoint[t],
         fresh'[t] = fresh[t], served'[t] = served[t], revoked'[t] = revoked[t]
  PROVE TerminalInv(t)'
  <1> DEFINE s == sessions[t]  e == exchange[t]  c == checkpoint[t]
             k == config[t]  f == fresh[t]  u == served[t]  r == revoked[t]
             s1 == sessions'[t]  e1 == exchange'[t]
  <1>1. /\ s1.login = s.login /\ s1.next = s.next /\ s1.auth = s.auth
        /\ s1 = s \/ s # NoSession
        /\ e1 = Free \/ (e1 = e /\ e.step = "free")
    BY Zenon
  <1>2. Known(s, e, c, k, f, u, r)
    BY KnownAt, Zenon
  <1> HIDE DEF s, e, c, k, f, u, r, s1, e1
  <1>3. IdsDrawn(s1, e1, c, f, u, r)
    BY <1>1, <1>2, Empty DEF Known, Typed, IdsDrawn
  <1>4. VolatileOnlyWhileRunning(TRUE, s1, e1) /\ FingerprintInForce(TRUE, c, k)
    BY <1>2, Zenon DEF Known, VolatileOnlyWhileRunning, FingerprintInForce
  <1>5. CopiesNotRevoked(s1, e1, c, k, r)
    BY <1>1, <1>2, Empty, Zenon DEF Known, CopiesNotRevoked, AuthInfoSteps
  <1>6. CopiesNotUsed(s1, e1, c, u)
    BY <1>1, <1>2, Empty, Zenon DEF Known, CopiesNotUsed, AuthInfoSteps
  <1>7. ExchangeProgress(s1, e1, c)
    BY <1>1, <1>2, Empty, Zenon DEF Known, ExchangeProgress, AuthInfoSteps,
       LoginSteps
  <1> QED
    BY <1>3, <1>4, <1>5, <1>6, <1>7, Zenon DEF TerminalInv, s, e, c, k, f, u,
       r, s1, e1

\* AuthInfo: the replaced session moves into the exchange, the new one is unused.
LEMMA AuthInfoInv ==
  ASSUME IInv, NEW t \in Terminals, AuthInfo(t)
  PROVE TerminalInv(t)'
  <1> DEFINE s == sessions[t]  e == exchange[t]  c == checkpoint[t]
             k == config[t]  f == fresh[t]  u == served[t]  r == revoked[t]
             s1 == sessions'[t]  e1 == exchange'[t]  f1 == fresh'[t]
  <1>1. /\ s1.login = f /\ s1.next = 0
        /\ ~s1.auth
        /\ e1.action = "AuthInfo"
        /\ e1.step = "authinfo"
        /\ e1.prev = s
        /\ e1.reply = f
        /\ f1 = f + 1
        /\ Running /\ Running'
        /\ config'[t] = k /\ checkpoint'[t] = c
        /\ served'[t] = u /\ revoked'[t] = r
    BY HoldFields DEF AuthInfo, IInv, TypeOK, At, Running, Draw, durable,
       history, NoSession
  <1>2. Known(s, e, c, k, f, u, r)
    BY KnownAt, Zenon DEF IInv
  <1> HIDE DEF s, e, c, k, f, u, r, s1, e1, f1
  <1>3. IdsDrawn(s1, e1, c, f1, u, r)
    BY <1>1, <1>2, Empty DEF Known, Typed, IdsDrawn
  <1>4. /\ VolatileOnlyWhileRunning(TRUE, s1, e1)
        /\ FingerprintInForce(TRUE, c, k)
    BY <1>1, <1>2, Empty, Zenon DEF Known, Typed, VolatileOnlyWhileRunning,
       FingerprintInForce
  <1>5. CopiesNotRevoked(s1, e1, c, k, r)
    BY <1>1, <1>2, Empty, Zenon DEF Known, Typed, IdsDrawn, FingerprintInForce,
       CopiesNotRevoked, ExchangeProgress, AuthInfoSteps, LoginSteps
  <1>6. CopiesNotUsed(s1, e1, c, u)
    BY <1>1, <1>2, Empty, Zenon DEF Known, Typed, IdsDrawn, CopiesNotUsed,
       ExchangeProgress, AuthInfoSteps
  <1>7. ExchangeProgress(s1, e1, c)
    BY <1>1, <1>2, Empty, Zenon DEF Known, Typed, IdsDrawn, CopiesNotRevoked,
       ExchangeProgress, AuthInfoSteps, LoginSteps
  <1> QED
    BY <1>1, <1>3, <1>4, <1>5, <1>6, <1>7, Zenon DEF TerminalInv, s, e, c, k,
       f, u, r, s1, e1, f1

\* AuthInfo, first commit: on failure the replaced session comes back.
LEMMA AuthInfoPersistInv ==
  ASSUME IInv, NEW t \in Terminals, AuthInfoPersist(t)
  PROVE TerminalInv(t)'
  <1> DEFINE s == sessions[t]  e == exchange[t]  c == checkpoint[t]
             k == config[t]  f == fresh[t]  u == served[t]  r == revoked[t]
             s1 == sessions'[t]  e1 == exchange'[t]  c1 == checkpoint'[t]
  <1>1. /\ e.step = "authinfo"
        /\ \/ /\ c1 = PersistentState(t, s)
              /\ e1.step = "authinfo_transition"
              /\ e1.action = e.action
              /\ e1.prev = e.prev
              /\ e1.reply = e.reply
              /\ s1 = s
           \/ /\ c1 = c \/ c1 = PersistentState(t, s)
              /\ e1 = Free
              /\ s1 = e.prev
        /\ Running /\ Running'
        /\ config'[t] = k /\ fresh'[t] = f
        /\ served'[t] = u /\ revoked'[t] = r
    BY AdvanceFields, ReleaseFields DEF AuthInfoPersist, IInv, TypeOK, At,
       Running, Applied, UpsertPushSDKSession, Exchange, clocks, history
  <1>2. /\ Known(s, e, c, k, f, u, r)
        /\ CheckpointOf(PersistentState(t, s), s, k)
    BY KnownAt, PersistentFields, Zenon DEF IInv, TypeOK
  <1> HIDE DEF s, e, c, k, f, u, r, s1, e1, c1
  <1>3. IdsDrawn(s1, e1, c1, f, u, r)
    BY <1>1, <1>2, Empty DEF Known, CheckpointOf, Typed, IdsDrawn
  <1>4. /\ VolatileOnlyWhileRunning(TRUE, s1, e1)
        /\ FingerprintInForce(TRUE, c1, k)
    BY <1>1, <1>2, Empty DEF Known, CheckpointOf, Typed,
       VolatileOnlyWhileRunning, FingerprintInForce
  <1>5. CopiesNotRevoked(s1, e1, c1, k, r)
    BY <1>1, <1>2, Empty, Zenon DEF Known, CheckpointOf, Typed, IdsDrawn,
       FingerprintInForce, CopiesNotRevoked, ExchangeProgress, AuthInfoSteps,
       LoginSteps
  <1>6. CopiesNotUsed(s1, e1, c1, u)
    BY <1>1, <1>2, Empty, Zenon DEF Known, CheckpointOf, Typed, IdsDrawn,
       CopiesNotUsed, ExchangeProgress, AuthInfoSteps
  <1>7. ExchangeProgress(s1, e1, c1)
    BY <1>1, <1>2, Empty, Zenon DEF Known, CheckpointOf, Typed, IdsDrawn,
       CopiesNotRevoked, ExchangeProgress, AuthInfoSteps, LoginSteps
  <1> QED
    BY <1>1, <1>3, <1>4, <1>5, <1>6, <1>7, Zenon DEF TerminalInv, s, e, c, k,
       f, u, r, s1, e1, c1

\* AuthInfo, second commit: only success revokes the replaced session.
LEMMA AuthInfoTransitionInv ==
  ASSUME IInv, NEW t \in Terminals, AuthInfoTransition(t)
  PROVE TerminalInv(t)'
  <1> DEFINE s == sessions[t]  e == exchange[t]  c == checkpoint[t]
             k == config[t]  f == fresh[t]  u == served[t]  r == revoked[t]
             e1 == exchange'[t]  r1 == revoked'[t]
  <1>1. /\ e.step = "authinfo_transition"
        /\ \/ /\ r1 = s.login - 1
              /\ e1.step = "reply"
              /\ e1.action = e.action
              /\ e1.prev = e.prev
              /\ e1.reply = e.reply
           \/ /\ r1 = r
              /\ e1.step = "authinfo_restore"
              /\ e1.action = e.action
              /\ e1.prev = e.prev
              /\ e1.reply = e.reply
        /\ Running /\ Running'
        /\ config'[t] = k /\ sessions'[t] = s
        /\ checkpoint'[t] = c /\ fresh'[t] = f
        /\ served'[t] = u
    BY AdvanceFields, Zenon DEF AuthInfoTransition, IInv, TypeOK, At, Running,
       Exchange, clocks
  <1>2. Known(s, e, c, k, f, u, r)
    BY KnownAt DEF IInv
  <1> HIDE DEF s, e, c, k, f, u, r, e1, r1
  <1>3. IdsDrawn(s, e1, c, f, u, r1)
    BY <1>1, <1>2, Empty DEF Known, Typed, IdsDrawn
  <1>4. /\ VolatileOnlyWhileRunning(TRUE, s, e1)
        /\ FingerprintInForce(TRUE, c, k)
    BY <1>1, <1>2, Empty, Zenon DEF Known, Typed, VolatileOnlyWhileRunning,
       FingerprintInForce
  <1>5. CopiesNotRevoked(s, e1, c, k, r1)
    BY <1>1, <1>2, Empty DEF Known, Typed, IdsDrawn, FingerprintInForce,
       CopiesNotRevoked, ExchangeProgress, AuthInfoSteps, LoginSteps
  <1>6. CopiesNotUsed(s, e1, c, u)
    BY <1>1, <1>2, Empty, Zenon DEF Known, Typed, IdsDrawn, CopiesNotUsed,
       ExchangeProgress, AuthInfoSteps
  <1>7. ExchangeProgress(s, e1, c)
    BY <1>1, <1>2, Empty, Zenon DEF Known, Typed, IdsDrawn, CopiesNotRevoked,
       ExchangeProgress, AuthInfoSteps, LoginSteps
  <1> QED
    BY <1>1, <1>3, <1>4, <1>5, <1>6, <1>7, Zenon DEF TerminalInv, s, e, c, k,
       f, u, r, e1, r1

\* AuthInfo, compensation: what comes back was neither used nor revoked.
LEMMA AuthInfoRestoreInv ==
  ASSUME IInv, NEW t \in Terminals, AuthInfoRestore(t)
  PROVE TerminalInv(t)'
  <1> DEFINE s == sessions[t]  e == exchange[t]  c == checkpoint[t]
             k == config[t]  f == fresh[t]  u == served[t]  r == revoked[t]
             s1 == sessions'[t]  e1 == exchange'[t]  c1 == checkpoint'[t]
  <1>1. /\ e.step = "authinfo_restore"
        /\ e1 = Free
        /\ s1 = s \/ s1 = e.prev
        /\ \/ c1 = c
           \/ e.prev = NoSession /\ c1 = NoCheckpoint
           \/ /\ e.prev # NoSession
              /\ c1.login = e.prev.login
              /\ c1.next = e.prev.next
              /\ c1.auth = e.prev.auth
              /\ c1.fingerprint = k
        /\ Running /\ Running'
        /\ config'[t] = k /\ fresh'[t] = f
        /\ served'[t] = u /\ revoked'[t] = r
    BY ReleaseFields DEF AuthInfoRestore, PersistentState, IInv, TypeOK, At,
       Running, Applied, UpsertPushSDKSession, DeletePushSDKSession,
       Exchange, clocks, history
  <1>2. Known(s, e, c, k, f, u, r)
    BY KnownAt DEF IInv
  <1> HIDE DEF s, e, c, k, f, u, r, s1, e1, c1
  <1>3. IdsDrawn(s1, e1, c1, f, u, r)
    BY <1>1, <1>2, Empty DEF Known, Typed, IdsDrawn
  <1>4. /\ VolatileOnlyWhileRunning(TRUE, s1, e1)
        /\ FingerprintInForce(TRUE, c1, k)
    BY <1>1, <1>2, Empty DEF Known, Typed, VolatileOnlyWhileRunning,
       FingerprintInForce
  <1>5. CopiesNotRevoked(s1, e1, c1, k, r)
    BY <1>1, <1>2, Empty, Zenon DEF Known, Typed, IdsDrawn, FingerprintInForce,
       CopiesNotRevoked, ExchangeProgress, AuthInfoSteps, LoginSteps
  <1>6. CopiesNotUsed(s1, e1, c1, u)
    BY <1>1, <1>2, Empty, Zenon DEF Known, Typed, IdsDrawn, CopiesNotUsed,
       ExchangeProgress, AuthInfoSteps
  <1>7. ExchangeProgress(s1, e1, c1)
    BY <1>1, <1>2, Empty, Zenon DEF Known, Typed, IdsDrawn, CopiesNotRevoked,
       ExchangeProgress, AuthInfoSteps, LoginSteps
  <1> QED
    BY <1>1, <1>3, <1>4, <1>5, <1>6, <1>7, Zenon DEF TerminalInv, s, e, c, k,
       f, u, r, s1, e1, c1

\* Login: the session authenticates with a fresh challenge.
LEMMA LoginInv ==
  ASSUME IInv, NEW t \in Terminals, Login(t)
  PROVE TerminalInv(t)'
  <1> DEFINE s == sessions[t]  e == exchange[t]  c == checkpoint[t]
             k == config[t]  f == fresh[t]  u == served[t]  r == revoked[t]
             s1 == sessions'[t]  e1 == exchange'[t]  f1 == fresh'[t]
  <1>1. /\ s # NoSession
        /\ s1.login = s.login
        /\ s1.next = f
        /\ s1.auth
        /\ e1.action = "Login"
        /\ e1.step = "login"
        /\ e1.prev = s
        /\ e1.reply = f
        /\ f1 = f + 1
        /\ Running /\ Running'
        /\ config'[t] = k /\ checkpoint'[t] = c
        /\ served'[t] = u /\ revoked'[t] = r
    BY HoldFields DEF Login, IInv, TypeOK, At, Running, Draw, Session,
       durable, history
  <1>2. Known(s, e, c, k, f, u, r)
    BY KnownAt DEF IInv
  <1> HIDE DEF s, e, c, k, f, u, r, s1, e1, f1
  <1>3. IdsDrawn(s1, e1, c, f1, u, r)
    BY <1>1, <1>2, Empty DEF Known, Typed, IdsDrawn
  <1>4. /\ VolatileOnlyWhileRunning(TRUE, s1, e1)
        /\ FingerprintInForce(TRUE, c, k)
    BY <1>1, <1>2, Empty, Zenon DEF Known, Typed, VolatileOnlyWhileRunning,
       FingerprintInForce
  <1>5. CopiesNotRevoked(s1, e1, c, k, r)
    BY <1>1, <1>2, Empty, Zenon DEF Known, Typed, IdsDrawn, FingerprintInForce,
       CopiesNotRevoked, ExchangeProgress, AuthInfoSteps, LoginSteps
  <1>6. CopiesNotUsed(s1, e1, c, u)
    BY <1>1, <1>2, Empty, Zenon DEF Known, Typed, IdsDrawn, CopiesNotUsed,
       ExchangeProgress, AuthInfoSteps
  <1>7. ExchangeProgress(s1, e1, c)
    BY <1>1, <1>2, Empty, Zenon DEF Known, Typed, IdsDrawn, CopiesNotRevoked,
       ExchangeProgress, AuthInfoSteps, LoginSteps
  <1> QED
    BY <1>1, <1>3, <1>4, <1>5, <1>6, <1>7, Zenon DEF TerminalInv, s, e, c, k,
       f, u, r, s1, e1, f1

\* Login, first commit.
LEMMA LoginPersistInv ==
  ASSUME IInv, NEW t \in Terminals, LoginPersist(t)
  PROVE TerminalInv(t)'
  <1> DEFINE s == sessions[t]  e == exchange[t]  c == checkpoint[t]
             k == config[t]  f == fresh[t]  u == served[t]  r == revoked[t]
             s1 == sessions'[t]  e1 == exchange'[t]  c1 == checkpoint'[t]
  <1>1. /\ e.step = "login"
        /\ s1.login = s.login
        /\ \/ /\ c1 = PersistentState(t, s)
              /\ e1.step = "login_transition"
              /\ e1.action = e.action
              /\ e1.prev = e.prev
              /\ e1.reply = e.reply
              /\ s1 = s
           \/ /\ \/ c1 = c
                 \/ c1 = PersistentState(t, s)
              /\ e1 = Free
              /\ s1.next = e.prev.next
              /\ ~s1.auth
        /\ Running /\ Running'
        /\ config'[t] = k /\ fresh'[t] = f
        /\ served'[t] = u /\ revoked'[t] = r
    BY RevertLoginFields, AdvanceFields, ReleaseFields DEF LoginPersist,
       IInv, TypeOK, At, Running, Applied, UpsertPushSDKSession, Exchange,
       Session, clocks, history
  <1>2. /\ Known(s, e, c, k, f, u, r)
        /\ CheckpointOf(PersistentState(t, s), s, k)
    BY KnownAt, PersistentFields, SMTT(30) DEF IInv, TypeOK
  <1> HIDE DEF s, e, c, k, f, u, r, s1, e1, c1
  <1>3. IdsDrawn(s1, e1, c1, f, u, r)
    BY <1>1, <1>2, Empty DEF Known, CheckpointOf, Typed, IdsDrawn
  <1>4. /\ VolatileOnlyWhileRunning(TRUE, s1, e1)
        /\ FingerprintInForce(TRUE, c1, k)
    BY <1>1, <1>2, Empty DEF Known, CheckpointOf, Typed,
       VolatileOnlyWhileRunning, FingerprintInForce
  <1>5. CopiesNotRevoked(s1, e1, c1, k, r)
    BY <1>1, <1>2, Empty, Zenon DEF Known, CheckpointOf, Typed, IdsDrawn,
       FingerprintInForce, CopiesNotRevoked, ExchangeProgress, AuthInfoSteps,
       LoginSteps
  <1>6. CopiesNotUsed(s1, e1, c1, u)
    BY <1>1, <1>2, Empty, Zenon DEF Known, CheckpointOf, Typed, IdsDrawn,
       CopiesNotUsed, ExchangeProgress, AuthInfoSteps
  <1>7. ExchangeProgress(s1, e1, c1)
    BY <1>1, <1>2, Empty, Zenon DEF Known, CheckpointOf, Typed, IdsDrawn,
       CopiesNotRevoked, ExchangeProgress, AuthInfoSteps, LoginSteps
  <1> QED
    BY <1>1, <1>3, <1>4, <1>5, <1>6, <1>7, Zenon DEF TerminalInv, s, e, c, k,
       f, u, r, s1, e1, c1

\* Login, second commit.
LEMMA LoginTransitionInv ==
  ASSUME IInv, NEW t \in Terminals, LoginTransition(t)
  PROVE TerminalInv(t)'
  <1> DEFINE s == sessions[t]  e == exchange[t]  c == checkpoint[t]
             k == config[t]  f == fresh[t]  u == served[t]  r == revoked[t]
             s1 == sessions'[t]  e1 == exchange'[t]
  <1>1. /\ e.step = "login_transition"
        /\ s1.login = s.login
        /\ \/ /\ e1.step = "reply"
              /\ e1.action = e.action
              /\ e1.prev = e.prev
              /\ e1.reply = e.reply
              /\ s1.next = s.next
              /\ s1.auth = s.auth
           \/ /\ e1.step = "login_restore"
              /\ e1.action = e.action
              /\ e1.prev = e.prev
              /\ e1.reply = e.reply
              /\ s1.next = e.prev.next
              /\ ~s1.auth
        /\ Running /\ Running'
        /\ config'[t] = k /\ checkpoint'[t] = c
        /\ fresh'[t] = f /\ served'[t] = u
        /\ revoked'[t] = r
    <2>1. \/ sessions' = [sessions EXCEPT ![t].online = TRUE] /\ Advance(t, "reply")
          \/ RevertLogin(t) /\ Advance(t, "login_restore")
      BY Zenon DEF LoginTransition
    <2>2. /\ Running /\ Running' /\ e.step = "login_transition"
          /\ config'[t] = k /\ checkpoint'[t] = c
          /\ fresh'[t] = f /\ served'[t] = u /\ revoked'[t] = r
      BY Zenon DEF LoginTransition, At, Running, clocks
    <2>3. TypeOK
      BY Zenon DEF IInv
    <2>4. CASE sessions' = [sessions EXCEPT ![t].online = TRUE]
               /\ Advance(t, "reply")
      <3>1. s1.login = s.login /\ s1.next = s.next /\ s1.auth = s.auth
        BY <2>3, <2>4, OnlineFields, Zenon
      <3>2. /\ e1.step = "reply" /\ e1.action = e.action
            /\ e1.prev = e.prev /\ e1.reply = e.reply
        BY <2>3, <2>4, AdvanceFields, Zenon
      <3> QED
        BY <2>2, <3>1, <3>2, Zenon
    <2>5. CASE RevertLogin(t) /\ Advance(t, "login_restore")
      BY <2>2, <2>3, <2>5, RevertLoginFields, AdvanceFields, Zenon
    <2> QED
      BY <2>1, <2>4, <2>5, Zenon
  <1>2. Known(s, e, c, k, f, u, r)
    BY KnownAt DEF IInv
  <1> HIDE DEF s, e, c, k, f, u, r, s1, e1
  <1>3. IdsDrawn(s1, e1, c, f, u, r)
    BY <1>1, <1>2, Empty, Zenon DEF Known, Typed, IdsDrawn
  <1>4. /\ VolatileOnlyWhileRunning(TRUE, s1, e1)
        /\ FingerprintInForce(TRUE, c, k)
    BY <1>1, <1>2, Empty, Zenon DEF Known, Typed, VolatileOnlyWhileRunning,
       FingerprintInForce
  <1>5. CopiesNotRevoked(s1, e1, c, k, r)
    BY <1>1, <1>2, Empty, Zenon DEF Known, Typed, IdsDrawn, FingerprintInForce,
       CopiesNotRevoked, ExchangeProgress, AuthInfoSteps, LoginSteps
  <1>6. CopiesNotUsed(s1, e1, c, u)
    BY <1>1, <1>2, Empty, Zenon DEF Known, Typed, IdsDrawn, CopiesNotUsed,
       ExchangeProgress, AuthInfoSteps
  <1>7. ExchangeProgress(s1, e1, c)
    BY <1>1, <1>2, Empty, SMTT(30) DEF Known, Typed, IdsDrawn, CopiesNotRevoked,
       ExchangeProgress, AuthInfoSteps, LoginSteps
  <1> QED
    BY <1>1, <1>3, <1>4, <1>5, <1>6, <1>7, Zenon DEF TerminalInv, s, e, c, k,
       f, u, r, s1, e1

\* Login, compensation.
LEMMA LoginRestoreInv ==
  ASSUME IInv, NEW t \in Terminals, LoginRestore(t)
  PROVE TerminalInv(t)'
  <1> DEFINE s == sessions[t]  e == exchange[t]  c == checkpoint[t]
             k == config[t]  f == fresh[t]  u == served[t]  r == revoked[t]
             e1 == exchange'[t]  c1 == checkpoint'[t]
  <1>1. /\ e.step = "login_restore"
        /\ e1 = Free
        /\ \/ c1 = c
           \/ c1 = PersistentState(t, s)
        /\ Running /\ Running'
        /\ config'[t] = k /\ sessions'[t] = s
        /\ fresh'[t] = f /\ served'[t] = u
        /\ revoked'[t] = r
    BY ReleaseFields, Zenon DEF LoginRestore, IInv, TypeOK, At, Running, Applied,
       UpsertPushSDKSession, clocks, history
  <1>2. /\ Known(s, e, c, k, f, u, r)
        /\ CheckpointOf(PersistentState(t, s), s, k)
    BY KnownAt, PersistentFields DEF IInv, TypeOK
  <1> HIDE DEF s, e, c, k, f, u, r, e1, c1
  <1>3. IdsDrawn(s, e1, c1, f, u, r)
    BY <1>1, <1>2, Empty DEF Known, CheckpointOf, Typed, IdsDrawn
  <1>4. /\ VolatileOnlyWhileRunning(TRUE, s, e1)
        /\ FingerprintInForce(TRUE, c1, k)
    BY <1>1, <1>2, Empty DEF Known, CheckpointOf, Typed,
       VolatileOnlyWhileRunning, FingerprintInForce
  <1>5. CopiesNotRevoked(s, e1, c1, k, r)
    BY <1>1, <1>2, Empty, Zenon DEF Known, CheckpointOf, Typed, IdsDrawn,
       FingerprintInForce, CopiesNotRevoked, ExchangeProgress, AuthInfoSteps,
       LoginSteps
  <1>6. CopiesNotUsed(s, e1, c1, u)
    BY <1>1, <1>2, Empty, Zenon DEF Known, CheckpointOf, Typed, IdsDrawn,
       CopiesNotUsed, ExchangeProgress, AuthInfoSteps
  <1>7. ExchangeProgress(s, e1, c1)
    BY <1>1, <1>2, Empty, Zenon DEF Known, CheckpointOf, Typed, IdsDrawn,
       CopiesNotRevoked, ExchangeProgress, AuthInfoSteps, LoginSteps
  <1> QED
    BY <1>1, <1>3, <1>4, <1>5, <1>6, <1>7, Zenon DEF TerminalInv, s, e, c, k,
       f, u, r, e1, c1

-----------------------------------------------------------------------------
(* An authenticated request, Logout and the maintenance sweep.             *)

\* A request whose proof is right.
LEMMA RequestInv ==
  ASSUME IInv, NEW t \in Terminals,
         NEW action \in {"Exchange", "Logout"}, Request(t, action)
  PROVE TerminalInv(t)'
  <1> DEFINE s == sessions[t]  e == exchange[t]  c == checkpoint[t]
             k == config[t]  f == fresh[t]  u == served[t]  r == revoked[t]
             e1 == exchange'[t]
  <1>1. /\ s.auth
        /\ e1.step \in {"resume", "handle"}
        /\ e1.prev = NoSession
        /\ Running /\ Running'
        /\ config'[t] = k /\ sessions'[t] = s
        /\ checkpoint'[t] = c /\ fresh'[t] = f
        /\ served'[t] = u /\ revoked'[t] = r
    BY HoldFields DEF Request, IInv, TypeOK, At, Running, durable, clocks,
       history
  <1>2. Known(s, e, c, k, f, u, r)
    BY KnownAt, Zenon DEF IInv
  <1> HIDE DEF s, e, c, k, f, u, r, e1
  <1>3. IdsDrawn(s, e1, c, f, u, r)
    BY <1>1, <1>2, Empty DEF Known, Typed, IdsDrawn
  <1>4. /\ VolatileOnlyWhileRunning(TRUE, s, e1)
        /\ FingerprintInForce(TRUE, c, k)
    BY <1>1, <1>2, Empty, Zenon DEF Known, Typed, VolatileOnlyWhileRunning,
       FingerprintInForce
  <1>5. CopiesNotRevoked(s, e1, c, k, r)
    BY <1>1, <1>2, Empty, Zenon DEF Known, Typed, IdsDrawn, FingerprintInForce,
       CopiesNotRevoked, ExchangeProgress, AuthInfoSteps, LoginSteps
  <1>6. CopiesNotUsed(s, e1, c, u)
    BY <1>1, <1>2, Empty, Zenon DEF Known, Typed, IdsDrawn, CopiesNotUsed,
       ExchangeProgress, AuthInfoSteps
  <1>7. ExchangeProgress(s, e1, c)
    BY <1>1, <1>2, Empty, Zenon DEF Known, Typed, IdsDrawn, CopiesNotRevoked,
       ExchangeProgress, AuthInfoSteps, LoginSteps
  <1> QED
    BY <1>1, <1>3, <1>4, <1>5, <1>6, <1>7, Zenon DEF TerminalInv, s, e, c, k,
       f, u, r, e1

\* An idle session resumes.
LEMMA ResumeInv ==
  ASSUME IInv, NEW t \in Terminals, Resume(t)
  PROVE TerminalInv(t)'
  <1> DEFINE s == sessions[t]  e == exchange[t]  c == checkpoint[t]
             k == config[t]  f == fresh[t]  u == served[t]  r == revoked[t]
             s1 == sessions'[t]  e1 == exchange'[t]
  <1>1. /\ e.step = "resume"
        /\ s1.login = s.login
        /\ s1.next = s.next
        /\ s1.auth = s.auth
        /\ \/ /\ e1.step = "handle"
              /\ e1.action = e.action
              /\ e1.prev = e.prev
              /\ e1.reply = e.reply
           \/ e1 = Free
        /\ Running /\ Running'
        /\ config'[t] = k /\ checkpoint'[t] = c
        /\ fresh'[t] = f /\ served'[t] = u
        /\ revoked'[t] = r
    BY OnlineFields, AdvanceFields, ReleaseFields, Zenon DEF Resume, IInv,
       TypeOK, At, Running, Exchange, clocks, history
  <1>2. Known(s, e, c, k, f, u, r)
    BY KnownAt, Zenon DEF IInv
  <1> HIDE DEF s, e, c, k, f, u, r, s1, e1
  <1>3. IdsDrawn(s1, e1, c, f, u, r)
    BY <1>1, <1>2, Empty DEF Known, Typed, IdsDrawn
  <1>4. /\ VolatileOnlyWhileRunning(TRUE, s1, e1)
        /\ FingerprintInForce(TRUE, c, k)
    BY <1>1, <1>2, Empty, Zenon DEF Known, Typed, VolatileOnlyWhileRunning,
       FingerprintInForce
  <1>5. CopiesNotRevoked(s1, e1, c, k, r)
    BY <1>1, <1>2, Empty, Zenon DEF Known, Typed, IdsDrawn, FingerprintInForce,
       CopiesNotRevoked, ExchangeProgress, AuthInfoSteps, LoginSteps
  <1>6. CopiesNotUsed(s1, e1, c, u)
    BY <1>1, <1>2, Empty, Zenon DEF Known, Typed, IdsDrawn, CopiesNotUsed,
       ExchangeProgress, AuthInfoSteps
  <1>7. ExchangeProgress(s1, e1, c)
    BY <1>1, <1>2, Empty, Zenon DEF Known, Typed, IdsDrawn, CopiesNotRevoked,
       ExchangeProgress, AuthInfoSteps, LoginSteps
  <1> QED
    BY <1>1, <1>3, <1>4, <1>5, <1>6, <1>7, Zenon DEF TerminalInv, s, e, c, k,
       f, u, r, s1, e1

\* The business transaction committed and the challenge rotates in memory.
LEMMA HandleInv ==
  ASSUME IInv, NEW t \in Terminals, Handle(t)
  PROVE TerminalInv(t)'
  <1> DEFINE s == sessions[t]  e == exchange[t]  c == checkpoint[t]
             k == config[t]  f == fresh[t]  u == served[t]  r == revoked[t]
             s1 == sessions'[t]  e1 == exchange'[t]  f1 == fresh'[t]
  <1>1. /\ e.step = "handle"
        /\ s1.login = s.login
        /\ s1.next = f
        /\ s1.auth = s.auth
        /\ e1.action = "Exchange"
        /\ e1.step = "rotate"
        /\ e1.prev = s
        /\ e1.reply = f
        /\ f1 = f + 1
        /\ Running /\ Running'
        /\ config'[t] = k /\ checkpoint'[t] = c
        /\ served'[t] = u /\ revoked'[t] = r
    BY HoldFields, SMTT(30) DEF Handle, IInv, TypeOK, At, Running, Draw, Session,
       durable, history
  <1>2. Known(s, e, c, k, f, u, r)
    BY KnownAt DEF IInv
  <1> HIDE DEF s, e, c, k, f, u, r, s1, e1, f1
  <1>3. IdsDrawn(s1, e1, c, f1, u, r)
    BY <1>1, <1>2, Empty DEF Known, Typed, IdsDrawn
  <1>4. /\ VolatileOnlyWhileRunning(TRUE, s1, e1)
        /\ FingerprintInForce(TRUE, c, k)
    BY <1>1, <1>2, Empty, Zenon DEF Known, Typed, VolatileOnlyWhileRunning,
       FingerprintInForce
  <1>5. CopiesNotRevoked(s1, e1, c, k, r)
    BY <1>1, <1>2, Empty, Zenon DEF Known, Typed, IdsDrawn, FingerprintInForce,
       CopiesNotRevoked, ExchangeProgress, AuthInfoSteps, LoginSteps
  <1>6. CopiesNotUsed(s1, e1, c, u)
    BY <1>1, <1>2, Empty, Zenon DEF Known, Typed, IdsDrawn, CopiesNotUsed,
       ExchangeProgress, AuthInfoSteps
  <1>7. ExchangeProgress(s1, e1, c)
    BY <1>1, <1>2, Empty, Zenon DEF Known, Typed, IdsDrawn, CopiesNotRevoked,
       ExchangeProgress, AuthInfoSteps, LoginSteps
  <1> QED
    BY <1>1, <1>3, <1>4, <1>5, <1>6, <1>7, Zenon DEF TerminalInv, s, e, c, k,
       f, u, r, s1, e1, f1

\* The rotated challenge is committed: only then is the old proof used.
LEMMA RotateInv ==
  ASSUME IInv, NEW t \in Terminals, Rotate(t)
  PROVE TerminalInv(t)'
  <1> DEFINE s == sessions[t]  e == exchange[t]  c == checkpoint[t]
             k == config[t]  f == fresh[t]  u == served[t]  r == revoked[t]
             s1 == sessions'[t]  e1 == exchange'[t]  c1 == checkpoint'[t]
             u1 == served'[t]
  <1>1. /\ e.step = "rotate"
        /\ \/ /\ c1 = PersistentState(t, s)
              /\ e1.step = "reply"
              /\ e1.action = e.action
              /\ e1.prev = e.prev
              /\ e1.reply = e.reply
              /\ u1 = e.prev.next
              /\ s1 = s
           \/ /\ c1 = c \/ c1 = PersistentState(t, s)
              /\ e1 = Free
              /\ u1 = u
              /\ s1.login = s.login
              /\ s1.next = e.prev.next
              /\ s1.auth = s.auth
        /\ Running /\ Running'
        /\ config'[t] = k /\ fresh'[t] = f
        /\ revoked'[t] = r
    BY AdvanceFields, ReleaseFields DEF Rotate, IInv, TypeOK, At, Running,
       Applied, UpsertPushSDKSession, Exchange, Session, clocks
  <1>2. /\ Known(s, e, c, k, f, u, r)
        /\ CheckpointOf(PersistentState(t, s), s, k)
    BY KnownAt, PersistentFields, Zenon DEF IInv, TypeOK
  <1> HIDE DEF s, e, c, k, f, u, r, s1, e1, c1, u1
  <1>3. IdsDrawn(s1, e1, c1, f, u1, r)
    BY <1>1, <1>2, Empty DEF Known, CheckpointOf, Typed, IdsDrawn
  <1>4. /\ VolatileOnlyWhileRunning(TRUE, s1, e1)
        /\ FingerprintInForce(TRUE, c1, k)
    BY <1>1, <1>2, Empty DEF Known, CheckpointOf, Typed,
       VolatileOnlyWhileRunning, FingerprintInForce
  <1>5. CopiesNotRevoked(s1, e1, c1, k, r)
    BY <1>1, <1>2, Empty, Zenon DEF Known, CheckpointOf, Typed, IdsDrawn,
       FingerprintInForce, CopiesNotRevoked, ExchangeProgress, AuthInfoSteps,
       LoginSteps
  <1>6. CopiesNotUsed(s1, e1, c1, u1)
    BY <1>1, <1>2, Empty DEF Known, CheckpointOf, Typed, IdsDrawn,
       CopiesNotUsed, ExchangeProgress, AuthInfoSteps
  <1>7. ExchangeProgress(s1, e1, c1)
    BY <1>1, <1>2, Empty DEF Known, CheckpointOf, Typed, IdsDrawn,
       CopiesNotRevoked, ExchangeProgress, AuthInfoSteps, LoginSteps
  <1> QED
    BY <1>1, <1>3, <1>4, <1>5, <1>6, <1>7, Zenon DEF TerminalInv, s, e, c, k,
       f, u, r, s1, e1, c1, u1

\* Logout, first commit.
LEMMA LogoutInv ==
  ASSUME IInv, NEW t \in Terminals, Logout(t)
  PROVE TerminalInv(t)'
  <1> DEFINE s == sessions[t]  e == exchange[t]  c == checkpoint[t]
             k == config[t]  f == fresh[t]  u == served[t]  r == revoked[t]
             s1 == sessions'[t]  e1 == exchange'[t]  f1 == fresh'[t]
  <1>1. /\ e.step = "handle"
        /\ s1.login = s.login
        /\ \/ /\ s1.next = f
              /\ ~s1.auth
              /\ e1.action = "Logout"
              /\ e1.step = "logout_delete"
              /\ e1.prev = s
              /\ e1.reply = f
              /\ f1 = f + 1
           \/ /\ s1 = s
              /\ e1 = Free
              /\ f1 = f
        /\ Running /\ Running'
        /\ config'[t] = k /\ checkpoint'[t] = c
        /\ served'[t] = u /\ revoked'[t] = r
    BY HoldFields, ReleaseFields, SMTT(20)
    DEF Logout, IInv, TypeOK, At, Running, Draw, Session, history
  <1>2. Known(s, e, c, k, f, u, r)
    BY KnownAt DEF IInv
  <1> HIDE DEF s, e, c, k, f, u, r, s1, e1, f1
  <1>3. IdsDrawn(s1, e1, c, f1, u, r)
    BY <1>1, <1>2, Empty DEF Known, Typed, IdsDrawn
  <1>4. /\ VolatileOnlyWhileRunning(TRUE, s1, e1)
        /\ FingerprintInForce(TRUE, c, k)
    BY <1>1, <1>2, Empty, Zenon DEF Known, Typed, VolatileOnlyWhileRunning,
       FingerprintInForce
  <1>5. CopiesNotRevoked(s1, e1, c, k, r)
    BY <1>1, <1>2, Empty, Zenon DEF Known, Typed, IdsDrawn, FingerprintInForce,
       CopiesNotRevoked, ExchangeProgress, AuthInfoSteps, LoginSteps
  <1>6. CopiesNotUsed(s1, e1, c, u)
    BY <1>1, <1>2, Empty, Zenon DEF Known, Typed, IdsDrawn, CopiesNotUsed,
       ExchangeProgress, AuthInfoSteps
  <1>7. ExchangeProgress(s1, e1, c)
    BY <1>1, <1>2, Empty, Zenon DEF Known, Typed, IdsDrawn, CopiesNotRevoked,
       ExchangeProgress, AuthInfoSteps, LoginSteps
  <1> QED
    BY <1>1, <1>3, <1>4, <1>5, <1>6, <1>7, Zenon DEF TerminalInv, s, e, c, k,
       f, u, r, s1, e1, f1

\* Logout, second commit: the checkpoint goes before the session is revoked.
LEMMA LogoutDeleteInv ==
  ASSUME IInv, NEW t \in Terminals, LogoutDelete(t)
  PROVE TerminalInv(t)'
  <1> DEFINE s == sessions[t]  e == exchange[t]  c == checkpoint[t]
             k == config[t]  f == fresh[t]  u == served[t]  r == revoked[t]
             s1 == sessions'[t]  e1 == exchange'[t]  c1 == checkpoint'[t]
             u1 == served'[t]  r1 == revoked'[t]
  <1>1. /\ e.step = "logout_delete"
        /\ \/ /\ c1 = NoCheckpoint
              /\ e1.step = "reply"
              /\ e1.action = e.action
              /\ e1.prev = e.prev
              /\ e1.reply = e.reply
              /\ u1 = e.prev.next
              /\ r1 = e.prev.login
              /\ s1 = NoSession
           \/ /\ c1 = c \/ c1 = NoCheckpoint
              /\ e1 = Free
              /\ u1 = u
              /\ r1 = r
              /\ s1 = s
        /\ Running /\ Running'
        /\ config'[t] = k /\ fresh'[t] = f
    BY AdvanceFields, ReleaseFields, SMTT(20)
    DEF LogoutDelete, IInv, TypeOK, At, Running, Applied, DeletePushSDKSession, Exchange, clocks
  <1>2. Known(s, e, c, k, f, u, r)
    BY KnownAt DEF IInv
  <1> HIDE DEF s, e, c, k, f, u, r, s1, e1, c1, u1, r1
  <1>3. IdsDrawn(s1, e1, c1, f, u1, r1)
    BY <1>1, <1>2, Empty, SMTT(30) DEF Known, Typed, IdsDrawn
  <1>4. /\ VolatileOnlyWhileRunning(TRUE, s1, e1)
        /\ FingerprintInForce(TRUE, c1, k)
    BY <1>1, <1>2, Empty DEF Known, Typed, VolatileOnlyWhileRunning,
       FingerprintInForce
  <1>5. CopiesNotRevoked(s1, e1, c1, k, r1)
    BY <1>1, <1>2, Empty, Zenon DEF Known, Typed, IdsDrawn, FingerprintInForce,
       CopiesNotRevoked, ExchangeProgress, AuthInfoSteps, LoginSteps
  <1>6. CopiesNotUsed(s1, e1, c1, u1)
    BY <1>1, <1>2, Empty, Zenon DEF Known, Typed, IdsDrawn, CopiesNotUsed,
       ExchangeProgress, AuthInfoSteps
  <1>7. ExchangeProgress(s1, e1, c1)
    BY <1>1, <1>2, Empty, Zenon DEF Known, Typed, IdsDrawn, CopiesNotRevoked,
       ExchangeProgress, AuthInfoSteps, LoginSteps
  <1> QED
    BY <1>1, <1>3, <1>4, <1>5, <1>6, <1>7, Zenon DEF TerminalInv, s, e, c, k,
       f, u, r, s1, e1, c1, u1, r1

\* An overdue handshake is removed.
LEMMA ExpireLoginChallengeInv ==
  ASSUME IInv, NEW t \in Terminals, ExpireLoginChallenge(t)
  PROVE TerminalInv(t)'
  <1> DEFINE s == sessions[t]  e == exchange[t]  c == checkpoint[t]
             k == config[t]  f == fresh[t]  u == served[t]  r == revoked[t]
             s1 == sessions'[t]  c1 == checkpoint'[t]
  <1>1. /\ e.step = "free"
        /\ s1 = s \/ s1 = NoSession
        /\ c1 = NoCheckpoint
        /\ Running /\ Running'
        /\ config'[t] = k /\ exchange'[t] = e
        /\ fresh'[t] = f /\ served'[t] = u
        /\ revoked'[t] = r
    BY DEF ExpireLoginChallenge, IInv, TypeOK, At, Running, Applied,
       DeletePushSDKSession, clocks, history
  <1>2. Known(s, e, c, k, f, u, r)
    BY KnownAt DEF IInv
  <1> HIDE DEF s, e, c, k, f, u, r, s1, c1
  <1>3. IdsDrawn(s1, e, c1, f, u, r)
    BY <1>1, <1>2, Empty DEF Known, Typed, IdsDrawn
  <1>4. /\ VolatileOnlyWhileRunning(TRUE, s1, e)
        /\ FingerprintInForce(TRUE, c1, k)
    BY <1>1, <1>2, Empty DEF Known, Typed, VolatileOnlyWhileRunning,
       FingerprintInForce
  <1>5. CopiesNotRevoked(s1, e, c1, k, r)
    BY <1>1, <1>2, Empty, Zenon DEF Known, Typed, IdsDrawn, FingerprintInForce,
       CopiesNotRevoked, ExchangeProgress, AuthInfoSteps, LoginSteps
  <1>6. CopiesNotUsed(s1, e, c1, u)
    BY <1>1, <1>2, Empty, Zenon DEF Known, Typed, IdsDrawn, CopiesNotUsed,
       ExchangeProgress, AuthInfoSteps
  <1>7. ExchangeProgress(s1, e, c1)
    BY <1>1, <1>2, Empty, Zenon DEF Known, Typed, IdsDrawn, CopiesNotRevoked,
       ExchangeProgress, AuthInfoSteps, LoginSteps
  <1> QED
    BY <1>1, <1>3, <1>4, <1>5, <1>6, <1>7, Zenon DEF TerminalInv, s, e, c, k,
       f, u, r, s1, c1
=============================================================================
