--------------------------- MODULE PushSDKSession ---------------------------
(***************************************************************************)
(* The PushSDK session of every configured terminal: the in-memory session *)
(* (internal/pushsdk/session.go), its durable checkpoint and the           *)
(* terminal's connection status (internal/store/store.go), the handlers    *)
(* that move them (internal/pushsdk/service.go), the maintenance sweep,    *)
(* and the restart of the gateway process (cmd/gateway/main.go).           *)
(*                                                                         *)
(* A handler holds its terminal's mutex from the request to the response,  *)
(* so it is a sequence of steps of one exchange per terminal: one step per *)
(* database call, with the memory updates that follow the call.  The       *)
(* process may stop between any two steps, and a database call may fail.   *)
(*                                                                         *)
(* Salts and challenges are fresh random strings; here they are numbers    *)
(* drawn in increasing order per terminal, so "issued later" is "greater". *)
(* A proof (the login password digest, My-Custom-Auth) is named by the     *)
(* challenge it answers.  A deadline is a mark on those numbers: every     *)
(* challenge up to the mark is older than the timeout.                     *)
(***************************************************************************)
EXTENDS Integers, FiniteSets

CONSTANTS
  Terminals,   \* the configured terminals
  MaxId,       \* bound on the salts and challenges drawn per terminal
  MaxConfig,   \* bound on the number of configurations of a terminal
  Faults,      \* database call sites that may fail without effect
  Ambiguous    \* call sites that may report failure after they committed

Sites == {"authinfo", "authinfo_transition", "authinfo_restore", "login",
          "login_transition", "login_restore", "resume", "rotate", "logout",
          "logout_delete", "idle", "expire", "restore_delete"}

ASSUME TerminalsAssumption == IsFiniteSet(Terminals)
ASSUME BoundsAssumption == MaxId \in Nat /\ MaxConfig \in Nat
ASSUME FaultsAssumption == Faults \subseteq Sites /\ Ambiguous \subseteq Sites

VARIABLES
  process,     \* "down", "restoring" or "running": where run() is
  config,      \* config[t]: fingerprint of the configuration of t in force
  sessions,    \* sessions[t]: the entry of the Sessions map, or NoSession
  exchange,    \* exchange[t]: the request that holds the mutex of t
  gauge,       \* the pushsdk_sessions_active gauge
  checkpoint,  \* checkpoint[t]: the pushsdk_sessions row, or NoCheckpoint
  status,      \* status[t]: terminals.connection_status
  fresh,       \* fresh[t]: the next unused salt or challenge
  loginMark,   \* sessions created up to here are past the login deadline
  idleMark,    \* challenges issued up to here are older than the idle timeout
  \* history, read by no handler
  known,       \* known[t]: challenges that reached the terminal
  served,      \* served[t]: latest challenge whose proof was accepted
  loggedIn,    \* loggedIn[t]: latest session whose login completed
  revoked      \* revoked[t]: latest session replaced, logged out or outdated

volatile == <<process, config, sessions, exchange, gauge>>
durable == <<checkpoint, status>>
clocks == <<fresh, loginMark, idleMark>>
history == <<known, served, loggedIn, revoked>>
vars == <<process, config, sessions, exchange, gauge, checkpoint, status,
          fresh, loginMark, idleMark, known, served, loggedIn,
          revoked>>

-----------------------------------------------------------------------------
(* Sessions, checkpoints and exchanges.                                    *)

Session == [login : Nat, next : Nat, auth : BOOLEAN, online : BOOLEAN]

Checkpoint == [login : Nat, next : Nat, auth : BOOLEAN, fingerprint : Nat]

NoSession == [login |-> 0, next |-> 0, auth |-> FALSE, online |-> FALSE]

NoCheckpoint == [login |-> 0, next |-> 0, auth |-> FALSE, fingerprint |-> 0]

Actions == {"none", "AuthInfo", "Login", "Exchange", "Logout"}

Steps == {"free", "authinfo", "authinfo_transition", "authinfo_restore",
          "login", "login_transition", "login_restore", "resume", "handle",
          "rotate", "logout_delete", "reply"}

Exchange == [action : Actions, step : Steps, prev : Session, reply : Nat]

Free == [action |-> "none", step |-> "free", prev |-> NoSession, reply |-> 0]

PersistentState(t, s) ==
  [login |-> s.login, next |-> s.next, auth |-> s.auth,
   fingerprint |-> config[t]]

\* The CHECK of pushsdk_sessions: a handshake row carries no next challenge.
Storable(s) == s.auth \/ s.next = 0

Outcomes(site) ==
  {"ok"} \cup (IF site \in Faults THEN {"failed"} ELSE {})
         \cup (IF site \in Ambiguous THEN {"unknown"} ELSE {})

UpsertOutcomes(site, s) == IF Storable(s) THEN Outcomes(site) ELSE {"failed"}

Applied(o) == o \in {"ok", "unknown"}

UpsertPushSDKSession(t, s, o) ==
  checkpoint' = IF Applied(o)
                  THEN [checkpoint EXCEPT ![t] = PersistentState(t, s)]
                  ELSE checkpoint

DeletePushSDKSession(t, o) ==
  checkpoint' = IF Applied(o) THEN [checkpoint EXCEPT ![t] = NoCheckpoint]
                ELSE checkpoint

TransitionTerminalState(t, to, o) ==
  status' = IF Applied(o) THEN [status EXCEPT ![t] = to] ELSE status

LoginChallengeExpired(t) == sessions[t].login <= loginMark[t]

IsIdle(t) == sessions[t].next <= idleMark[t]

-----------------------------------------------------------------------------
(* The exchange that holds the mutex of a terminal.                        *)

Running == process = "running"

At(t, step) == Running /\ exchange[t].step = step

CanDraw(t) == fresh[t] <= MaxId

Draw(t) == CanDraw(t) /\ fresh' = [fresh EXCEPT ![t] = @ + 1]

Hold(t, action, step, prev, reply) ==
  exchange' = [exchange EXCEPT ![t] = [action |-> action, step |-> step,
                                       prev |-> prev, reply |-> reply]]

Advance(t, step) == exchange' = [exchange EXCEPT ![t].step = step]

Release(t) == exchange' = [exchange EXCEPT ![t] = Free]

-----------------------------------------------------------------------------
(* AuthInfo: a new handshake replaces whatever session there was.          *)

AuthInfo(t) ==
  /\ At(t, "free")
  /\ Draw(t)
  /\ sessions' = [sessions EXCEPT ![t] = [NoSession EXCEPT !.login = fresh[t]]]
  /\ Hold(t, "AuthInfo", "authinfo", sessions[t], fresh[t])
  /\ UNCHANGED <<process, config, gauge, durable, loginMark, idleMark, history>>

AuthInfoPersist(t) ==
  /\ At(t, "authinfo")
  /\ \E o \in Outcomes("authinfo") :
       /\ UpsertPushSDKSession(t, sessions[t], o)
       /\ \/ /\ o = "ok"
             /\ Advance(t, "authinfo_transition")
             /\ UNCHANGED sessions
          \/ /\ o # "ok"
             /\ sessions' = [sessions EXCEPT ![t] = exchange[t].prev]
             /\ Release(t)
  /\ UNCHANGED <<process, config, gauge, status, clocks, history>>

AuthInfoTransition(t) ==
  /\ At(t, "authinfo_transition")
  /\ \E o \in Outcomes("authinfo_transition") :
       /\ TransitionTerminalState(t, "authenticating", o)
       /\ \/ /\ o = "ok"
             /\ gauge' = IF exchange[t].prev.online THEN gauge - 1 ELSE gauge
             /\ revoked' = [revoked EXCEPT ![t] = sessions[t].login - 1]
             /\ Advance(t, "reply")
          \/ /\ o # "ok"
             /\ Advance(t, "authinfo_restore")
             /\ UNCHANGED <<gauge, revoked>>
  /\ UNCHANGED <<process, config, sessions, checkpoint, clocks, known, served,
                 loggedIn>>

\* restoreReplacedSession; its own failure is only logged.
AuthInfoRestore(t) ==
  LET prev == exchange[t].prev IN
  /\ At(t, "authinfo_restore")
  /\ \E o \in UpsertOutcomes("authinfo_restore", prev) :
       /\ \/ prev = NoSession /\ DeletePushSDKSession(t, o)
          \/ prev # NoSession /\ UpsertPushSDKSession(t, prev, o)
       /\ sessions' = IF o = "ok" THEN [sessions EXCEPT ![t] = prev]
                       ELSE sessions
  /\ Release(t)
  /\ UNCHANGED <<process, config, gauge, status, clocks, history>>

-----------------------------------------------------------------------------
(* Login: the terminal answers the login challenge of the handshake.       *)

\* The accepted branch of login(): the rejected ones change no state.
Login(t) ==
  /\ At(t, "free")
  /\ sessions[t] # NoSession
  /\ ~sessions[t].auth
  /\ ~LoginChallengeExpired(t)
  /\ sessions[t].login \in known[t]
  /\ Draw(t)
  /\ sessions' = [sessions EXCEPT ![t].next = fresh[t], ![t].auth = TRUE]
  /\ Hold(t, "Login", "login", sessions[t], fresh[t])
  /\ UNCHANGED <<process, config, gauge, durable, loginMark, idleMark, history>>

RevertLogin(t) ==
  sessions' = [sessions EXCEPT ![t].next = exchange[t].prev.next,
                               ![t].auth = FALSE]

LoginPersist(t) ==
  /\ At(t, "login")
  /\ \E o \in Outcomes("login") :
       /\ UpsertPushSDKSession(t, sessions[t], o)
       /\ \/ o = "ok" /\ Advance(t, "login_transition") /\ UNCHANGED sessions
          \/ o # "ok" /\ RevertLogin(t) /\ Release(t)
  /\ UNCHANGED <<process, config, gauge, status, clocks, history>>

LoginTransition(t) ==
  /\ At(t, "login_transition")
  /\ \E o \in Outcomes("login_transition") :
       /\ TransitionTerminalState(t, "online", o)
       /\ \/ /\ o = "ok"
             /\ sessions' = [sessions EXCEPT ![t].online = TRUE]
             /\ gauge' = gauge + 1
             /\ loggedIn' = [loggedIn EXCEPT ![t] = sessions[t].login]
             /\ Advance(t, "reply")
          \/ /\ o # "ok"
             /\ RevertLogin(t)
             /\ Advance(t, "login_restore")
             /\ UNCHANGED <<gauge, loggedIn>>
  /\ UNCHANGED <<process, config, checkpoint, clocks, known, served, revoked>>

\* Mutant: the handler tries the transition again after its compensation.
LoginRestore_Retries(t) ==
  /\ At(t, "login_restore")
  /\ \E o \in UpsertOutcomes("login_restore", sessions[t]) :
       UpsertPushSDKSession(t, sessions[t], o)
  /\ Advance(t, "login_transition")
  /\ UNCHANGED <<process, config, sessions, gauge, status, clocks, history>>

\* The second persistSession; its failure is only logged.
LoginRestore(t) ==
  /\ At(t, "login_restore")
  /\ \E o \in UpsertOutcomes("login_restore", sessions[t]) :
       UpsertPushSDKSession(t, sessions[t], o)
  /\ Release(t)
  /\ UNCHANGED <<process, config, sessions, gauge, status, clocks, history>>

-----------------------------------------------------------------------------
(* CommandRequest, CommandResult, Event and Logout: the terminal proves    *)
(* the latest challenge.                                                   *)

\* The guards of authenticated(); a request they reject changes no state.
Request(t, action) ==
  /\ At(t, "free")
  /\ action \in {"Exchange", "Logout"}
  /\ sessions[t].auth
  /\ sessions[t].next \in known[t]
  /\ Hold(t, action, IF sessions[t].online THEN "handle" ELSE "resume",
          NoSession, 0)
  /\ UNCHANGED <<process, config, sessions, gauge, durable, clocks, history>>

\* Mutant: a resumed session is not added to the gauge.
Resume_Uncounted(t) ==
  /\ At(t, "resume")
  /\ \E o \in Outcomes("resume") :
       /\ TransitionTerminalState(t, "online", o)
       /\ \/ /\ o = "ok"
             /\ sessions' = [sessions EXCEPT ![t].online = TRUE]
             /\ Advance(t, "handle")
          \/ /\ o # "ok"
             /\ Release(t)
             /\ UNCHANGED sessions
  /\ UNCHANGED <<process, config, gauge, checkpoint, clocks, history>>

\* Mutant: the session goes online although the transition failed.
Resume_IgnoresError(t) ==
  /\ At(t, "resume")
  /\ \E o \in Outcomes("resume") :
       /\ TransitionTerminalState(t, "online", o)
  /\ sessions' = [sessions EXCEPT ![t].online = TRUE]
  /\ gauge' = gauge + 1
  /\ Advance(t, "handle")
  /\ UNCHANGED <<process, config, checkpoint, clocks, history>>

Resume(t) ==
  /\ At(t, "resume")
  /\ \E o \in Outcomes("resume") :
       /\ TransitionTerminalState(t, "online", o)
       /\ \/ /\ o = "ok"
             /\ sessions' = [sessions EXCEPT ![t].online = TRUE]
             /\ gauge' = gauge + 1
             /\ Advance(t, "handle")
          \/ /\ o # "ok"
             /\ Release(t)
             /\ UNCHANGED <<sessions, gauge>>
  /\ UNCHANGED <<process, config, checkpoint, clocks, history>>

\* A body that does not decode or validate, or a failed business transaction.
Reject(t) ==
  /\ At(t, "handle")
  /\ Release(t)
  /\ UNCHANGED <<process, config, sessions, gauge, durable, clocks, history>>

\* Mutant: the response is written before the challenge is persisted.
Handle_Unpersisted(t) ==
  /\ At(t, "handle")
  /\ exchange[t].action = "Exchange"
  /\ Draw(t)
  /\ sessions' = [sessions EXCEPT ![t].next = fresh[t]]
  /\ Hold(t, "Exchange", "reply", sessions[t], fresh[t])
  /\ served' = [served EXCEPT ![t] = sessions[t].next]
  /\ UNCHANGED <<process, config, gauge, durable, loginMark, idleMark, known,
                 loggedIn, revoked>>

\* The claim, result or event batch committed: IssueNextChallenge.
Handle(t) ==
  /\ At(t, "handle")
  /\ exchange[t].action = "Exchange"
  /\ Draw(t)
  /\ sessions' = [sessions EXCEPT ![t].next = fresh[t]]
  /\ Hold(t, "Exchange", "rotate", sessions[t], fresh[t])
  /\ UNCHANGED <<process, config, gauge, durable, loginMark, idleMark, history>>

\* Mutant: a failed checkpoint leaves the new challenge in memory.
Rotate_KeepsNewChallenge(t) ==
  /\ At(t, "rotate")
  /\ \E o \in Outcomes("rotate") :
       /\ UpsertPushSDKSession(t, sessions[t], o)
       /\ \/ /\ o = "ok"
             /\ served' = [served EXCEPT ![t] = exchange[t].prev.next]
             /\ Advance(t, "reply")
          \/ /\ o # "ok"
             /\ Release(t)
             /\ UNCHANGED served
  /\ UNCHANGED <<process, config, sessions, gauge, status, clocks, known,
                 loggedIn, revoked>>

Rotate(t) ==
  /\ At(t, "rotate")
  /\ \E o \in Outcomes("rotate") :
       /\ UpsertPushSDKSession(t, sessions[t], o)
       /\ \/ /\ o = "ok"
             /\ served' = [served EXCEPT ![t] = exchange[t].prev.next]
             /\ Advance(t, "reply")
             /\ UNCHANGED sessions
          \/ /\ o # "ok"
             /\ sessions' = [sessions EXCEPT ![t].next = exchange[t].prev.next]
             /\ Release(t)
             /\ UNCHANGED served
  /\ UNCHANGED <<process, config, gauge, status, clocks, known, loggedIn,
                 revoked>>

Logout(t) ==
  /\ At(t, "handle")
  /\ exchange[t].action = "Logout"
  /\ \E o \in Outcomes("logout") :
       /\ TransitionTerminalState(t, "offline", o)
       /\ \/ /\ o = "ok"
             /\ Draw(t)
             /\ sessions' = [sessions EXCEPT ![t].next = fresh[t],
                                             ![t].auth = FALSE,
                                             ![t].online = FALSE]
             /\ gauge' = gauge - 1
             /\ Hold(t, "Logout", "logout_delete", sessions[t], fresh[t])
          \/ /\ o # "ok"
             /\ Release(t)
             /\ UNCHANGED <<sessions, gauge, fresh>>
  /\ UNCHANGED <<process, config, checkpoint, loginMark, idleMark, history>>

\* Mutant: Logout drops the map entry and leaves the checkpoint row.
LogoutDelete_MemoryOnly(t) ==
  /\ At(t, "logout_delete")
  /\ \E o \in Outcomes("logout_delete") :
       /\ \/ /\ o = "ok"
             /\ sessions' = [sessions EXCEPT ![t] = NoSession]
             /\ served' = [served EXCEPT ![t] = exchange[t].prev.next]
             /\ revoked' = [revoked EXCEPT ![t] = exchange[t].prev.login]
             /\ Advance(t, "reply")
          \/ /\ o # "ok"
             /\ Release(t)
             /\ UNCHANGED <<sessions, served, revoked>>
  /\ UNCHANGED <<process, config, gauge, checkpoint, status, clocks,
                 known, loggedIn>>

\* removeSession: the row first, then the entry of the map.
LogoutDelete(t) ==
  /\ At(t, "logout_delete")
  /\ \E o \in Outcomes("logout_delete") :
       /\ DeletePushSDKSession(t, o)
       /\ \/ /\ o = "ok"
             /\ sessions' = [sessions EXCEPT ![t] = NoSession]
             /\ served' = [served EXCEPT ![t] = exchange[t].prev.next]
             /\ revoked' = [revoked EXCEPT ![t] = exchange[t].prev.login]
             /\ Advance(t, "reply")
          \/ /\ o # "ok"
             /\ Release(t)
             /\ UNCHANGED <<sessions, served, revoked>>
  /\ UNCHANGED <<process, config, gauge, status, clocks, known,
                 loggedIn>>

\* respond: the challenge leaves the gateway, and may be lost on the way.
Reply(t) ==
  /\ At(t, "reply")
  /\ \/ known' = [known EXCEPT ![t] = @ \cup {exchange[t].reply}]
     \/ UNCHANGED known
  /\ Release(t)
  /\ UNCHANGED <<process, config, sessions, gauge, durable, clocks, served,
                 loggedIn, revoked>>

-----------------------------------------------------------------------------
(* The maintenance sweep.  TryLock skips a terminal whose mutex is held;   *)
(* a failed call changes nothing and is tried again by the next sweep.     *)

\* Mutant: an idle terminal gets a status of its own.
MarkSessionIdle_OwnStatus(t) ==
  /\ At(t, "free")
  /\ sessions[t].auth /\ sessions[t].online /\ IsIdle(t)
  /\ \E o \in Outcomes("idle") :
       /\ Applied(o)
       /\ TransitionTerminalState(t, "idle", o)
       /\ \/ /\ o = "ok"
             /\ sessions' = [sessions EXCEPT ![t].online = FALSE]
             /\ gauge' = gauge - 1
          \/ o # "ok" /\ UNCHANGED <<sessions, gauge>>
  /\ UNCHANGED <<process, config, exchange, checkpoint, clocks, history>>

MarkSessionIdle(t) ==
  /\ At(t, "free")
  /\ sessions[t].auth /\ sessions[t].online /\ IsIdle(t)
  /\ \E o \in Outcomes("idle") :
       /\ Applied(o)
       /\ TransitionTerminalState(t, "offline", o)
       /\ \/ /\ o = "ok"
             /\ sessions' = [sessions EXCEPT ![t].online = FALSE]
             /\ gauge' = gauge - 1
          \/ o # "ok" /\ UNCHANGED <<sessions, gauge>>
  /\ UNCHANGED <<process, config, exchange, checkpoint, clocks, history>>

\* Mutant: the handshake is dropped and the status left alone.
ExpireLoginChallenge_KeepsStatus(t) ==
  /\ At(t, "free")
  /\ sessions[t] # NoSession
  /\ ~sessions[t].auth
  /\ LoginChallengeExpired(t)
  /\ \E o \in Outcomes("expire") :
       /\ Applied(o)
       /\ DeletePushSDKSession(t, o)
       /\ sessions' = IF o = "ok" THEN [sessions EXCEPT ![t] = NoSession]
                       ELSE sessions
  /\ UNCHANGED <<process, config, exchange, gauge, status, clocks,
                 history>>

\* From the sweep and from a Login past its deadline alike.
ExpireLoginChallenge(t) ==
  /\ At(t, "free")
  /\ sessions[t] # NoSession
  /\ ~sessions[t].auth
  /\ LoginChallengeExpired(t)
  /\ \E o \in Outcomes("expire") :
       /\ Applied(o)
       /\ DeletePushSDKSession(t, o)
       /\ status' = [status EXCEPT ![t] = "offline"]
       /\ sessions' = IF o = "ok" THEN [sessions EXCEPT ![t] = NoSession]
                       ELSE sessions
  /\ UNCHANGED <<process, config, exchange, gauge, clocks, history>>

-----------------------------------------------------------------------------
(* Time, and the life of the gateway process.                              *)

LoginDeadlinePasses(t) ==
  /\ \E m \in loginMark[t] + 1 .. fresh[t] - 1 :
       loginMark' = [loginMark EXCEPT ![t] = m]
  /\ UNCHANGED <<volatile, durable, fresh, idleMark, history>>

IdleTimeoutPasses(t) ==
  /\ \E m \in idleMark[t] + 1 .. fresh[t] - 1 :
       idleMark' = [idleMark EXCEPT ![t] = m]
  /\ UNCHANGED <<volatile, durable, fresh, loginMark, history>>

Crash ==
  /\ process # "down"
  /\ process' = "down"
  /\ sessions' = [t \in Terminals |-> NoSession]
  /\ exchange' = [t \in Terminals |-> Free]
  /\ gauge' = 0
  /\ UNCHANGED <<config, durable, clocks, history>>

\* The configuration is read, and SeedConfiguredTerminals commits.
Boot ==
  /\ process = "down"
  /\ process' = "restoring"
  /\ \E changed \in SUBSET {t \in Terminals : config[t] < MaxConfig} :
       /\ config' = [t \in Terminals |->
                       IF t \in changed THEN config[t] + 1 ELSE config[t]]
       /\ revoked' = [t \in Terminals |->
                        IF t \in changed THEN fresh[t] - 1 ELSE revoked[t]]
  /\ status' = [t \in Terminals |-> "offline"]
  /\ UNCHANGED <<sessions, exchange, gauge, checkpoint, clocks, known,
                 served, loggedIn>>

\* Mutant: a row of another configuration is loaded.
Outdated_IgnoresFingerprint(t) ==
  /\ checkpoint[t] # NoCheckpoint
  /\ ~checkpoint[t].auth
  /\ checkpoint[t].login <= loginMark[t]

\* Rows that Restore deletes instead of loading.
Outdated(t) ==
  /\ checkpoint[t] # NoCheckpoint
  /\ \/ checkpoint[t].fingerprint # config[t]
     \/ ~checkpoint[t].auth /\ checkpoint[t].login <= loginMark[t]

RestoreSessions ==
  /\ process = "restoring"
  /\ process' = "running"
  /\ checkpoint' = [t \in Terminals |->
                      IF Outdated(t) THEN NoCheckpoint ELSE checkpoint[t]]
  /\ sessions' = [t \in Terminals |->
                    IF Outdated(t) THEN NoSession
                    ELSE [login |-> checkpoint[t].login,
                          next |-> checkpoint[t].next,
                          auth |-> checkpoint[t].auth, online |-> FALSE]]
  /\ gauge' = 0
  /\ UNCHANGED <<config, exchange, status, clocks, history>>

\* A delete fails: run() returns, the rows already deleted stay deleted.
RestoreAborted ==
  /\ process = "restoring"
  /\ "restore_delete" \in Faults \cup Ambiguous
  /\ \E deleted \in SUBSET {t \in Terminals : Outdated(t)} :
       checkpoint' = [t \in Terminals |->
                       IF t \in deleted THEN NoCheckpoint ELSE checkpoint[t]]
  /\ process' = "down"
  /\ UNCHANGED <<config, sessions, exchange, gauge, status, clocks,
                 history>>

-----------------------------------------------------------------------------
(* The specification.                                                      *)

Init ==
  /\ process = "down"
  /\ config = [t \in Terminals |-> 1]
  /\ sessions = [t \in Terminals |-> NoSession]
  /\ exchange = [t \in Terminals |-> Free]
  /\ gauge = 0
  /\ checkpoint = [t \in Terminals |-> NoCheckpoint]
  /\ status = [t \in Terminals |-> "offline"]
  /\ fresh = [t \in Terminals |-> 1]
  /\ loginMark = [t \in Terminals |-> 0]
  /\ idleMark = [t \in Terminals |-> 0]
  /\ known = [t \in Terminals |-> {}]
  /\ served = [t \in Terminals |-> 0]
  /\ loggedIn = [t \in Terminals |-> 0]
  /\ revoked = [t \in Terminals |-> 0]

\* The steps of the exchange that holds the mutex of t.
ExchangeStep(t) ==
  \/ AuthInfoPersist(t) \/ AuthInfoTransition(t) \/ AuthInfoRestore(t)
  \/ LoginPersist(t) \/ LoginTransition(t) \/ LoginRestore(t)
  \/ Resume(t) \/ Reject(t) \/ Handle(t) \/ Rotate(t)
  \/ Logout(t) \/ LogoutDelete(t) \/ Reply(t)

TerminalStep(t) ==
  \/ AuthInfo(t) \/ Login(t)
  \/ \E action \in {"Exchange", "Logout"} : Request(t, action)

MaintenanceStep(t) == MarkSessionIdle(t) \/ ExpireLoginChallenge(t)

TimeStep(t) == LoginDeadlinePasses(t) \/ IdleTimeoutPasses(t)

Next ==
  \/ \E t \in Terminals : TerminalStep(t) \/ ExchangeStep(t)
                          \/ MaintenanceStep(t) \/ TimeStep(t)
  \/ Crash \/ Boot \/ RestoreSessions \/ RestoreAborted

Spec == Init /\ [][Next]_vars

\* Every database call returns and every response write ends (the server has
\* read and write timeouts), the clock runs, the supervisor restarts the
\* process, and of the sweeps, one every five seconds, infinitely many find
\* the mutex free and the database answering.
Fairness ==
  /\ \A t \in Terminals :
       /\ WF_vars(ExchangeStep(t))
       /\ SF_vars(MaintenanceStep(t))
       /\ WF_vars(LoginDeadlinePasses(t))
       /\ WF_vars(IdleTimeoutPasses(t))
  /\ WF_vars(Boot) /\ WF_vars(RestoreSessions)

FairSpec == Spec /\ Fairness

-----------------------------------------------------------------------------
(* Properties.                                                             *)

\* Every variable keeps its type; statuses are those of the terminals table.
TypeOK ==
  /\ process \in {"down", "restoring", "running"}
  /\ config \in [Terminals -> Nat]
  /\ sessions \in [Terminals -> Session]
  /\ exchange \in [Terminals -> Exchange]
  /\ gauge \in Int
  /\ checkpoint \in [Terminals -> Checkpoint]
  /\ status \in [Terminals -> {"offline", "authenticating", "online"}]
  /\ fresh \in [Terminals -> Nat \ {0}]
  /\ loginMark \in [Terminals -> Nat]
  /\ idleMark \in [Terminals -> Nat]
  /\ known \in [Terminals -> SUBSET Nat]
  /\ served \in [Terminals -> Nat]
  /\ loggedIn \in [Terminals -> Nat]
  /\ revoked \in [Terminals -> Nat]

\* An already-used proof is never accepted again (README, "An already-used
\* proof ... receives 401"): the challenge that authenticated() compares with,
\* and the one a restart would load, are newer than every proof whose exchange
\* was committed, whatever calls failed and whenever the process stopped.
UsedProofStaysUsed ==
  \A t \in Terminals :
    /\ sessions[t].auth => sessions[t].next > served[t]
    /\ checkpoint[t].auth => checkpoint[t].next > served[t]

\* A session that was replaced by an answered AuthInfo, ended by a completed
\* Logout or made under another configuration never comes back, neither from
\* the compensation of a failed handler nor from the checkpoint.
RevokedSessionStaysRevoked ==
  Running =>
    \A t \in Terminals :
      /\ sessions[t] # NoSession => sessions[t].login > revoked[t]
      /\ checkpoint[t] # NoCheckpoint => checkpoint[t].login > revoked[t]

\* The gateway commits before it answers: when respond() is about to write a
\* challenge, the checkpoint that a restart would load already holds it, and
\* after Logout there is no checkpoint.
CommittedBeforeReply ==
  \A t \in Terminals :
    At(t, "reply") =>
      CASE exchange[t].action = "AuthInfo" ->
             checkpoint[t].login = exchange[t].reply /\ ~checkpoint[t].auth
        [] exchange[t].action \in {"Login", "Exchange"} ->
             checkpoint[t].next = exchange[t].reply /\ checkpoint[t].auth
        [] OTHER -> checkpoint[t] = NoCheckpoint

\* When no commit of a challenge is reported as failed (RowOutcomesKnown), memory
\* and database agree between exchanges on every authenticated session, so that
\* a crash loses no challenge a terminal holds: failed calls are compensated in
\* the right way.
CheckpointMatchesSession ==
  \A t \in Terminals :
    At(t, "free") /\ sessions[t].auth =>
      checkpoint[t] = PersistentState(t, sessions[t])

\* When no commit that ends "online" is reported as failed (StatusOutcomesKnown),
\* a session that the process counts as online is shown as online to
\* administrators and may be sent commands.
OnlineSessionIsShownOnline ==
  \A t \in Terminals :
    At(t, "free") /\ sessions[t].online => status[t] = "online"

OnlineSessions == {t \in Terminals : sessions[t].online}

\* The gauge is never below the number of online sessions, in the middle of an
\* exchange included.
GaugeCoversOnline == gauge >= Cardinality(OnlineSessions)

\* The gauge counts the online sessions whenever no exchange is in progress
\* (README, "pushsdk_sessions_active counts online sessions").
GaugeCountsOnline ==
  (\A t \in Terminals : exchange[t].step = "free")
    => gauge = Cardinality(OnlineSessions)

\* A completed Login cannot be replayed; a new login must begin with AuthInfo
\* (README, and the comment in login()): login() accepts only a handshake that
\* has not completed before.
CompletedLoginIsNotReplayed ==
  \A t \in Terminals :
    exchange[t].step = "login" => sessions[t].login > loggedIn[t]

\* The mutex of a terminal is always released again: every handler comes to its
\* end, through the calls that fail and those that undo them (ServeHTTP).
ExchangesEnd ==
  \A t \in Terminals : (exchange[t].step # "free") ~> (exchange[t].step = "free")

\* A terminal that falls silent is eventually shown as offline, whether it
\* stopped while polling, inside a handshake or across a restart.
SilentTerminalGoesOffline ==
  \A t \in Terminals : []<>(status[t] = "offline")

-----------------------------------------------------------------------------
(* The inductive invariant behind UsedProofStaysUsed,                      *)
(* RevokedSessionStaysRevoked and CommittedBeforeReply, one part per idea. *)

\* The parts speak of one terminal through values: its session s, exchange e,
\* checkpoint c, configuration k, next fresh number f, latest used challenge u
\* and latest revoked session r.

AuthInfoSteps == {"authinfo", "authinfo_transition", "authinfo_restore"}
LoginSteps == {"login", "login_transition", "login_restore"}

\* Everything in use was drawn before.
IdsDrawn(s, e, c, f, u, r) ==
  /\ s.login < f /\ s.next < f
  /\ c.login < f /\ c.next < f
  /\ e.prev.login < f /\ e.prev.next < f
  /\ u < f /\ r < f

\* Only a running process has sessions and exchanges.
VolatileOnlyWhileRunning(run, s, e) == run \/ (s = NoSession /\ e = Free)

\* Rows carry a fingerprint that is or was in force; while running, only the
\* current one.
FingerprintInForce(run, c, k) ==
  /\ k > 0
  /\ c.fingerprint <= k
  /\ run /\ c # NoCheckpoint => c.fingerprint = k

\* No copy of a session, in memory, in the database or held back by AuthInfo
\* for its compensation, is revoked.
CopiesNotRevoked(s, e, c, k, r) ==
  /\ s # NoSession => s.login > r
  /\ c # NoCheckpoint /\ c.fingerprint = k => c.login > r
  /\ e.step \in AuthInfoSteps /\ e.prev # NoSession => e.prev.login > r

\* No copy of a challenge that may be proved again has been used.
CopiesNotUsed(s, e, c, u) ==
  /\ s.auth => s.next > u
  /\ c.auth => c.next > u
  /\ e.step \in AuthInfoSteps \cup {"rotate", "logout_delete"} /\ e.prev.auth
       => e.prev.next > u

\* What the exchange in progress has done so far.
ExchangeProgress(s, e, c) ==
  /\ e.step \in AuthInfoSteps =>
       /\ e.action = "AuthInfo"
       /\ s.login = e.reply /\ s # NoSession /\ ~s.auth /\ s.next = 0
       /\ e.prev.login < e.reply
  /\ e.step \in {"authinfo_transition", "authinfo_restore"} =>
       c.login = s.login /\ ~c.auth
  /\ e.step \in LoginSteps => e.action = "Login" /\ s # NoSession
  /\ e.step \in {"login", "login_transition"} => s.auth /\ s.next = e.reply
  /\ e.step = "login_transition" => c.next = s.next /\ c.auth
  /\ e.step = "login_restore" => ~s.auth
  /\ e.step \in {"resume", "handle"} => s.auth
  /\ e.step = "rotate" =>
       /\ e.action = "Exchange"
       /\ s.auth /\ s.next = e.reply
       /\ e.prev.auth /\ e.prev.next < e.reply
  /\ e.step = "logout_delete" => e.action = "Logout" /\ e.prev.auth
  /\ e.step = "reply" =>
       /\ e.action = "AuthInfo" => c.login = e.reply /\ ~c.auth
       /\ e.action \in {"Login", "Exchange"} => c.next = e.reply /\ c.auth
       /\ e.action \notin {"AuthInfo", "Login", "Exchange"} => c = NoCheckpoint

TerminalInv(t) ==
  LET s == sessions[t]
      e == exchange[t]
      c == checkpoint[t]
  IN
  /\ IdsDrawn(s, e, c, fresh[t], served[t], revoked[t])
  /\ VolatileOnlyWhileRunning(Running, s, e)
  /\ FingerprintInForce(Running, c, config[t])
  /\ CopiesNotRevoked(s, e, c, config[t], revoked[t])
  /\ CopiesNotUsed(s, e, c, served[t])
  /\ ExchangeProgress(s, e, c)

IInv == TypeOK /\ \A t \in Terminals : TerminalInv(t)

-----------------------------------------------------------------------------
(* The inductive invariants behind CheckpointMatchesSession,               *)
(* OnlineSessionIsShownOnline and GaugeCoversOnline.  Here st is the       *)
(* connection status of the terminal.                                      *)

\* The commits whose outcome the handlers must know for memory to agree with
\* the checkpoint, and with the connection status.
RowOutcomesKnown == Ambiguous \cap {"authinfo", "rotate"} = {}
StatusOutcomesKnown ==
  Ambiguous \cap {"authinfo_transition", "logout", "idle"} = {}

\* The calls that must not fail for the gauge to be exact, and for a completed
\* Login to be the last one of its handshake.
ReplacementIsUndone == "authinfo_restore" \notin Faults \cup Ambiguous
LogoutIsFinal == "logout_delete" \notin Faults \cup Ambiguous

\* Row c checkpoints session s under configuration k.
CheckpointOf(c, s, k) ==
  c.login = s.login /\ c.next = s.next /\ c.auth = s.auth /\ c.fingerprint = k

\* A session is online only while it is authenticated, from the commit of its
\* Login or of its resumption on.
OnlineProgress(s, e) ==
  /\ s.online => s.auth
  /\ e.step \in AuthInfoSteps => ~s.online /\ (e.prev.online => e.prev.auth)
  /\ e.step \in LoginSteps => ~s.online
  /\ e.step = "resume" => ~s.online
  /\ e.step = "handle" => s.online
  /\ e.step = "logout_delete" => ~s.auth

\* The session, or the one that AuthInfo would put back, is shown as it is.
ShownAsHeld(s, e, st) ==
  /\ s.online => st = "online"
  /\ e.step \in AuthInfoSteps /\ e.prev.online => st = "online"

\* The row holds the session, or the one that a failed commit would put back.
RowAsHeld(s, e, c, k) ==
  /\ e.step \in {"free", "login_transition", "resume", "handle", "reply"} /\ s.auth
       => CheckpointOf(c, s, k)
  /\ e.step = "authinfo" /\ e.prev.auth => CheckpointOf(c, e.prev, k)
  /\ e.step = "rotate" => CheckpointOf(c, e.prev, k) /\ s.login = e.prev.login

\* No handshake that may be completed, in memory, in the database or held back
\* by AuthInfo, is one whose Login completed (l is the latest of those).
HandshakeOpen(s, e, c, l) ==
  /\ s # NoSession /\ (~s.auth \/ e.step \in LoginSteps)
       /\ e.step # "logout_delete" => s.login > l
  /\ c # NoCheckpoint /\ ~c.auth => c.login > l
  /\ e.step \in AuthInfoSteps /\ e.prev # NoSession /\ ~e.prev.auth
       => e.prev.login > l

\* The sessions that the gauge still counts: AuthInfo takes the replaced one
\* off the gauge only when its second commit succeeds.
CountedAt(s, e) == s.online \/ (e.step \in AuthInfoSteps /\ e.prev.online)
Counted == {t \in Terminals : CountedAt(sessions[t], exchange[t])}

OnlineInv == \A t \in Terminals : OnlineProgress(sessions[t], exchange[t])
StatusInv ==
  \A t \in Terminals : ShownAsHeld(sessions[t], exchange[t], status[t])
RowInv ==
  \A t \in Terminals :
    RowAsHeld(sessions[t], exchange[t], checkpoint[t], config[t])
HandshakeInv ==
  \A t \in Terminals :
    /\ loggedIn[t] < fresh[t]
    /\ HandshakeOpen(sessions[t], exchange[t], checkpoint[t], loggedIn[t])
GaugeInv ==
  /\ gauge >= Cardinality(Counted)
  /\ ReplacementIsUndone => gauge = Cardinality(Counted)

=============================================================================
