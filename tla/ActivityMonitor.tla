--------------------------- MODULE ActivityMonitor ---------------------------
(***************************************************************************)
(* The gateway activity log and the live monitor.  Handlers insert an      *)
(* activity in a transaction and, after the commit, broadcast it through   *)
(* the hub (internal/monitor/hub.go) to the channel of every open monitor  *)
(* socket (monitorSocket in internal/httpapi/server.go).  A socket first   *)
(* subscribes, then reads the newest activities from the log, and then     *)
(* forwards its channel.                                                   *)
(***************************************************************************)
EXTENDS Integers, Sequences, FiniteSets, Functions

CONSTANTS
  Publishers,     \* the goroutines that record activities
  Viewers,        \* monitor sockets, each reconnecting when it has closed
  ChannelSize,    \* slots of a client's channel (64 in the code)
  HistoryLimit,   \* monitorHistoryLimit (100 in the code)
  MaxActivities   \* bound: activities recorded in a behaviour

ASSUME MonitorAssumption ==
  /\ ChannelSize \in Nat \ {0} /\ HistoryLimit \in Nat \ {0}
  /\ MaxActivities \in Nat

\* An activity is known by its place in the order of occurred_at, the time at
\* which its transaction began: transactions may commit in another order.
Activities == 1 .. MaxActivities
None == 0

VARIABLES
  begun,      \* transactions begun so far
  committed,  \* gateway_activities
  work,       \* work[p]: what publisher p is doing
  clients,    \* Hub.clients
  queue,      \* queue[v]: the channel of socket v
  socket,     \* socket[v]: where monitorSocket is for v
  peer,       \* peer[v]: the browser reads, has stalled or is gone
  todo,       \* todo[v]: history still to be written, oldest first
  settled,    \* history: activities written to v since it subscribed, dropped by
              \*   its full channel, or beyond HistoryLimit when it read the log
  silent      \* history: activities whose handler does not broadcast them

log == <<begun, committed, silent>>
browser == <<peer, todo, settled>>
vars == <<log, work, clients, queue, socket, browser>>

Idle == [step |-> "idle", activity |-> None, rest |-> {}]

-----------------------------------------------------------------------------
\* Publishers.

\* A transaction that will insert an activity begins.  Route, retry and
\* backfill administration records its activities without broadcasting them.
Begin(p) ==
  /\ work[p] = Idle /\ begun < MaxActivities
  /\ begun' = begun + 1
  /\ work' = [work EXCEPT ![p].step = "open", ![p].activity = begun + 1]
  /\ \/ UNCHANGED silent
     \/ silent' = silent \cup {begun + 1}
  /\ UNCHANGED <<committed, clients, queue, socket, browser>>

\* The transaction fails: the handler returns its error and broadcasts nothing.
Rollback(p) ==
  /\ work[p].step = "open"
  /\ work' = [work EXCEPT ![p] = Idle]
  /\ UNCHANGED <<log, clients, queue, socket, browser>>

Commit(p) ==
  /\ work[p].step = "open"
  /\ committed' = committed \cup {work[p].activity}
  /\ work' = [work EXCEPT ![p] =
       IF work[p].activity \in silent THEN Idle ELSE [@ EXCEPT !.step = "committed"]]
  /\ UNCHANGED <<begun, silent, clients, queue, socket, browser>>

\* Publish takes the read lock and sees the clients of that moment.
Publish(p) ==
  /\ work[p].step = "committed"
  /\ work' = [work EXCEPT ![p].step = "sending", ![p].rest = clients]
  /\ UNCHANGED <<log, clients, queue, socket, browser>>

\* One client of the loop: a full channel drops the message.
Send_Blocks(p, v) ==
  /\ work[p].step = "sending" /\ v \in work[p].rest
  /\ Len(queue[v]) < ChannelSize
  /\ work' = [work EXCEPT ![p].rest = @ \ {v}]
  /\ queue' = [queue EXCEPT ![v] = Append(@, work[p].activity)]
  /\ UNCHANGED <<log, clients, socket, browser>>
Send(p, v) ==
  /\ work[p].step = "sending" /\ v \in work[p].rest
  /\ work' = [work EXCEPT ![p].rest = @ \ {v}]
  /\ \/ /\ Len(queue[v]) < ChannelSize
        /\ queue' = [queue EXCEPT ![v] = Append(@, work[p].activity)]
        /\ UNCHANGED settled
     \/ /\ Len(queue[v]) >= ChannelSize
        /\ settled' = [settled EXCEPT ![v] = @ \cup {work[p].activity}]
        /\ UNCHANGED queue
  /\ UNCHANGED <<log, clients, socket, peer, todo>>

\* The loop ends and the read lock is released.
Published(p) ==
  /\ work[p].step = "sending" /\ work[p].rest = {}
  /\ work' = [work EXCEPT ![p] = Idle]
  /\ UNCHANGED <<log, clients, queue, socket, browser>>

\* The write lock waits for every reader.
Unlocked_Always == TRUE
Unlocked == \A p \in Publishers : work[p].step # "sending"

-----------------------------------------------------------------------------
\* monitorSocket.

\* The order of its first steps, and then the loop.
Following_HistoryFirst ==
  [upgraded |-> "history", history |-> "subscribe", subscribe |-> "live"]
Following ==
  [upgraded |-> "subscribe", subscribe |-> "history", history |-> "live"]

Advance(v) == socket' = [socket EXCEPT ![v] = Following[socket[v]]]

\* Upgrade.
Connect(v) ==
  /\ socket[v] = "closed"
  /\ socket' = [socket EXCEPT ![v] = Following["upgraded"]]
  /\ peer' = [peer EXCEPT ![v] = "reading"]
  /\ UNCHANGED <<log, work, clients, queue, todo, settled>>

Subscribe(v) ==
  /\ socket[v] = "subscribe" /\ Unlocked
  /\ clients' = clients \cup {v}
  /\ queue' = [queue EXCEPT ![v] = <<>>]
  /\ Advance(v)
  /\ UNCHANGED <<log, work, browser>>

\* GatewayActivities: the newest HistoryLimit of the committed rows.
Newest(S) == {a \in S : Cardinality({b \in S : b > a}) < HistoryLimit}
Ascending(S) ==
  [i \in 1 .. Cardinality(S) |->
     CHOOSE a \in S : Cardinality({b \in S : b < a}) = i - 1]
ReadHistory(v) ==
  /\ socket[v] = "history"
  /\ todo' = [todo EXCEPT ![v] = Ascending(Newest(committed))]
  /\ settled' = [settled EXCEPT ![v] = @ \cup (committed \ Newest(committed))]
  /\ Advance(v)
  /\ UNCHANGED <<log, work, clients, queue, peer>>

\* The query fails, or a write does: the handler returns, the connection is
\* closed and the deferred unsubscribe runs.
Leave(v) ==
  /\ socket' = [socket EXCEPT ![v] = "leaving"]
  /\ peer' = [peer EXCEPT ![v] = "gone"]
  /\ todo' = [todo EXCEPT ![v] = <<>>]
  /\ settled' = [settled EXCEPT ![v] = {}]
HistoryFails(v) ==
  /\ socket[v] = "history"
  /\ Leave(v)
  /\ UNCHANGED <<log, work, clients, queue>>

\* One message is written: a history row while there is one, then the channel's.
\* A browser that has stalled blocks the write.
Write(v) ==
  /\ socket[v] = "live" /\ peer[v] = "reading"
  /\ \/ /\ todo[v] # <<>>
        /\ todo' = [todo EXCEPT ![v] = Tail(@)]
        /\ settled' = [settled EXCEPT ![v] = @ \cup {Head(todo[v])}]
        /\ UNCHANGED queue
     \/ /\ todo[v] = <<>> /\ queue[v] # <<>>
        /\ queue' = [queue EXCEPT ![v] = Tail(@)]
        /\ settled' = [settled EXCEPT ![v] = @ \cup {Head(queue[v])}]
        /\ UNCHANGED todo
  /\ UNCHANGED <<log, work, clients, socket, peer>>

\* The write to a browser that is gone fails, with the row or the message that
\* was taken for it; so does the 25-second ping when there is neither.
WriteFails(v) ==
  /\ socket[v] = "live" /\ peer[v] = "gone"
  /\ \/ todo[v] # <<>> /\ UNCHANGED queue
     \/ /\ todo[v] = <<>> /\ queue[v] # <<>>
        /\ queue' = [queue EXCEPT ![v] = Tail(@)]
  /\ Leave(v)
  /\ UNCHANGED <<log, work, clients>>

Ping_Never(v) == FALSE /\ UNCHANGED vars
Ping(v) ==
  /\ socket[v] = "live" /\ peer[v] = "gone" /\ todo[v] = <<>>
  /\ Leave(v)
  /\ UNCHANGED <<log, work, clients, queue>>

\* unsubscribe: the client is removed and its channel closed.
Unsubscribe(v) ==
  /\ socket[v] = "leaving" /\ Unlocked
  /\ clients' = clients \ {v}
  /\ queue' = [queue EXCEPT ![v] = <<>>]
  /\ socket' = [socket EXCEPT ![v] = "closed"]
  /\ UNCHANGED <<log, work, browser>>

\* The browser stalls, reads on, or goes away.
PeerChanges(v) ==
  /\ socket[v] \in {"subscribe", "history", "live"} /\ peer[v] # "gone"
  /\ peer' \in {[peer EXCEPT ![v] = x] : x \in {"reading", "stalled", "gone"} \ {peer[v]}}
  /\ UNCHANGED <<log, work, clients, queue, socket, todo, settled>>

\* The process ends and is started again: the log is all that is left.
Restart ==
  /\ work' = [p \in Publishers |-> Idle]
  /\ clients' = {} /\ queue' = [v \in Viewers |-> <<>>]
  /\ socket' = [v \in Viewers |-> "closed"]
  /\ peer' = [v \in Viewers |-> "gone"]
  /\ todo' = [v \in Viewers |-> <<>>] /\ settled' = [v \in Viewers |-> {}]
  /\ UNCHANGED log

-----------------------------------------------------------------------------
Init ==
  /\ begun = 0 /\ committed = {} /\ silent = {}
  /\ work = [p \in Publishers |-> Idle]
  /\ clients = {} /\ queue = [v \in Viewers |-> <<>>]
  /\ socket = [v \in Viewers |-> "closed"]
  /\ peer = [v \in Viewers |-> "gone"]
  /\ todo = [v \in Viewers |-> <<>>] /\ settled = [v \in Viewers |-> {}]

Broadcast(p) == Publish(p) \/ (\E v \in Viewers : Send(p, v)) \/ Published(p)
Forward(v) ==
  ReadHistory(v) \/ HistoryFails(v) \/ Write(v) \/ WriteFails(v) \/ Ping(v)

Next ==
  \/ \E p \in Publishers : Begin(p) \/ Rollback(p) \/ Commit(p) \/ Broadcast(p)
  \/ \E v \in Viewers :
       \/ Connect(v) \/ Subscribe(v) \/ Forward(v) \/ Unsubscribe(v)
       \/ PeerChanges(v)
  \/ Restart

Spec == Init /\ [][Next]_vars

\* Goroutines run on.  Nothing is assumed of browsers, transactions and the
\* process itself.  sync.RWMutex lets a blocked Lock exclude new readers, so a
\* writer that can get the lock again and again gets it.
Fairness ==
  /\ \A p \in Publishers : WF_vars(Broadcast(p))
  /\ \A v \in Viewers : /\ WF_vars(Forward(v))
                        /\ SF_vars(Subscribe(v)) /\ SF_vars(Unsubscribe(v))
FairSpec == Spec /\ Fairness

-----------------------------------------------------------------------------
\* A send on a closed channel would end the process: a broadcast that is going
\* on has only open channels before it, whoever leaves meanwhile (Publish, the
\* unsubscribe of Subscribe).
NoSendOnClosedChannel ==
  \A p \in Publishers : work[p].step = "sending" => work[p].rest \subseteq clients

\* What is about to be offered to v's channel.
Coming(v) ==
  {work[p].activity : p \in {q \in Publishers :
     work[q].step = "committed" \/ (work[q].step = "sending" /\ v \in work[q].rest)}}

\* A monitor shows committed activities only, and a socket past its history
\* misses none that is broadcast, however commits, broadcasts and its own
\* subscription interleave: it has written it, will write it, or lost it to its
\* own full channel or to the limit of the history.
MonitorMatchesLog ==
  \A v \in Viewers :
    /\ settled[v] \cup Range(queue[v]) \cup Range(todo[v]) \subseteq committed
    /\ socket[v] = "live" =>
         committed \ silent \subseteq
           settled[v] \cup Range(queue[v]) \cup Range(todo[v]) \cup Coming(v)

\* A broadcast ends, and with it the protocol request that makes it, whatever
\* slow, stalled or gone browsers do (the default branch of Publish).
BroadcastsEnd ==
  \A p \in Publishers : work[p].step = "committed" ~> work[p].step = "idle"

\* The socket of a browser that is gone is unsubscribed, also when nothing is
\* recorded that could be written to it (the ping of monitorSocket).
GoneViewersLeave ==
  \A v \in Viewers : peer[v] = "gone" /\ v \in clients ~> v \notin clients
=============================================================================
