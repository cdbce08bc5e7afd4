------------------------ MODULE ActivityMonitorProofs ------------------------
(***************************************************************************)
(* The safety properties of the live monitor for any number of publishers, *)
(* sockets and activities, and any size of channels and history.           *)
(***************************************************************************)
EXTENDS ActivityMonitor, TLAPS, FiniteSetTheorems

Steps == {"idle", "open", "committed", "sending"}
Work == [step : Steps, activity : Activities \cup {None}, rest : SUBSET Viewers]

Types ==
  /\ begun \in 0 .. MaxActivities
  /\ committed \subseteq Activities
  /\ work \in [Publishers -> Work]
  /\ queue \in [Viewers -> Seq(Activities)] /\ todo \in [Viewers -> Seq(Activities)]
  /\ socket \in [Viewers -> {"closed", "subscribe", "history", "live", "leaving"}]
  /\ settled \in [Viewers -> SUBSET Activities]

\* A transaction has its activity; what is broadcast is in the log.
WorkIsLogged ==
  \A p \in Publishers :
    /\ work[p].step = "open" => work[p].activity \in Activities
    /\ work[p].step \in {"committed", "sending"} => work[p].activity \in committed

\* The hub knows exactly the sockets that have subscribed and not yet left.
ClientsAreSubscribed ==
  \A v \in Viewers : v \in clients <=> socket[v] \in {"history", "live", "leaving"}

IInv ==
  /\ Types /\ clients \subseteq Viewers /\ WorkIsLogged /\ ClientsAreSubscribed
  /\ NoSendOnClosedChannel /\ MonitorMatchesLog

-----------------------------------------------------------------------------
(* The history.                                                            *)

Rank(S, a) == Cardinality({b \in S : b < a})

\* Ascending lists each element of a finite set of numbers once: the rank of an
\* element is an injection into 0 .. n - 1 and hence onto it.
LEMMA AscendingIsComplete ==
  ASSUME NEW S \in SUBSET Nat, IsFiniteSet(S)
  PROVE  Ascending(S) \in Seq(S) /\ Range(Ascending(S)) = S
<1> DEFINE n == Cardinality(S)
           rank == [a \in S |-> Rank(S, a)]
<1>1. n \in Nat
  BY FS_CardinalityType, Zenon
<1>2. ASSUME NEW a \in S
      PROVE  Rank(S, a) \in 0 .. n - 1
  <2> DEFINE T == {b \in S : b < a}
  <2>1. T \in SUBSET S /\ a \notin T /\ T # S
    OBVIOUS
  <2>2. IsFiniteSet(T) /\ Cardinality(T) <= n /\ (n = Cardinality(T) => S = T)
    BY <2>1, FS_Subset, Zenon
  <2>3. Cardinality(T) \in Nat
    BY <2>2, FS_CardinalityType, Zenon
  <2> QED
    BY <1>1, <2>1, <2>2, <2>3 DEF Rank
<1>3. ASSUME NEW a \in S, NEW c \in S, a < c
      PROVE  Rank(S, a) # Rank(S, c)
  <2> DEFINE T == {b \in S : b < a}
             U == {b \in S : b < c}
  <2>0. \A b \in S : b \in Nat /\ (b < a => b < c)
    BY <1>3
  <2>1. T \in SUBSET U /\ a \in U /\ a \notin T
    <3>1. T \in SUBSET U
      BY <2>0, Zenon
    <3>2. a \in U /\ ~(a < a)
      BY <1>3
    <3> QED
      BY <3>1, <3>2, Zenon
  <2>2. IsFiniteSet(U)
    BY FS_Subset, Zenon
  <2>3. Cardinality(U) = Cardinality(T) => U = T
    BY <2>1, <2>2, FS_Subset, Zenon
  <2> QED
    BY <2>1, <2>3, Zenon DEF Rank
<1>4. \A a, c \in S : Rank(S, a) = Rank(S, c) => a = c
  <2> SUFFICES ASSUME NEW a \in S, NEW c \in S, a # c
               PROVE  Rank(S, a) # Rank(S, c)
    BY Zenon
  <2>1. a < c \/ c < a
    OBVIOUS
  <2> QED
    BY <1>3, <2>1, Zenon
<1>5. rank \in Injection(S, 0 .. n - 1)
  BY <1>2, <1>4, Zenon DEF Injection, IsInjective
<1>6. IsFiniteSet(0 .. n - 1) /\ Cardinality(0 .. n - 1) = n
  <2> HIDE DEF n
  <2>1. 0 \in Int /\ n - 1 \in Int
    BY <1>1
  <2>2. /\ IsFiniteSet(0 .. n - 1)
        /\ Cardinality(0 .. n - 1) = IF 0 > n - 1 THEN 0 ELSE (n - 1) - 0 + 1
    BY <2>1, FS_Interval, Zenon
  <2> QED
    BY <1>1, <2>2
<1>7. rank \in Surjection(S, 0 .. n - 1)
  BY <1>5, <1>6, FS_Injection, Zenon
<1>8. \A i \in 1 .. n : \E a \in S : Rank(S, a) = i - 1
  <2> SUFFICES ASSUME NEW i \in 1 .. n
               PROVE  \E a \in S : Rank(S, a) = i - 1
    BY Zenon
  <2>1. i - 1 \in 0 .. n - 1
    BY <1>1
  <2> QED
    BY <1>7, <2>1, Zenon DEF Surjection
<1> DEFINE at(i) == CHOOSE a \in S : Rank(S, a) = i - 1
<1>9. \A i \in 1 .. n : at(i) \in S /\ Rank(S, at(i)) = i - 1
  BY <1>8, Zenon
<1>10. Ascending(S) = [i \in 1 .. n |-> at(i)]
  BY Zenon DEF Ascending, Rank
<1> HIDE DEF at
<1>11. DOMAIN Ascending(S) = 1 .. n /\ \A i \in 1 .. n : Ascending(S)[i] = at(i)
  BY <1>10, Zenon
<1>12. Ascending(S) \in [1 .. n -> S]
  BY <1>9, <1>10, Zenon
<1>13. Ascending(S) \in Seq(S)
  BY <1>1, <1>12
<1>14. ASSUME NEW a \in S
       PROVE  \E i \in 1 .. n : Ascending(S)[i] = a
  <2>1. Rank(S, a) + 1 \in 1 .. n
    BY <1>1, <1>2
  <2>2. at(Rank(S, a) + 1) \in S /\ Rank(S, at(Rank(S, a) + 1)) = Rank(S, a)
    BY <1>2, <1>9, <2>1
  <2> QED
    BY <1>4, <1>11, <2>1, <2>2, Zenon
<1>15. Range(Ascending(S)) = S
  BY <1>9, <1>11, <1>14, Zenon DEF Range
<1> QED
  BY <1>13, <1>15, Zenon

\* GatewayActivities returns committed activities, oldest first.
LEMMA HistoryIsCommitted ==
  ASSUME committed \subseteq Activities
  PROVE  /\ Newest(committed) \subseteq committed
         /\ Ascending(Newest(committed)) \in Seq(Activities)
         /\ Range(Ascending(Newest(committed))) = Newest(committed)
<1> DEFINE S == Newest(committed)
<1>1. S \subseteq committed
  BY Zenon DEF Newest
<1>2. Activities \in SUBSET Nat /\ IsFiniteSet(Activities)
  <2>1. 1 \in Int /\ MaxActivities \in Int
    BY MonitorAssumption
  <2>2. IsFiniteSet(1 .. MaxActivities)
    BY <2>1, FS_Interval, Zenon
  <2> QED
    BY <2>2 DEF Activities
<1> HIDE DEF S
<1>3. S \in SUBSET Nat /\ IsFiniteSet(S) /\ S \subseteq Activities
  BY <1>1, <1>2, FS_Subset, Zenon
<1>4. Ascending(S) \in Seq(S) /\ Range(Ascending(S)) = S
  BY <1>3, AscendingIsComplete, Zenon
<1>5. Ascending(S) \in Seq(Activities)
  <2> DEFINE s == Ascending(S)
  <2> HIDE DEF s
  <2>1. Len(s) \in Nat /\ s \in [1 .. Len(s) -> S]
    BY <1>4 DEF s
  <2>2. s \in [1 .. Len(s) -> Activities]
    BY <1>3, <2>1, Zenon
  <2>3. s \in Seq(Activities)
    BY <2>1, <2>2
  <2> QED
    BY <2>3, Zenon DEF s
<1> QED
  BY <1>1, <1>4, <1>5, Zenon DEF S

-----------------------------------------------------------------------------
(* Channels.                                                               *)

\* An empty channel holds nothing.
LEMMA RangeOfEmpty == Range(<<>>) = {}
  BY DEF Range

\* A send adds its activity to what a channel holds.
LEMMA RangeOfAppend ==
  ASSUME NEW s \in Seq(Activities), NEW a \in Activities
  PROVE  Append(s, a) \in Seq(Activities) /\ Range(Append(s, a)) = Range(s) \cup {a}
<1>1. /\ Append(s, a) \in Seq(Activities) /\ DOMAIN Append(s, a) = 1 .. Len(s) + 1
      /\ \A i \in 1 .. Len(s) : Append(s, a)[i] = s[i]
      /\ Append(s, a)[Len(s) + 1] = a
  OBVIOUS
<1>2. DOMAIN s = 1 .. Len(s) /\ 1 .. Len(s) + 1 = (1 .. Len(s)) \cup {Len(s) + 1}
  OBVIOUS
<1>3. Range(Append(s, a)) \subseteq Range(s) \cup {a}
  <2> SUFFICES ASSUME NEW i \in 1 .. Len(s) + 1
               PROVE  Append(s, a)[i] \in Range(s) \cup {a}
    BY <1>1, Zenon DEF Range
  <2>1. CASE i \in 1 .. Len(s)
    BY <1>1, <1>2, <2>1, Zenon DEF Range
  <2>2. CASE i = Len(s) + 1
    BY <1>1, <2>2, Zenon
  <2> QED
    BY <1>2, <2>1, <2>2, Zenon
<1>4. Range(s) \cup {a} \subseteq Range(Append(s, a))
  BY <1>1, <1>2, Zenon DEF Range
<1> QED
  BY <1>1, <1>3, <1>4, Zenon

\* A receive takes the head out of what a channel holds.
LEMMA RangeOfTail ==
  ASSUME NEW s \in Seq(Activities), s # <<>>
  PROVE  /\ Tail(s) \in Seq(Activities) /\ Head(s) \in Activities
         /\ Range(s) = Range(Tail(s)) \cup {Head(s)}
<1>1. /\ Tail(s) \in Seq(Activities) /\ Head(s) \in Activities /\ Len(s) \in Nat \ {0}
      /\ DOMAIN Tail(s) = 1 .. Len(s) - 1 /\ DOMAIN s = 1 .. Len(s)
      /\ \A i \in 1 .. Len(s) - 1 : Tail(s)[i] = s[i + 1]
      /\ Head(s) = s[1]
  OBVIOUS
<1>2. /\ 1 \in 1 .. Len(s)
      /\ \A i \in 1 .. Len(s) - 1 : i + 1 \in 1 .. Len(s)
      /\ \A j \in 1 .. Len(s) : j = 1 \/ \E i \in 1 .. Len(s) - 1 : j = i + 1
  <2>1. \A j \in 1 .. Len(s) : j = 1 \/ (j - 1 \in 1 .. Len(s) - 1 /\ j = (j - 1) + 1)
    BY <1>1
  <2> QED
    BY <1>1, <2>1
<1>3. /\ Range(s) = {s[j] : j \in 1 .. Len(s)}
      /\ Range(Tail(s)) = {Tail(s)[i] : i \in 1 .. Len(s) - 1}
  BY <1>1, Zenon DEF Range
<1>4. ASSUME NEW j \in 1 .. Len(s) PROVE s[j] \in Range(Tail(s)) \cup {Head(s)}
  <2>1. ASSUME NEW i \in 1 .. Len(s) - 1, j = i + 1 PROVE s[j] \in Range(Tail(s))
    <3>1. s[j] = Tail(s)[i]
      BY <1>1, <2>1, Zenon
    <3> QED
      BY <1>3, <3>1, Zenon
  <2>2. CASE j = 1
    BY <1>1, <2>2, Zenon
  <2> QED
    BY <1>2, <2>1, <2>2, Zenon
<1>5. ASSUME NEW i \in 1 .. Len(s) - 1 PROVE Tail(s)[i] \in Range(s)
  <2>1. Tail(s)[i] = s[i + 1] /\ i + 1 \in 1 .. Len(s)
    BY <1>1, <1>2, Zenon
  <2> QED
    BY <1>3, <2>1, Zenon
<1>6. Head(s) \in Range(s)
  BY <1>1, <1>2, <1>3, Zenon
<1>7. Range(s) \subseteq Range(Tail(s)) \cup {Head(s)}
  BY <1>3, <1>4, Zenon
<1>8. Range(Tail(s)) \subseteq Range(s)
  BY <1>3, <1>5, Zenon
<1> QED
  BY <1>1, <1>6, <1>7, <1>8, Zenon

-----------------------------------------------------------------------------
(* Steps of a publisher.                                                   *)

\* What socket v has written or lost, or will write.
Shown(v) == settled[v] \cup Range(queue[v]) \cup Range(todo[v])

\* The broadcast that w describes has v still before it.
Offers(w, v) == w.step = "committed" \/ (w.step = "sending" /\ v \in w.rest)

\* What is coming to a socket is what some publisher offers it.
LEMMA ComingOffers ==
  \A v, a : a \in Coming(v) <=> \E q \in Publishers : work[q].activity = a /\ Offers(work[q], v)
  BY Zenon DEF Coming, Offers

\* The same after a step.
LEMMA ComingOffersNext ==
  \A v, a : a \in Coming(v)' <=> \E q \in Publishers : work'[q].activity = a /\ Offers(work'[q], v)
  BY Zenon DEF Coming, Offers

\* A publisher goes on: what it offered to a subscribed socket it still offers,
\* and what it has committed it offers, unless its handler does not broadcast.
LEMMA PublisherStep ==
  ASSUME IInv, NEW p \in Publishers, NEW w \in Work, work' = [work EXCEPT ![p] = w],
         UNCHANGED <<clients, queue, socket, browser>>,
         begun' \in 0 .. MaxActivities, silent \subseteq silent',
         committed \subseteq committed', committed' \subseteq Activities,
         w.step = "open" => w.activity \in Activities,
         w.step \in {"committed", "sending"} => w.activity \in committed',
         w.step = "sending" => w.rest \subseteq clients,
         \A a \in committed' \ committed :
           a \in silent' \/ (a = w.activity /\ w.step = "committed"),
         \A v \in clients : Offers(work[p], v) => w.activity = work[p].activity /\ Offers(w, v)
  PROVE  IInv'
<1> USE DEF IInv
<1>1. /\ work' \in [Publishers -> Work] /\ work'[p] = w
      /\ \A q \in Publishers \ {p} : work'[q] = work[q]
  BY Zenon DEF Types
<1>2. Types'
  BY <1>1, Zenon DEF Types, browser
<1>3. WorkIsLogged'
  BY <1>1, Zenon DEF WorkIsLogged
<1>4. ClientsAreSubscribed' /\ clients' \subseteq Viewers
  BY Zenon DEF ClientsAreSubscribed
<1>5. NoSendOnClosedChannel'
  BY <1>1, Zenon DEF NoSendOnClosedChannel
<1>6. \A v \in clients : \A a \in Coming(v) : a \in Coming(v)'
  BY <1>1, ComingOffers, ComingOffersNext
<1>7. \A v \in Viewers, a \in committed' \ committed : a \in silent' \/ a \in Coming(v)'
  BY <1>1, ComingOffersNext DEF Offers
<1>8. MonitorMatchesLog'
  BY <1>6, <1>7, Zenon DEF MonitorMatchesLog, ClientsAreSubscribed, browser
<1> QED
  BY <1>2, <1>3, <1>4, <1>5, <1>8, Zenon

\* A publisher without work is well typed.
LEMMA IdleIsWork == Idle \in Work /\ Idle.step = "idle"
  BY Zenon DEF Idle, Work, Steps

\* A transaction that begins has committed nothing and offers nothing.
LEMMA BeginStep ==
  ASSUME IInv, NEW p \in Publishers, Begin(p)
  PROVE  IInv'
<1> DEFINE w == [work[p] EXCEPT !.step = "open", !.activity = begun + 1]
<1>1. begun + 1 \in Activities /\ begun' \in 0 .. MaxActivities
  BY MonitorAssumption DEF Begin, IInv, Types, Activities
<1>2. work[p] \in Work /\ work[p].step = "idle"
  BY IdleIsWork, Zenon DEF Begin, IInv, Types
<1>3. w \in Work /\ w.step = "open" /\ w.activity = begun + 1
  BY <1>1, <1>2, Zenon DEF Work, Steps
<1>4. work' = [work EXCEPT ![p] = w]
  BY Zenon DEF Begin
<1> HIDE DEF w
<1>5. /\ UNCHANGED <<committed, clients, queue, socket, browser>> /\ silent \subseteq silent'
      /\ committed \subseteq Activities
  BY Zenon DEF Begin, IInv, Types
<1> QED
  BY <1>1, <1>2, <1>3, <1>4, <1>5, PublisherStep, Zenon DEF Offers

\* A transaction that is rolled back leaves no trace.
LEMMA RollbackStep ==
  ASSUME IInv, NEW p \in Publishers, Rollback(p)
  PROVE  IInv'
  BY IdleIsWork, PublisherStep, Zenon DEF Rollback, log, IInv, Types, Offers

\* A committed activity is coming to every subscribed socket, or is silent.
LEMMA CommitStep ==
  ASSUME IInv, NEW p \in Publishers, Commit(p)
  PROVE  IInv'
<1> DEFINE w == IF work[p].activity \in silent THEN Idle ELSE [work[p] EXCEPT !.step = "committed"]
<1>1. work[p] \in Work /\ work[p].step = "open" /\ work[p].activity \in Activities
  BY Zenon DEF Commit, IInv, Types, WorkIsLogged
<1>2. work' = [work EXCEPT ![p] = w]
  BY Zenon DEF Commit
<1>3. /\ w \in Work /\ w.step \in {"idle", "committed"}
      /\ work[p].activity \notin silent => w.step = "committed" /\ w.activity = work[p].activity
      /\ w.step = "committed" => w.activity = work[p].activity
  <2>1. CASE work[p].activity \in silent
    BY <2>1, IdleIsWork, Zenon
  <2>2. CASE work[p].activity \notin silent
    <3>1. w = [work[p] EXCEPT !.step = "committed"]
      BY <2>2, Zenon
    <3>2. w \in Work /\ w.step = "committed" /\ w.activity = work[p].activity
      BY <1>1, <3>1, Zenon DEF Work, Steps
    <3> QED
      BY <2>2, <3>2, Zenon
  <2> QED
    BY <2>1, <2>2, Zenon
<1> HIDE DEF w
<1>4. /\ UNCHANGED <<begun, silent, clients, queue, socket, browser>>
      /\ committed' = committed \cup {work[p].activity}
      /\ committed' \subseteq Activities /\ begun \in 0 .. MaxActivities
  BY <1>1, Zenon DEF Commit, IInv, Types
<1> QED
  BY <1>1, <1>2, <1>3, <1>4, PublisherStep, Zenon DEF Offers

\* Publish takes the clients that are subscribed when it gets the read lock.
LEMMA PublishStep ==
  ASSUME IInv, NEW p \in Publishers, Publish(p)
  PROVE  IInv'
<1> DEFINE w == [work[p] EXCEPT !.step = "sending", !.rest = clients]
<1>1. work[p] \in Work /\ work[p].step = "committed" /\ work[p].activity \in committed
  BY Zenon DEF Publish, IInv, Types, WorkIsLogged
<1>2. /\ w \in Work /\ w.step = "sending" /\ w.rest = clients
      /\ w.activity = work[p].activity
  BY <1>1, Zenon DEF Work, Steps, IInv
<1>3. work' = [work EXCEPT ![p] = w]
  BY Zenon DEF Publish
<1> HIDE DEF w
<1>4. UNCHANGED <<log, clients, queue, socket, browser>> /\ committed \subseteq Activities
      /\ begun \in 0 .. MaxActivities
  BY Zenon DEF Publish, IInv, Types
<1> QED
  BY <1>1, <1>2, <1>3, <1>4, PublisherStep, Zenon DEF Offers, log

\* A broadcast ends when every client has had it.
LEMMA PublishedStep ==
  ASSUME IInv, NEW p \in Publishers, Published(p)
  PROVE  IInv'
  BY IdleIsWork, PublisherStep, Zenon DEF Published, log, IInv, Types, Offers

\* One client of the loop gets the activity or loses it.
LEMMA SendStep ==
  ASSUME IInv, NEW p \in Publishers, NEW v \in Viewers, Send(p, v)
  PROVE  IInv'
<1> DEFINE w == [work[p] EXCEPT !.rest = work[p].rest \ {v}]
           a == work[p].activity
<1>1. /\ work[p] \in Work /\ work[p].step = "sending" /\ v \in work[p].rest
      /\ a \in committed /\ a \in Activities /\ work[p].rest \subseteq clients
  BY Zenon DEF Send, IInv, Types, WorkIsLogged, NoSendOnClosedChannel
<1>2. /\ w \in Work /\ w.step = "sending" /\ w.rest = work[p].rest \ {v} /\ w.activity = a
  BY <1>1, Zenon DEF Work
<1>3. work' = [work EXCEPT ![p] = w]
  BY Zenon DEF Send
<1>4. work \in [Publishers -> Work]
  BY Zenon DEF IInv, Types
<1> HIDE DEF w
<1>5. /\ work' \in [Publishers -> Work] /\ work'[p] = w
      /\ \A q \in Publishers \ {p} : work'[q] = work[q]
  BY <1>2, <1>3, <1>4, Zenon
<1>6. UNCHANGED <<begun, committed, silent, clients, socket, peer, todo>>
  BY Zenon DEF Send, log
<1>7. /\ queue' \in [Viewers -> Seq(Activities)] /\ settled' \in [Viewers -> SUBSET Activities]
      /\ \A u \in Viewers \ {v} : queue'[u] = queue[u] /\ settled'[u] = settled[u]
      /\ settled'[v] \cup Range(queue'[v]) = settled[v] \cup Range(queue[v]) \cup {a}
  <2>0. /\ queue \in [Viewers -> Seq(Activities)] /\ settled \in [Viewers -> SUBSET Activities]
    BY Zenon DEF IInv, Types
  <2>1. CASE queue' = [queue EXCEPT ![v] = Append(queue[v], a)] /\ settled' = settled
    <3>1. /\ Append(queue[v], a) \in Seq(Activities)
          /\ Range(Append(queue[v], a)) = Range(queue[v]) \cup {a}
      BY <1>1, <2>0, RangeOfAppend, Zenon
    <3> QED
      BY <2>0, <2>1, <3>1, Zenon
  <2>2. CASE queue' = queue /\ settled' = [settled EXCEPT ![v] = settled[v] \cup {a}]
    BY <1>1, <2>0, <2>2, Zenon
  <2> QED
    BY <2>1, <2>2, Zenon DEF Send
<1> HIDE DEF a
<1>8. Types' /\ clients' \subseteq Viewers
  BY <1>5, <1>6, <1>7, Zenon DEF IInv, Types
<1>9. WorkIsLogged'
  BY <1>1, <1>2, <1>5, <1>6, Zenon DEF IInv, WorkIsLogged, a
<1>10. ClientsAreSubscribed'
  BY <1>6, Zenon DEF IInv, ClientsAreSubscribed
<1>11. NoSendOnClosedChannel'
  BY <1>1, <1>2, <1>5, <1>6, Zenon DEF IInv, NoSendOnClosedChannel
<1>12. \A u \in Viewers : \A b \in Coming(u) : b \in Coming(u)' \/ (u = v /\ b = a)
  BY <1>1, <1>2, <1>5, ComingOffers, ComingOffersNext DEF Offers, a
<1>13. MonitorMatchesLog'
  BY <1>1, <1>6, <1>7, <1>12, Zenon DEF IInv, MonitorMatchesLog
<1> QED
  BY <1>8, <1>9, <1>10, <1>11, <1>13, Zenon DEF IInv

-----------------------------------------------------------------------------
(* Steps of a socket.                                                      *)

\* What a socket does changes its own state only.
LEMMA SocketStep ==
  ASSUME IInv, NEW v \in Viewers, UNCHANGED <<begun, committed, silent, work>>, Types',
         \A u \in Viewers \ {v} : /\ socket'[u] = socket[u] /\ queue'[u] = queue[u]
                                  /\ todo'[u] = todo[u] /\ settled'[u] = settled[u]
                                  /\ u \in clients' <=> u \in clients,
         clients' \subseteq Viewers,
         v \in clients' <=> socket'[v] \in {"history", "live", "leaving"},
         v \in clients => v \in clients' \/ Unlocked,
         settled'[v] \cup Range(queue'[v]) \cup Range(todo'[v]) \subseteq committed,
         socket'[v] = "live" =>
           committed \ silent \subseteq
             settled'[v] \cup Range(queue'[v]) \cup Range(todo'[v]) \cup Coming(v)
  PROVE  IInv'
<1>3. WorkIsLogged'
  BY Zenon DEF IInv, WorkIsLogged
<1>4. ClientsAreSubscribed'
  BY Zenon DEF IInv, ClientsAreSubscribed
<1>5. NoSendOnClosedChannel'
  BY Zenon DEF IInv, NoSendOnClosedChannel, Unlocked, Types, Work
<1>6. \A u \in Viewers : Coming(u)' = Coming(u)
  BY Zenon DEF Coming
<1>7. MonitorMatchesLog'
  BY <1>6, Zenon DEF IInv, MonitorMatchesLog
<1> QED
  BY <1>3, <1>4, <1>5, <1>7, Zenon DEF IInv

\* The state of one socket.
LEMMA SocketState ==
  ASSUME IInv, NEW v \in Viewers
  PROVE  /\ queue[v] \in Seq(Activities) /\ todo[v] \in Seq(Activities)
         /\ settled[v] \in SUBSET Activities
         /\ settled[v] \cup Range(queue[v]) \cup Range(todo[v]) \subseteq committed
         /\ v \in clients <=> socket[v] \in {"history", "live", "leaving"}
         /\ clients \subseteq Viewers /\ committed \subseteq Activities
  BY Zenon DEF IInv, Types, MonitorMatchesLog, ClientsAreSubscribed

\* monitorSocket subscribes, then reads the history, then follows the channel.
LEMMA FollowingSteps ==
  /\ Following["upgraded"] = "subscribe" /\ Following["subscribe"] = "history"
  /\ Following["history"] = "live"
  BY Zenon DEF Following

\* A browser connects: its socket is not known to the hub yet.
LEMMA ConnectStep ==
  ASSUME IInv, NEW v \in Viewers, Connect(v)
  PROVE  IInv'
<1>1. /\ UNCHANGED <<begun, committed, silent, work, clients, queue, todo, settled>>
      /\ socket[v] = "closed" /\ socket' = [socket EXCEPT ![v] = "subscribe"]
  BY FollowingSteps, Zenon DEF Connect, log
<1>2. Types' /\ socket'[v] = "subscribe" /\ \A u \in Viewers \ {v} : socket'[u] = socket[u]
  BY <1>1, Zenon DEF IInv, Types
<1> QED
  BY <1>1, <1>2, SocketState, SocketStep, Zenon

\* A new client opens an empty channel and has seen nothing.
LEMMA SubscribeStep ==
  ASSUME IInv, NEW v \in Viewers, Subscribe(v)
  PROVE  IInv'
<1>1. /\ UNCHANGED <<begun, committed, silent, work, todo, settled>>
      /\ socket[v] = "subscribe" /\ socket' = [socket EXCEPT ![v] = "history"]
      /\ queue' = [queue EXCEPT ![v] = <<>>] /\ clients' = clients \cup {v}
  BY FollowingSteps, Zenon DEF Subscribe, Advance, log, browser
<1>2. /\ Types' /\ socket'[v] = "history" /\ queue'[v] = <<>>
      /\ \A u \in Viewers \ {v} : socket'[u] = socket[u] /\ queue'[u] = queue[u]
  BY <1>1 DEF IInv, Types
<1> QED
  BY <1>1, <1>2, RangeOfEmpty, SocketState, SocketStep, Zenon

\* The history and the channel together miss nothing: what was committed is in
\* the history, written or beyond its limit.
LEMMA ReadHistoryStep ==
  ASSUME IInv, NEW v \in Viewers, ReadHistory(v)
  PROVE  IInv'
<1> DEFINE h == Ascending(Newest(committed))
           d == settled[v] \cup (committed \ Newest(committed))
<1>1. /\ UNCHANGED <<begun, committed, silent, work, clients, queue>>
      /\ socket[v] = "history" /\ socket' = [socket EXCEPT ![v] = "live"]
      /\ todo' = [todo EXCEPT ![v] = h] /\ settled' = [settled EXCEPT ![v] = d]
  BY FollowingSteps, Zenon DEF ReadHistory, Advance, log
<1>2. /\ h \in Seq(Activities) /\ d \in SUBSET Activities
      /\ d \cup Range(queue[v]) \cup Range(h) \subseteq committed
      /\ committed \subseteq d \cup Range(h)
  <2>1. /\ Newest(committed) \subseteq committed /\ h \in Seq(Activities)
        /\ Range(h) = Newest(committed)
    BY SocketState, HistoryIsCommitted, Zenon
  <2> HIDE DEF h
  <2> QED
    BY <2>1, SocketState, Zenon
<1> HIDE DEF h, d
<1>3. /\ Types' /\ socket'[v] = "live" /\ todo'[v] = h /\ settled'[v] = d
      /\ \A u \in Viewers \ {v} :
           socket'[u] = socket[u] /\ todo'[u] = todo[u] /\ settled'[u] = settled[u]
  BY <1>1, <1>2, Zenon DEF IInv, Types
<1> QED
  BY <1>1, <1>2, <1>3, SocketState, SocketStep, Zenon

\* The handler returns: nothing is shown any more.
LEMMA LeaveStep ==
  ASSUME IInv, NEW v \in Viewers, Leave(v), socket[v] \in {"history", "live"},
         UNCHANGED <<begun, committed, silent, work, clients>>,
         queue' = queue \/ (queue[v] # <<>> /\ queue' = [queue EXCEPT ![v] = Tail(queue[v])])
  PROVE  IInv'
<1>1. /\ socket' = [socket EXCEPT ![v] = "leaving"] /\ todo' = [todo EXCEPT ![v] = <<>>]
      /\ settled' = [settled EXCEPT ![v] = {}]
  BY Zenon DEF Leave
<1>2. /\ queue' \in [Viewers -> Seq(Activities)] /\ Range(queue'[v]) \subseteq Range(queue[v])
      /\ \A u \in Viewers \ {v} : queue'[u] = queue[u]
  <2>1. queue \in [Viewers -> Seq(Activities)]
    BY Zenon DEF IInv, Types
  <2>2. CASE queue[v] # <<>> /\ queue' = [queue EXCEPT ![v] = Tail(queue[v])]
    <3>1. /\ Tail(queue[v]) \in Seq(Activities)
          /\ Range(queue[v]) = Range(Tail(queue[v])) \cup {Head(queue[v])}
      BY <2>1, <2>2, RangeOfTail, Zenon
    <3> QED
      BY <2>1, <2>2, <3>1, Zenon
  <2> QED
    BY <2>1, <2>2, Zenon
<1>3. /\ Types' /\ socket'[v] = "leaving" /\ todo'[v] = <<>> /\ settled'[v] = {}
      /\ \A u \in Viewers \ {v} :
           socket'[u] = socket[u] /\ todo'[u] = todo[u] /\ settled'[u] = settled[u]
  <2>1. <<>> \in Seq(Activities)
    OBVIOUS
  <2>2. /\ socket \in [Viewers -> {"closed", "subscribe", "history", "live", "leaving"}]
        /\ todo \in [Viewers -> Seq(Activities)] /\ settled \in [Viewers -> SUBSET Activities]
    BY Zenon DEF IInv, Types
  <2>3. /\ socket' \in [Viewers -> {"closed", "subscribe", "history", "live", "leaving"}]
        /\ todo' \in [Viewers -> Seq(Activities)] /\ settled' \in [Viewers -> SUBSET Activities]
        /\ socket'[v] = "leaving" /\ todo'[v] = <<>> /\ settled'[v] = {}
        /\ \A u \in Viewers \ {v} :
             socket'[u] = socket[u] /\ todo'[u] = todo[u] /\ settled'[u] = settled[u]
    BY <1>1, <2>1, <2>2, Zenon
  <2> QED
    BY <1>2, <2>3, Zenon DEF IInv, Types
<1> QED
  BY <1>2, <1>3, RangeOfEmpty, SocketState, SocketStep, ZenonT(30)

\* The history cannot be read or written: the handler returns.
LEMMA HistoryFailsStep ==
  ASSUME IInv, NEW v \in Viewers, HistoryFails(v)
  PROVE  IInv'
  BY LeaveStep, Zenon DEF HistoryFails, log

\* A write of the handler fails: it returns.
LEMMA WriteFailsStep ==
  ASSUME IInv, NEW v \in Viewers, WriteFails(v)
  PROVE  IInv'
  BY LeaveStep, Zenon DEF WriteFails, log

\* A ping to a browser that is gone fails: the handler returns.
LEMMA PingStep ==
  ASSUME IInv, NEW v \in Viewers, Ping(v)
  PROVE  IInv'
  BY LeaveStep, Zenon DEF Ping, log

\* What is written was in the history or in the channel, and is settled then.
LEMMA WriteStep ==
  ASSUME IInv, NEW v \in Viewers, Write(v)
  PROVE  IInv'
<1>1. UNCHANGED <<begun, committed, silent, work, clients, socket>> /\ socket[v] = "live"
  BY Zenon DEF Write, log
<1>2. /\ queue \in [Viewers -> Seq(Activities)] /\ todo \in [Viewers -> Seq(Activities)]
      /\ settled \in [Viewers -> SUBSET Activities]
  BY Zenon DEF IInv, Types
<1>3. /\ queue' \in [Viewers -> Seq(Activities)] /\ todo' \in [Viewers -> Seq(Activities)]
      /\ settled' \in [Viewers -> SUBSET Activities]
      /\ \A u \in Viewers \ {v} :
           queue'[u] = queue[u] /\ todo'[u] = todo[u] /\ settled'[u] = settled[u]
      /\ settled'[v] \cup Range(queue'[v]) \cup Range(todo'[v])
           = settled[v] \cup Range(queue[v]) \cup Range(todo[v])
  <2>1. CASE /\ todo[v] # <<>> /\ todo' = [todo EXCEPT ![v] = Tail(todo[v])] /\ queue' = queue
             /\ settled' = [settled EXCEPT ![v] = settled[v] \cup {Head(todo[v])}]
    <3>1. /\ Tail(todo[v]) \in Seq(Activities) /\ Head(todo[v]) \in Activities
          /\ Range(todo[v]) = Range(Tail(todo[v])) \cup {Head(todo[v])}
      BY <1>2, <2>1, RangeOfTail, Zenon
    <3>2. /\ todo' \in [Viewers -> Seq(Activities)] /\ todo'[v] = Tail(todo[v])
          /\ \A u \in Viewers \ {v} : todo'[u] = todo[u]
      BY <1>2, <2>1, <3>1, Zenon
    <3>3. /\ settled' \in [Viewers -> SUBSET Activities]
          /\ settled'[v] = settled[v] \cup {Head(todo[v])}
          /\ \A u \in Viewers \ {v} : settled'[u] = settled[u]
      BY <1>2, <2>1, <3>1, Zenon
    <3> QED
      BY <1>2, <2>1, <3>1, <3>2, <3>3, Zenon
  <2>2. CASE /\ queue[v] # <<>> /\ queue' = [queue EXCEPT ![v] = Tail(queue[v])] /\ todo' = todo
             /\ settled' = [settled EXCEPT ![v] = settled[v] \cup {Head(queue[v])}]
    <3>1. /\ Tail(queue[v]) \in Seq(Activities) /\ Head(queue[v]) \in Activities
          /\ Range(queue[v]) = Range(Tail(queue[v])) \cup {Head(queue[v])}
      BY <1>2, <2>2, RangeOfTail, Zenon
    <3>2. /\ queue' \in [Viewers -> Seq(Activities)] /\ queue'[v] = Tail(queue[v])
          /\ \A u \in Viewers \ {v} : queue'[u] = queue[u]
      BY <1>2, <2>2, <3>1, Zenon
    <3>3. /\ settled' \in [Viewers -> SUBSET Activities]
          /\ settled'[v] = settled[v] \cup {Head(queue[v])}
          /\ \A u \in Viewers \ {v} : settled'[u] = settled[u]
      BY <1>2, <2>2, <3>1, Zenon
    <3> QED
      BY <1>2, <2>2, <3>1, <3>2, <3>3, Zenon
  <2> QED
    BY <2>1, <2>2, Zenon DEF Write
<1>4. Types'
  BY <1>1, <1>3, Zenon DEF IInv, Types
<1>5. committed \ silent \subseteq
        settled[v] \cup Range(queue[v]) \cup Range(todo[v]) \cup Coming(v)
  BY <1>1, Zenon DEF IInv, MonitorMatchesLog
<1> QED
  BY <1>1, <1>3, <1>4, <1>5, SocketState, SocketStep, Zenon

\* The write lock is not given while a broadcast goes on: none has v before it.
LEMMA UnsubscribeStep ==
  ASSUME IInv, NEW v \in Viewers, Unsubscribe(v)
  PROVE  IInv'
<1>1. /\ UNCHANGED <<begun, committed, silent, work, todo, settled>> /\ Unlocked
      /\ socket' = [socket EXCEPT ![v] = "closed"]
      /\ queue' = [queue EXCEPT ![v] = <<>>] /\ clients' = clients \ {v}
  BY Zenon DEF Unsubscribe, log, browser
<1>2. /\ Types' /\ socket'[v] = "closed" /\ queue'[v] = <<>>
      /\ \A u \in Viewers \ {v} : socket'[u] = socket[u] /\ queue'[u] = queue[u]
  BY <1>1 DEF IInv, Types
<1> QED
  BY <1>1, <1>2, RangeOfEmpty, SocketState, SocketStep, Zenon

-----------------------------------------------------------------------------
(* The specification.                                                      *)

\* Nobody is connected and nothing is going on: so the process starts.
Quiet ==
  /\ begun \in 0 .. MaxActivities /\ committed \subseteq Activities
  /\ work = [p \in Publishers |-> Idle]
  /\ clients = {} /\ queue = [v \in Viewers |-> <<>>]
  /\ socket = [v \in Viewers |-> "closed"]
  /\ todo = [v \in Viewers |-> <<>>] /\ settled = [v \in Viewers |-> {}]

\* Without sockets and broadcasts there is nothing to disagree.
LEMMA QuietIInv == Quiet => IInv
<1> SUFFICES ASSUME Quiet PROVE IInv
  BY Zenon
<1>1. /\ \A p \in Publishers : work[p] = Idle
      /\ \A v \in Viewers : /\ queue[v] = <<>> /\ socket[v] = "closed"
                            /\ todo[v] = <<>> /\ settled[v] = {}
  BY Zenon DEF Quiet
<1>2. <<>> \in Seq(Activities)
  OBVIOUS
<1>3. Types
  BY <1>2, IdleIsWork, Zenon DEF Types, Quiet
<1>4. WorkIsLogged /\ ClientsAreSubscribed /\ NoSendOnClosedChannel
  BY <1>1, IdleIsWork, Zenon DEF Quiet, WorkIsLogged, ClientsAreSubscribed, NoSendOnClosedChannel
<1>5. MonitorMatchesLog
  BY <1>1, RangeOfEmpty, Zenon DEF MonitorMatchesLog
<1> QED
  BY <1>3, <1>4, <1>5, Zenon DEF IInv, Quiet

\* The same after a step, for the restart.
LEMMA QuietIInvNext == Quiet' => IInv'
  BY QuietIInv, PTL

\* The invariant holds initially.
LEMMA InitIInv == Init => IInv
<1>1. 0 \in 0 .. MaxActivities
  BY MonitorAssumption
<1> QED
  BY <1>1, QuietIInv, Zenon DEF Init, Quiet

\* Every step keeps the invariant.
LEMMA NextIInv == IInv /\ [Next]_vars => IInv'
<1> SUFFICES ASSUME IInv, [Next]_vars
             PROVE  IInv'
  BY Zenon
<1>1. ASSUME NEW p \in Publishers, Begin(p) \/ Rollback(p) \/ Commit(p) \/ Broadcast(p)
      PROVE  IInv'
  BY <1>1, BeginStep, RollbackStep, CommitStep, PublishStep, SendStep, PublishedStep, Zenon
     DEF Broadcast
<1>2. ASSUME NEW v \in Viewers, Connect(v) \/ Subscribe(v) \/ Forward(v) \/ Unsubscribe(v)
      PROVE  IInv'
  BY <1>2, ConnectStep, SubscribeStep, ReadHistoryStep, HistoryFailsStep, WriteStep,
     WriteFailsStep, PingStep, UnsubscribeStep, Zenon DEF Forward
<1>3. CASE UNCHANGED <<begun, committed, silent, work, clients, queue, socket, todo, settled>>
  BY <1>3 DEF IInv, Types, WorkIsLogged, ClientsAreSubscribed, NoSendOnClosedChannel,
              MonitorMatchesLog, Coming
<1>4. CASE Restart
  BY <1>4, QuietIInvNext, Zenon DEF Restart, log, Quiet, IInv, Types
<1>5. ASSUME NEW v \in Viewers, PeerChanges(v)
      PROVE  IInv'
  BY <1>3, <1>5, Zenon DEF PeerChanges, log
<1>6. CASE UNCHANGED vars
  BY <1>3, <1>6, Zenon DEF vars, log, browser
<1> QED
  BY <1>1, <1>2, <1>4, <1>5, <1>6, Zenon DEF Next

\* The inductive invariant of the monitor holds in every reachable state.
THEOREM Invariance == Spec => []IInv
  BY InitIInv, NextIInv, PTL DEF Spec

\* A broadcast never has a closed channel before it (Publish holds the read
\* lock that unsubscribe needs): for any number of publishers and sockets, and
\* whatever they interleave.
THEOREM OpenChannelsOnly == Spec => []NoSendOnClosedChannel
<1>1. IInv => NoSendOnClosedChannel
  BY Zenon DEF IInv
<1> QED
  BY <1>1, Invariance, PTL

\* A monitor shows committed activities only, and past its history it misses
\* none that is broadcast (monitorSocket subscribes before it reads the log):
\* for any size of channels and history.
THEOREM MonitorsMatchLog == Spec => []MonitorMatchesLog
<1>1. IInv => MonitorMatchesLog
  BY Zenon DEF IInv
<1> QED
  BY <1>1, Invariance, PTL
=============================================================================
