-------------------------- MODULE EventDeliveryRows --------------------------
(***************************************************************************)
(* The inductive invariant of EventDelivery, and that it is kept by the    *)
(* steps that queue rows, that write one row and that claim one.           *)
(***************************************************************************)
EXTENDS EventDelivery, TLAPS, FiniteSetTheorems

\* A row that exists names a stored record and a destination; the parent of a
\* picture job exists.
RowsAreFilled ==
  \A id \in RowIds :
    /\ events[id].status = "none" => events[id].source = "none"
    /\ events[id].status # "none" =>
         events[id].source \in archive /\ events[id].destination \in Destinations
    /\ pictures[id].status = "none" => pictures[id].parent = 0
    /\ pictures[id].status # "none" =>
         /\ pictures[id].parent \in RowIds
         /\ events[pictures[id].parent].status # "none"

\* Only a terminal without a destination row has no destination.
RoutesAreFilled == \A t \in Terminals : route[t].destination = "none" => route[t] = NoRoute

\* A picture job is untouched until its event is delivered.
PicturesWait ==
  \A p \in RowIds :
    /\ pictures[p].status # "none"
    /\ events[pictures[p].parent].status # "delivered"
    => pictures[p].status = "pending"

\* What the school has stored was a row of the outbox.
ReceivedWasQueued ==
  \A m \in received :
    \E e \in RowIds : /\ events[e].source = m.source
                      /\ events[e].destination = m.destination

\* The row of a claim exists, has at least the attempts of the claim, and the
\* result "delivered" means that the school has stored the message.
EventClaimsHold ==
  \A w \in EventWorkers :
    /\ workers[w].id = 0 => workers[w] = Idle
    /\ workers[w].id # 0 =>
         /\ events[workers[w].id].status # "none"
         /\ workers[w].attempts <= events[workers[w].id].attempts
         /\ workers[w].result = "delivered" => Message(w) \in received

PictureClaimsHold ==
  \A w \in PictureWorkers :
    /\ workers[w].id = 0 => workers[w] = Idle
    /\ workers[w].id # 0 =>
         /\ pictures[workers[w].id].status # "none"
         /\ events[pictures[workers[w].id].parent].status = "delivered"
         /\ workers[w].attempts <= pictures[workers[w].id].attempts
         /\ workers[w].result = "delivered" => Message(w) \in received

EventClaimNewest(w) ==
  workers[w].id # 0 /\ events[workers[w].id].attempts = workers[w].attempts

PictureClaimNewest(w) ==
  workers[w].id # 0 /\ pictures[workers[w].id].attempts = workers[w].attempts

EventClaimsOpen ==
  /\ \A w \in EventWorkers : EventClaimNewest(w) => events[workers[w].id].status = "sending"
  /\ \A v, w \in EventWorkers :
       EventClaimNewest(v) /\ EventClaimNewest(w) /\ workers[v].id = workers[w].id => v = w

PictureClaimsOpen ==
  /\ \A w \in PictureWorkers :
       PictureClaimNewest(w) => pictures[workers[w].id].status = "sending"
  /\ \A v, w \in PictureWorkers :
       PictureClaimNewest(v) /\ PictureClaimNewest(w) /\ workers[v].id = workers[w].id => v = w

IInv ==
  /\ TypeOK /\ RowsAreFilled /\ RoutesAreFilled /\ OneDeliveryPerSource
  /\ PicturesWait /\ UnfinishedFollowsRoute
  /\ ReceivedWasQueued /\ DeliveredWasReceived /\ PictureFollowsEvent
  /\ EventClaimsHold /\ PictureClaimsHold /\ EventClaimsOpen /\ PictureClaimsOpen

-----------------------------------------------------------------------------
(* Orders.                                                                 *)

\* A set of records that the archive can hold is finite.
LEMMA SourcesAreFinite ==
  ASSUME NEW S \in SUBSET Sources
  PROVE  IsFiniteSet(S) /\ Cardinality(S) \in Nat
  BY SourcesAssumption, FS_Subset, FS_CardinalityType, Zenon

\* So is a set of rows.
LEMMA RowIdsAreFinite ==
  ASSUME NEW S \in SUBSET RowIds
  PROVE  IsFiniteSet(S) /\ Cardinality(S) \in Nat
<1>1. MaxRows \in Int
  BY DeliveryBoundsAssumption
<1>2. IsFiniteSet(RowIds)
  BY <1>1, FS_Interval DEF RowIds
<1> QED
  BY <1>2, FS_Subset, FS_CardinalityType, Zenon

\* An order of a finite set names each of its elements exactly once.
LEMMA OrderIsComplete ==
  ASSUME NEW S, IsFiniteSet(S), Cardinality(S) \in Nat, NEW o \in Orders(S)
  PROVE  /\ o \in [1 .. Cardinality(S) -> S]
         /\ \A i, j \in 1 .. Cardinality(S) : o[i] = o[j] => i = j
         /\ \A s \in S : \E i \in 1 .. Cardinality(S) : o[i] = s
<1> DEFINE n == Cardinality(S)
<1>1. o \in [1 .. n -> S] /\ \A i, j \in 1 .. n : o[i] = o[j] => i = j
  BY Zenon DEF Orders
<1>2. o \in Injection(1 .. n, S)
  BY <1>1, Zenon DEF Injection, IsInjective
<1>3. Cardinality(1 .. n) = n
  BY FS_Interval
<1>4. o \in Surjection(1 .. n, S)
  BY <1>2, <1>3, FS_Injection, Zenon
<1>5. \A s \in S : \E i \in 1 .. n : o[i] = s
  BY <1>4, Zenon DEF Surjection
<1> QED
  BY <1>1, <1>5, Zenon

-----------------------------------------------------------------------------
(* Queueing rows.                                                          *)

NewEvents == {e \in RowIds : events[e].status = "none" /\ events'[e].status # "none"}
NewPictures == {p \in RowIds : pictures[p].status = "none" /\ pictures'[p].status # "none"}

\* Rows of event_deliveries are added, one for each record of S.
EventsAdded(S, d) ==
  /\ \A e \in RowIds \ NewEvents : events'[e] = events[e]
  /\ \A e \in NewEvents : \E s \in S : events'[e] = NewEvent(s, d)
  /\ \A e, f \in NewEvents : events'[e].source = events'[f].source => e = f
  /\ \A s \in S : \E e \in NewEvents : events'[e].source = s

\* Picture jobs are added for events of E, at most one for each.
PicturesAdded(E) ==
  /\ \A p \in RowIds \ NewPictures : pictures'[p] = pictures[p]
  /\ \A p \in NewPictures : \E e \in E : pictures'[p] = NewPicture(e)
  /\ \A p, q \in NewPictures : pictures'[p].parent = pictures'[q].parent => p = q

EventTable ==
  /\ events \in [RowIds -> Event] /\ nextEvent \in 1 .. MaxRows + 1
  /\ \A id \in RowIds : (events[id].status = "none") <=> (id >= nextEvent)

PictureTable ==
  /\ pictures \in [RowIds -> Picture] /\ nextPicture \in 1 .. MaxRows + 1
  /\ \A id \in RowIds : (pictures[id].status = "none") <=> (id >= nextPicture)

\* The rows that are inserted are pending and name what they are for.
LEMMA NewRowTypes ==
  /\ \A s \in Sources, d \in Destinations :
       /\ NewEvent(s, d) \in Event
       /\ NewEvent(s, d).source = s /\ NewEvent(s, d).destination = d
       /\ NewEvent(s, d).status = "pending" /\ NewEvent(s, d).attempts = 0
  /\ \A e \in RowIds :
       /\ NewPicture(e) \in Picture
       /\ NewPicture(e).parent = e /\ NewPicture(e).status = "pending"
       /\ NewPicture(e).attempts = 0
<1>1. ASSUME NEW s \in Sources, NEW d \in Destinations
      PROVE  /\ NewEvent(s, d) \in Event
             /\ NewEvent(s, d).source = s /\ NewEvent(s, d).destination = d
             /\ NewEvent(s, d).status = "pending" /\ NewEvent(s, d).attempts = 0
  BY Zenon DEF NewEvent, NoEvent, Event, Statuses
<1>2. ASSUME NEW e \in RowIds
      PROVE  /\ NewPicture(e) \in Picture
             /\ NewPicture(e).parent = e /\ NewPicture(e).status = "pending"
             /\ NewPicture(e).attempts = 0
  <2>1. e \in Nat
    BY DEF RowIds
  <2> QED
    BY <2>1, Zenon DEF NewPicture, NoPicture, Picture, Statuses
<1> QED
  BY <1>1, <1>2, Zenon

\* EnqueuePictures adds a job for each of n different events.
LEMMA PicturesAreAdded ==
  ASSUME PictureTable, NEW n \in Nat, NEW E \in SUBSET RowIds, NEW parent \in [1 .. n -> E],
         \A i, j \in 1 .. n : parent[i] = parent[j] => i = j,
         EnqueuePictures(n, parent)
  PROVE  PicturesAdded(E) /\ PictureTable'
<1> DEFINE new == nextPicture .. nextPicture + n - 1
<1>0. MaxRows \in Nat /\ nextPicture \in 1 .. MaxRows + 1 /\ nextPicture + n - 1 <= MaxRows
  BY DeliveryBoundsAssumption, Zenon DEF PictureTable, EnqueuePictures
<1>1. /\ nextPicture' = nextPicture + n /\ nextPicture' \in 1 .. MaxRows + 1
      /\ new \subseteq RowIds
      /\ \A p \in new : p - nextPicture + 1 \in 1 .. n
      /\ \A p \in RowIds : p >= nextPicture' <=> (p >= nextPicture /\ p \notin new)
      /\ \A p \in new : p >= nextPicture
      /\ \A p, q \in new : p - nextPicture + 1 = q - nextPicture + 1 => p = q
  BY <1>0 DEF EnqueuePictures, RowIds
<1>2. \A p \in RowIds : pictures'[p] = IF p \in new THEN NewPicture(parent[p - nextPicture + 1])
                                        ELSE pictures[p]
  BY Zenon DEF EnqueuePictures
<1>3. \A p \in new : parent[p - nextPicture + 1] \in E
  BY <1>1, Zenon
<1>4. \A p \in new : pictures'[p].status = "pending" /\ pictures'[p] \in Picture
                      /\ pictures'[p].parent = parent[p - nextPicture + 1]
  BY <1>1, <1>2, <1>3, NewRowTypes
<1>5. \A p \in RowIds \ new : pictures'[p] = pictures[p]
  BY <1>2, Zenon
<1>6. pictures' \in [RowIds -> Picture]
  BY <1>2, <1>4, <1>5, Zenon DEF PictureTable, EnqueuePictures
<1>7. \A id \in RowIds : (pictures'[id].status = "none") <=> (id >= nextPicture')
  BY <1>1, <1>4, <1>5, Zenon DEF PictureTable
<1>8. NewPictures = new
  BY <1>1, <1>4, <1>5, Zenon DEF PictureTable, NewPictures
<1>9. \A p \in NewPictures : \E e \in E : pictures'[p] = NewPicture(e)
  BY <1>1, <1>2, <1>3, <1>8, Zenon
<1>10. \A p, q \in NewPictures : pictures'[p].parent = pictures'[q].parent => p = q
  <2> SUFFICES ASSUME NEW p \in new, NEW q \in new,
                      parent[p - nextPicture + 1] = parent[q - nextPicture + 1]
               PROVE  p = q
    BY <1>4, <1>8
  <2>1. p - nextPicture + 1 = q - nextPicture + 1
    BY <1>1, Zenon
  <2> QED
    BY <1>1, <2>1, Zenon
<1> QED
  BY <1>1, <1>5, <1>6, <1>7, <1>8, <1>9, <1>10, Zenon DEF PicturesAdded, PictureTable

\* Enqueue adds a delivery for each record and a picture job for each delivery.
LEMMA RowsAreAdded ==
  ASSUME EventTable, PictureTable, NEW S \in SUBSET Sources, NEW d \in Destinations,
         Enqueue(S, d)
  PROVE  EventsAdded(S, d) /\ EventTable' /\ PicturesAdded(NewEvents) /\ PictureTable'
<1> DEFINE n == Cardinality(S)
           new == nextEvent .. nextEvent + n - 1
           parent == [i \in 1 .. n |-> nextEvent + i - 1]
<1>0. IsFiniteSet(S) /\ n \in Nat
  BY SourcesAreFinite, Zenon
<1> HIDE DEF n
<1>1. PICK o \in Orders(S) :
        events' = [e \in RowIds |->
                     IF e \in nextEvent .. nextEvent + n - 1
                     THEN NewEvent(o[e - nextEvent + 1], d) ELSE events[e]]
  BY Zenon DEF Enqueue, n
<1>2. /\ o \in [1 .. n -> S]
      /\ \A i, j \in 1 .. n : o[i] = o[j] => i = j
      /\ \A s \in S : \E i \in 1 .. n : o[i] = s
  BY <1>0, OrderIsComplete, Zenon DEF n
<1>3. /\ MaxRows \in Nat /\ nextEvent \in 1 .. MaxRows + 1 /\ nextEvent + n - 1 <= MaxRows
      /\ nextEvent' = nextEvent + n /\ EnqueuePictures(n, parent)
  BY DeliveryBoundsAssumption, Zenon DEF EventTable, Enqueue, n
<1>4. /\ nextEvent' \in 1 .. MaxRows + 1
      /\ new \subseteq RowIds
      /\ \A e \in new : e - nextEvent + 1 \in 1 .. n
      /\ \A i \in 1 .. n : nextEvent + i - 1 \in new
      /\ \A e \in RowIds : e >= nextEvent' <=> (e >= nextEvent /\ e \notin new)
      /\ \A e \in new : e >= nextEvent
      /\ \A e, f \in new : e - nextEvent + 1 = f - nextEvent + 1 => e = f
      /\ \A i \in 1 .. n : (nextEvent + i - 1) - nextEvent + 1 = i
  BY <1>0, <1>3 DEF RowIds
<1>5. \A e \in new : o[e - nextEvent + 1] \in S
  BY <1>2, <1>4, Zenon
<1>6. \A e \in new : events'[e] = NewEvent(o[e - nextEvent + 1], d)
  BY <1>1, <1>4, Zenon
<1>7. \A e \in new : events'[e].status = "pending" /\ events'[e] \in Event
                      /\ events'[e].source = o[e - nextEvent + 1]
  BY <1>5, <1>6, NewRowTypes
<1>8. \A e \in RowIds \ new : events'[e] = events[e]
  BY <1>1, Zenon
<1>9. events' \in [RowIds -> Event]
  BY <1>1, <1>7, <1>8, Zenon DEF EventTable
<1>10. \A id \in RowIds : (events'[id].status = "none") <=> (id >= nextEvent')
  BY <1>4, <1>7, <1>8, Zenon DEF EventTable
<1>11. NewEvents = new
  BY <1>4, <1>7, <1>8 DEF EventTable, NewEvents
<1>12. \A e \in NewEvents : \E s \in S : events'[e] = NewEvent(s, d)
  BY <1>5, <1>6, <1>11, Zenon
<1>13. \A e, f \in NewEvents : events'[e].source = events'[f].source => e = f
  <2> SUFFICES ASSUME NEW e \in new, NEW f \in new,
                      o[e - nextEvent + 1] = o[f - nextEvent + 1]
               PROVE  e = f
    BY <1>7, <1>11
  <2>1. e - nextEvent + 1 = f - nextEvent + 1
    BY <1>2, <1>4, Zenon
  <2> QED
    BY <1>4, <2>1, Zenon
<1>14. \A s \in S : \E e \in NewEvents : events'[e].source = s
  <2> SUFFICES ASSUME NEW s \in S
               PROVE  \E e \in new : events'[e].source = s
    BY <1>11, Zenon
  <2>1. PICK i \in 1 .. n : o[i] = s
    BY <1>2, Zenon
  <2>2. nextEvent + i - 1 \in new /\ events'[nextEvent + i - 1].source = s
    BY <1>4, <1>7, <2>1, Zenon
  <2> QED
    BY <2>2, Zenon
<1>15. EventsAdded(S, d) /\ EventTable'
  BY <1>4, <1>8, <1>9, <1>10, <1>11, <1>12, <1>13, <1>14, Zenon DEF EventsAdded, EventTable
<1>16. parent \in [1 .. n -> NewEvents] /\ \A i, j \in 1 .. n : parent[i] = parent[j] => i = j
  BY <1>0, <1>3, <1>4, <1>11, Zenon
<1>17. PicturesAdded(NewEvents) /\ PictureTable'
  <2>1. NewEvents \in SUBSET RowIds
    BY Zenon DEF NewEvents
  <2> QED
    BY <1>0, <1>3, <1>16, <2>1, PicturesAreAdded, Zenon
<1> QED
  BY <1>15, <1>17, Zenon

\* The deliveries that are added: pending, and for the records of S.
LEMMA AddedEventFields ==
  ASSUME NEW S \in SUBSET Sources, NEW d \in Destinations, EventsAdded(S, d)
  PROVE  \A e \in NewEvents :
           /\ events'[e].source \in S /\ events'[e].destination = d
           /\ events'[e].status = "pending"
  BY NewRowTypes DEF EventsAdded

\* The picture jobs that are added: pending, and for the deliveries of E.
LEMMA AddedPictureFields ==
  ASSUME NEW E \in SUBSET RowIds, PicturesAdded(E)
  PROVE  \A p \in NewPictures : pictures'[p].parent \in E /\ pictures'[p].status = "pending"
  BY NewRowTypes DEF PicturesAdded

\* The types of what is not a row.
OtherTypes ==
  /\ archive \subseteq Sources
  /\ route \in [Terminals -> Route]
  /\ workers \in [Workers -> Holding]
  /\ \A w \in Workers : workers[w].id \in RowIds \cup {0}
  /\ eventPreview.candidates \subseteq Sources
  /\ picturePreview.candidates \subseteq RowIds
  /\ received \subseteq [picture : BOOLEAN, source : Sources,
                         destination : Destinations]

\* The type invariant has one part per table.
LEMMA TypeParts ==
  TypeOK <=> EventTable /\ PictureTable /\ OtherTypes
  BY Zenon DEF TypeOK, EventTable, PictureTable, OtherTypes

\* The same after a step.
LEMMA TypePartsNext ==
  TypeOK' <=> EventTable' /\ PictureTable' /\ OtherTypes'
  BY Zenon DEF TypeOK, EventTable, PictureTable, OtherTypes

\* What a worker sends is the message of its row.
LEMMA Messages ==
  /\ \A w \in EventWorkers : Message(w) = EventMessage(workers[w].id)
  /\ \A w \in PictureWorkers : Message(w) = PictureMessage(workers[w].id)
<1>1. ASSUME NEW w \in EventWorkers
      PROVE  Message(w) = EventMessage(workers[w].id)
  <2>1. (w \in PictureWorkers) = FALSE
    BY WorkersAssumption
  <2> QED
    BY <2>1, Zenon DEF Message, EventMessage
<1>2. ASSUME NEW w \in PictureWorkers
      PROVE  Message(w) = PictureMessage(workers[w].id)
  <2>1. (w \in PictureWorkers) = TRUE /\ w \notin EventWorkers
    BY WorkersAssumption, Zenon
  <2> QED
    BY <2>1, Zenon DEF Message, PictureMessage
<1> QED
  BY <1>1, <1>2, Zenon

\* What is sent follows from the record and the destination alone.
LEMMA EventMessageKept ==
  ASSUME NEW w \in EventWorkers, workers'[w] = workers[w],
         events'[workers[w].id].source = events[workers[w].id].source,
         events'[workers[w].id].destination = events[workers[w].id].destination
  PROVE  Message(w)' = Message(w)
  BY Zenon DEF Message

\* The same for a picture, whose record is that of its event.
LEMMA PictureMessageKept ==
  ASSUME NEW w \in PictureWorkers, NEW e, workers'[w] = workers[w],
         e = pictures[workers[w].id].parent, e = pictures'[workers[w].id].parent,
         events'[e].source = events[e].source,
         events'[e].destination = events[e].destination
  PROVE  Message(w)' = Message(w)
<1>1. w \notin EventWorkers
  BY WorkersAssumption, Zenon
<1>2. /\ Message(w) = [picture |-> w \in PictureWorkers, source |-> events[e].source,
                       destination |-> events[e].destination]
      /\ Message(w)' = [picture |-> w \in PictureWorkers, source |-> events'[e].source,
                        destination |-> events'[e].destination]
  BY <1>1, Zenon DEF Message
<1> QED
  BY <1>2, Zenon

\* What a worker holds is a row, and the delivery of a picture's record is
\* complete.
LEMMA HeldRows ==
  ASSUME IInv
  PROVE  /\ \A w \in EventWorkers : workers[w].id # 0 =>
              workers[w].id \in RowIds /\ events[workers[w].id].status # "none"
         /\ \A w \in PictureWorkers : workers[w].id # 0 =>
              /\ workers[w].id \in RowIds /\ pictures[workers[w].id].status # "none"
              /\ pictures[workers[w].id].parent \in RowIds
              /\ events[pictures[workers[w].id].parent].status = "delivered"
<1>1. \A w \in Workers : workers[w].id # 0 => workers[w].id \in RowIds
  BY DEF IInv, TypeOK, Holding
<1>2. ASSUME NEW w \in EventWorkers, workers[w].id # 0
      PROVE  workers[w].id \in RowIds /\ events[workers[w].id].status # "none"
  BY <1>1, <1>2, Zenon DEF Workers, IInv, EventClaimsHold
<1>3. ASSUME NEW w \in PictureWorkers, workers[w].id # 0
      PROVE  /\ workers[w].id \in RowIds /\ pictures[workers[w].id].status # "none"
             /\ pictures[workers[w].id].parent \in RowIds
             /\ events[pictures[workers[w].id].parent].status = "delivered"
  <2>1. workers[w].id \in RowIds
    BY <1>1, <1>3, Zenon DEF Workers
  <2>2. /\ pictures[workers[w].id].status # "none"
        /\ events[pictures[workers[w].id].parent].status = "delivered"
    BY <1>3, Zenon DEF IInv, PictureClaimsHold
  <2> QED
    BY <2>1, <2>2, Zenon DEF IInv, RowsAreFilled
<1> QED
  BY <1>2, <1>3, Zenon

\* The rows that exist are not touched; new rows may be added.
RowsKept ==
  \A id \in RowIds :
    /\ events[id].status # "none" => events'[id] = events[id]
    /\ pictures[id].status # "none" => pictures'[id] = pictures[id]

\* Adding rows disturbs no claim and no receipt.
LEMMA KeptRowsKeepClaims ==
  ASSUME IInv, RowsKept, UNCHANGED <<workers, received>>
  PROVE  /\ EventClaimsHold' /\ PictureClaimsHold' /\ EventClaimsOpen' /\ PictureClaimsOpen'
         /\ ReceivedWasQueued' /\ PictureFollowsEvent'
<1>1. /\ \A m \in received : m.source # "none"
      /\ \A id \in RowIds : events[id].status = "none" => events[id].source = "none"
  BY SourcesAssumption, Zenon DEF IInv, TypeOK, RowsAreFilled
<1>2. ASSUME NEW w \in EventWorkers, workers[w].id # 0
      PROVE  /\ workers'[w] = workers[w] /\ events'[workers[w].id] = events[workers[w].id]
             /\ Message(w)' = Message(w)
  BY <1>2, HeldRows, EventMessageKept, Zenon DEF RowsKept
<1>3. ASSUME NEW w \in PictureWorkers, workers[w].id # 0
      PROVE  /\ workers'[w] = workers[w] /\ pictures'[workers[w].id] = pictures[workers[w].id]
             /\ events'[pictures[workers[w].id].parent] = events[pictures[workers[w].id].parent]
             /\ Message(w)' = Message(w)
  <2>1. /\ workers'[w] = workers[w] /\ pictures'[workers[w].id] = pictures[workers[w].id]
    BY <1>3, HeldRows, Zenon DEF RowsKept
  <2>2. events'[pictures[workers[w].id].parent] = events[pictures[workers[w].id].parent]
    <3>1. /\ pictures[workers[w].id].parent \in RowIds
          /\ events[pictures[workers[w].id].parent].status # "none"
      BY <1>3, HeldRows
    <3> QED
      BY <3>1, Zenon DEF RowsKept
  <2> QED
    BY <2>1, <2>2, PictureMessageKept, Zenon
<1>4. EventClaimsHold'
  BY <1>2 DEF IInv, EventClaimsHold
<1>5. EventClaimsOpen'
  <2>1. \A w \in EventWorkers : EventClaimNewest(w)' =>
          /\ EventClaimNewest(w) /\ workers'[w] = workers[w]
          /\ events'[workers[w].id] = events[workers[w].id]
    BY <1>2 DEF EventClaimNewest
  <2> QED
    BY <2>1, Zenon DEF IInv, EventClaimsOpen
<1>6. PictureClaimsHold'
  BY <1>3 DEF IInv, PictureClaimsHold
<1>7. PictureClaimsOpen'
  <2>1. \A w \in PictureWorkers : PictureClaimNewest(w)' =>
          /\ PictureClaimNewest(w) /\ workers'[w] = workers[w]
          /\ pictures'[workers[w].id] = pictures[workers[w].id]
    BY <1>3 DEF PictureClaimNewest
  <2> QED
    BY <2>1, Zenon DEF IInv, PictureClaimsOpen
<1>8. ReceivedWasQueued' /\ PictureFollowsEvent'
  BY <1>1 DEF IInv, ReceivedWasQueued, PictureFollowsEvent, RowsKept
<1> QED
  BY <1>4, <1>5, <1>6, <1>7, <1>8, Zenon

\* A transaction that stores records and queues those of S, which have no
\* delivery, for the destination of their terminal.
LEMMA QueueStep ==
  ASSUME IInv, NEW t \in Terminals, NEW S \in SUBSET Sources, NEW d \in Destinations,
         Enqueue(S, d), route[t].enabled, d = route[t].destination,
         \A s \in S : TerminalOf[s] = t /\ s \in archive' /\ ~Queued(s),
         archive \subseteq archive', archive' \subseteq Sources,
         UNCHANGED <<route, workers, previews, received>>
  PROVE  IInv'
<1> USE DEF IInv
<1>1. EventsAdded(S, d) /\ EventTable' /\ PicturesAdded(NewEvents) /\ PictureTable'
  BY RowsAreAdded, TypeParts, Zenon
<1>2. NewEvents \in SUBSET RowIds /\ NewPictures \in SUBSET RowIds
  BY Zenon DEF NewEvents, NewPictures
<1>3. \A e \in NewEvents :
        /\ events[e].status = "none" /\ events'[e].status = "pending"
        /\ events'[e].source \in S /\ events'[e].destination = d
  BY <1>1, AddedEventFields, Zenon DEF NewEvents
<1>4. \A p \in NewPictures :
        /\ pictures[p].status = "none" /\ pictures'[p].status = "pending"
        /\ pictures'[p].parent \in NewEvents
  BY <1>1, <1>2, AddedPictureFields, Zenon DEF NewPictures
<1>5. /\ \A e \in RowIds \ NewEvents : events'[e] = events[e]
      /\ \A p \in RowIds \ NewPictures : pictures'[p] = pictures[p]
  BY <1>1, Zenon DEF EventsAdded, PicturesAdded
<1>6. RowsKept
  BY <1>3, <1>4, <1>5, Zenon DEF RowsKept
<1>7. TypeOK'
  BY <1>1, TypeParts, TypePartsNext, Zenon DEF OtherTypes, previews
<1>8. RowsAreFilled'
  <2> SUFFICES ASSUME NEW id \in RowIds
               PROVE  /\ events'[id].status = "none" => events'[id].source = "none"
                      /\ events'[id].status # "none" =>
                           /\ events'[id].source \in archive'
                           /\ events'[id].destination \in Destinations
                      /\ pictures'[id].status = "none" => pictures'[id].parent = 0
                      /\ pictures'[id].status # "none" =>
                           /\ pictures'[id].parent \in RowIds
                           /\ events'[pictures'[id].parent].status # "none"
    BY Zenon DEF RowsAreFilled
  <2>1. CASE id \in NewEvents
    BY <2>1, <1>2, <1>3, <1>4, <1>5, <1>6 DEF RowsAreFilled, RowsKept
  <2>2. CASE id \notin NewEvents
    BY <2>2, <1>2, <1>3, <1>4, <1>5, <1>6 DEF RowsAreFilled, RowsKept
  <2> QED
    BY <2>1, <2>2, Zenon
<1>9. RoutesAreFilled'
  BY Zenon DEF RoutesAreFilled
<1>10. \A i, j \in RowIds :
         events'[i].source = events'[j].source /\ events'[i].source # "none" => i = j
  <2>1. \A i \in RowIds, j \in NewEvents : i \notin NewEvents => events'[i].source # events'[j].source
    BY <1>3, <1>5 DEF Queued
  <2> QED
    BY <2>1, <1>1, <1>5 DEF EventsAdded, OneDeliveryPerSource
<1>11. \A i, j \in RowIds :
         pictures'[i].parent = pictures'[j].parent /\ pictures'[i].parent # 0 => i = j
  <2>1. \A i \in RowIds, j \in NewPictures :
          i \notin NewPictures => pictures'[i].parent # pictures'[j].parent \/ pictures'[i].parent = 0
    BY <1>3, <1>4, <1>5 DEF RowsAreFilled
  <2> QED
    BY <2>1, <1>1, <1>5 DEF PicturesAdded, OneDeliveryPerSource
<1>12. OneDeliveryPerSource'
  BY <1>10, <1>11, Zenon DEF OneDeliveryPerSource
<1>13. PicturesWait'
  BY <1>4, <1>5, <1>6 DEF PicturesWait, RowsKept, RowsAreFilled
<1>14. UnfinishedFollowsRoute'
  <2>1. \A e \in NewEvents :
          /\ TerminalOfEvent(e)' = t /\ route'[t] # NoRoute
          /\ route'[t].destination = events'[e].destination
    BY <1>3 DEF TerminalOfEvent, NoRoute
  <2>2. \A e \in RowIds \ NewEvents :
          /\ events'[e] = events[e] /\ TerminalOfEvent(e)' = TerminalOfEvent(e)
          /\ \A p \in PicturesOf(e)' : p \in PicturesOf(e) /\ pictures'[p] = pictures[p]
    BY <1>4, <1>5, Zenon DEF TerminalOfEvent, PicturesOf
  <2> QED
    BY <2>1, <2>2 DEF UnfinishedFollowsRoute, Unfinished
<1>15. DeliveredWasReceived'
  <2>1. \A id \in RowIds : events'[id].status = "delivered" => events'[id] = events[id]
    BY <1>3, <1>5, Zenon
  <2>2. \A id \in RowIds : pictures'[id].status = "delivered" =>
          /\ pictures'[id] = pictures[id] /\ pictures[id].parent \in RowIds
          /\ events'[pictures[id].parent] = events[pictures[id].parent]
    BY <1>4, <1>5, <1>6 DEF RowsAreFilled, RowsKept
  <2> QED
    BY <2>1, <2>2, Zenon DEF DeliveredWasReceived
<1> QED
  BY <1>6, <1>7, <1>8, <1>9, <1>12, <1>13, <1>14, <1>15, KeptRowsKeepClaims, Zenon

\* A transaction that queues picture jobs for delivered events that have none.
LEMMA PictureQueueStep ==
  ASSUME IInv, NEW t \in Terminals, NEW E \in SUBSET RowIds, PicturesAdded(E), PictureTable',
         route[t].enabled,
         \A e \in E : /\ events[e].status = "delivered" /\ PicturesOf(e) = {}
                      /\ TerminalOfEvent(e) = t,
         UNCHANGED <<archive, route, events, nextEvent, workers, previews, received>>
  PROVE  IInv'
<1> USE DEF IInv
<1>1. NewPictures \in SUBSET RowIds
  BY Zenon DEF NewPictures
<1>2. \A p \in NewPictures :
        /\ pictures[p].status = "none" /\ pictures'[p].status = "pending"
        /\ pictures'[p].parent \in E
  BY AddedPictureFields, Zenon DEF NewPictures
<1>3. \A p \in RowIds \ NewPictures : pictures'[p] = pictures[p]
  BY Zenon DEF PicturesAdded
<1>4. RowsKept
  BY <1>2, <1>3, Zenon DEF RowsKept
<1>5. TypeOK'
  BY TypeParts, TypePartsNext, Zenon DEF OtherTypes, EventTable, previews
<1>6. RowsAreFilled'
  BY <1>1, <1>2, <1>3 DEF RowsAreFilled
<1>7. RoutesAreFilled'
  BY Zenon DEF RoutesAreFilled
<1>8. OneDeliveryPerSource'
  <2>1. \A i \in RowIds, j \in NewPictures :
          i \notin NewPictures => pictures'[i].parent # pictures'[j].parent \/ pictures'[i].parent = 0
    <3>1. ASSUME NEW i \in RowIds, NEW j \in NewPictures, i \notin NewPictures,
                 pictures[i].parent # 0
          PROVE  pictures[i].parent # pictures'[j].parent
      <4>1. pictures[i].status # "none"
        BY <3>1, Zenon DEF RowsAreFilled
      <4>2. i \notin PicturesOf(pictures'[j].parent)
        BY <1>2, Zenon
      <4> QED
        BY <4>1, <4>2, Zenon DEF PicturesOf
    <3> QED
      BY <1>3, <3>1, Zenon
  <2>2. \A i, j \in RowIds :
          pictures'[i].parent = pictures'[j].parent /\ pictures'[i].parent # 0 => i = j
    BY <2>1, <1>3 DEF PicturesAdded, OneDeliveryPerSource
  <2> QED
    BY <2>2, Zenon DEF OneDeliveryPerSource
<1>9. PicturesWait'
  BY <1>2, <1>3 DEF PicturesWait
<1>10. UnfinishedFollowsRoute'
  <2>1. \A e \in E : events'[e].status = "delivered" /\ route'[TerminalOfEvent(e)'] # NoRoute
    BY DEF TerminalOfEvent, NoRoute
  <2>2. \A e \in RowIds \ E :
          /\ events'[e] = events[e] /\ TerminalOfEvent(e)' = TerminalOfEvent(e)
          /\ \A p \in PicturesOf(e)' : p \in PicturesOf(e) /\ pictures'[p] = pictures[p]
    BY <1>2, <1>3 DEF TerminalOfEvent, PicturesOf
  <2> QED
    BY <2>1, <2>2 DEF UnfinishedFollowsRoute, Unfinished
<1>11. DeliveredWasReceived'
  BY <1>2, <1>3, Zenon DEF DeliveredWasReceived
<1> QED
  BY <1>4, <1>5, <1>6, <1>7, <1>8, <1>9, <1>10, <1>11, KeptRowsKeepClaims, Zenon

-----------------------------------------------------------------------------
(* Writing one row.                                                        *)

\* The parts of the invariant that are not about claims.
RowInv ==
  /\ TypeOK /\ RowsAreFilled /\ RoutesAreFilled /\ OneDeliveryPerSource
  /\ PicturesWait /\ UnfinishedFollowsRoute
  /\ ReceivedWasQueued /\ DeliveredWasReceived /\ PictureFollowsEvent

\* A claim, a result, a retry or the passing of time writes a delivery that is
\* not finished; only a receipt makes it delivered.
EventWrite(id, row) ==
  /\ events[id].status \in {"pending", "sending", "failed"} /\ row.status # "none"
  /\ row.source = events[id].source /\ row.destination = events[id].destination
  /\ row.status = "delivered" =>
       [picture |-> FALSE, source |-> row.source, destination |-> row.destination] \in received
  /\ events' = [events EXCEPT ![id] = row]
  /\ UNCHANGED <<archive, route, pictures, nextEvent, nextPicture, previews, received>>

PictureWrite(id, row) ==
  /\ pictures[id].status \in {"pending", "sending", "failed"} /\ row.status # "none"
  /\ row.parent = pictures[id].parent
  /\ row = pictures[id] \/ row.status = "pending" \/ events[row.parent].status = "delivered"
  /\ row.status = "delivered" =>
       [picture |-> TRUE, source |-> events[row.parent].source,
        destination |-> events[row.parent].destination] \in received
  /\ pictures' = [pictures EXCEPT ![id] = row]
  /\ UNCHANGED <<archive, route, events, nextEvent, nextPicture, previews, received>>

RowIsWritten ==
  \/ \E id \in RowIds, row \in Event : EventWrite(id, row)
  \/ \E id \in RowIds, row \in Picture : PictureWrite(id, row)

WorkerTypes ==
  /\ workers \in [Workers -> Holding]
  /\ \A w \in Workers : workers[w].id \in RowIds \cup {0}

\* A write to a delivery keeps the parts about rows and routes.
LEMMA EventWriteKeepsRows ==
  ASSUME IInv, NEW id \in RowIds, NEW row \in Event, EventWrite(id, row), WorkerTypes'
  PROVE  RowInv'
<1> USE DEF IInv
<1>1. /\ events'[id] = row /\ \A e \in RowIds \ {id} : events'[e] = events[e]
      /\ events' \in [RowIds -> Event]
  BY Zenon DEF EventWrite, TypeOK
<1>2. \A e \in RowIds :
        /\ events'[e].source = events[e].source /\ events'[e].destination = events[e].destination
        /\ events'[e].status = "none" <=> events[e].status = "none"
        /\ events[e].status = "delivered" => events'[e] = events[e]
        /\ Unfinished(events'[e]) => Unfinished(events[e])
  BY <1>1, Zenon DEF EventWrite, Unfinished, Event, Statuses
<1>3. TypeOK'
  BY <1>1, <1>2, TypeParts, TypePartsNext, Zenon
     DEF EventTable, PictureTable, OtherTypes, WorkerTypes, EventWrite, previews
<1>4. RowsAreFilled' /\ RoutesAreFilled' /\ OneDeliveryPerSource'
  BY <1>2, SMTT(20) DEF EventWrite, RowsAreFilled, RoutesAreFilled, OneDeliveryPerSource
<1>5. PicturesWait'
  BY <1>2 DEF EventWrite, PicturesWait, RowsAreFilled
<1>6. UnfinishedFollowsRoute'
  <2>1. \A e \in RowIds : TerminalOfEvent(e)' = TerminalOfEvent(e) /\ PicturesOf(e)' = PicturesOf(e)
    BY <1>2, Zenon DEF EventWrite, TerminalOfEvent, PicturesOf
  <2>2. pictures' = pictures /\ route' = route
    BY Zenon DEF EventWrite
  <2> QED
    BY <1>2, <2>1, <2>2 DEF UnfinishedFollowsRoute
<1>7. ReceivedWasQueued' /\ PictureFollowsEvent'
  BY <1>2 DEF EventWrite, ReceivedWasQueued, PictureFollowsEvent
<1>8. DeliveredWasReceived'
  BY <1>1, <1>2, Zenon DEF EventWrite, DeliveredWasReceived, RowsAreFilled
<1> QED
  BY <1>3, <1>4, <1>5, <1>6, <1>7, <1>8, Zenon DEF RowInv

\* A write to a picture job keeps the parts about rows and routes.
LEMMA PictureWriteKeepsRows ==
  ASSUME IInv, NEW id \in RowIds, NEW row \in Picture, PictureWrite(id, row), WorkerTypes'
  PROVE  RowInv'
<1> USE DEF IInv
<1>1. /\ pictures'[id] = row /\ \A p \in RowIds \ {id} : pictures'[p] = pictures[p]
      /\ pictures' \in [RowIds -> Picture]
  BY Zenon DEF PictureWrite, TypeOK
<1>2. \A p \in RowIds :
        /\ pictures'[p].parent = pictures[p].parent
        /\ pictures'[p].status = "none" <=> pictures[p].status = "none"
        /\ Unfinished(pictures'[p]) => Unfinished(pictures[p])
  BY <1>1, Zenon DEF PictureWrite, Unfinished, Picture, Statuses
<1>3. TypeOK'
  BY <1>1, <1>2, TypeParts, TypePartsNext, Zenon
     DEF EventTable, PictureTable, OtherTypes, WorkerTypes, PictureWrite, previews
<1>4. RowsAreFilled' /\ RoutesAreFilled' /\ OneDeliveryPerSource'
  BY <1>2 DEF PictureWrite, RowsAreFilled, RoutesAreFilled, OneDeliveryPerSource
<1>5. PicturesWait'
  BY <1>1, <1>2 DEF PictureWrite, PicturesWait, RowsAreFilled
<1>6. UnfinishedFollowsRoute'
  <2>1. \A e \in RowIds : TerminalOfEvent(e)' = TerminalOfEvent(e) /\ PicturesOf(e)' = PicturesOf(e)
    BY <1>2 DEF PictureWrite, TerminalOfEvent, PicturesOf
  <2>2. events' = events /\ route' = route
    BY Zenon DEF PictureWrite
  <2> QED
    BY <1>2, <2>1, <2>2, Zenon DEF UnfinishedFollowsRoute, PicturesOf
<1>7. ReceivedWasQueued' /\ PictureFollowsEvent'
  BY <1>2 DEF PictureWrite, ReceivedWasQueued, PictureFollowsEvent
<1>8. DeliveredWasReceived'
  BY <1>1, <1>2, Zenon DEF PictureWrite, DeliveredWasReceived, RowsAreFilled
<1> QED
  BY <1>3, <1>4, <1>5, <1>6, <1>7, <1>8 DEF RowInv

-----------------------------------------------------------------------------
(* Claims.                                                                 *)

\* What a write to a delivery leaves as it is.
LEMMA EventWriteFrame ==
  ASSUME IInv, NEW id \in RowIds, NEW row \in Event, EventWrite(id, row)
  PROVE  /\ events'[id] = row /\ \A e \in RowIds \ {id} : events'[e] = events[e]
         /\ \A e \in RowIds :
              /\ events[e].status = "delivered" => events'[e] = events[e]
              /\ events[e].status # "none" => events'[e].status # "none"
              /\ events'[e].source = events[e].source
              /\ events'[e].destination = events[e].destination
         /\ pictures' = pictures /\ received' = received
  BY Zenon DEF EventWrite, IInv, TypeOK

\* What a write to a picture job leaves alone.
LEMMA PictureWriteFrame ==
  ASSUME IInv, NEW id \in RowIds, NEW row \in Picture, PictureWrite(id, row)
  PROVE  /\ pictures'[id] = row /\ \A p \in RowIds \ {id} : pictures'[p] = pictures[p]
         /\ \A p \in RowIds :
              /\ pictures[p].status # "none" => pictures'[p].status # "none"
              /\ pictures'[p].parent = pictures[p].parent
         /\ events' = events /\ received' = received
  BY Zenon DEF PictureWrite, IInv, TypeOK

\* Writing a delivery leaves the claims of pictures alone, and the other way
\* round.
LEMMA EventWriteKeepsPictureClaims ==
  ASSUME IInv, NEW id \in RowIds, NEW row \in Event, EventWrite(id, row),
         \A w \in PictureWorkers : workers'[w] = workers[w]
  PROVE  PictureClaimsHold' /\ PictureClaimsOpen'
<1>1. /\ \A e \in RowIds : /\ events[e].status = "delivered" => events'[e] = events[e]
      /\ pictures' = pictures /\ received' = received
  BY EventWriteFrame, Zenon
<1>2. ASSUME NEW w \in PictureWorkers, workers[w].id # 0
      PROVE  /\ workers'[w] = workers[w]
             /\ events'[pictures[workers[w].id].parent] = events[pictures[workers[w].id].parent]
             /\ Message(w)' = Message(w)
  <2>1. events'[pictures[workers[w].id].parent] = events[pictures[workers[w].id].parent]
    BY <1>1, <1>2, HeldRows, Zenon
  <2> QED
    BY <1>1, <2>1, PictureMessageKept, Zenon
<1>3. PictureClaimsHold'
  BY <1>1, <1>2 DEF IInv, PictureClaimsHold
<1>4. PictureClaimsOpen'
  <2>1. \A w \in PictureWorkers : PictureClaimNewest(w)' =>
          PictureClaimNewest(w) /\ workers'[w] = workers[w]
    BY <1>1, <1>2 DEF PictureClaimNewest
  <2> QED
    BY <1>1, <2>1, Zenon DEF IInv, PictureClaimsOpen
<1> QED
  BY <1>3, <1>4, Zenon

\* A write to a picture job disturbs no claim of a delivery.
LEMMA PictureWriteKeepsEventClaims ==
  ASSUME IInv, NEW id \in RowIds, NEW row \in Picture, PictureWrite(id, row),
         \A w \in EventWorkers : workers'[w] = workers[w]
  PROVE  EventClaimsHold' /\ EventClaimsOpen'
<1>1. events' = events /\ received' = received
  BY PictureWriteFrame, Zenon
<1>2. \A w \in EventWorkers : Message(w)' = Message(w)
  BY <1>1, EventMessageKept, Zenon
<1>3. EventClaimsHold'
  BY <1>1, <1>2, Zenon DEF IInv, EventClaimsHold
<1>4. EventClaimsOpen'
  <2>1. \A w \in EventWorkers : EventClaimNewest(w)' => EventClaimNewest(w)
    BY <1>1, Zenon DEF EventClaimNewest
  <2> QED
    BY <1>1, <2>1, Zenon DEF IInv, EventClaimsOpen
<1> QED
  BY <1>3, <1>4, Zenon

\* A write that keeps the attempts of a delivery keeps the claims on it, unless
\* it closes the newest: a worker may be made idle in the same step.
LEMMA EventWriteKeepsEventClaims ==
  ASSUME IInv, NEW id \in RowIds, NEW row \in Event, EventWrite(id, row),
         row.attempts = events[id].attempts,
         \A w \in EventWorkers : workers'[w] \in {workers[w], Idle},
         \A w \in EventWorkers :
           workers'[w] # Idle /\ workers[w].id = id /\ EventClaimNewest(w) =>
             row.status = "sending"
  PROVE  EventClaimsHold' /\ EventClaimsOpen'
<1>0. /\ \A e \in RowIds : /\ events[e].status # "none" => events'[e].status # "none"
                           /\ events'[e].source = events[e].source
                           /\ events'[e].destination = events[e].destination
      /\ \A e \in RowIds \ {id} : events'[e] = events[e]
      /\ events'[id] = row /\ received' = received
  BY EventWriteFrame, Zenon
<1>1. \A w \in EventWorkers : workers[w].id \in RowIds \cup {0}
  BY Zenon DEF IInv, TypeOK, Workers
<1>2. /\ Idle.id = 0
      /\ \A w \in EventWorkers :
           workers'[w].id # 0 => workers'[w] = workers[w] /\ workers'[w] # Idle
  BY DEF Idle
<1>3. \A e \in RowIds : events'[e].attempts = events[e].attempts
  BY <1>0, Zenon
<1>4. ASSUME NEW w \in EventWorkers, workers'[w].id # 0
      PROVE  Message(w)' = Message(w)
  BY <1>0, <1>1, <1>2, <1>4, EventMessageKept, Zenon
<1>5. EventClaimsHold'
  <2> SUFFICES ASSUME NEW w \in EventWorkers
               PROVE  /\ workers'[w].id = 0 => workers'[w] = Idle
                      /\ workers'[w].id # 0 =>
                           /\ events'[workers'[w].id].status # "none"
                           /\ workers'[w].attempts <= events'[workers'[w].id].attempts
                           /\ workers'[w].result = "delivered" => Message(w)' \in received'
    BY Zenon DEF EventClaimsHold
  <2>1. workers'[w].id = 0 => workers'[w] = Idle
    BY Zenon DEF IInv, EventClaimsHold
  <2>2. CASE workers'[w].id # 0
    <3>1. workers[w].id \in RowIds /\ workers'[w] = workers[w] /\ Message(w)' = Message(w)
      BY <1>1, <1>2, <1>4, <2>2, Zenon
    <3> QED
      BY <1>0, <1>3, <2>1, <2>2, <3>1, Zenon DEF IInv, EventClaimsHold
  <2> QED
    BY <2>1, <2>2, Zenon
<1>6. \A w \in EventWorkers : EventClaimNewest(w)' =>
        /\ EventClaimNewest(w) /\ workers'[w] = workers[w]
        /\ workers'[w] # Idle /\ workers[w].id \in RowIds
  BY <1>1, <1>2, <1>3, Zenon DEF EventClaimNewest
<1>7. EventClaimsOpen'
  <2>1. ASSUME NEW w \in EventWorkers, EventClaimNewest(w)'
        PROVE  events'[workers'[w].id].status = "sending"
    <3>1. events[workers[w].id].status = "sending"
      BY <1>6, <2>1, Zenon DEF IInv, EventClaimsOpen
    <3>2. CASE workers[w].id = id
      BY <1>0, <1>6, <2>1, <3>2, Zenon
    <3>3. CASE workers[w].id # id
      BY <1>0, <1>6, <2>1, <3>1, <3>3, Zenon
    <3> QED
      BY <3>2, <3>3, Zenon
  <2> QED
    BY <1>6, <2>1, Zenon DEF IInv, EventClaimsOpen
<1> QED
  BY <1>5, <1>7, Zenon

\* Nor other claims of pictures, when it ends its own or none.
LEMMA PictureWriteKeepsPictureClaims ==
  ASSUME IInv, NEW id \in RowIds, NEW row \in Picture, PictureWrite(id, row),
         row.attempts = pictures[id].attempts,
         \A w \in PictureWorkers : workers'[w] \in {workers[w], Idle},
         \A w \in PictureWorkers :
           workers'[w] # Idle /\ workers[w].id = id /\ PictureClaimNewest(w) =>
             row.status = "sending"
  PROVE  PictureClaimsHold' /\ PictureClaimsOpen'
<1>0. /\ \A p \in RowIds : /\ pictures[p].status # "none" => pictures'[p].status # "none"
                           /\ pictures'[p].parent = pictures[p].parent
      /\ \A p \in RowIds \ {id} : pictures'[p] = pictures[p]
      /\ pictures'[id] = row /\ events' = events /\ received' = received
  BY PictureWriteFrame, Zenon
<1>1. \A w \in PictureWorkers : workers[w].id \in RowIds \cup {0}
  BY Zenon DEF IInv, TypeOK, Workers
<1>2. /\ Idle.id = 0
      /\ \A w \in PictureWorkers :
           workers'[w].id # 0 => workers'[w] = workers[w] /\ workers'[w] # Idle
  BY DEF Idle
<1>3. \A p \in RowIds : pictures'[p].attempts = pictures[p].attempts
  BY <1>0, Zenon
<1>4. ASSUME NEW w \in PictureWorkers, workers'[w].id # 0
      PROVE  Message(w)' = Message(w)
  <2>1. workers[w].id \in RowIds /\ workers'[w] = workers[w]
    BY <1>1, <1>2, <1>4, Zenon
  <2> QED
    BY <1>0, <2>1, PictureMessageKept, Zenon
<1>5. PictureClaimsHold'
  <2> SUFFICES ASSUME NEW w \in PictureWorkers
               PROVE  /\ workers'[w].id = 0 => workers'[w] = Idle
                      /\ workers'[w].id # 0 =>
                           /\ pictures'[workers'[w].id].status # "none"
                           /\ events'[pictures'[workers'[w].id].parent].status = "delivered"
                           /\ workers'[w].attempts <= pictures'[workers'[w].id].attempts
                           /\ workers'[w].result = "delivered" => Message(w)' \in received'
    BY Zenon DEF PictureClaimsHold
  <2>1. workers'[w].id = 0 => workers'[w] = Idle
    BY Zenon DEF IInv, PictureClaimsHold
  <2>2. CASE workers'[w].id # 0
    <3>1. workers[w].id \in RowIds /\ workers'[w] = workers[w] /\ Message(w)' = Message(w)
      BY <1>1, <1>2, <1>4, <2>2, Zenon
    <3>2. /\ pictures[workers[w].id].status # "none"
          /\ events[pictures[workers[w].id].parent].status = "delivered"
          /\ workers[w].attempts <= pictures[workers[w].id].attempts
          /\ workers[w].result = "delivered" => Message(w) \in received
      BY <2>2, <3>1, Zenon DEF IInv, PictureClaimsHold
    <3>3. /\ pictures'[workers[w].id].status # "none"
          /\ pictures'[workers[w].id].parent = pictures[workers[w].id].parent
          /\ pictures'[workers[w].id].attempts = pictures[workers[w].id].attempts
      BY <1>0, <1>3, <3>1, <3>2, Zenon
    <3> QED
      BY <1>0, <2>1, <3>1, <3>2, <3>3, Zenon
  <2> QED
    BY <2>1, <2>2, Zenon
<1>6. \A w \in PictureWorkers : PictureClaimNewest(w)' =>
        /\ PictureClaimNewest(w) /\ workers'[w] = workers[w]
        /\ workers'[w] # Idle /\ workers[w].id \in RowIds
  BY <1>1, <1>2, <1>3, Zenon DEF PictureClaimNewest
<1>7. PictureClaimsOpen'
  <2>1. ASSUME NEW w \in PictureWorkers, PictureClaimNewest(w)'
        PROVE  pictures'[workers'[w].id].status = "sending"
    <3>1. pictures[workers[w].id].status = "sending"
      BY <1>6, <2>1, Zenon DEF IInv, PictureClaimsOpen
    <3>2. CASE workers[w].id = id
      BY <1>0, <1>6, <2>1, <3>2, Zenon
    <3>3. CASE workers[w].id # id
      BY <1>0, <1>6, <2>1, <3>1, <3>3, Zenon
    <3> QED
      BY <3>2, <3>3, Zenon
  <2> QED
    BY <1>6, <2>1, Zenon DEF IInv, PictureClaimsOpen
<1> QED
  BY <1>5, <1>7, Zenon

\* A claim of a delivery counts an attempt and keeps what it is for.
LEMMA ClaimedEvent ==
  ASSUME NEW row \in Event
  PROVE  /\ Claimed(row) \in Event /\ Claimed(row).status = "sending"
         /\ Claimed(row).source = row.source /\ Claimed(row).destination = row.destination
         /\ Claimed(row).attempts = row.attempts + 1
<1>1. row.attempts + 1 \in Nat
  BY DEF Event
<1> QED
  BY <1>1, Zenon DEF Claimed, Event, Statuses

\* A claim of a picture job counts an attempt and keeps its event.
LEMMA ClaimedPicture ==
  ASSUME NEW row \in Picture
  PROVE  /\ Claimed(row) \in Picture /\ Claimed(row).status = "sending"
         /\ Claimed(row).parent = row.parent
         /\ Claimed(row).attempts = row.attempts + 1
<1>1. row.attempts + 1 \in Nat
  BY DEF Picture
<1> QED
  BY <1>1, Zenon DEF Claimed, Picture, Statuses

\* The row of a claim is held by the claiming worker, or the claim is lost.
LEMMA HeldClaim ==
  ASSUME WorkerTypes, NEW w \in Workers, NEW id \in RowIds, NEW row, row.attempts \in Nat,
         Hold(w, id, row) \/ UNCHANGED workers
  PROVE  /\ WorkerTypes'
         /\ \A v \in Workers \ {w} : workers'[v] = workers[v]
         /\ \/ workers'[w] = workers[w]
            \/ workers'[w] = [id |-> id, attempts |-> row.attempts, result |-> "none"]
<1> DEFINE h == [id |-> id, attempts |-> row.attempts, result |-> "none"]
<1>1. id \in Nat
  BY DEF RowIds
<1>2. h \in Holding /\ h.id = id
  BY <1>1, Zenon DEF Holding
<1> HIDE DEF h
<1>3. workers' = [workers EXCEPT ![w] = h] \/ workers' = workers
  BY Zenon DEF Hold, h
<1> QED
  BY <1>2, <1>3, Zenon DEF WorkerTypes, h

\* ClaimEventDelivery: the new claim is the newest, older ones are not.
LEMMA ClaimEventDeliveryStep ==
  ASSUME IInv, NEW w \in EventWorkers, ClaimEventDelivery(w)
  PROVE  IInv' /\ RowIsWritten
<1> USE DEF IInv
<1>1. PICK e \in EventsDue :
        /\ workers[w] = Idle
        /\ events' = [events EXCEPT ![e] = Claimed(events[e])]
        /\ Hold(w, e, Claimed(events[e])) \/ UNCHANGED workers
        /\ UNCHANGED <<archive, route, pictures, nextEvent, nextPicture, previews, received>>
  BY Zenon DEF ClaimEventDelivery
<1> DEFINE row == Claimed(events[e])
<1>2. /\ e \in RowIds /\ events[e] \in Event /\ w \in Workers /\ WorkerTypes
      /\ events[e].status \in {"pending", "sending"} /\ events[e].attempts \in Nat
  BY Zenon DEF EventsDue, InProgress, TypeOK, Event, Workers, WorkerTypes
<1>3. /\ row \in Event /\ row.status = "sending"
      /\ row.source = events[e].source /\ row.destination = events[e].destination
      /\ row.attempts = events[e].attempts + 1 /\ row.attempts \in Nat
  BY <1>2, ClaimedEvent
<1> HIDE DEF row
<1>4. EventWrite(e, row)
  BY <1>1, <1>2, <1>3, Zenon DEF EventWrite, row
<1>5. /\ WorkerTypes'
      /\ \A v \in Workers \ {w} : workers'[v] = workers[v]
      /\ \/ workers'[w] = workers[w]
         \/ workers'[w] = [id |-> e, attempts |-> row.attempts, result |-> "none"]
  BY <1>1, <1>2, <1>3, HeldClaim, Zenon DEF row
<1>6. RowInv'
  BY <1>2, <1>3, <1>4, <1>5, EventWriteKeepsRows, Zenon
<1>7. PictureClaimsHold' /\ PictureClaimsOpen'
  <2>1. \A v \in PictureWorkers : workers'[v] = workers[v]
    BY <1>5, WorkersAssumption, Zenon DEF Workers
  <2> QED
    BY <2>1, <1>2, <1>3, <1>4, EventWriteKeepsPictureClaims, Zenon
<1>8. /\ events'[e] = row /\ \A f \in RowIds \ {e} : events'[f] = events[f]
      /\ \A f \in RowIds : /\ events[f].status # "none" => events'[f].status # "none"
                           /\ events'[f].source = events[f].source
                           /\ events'[f].destination = events[f].destination
      /\ received' = received
  BY <1>2, <1>3, <1>4, EventWriteFrame, Zenon
<1>9. \A v \in EventWorkers :
        /\ workers[v].id \in RowIds \cup {0} /\ workers[v].attempts \in Nat
        /\ \/ workers'[v] = workers[v]
           \/ /\ v = w /\ workers'[v].id = e
              /\ workers'[v].attempts = row.attempts /\ workers'[v].result = "none"
  BY <1>5 DEF TypeOK, Workers, Holding
<1>10. ASSUME NEW v \in EventWorkers, workers'[v] = workers[v], workers[v].id # 0
       PROVE  Message(v)' = Message(v)
  BY <1>8, <1>9, <1>10, EventMessageKept, Zenon
<1>11. EventClaimsHold'
  <2> SUFFICES ASSUME NEW v \in EventWorkers
               PROVE  /\ workers'[v].id = 0 => workers'[v] = Idle
                      /\ workers'[v].id # 0 =>
                           /\ events'[workers'[v].id].status # "none"
                           /\ workers'[v].attempts <= events'[workers'[v].id].attempts
                           /\ workers'[v].result = "delivered" => Message(v)' \in received'
    BY Zenon DEF EventClaimsHold
  <2>1. CASE workers'[v] = workers[v] /\ workers[v].id = 0
    BY <2>1, Zenon DEF EventClaimsHold
  <2>2. CASE workers'[v] = workers[v] /\ workers[v].id # 0
    <3>1. workers[v].id \in RowIds /\ Message(v)' = Message(v)
      BY <1>9, <1>10, <2>2, Zenon
    <3>2. /\ events[workers[v].id].status # "none"
          /\ workers[v].attempts <= events[workers[v].id].attempts
          /\ workers[v].result = "delivered" => Message(v) \in received
      BY <2>2, Zenon DEF EventClaimsHold
    <3>3. workers[v].attempts <= events'[workers[v].id].attempts
      BY <1>2, <1>3, <1>8, <1>9, <3>1, <3>2
    <3>4. events'[workers[v].id].status # "none"
      BY <1>8, <3>1, <3>2, Zenon
    <3> QED
      BY <1>8, <2>2, <3>1, <3>2, <3>3, <3>4, Zenon
  <2>3. CASE workers'[v] # workers[v]
    BY <2>3, <1>2, <1>3, <1>8, <1>9 DEF RowIds
  <2> QED
    BY <2>1, <2>2, <2>3, Zenon
<1>12. EventClaimsOpen'
  <2>1. ASSUME NEW v \in EventWorkers, EventClaimNewest(v)'
        PROVE  \/ v = w /\ workers'[v].id = e
               \/ workers'[v] = workers[v] /\ workers[v].id # e /\ EventClaimNewest(v)
    <3>1. workers'[v].id # 0 /\ events'[workers'[v].id].attempts = workers'[v].attempts
      BY <2>1, Zenon DEF EventClaimNewest
    <3>2. CASE workers'[v] = workers[v]
      <4>1. workers[v].attempts <= events[workers[v].id].attempts
        BY <3>1, <3>2, Zenon DEF EventClaimsHold
      <4>2. workers[v].id # e
        BY <1>2, <1>3, <1>8, <1>9, <3>1, <3>2, <4>1
      <4> QED
        BY <1>8, <1>9, <3>1, <3>2, <4>2, Zenon DEF EventClaimNewest
    <3>3. CASE workers'[v] # workers[v]
      BY <1>9, <3>3, Zenon
    <3> QED
      BY <3>2, <3>3, Zenon
  <2>2. ASSUME NEW v \in EventWorkers, EventClaimNewest(v)'
        PROVE  events'[workers'[v].id].status = "sending"
    <3>1. CASE workers'[v] = workers[v] /\ workers[v].id # e /\ EventClaimNewest(v)
      <4>1. workers[v].id \in RowIds /\ workers[v].id # e
        BY <1>9, <3>1, Zenon DEF EventClaimNewest
      <4>2. events[workers[v].id].status = "sending"
        BY <3>1, Zenon DEF EventClaimsOpen
      <4> QED
        BY <1>8, <3>1, <4>1, <4>2, Zenon
    <3>2. CASE workers'[v].id = e
      BY <1>3, <1>8, <3>2, Zenon
    <3> QED
      BY <2>1, <2>2, <3>1, <3>2, Zenon
  <2> QED
    BY <2>1, <2>2, Zenon DEF EventClaimsOpen
<1> QED
  BY <1>2, <1>3, <1>4, <1>6, <1>7, <1>11, <1>12, Zenon DEF RowInv, RowIsWritten

\* The claim of a picture, whose event is delivered.
LEMMA ClaimPictureStep ==
  ASSUME IInv, NEW w \in PictureWorkers, ClaimPicture(w)
  PROVE  IInv' /\ RowIsWritten
<1> USE DEF IInv
<1>1. PICK p \in PicturesDue :
        /\ workers[w] = Idle
        /\ pictures' = [pictures EXCEPT ![p] = Claimed(pictures[p])]
        /\ Hold(w, p, Claimed(pictures[p])) \/ UNCHANGED workers
        /\ UNCHANGED <<archive, route, events, nextEvent, nextPicture, previews, received>>
  BY Zenon DEF ClaimPicture
<1> DEFINE row == Claimed(pictures[p])
<1>2. /\ p \in RowIds /\ pictures[p] \in Picture /\ w \in Workers /\ WorkerTypes
      /\ pictures[p].status \in {"pending", "sending"} /\ pictures[p].attempts \in Nat
      /\ events[pictures[p].parent].status = "delivered"
  BY Zenon DEF PicturesDue, InProgress, TypeOK, Picture, Workers, WorkerTypes
<1>3. /\ row \in Picture /\ row.status = "sending" /\ row.parent = pictures[p].parent
      /\ row.attempts = pictures[p].attempts + 1 /\ row.attempts \in Nat
  BY <1>2, ClaimedPicture
<1> HIDE DEF row
<1>4. PictureWrite(p, row)
  BY <1>1, <1>2, <1>3, Zenon DEF PictureWrite, row
<1>5. /\ WorkerTypes'
      /\ \A v \in Workers \ {w} : workers'[v] = workers[v]
      /\ \/ workers'[w] = workers[w]
         \/ workers'[w] = [id |-> p, attempts |-> row.attempts, result |-> "none"]
  BY <1>1, <1>2, <1>3, HeldClaim, Zenon DEF row
<1>6. RowInv'
  BY <1>2, <1>3, <1>4, <1>5, PictureWriteKeepsRows, Zenon
<1>7. EventClaimsHold' /\ EventClaimsOpen'
  <2>1. \A v \in EventWorkers : workers'[v] = workers[v]
    BY <1>5, WorkersAssumption, Zenon DEF Workers
  <2> QED
    BY <2>1, <1>2, <1>3, <1>4, PictureWriteKeepsEventClaims, Zenon
<1>8. /\ pictures'[p] = row /\ \A q \in RowIds \ {p} : pictures'[q] = pictures[q]
      /\ \A q \in RowIds : /\ pictures[q].status # "none" => pictures'[q].status # "none"
                           /\ pictures'[q].parent = pictures[q].parent
      /\ events' = events /\ received' = received
  BY <1>2, <1>3, <1>4, PictureWriteFrame, Zenon
<1>9. \A v \in PictureWorkers :
        /\ workers[v].id \in RowIds \cup {0} /\ workers[v].attempts \in Nat
        /\ \/ workers'[v] = workers[v]
           \/ /\ v = w /\ workers'[v].id = p
              /\ workers'[v].attempts = row.attempts /\ workers'[v].result = "none"
  BY <1>5 DEF TypeOK, Workers, Holding
<1>10. ASSUME NEW v \in PictureWorkers, workers'[v] = workers[v], workers[v].id # 0
       PROVE  Message(v)' = Message(v)
  <2>1. workers[v].id \in RowIds
    BY <1>9, <1>10, Zenon
  <2> QED
    BY <1>8, <1>10, <2>1, PictureMessageKept, Zenon
<1>11. PictureClaimsHold'
  <2> SUFFICES ASSUME NEW v \in PictureWorkers
               PROVE  /\ workers'[v].id = 0 => workers'[v] = Idle
                      /\ workers'[v].id # 0 =>
                           /\ pictures'[workers'[v].id].status # "none"
                           /\ events'[pictures'[workers'[v].id].parent].status = "delivered"
                           /\ workers'[v].attempts <= pictures'[workers'[v].id].attempts
                           /\ workers'[v].result = "delivered" => Message(v)' \in received'
    BY Zenon DEF PictureClaimsHold
  <2>1. CASE workers'[v] = workers[v] /\ workers[v].id = 0
    BY <2>1, Zenon DEF PictureClaimsHold
  <2>2. CASE workers'[v] = workers[v] /\ workers[v].id # 0
    <3>1. workers[v].id \in RowIds /\ Message(v)' = Message(v)
      BY <1>9, <1>10, <2>2, Zenon
    <3>2. /\ pictures[workers[v].id].status # "none"
          /\ events[pictures[workers[v].id].parent].status = "delivered"
          /\ workers[v].attempts <= pictures[workers[v].id].attempts
          /\ workers[v].result = "delivered" => Message(v) \in received
      BY <2>2, Zenon DEF PictureClaimsHold
    <3>3. workers[v].attempts <= pictures'[workers[v].id].attempts
      BY <1>2, <1>3, <1>8, <1>9, <3>1, <3>2
    <3>4. pictures'[workers[v].id].status # "none"
          /\ pictures'[workers[v].id].parent = pictures[workers[v].id].parent
      BY <1>8, <3>1, <3>2, Zenon
    <3> QED
      BY <1>8, <2>2, <3>1, <3>2, <3>3, <3>4, Zenon
  <2>3. CASE workers'[v] # workers[v]
    BY <2>3, <1>2, <1>3, <1>8, <1>9 DEF RowIds
  <2> QED
    BY <2>1, <2>2, <2>3, Zenon
<1>12. PictureClaimsOpen'
  <2>1. ASSUME NEW v \in PictureWorkers, PictureClaimNewest(v)'
        PROVE  \/ v = w /\ workers'[v].id = p
               \/ workers'[v] = workers[v] /\ workers[v].id # p /\ PictureClaimNewest(v)
    <3>1. workers'[v].id # 0 /\ pictures'[workers'[v].id].attempts = workers'[v].attempts
      BY <2>1, Zenon DEF PictureClaimNewest
    <3>2. CASE workers'[v] = workers[v]
      <4>1. workers[v].attempts <= pictures[workers[v].id].attempts
        BY <3>1, <3>2, Zenon DEF PictureClaimsHold
      <4>2. workers[v].id # p
        BY <1>2, <1>3, <1>8, <1>9, <3>1, <3>2, <4>1, SMTT(20)
      <4> QED
        BY <1>8, <1>9, <3>1, <3>2, <4>2, Zenon DEF PictureClaimNewest
    <3>3. CASE workers'[v] # workers[v]
      BY <1>9, <3>3, Zenon
    <3> QED
      BY <3>2, <3>3, Zenon
  <2>2. ASSUME NEW v \in PictureWorkers, PictureClaimNewest(v)'
        PROVE  pictures'[workers'[v].id].status = "sending"
    <3>1. CASE workers'[v] = workers[v] /\ workers[v].id # p /\ PictureClaimNewest(v)
      <4>1. workers[v].id \in RowIds /\ workers[v].id # p
        BY <1>9, <3>1, Zenon DEF PictureClaimNewest
      <4>2. pictures[workers[v].id].status = "sending"
        BY <3>1, Zenon DEF PictureClaimsOpen
      <4> QED
        BY <1>8, <3>1, <4>1, <4>2, Zenon
    <3>2. CASE workers'[v].id = p
      BY <1>3, <1>8, <3>2, Zenon
    <3> QED
      BY <2>1, <2>2, <3>1, <3>2, Zenon
  <2> QED
    BY <2>1, <2>2, Zenon DEF PictureClaimsOpen
<1> QED
  BY <1>2, <1>3, <1>4, <1>6, <1>7, <1>11, <1>12, Zenon DEF RowInv, RowIsWritten

\* A retry, and the passing of time.
LEMMA RetryEventDeliveryStep ==
  ASSUME IInv, NEW e \in RowIds, RetryEventDelivery(e) \/ EventFallsDue(e)
  PROVE  IInv' /\ RowIsWritten
<1> USE DEF IInv
<1>1. PICK row \in Event :
        /\ EventWrite(e, row) /\ row.attempts = events[e].attempts
        /\ row.status = events[e].status \/ events[e].status = "failed"
        /\ UNCHANGED workers
  <2>1. events[e] \in Event
    BY Zenon DEF TypeOK
  <2>2. CASE RetryEventDelivery(e)
    <3> DEFINE row == [events[e] EXCEPT !.status = "pending", !.due = TRUE]
    <3>1. /\ row \in Event /\ row.status = "pending" /\ row.attempts = events[e].attempts
          /\ row.source = events[e].source /\ row.destination = events[e].destination
      BY <2>1, Zenon DEF Event, Statuses
    <3>2. events' = [events EXCEPT ![e] = row]
      BY <2>2, Zenon DEF RetryEventDelivery
    <3>3. EventWrite(e, row) /\ events[e].status = "failed" /\ UNCHANGED workers
      BY <2>2, <3>1, <3>2, Zenon DEF RetryEventDelivery, EventWrite
    <3> QED
      BY <3>1, <3>3, Zenon
  <2>3. CASE EventFallsDue(e)
    <3> DEFINE row == [events[e] EXCEPT !.due = TRUE]
    <3>1. /\ row \in Event /\ row.status = events[e].status /\ row.attempts = events[e].attempts
          /\ row.source = events[e].source /\ row.destination = events[e].destination
      BY <2>1, Zenon DEF Event, Statuses
    <3>2. events' = [events EXCEPT ![e] = row]
      BY <2>3, Zenon DEF EventFallsDue
    <3>3. EventWrite(e, row) /\ UNCHANGED workers
      BY <2>3, <3>1, <3>2, Zenon DEF EventFallsDue, EventWrite, InProgress
    <3> QED
      BY <3>1, <3>3, Zenon
  <2> QED
    BY <2>2, <2>3, Zenon
<1>2. WorkerTypes'
  BY <1>1, Zenon DEF TypeOK, WorkerTypes
<1>3. RowInv' /\ PictureClaimsHold' /\ PictureClaimsOpen'
  BY <1>1, <1>2, EventWriteKeepsRows, EventWriteKeepsPictureClaims, Zenon
<1>4. \A w \in EventWorkers : workers[w].id = e /\ EventClaimNewest(w) => row.status = "sending"
  BY <1>1, Zenon DEF EventClaimsOpen
<1>5. EventClaimsHold' /\ EventClaimsOpen'
  BY <1>1, <1>4, EventWriteKeepsEventClaims, Zenon
<1> QED
  BY <1>1, <1>3, <1>5, Zenon DEF RowInv, RowIsWritten

\* A manual retry of a picture keeps the attempts of its claims.
LEMMA RetryAttachmentDeliveryStep ==
  ASSUME IInv, NEW p \in RowIds, RetryAttachmentDelivery(p) \/ PictureFallsDue(p)
  PROVE  IInv' /\ RowIsWritten
<1> USE DEF IInv
<1>1. PICK row \in Picture :
        /\ PictureWrite(p, row) /\ row.attempts = pictures[p].attempts
        /\ row.status = pictures[p].status \/ pictures[p].status = "failed"
        /\ UNCHANGED workers
  <2>1. pictures[p] \in Picture
    BY Zenon DEF TypeOK
  <2>2. CASE RetryAttachmentDelivery(p)
    <3> DEFINE row == [pictures[p] EXCEPT !.status = "pending", !.due = TRUE]
    <3>1. /\ row \in Picture /\ row.status = "pending" /\ row.attempts = pictures[p].attempts
          /\ row.parent = pictures[p].parent
      BY <2>1, Zenon DEF Picture, Statuses
    <3>2. pictures' = [pictures EXCEPT ![p] = row]
      BY <2>2, Zenon DEF RetryAttachmentDelivery
    <3>3. PictureWrite(p, row) /\ pictures[p].status = "failed" /\ UNCHANGED workers
      BY <2>2, <3>1, <3>2, Zenon DEF RetryAttachmentDelivery, PictureWrite
    <3> QED
      BY <3>1, <3>3, Zenon
  <2>3. CASE PictureFallsDue(p)
    <3> DEFINE row == [pictures[p] EXCEPT !.due = TRUE]
    <3>1. /\ row \in Picture /\ row.status = pictures[p].status /\ row.attempts = pictures[p].attempts
          /\ row.parent = pictures[p].parent
      BY <2>1, Zenon DEF Picture, Statuses
    <3>2. pictures' = [pictures EXCEPT ![p] = row]
      BY <2>3 DEF PictureFallsDue
    <3>3. pictures[p].status = "pending" \/ events[pictures[p].parent].status = "delivered"
      BY <2>3, Zenon DEF PictureFallsDue, InProgress, PicturesWait
    <3>4. PictureWrite(p, row) /\ UNCHANGED workers
      BY <2>3, <3>1, <3>2, <3>3, Zenon DEF PictureFallsDue, PictureWrite, InProgress
    <3> QED
      BY <3>1, <3>4, Zenon
  <2> QED
    BY <2>2, <2>3
<1>2. WorkerTypes'
  BY <1>1, Zenon DEF TypeOK, WorkerTypes
<1>3. RowInv' /\ EventClaimsHold' /\ EventClaimsOpen'
  BY <1>1, <1>2, PictureWriteKeepsRows, PictureWriteKeepsEventClaims, Zenon
<1>4. \A w \in PictureWorkers : workers[w].id = p /\ PictureClaimNewest(w) => row.status = "sending"
  BY <1>1, Zenon DEF PictureClaimsOpen
<1>5. PictureClaimsHold' /\ PictureClaimsOpen'
  BY <1>1, <1>4, PictureWriteKeepsPictureClaims, Zenon
<1> QED
  BY <1>1, <1>3, <1>5, Zenon DEF RowInv, RowIsWritten
=============================================================================
