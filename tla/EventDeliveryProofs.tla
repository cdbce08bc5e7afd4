------------------------- MODULE EventDeliveryProofs -------------------------
(***************************************************************************)
(* What the outbox guarantees for any number of terminals, records,        *)
(* workers, destinations and rows: the proofs of the safety properties of  *)
(* EventDelivery, and that it implements EventOutbox.                      *)
(***************************************************************************)
EXTENDS EventDeliveryRows

-----------------------------------------------------------------------------
(* The result of an attempt.                                               *)

\* A worker without a row is well typed.
LEMMA IdleIsHolding ==
  Idle \in Holding /\ Idle.id = 0
  BY Zenon DEF Idle, Holding

\* A worker gives up its row and writes nothing.
LEMMA ReleaseStep ==
  ASSUME IInv, NEW w \in Workers, workers' = [workers EXCEPT ![w] = Idle],
         UNCHANGED <<archive, route, outbox, previews, received>>
  PROVE  IInv'
<1> USE DEF IInv
<1>1. /\ workers' \in [Workers -> Holding]
      /\ \A v \in Workers : workers'[v] \in {workers[v], Idle}
  BY IdleIsHolding, Zenon DEF TypeOK
<1>2. WorkerTypes'
  BY <1>1, IdleIsHolding, Zenon DEF WorkerTypes, TypeOK
<1>3. \A v \in Workers : workers'[v].id # 0 => workers'[v] = workers[v] /\ Message(v)' = Message(v)
  BY <1>1, IdleIsHolding, Zenon DEF outbox, Message
<1>4. TypeOK'
  BY <1>2, Zenon DEF TypeOK, WorkerTypes, outbox, previews
<1>5. /\ RowsAreFilled' /\ RoutesAreFilled' /\ OneDeliveryPerSource' /\ PicturesWait'
      /\ ReceivedWasQueued' /\ DeliveredWasReceived' /\ PictureFollowsEvent'
  BY Zenon DEF outbox, RowsAreFilled, RoutesAreFilled, OneDeliveryPerSource, PicturesWait,
         ReceivedWasQueued, DeliveredWasReceived, PictureFollowsEvent
<1>6. UnfinishedFollowsRoute'
  BY Zenon DEF outbox, UnfinishedFollowsRoute, TerminalOfEvent, PicturesOf
<1>7. EventClaimsHold' /\ EventClaimsOpen'
  <2>1. events' = events /\ pictures' = pictures
    BY Zenon DEF outbox
  <2>2. \A v \in EventWorkers : v \in Workers /\ (workers'[v].id = 0 => workers'[v] = Idle)
    BY <1>1, Zenon DEF Workers, EventClaimsHold
  <2>3. EventClaimsHold'
    BY <1>1, <1>3, <2>1, <2>2, Zenon DEF EventClaimsHold
  <2>4. \A v \in EventWorkers :
          EventClaimNewest(v)' => EventClaimNewest(v) /\ workers'[v] = workers[v]
    BY <1>3, <2>1, <2>2, Zenon DEF EventClaimNewest
  <2>5. EventClaimsOpen'
    BY <2>1, <2>4, Zenon DEF EventClaimsOpen
  <2> QED
    BY <2>3, <2>5, Zenon
<1>8. PictureClaimsHold' /\ PictureClaimsOpen'
  <2>1. events' = events /\ pictures' = pictures
    BY Zenon DEF outbox
  <2>2. \A v \in PictureWorkers : v \in Workers /\ (workers'[v].id = 0 => workers'[v] = Idle)
    BY <1>1, Zenon DEF Workers, PictureClaimsHold
  <2>3. PictureClaimsHold'
    BY <1>1, <1>3, <2>1, <2>2, Zenon DEF PictureClaimsHold
  <2>4. \A v \in PictureWorkers :
          PictureClaimNewest(v)' => PictureClaimNewest(v) /\ workers'[v] = workers[v]
    BY <1>3, <2>1, <2>2, Zenon DEF PictureClaimNewest
  <2>5. PictureClaimsOpen'
    BY <2>1, <2>4, Zenon DEF PictureClaimsOpen
  <2> QED
    BY <2>3, <2>5, Zenon
<1> QED
  BY <1>4, <1>5, <1>6, <1>7, <1>8, Zenon

\* The row still carries the claim: the result is recorded.
LEMMA RecordEventStep ==
  ASSUME IInv, NEW w \in EventWorkers, workers[w].result # "none",
         Owns(w, events[workers[w].id]),
         events' = [events EXCEPT ![workers[w].id] = Finished(w, events[workers[w].id])],
         workers' = [workers EXCEPT ![w] = Idle],
         UNCHANGED <<archive, route, pictures, nextEvent, nextPicture, previews, received>>
  PROVE  IInv' /\ RowIsWritten
<1> USE DEF IInv
<1> DEFINE id == workers[w].id
           row == Finished(w, events[id])
<1>1. /\ w \in Workers /\ workers[w] \in Holding /\ workers[w].id # 0 /\ id \in RowIds
      /\ events[id] \in Event
  BY DEF TypeOK, Workers, EventClaimsHold, Idle
<1>2. /\ row \in Event /\ row.status = workers[w].result /\ row.attempts = events[id].attempts
      /\ row.source = events[id].source /\ row.destination = events[id].destination
  <2>1. row = [events[id] EXCEPT !.status = workers[w].result, !.due = FALSE]
    BY Zenon DEF Finished
  <2>2. workers[w].result \in Statuses
    BY <1>1, Zenon DEF Holding, Statuses
  <2> QED
    BY <1>1, <2>1, <2>2, Zenon DEF Event
<1>3. row.status = "delivered" =>
        [picture |-> FALSE, source |-> row.source, destination |-> row.destination] \in received
  BY <1>1, <1>2, Messages, Zenon DEF EventClaimsHold, EventMessage
<1>4. events[id].status = "sending" /\ events[id].attempts = workers[w].attempts
  BY Zenon DEF Owns
<1> HIDE DEF row
<1>5. events' = [events EXCEPT ![id] = row]
  BY Zenon DEF row
<1>6. EventWrite(id, row)
  BY <1>1, <1>2, <1>3, <1>4, <1>5, Zenon DEF EventWrite
<1>7. /\ workers' \in [Workers -> Holding]
      /\ \A v \in Workers \ {w} : workers'[v] = workers[v]
      /\ workers'[w] = Idle
  BY <1>1, IdleIsHolding, Zenon DEF TypeOK
<1>8. WorkerTypes'
  BY <1>7, IdleIsHolding, Zenon DEF WorkerTypes, TypeOK
<1>9. RowInv' /\ PictureClaimsHold' /\ PictureClaimsOpen'
  <2>1. \A v \in PictureWorkers : workers'[v] = workers[v]
    BY <1>7, WorkersAssumption, Zenon DEF Workers
  <2> QED
    BY <2>1, <1>1, <1>2, <1>6, <1>8, EventWriteKeepsRows, EventWriteKeepsPictureClaims, Zenon
<1>10. EventClaimsHold' /\ EventClaimsOpen'
  <2>1. \A v \in EventWorkers : workers'[v] \in {workers[v], Idle}
    BY <1>7, Zenon DEF Workers
  <2>2. \A v \in EventWorkers : EventClaimNewest(v) /\ workers[v].id = id => v = w
    BY <1>1, <1>4, Zenon DEF EventClaimsOpen, EventClaimNewest
  <2> QED
    BY <2>1, <2>2, <1>1, <1>2, <1>6, <1>7, EventWriteKeepsEventClaims
<1> QED
  BY <1>1, <1>2, <1>6, <1>9, <1>10, Zenon DEF RowInv, RowIsWritten

\* The result of a picture is recorded for the claim that is the newest.
LEMMA RecordPictureStep ==
  ASSUME IInv, NEW w \in PictureWorkers, workers[w].result # "none",
         Owns(w, pictures[workers[w].id]),
         pictures' = [pictures EXCEPT ![workers[w].id] = Finished(w, pictures[workers[w].id])],
         workers' = [workers EXCEPT ![w] = Idle],
         UNCHANGED <<archive, route, events, nextEvent, nextPicture, previews, received>>
  PROVE  IInv' /\ RowIsWritten
<1> USE DEF IInv
<1> DEFINE id == workers[w].id
           row == Finished(w, pictures[id])
<1>1. /\ w \in Workers /\ workers[w] \in Holding /\ workers[w].id # 0 /\ id \in RowIds
      /\ pictures[id] \in Picture /\ events[pictures[id].parent].status = "delivered"
  BY DEF TypeOK, Workers, PictureClaimsHold, Idle
<1>2. /\ row \in Picture /\ row.status = workers[w].result
      /\ row.attempts = pictures[id].attempts /\ row.parent = pictures[id].parent
  <2>1. row = [pictures[id] EXCEPT !.status = workers[w].result, !.due = FALSE]
    BY Zenon DEF Finished
  <2>2. workers[w].result \in Statuses
    BY <1>1, Zenon DEF Holding, Statuses
  <2> QED
    BY <1>1, <2>1, <2>2, Zenon DEF Picture
<1>3. row.status = "delivered" =>
        [picture |-> TRUE, source |-> events[row.parent].source,
         destination |-> events[row.parent].destination] \in received
  BY <1>1, <1>2, Messages, Zenon DEF PictureClaimsHold, PictureMessage
<1>4. pictures[id].status = "sending" /\ pictures[id].attempts = workers[w].attempts
  BY DEF Owns
<1> HIDE DEF row
<1>5. pictures' = [pictures EXCEPT ![id] = row]
  BY DEF row
<1>6. PictureWrite(id, row)
  BY <1>1, <1>2, <1>3, <1>4, <1>5, Zenon DEF PictureWrite
<1>7. /\ workers' \in [Workers -> Holding]
      /\ \A v \in Workers \ {w} : workers'[v] = workers[v]
      /\ workers'[w] = Idle
  BY <1>1, IdleIsHolding, Zenon DEF TypeOK
<1>8. WorkerTypes'
  BY <1>7, IdleIsHolding, Zenon DEF WorkerTypes, TypeOK
<1>9. RowInv' /\ EventClaimsHold' /\ EventClaimsOpen'
  <2>1. \A v \in EventWorkers : workers'[v] = workers[v]
    BY <1>7, WorkersAssumption, Zenon DEF Workers
  <2> QED
    BY <2>1, <1>1, <1>2, <1>6, <1>8, PictureWriteKeepsRows, PictureWriteKeepsEventClaims, Zenon
<1>10. PictureClaimsHold' /\ PictureClaimsOpen'
  <2>1. \A v \in PictureWorkers : workers'[v] \in {workers[v], Idle}
    BY <1>7, Zenon DEF Workers
  <2>2. \A v \in PictureWorkers : PictureClaimNewest(v) /\ workers[v].id = id => v = w
    BY <1>1, <1>4, Zenon DEF PictureClaimsOpen, PictureClaimNewest
  <2> QED
    BY <2>1, <2>2, <1>1, <1>2, <1>6, <1>7, PictureWriteKeepsPictureClaims
<1> QED
  BY <1>1, <1>2, <1>6, <1>9, <1>10, Zenon DEF RowInv, RowIsWritten

\* FinishEventDelivery ends the newest claim; an older one only lets go.
LEMMA FinishEventDeliveryStep ==
  ASSUME IInv, NEW w \in Workers, FinishEventDelivery(w)
  PROVE  IInv' /\ (RowIsWritten \/ UNCHANGED <<events, pictures>>)
<1> USE DEF FinishEventDelivery
<1> DEFINE id == workers[w].id
<1>1. CASE UNCHANGED <<events, pictures>>
  BY <1>1, ReleaseStep, Zenon DEF outbox
<1>2. CASE /\ w \in EventWorkers /\ UNCHANGED pictures
           /\ events' = [events EXCEPT ![id] = Finished(w, events[id])]
  <2>1. CASE Owns(w, events[id])
    BY <1>2, <2>1, RecordEventStep, Zenon
  <2>2. CASE ~Owns(w, events[id])
    <3>1. events' = events
      BY <1>2, <2>2, Zenon DEF Finished, IInv, TypeOK
    <3> QED
      BY <1>2, <3>1, ReleaseStep, Zenon DEF outbox
  <2> QED
    BY <2>1, <2>2, Zenon
<1>3. CASE /\ w \in PictureWorkers /\ UNCHANGED events
           /\ pictures' = [pictures EXCEPT ![id] = Finished(w, pictures[id])]
  <2>1. CASE Owns(w, pictures[id])
    BY <1>3, <2>1, RecordPictureStep, Zenon
  <2>2. CASE ~Owns(w, pictures[id])
    <3>1. pictures' = pictures
      BY <1>3, <2>2, Zenon DEF Finished, IInv, TypeOK
    <3> QED
      BY <1>3, <3>1, ReleaseStep, Zenon DEF outbox
  <2> QED
    BY <2>1, <2>2, Zenon
<1> QED
  BY <1>1, <1>2, <1>3, Zenon

\* A worker that stops forgets its row and leaves it to its lease.
LEMMA WorkerStopsStep ==
  ASSUME IInv, NEW w \in Workers, WorkerStops(w)
  PROVE  IInv'
  BY ReleaseStep, Zenon DEF WorkerStops

\* The message of a claim: its row exists, and a picture follows its event.
LEMMA MessageOfClaim ==
  ASSUME IInv, NEW w \in Workers, workers[w].id # 0
  PROVE  /\ Message(w) \in [picture : BOOLEAN, source : Sources, destination : Destinations]
         /\ \E e \in RowIds : /\ events[e].source = Message(w).source
                              /\ events[e].destination = Message(w).destination
         /\ Message(w).picture => [Message(w) EXCEPT !.picture = FALSE] \in received
<1> USE DEF IInv
<1>1. CASE w \in EventWorkers
  <2>1. /\ workers[w].id \in RowIds /\ events[workers[w].id].source \in Sources
        /\ events[workers[w].id].destination \in Destinations
    BY <1>1, Zenon DEF EventClaimsHold, RowsAreFilled, TypeOK
  <2>2. Message(w) = EventMessage(workers[w].id)
    BY <1>1, Messages, Zenon
  <2> QED
    BY <2>1, <2>2 DEF EventMessage
<1>2. CASE w \in PictureWorkers
  <2> DEFINE e == pictures[workers[w].id].parent
  <2>1. /\ workers[w].id \in RowIds /\ e \in RowIds /\ events[e].status = "delivered"
        /\ events[e].source \in Sources /\ events[e].destination \in Destinations
    BY <1>2, Zenon DEF PictureClaimsHold, RowsAreFilled, TypeOK
  <2>2. Message(w) = [picture |-> TRUE, source |-> events[e].source,
                      destination |-> events[e].destination]
    BY <1>2, Messages, Zenon DEF PictureMessage
  <2> HIDE DEF e
  <2>3. [Message(w) EXCEPT !.picture = FALSE]
          = [picture |-> FALSE, source |-> events[e].source, destination |-> events[e].destination]
    <3> DEFINE type == [picture : BOOLEAN, source : Sources, destination : Destinations]
               m == [Message(w) EXCEPT !.picture = FALSE]
    <3>1. Message(w) \in type /\ Message(w).source = events[e].source
          /\ Message(w).destination = events[e].destination
      BY <2>1, <2>2
    <3>2. m \in type /\ m.picture = FALSE /\ m.source = events[e].source
          /\ m.destination = events[e].destination
      BY <3>1, Zenon
    <3> HIDE DEF m
    <3>3. m = [picture |-> FALSE, source |-> events[e].source, destination |-> events[e].destination]
      BY <3>2, Zenon
    <3> QED
      BY <3>3, Zenon DEF m
  <2>4. [picture |-> FALSE, source |-> events[e].source, destination |-> events[e].destination]
          \in received
    BY <2>1, Zenon DEF DeliveredWasReceived
  <2> QED
    BY <2>1, <2>2, <2>3, <2>4
<1> QED
  BY <1>1, <1>2, Zenon DEF Workers

\* An attempt: the school may or may not store the message, and does if the
\* answer is its receipt.
LEMMA SendStep ==
  ASSUME IInv, NEW w \in Workers, Send(w)
  PROVE  IInv'
<1> USE DEF IInv
<1>1. PICK result \in {"pending", "failed", "delivered"} :
        workers' = [workers EXCEPT ![w].result = result] /\ received' \in Stored(w, result)
  BY Zenon DEF Send
<1>2. /\ workers[w].id # 0 /\ workers[w] \in Holding
      /\ UNCHANGED <<archive, route, outbox, previews>>
  BY Zenon DEF Send, TypeOK
<1> DEFINE h == [workers[w] EXCEPT !.result = result]
<1>3. h \in Holding /\ h.id = workers[w].id /\ h.attempts = workers[w].attempts /\ h.result = result
  <2>1. result \in {"none", "pending", "failed", "delivered"}
    BY Zenon
  <2> QED
    BY <1>2, <2>1, Zenon DEF Holding
<1> HIDE DEF h
<1>4. workers' = [workers EXCEPT ![w] = h]
  BY <1>1, Zenon DEF h
<1>5. /\ workers' \in [Workers -> Holding]
      /\ \A v \in Workers : /\ workers'[v].id = workers[v].id
                            /\ workers'[v].attempts = workers[v].attempts
      /\ \A v \in Workers \ {w} : workers'[v] = workers[v]
      /\ workers'[w].result = result
  BY <1>3, <1>4, Zenon DEF TypeOK
<1>6. /\ received \subseteq received' /\ received' \subseteq received \cup {Message(w)}
      /\ result = "delivered" => Message(w) \in received'
  BY <1>1, Zenon DEF Stored
<1>7. \A v \in Workers : Message(v)' = Message(v)
  BY <1>2, <1>5, Zenon DEF Message, outbox
<1>8. TypeOK'
  BY <1>2, <1>5, <1>6, MessageOfClaim, Zenon DEF TypeOK, outbox, previews
<1>9. RowsAreFilled' /\ RoutesAreFilled' /\ OneDeliveryPerSource' /\ PicturesWait'
  BY <1>2, Zenon DEF outbox, RowsAreFilled, RoutesAreFilled, OneDeliveryPerSource, PicturesWait
<1>10. UnfinishedFollowsRoute'
  BY <1>2, Zenon DEF outbox, UnfinishedFollowsRoute, TerminalOfEvent, PicturesOf
<1>11. ReceivedWasQueued' /\ PictureFollowsEvent'
  <2>1. events' = events /\ pictures' = pictures
    BY <1>2, Zenon DEF outbox
  <2>2. /\ \A m \in received' : m \in received \/ m = Message(w)
        /\ received \subseteq received'
    BY <1>6, Zenon
  <2>3. ReceivedWasQueued'
    <3>1. \A m \in received' :
            \E e \in RowIds : /\ events[e].source = m.source
                              /\ events[e].destination = m.destination
      BY <1>2, <2>2, MessageOfClaim, Zenon DEF ReceivedWasQueued
    <3> QED
      BY <2>1, <3>1, Zenon DEF ReceivedWasQueued
  <2>4. PictureFollowsEvent'
    BY <1>2, <2>1, <2>2, MessageOfClaim, Zenon DEF PictureFollowsEvent
  <2> QED
    BY <2>3, <2>4, Zenon
<1>12. DeliveredWasReceived'
  BY <1>2, <1>6, Zenon DEF outbox, DeliveredWasReceived
<1>13. EventClaimsHold' /\ EventClaimsOpen'
  <2>1. events' = events /\ pictures' = pictures
    BY <1>2, Zenon DEF outbox
  <2>2. \A v \in EventWorkers :
          /\ v \in Workers /\ workers'[v].id = workers[v].id
          /\ workers'[v].attempts = workers[v].attempts /\ Message(v)' = Message(v)
          /\ workers[v].id = 0 => workers'[v] = workers[v]
          /\ workers'[v].result = "delivered" =>
               workers[v].result = "delivered" \/ Message(v) \in received'
    BY <1>2, <1>5, <1>6, <1>7, Zenon DEF Workers
  <2>3. EventClaimsHold'
    BY <1>6, <2>1, <2>2, Zenon DEF EventClaimsHold
  <2>4. \A v \in EventWorkers : EventClaimNewest(v)' => EventClaimNewest(v)
    BY <2>1, <2>2, Zenon DEF EventClaimNewest
  <2>5. EventClaimsOpen'
    BY <2>1, <2>2, <2>4, Zenon DEF EventClaimsOpen
  <2> QED
    BY <2>3, <2>5, Zenon
<1>14. PictureClaimsHold' /\ PictureClaimsOpen'
  <2>1. events' = events /\ pictures' = pictures
    BY <1>2, Zenon DEF outbox
  <2>2. \A v \in PictureWorkers :
          /\ v \in Workers /\ workers'[v].id = workers[v].id
          /\ workers'[v].attempts = workers[v].attempts /\ Message(v)' = Message(v)
          /\ workers[v].id = 0 => workers'[v] = workers[v]
          /\ workers'[v].result = "delivered" =>
               workers[v].result = "delivered" \/ Message(v) \in received'
    BY <1>2, <1>5, <1>6, <1>7, Zenon DEF Workers
  <2>3. PictureClaimsHold'
    BY <1>6, <2>1, <2>2, Zenon DEF PictureClaimsHold
  <2>4. \A v \in PictureWorkers : PictureClaimNewest(v)' => PictureClaimNewest(v)
    BY <2>1, <2>2, Zenon DEF PictureClaimNewest
  <2>5. PictureClaimsOpen'
    BY <2>1, <2>2, <2>4, Zenon DEF PictureClaimsOpen
  <2> QED
    BY <2>3, <2>5, Zenon
<1> QED
  BY <1>8, <1>9, <1>10, <1>11, <1>12, <1>13, <1>14, Zenon

-----------------------------------------------------------------------------
(* Destinations, ingestion and backfills.                                  *)

\* A step that leaves the rows, the workers and the school alone.
LEMMA QuietStep ==
  ASSUME IInv, OtherTypes', RoutesAreFilled', UnfinishedFollowsRoute',
         archive \subseteq archive', UNCHANGED <<outbox, workers, received>>
  PROVE  IInv'
<1> USE DEF IInv
<1>1. TypeOK'
  BY TypeParts, TypePartsNext, Zenon DEF outbox, EventTable, PictureTable
<1>2. RowsAreFilled'
  BY Zenon DEF outbox, RowsAreFilled
<1>3. OneDeliveryPerSource' /\ PicturesWait' /\ DeliveredWasReceived'
  BY Zenon DEF outbox, OneDeliveryPerSource, PicturesWait, DeliveredWasReceived
<1>4. RowsKept
  BY Zenon DEF outbox, RowsKept
<1> QED
  BY <1>1, <1>2, <1>3, <1>4, KeptRowsKeepClaims, Zenon

\* Routes and rows that stay the same keep agreeing.
LEMMA RoutesUnchanged ==
  ASSUME IInv, UNCHANGED <<route, outbox>>
  PROVE  RoutesAreFilled' /\ UnfinishedFollowsRoute'
  BY Zenon DEF IInv, outbox, RoutesAreFilled, UnfinishedFollowsRoute, TerminalOfEvent, PicturesOf

\* SaveDeliveryRoute refuses another destination while rows are in progress.
LEMMA SaveDeliveryRouteStep ==
  ASSUME IInv, NEW t \in Terminals, NEW d \in Destinations, NEW enabled \in BOOLEAN,
         SaveDeliveryRoute(t, d, enabled)
  PROVE  IInv'
<1> USE DEF IInv, SaveDeliveryRoute
<1> DEFINE new == [destination |-> d, enabled |-> enabled]
<1>1. new \in Route /\ new.destination = d /\ d # "none" /\ new # NoRoute
  BY DestinationsAssumption, Zenon DEF Route, NoRoute
<1> HIDE DEF new
<1>2. route' = [route EXCEPT ![t] = new]
  BY Zenon DEF new
<1>3. /\ route' \in [Terminals -> Route] /\ route'[t] = new
      /\ \A u \in Terminals \ {t} : route'[u] = route[u]
  BY <1>1, <1>2, Zenon DEF TypeOK
<1>4. OtherTypes'
  BY <1>3, Zenon DEF OtherTypes, TypeOK, previews
<1>5. RoutesAreFilled'
  BY <1>1, <1>3, Zenon DEF RoutesAreFilled
<1>6. \A e \in RowIds : Unfinished(events[e]) \/ PicturesOf(e) # {} => TerminalOfEvent(e) \in Terminals
  BY SourcesAssumption DEF RowsAreFilled, PicturesOf, Unfinished, TerminalOfEvent, TypeOK
<1>7. \A e \in RowIds : Unfinished(events[e]) /\ PicturesOf(e) # {} /\ TerminalOfEvent(e) = t =>
        events[e].destination = d
  <2> SUFFICES ASSUME NEW e \in RowIds, Unfinished(events[e]), TerminalOfEvent(e) = t,
                      NEW p \in PicturesOf(e)
               PROVE  events[e].destination = d
    BY Zenon
  <2>1. InProgress(pictures[p]) /\ e \in EventsOf(t)
    BY Zenon DEF PicturesOf, PicturesWait, Unfinished, InProgress, EventsOf
  <2>2. route[t].destination \in {"none", d}
    BY <2>1, Zenon DEF Blocked
  <2>3. route[t] # NoRoute /\ route[t].destination = events[e].destination
    BY Zenon DEF UnfinishedFollowsRoute
  <2> QED
    BY <2>2, <2>3, Zenon DEF RoutesAreFilled
<1>8. \A e \in RowIds : TerminalOfEvent(e)' = TerminalOfEvent(e) /\ PicturesOf(e)' = PicturesOf(e)
  BY Zenon DEF outbox, TerminalOfEvent, PicturesOf
<1>9. UnfinishedFollowsRoute'
  BY <1>1, <1>3, <1>6, <1>7, <1>8 DEF outbox, UnfinishedFollowsRoute
<1> QED
  BY <1>4, <1>5, <1>9, QuietStep, Zenon

\* DeleteDeliveryRoute refuses while a row is unfinished.
LEMMA DeleteDeliveryRouteStep ==
  ASSUME IInv, NEW t \in Terminals, DeleteDeliveryRoute(t)
  PROVE  IInv'
<1> USE DEF IInv, DeleteDeliveryRoute
<1>1. /\ route' \in [Terminals -> Route] /\ route'[t] = NoRoute
      /\ \A u \in Terminals \ {t} : route'[u] = route[u]
  BY Zenon DEF TypeOK, NoRoute, Route
<1>2. OtherTypes'
  BY <1>1, Zenon DEF OtherTypes, TypeOK, previews
<1>3. RoutesAreFilled'
  BY <1>1, Zenon DEF RoutesAreFilled
<1>4. \A e \in RowIds : Unfinished(events[e]) \/ (\E p \in PicturesOf(e) : Unfinished(pictures[p])) =>
        TerminalOfEvent(e) \in Terminals \ {t}
  <2>1. \A e \in RowIds : Unfinished(events[e]) \/ PicturesOf(e) # {} =>
          TerminalOfEvent(e) \in Terminals /\ events[e].status # "none"
    BY SourcesAssumption DEF RowsAreFilled, PicturesOf, Unfinished, TerminalOfEvent, TypeOK
  <2> QED
    BY <2>1, Zenon DEF EventsOf
<1>5. \A e \in RowIds : TerminalOfEvent(e)' = TerminalOfEvent(e) /\ PicturesOf(e)' = PicturesOf(e)
  BY Zenon DEF outbox, TerminalOfEvent, PicturesOf
<1>6. UnfinishedFollowsRoute'
  BY <1>1, <1>4, <1>5 DEF outbox, UnfinishedFollowsRoute
<1> QED
  BY <1>2, <1>3, <1>6, QuietStep, Zenon

\* A batch of the vendor queues the records that are new.
LEMMA InsertDeviceEventBatchStep ==
  ASSUME IInv, NEW t \in Terminals,
         NEW batch \in SUBSET {s \in Live : TerminalOf[s] = t}, InsertDeviceEventBatch(t, batch)
  PROVE  IInv'
<1> USE DEF IInv, InsertDeviceEventBatch
<1>1. /\ batch \in SUBSET Sources /\ archive' \subseteq Sources /\ archive \subseteq archive'
      /\ \A s \in batch : TerminalOf[s] = t
  BY Zenon DEF TypeOK, Sources
<1>2. CASE route[t].enabled
  <2> DEFINE S == batch \ archive
             d == route[t].destination
  <2>1. d \in Destinations
    BY <1>2 DEF TypeOK, Route, RoutesAreFilled, NoRoute
  <2>2. \A s \in S : TerminalOf[s] = t /\ s \in archive' /\ ~Queued(s)
    BY <1>1, SourcesAssumption DEF Queued, RowsAreFilled
  <2>3. S \in SUBSET Sources /\ Enqueue(S, d)
    BY <1>1, <1>2, Zenon
  <2> HIDE DEF S, d
  <2>4. d = route[t].destination
    BY Zenon DEF d
  <2> QED
    BY <1>1, <1>2, <2>1, <2>2, <2>3, <2>4, QueueStep, Zenon
<1>3. CASE ~route[t].enabled
  <2>1. OtherTypes'
    BY <1>1, Zenon DEF OtherTypes, TypeOK, previews
  <2> QED
    BY <1>1, <1>3, <2>1, RoutesUnchanged, QuietStep, Zenon
<1> QED
  BY <1>2, <1>3, Zenon

\* Retained records enter the archive and queue nothing.
LEMMA InsertRetainedAccessEventsStep ==
  ASSUME IInv, NEW r \in Retained, InsertRetainedAccessEvents(r)
  PROVE  IInv'
<1> USE DEF IInv, InsertRetainedAccessEvents
<1>1. OtherTypes' /\ archive \subseteq archive'
  BY Zenon DEF OtherTypes, TypeOK, previews, Sources
<1> QED
  BY <1>1, RoutesUnchanged, QuietStep, Zenon

\* The records that a backfill queues: stored records of the range that have no
\* delivery and are no copies.
LEMMA Candidates ==
  ASSUME NEW t, NEW window \in Windows
  PROVE  /\ EventBackfill(t, window).destination = route[t].destination
         /\ EventBackfill(t, window).candidates \in SUBSET Sources
         /\ \A s \in EventBackfill(t, window).candidates :
              /\ s \in window \cap archive /\ TerminalOf[s] = t
              /\ ~Copied(s, window) /\ ~Queued(s)
  BY CopiesAssumption, Zenon DEF EventBackfill

\* A preview of events changes no row.
LEMMA PreviewEventBackfillStep ==
  ASSUME IInv, NEW t \in Terminals, NEW window \in Windows, PreviewEventBackfill(t, window)
  PROVE  IInv'
<1>1. eventPreview'.candidates \subseteq Sources
  BY Candidates, Zenon DEF PreviewEventBackfill
<1>2. OtherTypes'
  BY <1>1, Zenon DEF OtherTypes, IInv, TypeOK, PreviewEventBackfill
<1> QED
  BY <1>2, RoutesUnchanged, QuietStep, Zenon DEF PreviewEventBackfill

\* A backfill queues the records of its preview.
LEMMA QueueEventBackfillStep ==
  ASSUME IInv, NEW t \in Terminals, NEW window \in Windows, QueueEventBackfill(t, window)
  PROVE  IInv'
<1> DEFINE S == EventBackfill(t, window).candidates
           d == EventBackfill(t, window).destination
<1>1. d = route[t].destination /\ route[t].enabled /\ Enqueue(S, d)
  BY Candidates, Zenon DEF QueueEventBackfill, CanPreview
<1>2. S \in SUBSET Sources /\ \A s \in S : TerminalOf[s] = t /\ s \in archive /\ ~Queued(s)
  BY Candidates, Zenon
<1>3. UNCHANGED <<archive, route, workers, previews, received>>
  BY Zenon DEF QueueEventBackfill
<1> HIDE DEF S, d
<1>4. d \in Destinations
  BY <1>1 DEF IInv, TypeOK, Route, RoutesAreFilled, NoRoute
<1>5. archive \subseteq archive' /\ archive' \subseteq Sources
  BY <1>3, Zenon DEF IInv, TypeOK
<1> QED
  BY <1>1, <1>2, <1>3, <1>4, <1>5, QueueStep, Zenon

\* A backfill of pictures selects delivered events without a job.
LEMMA PictureCandidates ==
  ASSUME NEW t, NEW through
  PROVE  /\ PictureBackfill(t, through).candidates \in SUBSET RowIds
         /\ \A e \in PictureBackfill(t, through).candidates :
              /\ events[e].status = "delivered" /\ PicturesOf(e) = {}
              /\ TerminalOfEvent(e) = t
  BY Zenon DEF PictureBackfill, EventsOf

\* A preview of pictures changes no row.
LEMMA PreviewAttachmentBackfillStep ==
  ASSUME IInv, NEW t \in Terminals, NEW bound, PreviewAttachmentBackfill(t, bound)
  PROVE  IInv'
<1>1. picturePreview'.candidates \subseteq RowIds
  BY PictureCandidates, Zenon DEF PreviewAttachmentBackfill
<1>2. UNCHANGED <<archive, route, outbox, workers, eventPreview, received>>
  BY Zenon DEF PreviewAttachmentBackfill
<1>3. OtherTypes'
  BY <1>1, <1>2, Zenon DEF OtherTypes, IInv, TypeOK
<1> QED
  BY <1>2, <1>3, RoutesUnchanged, QuietStep, Zenon

\* A backfill of pictures adds one job per candidate.
LEMMA AttachmentsAreAdded ==
  ASSUME IInv, NEW t \in Terminals, QueueAttachmentBackfill(t)
  PROVE  /\ PicturesAdded(PictureBackfill(t, picturePreview.through).candidates)
         /\ PictureTable'
<1> DEFINE E == PictureBackfill(t, picturePreview.through).candidates
           n == Cardinality(E)
<1>1. PICK o \in Ascending(E) : EnqueuePictures(n, o)
  BY Zenon DEF QueueAttachmentBackfill
<1>2. E \in SUBSET RowIds
  BY PictureCandidates, Zenon
<1> HIDE DEF E
<1>3. IsFiniteSet(E) /\ n \in Nat
  BY <1>2, RowIdsAreFinite, Zenon
<1>4. o \in [1 .. n -> E] /\ \A i, j \in 1 .. n : o[i] = o[j] => i = j
  BY <1>1, Zenon DEF Ascending, Orders
<1> HIDE DEF n
<1>5. PicturesAdded(E) /\ PictureTable'
  BY <1>1, <1>2, <1>3, <1>4, PicturesAreAdded, TypeParts, Zenon DEF IInv
<1> QED
  BY <1>5, Zenon DEF E

\* A backfill of pictures keeps the invariant.
LEMMA QueueAttachmentBackfillStep ==
  ASSUME IInv, NEW t \in Terminals, QueueAttachmentBackfill(t)
  PROVE  IInv'
<1> DEFINE E == PictureBackfill(t, picturePreview.through).candidates
<1>1. route[t].enabled /\ UNCHANGED <<archive, route, events, nextEvent, workers, previews, received>>
  BY Zenon DEF QueueAttachmentBackfill, CanPreviewPictures
<1>2. /\ E \in SUBSET RowIds
      /\ \A e \in E : /\ events[e].status = "delivered" /\ PicturesOf(e) = {}
                      /\ TerminalOfEvent(e) = t
  BY PictureCandidates, Zenon
<1>3. PicturesAdded(E) /\ PictureTable'
  BY AttachmentsAreAdded, Zenon
<1> HIDE DEF E
<1> QED
  BY <1>1, <1>2, <1>3, PictureQueueStep, Zenon

-----------------------------------------------------------------------------
(* The invariant.                                                          *)

\* Every action keeps the invariant.
LEMMA NextStep ==
  ASSUME IInv, Next
  PROVE  IInv'
<1>1. CASE IngestStep
  BY <1>1, InsertDeviceEventBatchStep, InsertRetainedAccessEventsStep, Zenon DEF IngestStep
<1>2. CASE AdminStep
  BY <1>2, SaveDeliveryRouteStep, DeleteDeliveryRouteStep, PreviewEventBackfillStep,
     QueueEventBackfillStep, PreviewAttachmentBackfillStep, QueueAttachmentBackfillStep,
     RetryEventDeliveryStep, RetryAttachmentDeliveryStep, Zenon DEF AdminStep
<1>3. CASE WorkerStep
  BY <1>3, ClaimEventDeliveryStep, ClaimPictureStep, SendStep, FinishEventDeliveryStep,
     WorkerStopsStep, Zenon DEF WorkerStep
<1>4. CASE TimeStep
  BY <1>4, RetryEventDeliveryStep, RetryAttachmentDeliveryStep, Zenon DEF TimeStep
<1> QED
  BY <1>1, <1>2, <1>3, <1>4, Zenon DEF Next

\* So does a step that changes nothing.
LEMMA StutterStep ==
  ASSUME IInv, UNCHANGED vars
  PROVE  IInv'
<1>1. OtherTypes' /\ archive \subseteq archive'
  BY Zenon DEF vars, previews, OtherTypes, IInv, TypeOK
<1> QED
  BY <1>1, RoutesUnchanged, QuietStep, Zenon DEF vars

\* A delivery from before migration 015 is a delivery.
LEMMA LegacyEventType ==
  ASSUME NEW s \in Sources, NEW d \in Destinations,
         NEW status \in {"pending", "failed", "delivered"}
  PROVE  /\ LegacyEvent(s, d, status) \in Event
         /\ LegacyEvent(s, d, status).source = s /\ LegacyEvent(s, d, status).destination = d
         /\ LegacyEvent(s, d, status).status = status
<1>1. /\ (IF status = "pending" THEN 0 ELSE 1) \in Nat /\ (status = "pending") \in BOOLEAN
      /\ status \in Statuses
  BY Zenon DEF Statuses
<1> QED
  BY <1>1, Zenon DEF LegacyEvent, Event

\* The invariant holds in the databases that migration 015 finds.
LEMMA InitIInv ==
  ASSUME Init
  PROVE  /\ IInv
         /\ \A m \in received :
              \E e \in RowIds : events[e].status = "delivered" /\ m = EventMessage(e)
<1>1. PICK legacy \in SUBSET Live, d \in [Terminals -> Destinations] :
      \E o \in Orders(legacy), status \in [legacy -> {"pending", "failed", "delivered"}] :
        LET n == Cardinality(legacy) IN
        /\ n <= MaxRows
        /\ archive = legacy
        /\ route = [t \in Terminals |->
                      IF \E s \in legacy : TerminalOf[s] = t
                      THEN [destination |-> d[t], enabled |-> TRUE] ELSE NoRoute]
        /\ events = [e \in RowIds |->
                       IF e <= n
                       THEN LegacyEvent(o[e], d[TerminalOf[o[e]]], status[o[e]])
                       ELSE NoEvent]
        /\ nextEvent = n + 1
        /\ received = {[picture |-> FALSE, source |-> s,
                        destination |-> d[TerminalOf[s]]] :
                         s \in {l \in legacy : status[l] = "delivered"}}
  BY Zenon DEF Init
<1> DEFINE n == Cardinality(legacy)
<1>2. PICK o \in Orders(legacy), status \in [legacy -> {"pending", "failed", "delivered"}] :
        /\ n <= MaxRows
        /\ archive = legacy
        /\ route = [t \in Terminals |->
                      IF \E s \in legacy : TerminalOf[s] = t
                      THEN [destination |-> d[t], enabled |-> TRUE] ELSE NoRoute]
        /\ events = [e \in RowIds |->
                       IF e <= n
                       THEN LegacyEvent(o[e], d[TerminalOf[o[e]]], status[o[e]])
                       ELSE NoEvent]
        /\ nextEvent = n + 1
        /\ received = {[picture |-> FALSE, source |-> s,
                        destination |-> d[TerminalOf[s]]] :
                         s \in {l \in legacy : status[l] = "delivered"}}
  BY <1>1, Zenon
<1>3. /\ legacy \in SUBSET Sources /\ \A s \in legacy : d[TerminalOf[s]] \in Destinations
      /\ \A s \in legacy : TerminalOf[s] \in Terminals /\ s # "none"
  BY SourcesAssumption, Zenon DEF Sources
<1>4. IsFiniteSet(legacy) /\ n \in Nat
  BY <1>3, SourcesAreFinite, Zenon
<1>5. /\ o \in [1 .. n -> legacy]
      /\ \A i, j \in 1 .. n : o[i] = o[j] => i = j
      /\ \A s \in legacy : \E i \in 1 .. n : o[i] = s
  BY <1>4, OrderIsComplete, Zenon
<1> HIDE DEF n
<1>6. /\ 1 .. n \subseteq RowIds /\ n + 1 \in 1 .. MaxRows + 1
      /\ \A e \in RowIds : e <= n <=> e \in 1 .. n
      /\ \A e \in RowIds : e \notin 1 .. n <=> e >= n + 1
      /\ 0 \notin RowIds
  BY <1>2, <1>4, DeliveryBoundsAssumption DEF RowIds
<1>7. \A e \in 1 .. n :
        /\ events[e] \in Event /\ o[e] \in legacy
        /\ events[e].source = o[e] /\ events[e].destination = d[TerminalOf[o[e]]]
        /\ events[e].status = status[o[e]]
  <2> SUFFICES ASSUME NEW e \in 1 .. n
               PROVE  /\ events[e] \in Event /\ o[e] \in legacy
                      /\ events[e].source = o[e] /\ events[e].destination = d[TerminalOf[o[e]]]
                      /\ events[e].status = status[o[e]]
    BY Zenon
  <2>1. o[e] \in legacy /\ o[e] \in Sources /\ d[TerminalOf[o[e]]] \in Destinations
        /\ status[o[e]] \in {"pending", "failed", "delivered"}
    BY <1>3, <1>5, Zenon
  <2>2. events[e] = LegacyEvent(o[e], d[TerminalOf[o[e]]], status[o[e]])
    BY <1>2, <1>6, Zenon
  <2> DEFINE s == o[e]
             to == d[TerminalOf[o[e]]]
             st == status[o[e]]
  <2> HIDE DEF s, to, st
  <2>3. s \in Sources /\ to \in Destinations /\ st \in {"pending", "failed", "delivered"}
    BY <2>1, Zenon DEF s, to, st
  <2>4. events[e] = LegacyEvent(s, to, st)
    BY <2>2, Zenon DEF s, to, st
  <2>5. /\ events[e] \in Event /\ events[e].source = s /\ events[e].destination = to
        /\ events[e].status = st
    BY <2>3, <2>4, LegacyEventType
  <2> QED
    BY <2>1, <2>5, Zenon DEF s, to, st
<1>8. \A e \in RowIds : e \notin 1 .. n => events[e] = NoEvent
  BY <1>2, <1>6, Zenon
<1>9. NoEvent \in Event /\ NoEvent.status = "none" /\ NoEvent.source = "none"
  BY Zenon DEF NoEvent, Event, Statuses
<1>10. /\ NoPicture \in Picture /\ NoPicture.status = "none" /\ NoPicture.parent = 0
       /\ pictures = [p \in RowIds |-> NoPicture] /\ nextPicture = 1
  BY Zenon DEF NoPicture, Picture, Statuses, Init
<1>11. workers = [w \in Workers |-> Idle]
  BY Zenon DEF Init
<1>12. EventTable
  BY <1>2, <1>6, <1>7, <1>8, <1>9, Zenon DEF EventTable
<1>13. PictureTable
  BY <1>10, DeliveryBoundsAssumption DEF PictureTable, RowIds
<1>14. \A t \in Terminals :
         /\ route[t] \in Route
         /\ route[t] = NoRoute \/ (route[t].destination = d[t] /\ route[t] # NoRoute)
         /\ (\E s \in legacy : TerminalOf[s] = t) => route[t] # NoRoute
  BY <1>2, DestinationsAssumption DEF Route, NoRoute
<1>a. \A m : m \in received <=>
        \E s \in legacy : /\ status[s] = "delivered"
                          /\ m = [picture |-> FALSE, source |-> s, destination |-> d[TerminalOf[s]]]
  BY <1>2, Zenon
<1>15. OtherTypes
  <2>1. route \in [Terminals -> Route]
    BY <1>2, <1>14, Zenon
  <2>2. eventPreview.candidates = {} /\ picturePreview.candidates = {}
    BY Zenon DEF Init, NoEventBackfill, NoPictureBackfill
  <2>3. received \subseteq [picture : BOOLEAN, source : Sources, destination : Destinations]
    <3> SUFFICES ASSUME NEW m \in received
                 PROVE  m \in [picture : BOOLEAN, source : Sources, destination : Destinations]
      BY Zenon
    <3>1. PICK s \in legacy :
            m = [picture |-> FALSE, source |-> s, destination |-> d[TerminalOf[s]]]
      BY <1>a, Zenon
    <3>2. s \in Sources /\ d[TerminalOf[s]] \in Destinations
      BY <1>3, Zenon
    <3> QED
      BY <3>1, <3>2, Zenon
  <2>4. workers \in [Workers -> Holding] /\ \A w \in Workers : workers[w].id = 0
    BY <1>11, IdleIsHolding, Zenon
  <2>5. archive \subseteq Sources
    BY <1>2, <1>3, Zenon
  <2> QED
    BY <2>1, <2>2, <2>3, <2>4, <2>5, Zenon DEF OtherTypes
<1>16. TypeOK
  BY <1>12, <1>13, <1>15, TypeParts, Zenon
<1>17. \A e \in RowIds : events[e].status # "none" => e \in 1 .. n
  BY <1>8, <1>9, Zenon
<1>18. RowsAreFilled
  <2>1. \A e \in RowIds : events[e].status = "none" => events[e].source = "none"
    <3>1. \A e \in 1 .. n : events[e].status # "none"
      BY <1>7, Zenon
    <3> QED
      BY <3>1, <1>8, <1>9, Zenon
  <2>2. \A e \in RowIds : events[e].status # "none" =>
          events[e].source \in archive /\ events[e].destination \in Destinations
    BY <1>2, <1>3, <1>7, <1>17, Zenon
  <2>3. \A p \in RowIds : pictures[p].status = "none" /\ pictures[p].parent = 0
    BY <1>10, Zenon
  <2> QED
    BY <2>1, <2>2, <2>3, Zenon DEF RowsAreFilled
<1>19. RoutesAreFilled
  BY <1>14, DestinationsAssumption, Zenon DEF RoutesAreFilled
<1>20. OneDeliveryPerSource
  BY <1>3, <1>5, <1>7, <1>8, <1>9, <1>10 DEF OneDeliveryPerSource
<1>21. PicturesWait
  BY <1>10, Zenon DEF PicturesWait
<1>22. UnfinishedFollowsRoute
  <2>1. \A e \in RowIds : PicturesOf(e) = {}
    BY <1>10, Zenon DEF PicturesOf
  <2>2. \A e \in RowIds : Unfinished(events[e]) => e \in 1 .. n
    BY <1>17, Zenon DEF Unfinished
  <2>3. \A e \in 1 .. n : route[TerminalOfEvent(e)] # NoRoute
    BY <1>3, <1>7, <1>14, Zenon DEF TerminalOfEvent
  <2> QED
    BY <2>1, <2>2, <2>3, Zenon DEF UnfinishedFollowsRoute
<1>23. ReceivedWasQueued
  <2> SUFFICES ASSUME NEW s \in legacy
               PROVE  \E e \in RowIds : /\ events[e].source = s
                                        /\ events[e].destination = d[TerminalOf[s]]
    BY <1>a DEF ReceivedWasQueued
  <2> QED
    BY <1>5, <1>6, <1>7
<1>24. DeliveredWasReceived
  <2>1. \A e \in RowIds : events[e].status = "delivered" =>
          [picture |-> FALSE, source |-> events[e].source,
           destination |-> events[e].destination] \in received
    BY <1>a, <1>7, <1>17
  <2>2. \A p \in RowIds : pictures[p].status # "delivered"
    BY <1>10, Zenon
  <2> QED
    BY <2>1, <2>2, Zenon DEF DeliveredWasReceived
<1>25. PictureFollowsEvent
  BY <1>a DEF PictureFollowsEvent
<1>26. EventClaimsHold /\ PictureClaimsHold /\ EventClaimsOpen /\ PictureClaimsOpen
  BY <1>11, IdleIsHolding, Zenon
     DEF Workers, EventClaimsHold, PictureClaimsHold, EventClaimsOpen, PictureClaimsOpen,
         EventClaimNewest, PictureClaimNewest
<1>27. ASSUME NEW m \in received
       PROVE  \E e \in RowIds : events[e].status = "delivered" /\ m = EventMessage(e)
  <2>1. PICK s \in legacy :
          /\ status[s] = "delivered"
          /\ m = [picture |-> FALSE, source |-> s, destination |-> d[TerminalOf[s]]]
    BY <1>a, Zenon
  <2>2. PICK e \in 1 .. n : o[e] = s
    BY <1>5, Zenon
  <2>3. /\ e \in RowIds /\ events[e].status = "delivered" /\ events[e].source = s
        /\ events[e].destination = d[TerminalOf[s]]
    BY <1>6, <1>7, <2>1, <2>2
  <2>4. m = EventMessage(e)
    BY <2>1, <2>3, Zenon DEF EventMessage
  <2> QED
    BY <2>3, <2>4, Zenon
<1> QED
  BY <1>27, <1>16, <1>18, <1>19, <1>20, <1>21, <1>22, <1>23, <1>24, <1>25, <1>26, Zenon DEF IInv

\* The inductive invariant of the deliveries holds in every reachable state.
LEMMA Invariance == Spec => []IInv
<1>1. IInv /\ [Next]_vars => IInv'
  BY NextStep, StutterStep, Zenon
<1> QED
  BY InitIInv, <1>1, PTL DEF Spec

-----------------------------------------------------------------------------
(* What a step does to the rows.                                           *)

\* A row that exists keeps its record and its destination; a delivered row does
\* not change.
RowsAreFinal ==
  \A id \in RowIds :
    /\ events[id].status # "none" =>
         /\ events'[id].source = events[id].source
         /\ events'[id].destination = events[id].destination
         /\ events[id].status = "delivered" => events'[id] = events[id]
    /\ pictures[id].status = "delivered" => pictures'[id] = pictures[id]

NothingIsQueued == \A id \in RowIds : events[id].status = "none" => events'[id].source = "none"

\* A step that writes no row changes no delivered one.
LEMMA KeptRowsAreFinal ==
  ASSUME IInv, UNCHANGED <<events, pictures>>
  PROVE  RowsAreFinal /\ NothingIsQueued
  BY Zenon DEF RowsAreFinal, NothingIsQueued, IInv, RowsAreFilled

\* A write to an unfinished delivery that keeps its record and destination.
LEMMA WrittenEventIsFinal ==
  ASSUME IInv, NEW e, NEW row, UNCHANGED pictures,
         events' = [events EXCEPT ![e] = row],
         row = events[e] \/ /\ row.source = events[e].source
                            /\ row.destination = events[e].destination
                            /\ events[e].status \in {"pending", "sending", "failed"}
  PROVE  RowsAreFinal /\ NothingIsQueued
  BY Zenon DEF RowsAreFinal, NothingIsQueued, IInv, RowsAreFilled, TypeOK

\* A write to an unfinished picture job.
LEMMA WrittenPictureIsFinal ==
  ASSUME IInv, NEW p, NEW row, UNCHANGED events,
         pictures' = [pictures EXCEPT ![p] = row],
         row = pictures[p] \/ pictures[p].status \in {"pending", "sending", "failed"}
  PROVE  RowsAreFinal /\ NothingIsQueued
  BY Zenon DEF RowsAreFinal, NothingIsQueued, IInv, RowsAreFilled, TypeOK

\* Workers write only rows that are not delivered.
LEMMA WorkerRowsAreFinal ==
  ASSUME IInv, WorkerStep
  PROVE  RowsAreFinal /\ NothingIsQueued
<1>1. ASSUME NEW w \in EventWorkers, ClaimEventDelivery(w)
      PROVE  RowsAreFinal /\ NothingIsQueued
  <2>1. PICK e \in EventsDue :
          events' = [events EXCEPT ![e] = Claimed(events[e])] /\ UNCHANGED pictures
    BY <1>1, Zenon DEF ClaimEventDelivery
  <2>2. events[e] \in Event /\ events[e].status \in {"pending", "sending"}
    BY Zenon DEF EventsDue, InProgress, IInv, TypeOK
  <2> QED
    BY <2>1, <2>2, ClaimedEvent, WrittenEventIsFinal, Zenon
<1>2. ASSUME NEW w \in PictureWorkers, ClaimPicture(w)
      PROVE  RowsAreFinal /\ NothingIsQueued
  <2>1. PICK p \in PicturesDue :
          pictures' = [pictures EXCEPT ![p] = Claimed(pictures[p])] /\ UNCHANGED events
    BY <1>2, Zenon DEF ClaimPicture
  <2>2. pictures[p].status \in {"pending", "sending"}
    BY Zenon DEF PicturesDue, InProgress
  <2> QED
    BY <2>1, <2>2, WrittenPictureIsFinal, Zenon
<1>3. ASSUME NEW w \in Workers, FinishEventDelivery(w)
      PROVE  RowsAreFinal /\ NothingIsQueued
  <2> DEFINE id == workers[w].id
  <2>1. CASE UNCHANGED <<events, pictures>>
    BY <2>1, KeptRowsAreFinal, Zenon
  <2>2. CASE /\ w \in EventWorkers /\ UNCHANGED pictures
             /\ events' = [events EXCEPT ![id] = Finished(w, events[id])]
    <3>1. CASE Owns(w, events[id])
      <4>1. id \in RowIds /\ events[id] \in Event /\ workers[w].result \in Statuses
        BY <1>3, <2>2 DEF FinishEventDelivery, IInv, TypeOK, EventClaimsHold, Idle, Holding,
                          Statuses, Workers
      <4> DEFINE row == [events[id] EXCEPT !.status = workers[w].result, !.due = FALSE]
      <4>2. row.source = events[id].source /\ row.destination = events[id].destination
        BY <4>1, Zenon DEF Event
      <4>3. Finished(w, events[id]) = row
        BY <3>1, Zenon DEF Finished
      <4> HIDE DEF row
      <4> QED
        BY <2>2, <3>1, <4>2, <4>3, WrittenEventIsFinal, Zenon DEF Owns
    <3>2. CASE ~Owns(w, events[id])
      BY <2>2, <3>2, WrittenEventIsFinal, Zenon DEF Finished
    <3> QED
      BY <3>1, <3>2, Zenon
  <2>3. CASE /\ w \in PictureWorkers /\ UNCHANGED events
             /\ pictures' = [pictures EXCEPT ![id] = Finished(w, pictures[id])]
    <3>1. CASE Owns(w, pictures[id])
      BY <2>3, <3>1, WrittenPictureIsFinal, Zenon DEF Owns
    <3>2. CASE ~Owns(w, pictures[id])
      BY <2>3, <3>2, WrittenPictureIsFinal, Zenon DEF Finished
    <3> QED
      BY <3>1, <3>2
  <2> QED
    BY <1>3, <2>1, <2>2, <2>3, Zenon DEF FinishEventDelivery
<1>4. ASSUME NEW w \in Workers, Send(w) \/ WorkerStops(w)
      PROVE  RowsAreFinal /\ NothingIsQueued
  BY <1>4, KeptRowsAreFinal, Zenon DEF Send, WorkerStops, outbox
<1> QED
  BY <1>1, <1>2, <1>3, <1>4, Zenon DEF WorkerStep

\* Retries and the clock write only rows that are not delivered.
LEMMA RetriedRowsAreFinal ==
  ASSUME IInv, NEW id \in RowIds,
         \/ RetryEventDelivery(id) \/ EventFallsDue(id)
         \/ RetryAttachmentDelivery(id) \/ PictureFallsDue(id)
  PROVE  RowsAreFinal /\ NothingIsQueued
<1>1. CASE RetryEventDelivery(id) \/ EventFallsDue(id)
  <2>1. events[id] \in Event
    BY Zenon DEF IInv, TypeOK
  <2>2. PICK row :
          /\ events' = [events EXCEPT ![id] = row] /\ row.source = events[id].source
          /\ row.destination = events[id].destination
    <3>1. CASE RetryEventDelivery(id)
      <4> DEFINE row == [events[id] EXCEPT !.status = "pending", !.due = TRUE]
      <4>1. row.source = events[id].source /\ row.destination = events[id].destination
        BY <2>1, Zenon DEF Event
      <4>2. events' = [events EXCEPT ![id] = row]
        BY <3>1, Zenon DEF RetryEventDelivery
      <4> QED
        BY <4>1, <4>2, Zenon
    <3>2. CASE EventFallsDue(id)
      <4> DEFINE row == [events[id] EXCEPT !.due = TRUE]
      <4>1. row.source = events[id].source /\ row.destination = events[id].destination
        BY <2>1, Zenon DEF Event
      <4>2. events' = [events EXCEPT ![id] = row]
        BY <3>2, Zenon DEF EventFallsDue
      <4> QED
        BY <4>1, <4>2, Zenon
    <3> QED
      BY <1>1, <3>1, <3>2, Zenon
  <2>3. UNCHANGED pictures /\ events[id].status \in {"pending", "sending", "failed"}
    BY <1>1, Zenon DEF RetryEventDelivery, EventFallsDue, InProgress
  <2> QED
    BY <2>2, <2>3, WrittenEventIsFinal, Zenon
<1>2. CASE RetryAttachmentDelivery(id) \/ PictureFallsDue(id)
  <2>1. \E row : pictures' = [pictures EXCEPT ![id] = row]
    BY <1>2, Zenon DEF RetryAttachmentDelivery, PictureFallsDue
  <2>2. UNCHANGED events /\ pictures[id].status \in {"pending", "sending", "failed"}
    BY <1>2, Zenon DEF RetryAttachmentDelivery, PictureFallsDue, InProgress
  <2> QED
    BY <2>1, <2>2, WrittenPictureIsFinal, Zenon
<1> QED
  BY <1>1, <1>2, Zenon

\* A queueing transaction: its new rows are those of Enqueue.
LEMMA QueuedRowsAreFinal ==
  ASSUME IInv, NEW S \in SUBSET Sources, NEW d \in Destinations, Enqueue(S, d)
  PROVE  RowsAreFinal /\ EventsAdded(S, d)
<1>1. EventsAdded(S, d) /\ PicturesAdded(NewEvents)
  BY RowsAreAdded, TypeParts, Zenon DEF IInv
<1>2. RowsKept
  BY <1>1, Zenon DEF RowsKept, EventsAdded, PicturesAdded, NewEvents, NewPictures
<1> QED
  BY <1>1, <1>2, Zenon DEF RowsKept, RowsAreFinal

\* A batch of the vendor queues no retained record.
LEMMA BatchRowsAreFinal ==
  ASSUME IInv, NEW t \in Terminals,
         NEW batch \in SUBSET {s \in Live : TerminalOf[s] = t}, InsertDeviceEventBatch(t, batch)
  PROVE  /\ RowsAreFinal
         /\ \A id \in RowIds : events[id].status = "none" => events'[id].source \notin Retained
<1>1. "none" \notin Retained /\ Live \cap Retained = {} /\ batch \subseteq Sources
  BY SourcesAssumption, Zenon DEF Sources
<1>2. CASE route[t].enabled
  <2> DEFINE S == batch \ archive
             d == route[t].destination
  <2>1. d \in Destinations
    BY <1>2 DEF IInv, TypeOK, Route, RoutesAreFilled, NoRoute
  <2>2. S \in SUBSET Sources /\ S \subseteq Live /\ Enqueue(S, d)
    BY <1>1, <1>2, Zenon DEF InsertDeviceEventBatch
  <2> HIDE DEF S, d
  <2>3. RowsAreFinal /\ EventsAdded(S, d)
    BY <2>1, <2>2, QueuedRowsAreFinal, Zenon
  <2>4. \A id \in NewEvents : events'[id].source \in S
    BY <2>1, <2>2, <2>3, AddedEventFields, Zenon
  <2>5. \A id \in RowIds : events[id].status = "none" /\ id \notin NewEvents =>
          events'[id].source = "none"
    BY <2>3, Zenon DEF EventsAdded, IInv, RowsAreFilled
  <2> QED
    BY <1>1, <2>2, <2>3, <2>4, <2>5, Zenon
<1>3. CASE ~route[t].enabled
  <2>1. RowsAreFinal /\ NothingIsQueued
    BY <1>3, KeptRowsAreFinal, Zenon DEF InsertDeviceEventBatch, outbox
  <2> QED
    BY <1>1, <2>1, Zenon DEF NothingIsQueued
<1> QED
  BY <1>2, <1>3, Zenon

\* A backfill queues the candidates of its preview and writes no other row.
LEMMA BackfillRowsAreFinal ==
  ASSUME IInv, NEW t \in Terminals, NEW window \in Windows, QueueEventBackfill(t, window)
  PROVE  /\ RowsAreFinal
         /\ EventsAdded(EventBackfill(t, window).candidates, route[t].destination)
<1> DEFINE S == EventBackfill(t, window).candidates
           d == route[t].destination
<1>1. S \in SUBSET Sources /\ route[t].enabled /\ Enqueue(S, d)
  BY Candidates, Zenon DEF QueueEventBackfill, CanPreview
<1> HIDE DEF S
<1>2. d \in Destinations
  BY <1>1 DEF IInv, TypeOK, Route, RoutesAreFilled, NoRoute
<1>3. RowsAreFinal /\ EventsAdded(S, d)
  BY <1>1, <1>2, QueuedRowsAreFinal, Zenon
<1> QED
  BY <1>3, Zenon DEF S

\* A backfill of pictures only adds picture jobs.
LEMMA PictureBackfillRowsAreFinal ==
  ASSUME IInv, NEW t \in Terminals, QueueAttachmentBackfill(t)
  PROVE  RowsAreFinal /\ NothingIsQueued
<1>1. \A p \in RowIds : pictures[p].status # "none" => pictures'[p] = pictures[p]
  BY AttachmentsAreAdded, Zenon DEF PicturesAdded, NewPictures
<1>2. UNCHANGED events
  BY Zenon DEF QueueAttachmentBackfill
<1> QED
  BY <1>1, <1>2, Zenon DEF RowsAreFinal, NothingIsQueued, IInv, RowsAreFilled

\* Only a backfill queues retained records; every step leaves the rows final.
LEMMA StepRowsAreFinal ==
  ASSUME IInv, [Next]_vars
  PROVE  /\ RowsAreFinal
         /\ \/ \A id \in RowIds : events[id].status = "none" => events'[id].source \notin Retained
            \/ \E t \in Terminals, window \in Windows : QueueEventBackfill(t, window)
<1>0. "none" \notin Retained
  BY SourcesAssumption, Zenon DEF Sources
<1>1. ASSUME NothingIsQueued
      PROVE  \A id \in RowIds : events[id].status = "none" => events'[id].source \notin Retained
  BY <1>0, <1>1, Zenon DEF NothingIsQueued
<1>2. CASE IngestStep
  <2>1. CASE \E r \in Retained : InsertRetainedAccessEvents(r)
    BY <1>1, <2>1, KeptRowsAreFinal, Zenon DEF InsertRetainedAccessEvents, outbox
  <2> QED
    BY <1>2, <2>1, BatchRowsAreFinal, Zenon DEF IngestStep
<1>3. CASE AdminStep
  <2>1. ASSUME NEW t \in Terminals,
               \/ \E d \in Destinations, enabled \in BOOLEAN : SaveDeliveryRoute(t, d, enabled)
               \/ DeleteDeliveryRoute(t)
               \/ \E bound \in PictureBounds \cup {0} : PreviewAttachmentBackfill(t, bound)
               \/ \E window \in Windows : PreviewEventBackfill(t, window)
        PROVE  RowsAreFinal /\ NothingIsQueued
    BY <2>1, KeptRowsAreFinal, Zenon
       DEF SaveDeliveryRoute, DeleteDeliveryRoute, PreviewAttachmentBackfill,
           PreviewEventBackfill, outbox
  <2> QED
    BY <1>1, <1>3, <2>1, BackfillRowsAreFinal, PictureBackfillRowsAreFinal, RetriedRowsAreFinal, Zenon
       DEF AdminStep
<1>4. CASE WorkerStep
  BY <1>1, <1>4, WorkerRowsAreFinal, Zenon
<1>5. CASE TimeStep
  BY <1>1, <1>5, RetriedRowsAreFinal, Zenon DEF TimeStep
<1>6. CASE UNCHANGED vars
  BY <1>1, <1>6, KeptRowsAreFinal, Zenon DEF vars, outbox
<1> QED
  BY <1>2, <1>3, <1>4, <1>5, <1>6, Zenon DEF Next

-----------------------------------------------------------------------------
(* The refinement of EventOutbox.                                          *)

Existing == Statuses \ {"none"}

Accepted == MessagesIn(Existing)
Confirmed == MessagesIn({"delivered"})

\* The messages are those of the deliveries and of the picture jobs.
LEMMA MessageIn ==
  ASSUME NEW S, NEW m
  PROVE  m \in MessagesIn(S) <=>
           \/ \E e \in RowIds : events[e].status \in S /\ m = EventMessage(e)
           \/ \E p \in RowIds : pictures[p].status \in S /\ m = PictureMessage(p)
  BY Zenon DEF MessagesIn

\* The same after a step.
LEMMA MessageInNext ==
  ASSUME NEW S, NEW m
  PROVE  m \in MessagesIn(S)' <=>
           \/ \E e \in RowIds : events'[e].status \in S /\ m = EventMessage(e)'
           \/ \E p \in RowIds : pictures'[p].status \in S /\ m = PictureMessage(p)'
  BY Zenon DEF MessagesIn

\* The rows with a status of S keep one, and their message.
Carried(S) ==
  \A id \in RowIds :
    /\ events[id].status \in S => events'[id].status \in S /\ EventMessage(id)' = EventMessage(id)
    /\ pictures[id].status \in S =>
         pictures'[id].status \in S /\ PictureMessage(id)' = PictureMessage(id)

NoneEnter(S) ==
  \A id \in RowIds : /\ events'[id].status \in S => events[id].status \in S
                     /\ pictures'[id].status \in S => pictures[id].status \in S

\* What rows keep, their messages keep.
LEMMA CarriedMessages ==
  ASSUME NEW S, Carried(S)
  PROVE  /\ MessagesIn(S) \subseteq MessagesIn(S)'
         /\ NoneEnter(S) => MessagesIn(S)' = MessagesIn(S)
<1>1. ASSUME NEW m \in MessagesIn(S)
      PROVE  m \in MessagesIn(S)'
  <2>1. CASE \E e \in RowIds : events[e].status \in S /\ m = EventMessage(e)
    BY <2>1, MessageInNext, Zenon DEF Carried
  <2>2. CASE \E p \in RowIds : pictures[p].status \in S /\ m = PictureMessage(p)
    BY <2>2, MessageInNext, Zenon DEF Carried
  <2> QED
    BY <2>1, <2>2, MessageIn
<1>2. ASSUME NoneEnter(S), NEW m \in MessagesIn(S)'
      PROVE  m \in MessagesIn(S)
  <2>1. CASE \E e \in RowIds : events'[e].status \in S /\ m = EventMessage(e)'
    BY <1>2, <2>1, MessageIn, Zenon DEF Carried, NoneEnter
  <2>2. CASE \E p \in RowIds : pictures'[p].status \in S /\ m = PictureMessage(p)'
    BY <1>2, <2>2, MessageIn, Zenon DEF Carried, NoneEnter
  <2> QED
    BY <2>1, <2>2, MessageInNext
<1> QED
  BY <1>1, <1>2, Zenon

\* A step that keeps the messages of rows keeps those that are accepted or
\* confirmed.
LEMMA KeptRowsAreCarried ==
  ASSUME UNCHANGED <<events, pictures>>
  PROVE  Accepted' = Accepted /\ Confirmed' = Confirmed
  BY Zenon DEF Accepted, Confirmed, MessagesIn, EventMessage, PictureMessage

\* One step of the outbox in EventOutbox.
OutboxStep ==
  \/ /\ Accepted' = Accepted /\ Confirmed' = Confirmed /\ received' = received
  \/ /\ Accepted \subseteq Accepted' /\ Confirmed' = Confirmed /\ received' = received
  \/ /\ Accepted' = Accepted /\ Confirmed' = Confirmed
     /\ \E m \in Accepted : /\ m.picture => [m EXCEPT !.picture = FALSE] \in Confirmed
                            /\ received' = received \cup {m}
  \/ /\ Accepted' = Accepted /\ received' = received
     /\ \E m \in Accepted : m \in received /\ Confirmed' = Confirmed \cup {m}

\* The event of a message differs in that it is no picture.
LEMMA EventOfMessage ==
  ASSUME NEW m \in Outbox!Messages
  PROVE  Outbox!EventOf(m) = [picture |-> FALSE, source |-> m.source, destination |-> m.destination]
<1> DEFINE n == [m EXCEPT !.picture = FALSE]
<1>1. n \in Outbox!Messages /\ n.picture = FALSE /\ n.source = m.source /\ n.destination = m.destination
  BY Zenon DEF Outbox!Messages
<1> HIDE DEF n
<1>2. n = [picture |-> FALSE, source |-> m.source, destination |-> m.destination]
  BY <1>1, Zenon DEF Outbox!Messages
<1> QED
  BY <1>2, Zenon DEF n, Outbox!EventOf

\* The message of a row that exists is one, for the school of its event.
LEMMA RowMessages ==
  ASSUME IInv, NEW id \in RowIds
  PROVE  /\ events[id].status # "none" =>
              /\ EventMessage(id) \in Outbox!Messages /\ EventMessage(id) \in Accepted
         /\ pictures[id].status # "none" =>
              /\ PictureMessage(id) \in Outbox!Messages /\ PictureMessage(id) \in Accepted
              /\ pictures[id].parent \in RowIds /\ events[pictures[id].parent].status # "none"
              /\ Outbox!EventOf(PictureMessage(id)) = EventMessage(pictures[id].parent)
<1>1. \A e \in RowIds : /\ events[e].status \in Statuses /\ pictures[e].status \in Statuses
                        /\ events[e].status # "none" =>
                             events[e].source \in Sources /\ events[e].destination \in Destinations
  BY Zenon DEF IInv, TypeOK, RowsAreFilled, Event, Picture
<1>2. \A e \in RowIds : events[e].status # "none" =>
        EventMessage(e) \in Outbox!Messages /\ EventMessage(e) \in Accepted
  BY <1>1, MessageIn DEF EventMessage, Outbox!Messages, Accepted, Existing
<1>3. ASSUME pictures[id].status # "none"
      PROVE  /\ PictureMessage(id) \in Outbox!Messages /\ PictureMessage(id) \in Accepted
             /\ pictures[id].parent \in RowIds /\ events[pictures[id].parent].status # "none"
             /\ Outbox!EventOf(PictureMessage(id)) = EventMessage(pictures[id].parent)
  <2> DEFINE e == pictures[id].parent
  <2>1. e \in RowIds /\ events[e].status # "none"
    BY <1>3, Zenon DEF IInv, RowsAreFilled
  <2>2. PictureMessage(id) = [picture |-> TRUE, source |-> events[e].source,
                              destination |-> events[e].destination]
    BY Zenon DEF PictureMessage
  <2>3. PictureMessage(id) \in Accepted
    BY <1>1, <1>3, MessageIn DEF Accepted, Existing
  <2> HIDE DEF e
  <2>4. PictureMessage(id) \in Outbox!Messages
    BY <1>1, <2>1, <2>2 DEF Outbox!Messages
  <2>5. Outbox!EventOf(PictureMessage(id)) = EventMessage(e)
    <3>1. /\ PictureMessage(id).source = events[e].source
          /\ PictureMessage(id).destination = events[e].destination
      BY <2>2
    <3> QED
      BY <2>4, <3>1, EventOfMessage, Zenon DEF EventMessage
  <2> QED
    BY <2>1, <2>3, <2>4, <2>5 DEF e
<1> QED
  BY <1>2, <1>3, Zenon

\* The delivery that a message belongs to.
LEMMA AcceptedRow ==
  ASSUME IInv, NEW m \in Accepted
  PROVE  /\ m \in Outbox!Messages /\ Outbox!EventOf(m) \in Accepted
         /\ \E e \in RowIds : /\ events[e].source = m.source /\ events[e].source # "none"
                              /\ events[e].destination = m.destination
<1>1. \A e \in RowIds : events[e].status # "none" => events[e].source # "none"
  BY SourcesAssumption, Zenon DEF IInv, RowsAreFilled, TypeOK
<1>2. ASSUME NEW e \in RowIds, events[e].status \in Existing, m = EventMessage(e)
      PROVE  /\ m \in Outbox!Messages /\ Outbox!EventOf(m) = m /\ m \in Accepted
             /\ m.source = events[e].source /\ m.destination = events[e].destination
             /\ events[e].source # "none"
  <2>1. m \in Outbox!Messages /\ m \in Accepted /\ events[e].source # "none"
    BY <1>1, <1>2, RowMessages, Zenon DEF Existing
  <2>2. m = [picture |-> FALSE, source |-> events[e].source, destination |-> events[e].destination]
    BY <1>2, Zenon DEF EventMessage
  <2>3. Outbox!EventOf(m) = m
    <3>1. m.source = events[e].source /\ m.destination = events[e].destination
      BY <2>2
    <3> QED
      BY <2>1, <2>2, <3>1, EventOfMessage, Zenon
  <2> QED
    BY <2>1, <2>2, <2>3
<1>3. ASSUME NEW p \in RowIds, pictures[p].status \in Existing, m = PictureMessage(p)
      PROVE  /\ m \in Outbox!Messages /\ Outbox!EventOf(m) \in Accepted
             /\ \E e \in RowIds : /\ events[e].source = m.source /\ events[e].source # "none"
                                  /\ events[e].destination = m.destination
  <2> DEFINE e == pictures[p].parent
  <2>1. /\ m \in Outbox!Messages /\ Outbox!EventOf(m) = EventMessage(e)
        /\ e \in RowIds /\ events[e].status # "none"
    BY <1>3, RowMessages, Zenon DEF Existing
  <2>2. m = [picture |-> TRUE, source |-> events[e].source, destination |-> events[e].destination]
    BY <1>3, Zenon DEF PictureMessage
  <2> HIDE DEF e
  <2>3. EventMessage(e) \in Accepted
    BY <2>1, RowMessages, Zenon
  <2>4. m.source = events[e].source /\ m.destination = events[e].destination
    BY <2>2
  <2> QED
    BY <1>1, <2>1, <2>3, <2>4, Zenon
<1>4. \/ \E e \in RowIds : events[e].status \in Existing /\ m = EventMessage(e)
      \/ \E p \in RowIds : pictures[p].status \in Existing /\ m = PictureMessage(p)
  BY MessageIn DEF Accepted
<1>5. ASSUME NEW e \in RowIds, events[e].status \in Existing, m = EventMessage(e)
      PROVE  /\ m \in Outbox!Messages /\ Outbox!EventOf(m) \in Accepted
             /\ \E f \in RowIds : /\ events[f].source = m.source /\ events[f].source # "none"
                                  /\ events[f].destination = m.destination
  BY <1>2, <1>5
<1> QED
  BY <1>3, <1>4, <1>5, Zenon

\* Every record is for one school, and a picture comes with its event.
LEMMA RowsAreAddressed ==
  ASSUME IInv
  PROVE  Outbox!Addressed(Accepted)
<1>1. \A m, n \in Accepted : m.source = n.source => m.destination = n.destination
  <2> SUFFICES ASSUME NEW m \in Accepted, NEW n \in Accepted, m.source = n.source
               PROVE  m.destination = n.destination
    BY Zenon
  <2>1. PICK e \in RowIds : /\ events[e].source = m.source /\ events[e].source # "none"
                            /\ events[e].destination = m.destination
    BY AcceptedRow, Zenon
  <2>2. PICK f \in RowIds : /\ events[f].source = n.source /\ events[f].source # "none"
                            /\ events[f].destination = n.destination
    BY AcceptedRow, Zenon
  <2>3. e = f
    BY <2>1, <2>2, Zenon DEF IInv, OneDeliveryPerSource
  <2> QED
    BY <2>1, <2>2, <2>3, Zenon
<1> QED
  BY <1>1, AcceptedRow, Zenon DEF Outbox!Addressed

\* A written row that becomes delivered is confirmed, and stays accepted.
Written(m) ==
  /\ Accepted' = Accepted /\ received' = received
  /\ Confirmed' = Confirmed \/ (m \in received /\ Confirmed' = Confirmed \cup {m})

\* Writing a delivery: only a receipt confirms its message.
LEMMA EventWriteConfirms ==
  ASSUME IInv, NEW id \in RowIds, NEW row \in Event, EventWrite(id, row)
  PROVE  Written(EventMessage(id)) /\ EventMessage(id) \in Accepted
<1>1. /\ events'[id] = row /\ \A e \in RowIds \ {id} : events'[e] = events[e]
      /\ \A e \in RowIds : /\ events[e].status = "delivered" => events'[e] = events[e]
                           /\ events[e].status # "none" => events'[e].status # "none"
                           /\ events'[e].source = events[e].source
                           /\ events'[e].destination = events[e].destination
      /\ pictures' = pictures /\ received' = received
  BY EventWriteFrame, Zenon
<1>2. /\ events[id].status \in {"pending", "sending", "failed"} /\ row.status # "none"
      /\ row.status = "delivered" => EventMessage(id) \in received
  BY Zenon DEF EventWrite, EventMessage
<1>3. /\ \A e \in RowIds : EventMessage(e)' = EventMessage(e)
      /\ \A p \in RowIds : pictures[p].status # "none" => PictureMessage(p)' = PictureMessage(p)
  BY <1>1, RowMessages, Zenon DEF EventMessage, PictureMessage
<1>4. /\ \A e \in RowIds : events[e].status \in Statuses /\ pictures[e].status \in Statuses
      /\ \A e \in RowIds : events'[e].status \in Statuses
  BY <1>1, Zenon DEF IInv, TypeOK, Event, Picture
<1>5. Carried(Existing) /\ NoneEnter(Existing)
  BY <1>1, <1>2, <1>3, <1>4, Zenon DEF Carried, NoneEnter, Existing
<1>6. Accepted' = Accepted
  BY <1>5, CarriedMessages, Zenon DEF Accepted
<1>7. Carried({"delivered"})
  BY <1>1, <1>3, Zenon DEF Carried
<1>8. CASE row.status # "delivered"
  <2>1. NoneEnter({"delivered"})
    BY <1>1, <1>8, Zenon DEF NoneEnter
  <2> QED
    BY <1>1, <1>2, <1>6, <1>7, <2>1, CarriedMessages, RowMessages, Zenon DEF Written, Confirmed
<1>9. CASE row.status = "delivered"
  <2>1. ASSUME NEW m \in Confirmed'
        PROVE  m \in Confirmed \cup {EventMessage(id)}
    <3>1. CASE \E e \in RowIds : events'[e].status \in {"delivered"} /\ m = EventMessage(e)'
      BY <1>1, <1>3, <3>1, MessageIn, Zenon DEF Confirmed
    <3>2. CASE \E p \in RowIds : pictures'[p].status \in {"delivered"} /\ m = PictureMessage(p)'
      BY <1>1, <1>3, <3>2, MessageIn, Zenon DEF Confirmed
    <3> QED
      BY <2>1, <3>1, <3>2, MessageInNext DEF Confirmed
  <2>2. EventMessage(id) \in Confirmed'
    BY <1>1, <1>3, <1>9, MessageInNext, Zenon DEF Confirmed
  <2>3. Confirmed \subseteq Confirmed'
    BY <1>7, CarriedMessages, Zenon DEF Confirmed
  <2>4. Confirmed' = Confirmed \cup {EventMessage(id)}
    BY <2>1, <2>2, <2>3, Zenon
  <2>5. EventMessage(id) \in Accepted
    BY <1>2, RowMessages, Zenon
  <2> QED
    BY <1>1, <1>2, <1>6, <1>9, <2>4, <2>5, Zenon DEF Written
<1> QED
  BY <1>8, <1>9, Zenon

\* Writing a picture job, likewise.
LEMMA PictureWriteConfirms ==
  ASSUME IInv, NEW id \in RowIds, NEW row \in Picture, PictureWrite(id, row)
  PROVE  Written(PictureMessage(id)) /\ PictureMessage(id) \in Accepted
<1>1. /\ pictures'[id] = row /\ \A p \in RowIds \ {id} : pictures'[p] = pictures[p]
      /\ \A p \in RowIds : /\ pictures[p].status # "none" => pictures'[p].status # "none"
                           /\ pictures'[p].parent = pictures[p].parent
      /\ events' = events /\ received' = received
  BY PictureWriteFrame, Zenon
<1>2. /\ pictures[id].status \in {"pending", "sending", "failed"} /\ row.status # "none"
      /\ row.status = "delivered" => PictureMessage(id) \in received
  BY Zenon DEF PictureWrite, PictureMessage
<1>3. /\ \A e \in RowIds : EventMessage(e)' = EventMessage(e)
      /\ \A p \in RowIds : PictureMessage(p)' = PictureMessage(p)
  BY <1>1, Zenon DEF EventMessage, PictureMessage
<1>4. /\ \A p \in RowIds : events[p].status \in Statuses /\ pictures[p].status \in Statuses
      /\ \A p \in RowIds : pictures'[p].status \in Statuses
  BY <1>1, Zenon DEF IInv, TypeOK, Event, Picture
<1>5. Carried(Existing) /\ NoneEnter(Existing)
  BY <1>1, <1>2, <1>3, <1>4, Zenon DEF Carried, NoneEnter, Existing
<1>6. Accepted' = Accepted
  BY <1>5, CarriedMessages, Zenon DEF Accepted
<1>7. Carried({"delivered"})
  BY <1>1, <1>2, <1>3 DEF Carried
<1>8. CASE row.status # "delivered"
  <2>1. NoneEnter({"delivered"})
    BY <1>1, <1>8, Zenon DEF NoneEnter
  <2> QED
    BY <1>1, <1>2, <1>6, <1>7, <2>1, CarriedMessages, RowMessages, Zenon DEF Written, Confirmed
<1>9. CASE row.status = "delivered"
  <2>1. ASSUME NEW m \in Confirmed'
        PROVE  m \in Confirmed \cup {PictureMessage(id)}
    <3>1. CASE \E e \in RowIds : events'[e].status \in {"delivered"} /\ m = EventMessage(e)'
      BY <1>1, <1>3, <3>1, MessageIn, Zenon DEF Confirmed
    <3>2. CASE \E p \in RowIds : pictures'[p].status \in {"delivered"} /\ m = PictureMessage(p)'
      BY <1>1, <1>3, <3>2, MessageIn, Zenon DEF Confirmed
    <3> QED
      BY <2>1, <3>1, <3>2, MessageInNext DEF Confirmed
  <2>2. PictureMessage(id) \in Confirmed'
    BY <1>1, <1>3, <1>9, MessageInNext, Zenon DEF Confirmed
  <2>3. Confirmed \subseteq Confirmed'
    BY <1>7, CarriedMessages, Zenon DEF Confirmed
  <2>4. Confirmed' = Confirmed \cup {PictureMessage(id)}
    BY <2>1, <2>2, <2>3, Zenon
  <2>5. PictureMessage(id) \in Accepted
    BY <1>2, RowMessages, Zenon
  <2> QED
    BY <1>1, <1>2, <1>6, <1>9, <2>4, <2>5, Zenon DEF Written
<1> QED
  BY <1>8, <1>9, Zenon

\* An attempt: the school stores at most the message of the row, and a picture
\* only when its event is confirmed.
LEMMA SendStores ==
  ASSUME IInv, NEW w \in Workers, Send(w)
  PROVE  OutboxStep
<1>1. workers[w].id # 0 /\ UNCHANGED <<events, pictures>>
  BY Zenon DEF Send, outbox
<1>2. received' = received \/ received' = received \cup {Message(w)}
  BY Zenon DEF Send, Stored
<1>3. Message(w) \in Accepted /\ (Message(w).picture => Outbox!EventOf(Message(w)) \in Confirmed)
  <2>1. CASE w \in EventWorkers
    <3>1. Message(w) = EventMessage(workers[w].id) /\ Message(w) \in Accepted
      BY <1>1, <2>1, Messages, HeldRows, RowMessages, Zenon
    <3>2. Message(w).picture = FALSE
      BY <3>1 DEF EventMessage
    <3> QED
      BY <3>1, <3>2, Zenon
  <2>2. CASE w \in PictureWorkers
    <3> DEFINE id == workers[w].id
    <3>1. /\ Message(w) = PictureMessage(id) /\ id \in RowIds /\ pictures[id].status # "none"
          /\ pictures[id].parent \in RowIds /\ events[pictures[id].parent].status = "delivered"
      BY <1>1, <2>2, Messages, HeldRows, Zenon
    <3>2. EventMessage(pictures[id].parent) \in Confirmed
      BY <3>1, MessageIn, Zenon DEF Confirmed
    <3> QED
      BY <3>1, <3>2, RowMessages, Zenon
  <2> QED
    BY <2>1, <2>2, Zenon DEF Workers
<1> QED
  BY <1>1, <1>2, <1>3, KeptRowsAreCarried, Zenon DEF OutboxStep, Outbox!EventOf

\* Rows that are added are accepted; those that exist are as they were.
LEMMA QueueAccepts ==
  ASSUME IInv, RowsKept, UNCHANGED received,
         \A e \in NewEvents : events'[e].status = "pending" /\ events'[e] \in Event,
         \A p \in NewPictures : pictures'[p].status = "pending" /\ pictures'[p] \in Picture,
         \A id \in RowIds : /\ id \notin NewEvents => events'[id] = events[id]
                            /\ id \notin NewPictures => pictures'[id] = pictures[id]
  PROVE  OutboxStep
<1>1. /\ \A e \in RowIds : events[e].status # "none" => EventMessage(e)' = EventMessage(e)
      /\ \A p \in RowIds : pictures[p].status # "none" => PictureMessage(p)' = PictureMessage(p)
  BY RowMessages, Zenon DEF RowsKept, EventMessage, PictureMessage
<1>2. Carried(Existing) /\ Carried({"delivered"})
  BY <1>1 DEF RowsKept, Carried, Existing
<1>3. NoneEnter({"delivered"})
  BY Zenon DEF NoneEnter
<1> QED
  BY <1>2, <1>3, CarriedMessages, Zenon DEF OutboxStep, Accepted, Confirmed

\* Enqueue accepts an event and its picture for each record.
LEMMA EnqueueAccepts ==
  ASSUME IInv, NEW S \in SUBSET Sources, NEW d \in Destinations, Enqueue(S, d),
         UNCHANGED received
  PROVE  OutboxStep
<1>1. EventsAdded(S, d) /\ PicturesAdded(NewEvents) /\ EventTable' /\ PictureTable'
  BY RowsAreAdded, TypeParts, Zenon DEF IInv
<1>2. NewEvents \in SUBSET RowIds
  BY Zenon DEF NewEvents
<1>3. /\ \A e \in NewEvents : events'[e].status = "pending" /\ events'[e] \in Event
      /\ \A p \in NewPictures : pictures'[p].status = "pending" /\ pictures'[p] \in Picture
  <2>1. /\ \A e \in NewEvents : events'[e].status = "pending"
        /\ \A p \in NewPictures : pictures'[p].status = "pending"
    BY <1>1, <1>2, AddedEventFields, AddedPictureFields, Zenon
  <2>2. /\ \A e \in NewEvents : events'[e] \in Event
        /\ \A p \in NewPictures : pictures'[p] \in Picture
    BY <1>1, Zenon DEF EventTable, PictureTable, NewEvents, NewPictures
  <2> QED
    BY <2>1, <2>2, Zenon
<1>4. /\ \A id \in RowIds : /\ id \notin NewEvents => events'[id] = events[id]
                            /\ id \notin NewPictures => pictures'[id] = pictures[id]
      /\ RowsKept
  BY <1>1, Zenon DEF RowsKept, EventsAdded, PicturesAdded, NewEvents, NewPictures
<1> QED
  BY <1>3, <1>4, QueueAccepts, Zenon

\* The transactions that queue rows.
LEMMA TransactionsAccept ==
  ASSUME IInv, NEW t \in Terminals
  PROVE  /\ \A batch \in SUBSET {s \in Live : TerminalOf[s] = t} :
              InsertDeviceEventBatch(t, batch) => OutboxStep
         /\ \A window \in Windows : QueueEventBackfill(t, window) => OutboxStep
         /\ QueueAttachmentBackfill(t) => OutboxStep
<1>0. route[t].enabled => route[t].destination \in Destinations
  BY DEF IInv, TypeOK, Route, RoutesAreFilled, NoRoute
<1>1. ASSUME NEW batch \in SUBSET {s \in Live : TerminalOf[s] = t}, InsertDeviceEventBatch(t, batch)
      PROVE  OutboxStep
  <2>1. batch \ archive \in SUBSET Sources /\ UNCHANGED received
    BY <1>1, Zenon DEF Sources, InsertDeviceEventBatch
  <2>2. CASE route[t].enabled
    <3>1. Enqueue(batch \ archive, route[t].destination)
      BY <1>1, <2>2, Zenon DEF InsertDeviceEventBatch
    <3> QED
      BY <1>0, <2>1, <2>2, <3>1, EnqueueAccepts, Zenon
  <2>3. CASE ~route[t].enabled
    BY <1>1, <2>1, <2>3, KeptRowsAreCarried, Zenon DEF InsertDeviceEventBatch, outbox, OutboxStep
  <2> QED
    BY <2>2, <2>3, Zenon
<1>2. ASSUME NEW window \in Windows, QueueEventBackfill(t, window)
      PROVE  OutboxStep
  <2> DEFINE S == EventBackfill(t, window).candidates
  <2>1. /\ S \in SUBSET Sources /\ route[t].enabled /\ UNCHANGED received
        /\ Enqueue(S, route[t].destination)
    BY <1>2, Candidates, Zenon DEF QueueEventBackfill, CanPreview
  <2> HIDE DEF S
  <2> QED
    BY <1>0, <2>1, EnqueueAccepts, Zenon
<1>3. ASSUME QueueAttachmentBackfill(t)
      PROVE  OutboxStep
  <2> DEFINE E == PictureBackfill(t, picturePreview.through).candidates
  <2>1. PicturesAdded(E) /\ PictureTable' /\ E \in SUBSET RowIds
    BY <1>3, AttachmentsAreAdded, PictureCandidates, Zenon
  <2> HIDE DEF E
  <2>2. events' = events /\ received' = received
    BY <1>3, Zenon DEF QueueAttachmentBackfill
  <2>3. \A p \in NewPictures : pictures'[p].status = "pending" /\ pictures'[p] \in Picture
    BY <2>1, AddedPictureFields, Zenon DEF PictureTable, NewPictures
  <2>4. /\ NewEvents = {} /\ RowsKept
        /\ \A id \in RowIds : id \notin NewPictures => pictures'[id] = pictures[id]
    BY <2>1, <2>2, Zenon DEF RowsKept, PicturesAdded, NewEvents, NewPictures
  <2> QED
    BY <2>2, <2>3, <2>4, QueueAccepts, Zenon
<1> QED
  BY <1>1, <1>2, <1>3, Zenon

\* Every step is one of EventOutbox, or none.
LEMMA OutboxSteps ==
  ASSUME IInv, [Next]_vars
  PROVE  OutboxStep
<1>1. ASSUME UNCHANGED <<events, pictures, received>>
      PROVE  OutboxStep
  BY <1>1, KeptRowsAreCarried, Zenon DEF OutboxStep
<1>2. ASSUME RowIsWritten
      PROVE  OutboxStep
  <2>1. CASE \E id \in RowIds, row \in Event : EventWrite(id, row)
    BY <2>1, EventWriteConfirms, Zenon DEF Written, OutboxStep
  <2>2. CASE \E id \in RowIds, row \in Picture : PictureWrite(id, row)
    BY <2>2, PictureWriteConfirms, Zenon DEF Written, OutboxStep
  <2> QED
    BY <1>2, <2>1, <2>2, Zenon DEF RowIsWritten
<1>3. CASE IngestStep
  <2>1. CASE \E r \in Retained : InsertRetainedAccessEvents(r)
    BY <1>1, <2>1, Zenon DEF InsertRetainedAccessEvents, outbox
  <2> QED
    BY <1>3, <2>1, TransactionsAccept, Zenon DEF IngestStep
<1>4. CASE AdminStep
  <2>1. ASSUME NEW t \in Terminals,
               \/ \E d \in Destinations, enabled \in BOOLEAN : SaveDeliveryRoute(t, d, enabled)
               \/ DeleteDeliveryRoute(t)
               \/ \E bound \in PictureBounds \cup {0} : PreviewAttachmentBackfill(t, bound)
               \/ \E window \in Windows : PreviewEventBackfill(t, window)
        PROVE  OutboxStep
    BY <1>1, <2>1, Zenon DEF SaveDeliveryRoute, DeleteDeliveryRoute, PreviewAttachmentBackfill,
                             PreviewEventBackfill, outbox
  <2>2. ASSUME NEW id \in RowIds, RetryEventDelivery(id) \/ RetryAttachmentDelivery(id)
        PROVE  OutboxStep
    BY <1>2, <2>2, RetryEventDeliveryStep, RetryAttachmentDeliveryStep, Zenon
  <2> QED
    BY <1>4, <2>1, <2>2, TransactionsAccept, Zenon DEF AdminStep
<1>5. CASE WorkerStep
  <2>1. ASSUME NEW w \in Workers, FinishEventDelivery(w)
        PROVE  OutboxStep
    <3>1. received' = received
      BY <2>1, Zenon DEF FinishEventDelivery
    <3> QED
      BY <1>1, <1>2, <2>1, <3>1, FinishEventDeliveryStep, Zenon
  <2>2. ASSUME NEW w \in Workers, WorkerStops(w)
        PROVE  OutboxStep
    BY <1>1, <2>2, Zenon DEF WorkerStops, outbox
  <2> QED
    BY <1>2, <1>5, <2>1, <2>2, ClaimEventDeliveryStep, ClaimPictureStep, SendStores, Zenon
       DEF WorkerStep
<1>6. CASE TimeStep
  BY <1>2, <1>6, RetryEventDeliveryStep, RetryAttachmentDeliveryStep, Zenon DEF TimeStep
<1>7. CASE UNCHANGED vars
  BY <1>1, <1>7, Zenon DEF vars, outbox
<1> QED
  BY <1>3, <1>4, <1>5, <1>6, <1>7, Zenon DEF Next

-----------------------------------------------------------------------------
(* Theorems.                                                               *)

\* The rows, the workers and the previews stay in their types and the rows are
\* numbered without gaps, whatever is queued, claimed and sent.
THEOREM TypeCorrect == Spec => []TypeOK
  BY Invariance, PTL DEF IInv

\* No record is queued twice and no delivery gets two picture jobs: the UNIQUE
\* columns never abort InsertDeviceEventBatch or a backfill.
THEOREM RecordsAreQueuedOnce == Spec => []OneDeliveryPerSource
  BY Invariance, PTL DEF IInv

\* What is not finished has a destination row and, when it has a picture job,
\* goes to the destination of that row (SaveDeliveryRoute, DeleteDeliveryRoute).
THEOREM RoutesAreHeld == Spec => []UnfinishedFollowsRoute
  BY Invariance, PTL DEF IInv

\* A delivered row was stored by the school it is for (send, validReceipt).
THEOREM DeliveriesAreReceived == Spec => []DeliveredWasReceived
  BY Invariance, PTL DEF IInv

\* The school stores a picture only after its event (the claim of pictures).
THEOREM PicturesFollowEvents == Spec => []PictureFollowsEvent
  BY Invariance, PTL DEF IInv

\* No record reaches two schools: its row, which is unique, keeps its destination.
THEOREM RecordsReachOneSchool == Spec => []OneSchool
<1>1. IInv => OneSchool
  <2> SUFFICES ASSUME IInv, NEW m \in received, NEW n \in received, m.source = n.source
               PROVE  m.destination = n.destination
    BY Zenon DEF OneSchool
  <2>1. PICK e \in RowIds : events[e].source = m.source /\ events[e].destination = m.destination
    BY Zenon DEF IInv, ReceivedWasQueued
  <2>2. PICK f \in RowIds : events[f].source = n.source /\ events[f].destination = n.destination
    BY Zenon DEF IInv, ReceivedWasQueued
  <2>3. m.source # "none"
    BY SourcesAssumption, Zenon DEF IInv, TypeOK
  <2>4. e = f
    BY <2>1, <2>2, <2>3, Zenon DEF IInv, OneDeliveryPerSource
  <2> QED
    BY <2>1, <2>2, <2>4, Zenon
<1> QED
  BY Invariance, <1>1, PTL

\* The newest claim of a row is open and has one holder, so that a worker whose
\* lease has expired cannot complete the claim of another (FinishEventDelivery).
THEOREM NewestClaimsAreOpen == Spec => []NewestClaimIsOpen
<1>1. IInv => NewestClaimIsOpen
  <2> SUFFICES ASSUME IInv
               PROVE  NewestClaimIsOpen
    BY Zenon
  <2>1. EventClaimsOpen /\ PictureClaimsOpen
    BY Zenon DEF IInv
  <2>2. EventWorkers = PictureWorkers => EventWorkers = {}
    BY WorkersAssumption, Zenon
  <2> QED
    BY <2>1, <2>2
       DEF NewestClaimIsOpen, EventClaimsOpen, PictureClaimsOpen, EventClaimNewest,
           PictureClaimNewest
<1> QED
  BY Invariance, <1>1, PTL

\* Nothing changes a delivered row, or the record and the destination of any row.
THEOREM DeliveredRowsAreFinal == Spec => DeliveredIsFinal
<1>1. IInv /\ [Next]_vars =>
        [\A id \in RowIds :
           /\ events[id].status # "none" =>
                /\ events'[id].source = events[id].source
                /\ events'[id].destination = events[id].destination
                /\ events[id].status = "delivered" => events'[id] = events[id]
           /\ pictures[id].status = "delivered" => pictures'[id] = pictures[id]]_vars
  BY StepRowsAreFinal, Zenon DEF RowsAreFinal
<1> QED
  BY Invariance, <1>1, PTL DEF Spec, DeliveredIsFinal

\* A retained record gets a row only in a backfill, as a candidate of it.
LEMMA RetainedAreBackfilled ==
  ASSUME IInv, [Next]_vars, NEW id \in RowIds,
         events[id].status = "none", events'[id].source \in Retained
  PROVE  \E t \in Terminals, window \in Windows :
           /\ EventBackfill(t, window) = eventPreview
           /\ events'[id].source \in EventBackfill(t, window).candidates
           /\ events'[id].destination = EventBackfill(t, window).destination
           /\ \A s \in EventBackfill(t, window).candidates :
                \E e \in RowIds : events[e].status = "none" /\ events'[e].source = s
<1>1. PICK t \in Terminals, window \in Windows : QueueEventBackfill(t, window)
  BY StepRowsAreFinal, Zenon
<1> DEFINE S == EventBackfill(t, window).candidates
           d == route[t].destination
<1>2. EventsAdded(S, d)
  BY <1>1, BackfillRowsAreFinal, Zenon
<1>3. /\ EventBackfill(t, window) = eventPreview /\ route[t].enabled
      /\ S \in SUBSET Sources /\ EventBackfill(t, window).destination = d
  BY <1>1, Candidates, Zenon DEF QueueEventBackfill, CanPreview
<1> HIDE DEF S
<1>4. d \in Destinations
  BY <1>3 DEF IInv, TypeOK, Route, RoutesAreFilled, NoRoute
<1> HIDE DEF d
<1>5. id \in NewEvents
  BY <1>2, SourcesAssumption DEF EventsAdded, IInv, RowsAreFilled, Sources
<1>6. events'[id].source \in S /\ events'[id].destination = d
  BY <1>2, <1>3, <1>4, <1>5, AddedEventFields, Zenon
<1>7. \A s \in S : \E e \in RowIds : events[e].status = "none" /\ events'[e].source = s
  BY <1>2, Zenon DEF EventsAdded, NewEvents
<1> QED
  BY <1>3, <1>6, <1>7 DEF S

\* A backfill never queues a retained record whose live original is stored.
THEOREM CopiesStayUnqueued == Spec => CopiesAreNotQueued
<1>1. IInv /\ [Next]_vars =>
        [\A id \in RowIds, p \in Copies :
           /\ events[id].status = "none" /\ events'[id].source = p[1]
           => p[2] \notin archive \cap Valid]_vars
  <2> SUFFICES ASSUME IInv, [Next]_vars, NEW id \in RowIds, NEW p \in Copies,
                      events[id].status = "none", events'[id].source = p[1]
               PROVE  p[2] \notin archive \cap Valid
    BY Zenon
  <2>1. p[1] \in Retained /\ p = <<p[1], p[2]>>
    BY CopiesAssumption
  <2>2. PICK t \in Terminals, window \in Windows :
          p[1] \in EventBackfill(t, window).candidates
    BY <2>1, RetainedAreBackfilled, Zenon
  <2>3. p[1] \in window /\ ~Copied(p[1], window)
    BY <2>2, Candidates, Zenon
  <2>4. p[2] \in window
    BY <2>3, CopiesAssumption, Zenon
  <2> QED
    BY <2>1, <2>3, <2>4, Zenon DEF Copied
<1> QED
  BY Invariance, <1>1, PTL DEF Spec, CopiesAreNotQueued

\* A retained record is queued only with all the others of the preview that an
\* administrator has seen, and for its destination (QueueEventBackfill).
THEOREM BackfillsArePreviewed == Spec => OnlyPreviewedIsQueued
<1>1. IInv /\ [Next]_vars =>
        [\A id \in RowIds :
           /\ events[id].status = "none" /\ events'[id].source \in Retained
           => /\ events'[id].destination = eventPreview.destination
              /\ events'[id].source \in eventPreview.candidates
              /\ \A s \in eventPreview.candidates :
                   \E i \in RowIds : events[i].status = "none" /\ events'[i].source = s]_vars
  <2> SUFFICES ASSUME IInv, [Next]_vars, NEW id \in RowIds,
                      events[id].status = "none", events'[id].source \in Retained
               PROVE  /\ events'[id].destination = eventPreview.destination
                      /\ events'[id].source \in eventPreview.candidates
                      /\ \A s \in eventPreview.candidates :
                           \E i \in RowIds : events[i].status = "none" /\ events'[i].source = s
    BY Zenon
  <2> QED
    BY RetainedAreBackfilled, Zenon
<1> QED
  BY Invariance, <1>1, PTL DEF Spec, OnlyPreviewedIsQueued

\* The gateway is upgraded with deliveries that have no picture job, and those
\* that are delivered are what the schools have.
LEMMA InitOutbox ==
  ASSUME Init
  PROVE  Outbox!Init
<1>1. IInv
  BY InitIInv
<1>2. \A p \in RowIds : pictures[p].status = "none"
  BY DEF Init, NoPicture
<1>3. \A m \in Accepted : ~m.picture
  <2> SUFFICES ASSUME NEW m \in Accepted
               PROVE  ~m.picture
    BY Zenon
  <2>1. PICK e \in RowIds : m = EventMessage(e)
    BY <1>2, MessageIn DEF Accepted, Existing
  <2> QED
    BY <2>1 DEF EventMessage
<1>4. Confirmed \subseteq Accepted
  <2> SUFFICES ASSUME NEW m \in Confirmed
               PROVE  m \in Accepted
    BY Zenon
  <2>1. PICK e \in RowIds : events[e].status = "delivered" /\ m = EventMessage(e)
    BY <1>2, MessageIn DEF Confirmed
  <2> QED
    BY <1>1, <2>1, RowMessages
<1>5. received = Confirmed
  <2>1. Confirmed \subseteq received
    <3> SUFFICES ASSUME NEW m \in Confirmed
                 PROVE  m \in received
      BY Zenon
    <3>1. PICK e \in RowIds : events[e].status = "delivered" /\ m = EventMessage(e)
      BY <1>2, MessageIn DEF Confirmed
    <3> QED
      BY <1>1, <3>1, Zenon DEF IInv, DeliveredWasReceived, EventMessage
  <2>2. received \subseteq Confirmed
    BY InitIInv, MessageIn DEF Confirmed
  <2> QED
    BY <2>1, <2>2, Zenon
<1> QED
  BY <1>1, <1>3, <1>4, <1>5, RowsAreAddressed, Zenon DEF Outbox!Init, Accepted, Confirmed, Existing

\* The outbox implements EventOutbox for any number of rows, workers, attempts
\* and destinations: nothing that workers, leases, lost answers, retries and
\* backfills do withdraws or redirects a message, lets a picture overtake its
\* event or confirms what the school has not stored (Enqueue, send,
\* FinishEventDelivery).
THEOREM OutboxIsImplemented == Spec => ImplementsOutbox
<1>1. IInv => Outbox!Addressed(Accepted)
  BY RowsAreAddressed
<1>2. IInv /\ Outbox!Addressed(Accepted)' /\ [Next]_vars => [Outbox!Next]_(Outbox!vars)
  <2> SUFFICES ASSUME IInv, Outbox!Addressed(Accepted)', [Next]_vars
               PROVE  [Outbox!Next]_(Outbox!vars)
    BY Zenon
  <2>1. OutboxStep
    BY OutboxSteps, Zenon
  <2>2. CASE Accepted' = Accepted /\ Confirmed' = Confirmed /\ received' = received
    BY <2>2, Zenon DEF Outbox!vars, Accepted, Confirmed, Existing
  <2>3. CASE Accepted \subseteq Accepted' /\ Confirmed' = Confirmed /\ received' = received
    <3>1. Outbox!Accept
      BY <2>3, Zenon DEF Outbox!Accept, Accepted, Confirmed, Existing
    <3> QED
      BY <3>1, Zenon DEF Outbox!Next
  <2>4. CASE /\ Accepted' = Accepted /\ Confirmed' = Confirmed
             /\ \E m \in Accepted : /\ m.picture => [m EXCEPT !.picture = FALSE] \in Confirmed
                                    /\ received' = received \cup {m}
    <3>1. \E m \in Accepted : Outbox!Store(m)
      BY <2>4, Zenon DEF Outbox!Store, Outbox!EventOf, Accepted, Confirmed, Existing
    <3> QED
      BY <3>1, Zenon DEF Outbox!Next, Accepted, Existing
  <2>5. CASE /\ Accepted' = Accepted /\ received' = received
             /\ \E m \in Accepted : m \in received /\ Confirmed' = Confirmed \cup {m}
    <3>1. \E m \in Accepted : Outbox!Confirm(m)
      BY <2>5, Zenon DEF Outbox!Confirm, Accepted, Confirmed, Existing
    <3> QED
      BY <3>1, Zenon DEF Outbox!Next, Accepted, Existing
  <2> QED
    BY <2>1, <2>2, <2>3, <2>4, <2>5, Zenon DEF OutboxStep
<1> QED
  BY InitOutbox, Invariance, <1>1, <1>2, PTL DEF Spec, ImplementsOutbox, Outbox!Spec
=============================================================================
