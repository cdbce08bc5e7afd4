--------------------------- MODULE EventDelivery ---------------------------
(***************************************************************************)
(* The outbox that carries attendance events to the school application:    *)
(* the destination of each terminal, the deliveries that ingestion and the *)
(* historical backfill queue, the picture job that follows each of them,   *)
(* and the workers that claim rows under a lease, send them and record the *)
(* result (internal/store/event_deliveries.go, event_attachments.go,       *)
(* event_backfills.go, internal/delivery/worker.go).                       *)
(*                                                                         *)
(* Every transaction that queues rows, retries one or changes a            *)
(* destination locks the row of the terminal, so each is one step; a claim *)
(* and a result are one statement each and lock only the row they write.   *)
(***************************************************************************)
EXTENDS Integers, FiniteSets

CONSTANTS
  Terminals,
  Live,            \* device_events that are authenticated access events
  Retained,        \* retained_access_events of that kind
  TerminalOf,      \* the terminal of each source record
  Copies,          \* <<r, l>>: retained r and live l have the same terminal,
                   \* serial number, instant, person and name
  Valid,           \* the records that validBackfillMessage accepts
  Windows,         \* the sets of records that a backfill's time range selects
  Destinations,    \* endpoint_url with signing_key_id
  EventWorkers, PictureWorkers,
  BackfillLimit,   \* records a backfill may read
  PictureLimit,    \* rows a picture backfill may queue
  PictureBounds,   \* bound of the model: ids that a picture backfill may stop at
  MaxRows,         \* bound of the model: rows of each table
  MaxAttempts      \* bound of the model: the last attempt at a row is not disturbed

Sources == Live \cup Retained
Workers == EventWorkers \cup PictureWorkers
RowIds == 1 .. MaxRows

ASSUME SourcesAssumption ==
  /\ Live \cap Retained = {} /\ IsFiniteSet(Sources)
  /\ TerminalOf \in [Sources -> Terminals]
  /\ "none" \notin Sources
ASSUME CopiesAssumption ==
  /\ Copies \subseteq Retained \X Live /\ Valid \subseteq Sources
  /\ Windows \subseteq SUBSET Sources
  /\ \A p \in Copies : /\ TerminalOf[p[1]] = TerminalOf[p[2]]
                        /\ \A w \in Windows : p[1] \in w <=> p[2] \in w
ASSUME DestinationsAssumption == "none" \notin Destinations
ASSUME WorkersAssumption == EventWorkers \cap PictureWorkers = {}
ASSUME DeliveryBoundsAssumption ==
  /\ BackfillLimit \in Nat /\ PictureLimit \in Nat
  /\ MaxRows \in Nat /\ MaxAttempts \in Nat \ {0}
  /\ PictureBounds \subseteq RowIds

VARIABLES
  archive,        \* the source records that are stored
  route,          \* event_delivery_routes; destination "none": no row
  events,         \* event_deliveries by id
  pictures,       \* event_attachment_deliveries by id
  nextEvent, nextPicture,
  workers,        \* the row a worker holds and the result it has for it
  eventPreview, picturePreview,  \* the previews an administrator was shown
  received        \* what the school application has stored

outbox == <<events, pictures, nextEvent, nextPicture>>
previews == <<eventPreview, picturePreview>>
vars == <<archive, route, outbox, workers, previews, received>>

Statuses == {"none", "pending", "sending", "delivered", "failed"}

Route == [destination : Destinations \cup {"none"}, enabled : BOOLEAN]

NoRoute == [destination |-> "none", enabled |-> FALSE]

\* due: next_attempt_at of a pending row, lease_until of a row that is being
\* sent, lies in the past.
Event == [source : Sources \cup {"none"}, destination : Destinations \cup {"none"},
          status : Statuses, attempts : Nat, due : BOOLEAN]

NoEvent == [source |-> "none", destination |-> "none", status |-> "none",
            attempts |-> 0, due |-> FALSE]

\* parent: event_delivery_id.  request_body is written with the first attempt.
Picture == [parent : Nat, status : Statuses, attempts : Nat, due : BOOLEAN]

NoPicture == [parent |-> 0, status |-> "none", attempts |-> 0, due |-> FALSE]

\* The row and the attempts that a claim returned; result: what send returned.
Holding == [id : Nat, attempts : Nat,
            result : {"none", "pending", "failed", "delivered"}]

Idle == [id |-> 0, attempts |-> 0, result |-> "none"]

Unfinished(row) == row.status \in {"pending", "sending", "failed"}

InProgress(row) == row.status \in {"pending", "sending"}

TerminalOfEvent(e) == TerminalOf[events[e].source]

EventsOf(t) == {e \in RowIds : events[e].status # "none" /\ TerminalOfEvent(e) = t}

PicturesOf(e) == {p \in RowIds : pictures[p].status # "none" /\ pictures[p].parent = e}

-----------------------------------------------------------------------------
(* Queueing.                                                               *)

\* The orders in which a set of records is inserted: the order of a batch, or
\* of the ids that the archive gave them.
Orders(S) ==
  {o \in [1 .. Cardinality(S) -> S] :
     \A i, j \in 1 .. Cardinality(S) : o[i] = o[j] => i = j}

\* ORDER BY id
Ascending(S) ==
  {o \in Orders(S) : \A i, j \in 1 .. Cardinality(S) : i < j => o[i] < o[j]}

NewEvent(s, d) ==
  [NoEvent EXCEPT !.source = s, !.destination = d, !.status = "pending",
                  !.due = TRUE]

NewPicture(e) ==
  [NoPicture EXCEPT !.parent = e, !.status = "pending", !.due = TRUE]

\* enqueueAttachment for n rows of event_deliveries, in the order of parent.
EnqueuePictures(n, parent) ==
  /\ nextPicture + n - 1 <= MaxRows
  /\ pictures' = [p \in RowIds |->
                    IF p \in nextPicture .. nextPicture + n - 1
                    THEN NewPicture(parent[p - nextPicture + 1]) ELSE pictures[p]]
  /\ nextPicture' = nextPicture + n

\* A delivery to destination d for every record of S, and its picture job.
Enqueue(S, d) ==
  LET n == Cardinality(S)
      parent == [i \in 1 .. n |-> nextEvent + i - 1]
  IN  /\ nextEvent + n - 1 <= MaxRows
      /\ \E o \in Orders(S) :
           events' = [e \in RowIds |->
                        IF e \in nextEvent .. nextEvent + n - 1
                        THEN NewEvent(o[e - nextEvent + 1], d) ELSE events[e]]
      /\ nextEvent' = nextEvent + n
      /\ EnqueuePictures(n, parent)

\* Mutant: a vendor retry is queued as if its record were new.
InsertDeviceEventBatch_Requeues(t, batch) ==
  /\ batch # {}
  /\ archive' = archive \cup batch
  /\ IF route[t].enabled THEN Enqueue(batch, route[t].destination)
     ELSE UNCHANGED outbox
  /\ UNCHANGED <<route, workers, previews, received>>

\* One transaction stores the new records of a batch and, while the terminal
\* has an enabled destination, queues them.  A record that is stored already is
\* a vendor retry.
InsertDeviceEventBatch(t, batch) ==
  /\ batch # {}
  /\ archive' = archive \cup batch
  /\ IF route[t].enabled THEN Enqueue(batch \ archive, route[t].destination)
     ELSE UNCHANGED outbox
  /\ UNCHANGED <<route, workers, previews, received>>

\* An access event sync retains a record; it queues nothing.
InsertRetainedAccessEvents(r) ==
  /\ r \notin archive
  /\ archive' = archive \cup {r}
  /\ UNCHANGED <<route, outbox, workers, previews, received>>

-----------------------------------------------------------------------------
(* Destinations.                                                           *)

\* Mutant: only the deliveries themselves are looked at.
Blocked_EventsOnly(t, d) ==
  /\ route[t].destination \notin {"none", d}
  /\ \E e \in EventsOf(t) : InProgress(events[e])

\* SaveDeliveryRoute refuses another destination while rows are in progress.
Blocked(t, d) ==
  /\ route[t].destination \notin {"none", d}
  /\ \E e \in EventsOf(t) :
       InProgress(events[e]) \/ \E p \in PicturesOf(e) : InProgress(pictures[p])

SaveDeliveryRoute(t, d, enabled) ==
  /\ ~Blocked(t, d)
  /\ route' = [route EXCEPT ![t] = [destination |-> d, enabled |-> enabled]]
  /\ UNCHANGED <<archive, outbox, workers, previews, received>>

DeleteDeliveryRoute(t) ==
  /\ route[t] # NoRoute
  /\ \A e \in EventsOf(t) :
       /\ ~Unfinished(events[e])
       /\ \A p \in PicturesOf(e) : ~Unfinished(pictures[p])
  /\ route' = [route EXCEPT ![t] = NoRoute]
  /\ UNCHANGED <<archive, outbox, workers, previews, received>>

-----------------------------------------------------------------------------
(* Workers.  A worker holds the row that its claim returned, sends it, and *)
(* records the result if the row still carries the claim.                  *)

Claimed(row) ==
  [row EXCEPT !.status = "sending", !.attempts = row.attempts + 1, !.due = FALSE]

Hold(w, id, row) ==
  workers' = [workers EXCEPT ![w] =
                [id |-> id, attempts |-> row.attempts, result |-> "none"]]

\* The bound of the model lets an attempt go wrong.
MayRepeat(attempts) == attempts < MaxAttempts

\* Mutant: a row whose lease has run out is not claimed again.
EventsDue_PendingOnly ==
  {e \in RowIds : /\ events[e].status = "pending" /\ events[e].due
                  /\ route[TerminalOfEvent(e)].enabled}

EventsDue ==
  {e \in RowIds : /\ InProgress(events[e]) /\ events[e].due
                  /\ route[TerminalOfEvent(e)].enabled}

\* The response of a claim that is committed may be lost.
ClaimEventDelivery(w) ==
  \E e \in EventsDue :
    /\ workers[w] = Idle
    /\ \A f \in EventsDue : e <= f
    /\ events' = [events EXCEPT ![e] = Claimed(events[e])]
    /\ \/ Hold(w, e, Claimed(events[e]))
       \/ MayRepeat(events[e].attempts + 1) /\ UNCHANGED workers
    /\ UNCHANGED <<archive, route, pictures, nextEvent, nextPicture, previews,
                   received>>

\* Mutant: the picture does not wait for the receipt of its event.
PicturesDue_Early ==
  {p \in RowIds : /\ InProgress(pictures[p]) /\ pictures[p].due
                  /\ route[TerminalOfEvent(pictures[p].parent)].enabled}

PicturesDue ==
  {p \in RowIds : /\ InProgress(pictures[p]) /\ pictures[p].due
                  /\ events[pictures[p].parent].status = "delivered"
                  /\ route[TerminalOfEvent(pictures[p].parent)].enabled}

\* AttachmentQueue.ClaimEventDelivery
ClaimPicture(w) ==
  \E p \in PicturesDue :
    /\ workers[w] = Idle
    /\ \A q \in PicturesDue : p <= q
    /\ pictures' = [pictures EXCEPT ![p] = Claimed(pictures[p])]
    /\ \/ Hold(w, p, Claimed(pictures[p]))
       \/ MayRepeat(pictures[p].attempts + 1) /\ UNCHANGED workers
    /\ UNCHANGED <<archive, route, events, nextEvent, nextPicture, previews,
                   received>>

\* Mutant: the destination is looked up when the row is sent.
Message_CurrentRoute(w) ==
  LET e == IF w \in EventWorkers THEN workers[w].id
           ELSE pictures[workers[w].id].parent
  IN  [picture |-> w \in PictureWorkers, source |-> events[e].source,
       destination |-> route[TerminalOfEvent(e)].destination]

\* What reaches the school: the stored body goes to the destination of the
\* event, for a picture to its attachments path.
Message(w) ==
  LET e == IF w \in EventWorkers THEN workers[w].id
           ELSE pictures[workers[w].id].parent
  IN  [picture |-> w \in PictureWorkers, source |-> events[e].source,
       destination |-> events[e].destination]

\* Mutant: any answer with status 200 counts as a receipt.
Stored_AnyAnswer(w, result) == {received, received \cup {Message(w)}}

\* Only the exact receipt completes a delivery.  Without it the school may have
\* stored the message all the same: the answer was lost or is not a receipt.
Stored(w, result) ==
  {received \cup {Message(w)}}
    \cup IF result = "delivered" THEN {} ELSE {received}

\* delivered: a valid receipt; pending: network error, 408, 429 or 5xx;
\* failed: any other answer, or a signing key that is not configured.
Send(w) ==
  /\ workers[w].id # 0 /\ workers[w].result = "none"
  /\ \E result \in {"pending", "failed", "delivered"} :
       /\ result = "pending" => MayRepeat(workers[w].attempts)
       /\ workers' = [workers EXCEPT ![w].result = result]
       /\ received' \in Stored(w, result)
  /\ UNCHANGED <<archive, route, outbox, previews>>

\* Mutant: whoever holds the row may write its result.
Owns_AnyAttempt(w, row) == row.status = "sending"

\* attempts = $2 AND status = 'sending'
Owns(w, row) == row.status = "sending" /\ row.attempts = workers[w].attempts

Finished(w, row) ==
  IF Owns(w, row)
  THEN [row EXCEPT !.status = workers[w].result, !.due = FALSE] ELSE row

\* Mutant: the result is written before there is one.
FinishEventDelivery_Early(w) ==
  /\ workers[w].id # 0
  /\ LET id == workers[w].id
     IN  \/ /\ w \in EventWorkers
            /\ events' = [events EXCEPT ![id] = Finished(w, events[id])]
            /\ UNCHANGED pictures
         \/ /\ w \in PictureWorkers
            /\ pictures' = [pictures EXCEPT ![id] = Finished(w, pictures[id])]
            /\ UNCHANGED events
  /\ workers' = [workers EXCEPT ![w] = Idle]
  /\ UNCHANGED <<archive, route, nextEvent, nextPicture, previews, received>>

\* The statement may fail or its outcome may be unknown; the worker goes on.
FinishEventDelivery(w) ==
  /\ workers[w].result # "none"
  /\ LET id == workers[w].id
     IN  \/ MayRepeat(workers[w].attempts) /\ UNCHANGED <<events, pictures>>
         \/ /\ w \in EventWorkers
            /\ events' = [events EXCEPT ![id] = Finished(w, events[id])]
            /\ UNCHANGED pictures
         \/ /\ w \in PictureWorkers
            /\ pictures' = [pictures EXCEPT ![id] = Finished(w, pictures[id])]
            /\ UNCHANGED events
  /\ workers' = [workers EXCEPT ![w] = Idle]
  /\ UNCHANGED <<archive, route, nextEvent, nextPicture, previews, received>>

\* The process of the worker stops, or its context ends, while it holds a row.
WorkerStops(w) ==
  /\ workers[w] # Idle /\ MayRepeat(workers[w].attempts)
  /\ workers' = [workers EXCEPT ![w] = Idle]
  /\ UNCHANGED <<archive, route, outbox, previews, received>>

\* Mutant: an event that is delivered can be queued again.
RetryEventDelivery_AnyStatus(e) ==
  /\ events[e].status \in {"failed", "delivered"} /\ MayRepeat(events[e].attempts)
  /\ events' = [events EXCEPT ![e].status = "pending", ![e].due = TRUE]
  /\ UNCHANGED <<archive, route, pictures, nextEvent, nextPicture, workers,
                 previews, received>>

RetryEventDelivery(e) ==
  /\ events[e].status = "failed" /\ MayRepeat(events[e].attempts)
  /\ events' = [events EXCEPT ![e].status = "pending", ![e].due = TRUE]
  /\ UNCHANGED <<archive, route, pictures, nextEvent, nextPicture, workers,
                 previews, received>>

RetryAttachmentDelivery(p) ==
  /\ pictures[p].status = "failed" /\ MayRepeat(pictures[p].attempts)
  /\ pictures' = [pictures EXCEPT ![p].status = "pending", ![p].due = TRUE]
  /\ UNCHANGED <<archive, route, events, nextEvent, nextPicture, workers,
                 previews, received>>

\* The retry delay of a row or the lease of a claim runs out.
EventFallsDue(e) ==
  /\ InProgress(events[e]) /\ ~events[e].due /\ MayRepeat(events[e].attempts)
  /\ events' = [events EXCEPT ![e].due = TRUE]
  /\ UNCHANGED <<archive, route, pictures, nextEvent, nextPicture, workers,
                 previews, received>>

PictureFallsDue(p) ==
  /\ InProgress(pictures[p]) /\ ~pictures[p].due /\ MayRepeat(pictures[p].attempts)
  /\ pictures' = [pictures EXCEPT ![p].due = TRUE]
  /\ UNCHANGED <<archive, route, events, nextEvent, nextPicture, workers,
                 previews, received>>

-----------------------------------------------------------------------------
(* Historical backfill: an administrator previews it and then queues what  *)
(* the preview showed.                                                     *)

Queued(s) == \E e \in RowIds : events[e].source = s

\* Mutant: a record that is queued is passed over before its copies are noted.
Copied_Unqueued(r, window) ==
  \E l \in window \cap archive \cap Valid : <<r, l>> \in Copies /\ ~Queued(l)

\* A retained record that a valid live record of the range represents.
Copied(r, window) ==
  \E l \in window \cap archive \cap Valid : <<r, l>> \in Copies

\* previewEventBackfill; the token is a digest of the whole preview.
EventBackfill(t, window) ==
  LET read == {s \in window \cap archive : TerminalOf[s] = t}
      copies == {s \in read \cap Valid : Copied(s, window)}
      queued == {s \in (read \cap Valid) \ copies : Queued(s)}
  IN  [terminal |-> t, window |-> window, destination |-> route[t].destination,
       invalid |-> Cardinality(read \ Valid), copies |-> Cardinality(copies),
       queued |-> Cardinality(queued),
       candidates |-> (read \cap Valid) \ (copies \cup queued)]

NoEventBackfill ==
  [terminal |-> "none", window |-> {}, destination |-> "none", invalid |-> 0,
   copies |-> 0, queued |-> 0, candidates |-> {}]

CanPreview(t, window) ==
  /\ route[t].enabled
  /\ Cardinality({s \in window \cap archive : TerminalOf[s] = t}) <= BackfillLimit

PreviewEventBackfill(t, window) ==
  /\ CanPreview(t, window)
  /\ eventPreview' = EventBackfill(t, window)
  /\ UNCHANGED <<archive, route, outbox, workers, picturePreview, received>>

\* Mutant: the token is not compared.
QueueEventBackfill_AnyToken(t, window) ==
  LET b == EventBackfill(t, window)
  IN  /\ eventPreview.terminal = t /\ eventPreview.window = window
      /\ CanPreview(t, window)
      /\ b.candidates # {}
      /\ Enqueue(b.candidates, b.destination)
      /\ UNCHANGED <<archive, route, workers, previews, received>>

QueueEventBackfill(t, window) ==
  LET b == EventBackfill(t, window)
  IN  /\ CanPreview(t, window)
      /\ b = eventPreview
      /\ b.candidates # {}
      /\ Enqueue(b.candidates, b.destination)
      /\ UNCHANGED <<archive, route, workers, previews, received>>

\* previewAttachments: delivered rows up to an id that have no picture job.
PictureBackfill(t, through) ==
  [terminal |-> t, through |-> through,
   candidates |-> {e \in EventsOf(t) : e <= through /\ PicturesOf(e) = {}
                                       /\ events[e].status = "delivered"}]

NoPictureBackfill == [terminal |-> "none", through |-> 0, candidates |-> {}]

CanPreviewPictures(t, through) ==
  /\ route[t].enabled
  /\ Cardinality(PictureBackfill(t, through).candidates) <= PictureLimit

\* The administrator names the last delivery to look at, so as to stay within the
\* limit; without one (0) it is the newest of the terminal.  If there is none the
\* preview is empty and cannot be submitted (a submission needs an id).
StopsAt(t, bound, through) ==
  IF bound # 0
  THEN through = bound
  ELSE through \in EventsOf(t) /\ \A e \in EventsOf(t) : e <= through

PreviewAttachmentBackfill(t, bound) ==
  \E through \in RowIds :
    /\ StopsAt(t, bound, through)
    /\ CanPreviewPictures(t, through)
    /\ picturePreview' = PictureBackfill(t, through)
    /\ UNCHANGED <<archive, route, outbox, workers, eventPreview, received>>

QueueAttachmentBackfill(t) ==
  LET b == PictureBackfill(t, picturePreview.through)
  IN  /\ CanPreviewPictures(t, picturePreview.through)
      /\ b = picturePreview /\ b.candidates # {}
      /\ \E o \in Ascending(b.candidates) :
           EnqueuePictures(Cardinality(b.candidates), o)
      /\ UNCHANGED <<archive, route, events, nextEvent, workers, previews, received>>

-----------------------------------------------------------------------------
(* The specification.                                                      *)

\* A delivery from before the table of picture jobs was introduced.
LegacyEvent(s, d, status) ==
  [source |-> s, destination |-> d, status |-> status,
   attempts |-> IF status = "pending" THEN 0 ELSE 1, due |-> status = "pending"]

\* The gateway is upgraded with some such deliveries, to the destination their
\* terminal has.
Init ==
  /\ \E legacy \in SUBSET Live, d \in [Terminals -> Destinations] :
     \E o \in Orders(legacy),
        status \in [legacy -> {"pending", "failed", "delivered"}] :
       LET n == Cardinality(legacy) IN
       /\ n <= MaxRows
       /\ archive = legacy
       /\ route = [t \in Terminals |->
                     IF \E s \in legacy : TerminalOf[s] = t
                     THEN [destination |-> d[t], enabled |-> TRUE] ELSE NoRoute]
       /\ events = [e \in RowIds |->
                      IF e <= n
                      THEN LegacyEvent(o[e], d[TerminalOf[o[e]]], status[o[e]])
                      ELSE NoEvent]
       /\ nextEvent = n + 1
       /\ received = {[picture |-> FALSE, source |-> s,
                       destination |-> d[TerminalOf[s]]] :
                        s \in {l \in legacy : status[l] = "delivered"}}
  /\ pictures = [p \in RowIds |-> NoPicture] /\ nextPicture = 1
  /\ workers = [w \in Workers |-> Idle]
  /\ eventPreview = NoEventBackfill /\ picturePreview = NoPictureBackfill

IngestStep ==
  \/ \E t \in Terminals :
       \E batch \in SUBSET {s \in Live : TerminalOf[s] = t} :
         InsertDeviceEventBatch(t, batch)
  \/ \E r \in Retained : InsertRetainedAccessEvents(r)

AdminStep ==
  \/ \E t \in Terminals :
       \/ \E d \in Destinations, enabled \in BOOLEAN : SaveDeliveryRoute(t, d, enabled)
       \/ DeleteDeliveryRoute(t)
       \/ \E window \in Windows :
            PreviewEventBackfill(t, window) \/ QueueEventBackfill(t, window)
       \/ \E bound \in PictureBounds \cup {0} : PreviewAttachmentBackfill(t, bound)
       \/ QueueAttachmentBackfill(t)
  \/ \E id \in RowIds : RetryEventDelivery(id) \/ RetryAttachmentDelivery(id)

WorkerStep ==
  \/ \E w \in EventWorkers : ClaimEventDelivery(w)
  \/ \E w \in PictureWorkers : ClaimPicture(w)
  \/ \E w \in Workers : Send(w) \/ FinishEventDelivery(w) \/ WorkerStops(w)

TimeStep == \E id \in RowIds : EventFallsDue(id) \/ PictureFallsDue(id)

Next == IngestStep \/ AdminStep \/ WorkerStep \/ TimeStep

Spec == Init /\ [][Next]_vars

\* Workers claim on every tick while a row is due, an exchange ends at the
\* HTTP deadline, and time passes.
Fairness ==
  /\ \A w \in EventWorkers : WF_vars(ClaimEventDelivery(w))
  /\ \A w \in PictureWorkers : WF_vars(ClaimPicture(w))
  /\ \A w \in Workers : WF_vars(Send(w)) /\ WF_vars(FinishEventDelivery(w))
  /\ \A id \in RowIds : WF_vars(EventFallsDue(id)) /\ WF_vars(PictureFallsDue(id))

FairSpec == Spec /\ Fairness

-----------------------------------------------------------------------------
(* Properties.                                                             *)

\* The rows, the workers and the previews stay in their types, and the rows that
\* exist are numbered without gaps.
TypeOK ==
  /\ archive \subseteq Sources
  /\ route \in [Terminals -> Route]
  /\ events \in [RowIds -> Event] /\ pictures \in [RowIds -> Picture]
  /\ nextEvent \in 1 .. MaxRows + 1 /\ nextPicture \in 1 .. MaxRows + 1
  /\ \A id \in RowIds :
       /\ (events[id].status = "none") <=> (id >= nextEvent)
       /\ (pictures[id].status = "none") <=> (id >= nextPicture)
  /\ workers \in [Workers -> Holding]
  /\ \A w \in Workers : workers[w].id \in RowIds \cup {0}
  /\ eventPreview.candidates \subseteq Sources
  /\ picturePreview.candidates \subseteq RowIds
  /\ received \subseteq [picture : BOOLEAN, source : Sources,
                         destination : Destinations]

\* A source record has at most one delivery and a delivery at most one picture
\* job, though vendors repeat events and administrators repeat backfills: the
\* UNIQUE columns never abort a batch that the terminal would then send for ever
\* (InsertDeviceEventBatch, QueueEventBackfill, QueueAttachmentBackfill).
OneDeliveryPerSource ==
  \A i, j \in RowIds :
    /\ events[i].source = events[j].source /\ events[i].source # "none" => i = j
    /\ pictures[i].parent = pictures[j].parent /\ pictures[i].parent # 0 => i = j

\* What is not delivered always has a destination row, so that it can be
\* retried (DeleteDeliveryRoute).  A delivery that is not finished goes to the
\* destination its terminal has now, a failed one included: its picture job,
\* which waits for it, keeps SaveDeliveryRoute from changing the destination.
UnfinishedFollowsRoute ==
  \A e \in RowIds :
    /\ Unfinished(events[e]) \/ (\E p \in PicturesOf(e) : Unfinished(pictures[p])) =>
         route[TerminalOfEvent(e)] # NoRoute
    /\ Unfinished(events[e]) /\ PicturesOf(e) # {} =>
         route[TerminalOfEvent(e)].destination = events[e].destination

\* An event or a picture is delivered only when the school that it is for has
\* stored it (send, validReceipt), whichever worker ends the row.
DeliveredWasReceived ==
  \A id \in RowIds :
    /\ events[id].status = "delivered" =>
         [picture |-> FALSE, source |-> events[id].source,
          destination |-> events[id].destination] \in received
    /\ pictures[id].status = "delivered" =>
         [picture |-> TRUE, source |-> events[pictures[id].parent].source,
          destination |-> events[pictures[id].parent].destination] \in received

\* The school stores a picture only of an event that it has stored.
PictureFollowsEvent ==
  \A m \in received : m.picture => [m EXCEPT !.picture = FALSE] \in received

\* Retries never redirect an event to another school, whatever happens to the
\* destination between attempts, backfills and repeated vendor events.
OneSchool ==
  \A m, n \in received : m.source = n.source => m.destination = n.destination

\* The newest claim of a row stays open until its worker ends it, and no other
\* worker has it: a worker whose lease has expired cannot complete the claim of
\* another (FinishEventDelivery).
NewestClaimIsOpen ==
  \A q \in {EventWorkers, PictureWorkers} :
    LET row(id) == IF q = EventWorkers THEN events[id] ELSE pictures[id]
        newest(w) == /\ workers[w].id # 0
                     /\ row(workers[w].id).attempts = workers[w].attempts
    IN  /\ \A w \in q : newest(w) => row(workers[w].id).status = "sending"
        /\ \A v, w \in q :
             newest(v) /\ newest(w) /\ workers[v].id = workers[w].id => v = w

\* A delivered row stays delivered, and neither the destination nor the source
\* of a row ever changes (RetryEventDelivery, FinishEventDelivery).
DeliveredIsFinal ==
  [][\A id \in RowIds :
       /\ events[id].status # "none" =>
            /\ events'[id].source = events[id].source
            /\ events'[id].destination = events[id].destination
            /\ events[id].status = "delivered" => events'[id] = events[id]
       /\ pictures[id].status = "delivered" => pictures'[id] = pictures[id]]_vars

\* A retained record is never queued while the live record that it copies is
\* stored, queued or not (previewEventBackfill).  The other order is allowed: a
\* live record that arrives after its copy was queued is delivered as well, and
\* the school tells the two apart by their source (docs/EVENT-DELIVERY.md).
CopiesAreNotQueued ==
  [][\A id \in RowIds, p \in Copies :
       /\ events[id].status = "none" /\ events'[id].source = p[1]
       => p[2] \notin archive \cap Valid]_vars

\* A retained record is queued only in a backfill that an administrator has
\* seen as it is queued: the same records for the same destination.
OnlyPreviewedIsQueued ==
  [][\A id \in RowIds :
       /\ events[id].status = "none" /\ events'[id].source \in Retained
       => /\ events'[id].destination = eventPreview.destination
          /\ events'[id].source \in eventPreview.candidates
          /\ \A s \in eventPreview.candidates :
               \E i \in RowIds : events[i].status = "none" /\ events'[i].source = s]_vars

Paused(e) ==
  e \in RowIds /\ events[e].status # "none" /\ ~route[TerminalOfEvent(e)].enabled

\* Every delivery ends delivered or failed while its destination is enabled,
\* and so does the picture of a delivered event, though workers stop, leases
\* run out and answers are lost.
RowsEnd ==
  \A id \in RowIds :
    /\ InProgress(events[id]) ~>
         \/ events[id].status \in {"delivered", "failed"}
         \/ Paused(id)
    /\ (InProgress(pictures[id]) /\ events[pictures[id].parent].status = "delivered") ~>
         \/ pictures[id].status \in {"delivered", "failed"}
         \/ Paused(pictures[id].parent)

-----------------------------------------------------------------------------
(* The rows as the messages that EventOutbox speaks of.                    *)

\* What is sent for a delivery and for a picture.
EventMessage(id) ==
  [picture |-> FALSE, source |-> events[id].source, destination |-> events[id].destination]

PictureMessage(id) ==
  [picture |-> TRUE, source |-> events[pictures[id].parent].source,
   destination |-> events[pictures[id].parent].destination]

\* The messages of the rows that have one of these statuses.
MessagesIn(statuses) ==
  {EventMessage(e) : e \in {i \in RowIds : events[i].status \in statuses}}
    \cup {PictureMessage(p) : p \in {i \in RowIds : pictures[i].status \in statuses}}

Outbox == INSTANCE EventOutbox WITH
  Records <- Sources,
  Schools <- Destinations,
  accepted <- MessagesIn(Statuses \ {"none"}),
  stored <- received,
  confirmed <- MessagesIn({"delivered"})

\* The rows and the workers implement EventOutbox: whatever is claimed twice,
\* answered late, retried or lost, no message is withdrawn or redirected, a
\* picture reaches the school only when its event is confirmed, and only what
\* the school has stored is confirmed (Enqueue, send, FinishEventDelivery).
ImplementsOutbox == Outbox!Spec
=============================================================================
