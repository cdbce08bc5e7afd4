--------------------------- MODULE DeliverySchedule ---------------------------
(***************************************************************************)
(* The delivery worker in time (Run in internal/delivery/worker.go): one   *)
(* worker serves the rows of every school, lowest id first, and waits up   *)
(* to ten seconds for each answer.  EventDelivery has the same worker      *)
(* without time, with everything that happens to a row.                    *)
(***************************************************************************)
EXTENDS Integers

CONSTANTS
  Rows,         \* bound: queued rows of event_deliveries, 1 .. Rows by id
  Unreachable,  \* those whose school does not answer at all
  SendTimeout,  \* seconds that http.Client waits for an answer
  Batch         \* claims between two looks at the one-second ticker

VARIABLES
  attempts,  \* attempts[r], counted up to the seventh: later delays are equal
  wait,      \* wait[r]: seconds until next_attempt_at, 0 when it has passed
  pending,   \* the rows that are not delivered
  round,     \* claims since the last tick
  late,      \* a tick has come since
  last       \* the row claimed last, 0 before the first
vars == <<attempts, wait, pending, round, late, last>>

\* RetryDelay: 5 seconds, doubled with every attempt and bounded by 300.
RetryDelay(n) == IF n < 7 THEN 5 * 2 ^ (n - 1) ELSE 300

\* Some seconds pass.
Pass(seconds) ==
  [r \in 1 .. Rows |-> IF wait[r] > seconds THEN wait[r] - seconds ELSE 0]

Due == {r \in pending : wait[r] = 0}
First(r) == r \in Due /\ \A q \in Due : r <= q

\* The attempt that a claim begins.
Claimed(r) == IF attempts[r] < 7 THEN attempts[r] + 1 ELSE 7

\* ClaimEventDelivery, send and FinishEventDelivery of a row whose school does
\* not answer: a network error after SendTimeout, and a retry.
TimesOut(r) ==
  /\ round < Batch /\ First(r) /\ r \in Unreachable
  /\ attempts' = [attempts EXCEPT ![r] = Claimed(r)]
  /\ wait' = [Pass(SendTimeout) EXCEPT ![r] = RetryDelay(Claimed(r))]
  /\ round' = round + 1 /\ late' = TRUE /\ last' = r
  /\ UNCHANGED pending

\* The same of a row whose school stores it at once.
Delivers(r) ==
  /\ round < Batch /\ First(r) /\ r \notin Unreachable
  /\ attempts' = [attempts EXCEPT ![r] = Claimed(r)]
  /\ pending' = pending \ {r}
  /\ round' = round + 1 /\ last' = r
  /\ UNCHANGED <<wait, late>>

\* Nothing is due, or the loop is over: Run waits for the ticker, which holds a
\* tick already when a second has passed.
Tick ==
  /\ round = Batch \/ Due = {}
  /\ round' = 0 /\ late' = FALSE
  /\ wait' = IF late THEN wait ELSE Pass(1)
  /\ UNCHANGED <<attempts, pending, last>>

\* The gateway starts again after more than five minutes.  Before, every row met
\* network errors (connections refused at once) until its delay was 300 seconds;
\* all are due now.  The schools of the rows outside Unreachable answer again.
Init ==
  /\ attempts = [r \in 1 .. Rows |-> 7]
  /\ wait = [r \in 1 .. Rows |-> 0]
  /\ pending = 1 .. Rows
  /\ round = 0 /\ late = FALSE /\ last = 0

Next == Tick \/ \E r \in 1 .. Rows : TimesOut(r) \/ Delivers(r)

\* The worker runs on.
FairSpec == Init /\ [][Next]_vars /\ WF_vars(Next)

\* "Network errors, HTTP 408, 429 and 5xx retry after 5, 10, 20, 40, 80, 160, then
\* 300 seconds, continuing at the 300-second cap" (docs/EVENT-DELIVERY.md): a row
\* that has met a network error is tried again, and again until it is delivered.
\* RetryDelay only says when a row is due; ClaimEventDelivery decides who is next.
EveryRowIsTried ==
  \A r \in 1 .. Rows :
    (r \in pending /\ attempts[r] > 0) ~> (last = r \/ r \notin pending)
===============================================================================
