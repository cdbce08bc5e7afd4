----------------------------- MODULE EventOutbox -----------------------------
(***************************************************************************)
(* What the outbox promises the school applications about every message,   *)
(* an attendance event or the picture that follows it: what is accepted is *)
(* never withdrawn or redirected, a school stores only what was accepted   *)
(* for it and a picture only when its event is confirmed, and only what    *)
(* the school has stored is ever confirmed.  How rows are claimed, leased, *)
(* retried and failed is left open.                                        *)
(***************************************************************************)
CONSTANTS
  Records,   \* the attendance events that can be accepted
  Schools    \* the destinations they can be accepted for

VARIABLES
  accepted,  \* the messages that are to be delivered, or are
  stored,    \* those that the school has
  confirmed  \* those that the gateway will not send again

vars == <<accepted, stored, confirmed>>

Messages == [picture : BOOLEAN, source : Records, destination : Schools]

EventOf(m) == [m EXCEPT !.picture = FALSE]

\* Every record is for one school, and a picture comes with its event.
Addressed(M) ==
  /\ M \subseteq Messages
  /\ \A m, n \in M : m.source = n.source => m.destination = n.destination
  /\ \A m \in M : EventOf(m) \in M

\* Events from before pictures were delivered.
Init ==
  /\ Addressed(accepted) /\ \A m \in accepted : ~m.picture
  /\ stored = confirmed /\ confirmed \subseteq accepted

\* One transaction accepts any number of messages.
Accept ==
  /\ accepted \subseteq accepted' /\ Addressed(accepted')
  /\ UNCHANGED <<stored, confirmed>>

Store(m) ==
  /\ m.picture => EventOf(m) \in confirmed
  /\ stored' = stored \cup {m}
  /\ UNCHANGED <<accepted, confirmed>>

Confirm(m) ==
  /\ m \in stored
  /\ confirmed' = confirmed \cup {m}
  /\ UNCHANGED <<accepted, stored>>

Next == Accept \/ \E m \in accepted : Store(m) \/ Confirm(m)

Spec == Init /\ [][Next]_vars
=============================================================================
