-------------------------- MODULE MCEventDelivery --------------------------
(* Instances of EventDelivery for TLC: one terminal.                       *)
EXTENDS EventDelivery, TLC

CONSTANTS t1, l1, l2, r1, r2

OneTerminal == [s \in Sources |-> t1]

NoRange == {}

Anything == {Sources}

\* r1 is a copy of l1.
OneCopy == {<<r1, l1>>}

NoCopies == {}

\* Every record is in the range, or only those that have no copy.
TwoRanges == {Sources, {r2}}

\* l2 fails the validation of a backfill.
SomeValid == Sources \ {l2}

\* Nothing distinguishes the destinations.
Renamings == Permutations(Destinations)
=============================================================================
