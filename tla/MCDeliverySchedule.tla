------------------------- MODULE MCDeliverySchedule -------------------------
EXTENDS DeliverySchedule

\* The newest row belongs to another school.
AllButLast == 1 .. Rows - 1
=============================================================================
