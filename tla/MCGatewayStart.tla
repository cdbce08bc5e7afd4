--------------------------- MODULE MCGatewayStart ---------------------------
EXTENDS GatewayStart

\* An older release; a newer one with one more file, the next projection version
\* and another password; the newer one for another administrator; and one that
\* changed the text of an applied file.
Older == [forward |-> 1, edited |-> {}, version |-> 1, name |-> "ann", password |-> "p"]
Newer == [forward |-> 2, edited |-> {}, version |-> 2, name |-> "ann", password |-> "q"]
Renamed == [Newer EXCEPT !.name = "bob"]
Changed == [Newer EXCEPT !.edited = {<<"forward", 1>>}]

AllReleases == {Older, Newer, Renamed, Changed}
TwoNames == {Newer, Renamed}

\* Version 1 classifies events 1 and 2, version 2 events 2 and 3.
SomeClassified == {<<1, 1>>, <<2, 1>>, <<2, 2>>, <<3, 2>>}
=============================================================================
