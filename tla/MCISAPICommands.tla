-------------------------- MODULE MCISAPICommands --------------------------
(***************************************************************************)
(* Instances of ISAPICommands for TLC.                                     *)
(***************************************************************************)
EXTENDS ISAPICommands

Page(status, num, total, recs) ==
  [kind |-> "page", own |-> TRUE, status |-> status, num |-> num,
   total |-> total, len |-> num, recs |-> recs]

Clock == [NoAnswer EXCEPT !.kind = "time"]
Other == [NoAnswer EXCEPT !.kind = "other"]

\* An archive of two records in one page or two, that of an empty terminal, a
\* page that holds one record twice, a page of another search, and one without
\* records that announces more.
SmallArchive ==
  {Clock, Other, Page("MORE", 1, 2, {"r1"}), Page("OK", 1, 2, {"r2"}),
   Page("OK", 2, 2, {"r1"}), Page("NO MATCH", 0, 0, {}), Page("MORE", 0, 2, {}),
   [Page("OK", 1, 1, {"r1"}) EXCEPT !.own = FALSE]}

TwoAnswers == {Clock, Other}

OneRecord == {Clock, Page("OK", 1, 1, {"r1"})}
=============================================================================
