----------------------------- MODULE MCHisRead -----------------------------
(* Days 10 to 12 on machines to the east and to the west, with and without    *)
(* summer time, and every form of a range.                                   *)
EXTENDS HisRead

Ten == 10 * PerDay
McMachine(std, first, last) == [std |-> std, summer |-> first..last]

\* London, New York before, through and behind the change of the clocks, Berlin
\* and Kolkata, which is five hours and a half ahead.
McMachines == {
  McMachine(0, 1, 0), McMachine(-20, 1, 0), McMachine(4, 1, 0), McMachine(22, 1, 0),
  McMachine(0, Ten + 30, Ten + 60), McMachine(-20, Ten + 90, Ten + 300)}

\* Early in the morning, at noon and shortly before midnight of UTC.
McInstants == {Ten + 9, Ten + 145, Ten + 190}

New_York == <<"New_York">>
McRec(known, his, hasTz, hasKind, tz) ==
  [known |-> known, his |-> his, hasTz |-> hasTz, hasKind |-> hasKind, tz |-> tz]
McRecs == {
  McRec(TRUE, TRUE, TRUE, TRUE, New_York), McRec(TRUE, TRUE, TRUE, TRUE, GMT(0)),
  McRec(TRUE, TRUE, TRUE, TRUE, GMT(2)), McRec(TRUE, TRUE, TRUE, FALSE, New_York),
  McRec(TRUE, TRUE, FALSE, TRUE, New_York), McRec(TRUE, FALSE, TRUE, TRUE, New_York),
  McRec(FALSE, TRUE, TRUE, TRUE, New_York)}

McForm(kind, first, last, zone, lastZone) ==
  [kind |-> kind, first |-> first, last |-> last, zone |-> zone, lastZone |-> lastZone]
McForms ==
  {McForm(kind, 10, 11, New_York, New_York) :
     kind \in {"today", "yesterday", "date", "dates", "garbage"}}
  \union {McForm("from", Ten + 70, Ten, zone, zone) : zone \in {New_York, GMT(0), GMT(2)}}
  \union {McForm("times", Ten + 50, Ten + 99, New_York, New_York),
          McForm("times", Ten + 50, Ten + 20, GMT(0), GMT(0)),
          McForm("times", Ten + 50, Ten + 99, GMT(2), New_York)}
=============================================================================
