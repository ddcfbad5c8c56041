------------------------------ MODULE HisRead ------------------------------
(* A history read: the range a client asks for, the timestamps on_his_read   *)
(* steps through, and what DateTime, TimeZone and the clock of the machine   *)
(* make of each step.  Times count quarters of an hour since 1970.           *)
EXTENDS Integers, Sequences, FiniteSets

CONSTANTS
  Machines,    \* zones of machines: standard offset, instants of summer time
  Instants,    \* when the process may start, and when it may be asked
  Recs,        \* the records of the project, as far as a history read looks
  Forms        \* the ranges that are asked for

Hour == 4
PerDay == 24 * Hour

ASSUME MachinesAssumption ==
  \A m \in Machines : m.std \in -PerDay..PerDay /\ m.summer \subseteq Nat
ASSUME InstantsAssumption == Instants \subseteq Nat /\ \A t \in Instants : t >= 5 * PerDay

\* No range begins in the first days of 1970, where instants would be negative.
ASSUME FormsAssumption ==
  \A form \in Forms :
    /\ form.kind \in {"today", "yesterday", "date", "dates", "from", "times", "garbage"}
    /\ form.first \in Nat /\ form.last \in Nat
    /\ form.kind \in {"date", "dates"} => form.first >= 5
    /\ form.kind \in {"from", "times"} => form.first >= 5 * PerDay

VARIABLES
  machine,     \* the machine that the process runs on
  started,     \* when the process started
  now,         \* when it is asked
  pie,         \* its code is loaded where the loader likes
  phase,       \* how far the read has got
  start, end,  \* the range
  ts,          \* the timestamp on_his_read has come to
  items        \* the timestamps of the items

world == <<machine, started, now, pie>>
vars == <<world, phase, start, end, ts, items>>

-----------------------------------------------------------------------------
(* The machine's clock, and the zones.                                       *)
Dst(t) == IF t \in machine.summer THEN Hour ELSE 0

\* localtime
Local(t) == t + machine.std + Dst(t)
HourOf(t) == (t \div Hour) % 24
DateOf(t) == t \div PerDay

Zone(name, offset) == [name |-> name, offset |-> offset]
GMT(hours) == <<"GMT", hours>>

\* TimeZone(name) finds an offset in names that hold GMT only.
NamedZone(name) == Zone(name, IF Len(name) = 2 THEN Hour * name[2] ELSE 0)

\* TimeZone::DEFAULT: the hour of the local clock less the hour of UTC at the
\* start of the process, on whatever days the two may be.
DefaultHours == HourOf(Local(started)) - HourOf(started)
DefaultOffset == Hour * DefaultHours
DEFAULT == Zone(GMT(DefaultHours), DefaultOffset)

-----------------------------------------------------------------------------
(* DateTime: the date and the time of day as one number, a zone, the offset,  *)
(* and the instant once it has been asked for.                               *)
Unasked == -1
DateTime(fields, zone, offset, millis) ==
  [fields |-> fields, zone |-> zone, offset |-> offset, millis |-> millis]

Abs(n) == IF n < 0 THEN -n ELSE n

\* mktime reads the fields as local standard time.
Computed(x) == x.fields + DefaultOffset - machine.std + Abs(x.offset)
Millis(x) == IF x.millis > 0 THEN x.millis ELSE Computed(x)

\* millis keeps what it has computed.
Asked(x) == DateTime(x.fields, x.zone, x.offset, Millis(x))

\* Faulty: the instant is computed before the offset is reset.
CopyOfAsked(x) == DateTime(x.fields, x.zone, x.zone.offset, Millis(x))

\* The copy constructor: the offset of the zone, the instant as it was kept.
Copy(x) == DateTime(x.fields, x.zone, x.zone.offset, x.millis)

\* operator==
SameTime(x, y) == x.fields = y.fields /\ x.zone = y.zone /\ x.offset = y.offset

\* make_time_t: the local time of the machine for its own zone, otherwise that
\* of UTC with the offset of the zone added to the hour.
MakeTimeT(t, zone) ==
  IF zone = DEFAULT THEN DateTime(Local(t), zone, zone.offset + Dst(t), Unasked)
  ELSE DateTime(t + zone.offset, zone, zone.offset, Unasked)

\* make compares the milliseconds with the address of a function, not with the
\* largest time_t: low in an executable at a fixed place, and then they are
\* divided; otherwise they are taken for seconds.
Make(t, zone) == MakeTimeT(IF pie THEN 1000 * t ELSE t, zone)

-----------------------------------------------------------------------------
(* DateTimeRange::make for a zone, from what a client may send.              *)
Midnight(date, tz) == DateTime(PerDay * date, tz, tz.offset, Unasked)
ReadTime(fields, name) ==
  DateTime(fields, NamedZone(name), NamedZone(name).offset, Unasked)

Between(first, last) ==
  [ok |-> first.zone = last.zone, start |-> Copy(first), end |-> Copy(last)]
Days(first, last, tz) == Between(Midnight(first, tz), Midnight(last + 1, tz))
Today == DateOf(Local(now))

MakeRange(form, tz) ==
  CASE form.kind = "today" -> Days(Today, Today, tz)
    [] form.kind = "yesterday" -> Days(Today - 1, Today - 1, tz)
    [] form.kind = "date" -> Days(form.first, form.first, tz)
    [] form.kind = "dates" -> Days(form.first, form.last, tz)
    [] form.kind = "from" -> Between(ReadTime(form.first, form.zone), MakeTimeT(now, tz))
    [] form.kind = "times" ->
         Between(ReadTime(form.first, form.zone), ReadTime(form.last, form.lastZone))

Formed(form) == form.kind # "garbage"

-----------------------------------------------------------------------------
(* Server::his_read and TestProj::on_his_read.                               *)
Nothing == DateTime(0, Zone(GMT(0), 0), 0, Unasked)

Init ==
  /\ machine \in Machines /\ started \in Instants /\ now \in Instants /\ pie \in BOOLEAN
  /\ started <= now
  /\ phase = "idle" /\ items = <<>>
  /\ start = Nothing /\ end = Nothing /\ ts = Nothing

\* The zone of a record is made with an offset of 0, whatever its name.  The
\* record needs a zone, and a kind, which on_his_read looks at first.
Request(rec, form) ==
  LET tz == Zone(rec.tz, 0)
      range == MakeRange(form, tz)
      granted == /\ rec.known /\ rec.his /\ rec.hasTz /\ rec.hasKind
                 /\ Formed(form) /\ range.ok /\ range.start.zone = tz
  IN  /\ phase = "idle"
      /\ IF granted
         THEN /\ phase' = "read" /\ start' = range.start /\ end' = range.end
              /\ ts' = Copy(range.start)
         ELSE phase' = "refused" /\ UNCHANGED <<start, end, ts>>
      /\ UNCHANGED <<world, items>>

\* Faulty: the loop stops a step before the end of the range.
GoingShort == Millis(ts) + 1 < Millis(end)
Going == Millis(ts) < Millis(end)

\* Faulty: the start of the range is an item too.
StepFromStart ==
  /\ phase = "read" /\ Going
  /\ items' = Append(items, Copy(Asked(ts)))
  /\ ts' = Copy(Make(Millis(ts) + 1, DEFAULT)) /\ end' = Asked(end)
  /\ UNCHANGED <<world, phase, start>>

\* One round of the loop.  The clone that ts becomes is made before it is asked
\* for its instant.
Step ==
  /\ phase = "read" /\ Going
  /\ items' = IF SameTime(ts, start) THEN items ELSE Append(items, Copy(Asked(ts)))
  /\ ts' = Copy(Make(Millis(ts) + 1, DEFAULT)) /\ end' = Asked(end)
  /\ UNCHANGED <<world, phase, start>>

\* Faulty: the loop is left only when it comes upon the end itself.
FinishAtEnd ==
  /\ phase = "read" /\ Millis(ts) = Millis(end)
  /\ phase' = "answered"
  /\ UNCHANGED <<world, start, end, ts, items>>

\* The checks of his_read behind the loop.
Finish ==
  /\ phase = "read" /\ ~Going
  /\ phase' = IF items = <<>> THEN "answered"
              ELSE IF Millis(start) >= Millis(items[1]) THEN "startNotMet"
              ELSE IF Millis(end) < Millis(items[Len(items)]) THEN "endNotMet"
              ELSE "answered"
  /\ start' = IF items = <<>> THEN start ELSE Asked(start)
  /\ ts' = Asked(ts) /\ end' = Asked(end)
  /\ UNCHANGED <<world, items>>

Next == (\E rec \in Recs, form \in Forms : Request(rec, form)) \/ Step \/ Finish

Spec == Init /\ [][Next]_vars

\* The loop of a handler that has the processor goes on.
FairSpec == Spec /\ WF_vars(Step \/ Finish)

-----------------------------------------------------------------------------
(* What is promised.                                                         *)

\* server.hpp:210: every item lies strictly behind the start and no further
\* than the end, in the order of time, so that the checks behind the loop never
\* refuse a history that on_his_read made; on any machine, started at any hour.
InsideRange ==
  /\ phase \notin {"startNotMet", "endNotMet"}
  /\ \A i \in 1..Len(items) :
       /\ Millis(start) < Millis(items[i]) /\ Millis(items[i]) <= Millis(end)
       /\ \A j \in 1..Len(items) : i < j => Millis(items[i]) < Millis(items[j])

\* An instant that a DateTime keeps is the one it would compute again, through
\* all the copies made of it on the way into the answer.
KeepsMillis(x) == x.millis > 0 => x.millis = Computed(x)

KeptMillis ==
  /\ KeepsMillis(start) /\ KeepsMillis(end) /\ KeepsMillis(ts)
  /\ \A i \in 1..Len(items) : KeepsMillis(items[i])

\* The zone of the machine as its own clock shows it: not east of Greenwich by
\* what the process saw at its start, and without summer time in the range.
Plain == /\ DefaultOffset <= 0 /\ ~pie
         /\ machine.summer \intersect Millis(start)..Millis(end) = {}

\* On a plain machine every quarter of an hour between the start and the end
\* is an item, and no other instant is one but the end; and if the process also
\* saw the offset that the machine has, each is printed with an offset that
\* makes it that instant.
QuarterHours ==
  phase = "answered" =>
    /\ Plain =>
         LET at == {Millis(items[i]) : i \in 1..Len(items)}
         IN  /\ \A t \in Millis(start)..Millis(end) :
                  Millis(start) < t /\ t < Millis(end) => t \in at
             /\ \A t \in at : Millis(start) < t /\ t <= Millis(end)
    /\ Plain /\ DefaultOffset = machine.std =>
         \A i \in 1..Len(items) : items[i].fields - items[i].offset = Millis(items[i])

\* A history read ends, on every machine.
HistoryEnds == phase = "read" ~> phase = "answered"
=============================================================================
