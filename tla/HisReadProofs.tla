--------------------------- MODULE HisReadProofs ----------------------------
(***************************************************************************)
(* That a history lies within its range, that every DateTime keeps the     *)
(* instant it stands for, and which instants a history has, for any        *)
(* machines, instants, records and ranges.                                 *)
(*                                                                         *)
(* All instants are computed by one formula, and the timestamp that the    *)
(* loop goes on from is later than the last one: what DateTime::make and   *)
(* millis add to it is never negative, as the offset of the machine comes  *)
(* in twice, once with its sign and once without.  On a plain machine it   *)
(* is nothing at all, so that the loop answers every quarter of an hour.   *)
(***************************************************************************)
EXTENDS HisRead, TLAPS

ZoneNames == {rec.tz : rec \in Recs} \union {GMT(hours) : hours \in Int}
Times ==
  [fields : Int, zone : [name : ZoneNames, offset : Int], offset : Int, millis : Int]

\* A DateTime that was copied last: its offset is that of its zone, and the
\* instant it keeps, if any, is the one it would compute.
Sound(x) == x \in Times /\ x.offset = x.zone.offset /\ KeepsMillis(x)

WorldTypeOK ==
  machine \in Machines /\ started \in Instants /\ now \in Instants /\ pie \in BOOLEAN

ReadTypeOK(how, first, last, at, its) ==
  /\ how \in {"idle", "refused", "read", "answered"}
  /\ Sound(first) /\ Sound(last) /\ Sound(at)
  /\ its \in Seq(Times)
  /\ \A i \in 1..Len(its) : Sound(its[i])

\* The items are in order and inside the range.
InOrder(first, last, its) ==
  \A i \in 1..Len(its) :
    /\ Computed(first) < Computed(its[i]) /\ Computed(its[i]) < Computed(last)
    /\ \A j \in 1..Len(its) : i < j => Computed(its[i]) < Computed(its[j])

\* The loop stands at the start of the range or behind it, and behind every
\* item it has made.
LoopStands(how, first, at, its) ==
  /\ how = "idle" => its = <<>>
  /\ how = "read" =>
       /\ Computed(first) >= 0
       /\ at = first \/ Computed(at) > Computed(first)
       /\ \A i \in 1..Len(its) : Computed(its[i]) < Computed(at)

Inside(how, first, last, at, its) ==
  /\ ReadTypeOK(how, first, last, at, its)
  /\ InOrder(first, last, its)
  /\ LoopStands(how, first, at, its)

Inv == WorldTypeOK /\ Inside(phase, start, end, ts, items)
-----------------------------------------------------------------------------
(* The clock and the offset of the machine. *)
LEMMA ClockTypes ==
    ASSUME WorldTypeOK
    PROVE  /\ machine.std \in Int /\ machine.std <= PerDay /\ machine.std >= -PerDay
           /\ \A t \in Int : Dst(t) \in {0, Hour} /\ Local(t) \in Int
           /\ DefaultHours \in Int /\ DefaultOffset \in Int
           /\ DefaultOffset >= -92 /\ DefaultOffset <= 92
<1>1. machine.std \in -PerDay..PerDay /\ started \in Int
    BY MachinesAssumption, InstantsAssumption DEF WorldTypeOK
<1>2. \A t \in Int : Dst(t) \in {0, Hour}
    BY DEF Dst
<1>3. \A t \in Int : Local(t) \in Int
    BY <1>1, <1>2 DEF Local, Hour, PerDay
<1>4. \A t \in Int : HourOf(t) \in 0..23
    BY DEF HourOf, Hour
<1>5. DefaultHours \in -23..23
    BY <1>1, <1>3, <1>4 DEF DefaultHours
<1> QED
    BY <1>1, <1>2, <1>3, <1>5 DEF DefaultOffset, Hour, PerDay

(* A day that is named or is the machine's own begins after the epoch by more *)
(* than any two offsets.                                                      *)
LEMMA TodayIsLate ==
    ASSUME WorldTypeOK
    PROVE  Today \in Int /\ Today >= 4
<1>1. now \in Int /\ now >= 5 * PerDay
    BY InstantsAssumption DEF WorldTypeOK
<1>2. Local(now) \in Int /\ Local(now) >= 4 * 96
    BY <1>1, ClockTypes DEF Local, PerDay, Hour
<1>3. \A t \in Int : t >= 4 * 96 => t \div 96 \in Int /\ t \div 96 >= 4
    OBVIOUS
<1> QED
    BY <1>2, <1>3 DEF Today, DateOf, PerDay, Hour

(* The formula of millis. *)
LEMMA ComputedType ==
    ASSUME WorldTypeOK, NEW x \in Times
    PROVE  /\ Computed(x) \in Int
           /\ Computed(x) = x.fields + DefaultOffset - machine.std + Abs(x.offset)
           /\ Abs(x.offset) \in Nat
<1>1. x.fields \in Int /\ x.offset \in Int
    BY DEF Times
<1> QED
    BY <1>1, ClockTypes DEF Computed, Abs

(* millis is the formula, whether the instant was kept or not, and a value   *)
(* that keeps it is as sound as it was.                                      *)
LEMMA MillisOfSound ==
    ASSUME WorldTypeOK, NEW x, Sound(x)
    PROVE  /\ Millis(x) = Computed(x)
           /\ Sound(Asked(x)) /\ Computed(Asked(x)) = Computed(x)
           /\ Copy(Asked(x)) = Asked(x) /\ Copy(x) = x
<1>1. x \in Times /\ x.offset = x.zone.offset /\ KeepsMillis(x)
    BY DEF Sound
<1>2. Computed(x) \in Int
    BY <1>1, ComputedType
<1>3. Millis(x) = Computed(x)
    BY <1>1 DEF Millis, KeepsMillis
<1>4. Asked(x) = [fields |-> x.fields, zone |-> x.zone, offset |-> x.offset,
                  millis |-> Computed(x)]
    BY <1>3 DEF Asked, DateTime
<1>5. Asked(x) \in Times
    BY <1>1, <1>2, <1>4 DEF Times
<1>6. Computed(Asked(x)) = Computed(x)
    BY <1>4 DEF Computed
<1>7. Copy(Asked(x)) = Asked(x)
    BY <1>1, <1>4 DEF Copy, DateTime
<1>8. Copy(x) = x
    BY <1>1 DEF Copy, DateTime, Times
<1> QED
    BY <1>1, <1>3, <1>4, <1>5, <1>6, <1>7, <1>8 DEF Sound, KeepsMillis
-----------------------------------------------------------------------------
(* The copy of what make returns for an instant stands for that instant or a *)
(* later one.                                                                *)
LEMMA MadeIsNotEarlier ==
    ASSUME WorldTypeOK, NEW t \in Int, t >= 0
    PROVE  /\ Sound(Copy(Make(t, DEFAULT)))
           /\ Computed(Copy(Make(t, DEFAULT))) >= t
<1> DEFINE u == IF pie THEN 1000 * t ELSE t
           y == Copy(Make(t, DEFAULT))
<1>1. u \in Int /\ u >= t
    OBVIOUS
<1>2. Make(t, DEFAULT) = DateTime(Local(u), DEFAULT, DEFAULT.offset + Dst(u), Unasked)
    BY DEF Make, MakeTimeT
<1>3. y = [fields |-> Local(u), zone |-> DEFAULT, offset |-> DefaultOffset, millis |-> -1]
    BY <1>2 DEF Copy, DateTime, DEFAULT, Zone, Unasked
<1>4. Local(u) \in Int /\ Dst(u) >= 0 /\ Dst(u) \in Int /\ DefaultOffset \in Int
      /\ DefaultHours \in Int /\ machine.std \in Int
    BY <1>1, ClockTypes DEF Hour
<1>5. DEFAULT = [name |-> GMT(DefaultHours), offset |-> DefaultOffset]
    BY DEF DEFAULT, Zone
<1>6. DEFAULT \in [name : ZoneNames, offset : Int]
    BY <1>4, <1>5 DEF ZoneNames
<1>7. y \in Times
    BY <1>3, <1>4, <1>6 DEF Times
<1>8. Sound(y)
    BY <1>3, <1>5, <1>7 DEF Sound, KeepsMillis
<1>9. Computed(y) = u + machine.std + Dst(u) + DefaultOffset - machine.std + Abs(DefaultOffset)
    BY <1>3 DEF Computed, Local
<1>10. DefaultOffset + Abs(DefaultOffset) >= 0 /\ Abs(DefaultOffset) \in Int
    BY <1>4 DEF Abs
<1> HIDE DEF u, y
<1>11. Computed(y) >= t
    BY <1>1, <1>4, <1>9, <1>10
<1> QED
    BY <1>8, <1>11 DEF y

(* A range between two times in the zone of a record, the first of them far  *)
(* enough behind the epoch.                                                  *)
LEMMA BetweenSound ==
    ASSUME WorldTypeOK, NEW rec \in Recs, NEW first, NEW last,
           first.zone = Zone(rec.tz, 0), last.zone = Zone(rec.tz, 0),
           first.millis = Unasked, last.millis = Unasked,
           first.fields \in Int, last.fields \in Int, first.fields >= 3 * PerDay
    PROVE  /\ Sound(Copy(first)) /\ Sound(Copy(last))
           /\ Computed(Copy(first)) >= 0
<1> DEFINE tz == Zone(rec.tz, 0)
<1>1. tz = [name |-> rec.tz, offset |-> 0] /\ tz \in [name : ZoneNames, offset : Int]
    BY DEF Zone, ZoneNames
<1>2. \A x : x.zone = tz /\ x.millis = Unasked /\ x.fields \in Int
             => /\ Copy(x) = [fields |-> x.fields, zone |-> tz, offset |-> 0, millis |-> -1]
                /\ Copy(x) \in Times
    BY <1>1 DEF Copy, DateTime, Unasked, Times
<1>3. \A x : x.zone = tz /\ x.millis = Unasked /\ x.fields \in Int => Sound(Copy(x))
    BY <1>1, <1>2 DEF Sound, KeepsMillis
<1>4. Computed(Copy(first)) = first.fields + DefaultOffset - machine.std
    <2>1. Abs(0) = 0
        BY DEF Abs
    <2> QED
        BY <1>2, <2>1, ClockTypes DEF Computed
<1>5. Computed(Copy(first)) >= 0
    BY <1>4, ClockTypes DEF PerDay, Hour
<1> QED
    BY <1>3, <1>5

(* A range that is granted has sound ends in the zone of the record, and     *)
(* begins after the epoch.                                                   *)
LEMMA GrantedRange ==
    ASSUME WorldTypeOK, NEW rec \in Recs, NEW form \in Forms, NEW tz, NEW range,
           form.kind # "garbage",
           tz = Zone(rec.tz, 0), range = MakeRange(form, tz),
           range.ok, range.start.zone = tz
    PROVE  Sound(range.start) /\ Sound(range.end) /\ Computed(range.start) >= 0
<1>1. \A first, last : range = Between(first, last) =>
          /\ first.zone = tz /\ last.zone = tz
          /\ range.start = Copy(first) /\ range.end = Copy(last)
    <2> SUFFICES ASSUME NEW first, NEW last, range = Between(first, last)
                 PROVE  /\ first.zone = tz /\ last.zone = tz
                        /\ range.start = Copy(first) /\ range.end = Copy(last)
        OBVIOUS
    <2>1. /\ range.ok = (first.zone = last.zone)
          /\ range.start = Copy(first) /\ range.end = Copy(last)
        BY DEF Between
    <2>2. Copy(first).zone = first.zone
        BY DEF Copy, DateTime
    <2> QED
        BY <2>1, <2>2
<1>2. \A first, last :
          /\ range = Between(first, last)
          /\ first.millis = Unasked /\ last.millis = Unasked
          /\ first.fields \in Int /\ last.fields \in Int /\ first.fields >= 3 * PerDay
          => Sound(range.start) /\ Sound(range.end) /\ Computed(range.start) >= 0
    <2> QED
        BY <1>1, BetweenSound
<1>3. \A first, last \in Int : first >= 3 /\ range = Days(first, last, tz)
          => Sound(range.start) /\ Sound(range.end) /\ Computed(range.start) >= 0
    <2> SUFFICES ASSUME NEW first \in Int, NEW last \in Int,
                        first >= 3, range = Days(first, last, tz)
                 PROVE  Sound(range.start) /\ Sound(range.end) /\ Computed(range.start) >= 0
        OBVIOUS
    <2>1. range = Between(Midnight(first, tz), Midnight(last + 1, tz))
        BY DEF Days
    <2>2. \A date \in Int : /\ Midnight(date, tz).millis = Unasked
                            /\ Midnight(date, tz).fields = PerDay * date
        BY DEF Midnight, DateTime
    <2>3. \A date \in Int : PerDay * date \in Int /\ (date >= 3 => PerDay * date >= 3 * PerDay)
        BY DEF PerDay, Hour
    <2> QED
        BY <1>2, <2>1, <2>2, <2>3
<1>4. /\ form.kind \in {"today", "yesterday", "date", "dates", "from", "times", "garbage"}
      /\ form.first \in Int /\ form.last \in Int
      /\ form.kind \in {"date", "dates"} => form.first >= 5
      /\ form.kind \in {"from", "times"} => form.first >= 5 * PerDay
    BY FormsAssumption
<1>5. \A fields, name : /\ ReadTime(fields, name).millis = Unasked
                        /\ ReadTime(fields, name).fields = fields
    BY DEF ReadTime, DateTime
<1>6. MakeTimeT(now, tz).millis = Unasked /\ MakeTimeT(now, tz).fields \in Int
    <2>1. now \in Int
        BY InstantsAssumption DEF WorldTypeOK
    <2>2. Local(now) \in Int
        BY <2>1, ClockTypes
    <2>3. tz.offset = 0
        BY DEF Zone
    <2> QED
        BY <2>1, <2>2, <2>3 DEF MakeTimeT, DateTime
<1>7. CASE form.kind = "today"
    <2>1. range = Days(Today, Today, tz)
        BY <1>7 DEF MakeRange
    <2> QED
        BY <2>1, <1>3, TodayIsLate
<1>8. CASE form.kind = "yesterday"
    <2>1. range = Days(Today - 1, Today - 1, tz)
        BY <1>8 DEF MakeRange
    <2> QED
        BY <2>1, <1>3, TodayIsLate
<1>9. CASE form.kind = "date"
    <2>1. range = Days(form.first, form.first, tz)
        BY <1>9 DEF MakeRange
    <2> QED
        BY <2>1, <1>3, <1>4, <1>9
<1>10. CASE form.kind = "dates"
    <2>1. range = Days(form.first, form.last, tz)
        BY <1>10 DEF MakeRange
    <2> QED
        BY <2>1, <1>3, <1>4, <1>10
<1>11. CASE form.kind = "from"
    <2>1. range = Between(ReadTime(form.first, form.zone), MakeTimeT(now, tz))
        BY <1>11 DEF MakeRange
    <2>2. form.first >= 3 * PerDay
        BY <1>4, <1>11 DEF PerDay, Hour
    <2> QED
        BY <2>1, <2>2, <1>2, <1>4, <1>5, <1>6
<1>12. CASE form.kind = "times"
    <2>1. range = Between(ReadTime(form.first, form.zone), ReadTime(form.last, form.lastZone))
        BY <1>12 DEF MakeRange
    <2>2. form.first >= 3 * PerDay
        BY <1>4, <1>12 DEF PerDay, Hour
    <2> QED
        BY <2>1, <2>2, <1>2, <1>4, <1>5
<1> QED
    BY <1>4, <1>7, <1>8, <1>9, <1>10, <1>11, <1>12
-----------------------------------------------------------------------------
(* While the world stands still, what is to be shown of the next state can   *)
(* be shown of its values now.                                               *)
LEMMA WorldKept ==
    ASSUME UNCHANGED world, WorldTypeOK,
           Inside(phase', start', end', ts', items')
    PROVE  Inv'
<1>1. UNCHANGED <<machine, started, now, pie>>
    BY DEF world
<1>2. WorldTypeOK'
    BY <1>1 DEF WorldTypeOK
<1>3. Inside(phase, start, end, ts, items)'
    BY <1>1 DEF Inside, ReadTypeOK, InOrder, LoopStands, Sound, KeepsMillis, Computed,
                DefaultOffset, DefaultHours, HourOf, Local, Dst
<1> QED
    BY <1>2, <1>3 DEF Inv

LEMMA InitInv == Init => Inv
<1> SUFFICES ASSUME Init PROVE Inv
    OBVIOUS
<1>1. WorldTypeOK
    BY DEF Init, WorldTypeOK
<1>2. Nothing = [fields |-> 0, zone |-> [name |-> GMT(0), offset |-> 0], offset |-> 0,
                 millis |-> -1]
    BY DEF Nothing, DateTime, Zone, Unasked
<1>3. GMT(0) \in ZoneNames
    BY DEF ZoneNames
<1>4. Sound(Nothing)
    BY <1>2, <1>3 DEF Sound, Times, KeepsMillis
<1> QED
    BY <1>1, <1>4 DEF Init, Inv, Inside, ReadTypeOK, InOrder, LoopStands

LEMMA RequestInv ==
    ASSUME Inv, NEW rec \in Recs, NEW form \in Forms, Request(rec, form)
    PROVE  Inv'
<1> DEFINE tz == Zone(rec.tz, 0)
           range == MakeRange(form, tz)
<1>1. /\ WorldTypeOK /\ UNCHANGED world /\ UNCHANGED items
      /\ phase = "idle" /\ items = <<>>
    BY DEF Inv, Inside, LoopStands, Request
<1>2. CASE phase' = "refused" /\ UNCHANGED <<start, end, ts>>
    BY <1>1, <1>2, WorldKept DEF Inv, Inside, ReadTypeOK, InOrder, LoopStands
<1>3. CASE /\ Formed(form) /\ range.ok /\ range.start.zone = tz
           /\ phase' = "read" /\ start' = range.start /\ end' = range.end
           /\ ts' = Copy(range.start)
    <2>1. Sound(range.start) /\ Sound(range.end) /\ Computed(range.start) >= 0
        BY <1>1, <1>3, GrantedRange DEF Formed
    <2>2. Copy(range.start) = range.start
        BY <1>1, <2>1, MillisOfSound
    <2>3. Computed(range.start) \in Int
        BY <1>1, <2>1, ComputedType DEF Sound
    <2> HIDE DEF range
    <2>4. Inside("read", range.start, range.end, range.start, <<>>)
        BY <2>1, <2>3 DEF Inside, ReadTypeOK, InOrder, LoopStands
    <2> QED
        BY <1>1, <1>3, <2>2, <2>4, WorldKept
<1> QED
    BY <1>2, <1>3 DEF Request

(* One round of the loop: the timestamp becomes an item unless it is the     *)
(* start, and the next one is later.                                         *)
LEMMA StepInv ==
    ASSUME Inv, Step
    PROVE  Inv'
<1>1. /\ WorldTypeOK /\ UNCHANGED world /\ UNCHANGED <<phase, start>>
      /\ phase = "read" /\ Millis(ts) < Millis(end) /\ end' = Asked(end)
      /\ items' = IF SameTime(ts, start) THEN items ELSE Append(items, Copy(Asked(ts)))
      /\ ts' = Copy(Make(Millis(ts) + 1, DEFAULT))
    BY DEF Inv, Step, Going
<1>2. /\ Sound(start) /\ Sound(end) /\ Sound(ts) /\ items \in Seq(Times)
      /\ \A i \in 1..Len(items) : Sound(items[i])
      /\ Computed(start) >= 0 /\ (ts = start \/ Computed(ts) > Computed(start))
      /\ \A i \in 1..Len(items) : Computed(items[i]) < Computed(ts)
      /\ InOrder(start, end, items)
    BY <1>1 DEF Inv, Inside, ReadTypeOK, LoopStands
<1>3. \A x : Sound(x) => Computed(x) \in Int
    BY <1>1, ComputedType DEF Sound
<1>4. /\ Millis(ts) = Computed(ts) /\ Millis(end) = Computed(end)
      /\ Sound(Asked(end)) /\ Computed(Asked(end)) = Computed(end)
      /\ Sound(Asked(ts)) /\ Copy(Asked(ts)) = Asked(ts) /\ Computed(Asked(ts)) = Computed(ts)
    BY <1>1, <1>2, MillisOfSound
<1>5. Sound(ts') /\ Computed(ts') >= Computed(ts) + 1
    BY <1>1, <1>2, <1>3, <1>4, MadeIsNotEarlier
<1>6. Sound(end') /\ Computed(end') = Computed(end)
    BY <1>1, <1>4
<1>7. CASE SameTime(ts, start)
    <2>1. items' = items
        BY <1>1, <1>7
    <2>2. ReadTypeOK(phase', start', end', ts', items')
        BY <1>1, <1>2, <1>5, <1>6, <2>1 DEF ReadTypeOK
    <2>3. InOrder(start', end', items')
        BY <1>1, <1>2, <1>6, <2>1 DEF InOrder
    <2>4. Computed(ts') > Computed(start) /\ Computed(ts') > Computed(ts)
        BY <1>2, <1>3, <1>5
    <2>5. LoopStands(phase', start', ts', items')
        BY <1>1, <1>2, <1>3, <1>5, <2>1, <2>4 DEF LoopStands
    <2> QED
        BY <1>1, <2>2, <2>3, <2>5, WorldKept DEF Inside
<1>8. CASE ~SameTime(ts, start)
    <2>1. items' = Append(items, Asked(ts)) /\ Computed(ts) > Computed(start)
        BY <1>1, <1>2, <1>4, <1>8 DEF SameTime
    <2>2. Asked(ts) \in Times /\ Len(items) \in Nat
        BY <1>2, <1>4 DEF Sound
    <2>3. /\ items' \in Seq(Times) /\ Len(items') = Len(items) + 1
          /\ \A i \in 1..Len(items) : items'[i] = items[i]
          /\ items'[Len(items) + 1] = Asked(ts)
        BY <1>2, <2>1, <2>2
    <2>4. \A i \in 1..Len(items') : i \in 1..Len(items) \/ i = Len(items) + 1
        BY <2>2, <2>3
    <2>5. ReadTypeOK(phase', start', end', ts', items')
        BY <1>1, <1>2, <1>4, <1>5, <1>6, <2>3, <2>4 DEF ReadTypeOK
    <2>6. \A i \in 1..Len(items') :
             /\ Computed(start) < Computed(items'[i]) /\ Computed(items'[i]) < Computed(end)
             /\ Computed(items'[i]) <= Computed(ts)
        <3> SUFFICES ASSUME NEW i \in 1..Len(items')
                     PROVE  /\ Computed(start) < Computed(items'[i])
                            /\ Computed(items'[i]) < Computed(end)
                            /\ Computed(items'[i]) <= Computed(ts)
            OBVIOUS
        <3>1. CASE i \in 1..Len(items)
            BY <1>2, <1>3, <2>3, <3>1 DEF InOrder
        <3>2. CASE i = Len(items) + 1
            BY <1>1, <1>2, <1>3, <1>4, <2>1, <2>3, <3>2
        <3> QED
            BY <2>4, <3>1, <3>2
    <2>7. \A i, j \in 1..Len(items') : i < j => Computed(items'[i]) < Computed(items'[j])
        <3> SUFFICES ASSUME NEW i \in 1..Len(items'), NEW j \in 1..Len(items'), i < j
                     PROVE  Computed(items'[i]) < Computed(items'[j])
            OBVIOUS
        <3>1. i \in 1..Len(items)
            BY <2>2, <2>3
        <3>2. CASE j \in 1..Len(items)
            BY <1>2, <2>3, <3>1, <3>2 DEF InOrder
        <3>3. CASE j = Len(items) + 1
            BY <1>2, <1>4, <2>3, <3>1, <3>3
        <3> QED
            BY <2>4, <3>2, <3>3
    <2>8. InOrder(start', end', items')
        BY <1>1, <1>6, <2>6, <2>7 DEF InOrder
    <2>9. Computed(ts') > Computed(start) /\ Computed(ts') > Computed(ts)
        BY <1>2, <1>3, <1>5
    <2>10. \A i \in 1..Len(items') : Computed(items'[i]) < Computed(ts')
        <3> SUFFICES ASSUME NEW i \in 1..Len(items')
                     PROVE  Computed(items'[i]) < Computed(ts')
            OBVIOUS
        <3>1. Computed(items'[i]) \in Int
            BY <1>3, <2>5 DEF ReadTypeOK
        <3> QED
            BY <1>2, <1>3, <1>5, <2>6, <2>9, <3>1
    <2>11. LoopStands(phase', start', ts', items')
        BY <1>1, <1>2, <2>9, <2>10 DEF LoopStands
    <2> QED
        BY <1>1, <2>5, <2>8, <2>11, WorldKept DEF Inside
<1> QED
    BY <1>7, <1>8

(* The checks behind the loop find nothing to refuse. *)
LEMMA FinishInv ==
    ASSUME Inv, Finish
    PROVE  Inv'
<1>1. /\ WorldTypeOK /\ UNCHANGED world /\ UNCHANGED items
      /\ Sound(start) /\ Sound(end) /\ Sound(ts) /\ items \in Seq(Times)
      /\ \A i \in 1..Len(items) : Sound(items[i])
      /\ InOrder(start, end, items)
    BY DEF Inv, Inside, ReadTypeOK, Finish
<1>2. \A x : Sound(x) => /\ Computed(x) \in Int /\ Millis(x) = Computed(x)
                         /\ Sound(Asked(x)) /\ Computed(Asked(x)) = Computed(x)
    BY <1>1, ComputedType, MillisOfSound DEF Sound
<1>3. start' \in {start, Asked(start)} /\ end' = Asked(end) /\ ts' = Asked(ts)
    BY DEF Finish
<1>4. /\ Sound(start') /\ Sound(end') /\ Sound(ts')
      /\ Computed(start') = Computed(start) /\ Computed(end') = Computed(end)
    BY <1>1, <1>2, <1>3
<1>5. phase' = "answered"
    <2>1. CASE items = <<>>
        BY <2>1 DEF Finish
    <2>2. CASE items # <<>>
        <3>1. 1 \in 1..Len(items) /\ Len(items) \in 1..Len(items)
            BY <1>1, <2>2
        <3>2. ~(Millis(start) >= Millis(items[1]))
            BY <1>1, <1>2, <3>1 DEF InOrder
        <3>3. ~(Millis(end) < Millis(items[Len(items)]))
            BY <1>1, <1>2, <3>1 DEF InOrder
        <3> QED
            BY <2>2, <3>2, <3>3 DEF Finish
    <2> QED
        BY <2>1, <2>2
<1>6. Inside(phase', start', end', ts', items')
    BY <1>1, <1>4, <1>5 DEF Inside, ReadTypeOK, InOrder, LoopStands
<1> QED
    BY <1>1, <1>6, WorldKept

LEMMA NextInv == Inv /\ [Next]_vars => Inv'
<1> SUFFICES ASSUME Inv, [Next]_vars PROVE Inv'
    OBVIOUS
<1>1. CASE UNCHANGED vars
    BY <1>1, WorldKept DEF vars, Inv
<1> QED
    BY <1>1, RequestInv, StepInv, FinishInv DEF Next

(* What the invariant says of a state. *)
LEMMA InvMeans == Inv => InsideRange /\ KeptMillis
<1> SUFFICES ASSUME Inv PROVE InsideRange /\ KeptMillis
    OBVIOUS
<1>1. /\ WorldTypeOK /\ phase \notin {"startNotMet", "endNotMet"}
      /\ Sound(start) /\ Sound(end) /\ Sound(ts)
      /\ \A i \in 1..Len(items) : Sound(items[i])
      /\ InOrder(start, end, items)
    BY DEF Inv, Inside, ReadTypeOK
<1>2. \A x : Sound(x) => Millis(x) = Computed(x)
    BY <1>1, MillisOfSound
<1>3. InsideRange
    <2>1. \A x : Sound(x) => Millis(x) \in Int
        BY <1>1, <1>2, ComputedType DEF Sound
    <2> QED
        BY <1>1, <1>2, <2>1 DEF InsideRange, InOrder
<1>4. KeptMillis
    BY <1>1 DEF KeptMillis, Sound
<1> QED
    BY <1>3, <1>4
-----------------------------------------------------------------------------
(* server.hpp:210: the items of a history lie behind the start of the range  *)
(* and no further than its end, in the order of time, and the checks behind  *)
(* on_his_read never refuse them; on any machine, whenever the process       *)
(* started, for any range and any record.                                    *)
THEOREM ItemsLieInside == Spec => []InsideRange
<1>1. Inv => InsideRange
    BY InvMeans
<1> QED
    BY InitInv, NextInv, <1>1, PTL DEF Spec

(* Whatever copies are made of a DateTime on the way through a history read, *)
(* the instant it keeps is the one it would compute from its fields.         *)
THEOREM InstantsStayTrue == Spec => []KeptMillis
<1>1. Inv => KeptMillis
    BY InvMeans
<1> QED
    BY InitInv, NextInv, <1>1, PTL DEF Spec
-----------------------------------------------------------------------------
(* Which quarters of an hour the loop has answered. *)

PlainFor(first, last) ==
  /\ DefaultOffset <= 0 /\ ~pie
  /\ \A t \in machine.summer : ~(Computed(first) <= t /\ t <= Computed(last))

\* Every quarter of an hour between the start and some instant is an item.
Covered(first, upTo, its) ==
  \A t \in Int : Computed(first) < t /\ t < upTo
                   => \E i \in 1..Len(its) : Computed(its[i]) = t

\* The offset of what the loop has made is the machine's.  On a plain machine
\* the loop has answered all up to where it stands, at most the end.
Quarters(how, first, last, at, its) ==
  /\ \A i \in 1..Len(its) : its[i].offset = DefaultOffset
  /\ how = "read" =>
       /\ at = first \/ at.offset = DefaultOffset
       /\ PlainFor(first, last) =>
            /\ Covered(first, Computed(at), its)
            /\ at = first \/ Computed(at) <= Computed(last)
  /\ how = "answered" /\ PlainFor(first, last) => Covered(first, Computed(last), its)

QuarterInv == Inv /\ Quarters(phase, start, end, ts, items)

(* What make returns for an instant, to the quarter of an hour. *)
LEMMA MadeInstant ==
    ASSUME WorldTypeOK, NEW t \in Int, t >= 0
    PROVE  /\ Copy(Make(t, DEFAULT)).offset = DefaultOffset
           /\ DefaultOffset <= 0 /\ ~pie /\ t \notin machine.summer
                => Computed(Copy(Make(t, DEFAULT))) = t
<1> DEFINE u == IF pie THEN 1000 * t ELSE t
           y == Copy(Make(t, DEFAULT))
<1>1. u \in Int /\ (pie => u = 1000 * t) /\ (~pie => u = t)
    OBVIOUS
<1>2. Make(t, DEFAULT) = DateTime(Local(u), DEFAULT, DEFAULT.offset + Dst(u), Unasked)
    BY DEF Make, MakeTimeT
<1>3. y = [fields |-> Local(u), zone |-> DEFAULT, offset |-> DefaultOffset, millis |-> -1]
    BY <1>2 DEF Copy, DateTime, DEFAULT, Zone, Unasked
<1>4. Dst(u) >= 0 /\ Dst(u) \in Int /\ DefaultOffset \in Int /\ machine.std \in Int
    BY <1>1, ClockTypes DEF Hour
<1>5. Computed(y) = u + machine.std + Dst(u) + DefaultOffset - machine.std + Abs(DefaultOffset)
    BY <1>3 DEF Computed, Local
<1>6. /\ DefaultOffset + Abs(DefaultOffset) >= 0 /\ Abs(DefaultOffset) \in Int
      /\ DefaultOffset <= 0 => DefaultOffset + Abs(DefaultOffset) = 0
    BY <1>4 DEF Abs
<1>7. u \notin machine.summer => Dst(u) = 0
    BY DEF Dst
<1>8. y.offset = DefaultOffset
    BY <1>3
<1> HIDE DEF u, y
<1>10. DefaultOffset <= 0 /\ u \notin machine.summer => Computed(y) = u
    BY <1>1, <1>4, <1>5, <1>6, <1>7
<1>11. DefaultOffset <= 0 /\ ~pie /\ t \notin machine.summer => Computed(y) = t
    BY <1>1, <1>10
<1> QED
    BY <1>8, <1>11 DEF y

(* As WorldKept. *)
LEMMA QuartersKept ==
    ASSUME UNCHANGED world, Quarters(phase', start', end', ts', items')
    PROVE  Quarters(phase, start, end, ts, items)'
<1>1. UNCHANGED <<machine, started, now, pie>>
    BY DEF world
<1> QED
    BY <1>1 DEF Quarters, PlainFor, Covered, Computed, DefaultOffset, DefaultHours,
                HourOf, Local, Dst

LEMMA QuartersRequest ==
    ASSUME QuarterInv, NEW rec \in Recs, NEW form \in Forms, Request(rec, form)
    PROVE  Quarters(phase', start', end', ts', items')
<1> DEFINE tz == Zone(rec.tz, 0)
           range == MakeRange(form, tz)
<1>1. /\ WorldTypeOK /\ items' = <<>>
    BY DEF QuarterInv, Inv, Inside, LoopStands, Request
<1>2. CASE phase' = "refused"
    BY <1>1, <1>2 DEF Quarters
<1>3. CASE /\ Formed(form) /\ range.ok /\ range.start.zone = tz
           /\ phase' = "read" /\ start' = range.start /\ end' = range.end
           /\ ts' = Copy(range.start)
    <2>1. Sound(range.start) /\ Sound(range.end)
        BY <1>1, <1>3, GrantedRange DEF Formed
    <2>2. Copy(range.start) = range.start
        BY <1>1, <2>1, MillisOfSound
    <2>3. Computed(range.start) \in Int
        BY <1>1, <2>1, ComputedType DEF Sound
    <2> HIDE DEF range
    <2>6. Covered(start', Computed(ts'), <<>>)
        BY <1>3, <2>2, <2>3 DEF Covered
    <2> QED
        BY <1>1, <1>3, <2>2, <2>6 DEF Quarters
<1> QED
    BY <1>2, <1>3 DEF Request

(* One round answers the quarter of an hour that it is at, and goes on to    *)
(* the next on a plain machine, or past the end.                             *)
LEMMA QuartersStep ==
    ASSUME QuarterInv, Step
    PROVE  Quarters(phase', start', end', ts', items')
<1>1. /\ WorldTypeOK /\ start' = start /\ end' = Asked(end)
      /\ phase = "read" /\ phase' = "read" /\ Millis(ts) < Millis(end)
      /\ items' = IF SameTime(ts, start) THEN items ELSE Append(items, Copy(Asked(ts)))
      /\ ts' = Copy(Make(Millis(ts) + 1, DEFAULT))
    BY DEF QuarterInv, Inv, Step, Going
<1>2. /\ Sound(start) /\ Sound(end) /\ Sound(ts) /\ items \in Seq(Times)
      /\ Computed(start) >= 0 /\ (ts = start \/ Computed(ts) > Computed(start))
      /\ InOrder(start, end, items)
    BY <1>1 DEF QuarterInv, Inv, Inside, ReadTypeOK, LoopStands
<1>3. PICK s \in Int, e \in Int, t \in Int :
          s = Computed(start) /\ e = Computed(end) /\ t = Computed(ts)
    BY <1>1, <1>2, ComputedType DEF Sound
<1>4. /\ Millis(ts) = t /\ Millis(end) = e /\ Computed(Asked(end)) = e
      /\ Copy(Asked(ts)) = Asked(ts) /\ Computed(Asked(ts)) = t
      /\ Asked(ts) \in Times /\ Asked(ts).offset = ts.offset
    BY <1>1, <1>2, <1>3, MillisOfSound DEF Sound, Asked, DateTime
<1>5. t < e /\ s >= 0 /\ (ts = start \/ t > s) /\ t >= s
    BY <1>1, <1>2, <1>3, <1>4
<1>6. Quarters("read", start, end, ts, items)
    BY <1>1 DEF QuarterInv
<1>7. SameTime(ts, start) <=> ts = start
    <2>1. SameTime(ts, start) => Computed(ts) = Computed(start)
        BY DEF SameTime, Computed
    <2>2. ts = start => SameTime(ts, start)
        BY DEF SameTime
    <2> QED
        BY <1>3, <1>5, <2>1, <2>2
<1>8. PICK u \in Int : u = Computed(ts')
    <2>1. t + 1 \in Int /\ t + 1 >= 0
        BY <1>5
    <2>2. Sound(ts')
        BY <1>1, <1>4, <2>1, MadeIsNotEarlier
    <2> QED
        BY <1>1, <2>2, ComputedType DEF Sound
<1>9. /\ ts'.offset = DefaultOffset
      /\ DefaultOffset <= 0 /\ ~pie /\ t + 1 \notin machine.summer => u = t + 1
    <2>1. t + 1 \in Int /\ t + 1 >= 0
        BY <1>5
    <2> QED
        BY <1>1, <1>4, <1>8, <2>1, MadeInstant
<1>10. /\ Len(items) \in Nat
       /\ ts # start => /\ Len(items') = Len(items) + 1
                        /\ items'[Len(items) + 1] = Asked(ts)
       /\ ts = start => items' = items
       /\ \A i \in 1..Len(items) : i \in 1..Len(items') /\ items'[i] = items[i]
       /\ \A i \in 1..Len(items') : i \in 1..Len(items) \/ i = Len(items) + 1
    <2>1. CASE ts = start
        BY <1>1, <1>2, <1>7, <2>1
    <2>2. CASE ts # start
        BY <1>1, <1>2, <1>4, <1>7, <2>2
    <2> QED
        BY <2>1, <2>2
<1>11. \A i \in 1..Len(items') : items'[i].offset = DefaultOffset
    <2> SUFFICES ASSUME NEW i \in 1..Len(items') PROVE items'[i].offset = DefaultOffset
        OBVIOUS
    <2>1. CASE i \in 1..Len(items)
        BY <1>6, <1>10, <2>1 DEF Quarters
    <2>2. CASE i \notin 1..Len(items)
        <3>1. i = Len(items) + 1
            BY <1>10, <2>2
        <3>2. ts # start
            BY <1>10, <2>2
        <3>3. ts.offset = DefaultOffset
            BY <1>6, <3>2 DEF Quarters
        <3> QED
            BY <1>4, <1>10, <3>1, <3>2, <3>3
    <2> QED
        BY <2>1, <2>2
<1>14. ASSUME PlainFor(start, end)
       PROVE  Covered(start, u, items') /\ u <= e
    <2>1. t + 1 <= e /\ s <= t + 1
        BY <1>5
    <2>2. DefaultOffset <= 0 /\ ~pie /\ t + 1 \notin machine.summer
        BY <1>3, <1>14, <2>1 DEF PlainFor
    <2>3. u = t + 1
        BY <1>9, <2>2
    <2>4. ASSUME NEW r \in Int, s < r, r < u
          PROVE  \E i \in 1..Len(items') : Computed(items'[i]) = r
        <3>1. CASE r < t
            <4>1. PICK i \in 1..Len(items) : Computed(items[i]) = r
                BY <1>3, <1>6, <1>14, <2>4, <3>1 DEF Quarters, Covered
            <4> QED
                BY <1>10, <4>1
        <3>2. CASE r = t
            <4>1. ts # start
                BY <1>3, <2>4, <3>2
            <4>2. Len(items) + 1 \in 1..Len(items') /\ items'[Len(items) + 1] = Asked(ts)
                BY <1>10, <4>1
            <4> QED
                BY <1>4, <3>2, <4>2
        <3> QED
            BY <2>3, <2>4, <3>1, <3>2
    <2>5. Covered(start, u, items')
        BY <1>3, <2>4 DEF Covered
    <2> QED
        BY <2>1, <2>3, <2>5
<1>15. PlainFor(start, Asked(end)) <=> PlainFor(start, end)
    BY <1>3, <1>4 DEF PlainFor
<1> QED
    BY <1>1, <1>3, <1>4, <1>8, <1>9, <1>11, <1>14, <1>15 DEF Quarters

LEMMA QuartersFinish ==
    ASSUME QuarterInv, Finish
    PROVE  Quarters(phase', start', end', ts', items')
<1>1. /\ WorldTypeOK /\ items' = items /\ phase = "read" /\ ~(Millis(ts) < Millis(end))
      /\ start' \in {start, Asked(start)} /\ end' = Asked(end)
      /\ phase' \in {"answered", "startNotMet", "endNotMet"}
    BY DEF QuarterInv, Inv, Finish, Going
<1>2. Sound(start) /\ Sound(end) /\ Sound(ts)
    BY <1>1 DEF QuarterInv, Inv, Inside, ReadTypeOK
<1>3. \A x : Sound(x) => /\ Computed(x) \in Int /\ Millis(x) = Computed(x)
                         /\ Computed(Asked(x)) = Computed(x)
    BY <1>1, ComputedType, MillisOfSound DEF Sound
<1>4. Computed(start') = Computed(start) /\ Computed(end') = Computed(end)
    BY <1>1, <1>2, <1>3
<1>5. Computed(ts) >= Computed(end)
    BY <1>1, <1>2, <1>3
<1>6. Quarters("read", start, end, ts, items)
    BY <1>1 DEF QuarterInv
<1>7. PlainFor(start', end') <=> PlainFor(start, end)
    BY <1>4 DEF PlainFor
<1>8. PlainFor(start, end) => Covered(start, Computed(end), items)
    <2> SUFFICES ASSUME PlainFor(start, end), NEW t \in Int,
                        Computed(start) < t, t < Computed(end)
                 PROVE  \E i \in 1..Len(items) : Computed(items[i]) = t
        BY DEF Covered
    <2>1. t < Computed(ts)
        BY <1>2, <1>3, <1>5
    <2> QED
        BY <1>6, <2>1 DEF Quarters, Covered
<1>9. PlainFor(start', end') => Covered(start', Computed(end'), items')
    BY <1>1, <1>4, <1>7, <1>8 DEF Covered
<1> QED
    BY <1>1, <1>6, <1>9 DEF Quarters

LEMMA QuarterStarts == Init => QuarterInv
  BY InitInv DEF Init, QuarterInv, Quarters

LEMMA QuarterNext ==
    ASSUME QuarterInv, [Next]_vars
    PROVE  QuarterInv'
<1>1. Inv'
    BY NextInv DEF QuarterInv
<1>2. CASE UNCHANGED vars
    <2>1. Quarters(phase', start', end', ts', items') /\ UNCHANGED world
        BY <1>2 DEF QuarterInv, vars
    <2> QED
        BY <1>1, <2>1, QuartersKept DEF QuarterInv
<1>3. CASE Next
    <2>1. UNCHANGED world
        BY <1>3 DEF Next, Request, Step, Finish
    <2>2. Quarters(phase', start', end', ts', items')
        BY <1>3, QuartersRequest, QuartersStep, QuartersFinish DEF Next
    <2> QED
        BY <1>1, <2>1, <2>2, QuartersKept DEF QuarterInv
<1> QED
    BY <1>2, <1>3

(* server.hpp:210 and testproj.cpp:250: on a machine whose clock is plain a  *)
(* history has an item for every quarter of an hour inside the range, and no *)
(* other but the end, printed as the instant it is.                          *)
THEOREM QuartersAnswered == Spec => []QuarterHours
<1>1. QuarterInv => QuarterHours
    <2> DEFINE at == {Millis(items[i]) : i \in 1..Len(items)}
    <2> SUFFICES ASSUME QuarterInv, phase = "answered"
                 PROVE  /\ Plain =>
                             /\ \A t \in Millis(start)..Millis(end) :
                                  Millis(start) < t /\ t < Millis(end) => t \in at
                             /\ \A t \in at : Millis(start) < t /\ t <= Millis(end)
                        /\ Plain /\ DefaultOffset = machine.std =>
                             \A i \in 1..Len(items) :
                               items[i].fields - items[i].offset = Millis(items[i])
        BY DEF QuarterHours
    <2>1. /\ WorldTypeOK /\ Sound(start) /\ Sound(end)
          /\ \A i \in 1..Len(items) : Sound(items[i])
          /\ InOrder(start, end, items)
          /\ Quarters("answered", start, end, ts, items)
        BY DEF QuarterInv, Inv, Inside, ReadTypeOK
    <2>2. \A x : Sound(x) => Computed(x) \in Int /\ Millis(x) = Computed(x)
        BY <2>1, ComputedType, MillisOfSound DEF Sound
    <2>3. Plain => PlainFor(start, end)
        <3>1. machine.summer \subseteq Nat
            BY <2>1, MachinesAssumption DEF WorldTypeOK
        <3> QED
            BY <2>1, <2>2, <3>1 DEF Plain, PlainFor
    <2>4. ASSUME Plain
          PROVE  /\ \A t \in Millis(start)..Millis(end) :
                      Millis(start) < t /\ t < Millis(end) => t \in at
                 /\ \A t \in at : Millis(start) < t /\ t <= Millis(end)
        <3>1. ASSUME NEW i \in 1..Len(items)
              PROVE  Millis(start) < Millis(items[i]) /\ Millis(items[i]) <= Millis(end)
            BY <2>1, <2>2 DEF InOrder
        <3>2. ASSUME NEW t \in Millis(start)..Millis(end),
                     Millis(start) < t, t < Millis(end)
              PROVE  \E i \in 1..Len(items) : Millis(items[i]) = t
            <4>1. t \in Int /\ Computed(start) < t /\ t < Computed(end)
                BY <2>1, <2>2, <3>2
            <4>2. PICK i \in 1..Len(items) : Computed(items[i]) = t
                BY <2>1, <2>3, <2>4, <4>1 DEF Quarters, Covered
            <4> QED
                BY <2>1, <2>2, <4>2
        <3> QED
            BY <3>1, <3>2
    <2>5. ASSUME Plain, DefaultOffset = machine.std, NEW i \in 1..Len(items)
          PROVE  items[i].fields - items[i].offset = Millis(items[i])
        <3>1. items[i].offset = DefaultOffset /\ DefaultOffset <= 0
            BY <2>1, <2>5 DEF Quarters, Plain
        <3>2. items[i] \in Times /\ DefaultOffset \in Int
            BY <2>1, ClockTypes DEF Sound
        <3>3. items[i].fields \in Int
            BY <3>2 DEF Times
        <3>4. Computed(items[i])
                = items[i].fields + DefaultOffset - machine.std + Abs(items[i].offset)
            BY DEF Computed
        <3>5. Abs(items[i].offset) = -DefaultOffset
            BY <3>1, <3>2 DEF Abs
        <3>6. Computed(items[i]) = items[i].fields - DefaultOffset
            BY <2>5, <3>2, <3>3, <3>4, <3>5
        <3> QED
            BY <2>1, <2>2, <3>1, <3>6
    <2> QED
        BY <2>4, <2>5
<1> QED
    BY QuarterStarts, QuarterNext, <1>1, PTL DEF Spec
=============================================================================
