--------------------------- MODULE ServiceProofs ----------------------------
(***************************************************************************)
(* Theorems about Service, for any sites, transports, parameters and calls.*)
(***************************************************************************)
EXTENDS Service, OperatorProofs

(* The outcomes of pointWrite: what is written is followed by the array. *)
LEMMA WriteOutcomes ==
    ASSUME NEW g, NEW outcome \in PointWrite(g)
    PROVE  /\ outcome.kind # "exception"
           /\ outcome.effect # "none" => outcome.kind \in {"grid", "end"}
           /\ outcome.kind = "end" => ReadsBeyond(g)
<1> DEFINE row == g.rows[1]
           id == ValToId(row["id"])
<1> USE DEF Grid, Raise, Die
<1>1. ASSUME NEW array \in PointWriteArray(id)
      PROVE  /\ array.kind \in {"grid", "error", "end"} /\ array.effect = "none"
             /\ array.kind = "end" => Has(id, "writable")
             /\ array.kind = "error" => ~Has(id, "writable")
    BY DEF PointWriteArray
<1>2. ASSUME NEW level, NEW refusal \in BadLevel(level)
      PROVE  /\ refusal.kind \in {"error", "end"} /\ refusal.effect = "none"
             /\ refusal.kind = "end" => level \notin 0..20
    BY DEF BadLevel
<1>3. CASE g.rows = <<>> \/ ~HasCell(row, "id")
    BY <1>3 DEF PointWrite
<1>4. CASE ~(g.rows = <<>> \/ ~HasCell(row, "id")) /\ ~HasCell(row, "level")
    <2>1. outcome \in PointWriteArray(id)
        BY <1>4 DEF PointWrite
    <2> QED
        BY <1>1, <1>4, <2>1 DEF ReadsBeyond
<1>5. CASE ~(g.rows = <<>> \/ ~HasCell(row, "id")) /\ HasCell(row, "level")
    <2>1. outcome \in Write(id, row)
        BY <1>5 DEF PointWrite
    <2>2. CASE outcome \in BadLevel(row["level"])
        BY <1>2, <1>5, <2>2 DEF ReadsBeyond
    <2>3. CASE outcome = Raise
        BY <2>3
    <2>4. CASE Has(id, "writable") /\ \E array \in PointWriteArray(id) :
                  outcome = After("point_write", array)
        BY <1>1, <1>5, <2>4 DEF After, ReadsBeyond
    <2> QED
        BY <2>1, <2>2, <2>3, <2>4 DEF Write
<1> QED
    BY <1>3, <1>4, <1>5

(* An operation that has an effect ends with a grid, or ends the process. *)
LEMMA EffectMeansGrid ==
    ASSUME NEW op \in OpNames, NEW g, NEW outcome \in Outcomes(op, g),
           outcome.effect # "none"
    PROVE  outcome.kind \in {"grid", "end"}
<1>1. Read(g).effect = "none"
    BY DEF Read, OnReadAll, OnReadByIds, Checked, Grid, Raise, Throw
<1>2. Nav(g).effect = "none"
    BY DEF Nav, OnNav, OnReadAll, Checked, Grid, Raise, Throw
<1>3. \A r \in HisRead(g) : r.effect = "none"
    BY DEF HisRead, Checked, Grid, Raise
<1>4. InvokeAction(g).effect # "none" => InvokeAction(g).kind = "grid"
    BY DEF InvokeAction, After, Checked, Grid, Raise
<1> QED
    BY <1>1, <1>2, <1>3, <1>4, WriteOutcomes
       DEF Outcomes, OpNames, HisWrite, Grid, Raise, Throw

(* The filters of nav are filters. *)
LEMMA NavFilterReads == \A id : NavFilter(id) # BadFilter
BY DEF NavFilter, BadFilter, Tagged, TaggedUnder

(* What is neither a grid nor a runtime_error comes of about, or of a read *)
(* with an unknown id or without a filter where one should be.             *)
LEMMA ThrowCauses ==
    ASSUME NEW op \in OpNames, NEW g, NEW outcome \in Outcomes(op, g),
           outcome.kind = "exception"
    PROVE  \/ op = "about"
           \/ op = "read" /\ (AsksBadFilter(g) \/ ~(ToSet(ReadIds(g.rows)) \subseteq Ids))
<1>1. \A ids : OnReadByIds(ids).kind = "exception" => ~(ToSet(ids) \subseteq Ids)
    BY DEF OnReadByIds, Grid, Throw, ToSet
<1>2. Read(g).kind = "exception" =>
         AsksBadFilter(g) \/ ~(ToSet(ReadIds(g.rows)) \subseteq Ids)
    BY <1>1 DEF Read, OnReadAll, Checked, Grid, Raise, AsksBadFilter
<1>3. Nav(g).kind # "exception"
    BY NavFilterReads DEF Nav, OnNav, OnReadAll, Checked, Grid, Raise
<1>4. \A r \in HisRead(g) : r.kind # "exception"
    BY DEF HisRead, Checked, Grid, Raise
<1>5. InvokeAction(g).kind # "exception"
    BY DEF InvokeAction, After, Checked, Grid, Raise
<1> QED
    BY <1>2, <1>3, <1>4, <1>5, WriteOutcomes
       DEF Outcomes, OpNames, HisWrite, Grid, Raise, Throw

(* Only pointWrite reads memory that is not there. *)
LEMMA EndCauses ==
    ASSUME NEW op \in OpNames, NEW g, NEW outcome \in Outcomes(op, g),
           outcome.kind = "end"
    PROVE  op = "pointWrite" /\ ReadsBeyond(g)
<1>1. Read(g).kind # "end"
    BY DEF Read, OnReadAll, OnReadByIds, Checked, Grid, Raise, Throw
<1>2. Nav(g).kind # "end"
    BY DEF Nav, OnNav, OnReadAll, Checked, Grid, Raise, Throw
<1>3. \A r \in HisRead(g) : r.kind # "end"
    BY DEF HisRead, Checked, Grid, Raise
<1>4. InvokeAction(g).kind # "end"
    BY DEF InvokeAction, After, Checked, Grid, Raise
<1> QED
    BY <1>1, <1>2, <1>3, <1>4, WriteOutcomes
       DEF Outcomes, OpNames, HisWrite, Grid, Raise, Throw
-----------------------------------------------------------------------------
(* Until the operation has run nothing has been done; while it runs, the   *)
(* status 200 is out and the operation is one that there is.               *)
ProgressInv ==
    /\ phase \notin {"answered", "down"} => effect = "none"
    /\ phase \in {"parse", "serve"} => req.op \in OpNames
    /\ phase = "serve" => res = [status |-> 200, body |-> Empty]

Inv == ProgressInv /\ RefusedChangesNothing /\ ErrorsAreTold

LEMMA InitInv == Init => Inv
BY DEF Init, Inv, ProgressInv, RefusedChangesNothing, ErrorsAreTold, Answered

(* The steps that answer without running the operation *)
LEMMA AnswerKeepsInv ==
    ASSUME Inv, phase \in {"route", "parse"}, NEW status, NEW body,
           Answer(status, body),
           status = 200 => body # Empty,
           status = 0 => \/ ~req.by.auth /\ ~req.by.wellFormed
                         \/ req.by.method \notin {"GET", "POST"}
    PROVE  Inv'
<1>1. phase' = "answered" /\ effect' = "none" /\ req' = req
    BY DEF Answer, Inv, ProgressInv
<1>2. res'.status = status /\ res'.body = body
    BY DEF Answer
<1>3. ProgressInv' /\ RefusedChangesNothing'
    BY <1>1 DEF ProgressInv, RefusedChangesNothing
<1>4. ErrorsAreTold'
    BY <1>1, <1>2 DEF ErrorsAreTold, Answered
<1> QED
    BY <1>3, <1>4 DEF Inv

LEMMA ServeKeepsInv == ASSUME Inv, Serve PROVE Inv'
<1> DEFINE Written(outcome, body) ==
        /\ Finish(outcome, body)
        /\ outcome.kind = "grid" => body.kind = "grid"
        /\ outcome.kind # "end"
        /\ body = Empty => outcome.kind = "exception"
<1>0. PICK outcome \in Outcomes(req.op, req.grid) :
        \/ \E body : Written(outcome, body)
        \/ outcome.kind = "end" /\ GoDown(outcome)
    BY DEF Serve, GridBody, ErrGrid, Empty
<1>1. req.op \in OpNames /\ res = [status |-> 200, body |-> Empty]
    BY DEF Inv, ProgressInv, Serve
<1>2. CASE \E body : Written(outcome, body)
    <2>1. PICK body : Written(outcome, body)
        BY <1>2
    <2>2. /\ phase' = "answered" /\ req' = req
          /\ res'.status = 200 /\ res'.body = body
          /\ effect' = outcome.effect
        BY <1>1, <2>1 DEF Finish
    <2>3. ProgressInv'
        BY <2>2 DEF ProgressInv
    <2>4. RefusedChangesNothing'
        BY <1>1, <2>1, <2>2, EffectMeansGrid DEF RefusedChangesNothing, Answered
    <2>5. ErrorsAreTold'
        BY <1>1, <2>1, <2>2, ThrowCauses DEF ErrorsAreTold, Answered
    <2> QED
        BY <2>3, <2>4, <2>5 DEF Inv
<1>3. CASE outcome.kind = "end" /\ GoDown(outcome)
    <2>1. phase' = "down" /\ req' = req
        BY <1>3 DEF GoDown
    <2>2. ErrorsAreTold'
        BY <1>1, <1>3, <2>1, EndCauses DEF ErrorsAreTold, Answered
    <2> QED
        BY <2>1, <2>2 DEF Inv, ProgressInv, RefusedChangesNothing, Answered
<1> QED
    BY <1>0, <1>2, <1>3

LEMMA StepKeepsInv == Inv /\ [Next]_vars => Inv'
<1> SUFFICES ASSUME Inv, [Next]_vars PROVE Inv'
    OBVIOUS
<1> USE DEF Answered
<1>1. CASE Open \/ ClientCall \/ OtherRequest
    <2>1. phase' = "route" /\ effect' = "none"
        BY <1>1 DEF Open, ClientCall, OtherRequest, Send, Inv, ProgressInv
    <2> QED
        BY <2>1 DEF Inv, ProgressInv, RefusedChangesNothing, ErrorsAreTold
<1>2. CASE Route
    <2> phase = "route"
        BY <1>2 DEF Route
    <2>1. CASE Answer(401, Text)
        BY <2>1, AnswerKeepsInv
    <2>2. CASE Answer(302, Empty)
        BY <2>2, AnswerKeepsInv
    <2>3. CASE Answer(404, Text)
        BY <2>3, AnswerKeepsInv
    <2>4. CASE Known /\ Proceed("parse")
        BY <2>4 DEF Known, Proceed, Inv, ProgressInv,
                    RefusedChangesNothing, ErrorsAreTold
    <2> QED
        BY <1>2, <2>1, <2>2, <2>3, <2>4 DEF Route
<1>3. CASE GetToGrid \/ PostToGrid
    <2>1. CASE SendStatus
        BY <2>1, <1>3 DEF GetToGrid, PostToGrid, SendStatus, Inv, ProgressInv,
                          RefusedChangesNothing, ErrorsAreTold
    <2>2. CASE FailBeforeSend /\ ~req.by.wellFormed
        BY <2>2, <1>3, AnswerKeepsInv DEF FailBeforeSend, GetToGrid, PostToGrid
    <2>3. CASE Answer(406, Empty)
        BY <2>3, <1>3, AnswerKeepsInv DEF GetToGrid, PostToGrid
    <2> QED
        BY <1>3, <2>1, <2>2, <2>3 DEF GetToGrid, PostToGrid
<1>4. CASE OtherMethod
    BY <1>4, AnswerKeepsInv DEF OtherMethod
<1>5. CASE Serve
    BY <1>5, ServeKeepsInv
<1>6. CASE Receive
    BY <1>6 DEF Receive, Inv, ProgressInv, RefusedChangesNothing, ErrorsAreTold
<1>7. CASE UNCHANGED vars
    BY <1>7 DEF vars, Inv, ProgressInv, RefusedChangesNothing, ErrorsAreTold
<1> QED
    BY <1>1, <1>2, <1>3, <1>4, <1>5, <1>6, <1>7 DEF Next

(* A request that is answered with anything but a grid has written no point *)
(* and run no action, whatever it was and however it was sent.              *)
THEOREM RefusalsChangeNothing == Spec => []RefusedChangesNothing
<1>1. Inv => RefusedChangesNothing
    BY DEF Inv
<1> QED
    BY InitInv, StepKeepsInv, <1>1, PTL DEF Spec

(* Failures are told but for the cases that ErrorsAreTold names: Op::on_    *)
(* service and the two handlers leave no other way to an answer without a   *)
(* body or to no answer.                                                    *)
THEOREM ErrorsAlwaysTold == Spec => []ErrorsAreTold
<1>1. Inv => ErrorsAreTold
    BY DEF Inv
<1> QED
    BY InitInv, StepKeepsInv, <1>1, PTL DEF Spec
-----------------------------------------------------------------------------
(* The records. *)

IsAmong(x, s) == \E i \in DOMAIN s : s[i] = x

LEMMA ConcatElements ==
    ASSUME NEW S, NEW s \in Seq(S), NEW t \in Seq(S)
    PROVE  /\ s \o t \in Seq(S)
           /\ \A x : IsAmong(x, s) \/ IsAmong(x, t) => IsAmong(x, s \o t)
<1>1. /\ s \o t \in Seq(S) /\ Len(s \o t) = Len(s) + Len(t)
      /\ \A i \in 1..Len(s) + Len(t) :
            (s \o t)[i] = IF i <= Len(s) THEN s[i] ELSE t[i - Len(s)]
  BY ConcatPlaces
<1>2. PICK u \in Seq(S) : u = s \o t
  BY <1>1
<1>3. /\ DOMAIN s = 1..Len(s) /\ Len(s) \in Nat
      /\ DOMAIN t = 1..Len(t) /\ Len(t) \in Nat
      /\ DOMAIN u = 1..Len(s) + Len(t)
      /\ \A i \in 1..Len(s) + Len(t) : u[i] = IF i <= Len(s) THEN s[i] ELSE t[i - Len(s)]
  BY <1>1, <1>2
<1>4. ASSUME NEW i \in DOMAIN s PROVE \E j \in DOMAIN u : u[j] = s[i]
  BY <1>3
<1>5. ASSUME NEW i \in DOMAIN t PROVE \E j \in DOMAIN u : u[j] = t[i]
  <2>1. /\ Len(s) + i \in DOMAIN u /\ u[Len(s) + i] = t[(Len(s) + i) - Len(s)]
        /\ (Len(s) + i) - Len(s) = i
    BY <1>3
  <2>. QED
    BY <2>1
<1>6. \A x : IsAmong(x, s) \/ IsAmong(x, t) => IsAmong(x, u)
  BY <1>4, <1>5 DEF IsAmong
<1>. QED
  BY <1>1, <1>2, <1>6

EquipNames == {"AHU1", "AHU2", "Meter"}
PointNames == {"KW", "KWH", "Cool", "DTemp", "Fan", "Heat", "RTemp", "ZoneSP"}

(* The records of a site, of all sites, and what they have in common. *)
Family(s) == {Site(s)} \cup {Equip(s, n) : n \in EquipNames}
                \cup {Point(Equip(s, n), m) : n \in EquipNames, m \in PointNames}
AllRecs == UNION {Family(<<s>>) : s \in STRING}

LEMMA FamilyElements ==
    ASSUME NEW s, NEW r
    PROVE  r \in Family(s) <=>
              \/ r = Site(s)
              \/ \E n \in EquipNames :
                    \/ r = Equip(s, n)
                    \/ \E m \in PointNames : r = Point(Equip(s, n), m)
BY DEF Family

LEMMA WithPointsElements ==
    ASSUME NEW s, NEW n \in EquipNames, NEW names \in Seq(PointNames)
    PROVE  /\ WithPoints(Equip(s, n), names) \in Seq(Family(s))
           /\ IsAmong(Equip(s, n), WithPoints(Equip(s, n), names))
<1>1. PICK e : e = Equip(s, n)
  OBVIOUS
<1>2. PICK points : points = [i \in DOMAIN names |-> Point(e, names[i])]
  OBVIOUS
<1>3. PICK S : S = Family(s)
  OBVIOUS
<1>4. e \in S
  BY <1>1, <1>3, FamilyElements
<1>5. \A i \in DOMAIN names : Point(e, names[i]) \in S
  <2>1. \A i \in DOMAIN names : names[i] \in PointNames
    OBVIOUS
  <2>. QED
    BY <1>1, <1>3, <2>1, FamilyElements
<1>6. points \in Seq(S) /\ <<e>> \in Seq(S)
  BY <1>2, <1>4, <1>5
<1>7. IsAmong(e, <<e>>)
  <2>1. 1 \in DOMAIN <<e>> /\ <<e>>[1] = e
    OBVIOUS
  <2>. QED
    BY <2>1 DEF IsAmong
<1>8. WithPoints(e, names) = <<e>> \o points
  BY <1>2 DEF WithPoints
<1>9. WithPoints(e, names) \in Seq(S) /\ IsAmong(e, WithPoints(e, names))
  BY <1>6, <1>7, <1>8, ConcatElements
<1>. QED
  BY <1>1, <1>3, <1>9

LEMMA SiteRecsElements ==
    ASSUME NEW s
    PROVE  /\ SiteRecs(s) \in Seq(Family(s))
           /\ IsAmong(Site(s), SiteRecs(s))
           /\ \A n \in EquipNames : IsAmong(Equip(s, n), SiteRecs(s))
<1>1. PICK S : S = Family(s)
  OBVIOUS
<1>2. PICK a : a = WithPoints(Equip(s, "AHU1"), AhuPoints)
  OBVIOUS
<1>3. PICK b : b = WithPoints(Equip(s, "AHU2"), AhuPoints)
  OBVIOUS
<1>4. PICK m : m = WithPoints(Equip(s, "Meter"), MeterPoints)
  OBVIOUS
<1>5. AhuPoints \in Seq(PointNames) /\ MeterPoints \in Seq(PointNames)
  BY DEF AhuPoints, MeterPoints, PointNames
<1>6. "AHU1" \in EquipNames /\ "AHU2" \in EquipNames /\ "Meter" \in EquipNames
  BY DEF EquipNames
<1>7. /\ a \in Seq(S) /\ IsAmong(Equip(s, "AHU1"), a)
      /\ b \in Seq(S) /\ IsAmong(Equip(s, "AHU2"), b)
      /\ m \in Seq(S) /\ IsAmong(Equip(s, "Meter"), m)
  BY <1>1, <1>2, <1>3, <1>4, <1>5, <1>6, WithPointsElements
<1>8. PICK x : x = Site(s)
  OBVIOUS
<1>9. <<x>> \in Seq(S) /\ IsAmong(x, <<x>>)
  <2>1. x \in S /\ 1 \in DOMAIN <<x>> /\ <<x>>[1] = x
    BY <1>1, <1>8, FamilyElements
  <2>. QED
    BY <2>1 DEF IsAmong
<1>10. PICK c : c = <<x>> \o a
  OBVIOUS
<1>11. PICK d : d = c \o b
  OBVIOUS
<1>12. c \in Seq(S) /\ d \in Seq(S) /\ d \o m \in Seq(S)
  BY <1>7, <1>9, <1>10, <1>11, ConcatElements
<1>13. /\ \A y : IsAmong(y, <<x>>) \/ IsAmong(y, a) => IsAmong(y, c)
       /\ \A y : IsAmong(y, c) \/ IsAmong(y, b) => IsAmong(y, d)
       /\ \A y : IsAmong(y, d) \/ IsAmong(y, m) => IsAmong(y, d \o m)
  BY <1>7, <1>9, <1>10, <1>11, <1>12, ConcatElements
<1>14. SiteRecs(s) = d \o m
  BY <1>2, <1>3, <1>4, <1>8, <1>10, <1>11 DEF SiteRecs
<1>15. \A n \in EquipNames : n = "AHU1" \/ n = "AHU2" \/ n = "Meter"
  BY DEF EquipNames
<1>16. /\ IsAmong(x, d \o m) /\ IsAmong(Equip(s, "AHU1"), d \o m)
       /\ IsAmong(Equip(s, "AHU2"), d \o m) /\ IsAmong(Equip(s, "Meter"), d \o m)
  BY <1>7, <1>9, <1>13
<1>. QED
  BY <1>1, <1>8, <1>12, <1>14, <1>15, <1>16

(* The project has the records of its sites and no others, and with a      *)
(* record the site and the equipment that it names.                        *)
LEMMA RecsShape ==
    /\ m_recs \in Seq(AllRecs)
    /\ \A i \in DOMAIN m_recs : \E s \in STRING :
          /\ m_recs[i] \in Family(<<s>>)
          /\ IsAmong(Site(<<s>>), m_recs)
          /\ \A n \in EquipNames : IsAmong(Equip(<<s>>, n), m_recs)
<1> DEFINE ss == [k \in DOMAIN Sites |-> SiteRecs(<<Sites[k]>>)]
<1>1. DOMAIN Sites = 1..Len(Sites) /\ Len(Sites) \in Nat
      /\ \A k \in DOMAIN Sites : Sites[k] \in STRING
  BY SitesAssumption
<1>2. \A k \in DOMAIN Sites : SiteRecs(<<Sites[k]>>) \in Seq(AllRecs)
  <2>1. \A k \in DOMAIN Sites : \A r \in Family(<<Sites[k]>>) : r \in AllRecs
    BY <1>1 DEF AllRecs
  <2>2. ASSUME NEW S, NEW T, S \subseteq T, NEW s \in Seq(S) PROVE s \in Seq(T)
    BY <2>2
  <2>. QED
    BY <2>1, <2>2, SiteRecsElements
<1>3. ss \in Seq(Seq(AllRecs))
  BY <1>1, <1>2
<1>4. DOMAIN ss = DOMAIN Sites /\ \A k \in DOMAIN Sites : ss[k] = SiteRecs(<<Sites[k]>>)
  OBVIOUS
<1>5. m_recs = FlattenSeq(ss)
  BY DEF m_recs
<1> HIDE DEF ss
<1>6. PICK recs : recs = FlattenSeq(ss)
  OBVIOUS
<1>7. /\ recs \in Seq(AllRecs)
      /\ \A i \in DOMAIN recs :
            \E k \in DOMAIN ss, j \in Nat : j \in DOMAIN ss[k] /\ recs[i] = ss[k][j]
      /\ \A k \in DOMAIN ss : \A j \in DOMAIN ss[k] : \E i \in DOMAIN recs : recs[i] = ss[k][j]
  BY <1>3, <1>6, FlattenedElements
<1>8. \A k \in DOMAIN ss : \A x : IsAmong(x, ss[k]) => IsAmong(x, recs)
  BY <1>7 DEF IsAmong
<1>9. ASSUME NEW i \in DOMAIN recs
      PROVE  \E s \in STRING :
                /\ recs[i] \in Family(<<s>>)
                /\ IsAmong(Site(<<s>>), recs)
                /\ \A n \in EquipNames : IsAmong(Equip(<<s>>, n), recs)
  <2>1. PICK k \in DOMAIN ss, j \in Nat : j \in DOMAIN ss[k] /\ recs[i] = ss[k][j]
    BY <1>7
  <2>2. PICK s \in STRING : s = Sites[k]
    BY <1>1, <1>4
  <2>3. ss[k] = SiteRecs(<<s>>)
    BY <1>4, <2>1, <2>2
  <2>4. PICK S : S = Family(<<s>>)
    OBVIOUS
  <2>5. PICK t \in Seq(S) : t = ss[k]
    BY <2>3, <2>4, SiteRecsElements
  <2>6. recs[i] \in Family(<<s>>)
    BY <2>1, <2>4, <2>5
  <2>7. /\ IsAmong(Site(<<s>>), ss[k])
        /\ \A n \in EquipNames : IsAmong(Equip(<<s>>, n), ss[k])
    BY <2>3, SiteRecsElements
  <2>. QED
    BY <1>8, <2>1, <2>6, <2>7
<1>. QED
  BY <1>5, <1>6, <1>7, <1>9

LEMMA OneMoreName ==
    ASSUME NEW a, NEW b, NEW c
    PROVE  <<a>> \o <<b>> = <<a, b>> /\ <<a, b>> \o <<c>> = <<a, b, c>>
<1>1. PICK S : S = {a, b, c}
  OBVIOUS
<1>2. a \in S /\ b \in S /\ c \in S
  BY <1>1
<1>0. <<a>> \in Seq(S) /\ <<b>> \in Seq(S) /\ <<c>> \in Seq(S) /\ <<a, b>> \in Seq(S)
  BY <1>2
<1>3. PICK u \in Seq(S) : u = <<a>>
  BY <1>0
<1>4. PICK v \in Seq(S) : v = <<b>>
  BY <1>0
<1>5. PICK w \in Seq(S) : w = <<c>>
  BY <1>0
<1>6. Len(u) = 1 /\ Len(v) = 1 /\ Len(w) = 1 /\ u[1] = a /\ v[1] = b /\ w[1] = c
  BY <1>3, <1>4, <1>5
<1>7. u \o v = <<a, b>>
  <2>1. /\ u \o v \in Seq(S) /\ Len(u \o v) = Len(u) + Len(v)
        /\ \A i \in 1..Len(u) + Len(v) :
              (u \o v)[i] = IF i <= Len(u) THEN u[i] ELSE v[i - Len(u)]
    BY ConcatPlaces
  <2>2. PICK x \in Seq(S) : x = u \o v
    BY <2>1
  <2>3. Len(x) = 2 /\ x[1] = a /\ x[2] = b
    BY <1>6, <2>1, <2>2
  <2>4. x = <<a, b>>
    BY <2>3
  <2>. QED
    BY <2>2, <2>4
<1>8. PICK y \in Seq(S) : y = <<a, b>>
  BY <1>0
<1>9. Len(y) = 2 /\ y[1] = a /\ y[2] = b
  BY <1>8
<1>10. y \o w = <<a, b, c>>
  <2>1. /\ y \o w \in Seq(S) /\ Len(y \o w) = Len(y) + Len(w)
        /\ \A i \in 1..Len(y) + Len(w) :
              (y \o w)[i] = IF i <= Len(y) THEN y[i] ELSE w[i - Len(y)]
    BY ConcatPlaces
  <2>2. PICK x \in Seq(S) : x = y \o w
    BY <2>1
  <2>3. Len(x) = 3 /\ x[1] = a /\ x[2] = b /\ x[3] = c
    BY <1>6, <1>9, <2>1, <2>2
  <2>4. x = <<a, b, c>>
    BY <2>3
  <2>. QED
    BY <2>2, <2>4
<1>. QED
  BY <1>3, <1>4, <1>5, <1>7, <1>8, <1>10

(* The three kinds of records, told apart by the length of their ids. *)
LEMMA RecKinds ==
    ASSUME NEW s, NEW r \in Family(<<s>>)
    PROVE  \/ /\ r = Site(<<s>>) /\ r.id = <<s>>
              /\ "site" \in r.tags /\ "equip" \notin r.tags /\ "point" \notin r.tags
              /\ "navNoChildren" \notin r.tags
           \/ \E n \in EquipNames :
                 \/ /\ r = Equip(<<s>>, n) /\ r.id = <<s, n>> /\ r.siteRef = <<s>>
                    /\ r.tags = {"equip"}
                 \/ \E m \in PointNames :
                       /\ r = Point(Equip(<<s>>, n), m) /\ r.id = <<s, n, m>>
                       /\ r.equipRef = <<s, n>>
                       /\ "point" \in r.tags /\ "site" \notin r.tags /\ "equip" \notin r.tags
                       /\ "navNoChildren" \notin r.tags
<1>1. CASE r = Site(<<s>>)
  BY <1>1 DEF Site
<1>2. ASSUME NEW n \in EquipNames, r = Equip(<<s>>, n)
      PROVE  r.id = <<s, n>> /\ r.siteRef = <<s>> /\ r.tags = {"equip"}
  BY <1>2, OneMoreName DEF Equip
<1>3. ASSUME NEW n \in EquipNames, NEW m \in PointNames, r = Point(Equip(<<s>>, n), m)
      PROVE  /\ r.id = <<s, n, m>> /\ r.equipRef = <<s, n>>
             /\ "point" \in r.tags /\ "site" \notin r.tags /\ "equip" \notin r.tags
             /\ "navNoChildren" \notin r.tags
  <2>1. Equip(<<s>>, n).id = <<s, n>>
    BY OneMoreName DEF Equip
  <2>2. r.id = <<s, n>> \o <<m>>
    BY <1>3, <2>1 DEF Point
  <2>3. r.id = <<s, n, m>>
    BY <2>2, OneMoreName
  <2>. QED
    BY <1>3, <2>1, <2>3 DEF Point
<1>. QED
  BY <1>1, <1>2, <1>3, FamilyElements

LEMMA IdDecides ==
    ASSUME NEW r1 \in AllRecs, NEW r2 \in AllRecs, r1.id = r2.id
    PROVE  r1 = r2
<1>1. PICK s1 \in STRING : r1 \in Family(<<s1>>)
  BY DEF AllRecs
<1>2. PICK s2 \in STRING : r2 \in Family(<<s2>>)
  BY DEF AllRecs
<1>3. \A a, b, c, d, e, f :
         /\ <<a>> # <<b, c>> /\ <<a>> # <<b, c, d>> /\ <<a, b>> # <<c, d, e>>
         /\ <<a>> = <<b>> => a = b
         /\ <<a, b>> = <<c, d>> => a = c /\ b = d
         /\ <<a, b, c>> = <<d, e, f>> => a = d /\ b = e /\ c = f
  OBVIOUS
<1>. QED
  BY <1>1, <1>2, <1>3, RecKinds

(* The record of an id. *)
LEMMA RecOfId ==
    ASSUME NEW i \in DOMAIN m_recs
    PROVE  m_recs[i].id \in Ids /\ Rec(m_recs[i].id) = m_recs[i]
<1>1. \A j \in DOMAIN m_recs : m_recs[j] \in AllRecs
  BY RecsShape
<1>2. PICK c : c = m_recs[i].id
  OBVIOUS
<1>3. PICK j \in DOMAIN m_recs : j = CHOOSE k \in DOMAIN m_recs : m_recs[k].id = c
  BY <1>2
<1>4. m_recs[j].id = c
  BY <1>2, <1>3
<1>5. m_recs[j] = m_recs[i]
  BY <1>1, <1>2, <1>4, IdDecides
<1>. QED
  BY <1>2, <1>3, <1>5 DEF Ids, Rec
-----------------------------------------------------------------------------
(* What filters find. *)

LEMMA MatchesElements ==
    ASSUME NEW f
    PROVE  /\ Matches(f) \in Seq(Ids) /\ Len(Matches(f)) <= Len(m_recs)
           /\ \A c : IsAmong(c, Matches(f))
                       <=> \E i \in DOMAIN m_recs : m_recs[i].id = c /\ Include(f, m_recs[i])
<1>1. PICK ids : ids = [i \in DOMAIN m_recs |-> m_recs[i].id]
  OBVIOUS
<1>2. PICK P : P = {i \in DOMAIN m_recs : Include(f, m_recs[i])}
  OBVIOUS
<1>3. DOMAIN m_recs = 1..Len(m_recs) /\ Len(m_recs) \in Nat
  BY RecsShape
<1>4. \A i \in DOMAIN m_recs : m_recs[i].id \in Ids
  BY DEF Ids
<1>5. /\ ids \in Seq(Ids) /\ Len(ids) = Len(m_recs) /\ DOMAIN ids = DOMAIN m_recs
      /\ \A i \in DOMAIN ids : ids[i] = m_recs[i].id
  BY <1>1, <1>3, <1>4
<1>6. Matches(f) = Selected(ids, P)
  BY <1>1, <1>2 DEF Matches
<1>7. PICK found_ \in Seq(Ids) : found_ = Selected(ids, P)
  BY <1>5, SelectedType
<1>8. Len(found_) <= Len(m_recs)
  <2>1. Len(ids) \in 0..Len(ids)
    BY <1>3, <1>5
  <2>. QED
    BY <1>5, <1>7, <2>1, CollectedType DEF Selected
<1>9. /\ \A j \in DOMAIN found_ : \E i \in DOMAIN ids : i \in P /\ found_[j] = ids[i]
      /\ \A i \in DOMAIN ids : i \in P => \E j \in DOMAIN found_ : found_[j] = ids[i]
  <2>1. /\ \A j \in DOMAIN Selected(ids, P) :
              \E i \in DOMAIN ids : i \in P /\ Selected(ids, P)[j] = ids[i]
        /\ \A i \in DOMAIN ids :
              i \in P => \E j \in DOMAIN Selected(ids, P) : Selected(ids, P)[j] = ids[i]
    BY <1>5, SelectedElements
  <2>. QED
    BY <1>7, <2>1
<1>10. \A c : IsAmong(c, found_)
               <=> \E i \in DOMAIN m_recs : m_recs[i].id = c /\ Include(f, m_recs[i])
  BY <1>2, <1>5, <1>9 DEF IsAmong
<1>. QED
  BY <1>6, <1>7, <1>8, <1>10

(* What the loop of on_read_all keeps: a beginning, and all there is or at *)
(* least as many as the limit.                                             *)
LEMMA ClipPrefix ==
    ASSUME NEW S, NEW s \in Seq(S), NEW n \in Nat
    PROVE  /\ Clip(s, n + 1) \in Seq(S)
           /\ IsPrefix(Clip(s, n + 1), s)
           /\ Clip(s, n + 1) = s \/ Len(Clip(s, n + 1)) >= n
           /\ Len(s) <= n => Clip(s, n + 1) = s
<1>1. CASE Len(s) > n + 1
  <2>0. Len(s) \in Nat /\ DOMAIN s = 1..Len(s) /\ \A i \in 1..Len(s) : s[i] \in S
    OBVIOUS
  <2>1. PICK t : t = [i \in 1..n + 1 |-> s[i]]
    OBVIOUS
  <2>2. t \in Seq(S) /\ Len(t) = n + 1 /\ \A i \in 1..n + 1 : t[i] = s[i]
    BY <1>1, <2>0, <2>1
  <2>3. SubSeq(t, 1, n + 1) = SubSeq(s, 1, n + 1) /\ SubSeq(s, 1, n + 1) = t
    <3>1. SubSeq(t, 1, n + 1) = SubSeq(s, 1, n + 1)
      BY <1>1, <2>0, <2>2, PrefixSame
    <3>2. SubSeq(t, 1, n + 1) = t
      BY <2>2
    <3>. QED
      BY <3>1, <3>2
  <2>4. Clip(s, n + 1) = t
    BY <1>1, <2>3 DEF Clip
  <2>. QED
    BY <1>1, <2>2, <2>3, <2>4 DEF IsPrefix
<1>2. CASE ~(Len(s) > n + 1)
  <2>1. Clip(s, n + 1) = s
    BY <1>2 DEF Clip
  <2>. QED
    BY <2>1 DEF IsPrefix
<1>. QED
  BY <1>1, <1>2

-----------------------------------------------------------------------------
(* Navigation. *)

LEMMA NavRows ==
    ASSUME NEW node
    PROVE  OnNav(node).rows = IF node = Root \/ node \in Ids
                              THEN Matches(NavFilter(node)) ELSE <<>>
<1>1. PICK rows \in Seq(Ids) : rows = Matches(NavFilter(node)) /\ Len(rows) <= Len(m_recs)
  BY MatchesElements
<1>2. SizeMax \in Nat /\ Len(rows) <= SizeMax
  <2>1. Len(m_recs) \in Nat
    BY RecsShape
  <2>. QED
    BY <1>1, <2>1, SizeMaxAssumption
<1>3. Clip(rows, SizeMax + 1) = rows
  BY <1>2, ClipPrefix
<1>4. OnReadAll(NavFilter(node), SizeMax) = Grid(rows)
  BY <1>1, <1>3, NavFilterReads DEF OnReadAll
<1>. QED
  BY <1>1, <1>4 DEF OnNav, Checked, Grid, Raise

(* That a child is shown under a node, and the only node it can be. *)
Edge(node, child) == \E i \in DOMAIN m_recs : /\ m_recs[i].id = child
                                             /\ Include(NavFilter(node), m_recs[i])

Parent(r) == IF "site" \in r.tags THEN Root
             ELSE IF "equip" \in r.tags THEN r.siteRef ELSE r.equipRef

LEMMA NavEdges ==
    ASSUME NEW node, NEW child
    PROVE  /\ IsAmong(child, OnNav(node).rows) => Edge(node, child)
           /\ (node = Root \/ node \in Ids) /\ Edge(node, child)
                 => IsAmong(child, OnNav(node).rows)
<1>1. ~IsAmong(child, <<>>)
  BY DEF IsAmong
<1>2. IsAmong(child, Matches(NavFilter(node))) <=> Edge(node, child)
  BY MatchesElements DEF Edge
<1>. QED
  BY <1>1, <1>2, NavRows

LEMMA OnlyParent ==
    ASSUME NEW node, NEW r \in AllRecs, Include(NavFilter(node), r)
    PROVE  node = Parent(r)
<1>1. PICK s \in STRING : r \in Family(<<s>>)
  BY DEF AllRecs
<1>2. /\ "site" \in r.tags => "equip" \notin r.tags /\ "point" \notin r.tags
      /\ "equip" \in r.tags => "site" \notin r.tags /\ "point" \notin r.tags
      /\ "navNoChildren" \notin r.tags
  BY <1>1, RecKinds
<1>3. \/ node = Root /\ "site" \in r.tags
      \/ "equip" \in r.tags /\ r.siteRef = node
      \/ "point" \in r.tags /\ r.equipRef = node
  BY <1>2 DEF NavFilter, Include, Tagged, TaggedUnder
<1>. QED
  BY <1>2, <1>3 DEF Parent

(* From the root every record can be reached: through its site and, for a  *)
(* point, its equipment.                                                   *)
LEMMA AllReached ==
    ASSUME NEW T, \A node \in T \cup {Root} : \A child : Edge(node, child) => child \in T,
           NEW i \in DOMAIN m_recs
    PROVE  m_recs[i].id \in T
<1>1. PICK s \in STRING :
         /\ m_recs[i] \in Family(<<s>>)
         /\ IsAmong(Site(<<s>>), m_recs)
         /\ \A n \in EquipNames : IsAmong(Equip(<<s>>, n), m_recs)
  BY RecsShape
<1>2. PICK j \in DOMAIN m_recs : m_recs[j] = Site(<<s>>)
  BY <1>1 DEF IsAmong
<1>3. m_recs[j].id = <<s>> /\ "site" \in m_recs[j].tags
  BY <1>2 DEF Site
<1>4. <<s>> \in T
  <2>1. Edge(Root, <<s>>)
    BY <1>3 DEF Edge, NavFilter, Include, Tagged
  <2>. QED
    BY <2>1
<1>5. ASSUME NEW n \in EquipNames, NEW k \in DOMAIN m_recs, m_recs[k] = Equip(<<s>>, n)
      PROVE  /\ m_recs[k].id = <<s, n>> /\ m_recs[k].tags = {"equip"}
             /\ <<s, n>> \in T
  <2>1. m_recs[k].id = <<s, n>> /\ m_recs[k].siteRef = <<s>> /\ m_recs[k].tags = {"equip"}
    BY <1>5, OneMoreName DEF Equip
  <2>2. Has(<<s>>, "site")
    BY <1>3, RecOfId DEF Has
  <2>3. <<s>> # Root
    BY DEF Root, NoId
  <2>4. Edge(<<s>>, <<s, n>>)
    BY <2>1, <2>2, <2>3 DEF Edge, NavFilter, Include, TaggedUnder
  <2>. QED
    BY <1>4, <2>1, <2>4
<1>6. ASSUME NEW n \in EquipNames, NEW m \in PointNames,
             m_recs[i] = Point(Equip(<<s>>, n), m),
             m_recs[i].equipRef = <<s, n>>, "point" \in m_recs[i].tags
      PROVE  m_recs[i].id \in T
  <2>1. PICK k \in DOMAIN m_recs : m_recs[k] = Equip(<<s>>, n)
    BY <1>1 DEF IsAmong
  <2>2. m_recs[k].id = <<s, n>> /\ m_recs[k].tags = {"equip"} /\ <<s, n>> \in T
    BY <1>5, <2>1
  <2>3. Has(<<s, n>>, "equip") /\ ~Has(<<s, n>>, "site")
    BY <2>2, RecOfId DEF Has
  <2>4. <<s, n>> # Root
    BY DEF Root, NoId
  <2>5. Edge(<<s, n>>, m_recs[i].id)
    BY <1>6, <2>3, <2>4 DEF Edge, NavFilter, Include, TaggedUnder
  <2>. QED
    BY <2>2, <2>5
<1>7. PICK r : r = m_recs[i]
  OBVIOUS
<1>8. \/ r.id = <<s>>
      \/ \E n \in EquipNames :
            \/ r = Equip(<<s>>, n)
            \/ \E m \in PointNames : /\ r = Point(Equip(<<s>>, n), m)
                                     /\ r.equipRef = <<s, n>> /\ "point" \in r.tags
  BY <1>1, <1>7, RecKinds
<1>9. ASSUME NEW n \in EquipNames, r = Equip(<<s>>, n) PROVE r.id \in T
  BY <1>5, <1>7, <1>9
<1>10. ASSUME NEW n \in EquipNames, NEW m \in PointNames, r = Point(Equip(<<s>>, n), m),
              r.equipRef = <<s, n>>, "point" \in r.tags
       PROVE  r.id \in T
  BY <1>6, <1>7, <1>10
<1>11. r.id \in T
  BY <1>4, <1>8, <1>9, <1>10
<1>. QED
  BY <1>7, <1>11

NavInv == \A p \in found : Edge(p[1], p[2])

LEMMA NavInvIsTree == NavInv => NavIsTree
<1> SUFFICES ASSUME NavInv PROVE NavIsTree
  OBVIOUS
<1>0. \A i \in DOMAIN m_recs : m_recs[i] \in AllRecs
  BY RecsShape
<1>1. ASSUME NEW p \in found, NEW q \in found, p[2] = q[2] PROVE p[1] = q[1]
  <2>1. PICK i \in DOMAIN m_recs : m_recs[i].id = p[2] /\ Include(NavFilter(p[1]), m_recs[i])
    BY DEF NavInv, Edge
  <2>2. PICK j \in DOMAIN m_recs : m_recs[j].id = q[2] /\ Include(NavFilter(q[1]), m_recs[j])
    BY DEF NavInv, Edge
  <2>3. m_recs[i] = m_recs[j]
    BY <1>0, <1>1, <2>1, <2>2, IdDecides
  <2>. QED
    BY <1>0, <2>1, <2>2, <2>3, OnlyParent
<1>2. \A c \in Shown : c \in Ids
  BY DEF Shown, NavInv, Edge, Ids
<1>3. ASSUME \A node \in Shown \cup {Root} : ToSet(OnNav(node).rows) \subseteq Shown
      PROVE  Shown = Ids
  <2>1. ASSUME NEW node \in Shown \cup {Root}, NEW child, Edge(node, child)
        PROVE  child \in Shown
    <3>1. IsAmong(child, OnNav(node).rows)
      BY <1>2, <2>1, NavEdges
    <3>2. child \in ToSet(OnNav(node).rows)
      BY <3>1 DEF IsAmong, ToSet
    <3>. QED
      BY <1>3, <3>2
  <2>2. PICK T : T = Shown
    OBVIOUS
  <2>3. \A i \in DOMAIN m_recs : m_recs[i].id \in T
    BY <2>1, <2>2, AllReached
  <2>4. \A c \in Ids : c \in Shown
    BY <2>2, <2>3 DEF Ids
  <2>. QED
    BY <1>2, <2>4
<1>. QED
  BY <1>1, <1>3 DEF NavIsTree
-----------------------------------------------------------------------------
(* What an answer is: the outcome of the operation, as it was written. *)

BodyOf(outcome) == IF outcome.kind = "grid" THEN GridBody(outcome.rows)
                   ELSE IF outcome.kind = "error" THEN ErrGrid ELSE Empty

AnswerInv ==
    Answered /\ res.body.kind = "grid" =>
        /\ req.op \in OpNames
        /\ \E outcome \in Outcomes(req.op, req.grid) :
              outcome.kind = "grid" /\ res.body = GridBody(outcome.rows)

\* A limit that is asked for can be counted to.
LimitInv ==
    phase # "idle" /\ req.op = "read" /\ req.grid.rows # <<>>
        /\ HasCell(req.grid.rows[1], "filter")
    => Limit(req.grid.rows[1]) \in Nat

(* The client is open only where it is let in, and there each of its calls *)
(* goes all the way to the operation.                                      *)
ClientInv ==
    /\ opened /\ client.auth => client.cred
    /\ call = OpenCall => req = GetRoot(client)
    /\ phase \in {"parse", "serve"} \/ (Answered /\ Accepted)
          => (req.by.auth => req.by.cred)
    /\ call \in Calls =>
          /\ opened /\ phase # "idle"
          /\ req = Post(client, RequestGrid(call))
          /\ Answered => Accepted /\ res.body = BodyOf(Read(req.grid))

(* A size survives the way through the Num of a cell. *)
LEMMA SizeSurvives ==
    ASSUME NEW n \in Nat
    PROVE  ToSize(ToNum(n)) = n
BY SizeMaxAssumption DEF ToSize, ToNum

LEMMA CallsTyped ==
    ASSUME NEW c \in Calls
    PROVE  /\ c.m \in {"read_by_id", "read_by_ids", "read_all", "read"}
           /\ c.ids \in Seq(Seq(STRING)) /\ c.limit \in Nat
           /\ c.m = "read_by_id" => Len(c.ids) = 1
           /\ c # NoCall /\ c # OpenCall
<1>1. c \in [m : {"read_by_id", "read_by_ids", "read_all", "read"},
             ids : Seq(Seq(STRING)),
             filter : [tag : STRING, via : STRING, to : Seq(STRING)],
             limit : Limits, checked : BOOLEAN]
  BY CallsAssumption
<1>2. c.m \in {"read_by_id", "read_by_ids", "read_all", "read"}
  BY <1>1
<1>3. NoCall.m = "none" /\ OpenCall.m = "open"
  BY DEF NoCall, OpenCall
<1>4. c.limit \in Nat
  BY <1>1 DEF Limits
<1>. QED
  BY <1>1, <1>2, <1>3, <1>4, CallsAssumption

LEMMA RequestLimit ==
    ASSUME NEW g,
           \/ \E c \in Calls : g = RequestGrid(c)
           \/ g \in Parameters("read"),
           g.rows # <<>>, HasCell(g.rows[1], "filter")
    PROVE  Limit(g.rows[1]) \in Nat
<1> USE DEF HasCell, Limit, OneRow
<1>1. ASSUME NEW c \in Calls, g = RequestGrid(c) PROVE Limit(g.rows[1]) \in Nat
  <2>1. CASE c.m \in {"read_by_id", "read_by_ids"}
    <3>1. g.rows = [i \in DOMAIN c.ids |-> [id |-> c.ids[i]]]
      BY <1>1, <2>1 DEF RequestGrid
    <3>2. 1 \in DOMAIN c.ids
      <4>1. DOMAIN c.ids = 1..Len(c.ids) /\ Len(c.ids) \in Nat
        BY CallsTyped
      <4>2. Len(c.ids) # 0
        <5>1. ASSUME Len(c.ids) = 0 PROVE g.rows = <<>>
          BY <3>1, <4>1, <5>1
        <5>. QED
          BY <5>1
      <4>. QED
        BY <4>1, <4>2
    <3>3. g.rows[1] = [id |-> c.ids[1]]
      BY <3>1, <3>2
    <3>. QED
      BY <3>3
  <2>2. CASE c.m \notin {"read_by_id", "read_by_ids"}
    <3>1. g.rows[1] = [filter |-> c.filter, limit |-> ToNum(c.limit)]
      BY <1>1, <2>2 DEF RequestGrid
    <3>. QED
      BY <3>1, CallsTyped, SizeSurvives
  <2>. QED
    BY <2>1, <2>2
<1>2. CASE g \in Parameters("read")
  <2>1. "read" \in OpNames
    BY DEF OpNames
  <2>2. PICK n : n = Len(g.rows) /\ n \in Nat /\ g.rows = [i \in 1..n |-> g.rows[i]]
    BY <1>2, <2>1, ParametersAssumption
  <2>3. n # 0
    <3>1. ASSUME n = 0 PROVE g.rows = <<>>
      BY <2>2, <3>1
    <3>. QED
      BY <3>1
  <2>4. 1 \in DOMAIN g.rows
    BY <2>2, <2>3
  <2>5. HasCell(g.rows[1], "limit") => g.rows[1]["limit"] \in -(SizeMax + 1)..SizeMax
    BY <1>2, <2>1, <2>4, ParametersAssumption
  <2>. QED
    BY <2>5, SizeMaxAssumption DEF ToSize
<1>. QED
  BY <1>1, <1>2

AllInv == Inv /\ AnswerInv /\ LimitInv /\ ClientInv /\ NavInv

LEMMA SendKeeps ==
    ASSUME AllInv, Open \/ ClientCall \/ OtherRequest
    PROVE  AnswerInv' /\ LimitInv' /\ ClientInv' /\ NavInv'
<1>1. PICK c, r : Send(c, r)
  BY DEF Open, ClientCall, OtherRequest
<1>2. /\ phase' = "route" /\ UNCHANGED <<client, opened, found>>
  BY <1>1 DEF Send
<1>3. AnswerInv' /\ NavInv'
  BY <1>2 DEF AllInv, AnswerInv, NavInv, Answered
<1>4. opened /\ client.auth => client.cred
  BY DEF AllInv, ClientInv
<1>5. CASE Open
  <2>1. call' = OpenCall /\ req' = GetRoot(client)
    BY <1>5 DEF Open, Send
  <2>2. req'.op = ""
    BY <2>1 DEF GetRoot, Request
  <2>. QED
    BY <1>2, <1>3, <1>4, <2>1, <2>2, CallsTyped DEF LimitInv, ClientInv, Answered
<1>6. CASE ClientCall
  <2>1. opened
    BY <1>6 DEF ClientCall
  <2>2. PICK d \in Calls : call' = d /\ req' = Post(client, RequestGrid(d))
    BY <1>6 DEF ClientCall, Send
  <2>3. req'.grid = RequestGrid(d)
    BY <2>2 DEF Post, Request
  <2>4. LimitInv'
    BY <2>3, RequestLimit DEF LimitInv
  <2>. QED
    BY <1>2, <1>3, <1>4, <2>1, <2>2, <2>4, CallsTyped DEF ClientInv, Answered
<1>7. CASE OtherRequest
  <2>1. PICK t \in Transports, op \in OpNames \cup {"", "unknown"} :
           \E g \in Asked(op) : Send(NoCall, Request(t, op, g))
    BY <1>7 DEF OtherRequest
  <2>2. PICK g \in Asked(op) : call' = NoCall /\ req' = Request(t, op, g)
    BY <2>1 DEF Send
  <2>3. req'.grid = g /\ req'.op = op
    BY <2>2 DEF Request
  <2>a. op = "read" => g \in Parameters("read")
    BY DEF Asked
  <2>4. LimitInv'
    BY <2>3, <2>a, RequestLimit DEF LimitInv
  <2>5. NoCall # OpenCall
    <3>1. NoCall.m = "none" /\ OpenCall.m = "open"
      BY DEF NoCall, OpenCall
    <3>. QED
      BY <3>1
  <2>. QED
    BY <1>2, <1>3, <1>4, <2>2, <2>4, <2>5, CallsTyped DEF ClientInv, Answered
<1>. QED
  BY <1>5, <1>6, <1>7

(* The steps that answer without running the operation are not taken for a *)
(* call of the client.                                                     *)
LEMMA AnswerKeeps ==
    ASSUME AllInv, NEW status, NEW body, Answer(status, body), phase # "idle",
           body.kind # "grid", call \notin Calls,
           status \in {200, 302} => (req.by.auth => req.by.cred)
    PROVE  AnswerInv' /\ LimitInv' /\ ClientInv' /\ NavInv'
<1>1. /\ res'.status = status /\ res'.body = body /\ phase' = "answered"
      /\ UNCHANGED <<client, opened, call, req, found>>
  BY DEF Answer
<1>. QED
  BY <1>1 DEF AllInv, AnswerInv, LimitInv, ClientInv, NavInv, Answered, Accepted

LEMMA PostFields ==
    ASSUME AllInv, call \in Calls
    PROVE  /\ req.by.method = "POST" /\ req.by.zinc = TRUE /\ req.by.wellFormed = TRUE
           /\ req.by.tail = FALSE /\ req.op = "read"
           /\ req.by.auth => req.by.cred
  BY DEF AllInv, ClientInv, Post, Request

LEMMA RouteKeeps ==
    ASSUME AllInv, Route
    PROVE  AnswerInv' /\ LimitInv' /\ ClientInv' /\ NavInv'
<1>0. phase = "route" /\ phase # "idle"
  BY DEF Route
<1>1. call \in Calls => Known /\ req.op = "read" /\ (req.by.auth => req.by.cred)
  BY PostFields DEF Known, OpNames
<1>k. Text.kind # "grid" /\ Empty.kind # "grid"
  BY DEF Text, Empty
<1>2. CASE req.by.auth /\ ~req.by.cred /\ Answer(401, Text)
  <2>1. call \notin Calls
    BY <1>1, <1>2
  <2>2. 401 \in {200, 302} => (req.by.auth => req.by.cred)
    OBVIOUS
  <2>. QED
    BY <1>0, <1>k, <1>2, <2>1, <2>2, AnswerKeeps
<1>3. CASE req.by.auth => req.by.cred
  <2>1. CASE req.op = "" /\ Answer(302, Empty)
    <3>1. call \notin Calls
      BY <1>1, <2>1
    <3>. QED
      BY <1>0, <1>k, <1>3, <2>1, <3>1, AnswerKeeps
  <2>2. CASE req.op # "" /\ ~Known /\ Answer(404, Text)
    <3>1. call \notin Calls
      BY <1>1, <2>2
    <3>. QED
      BY <1>0, <1>k, <1>3, <2>2, <3>1, AnswerKeeps
  <2>3. CASE Known /\ Proceed("parse")
    <3>1. phase' = "parse" /\ UNCHANGED <<client, opened, call, req, res, effect, found>>
      BY <2>3 DEF Proceed
    <3>. QED
      BY <1>0, <1>3, <3>1 DEF AllInv, AnswerInv, LimitInv, ClientInv, NavInv, Answered
  <2>4. \/ Answer(401, Text) /\ req.by.auth /\ ~req.by.cred
        \/ req.op = "" /\ Answer(302, Empty)
        \/ req.op # "" /\ ~Known /\ Answer(404, Text)
        \/ Known /\ Proceed("parse")
    BY DEF Route
  <2>. QED
    BY <1>3, <2>1, <2>2, <2>3, <2>4
<1>. QED
  BY <1>2, <1>3 DEF Route

LEMMA ParseKeeps ==
    ASSUME AllInv, GetToGrid \/ PostToGrid \/ OtherMethod
    PROVE  AnswerInv' /\ LimitInv' /\ ClientInv' /\ NavInv'
<1> USE DEF Text, Empty
<1>0. phase = "parse"
  BY DEF GetToGrid, PostToGrid, OtherMethod
<1>1. CASE SendStatus
  <2>1. phase' = "serve" /\ UNCHANGED <<client, opened, call, req, effect, found>>
    BY <1>1 DEF SendStatus
  <2>. QED
    BY <1>0, <2>1 DEF AllInv, AnswerInv, LimitInv, ClientInv, NavInv, Answered
<1>2. CASE ~SendStatus
  <2>1. call \notin Calls
    BY <1>2, PostFields DEF GetToGrid, PostToGrid, OtherMethod
  <2>2. Answer(500, Text) \/ Answer(0, Empty) \/ Answer(406, Empty)
    BY <1>2 DEF GetToGrid, PostToGrid, OtherMethod, FailBeforeSend
  <2>. QED
    BY <1>0, <2>1, <2>2, AnswerKeeps
<1>. QED
  BY <1>1, <1>2

LEMMA ServeKeeps ==
    ASSUME AllInv, Serve
    PROVE  AnswerInv' /\ LimitInv' /\ ClientInv' /\ NavInv'
<1>1. phase = "serve" /\ req.op \in OpNames /\ res.status = 200
  BY DEF Serve, AllInv, Inv, ProgressInv
<1>2. PICK outcome \in Outcomes(req.op, req.grid) :
        \/ Finish(outcome, BodyOf(outcome))
        \/ outcome.kind = "end" /\ GoDown(outcome)
  BY DEF Serve, BodyOf
<1>3. CASE Finish(outcome, BodyOf(outcome))
  <2>1. /\ res'.status = 200 /\ res'.body = BodyOf(outcome) /\ phase' = "answered"
        /\ UNCHANGED <<client, opened, call, req, found>>
    BY <1>1, <1>3 DEF Finish
  <2>2. AnswerInv'
    BY <1>1, <2>1 DEF AnswerInv, BodyOf, Empty, ErrGrid
  <2>3. call \in Calls => outcome = Read(req.grid)
    BY PostFields DEF Outcomes
  <2>. QED
    BY <1>1, <2>1, <2>2, <2>3 DEF AllInv, LimitInv, ClientInv, NavInv, Answered, Accepted
<1>4. CASE outcome.kind = "end" /\ GoDown(outcome)
  <2>1. phase' = "down" /\ UNCHANGED <<client, opened, call, req, found>>
    BY <1>4 DEF GoDown
  <2>. QED
    BY <1>1, <2>1 DEF AllInv, AnswerInv, LimitInv, ClientInv, NavInv, Answered
<1>. QED
  BY <1>2, <1>3, <1>4

LEMMA ReceiveKeeps ==
    ASSUME AllInv, Receive
    PROVE  AnswerInv' /\ LimitInv' /\ ClientInv' /\ NavInv'
<1>1. phase = "answered" /\ phase' = "idle" /\ call' = NoCall
  BY DEF Receive
<1>2. AnswerInv' /\ LimitInv'
  BY <1>1 DEF AnswerInv, LimitInv, Answered
<1>3. ClientInv'
  <2>1. opened' = (opened \/ (call = OpenCall /\ Accepted)) /\ UNCHANGED client
    BY DEF Receive
  <2>2. GetRoot(client).by.auth = client.auth /\ GetRoot(client).by.cred = client.cred
    BY DEF GetRoot, Request
  <2>3. call = OpenCall /\ Accepted => (client.auth => client.cred)
    BY <1>1, <2>2 DEF AllInv, ClientInv, Answered
  <2>4. opened' /\ client'.auth => client'.cred
    BY <2>1, <2>3 DEF AllInv, ClientInv
  <2>5. NoCall # OpenCall
    <3>1. NoCall.m = "none" /\ OpenCall.m = "open"
      BY DEF NoCall, OpenCall
    <3>. QED
      BY <3>1
  <2>. QED
    BY <1>1, <2>4, <2>5, CallsTyped DEF ClientInv, Answered
<1>4. NavInv'
  <2>1. found' = found \cup ChildrenShown
    BY DEF Receive
  <2>2. ASSUME NEW p \in ChildrenShown PROVE Edge(p[1], p[2])
    <3>1. req.op = "nav" /\ res.body.kind = "grid"
      BY <2>2 DEF ChildrenShown
    <3>2. PICK child \in ToSet(res.body.rows) : p = <<NavId(req.grid), child>>
      BY <2>2, <3>1 DEF ChildrenShown
    <3>3. PICK outcome \in Outcomes(req.op, req.grid) : res.body = GridBody(outcome.rows)
      BY <1>1, <3>1 DEF AllInv, AnswerInv, Answered
    <3>4. outcome = OnNav(NavId(req.grid))
      BY <3>1, <3>3 DEF Outcomes, Nav
    <3>5. IsAmong(child, OnNav(NavId(req.grid)).rows)
      BY <3>2, <3>3, <3>4 DEF GridBody, ToSet, IsAmong
    <3>. QED
      BY <3>2, <3>5, NavEdges
  <2>. QED
    BY <2>1, <2>2 DEF AllInv, NavInv
<1>. QED
  BY <1>2, <1>3, <1>4

LEMMA AllInvHolds == Spec => []AllInv
<1>1. Init => AllInv
  <2> SUFFICES ASSUME Init PROVE AllInv
    OBVIOUS
  <2>1. phase = "idle" /\ call = NoCall /\ opened = FALSE /\ found = {}
    BY DEF Init
  <2>2. NoCall # OpenCall
    <3>1. NoCall.m = "none" /\ OpenCall.m = "open"
      BY DEF NoCall, OpenCall
    <3>. QED
      BY <3>1
  <2>. QED
    BY InitInv, <2>1, <2>2, CallsTyped
    DEF AllInv, AnswerInv, LimitInv, ClientInv, NavInv, Answered
<1>2. AllInv /\ [Next]_vars => AllInv'
  <2> SUFFICES ASSUME AllInv, [Next]_vars PROVE AllInv'
    OBVIOUS
  <2>1. Inv'
    BY StepKeepsInv DEF AllInv
  <2>2. ASSUME UNCHANGED vars PROVE AnswerInv' /\ LimitInv' /\ ClientInv' /\ NavInv'
    BY <2>2 DEF vars, AllInv, AnswerInv, LimitInv, ClientInv, NavInv, Answered, Accepted
  <2>. QED
    BY <2>1, <2>2, SendKeeps, RouteKeeps, ParseKeeps, ServeKeeps, ReceiveKeeps
    DEF Next, AllInv
<1>. QED
  BY <1>1, <1>2, PTL DEF Spec

(* Whatever nav has been asked and in whatever order, no record has been   *)
(* shown under two nodes, and whoever has followed up on all that was shown*)
(* has been shown every record: for any sites of the demo project.         *)
THEOREM NavAlwaysTree == Spec => []NavIsTree
<1>1. AllInv => NavIsTree
  BY NavInvIsTree DEF AllInv
<1>. QED
  BY <1>1, AllInvHolds, PTL

(* A read by filter answers with a beginning of what matches, and leaves   *)
(* something out only when it has as many as were asked for.               *)
THEOREM AlwaysEnoughRows == Spec => []EnoughRows
<1>1. AllInv => EnoughRows
  <2> SUFFICES ASSUME AllInv, Answered, req.op = "read", res.body.kind = "grid",
                      HasCell(req.grid.rows[1], "filter")
               PROVE  /\ IsPrefix(res.body.rows, Matches(req.grid.rows[1]["filter"]))
                      /\ \/ res.body.rows = Matches(req.grid.rows[1]["filter"])
                         \/ Len(res.body.rows) >= Limit(req.grid.rows[1])
    BY DEF EnoughRows
  <2>1. PICK row : row = req.grid.rows[1]
    OBVIOUS
  <2>2. PICK outcome \in Outcomes(req.op, req.grid) :
           outcome.kind = "grid" /\ res.body = GridBody(outcome.rows)
    BY DEF AllInv, AnswerInv
  <2>a. outcome = Read(req.grid)
    BY <2>2 DEF Outcomes
  <2>b. res.body.rows = outcome.rows
    BY <2>2 DEF GridBody
  <2>3. req.grid.rows # <<>>
    BY <2>2, <2>a DEF Read, Checked, Raise
  <2>4. PICK n \in Nat : n = Limit(row)
    BY <2>1, <2>3 DEF AllInv, LimitInv, Answered
  <2>5. outcome = OnReadAll(row["filter"], n)
    BY <2>1, <2>a, <2>3, <2>4 DEF Read, Checked
  <2>6. PICK s \in Seq(Ids) : s = Matches(row["filter"])
    BY MatchesElements
  <2>7. outcome.rows = Clip(s, n + 1)
    BY <2>2, <2>5, <2>6 DEF OnReadAll, Grid, Throw
  <2>8. /\ IsPrefix(Clip(s, n + 1), s)
        /\ Clip(s, n + 1) = s \/ Len(Clip(s, n + 1)) >= n
    BY ClipPrefix
  <2>. QED
    BY <2>1, <2>2, <2>b, <2>4, <2>6, <2>7, <2>8
<1>. QED
  BY <1>1, AllInvHolds, PTL

(* The ids of a request by ids are the ids of the call. *)
LEMMA IdsSent ==
    ASSUME NEW S, NEW ids \in Seq(S)
    PROVE  ReadIds([i \in DOMAIN ids |-> [id |-> ids[i]]]) = ids
<1>1. PICK R : R = {[id |-> x] : x \in S}
  OBVIOUS
<1>2. DOMAIN ids = 1..Len(ids) /\ Len(ids) \in Nat /\ \A i \in DOMAIN ids : ids[i] \in S
  OBVIOUS
<1>3. PICK rows : rows = [i \in DOMAIN ids |-> [id |-> ids[i]]]
  OBVIOUS
<1>4. /\ rows \in Seq(R) /\ DOMAIN rows = DOMAIN ids
      /\ \A i \in DOMAIN rows : rows[i] = [id |-> ids[i]]
  BY <1>1, <1>2, <1>3
<1>5. \A i \in DOMAIN rows : HasCell(rows[i], "id") /\ rows[i]["id"] = ids[i]
  BY <1>4 DEF HasCell
<1>6. PICK P : P = {i \in DOMAIN rows : HasCell(rows[i], "id")}
  OBVIOUS
<1>7. Selected(rows, P) = rows
  BY <1>4, <1>5, <1>6, SelectedAll
<1>8. ReadIds(rows) = [i \in DOMAIN rows |-> rows[i]["id"]]
  BY <1>6, <1>7 DEF ReadIds
<1>9. ReadIds(rows) = [i \in DOMAIN ids |-> ids[i]]
  BY <1>4, <1>5, <1>8
<1>10. ids = [i \in DOMAIN ids |-> ids[i]]
  OBVIOUS
<1>. QED
  BY <1>3, <1>9, <1>10

(* The calls for which the client raises and the server does not *)
RaisesInstead(c) ==
    \/ c.m = "read_by_id" /\ ~c.checked /\ c.ids[1] \notin Ids
    \/ c.m = "read_by_ids" /\ c.ids = <<>>

(* What the server does with the grid that the client makes of a call. *)
LEMMA WireCall ==
    ASSUME NEW c \in Calls
    PROVE  OnClient(c, FromOutcome(Read(RequestGrid(c))))
             = IF RaisesInstead(c) THEN Raised ELSE OnServer(c)
<1> DEFINE g == RequestGrid(c)
<1>1. CASE c.m \in {"read_by_id", "read_by_ids"}
  <2>1. g.rows = [i \in DOMAIN c.ids |-> [id |-> c.ids[i]]]
    BY <1>1 DEF RequestGrid
  <2>2. DOMAIN c.ids = 1..Len(c.ids) /\ Len(c.ids) \in Nat
    BY CallsTyped
  <2>3. CASE c.ids = <<>>
    <3>0. Len(c.ids) = 0 /\ (c.m = "read_by_id" => Len(c.ids) = 1)
      BY <2>3, CallsTyped
    <3>1. c.m = "read_by_ids"
      BY <1>1, <3>0
    <3>2. g.rows = <<>>
      BY <2>1, <2>3
    <3>3. Read(g) = Raise
      BY <3>2 DEF Read, Checked
    <3>. QED
      BY <2>3, <3>1, <3>3 DEF FromOutcome, Raise, OnClient, RaisesInstead
  <2>4. CASE c.ids # <<>>
    <3>1. 1 \in DOMAIN c.ids
      BY <2>2, <2>4, CallsTyped
    <3>2. g.rows # <<>> /\ g.rows[1] = [id |-> c.ids[1]]
      BY <2>1, <3>1
    <3>3. HasCell(g.rows[1], "id") /\ ~HasCell(g.rows[1], "filter")
      BY <3>2 DEF HasCell
    <3>4. ReadIds(g.rows) = c.ids
      BY <2>1, IdsSent, CallsTyped
    <3>5. Read(g) = OnReadByIds(c.ids)
      BY <3>2, <3>3, <3>4 DEF Read, Checked
    <3>6. CASE c.m = "read_by_ids"
      BY <2>4, <3>5, <3>6 DEF OnClient, OnServer, RaisesInstead
    <3>7. CASE c.m = "read_by_id"
      <4>0. Len(c.ids) = 1
        BY <3>7, CallsTyped
      <4>a. 1..1 = {1}
        OBVIOUS
      <4>1. DOMAIN c.ids = {1}
        BY <2>2, <4>0, <4>a
      <4>2. CASE c.ids[1] \in Ids
        <5>1. OnReadByIds(c.ids) = Grid(c.ids)
          BY <4>1, <4>2 DEF OnReadByIds
        <5>2. FromOutcome(Read(g)) = Rows(c.ids)
          BY <3>5, <5>1 DEF FromOutcome, Grid
        <5>3. Rows(c.ids) # Raised /\ Rows(c.ids).rows = c.ids
          BY DEF Rows, Raised
        <5>4. ReadFirst(Rows(c.ids), FALSE) = Dict(c.ids[1])
          BY <2>4, <5>3 DEF ReadFirst
        <5>. QED
          BY <3>7, <4>2, <5>2, <5>4 DEF OnClient, OnServer, RaisesInstead
      <4>3. CASE c.ids[1] \notin Ids
        <5>1. OnReadByIds(c.ids) = Throw
          BY <4>1, <4>3 DEF OnReadByIds
        <5>2. FromOutcome(Read(g)) = Raised
          BY <3>5, <5>1 DEF FromOutcome, Throw
        <5>3. Raised # Null
          BY DEF Raised, Null
        <5>4. OnClient(c, Raised) = Raised
          BY <3>7, <5>3 DEF OnClient, ReadFirst, ReadById
        <5>. QED
          BY <3>7, <4>3, <5>2, <5>4 DEF OnServer, RaisesInstead, ReadById
      <4>. QED
        BY <4>2, <4>3
    <3>. QED
      BY <1>1, <3>6, <3>7
  <2>. QED
    BY <2>3, <2>4
<1>2. CASE c.m \in {"read_all", "read"}
  <2>1. PICK row : row = [filter |-> c.filter, limit |-> ToNum(c.limit)]
    OBVIOUS
  <2>2. g.rows = <<row>>
    BY <1>2, <2>1 DEF RequestGrid, OneRow
  <2>3. /\ HasCell(row, "filter") /\ HasCell(row, "limit")
        /\ row["filter"] = c.filter /\ row["limit"] = ToNum(c.limit)
    BY <2>1 DEF HasCell
  <2>4. Limit(row) = c.limit
    BY <2>3, SizeSurvives, CallsTyped DEF Limit
  <2>5. g.rows # <<>> /\ g.rows[1] = row
    BY <2>2
  <2>6. Read(g) = OnReadAll(c.filter, c.limit)
    BY <2>3, <2>4, <2>5 DEF Read, Checked
  <2>. QED
    BY <1>2, <2>6 DEF OnClient, OnServer, RaisesInstead
<1>. QED
  BY <1>1, <1>2, CallsTyped

(* A call on the client gives what the same call gives on the server, for  *)
(* any records, calls, base address and credentials; if it is not settled, *)
(* no record that was not asked for.                                       *)
THEOREM WireAlwaysAgrees == Spec => []WireAgrees
<1>1. AllInv => WireAgrees
  <2> SUFFICES ASSUME AllInv, Answered, call \in Calls
               PROVE  LET result == OnClient(call, Received)
                      IN \/ result = OnServer(call)
                         \/ /\ Unsettled(call)
                            /\ ToSet(result.rows) \subseteq ToSet(call.ids) \cup {NoId}
    BY DEF WireAgrees
  <2>1. Accepted /\ res.body = BodyOf(Read(req.grid))
    BY DEF AllInv, ClientInv
  <2>2. req.grid = RequestGrid(call)
    BY DEF AllInv, ClientInv, Post, Request
  <2>3. Received = FromOutcome(Read(RequestGrid(call)))
    BY <2>1, <2>2 DEF Received, FromOutcome, BodyOf, GridBody, ErrGrid, Empty
  <2>4. CASE RaisesInstead(call)
    <3>1. OnClient(call, Received) = Raised /\ Unsettled(call)
      BY <2>3, <2>4, WireCall DEF RaisesInstead, Unsettled
    <3>2. ToSet(Raised.rows) = {}
      BY DEF Raised, ToSet
    <3>. QED
      BY <3>1, <3>2
  <2>5. CASE ~RaisesInstead(call)
    BY <2>3, <2>5, WireCall
  <2>. QED
    BY <2>4, <2>5
<1>. QED
  BY <1>1, AllInvHolds, PTL
=============================================================================
