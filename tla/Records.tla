------------------------------ MODULE Records -------------------------------
(***************************************************************************)
(* The records of the demo project, which never change once its constructor*)
(* has run, and the filters that requests evaluate on them.                *)
(*                                                                         *)
(* An id is the sequence of the names it is put together from:             *)
(* <<"A", "AHU1", "Fan">> is A-AHU1-Fan.  Of the tags of a record those are*)
(* kept that an operation asks for.  A ref that is absent is NoId.         *)
(***************************************************************************)
EXTENDS Selection, SequencesExt

CONSTANT Sites      \* the names of the sites, in the order of the map

ASSUME SitesAssumption == Sites \in Seq(STRING) /\ IsInjective(Sites)

NoId == <<>>

Site(s) == [id |-> s, tags |-> {"site", "tz"}, siteRef |-> NoId, equipRef |-> NoId]

Equip(s, name) == [id |-> s \o <<name>>, tags |-> {"equip"},
                   siteRef |-> s, equipRef |-> NoId]

(* Only the set point of a zone is tagged writable. *)
Point(equip, name) ==
    [id |-> equip.id \o <<name>>,
     tags |-> {"point", "his", "tz", "kind"}
              \cup (IF name = "ZoneSP" THEN {"writable"} ELSE {}),
     siteRef |-> equip.siteRef, equipRef |-> equip.id]

MeterPoints == <<"KW", "KWH">>
AhuPoints == <<"Cool", "DTemp", "Fan", "Heat", "RTemp", "ZoneSP">>

WithPoints(equip, names) ==
    <<equip>> \o [i \in DOMAIN names |-> Point(equip, names[i])]

(* In the order of the map that holds them: by id *)
SiteRecs(s) ==
    <<Site(s)>> \o WithPoints(Equip(s, "AHU1"), AhuPoints)
                \o WithPoints(Equip(s, "AHU2"), AhuPoints)
                \o WithPoints(Equip(s, "Meter"), MeterPoints)

m_recs == FlattenSeq([i \in DOMAIN Sites |-> SiteRecs(<<Sites[i]>>)])

Ids == {m_recs[i].id : i \in DOMAIN m_recs}
Rec(id) == m_recs[CHOOSE i \in DOMAIN m_recs : m_recs[i].id = id]

(* The record exists and has the tag. *)
Has(id, tag) == id \in Ids /\ tag \in Rec(id).tags
-----------------------------------------------------------------------------
(* A filter is a tag and, where "via" names one, the value of a ref: *)
(* "equip and siteRef==@A".  A text that is no filter has the tag "(". *)

Tagged(tag) == [tag |-> tag, via |-> "none", to |-> NoId]
TaggedUnder(tag, via, to) == [tag |-> tag, via |-> via, to |-> to]
BadFilter == Tagged("(")

Include(f, r) == /\ f.tag \in r.tags
                 /\ f.via = "siteRef" => r.siteRef = f.to
                 /\ f.via = "equipRef" => r.equipRef = f.to

Matches(f) == Selected([i \in DOMAIN m_recs |-> m_recs[i].id],
                       {i \in DOMAIN m_recs : Include(f, m_recs[i])})
=============================================================================
