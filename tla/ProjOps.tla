------------------------------ MODULE ProjOps -------------------------------
(***************************************************************************)
(* What the operations of the server that read, navigate, write a point or *)
(* its history and invoke an action do with a request grid, and the part   *)
(* of the project interface (Proj) that the server and the client share.   *)
(*                                                                         *)
(* A grid is its meta and its rows; a row has the cells that are not null. *)
(* An outcome is a grid, of whose rows the ids are kept, or an exception:  *)
(* "error" is a runtime_error and "exception" any other, or the end of the *)
(* process, which a read of memory that is not there may be.  Its effect   *)
(* is what the operation has done to the project.                          *)
(***************************************************************************)
EXTENDS Records

CONSTANT SizeMax    \* numeric_limits<size_t>::max(), above any number of rows

ASSUME SizeMaxAssumption == SizeMax \in Nat /\ SizeMax > Len(m_recs)

NoCells == [x \in {} |-> NoId]
EMPTY == [meta |-> NoCells, rows |-> <<>>]
OneRow(row) == [meta |-> NoCells, rows |-> <<row>>]
HasCell(row, name) == name \in DOMAIN row

Grid(rows) == [kind |-> "grid", rows |-> rows, effect |-> "none"]
Raise == [kind |-> "error", rows |-> <<>>, effect |-> "none"]
Throw == [kind |-> "exception", rows |-> <<>>, effect |-> "none"]
Die == [kind |-> "end", rows |-> <<>>, effect |-> "none"]

(* The outcome of an operation that has done something before *)
After(done, outcome) ==
    [kind |-> outcome.kind, rows |-> outcome.rows, effect |-> done]

(* A check that raises a runtime_error when it fails *)
Checked(condition, outcome) == IF condition THEN outcome ELSE Raise

(* A navigation path is looked up in a project that has none. *)
Uri == <<"/a">>
ValToId(val) == IF val = Uri THEN NoId ELSE val

(* A size_t on its way through the Num of a cell, which is a double: the   *)
(* largest one is sent as -1.  C++ leaves the conversion of what is below  *)
(* zero undefined; the compilers for x86-64 make it wrap around.           *)
ToNum(size) == IF size = SizeMax THEN -1 ELSE size

(* Faulty variant: the conversion stops at 0, as other processors do it. *)
ToSizeSaturating(num) == IF num < 0 THEN 0 ELSE num

ToSize(num) == IF num < 0 THEN SizeMax + 1 + num ELSE num
-----------------------------------------------------------------------------
(* Reading *)

(* The null of an unknown id is refused by the vector it is put into. *)
OnReadByIds(ids) ==
    IF \A i \in DOMAIN ids : ids[i] \in Ids THEN Grid(ids) ELSE Throw

Clip(rows, n) == IF Len(rows) > n THEN SubSeq(rows, 1, n) ELSE rows

(* Faulty variant: the loop leaves before it has reached the limit. *)
OnReadAllOneShort(f, limit) ==
    IF f = BadFilter THEN Throw ELSE Grid(Clip(Matches(f), limit - 1))

(* The loop leaves when the rows it has are more than the limit.  What the  *)
(* reader raises for a text that is no filter is cut down to an exception   *)
(* by the way Filter::make throws it again.                                 *)
OnReadAll(f, limit) ==
    IF f = BadFilter THEN Throw ELSE Grid(Clip(Matches(f), limit + 1))

Limit(row) == IF HasCell(row, "limit") THEN ToSize(row["limit"]) ELSE SizeMax

ReadIds(rows) ==
    LET withId == Selected(rows, {i \in DOMAIN rows : HasCell(rows[i], "id")})
    IN [i \in DOMAIN withId |-> withId[i]["id"]]

(* The first row decides whether the request is a filter or ids. *)
Read(g) ==
    LET row == g.rows[1]
    IN Checked(g.rows # <<>>,
               IF HasCell(row, "filter") THEN OnReadAll(row["filter"], Limit(row))
               ELSE IF HasCell(row, "id") THEN OnReadByIds(ReadIds(g.rows))
               ELSE Grid(<<>>))
-----------------------------------------------------------------------------
(* Navigation: sites, their equipment, its points.  The root is "". *)

Root == NoId

(* Faulty variant: the equipment of every site. *)
NavFilterAnySite(id) ==
    IF id = Root THEN Tagged("site")
    ELSE IF Has(id, "site") THEN Tagged("equip")
    ELSE IF Has(id, "equip") THEN TaggedUnder("point", "equipRef", id)
    ELSE Tagged("navNoChildren")

NavFilter(id) ==
    IF id = Root THEN Tagged("site")
    ELSE IF Has(id, "site") THEN TaggedUnder("equip", "siteRef", id)
    ELSE IF Has(id, "equip") THEN TaggedUnder("point", "equipRef", id)
    ELSE Tagged("navNoChildren")

OnNav(id) == Checked(id = Root \/ id \in Ids, OnReadAll(NavFilter(id), SizeMax))

(* A navId that is neither a Str nor a Uri counts as none. *)
NavId(g) == IF g.rows # <<>> /\ HasCell(g.rows[1], "navId")
            THEN g.rows[1]["navId"] ELSE Root

Nav(g) == OnNav(NavId(g))
-----------------------------------------------------------------------------
(* Writing points, reading and writing histories, actions *)

Levels == 1..17

(* The text of each level is read beyond the end of an empty literal: it is *)
(* whatever lies there, if anything does.                                   *)
LevelRows == [i \in Levels |-> NoId]

PointWriteArray(id) ==
    IF Has(id, "writable") THEN {Grid(LevelRows), Die} ELSE {Raise}

(* The message of a bad level is the literal "Invalid level 1-17: ", of 20  *)
(* characters, from that many characters on: for a level outside of it, it  *)
(* is read from memory that is not the literal's.                           *)
BadLevel(level) == IF level \in 0..20 THEN {Raise} ELSE {Raise, Die}

(* Faulty variant: the point is written before its tags are looked at. *)
WriteBeforeLookup(id, row) ==
    IF HasCell(row, "who") /\ row["level"] \notin Levels THEN BadLevel(row["level"])
    ELSE IF HasCell(row, "who") /\ row["who"] # ""
    THEN {After("point_write", array) : array \in PointWriteArray(id)}
    ELSE {Raise}

(* op.cpp reads the array after the write, whose checks include its own. *)
Write(id, row) ==
    IF HasCell(row, "who") /\ row["level"] \notin Levels THEN BadLevel(row["level"])
    ELSE IF HasCell(row, "who") /\ row["who"] # "" /\ Has(id, "writable")
    THEN {After("point_write", array) : array \in PointWriteArray(id)}
    ELSE {Raise}

PointWrite(g) ==
    LET row == g.rows[1]
        id == ValToId(row["id"])
    IN IF g.rows = <<>> \/ ~HasCell(row, "id") THEN {Raise}
       ELSE IF HasCell(row, "level") THEN Write(id, row) ELSE PointWriteArray(id)

(* What lies between the lookup and the answer compares instants; it either *)
(* passes or raises.  The rows are items and have no ids.                   *)
HisRead(g) ==
    LET row == g.rows[1]
        id == ValToId(row["id"])
        found == /\ g.rows # <<>> /\ HasCell(row, "id") /\ HasCell(row, "range")
                 /\ Has(id, "his") /\ Has(id, "tz") /\ Has(id, "kind")
                 /\ row["range"] = "today"
    IN {Checked(found, Grid(<<>>)), Raise}

(* Every way through hisWrite ends in a runtime_error: what the request     *)
(* lacks, what the record lacks, or on_his_write, which is unsupported.     *)
HisWrite(g) == Raise

InvokeAction(g) ==
    Checked(/\ HasCell(g.meta, "id") /\ HasCell(g.meta, "action")
            /\ ValToId(g.meta["id"]) \in Ids,
            After("invoke_action", Grid(<<>>)))

OpNames == {"about", "ops", "formats", "read", "nav", "pointWrite", "hisRead",
            "hisWrite", "invokeAction"}

(* Op::on_service of each operation: its possible outcomes.  The host name *)
(* that about asks for may not be found, which is no runtime_error.        *)
Outcomes(op, g) ==
    CASE op = "about" -> {Grid(<<NoId>>), Throw}
      [] op \in {"ops", "formats"} -> {Grid(<<NoId>>)}
      [] op = "read" -> {Read(g)}
      [] op = "nav" -> {Nav(g)}
      [] op = "pointWrite" -> PointWrite(g)
      [] op = "hisRead" -> HisRead(g)
      [] op = "hisWrite" -> {HisWrite(g)}
      [] op = "invokeAction" -> {InvokeAction(g)}
-----------------------------------------------------------------------------
(* Proj: a call of the interface, and what it makes of what the hooks of   *)
(* the server or of the client give it.                                    *)

Raised == [kind |-> "raised", rows |-> <<>>]
Null == [kind |-> "null", rows |-> <<>>]
Dict(id) == [kind |-> "dict", rows |-> <<id>>]
Rows(rows) == [kind |-> "rows", rows |-> rows]

ReadByIdCall(id, checked) ==
    [m |-> "read_by_id", ids |-> <<id>>, filter |-> BadFilter, limit |-> 0,
     checked |-> checked]
ReadByIdsCall(ids, checked) ==
    [m |-> "read_by_ids", ids |-> ids, filter |-> BadFilter, limit |-> 0,
     checked |-> checked]
ReadAllCall(f, limit) ==
    [m |-> "read_all", ids |-> <<>>, filter |-> f, limit |-> limit, checked |-> TRUE]
ReadCall(f, checked) ==
    [m |-> "read", ids |-> <<>>, filter |-> f, limit |-> 1, checked |-> checked]

(* Proj::read_by_id *)
ReadById(rec, checked) == IF rec = Null /\ checked THEN Raised ELSE rec

(* Proj::read *)
ReadFirst(grid, checked) ==
    IF grid = Raised THEN Raised
    ELSE IF grid.rows # <<>> THEN Dict(grid.rows[1])
    ELSE IF checked THEN Raised ELSE Null

FromOutcome(outcome) ==
    IF outcome.kind = "grid" THEN Rows(outcome.rows) ELSE Raised

(* The call on the server object.  No record is without an id, so that the *)
(* check of Proj::read_by_ids finds nothing.                               *)
OnServer(c) ==
    CASE c.m = "read_by_id" ->
            ReadById(IF c.ids[1] \in Ids THEN Dict(c.ids[1]) ELSE Null, c.checked)
      [] c.m = "read_by_ids" -> FromOutcome(OnReadByIds(c.ids))
      [] c.m = "read_all" -> FromOutcome(OnReadAll(c.filter, c.limit))
      [] c.m = "read" -> ReadFirst(FromOutcome(OnReadAll(c.filter, c.limit)), c.checked)

(* The grid that the client sends for a call, ... *)
RequestGrid(c) ==
    IF c.m \in {"read_by_id", "read_by_ids"}
    THEN [meta |-> NoCells, rows |-> [i \in DOMAIN c.ids |-> [id |-> c.ids[i]]]]
    ELSE OneRow([filter |-> c.filter, limit |-> ToNum(c.limit)])

(* ... and what it makes of the grid that comes back, or of its absence. *)
OnClient(c, grid) ==
    CASE c.m = "read_by_id" ->
            ReadById(ReadFirst(grid, FALSE), c.checked)
      [] c.m \in {"read_by_ids", "read_all"} -> grid
      [] c.m = "read" -> ReadFirst(grid, c.checked)
=============================================================================
