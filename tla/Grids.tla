------------------------------- MODULE Grids -------------------------------
(* Dicts and grids, the text the Zinc writer makes of a grid and the grid    *)
(* the Zinc reader makes of the text: a program builds a grid, writes it, the *)
(* text goes over a connection that may break, and another program reads it, *)
(* a tag, a column or a cell at a time.                                      *)
EXTENDS Zinc

CONSTANTS
  Order,       \* the names of tags and columns, in the order of std::map
  MetaVals,    \* values a program puts into the meta of grids and columns
  Cells,       \* values it puts into rows
  Records,     \* dicts it makes grids of
  Message,     \* what an error grid tells
  MaxCols, MaxRows,
  Allowed(_)   \* a bound on the grids that are built

Names == Range(Order)
NoTags == [n \in {} |-> Empty]
IsTagName(n) == n # <<>> /\ n[1] \in IdStart /\ \A i \in DOMAIN n : n[i] \in Id

ASSUME OrderAssumption ==
  /\ Order \in Seq(Seq(STRING)) /\ \A n \in Names : IsTagName(n)
  /\ \A i, j \in DOMAIN Order : Order[i] = Order[j] => i = j
  /\ {<<"err">>, <<"dis">>, <<"errTrace">>, <<"empty">>} \subseteq Names

ASSUME ValuesAssumption ==
  /\ \A v \in MetaVals \union Cells : IsValue(v)
  /\ \A d \in Records : /\ DOMAIN d \subseteq Names /\ d = [n \in DOMAIN d |-> d[n]]
                        /\ \A n \in DOMAIN d : IsValue(d[n])
  /\ IsText(Message)

VARIABLES
  phase,       \* how far the grid has got
  made,        \* the dicts the grid was made of, none for one built by hand
  grid,        \* the grid of the writing program
  text,        \* what is left to read of the text
  cut,         \* the connection broke before the whole text was over
  got,         \* the grid of the reading program
  cells        \* the row it is reading

vars == <<phase, made, grid, text, cut, got, cells>>

-----------------------------------------------------------------------------
\* Dict.  add never replaces, and a tag that is there may be empty.
Add(d, n, v) ==
  IF n \in DOMAIN d THEN d
  ELSE [m \in DOMAIN d \union {n} |-> IF m = n THEN v ELSE d[m]]
Get(d, n) == IF n \in DOMAIN d THEN d[n] ELSE Empty
TagNames(d) == Selected(Order, {i \in DOMAIN Order : Order[i] \in DOMAIN d})

\* Dict::operator==
SameDict(d, e) ==
  /\ Cardinality(DOMAIN d) = Cardinality(DOMAIN e)
  /\ \A n \in DOMAIN d : Same(d[n], Get(e, n))

-----------------------------------------------------------------------------
(* Grids: meta, columns with a name and a meta, rows of cells.               *)
NewGrid == [meta |-> NoTags, cols |-> <<>>, rows |-> <<>>]
ColNames(g) == [i \in DOMAIN g.cols |-> g.cols[i].name]

\* m_cols_by_name: the column that was added under a name.
ColIndex(g, n) == {i \in DOMAIN g.cols : g.cols[i].name = n}

\* Faulty: a second column of the same name.
CanAddColTwice(g, n) == g.rows = <<>> /\ IsTagName(n)

CanAddCol(g, n) == g.rows = <<>> /\ IsTagName(n) /\ ColIndex(g, n) = {}
WithCol(g, n) == [g EXCEPT !.cols = Append(@, [name |-> n, meta |-> NoTags])]
WithRow(g, row) == [g EXCEPT !.rows = Append(@, row)]

\* Row::get(Col): a row that is shorter than the grid is wide is empty there.
Cell(g, r, i) == IF i \in DOMAIN g.rows[r] THEN g.rows[r][i] ELSE Empty

\* Row::to_dict: a tag for every column, empty cells too.
ToDict(g, r) == [n \in Range(ColNames(g)) |-> Cell(g, r, CHOOSE i \in ColIndex(g, n) : TRUE)]

\* Row::operator==
RowIs(g, r, d) ==
  /\ Len(g.cols) = Cardinality(DOMAIN d)
  /\ \A i \in DOMAIN g.cols : Same(Cell(g, r, i), Get(d, g.cols[i].name))

\* Faulty: the cells in the order of the dict, not of the columns.
WithRecordAsIs(g, d) ==
  IF d = NoTags THEN g ELSE WithRow(g, [i \in DOMAIN TagNames(d) |-> d[TagNames(d)[i]]])

\* The private add_row: nothing for a dict without tags.
WithRecord(g, d) ==
  IF d = NoTags THEN g ELSE WithRow(g, [i \in DOMAIN g.cols |-> Get(d, g.cols[i].name)])

\* Grid::make: the columns are the tags of all dicts, as they first come up.
WithCols(names) ==
  LET upTo[k \in 0..Len(names)] ==
        IF k = 0 THEN NewGrid
        ELSE IF ColIndex(upTo[k - 1], names[k]) = {} THEN WithCol(upTo[k - 1], names[k])
        ELSE upTo[k - 1]
  IN  upTo[Len(names)]

WithRecords(g, dicts) ==
  LET upTo[k \in 0..Len(dicts)] == IF k = 0 THEN g ELSE WithRecord(upTo[k - 1], dicts[k])
  IN  upTo[Len(dicts)]

Made(dicts) ==
  WithRecords(WithCols(FlattenSeq([i \in 1..Len(dicts) |-> TagNames(dicts[i])])), dicts)

\* Grid::make_err
ErrorGrid(message) ==
  WithCol([NewGrid EXCEPT !.meta =
             Add(Add(Add(NoTags, <<"err">>, Marker), <<"dis">>, Str(message)),
                 <<"errTrace">>, Str(<<>>))], <<"empty">>)

-----------------------------------------------------------------------------
(* ZincWriter.                                                               *)
TagText(n, v) == n \o IF v = Marker THEN <<>> ELSE <<":">> \o ToZinc(v)

MetaText(d) ==
  FlattenSeq([i \in 1..Len(TagNames(d)) |->
                <<" ">> \o TagText(TagNames(d)[i], d[TagNames(d)[i]])])

Commas(texts) ==
  FlattenSeq([i \in 1..Len(texts) |-> (IF i = 1 THEN <<>> ELSE <<",">>) \o texts[i]])

\* Faulty: an empty cell is never written.
RowTextBare(g, r) == Commas([i \in 1..Len(g.cols) |-> ToZinc(Cell(g, r, i))])

\* write_row: only the first cell of a row says that it is empty.
RowText(g, r) ==
  Commas([i \in 1..Len(g.cols) |->
            IF Cell(g, r, i) = Empty /\ i = 1 THEN <<"N">> ELSE ToZinc(Cell(g, r, i))])

Version == <<"ver", ":", "\"", "2.0", "\"">>

GridText(g) ==
  Version \o MetaText(g.meta) \o <<"\n">>
  \o Commas([i \in 1..Len(g.cols) |-> g.cols[i].name \o MetaText(g.cols[i].meta)])
  \o <<"\n">>
  \o FlattenSeq([r \in 1..Len(g.rows) |-> Append(RowText(g, r), "\n")])

TagValues(g) == Range(g.meta) \union UNION {Range(g.cols[i].meta) : i \in DOMAIN g.cols}
ValuesOf(g) == TagValues(g) \union {Cell(g, r, i) : r \in DOMAIN g.rows, i \in DOMAIN g.cols}

-----------------------------------------------------------------------------
(* ZincReader::read_grid.                                                    *)
Go(next, t, g) ==
  /\ phase' = next /\ text' = t /\ got' = g
  /\ UNCHANGED <<made, grid, cut, cells>>

Stop(how) ==
  /\ phase' = IF how = "crash" THEN "crashed" ELSE "raised"
  /\ UNCHANGED <<made, grid, text, cut, got, cells>>

\* read_ver
ReadVer ==
  /\ phase = "header"
  /\ IF IsPrefix(Version, text) THEN Go("meta", SkipSpace(Drop(text, Len(Version))), got)
     ELSE Stop("raise")

\* One turn of read_meta, in the meta of the grid or of its last column.
WithTag(n, v) ==
  IF phase = "meta" THEN [got EXCEPT !.meta = Add(@, n, v)]
  ELSE [got EXCEPT !.cols[Len(got.cols)].meta = Add(@, n, v)]

ReadTag ==
  /\ phase \in {"meta", "colmeta"} /\ Name(text) # <<>>
  /\ LET name == Name(text)
         rest == SkipSpace(Drop(text, Len(name)))
     IN  \E val \in {ReadVal(SkipSpace(Drop(rest, 1)), FALSE)} :
           IF Cur(rest) # ":" THEN Go(phase, rest, WithTag(name, Marker))
           ELSE IF val.out # "ok" THEN Stop(val.out)
           \* a null pointer is refused by ptr_map
           ELSE IF val.val = Empty THEN Stop("raise")
           ELSE Go(phase, SkipSpace(val.rest), WithTag(name, val.val))

\* The end of the first line, and of a grid without columns.
ReadMetaEnd ==
  /\ phase = "meta" /\ Name(text) = <<>>
  /\ IF Cur(text) # "\n" THEN Stop("raise")
     ELSE Go(IF Peek(text) = "\n" THEN "read" ELSE "cols", Drop(text, 1), got)

ReadCol ==
  /\ phase = "cols"
  /\ LET name == Name(text)
     IN  IF CanAddCol(got, name)
         THEN Go("colmeta", SkipSpace(Drop(text, Len(name))), WithCol(got, name))
         ELSE Stop("raise")

\* A comma or the end of the line behind the meta of a column.
ReadColEnd ==
  /\ phase = "colmeta" /\ Name(text) = <<>>
  /\ IF Cur(text) = "," THEN Go("cols", SkipSpace(Drop(text, 1)), got)
     ELSE IF Cur(text) = "\n" THEN Go("rows", Drop(text, 1), got)
     ELSE Stop("raise")

\* Faulty: a row may end with the text.
EndsRowLenient(t) == Cur(t) \in {"\n", "eof"}
EndsRow(t) == Cur(t) = "\n"

\* A cell and the comma behind it, or the end of the line behind the last.
ReadCell ==
  /\ phase = "cells" \/ (phase = "rows" /\ Cur(text) \notin {"\n", "eof"})
  /\ LET here == SkipSpace(text)
     IN  \E val \in {IF Cur(here) \in {",", "\n"} THEN Got(Empty, here) ELSE ReadVal(here, FALSE)} :
         LET rest == SkipSpace(val.rest)
             row == Append(cells, val.val)
             last == Len(row) = Len(got.cols)
         IN  IF val.out # "ok" THEN Stop(val.out)
             ELSE IF ~(IF last THEN EndsRow(rest) ELSE Cur(rest) = ",") THEN Stop("raise")
             ELSE /\ phase' = IF last THEN "rows" ELSE "cells"
                  /\ text' = Drop(rest, 1)
                  /\ got' = IF last THEN WithRow(got, row) ELSE got
                  /\ cells' = IF last THEN <<>> ELSE row
                  /\ UNCHANGED <<made, grid, cut>>

\* Rows are read until an empty line or the end of the text.
ReadEnd ==
  /\ phase = "rows" /\ Cur(text) \in {"\n", "eof"}
  /\ Go("read", text, got)

-----------------------------------------------------------------------------
(* The writing program.                                                      *)
Building == phase = "build" /\ made = <<>>

Build(g) == Allowed(g) /\ grid' = g /\ UNCHANGED <<phase, made, text, cut, got, cells>>

AddMeta(n, v) ==
  Building /\ grid.cols = <<>> /\ Build([grid EXCEPT !.meta = Add(@, n, v)])

AddCol(n) == Building /\ Len(grid.cols) < MaxCols /\ CanAddCol(grid, n) /\ Build(WithCol(grid, n))

\* add_col gives the meta of the new column to put tags into.
AddColMeta(n, v) ==
  /\ Building /\ grid.cols # <<>> /\ grid.rows = <<>>
  /\ Build([grid EXCEPT !.cols[Len(grid.cols)].meta = Add(@, n, v)])

\* add_row with an array of cells, which may be shorter than the grid is wide.
AddRow(row) ==
  /\ Building /\ grid.cols # <<>> /\ Len(grid.rows) < MaxRows
  /\ Build(WithRow(grid, row))

MakeGrid(dicts) ==
  /\ Building /\ grid = NewGrid
  /\ made' = dicts /\ grid' = Made(dicts)
  /\ UNCHANGED <<phase, text, cut, got, cells>>

MakeError == Building /\ grid = NewGrid /\ Build(ErrorGrid(Message))

\* grid_to_string; the text is gone when a value in it cannot be written.
Write ==
  /\ phase = "build"
  /\ IF \A v \in ValuesOf(grid) : Writable(v)
     THEN phase' = "header" /\ text' = GridText(grid)
     ELSE phase' = "unwritten" /\ text' = text
  /\ UNCHANGED <<made, grid, cut, got, cells>>

\* The connection ends after n symbols.
Cut(n) ==
  /\ phase = "header" /\ ~cut
  /\ cut' = TRUE /\ text' = SubSeq(text, 1, n)
  /\ UNCHANGED <<phase, made, grid, got, cells>>

Init ==
  /\ phase = "build" /\ made = <<>> /\ grid = NewGrid
  /\ text = <<>> /\ cut = FALSE /\ got = NewGrid /\ cells = <<>>

Next ==
  \/ \E n \in Names, v \in MetaVals : AddMeta(n, v) \/ AddColMeta(n, v)
  \/ \E n \in Names : AddCol(n)
  \/ \E k \in 0..Len(grid.cols) : \E row \in [1..k -> Cells] : AddRow(row)
  \/ \E k \in 1..MaxRows : \E dicts \in [1..k -> Records] : MakeGrid(dicts)
  \/ MakeError
  \/ Write
  \/ \E n \in 0..Len(text) - 1 : Cut(n)
  \/ ReadVer \/ ReadTag \/ ReadMetaEnd \/ ReadCol \/ ReadColEnd \/ ReadCell \/ ReadEnd

Spec == Init /\ [][Next]_vars

-----------------------------------------------------------------------------
(* What is promised.                                                         *)

\* Values that come back from Zinc as they were.  The others: a Num of more
\* digits than are printed of it, a Num printed with an exponent behind a lone
\* digit, a unit that begins with an underscore or that is not printed, a
\* coordinate that a product with a million cuts, a Uri with a backslash, a Bin
\* of several lines, and a DateTime with another offset than its zone has.
UriCloses(v) == v.kind = "uri" => "\\" \notin Range(v.text)

Faithful(v) ==
  /\ v.kind = "num" =>
       /\ Rounded(v.text) = v.text
       /\ ~(Len(v.text) > 1 /\ v.text[1] \in OneDigit /\ v.text[2] = "e")
       /\ v.more = <<>> \/ (v.more[1] # "_" /\ v.text \notin Unlimited)
  /\ v.kind = "coord" => "1.001" \notin {v.text[1], v.more[1]}
  /\ UriCloses(v)
  /\ v.kind = "bin" => Range(v.text) \intersect {"\n", "\r"} = {}
  /\ v.kind = "datetime" => Offset(v) = ZoneOffset(Zone(v))

\* An empty value can only stand in a cell: in a meta it is written as nothing
\* behind a colon, which the reader refuses.
MetaIsFull(g) == Empty \notin TagValues(g)

View(g) ==
  [meta |-> g.meta, cols |-> g.cols,
   rows |-> [r \in DOMAIN g.rows |-> [i \in DOMAIN g.cols |-> Cell(g, r, i)]]]

Meant == MetaIsFull(grid) /\ \A v \in ValuesOf(grid) : Faithful(v)

\* A grid that is written and read again is the same grid, whatever mixture of
\* empty cells, short rows, quoted text and tags it holds: write_grid and
\* read_grid agree on every separator.
WireKeepsGrid ==
  Meant /\ ~cut => /\ phase \notin {"raised", "crashed"}
                   /\ phase = "read" => View(got) = View(grid)

\* A text that is cut off anywhere is refused, or read as the grid without its
\* last rows: never with a row, a column or a tag that was not sent whole.
CutIsPrefix ==
  Meant /\ cut /\ phase = "read" =>
    /\ got.meta = grid.meta /\ got.cols = grid.cols
    /\ IsPrefix(View(got).rows, View(grid).rows)

\* No text a writer makes, whole or cut off, ends the reading process, as long
\* as every Uri in it ends where it should: behind a backslash the reader takes
\* its last quote for a part of it, and reads what follows from the middle.
NeverCrashes == (\A v \in ValuesOf(grid) : UriCloses(v)) => phase # "crashed"

\* A grid made of dicts has a row for each that is not empty, in their order,
\* with the tags of the dict; a row is == to its dict exactly when the dict has
\* a tag for every column.
RowsAreRecords ==
  made # <<>> =>
    LET whole == Selected(made, {i \in DOMAIN made : made[i] # NoTags})
    IN  /\ Len(grid.rows) = Len(whole)
        /\ \A r \in DOMAIN whole :
             /\ \A n \in DOMAIN whole[r] : ToDict(grid, r)[n] = whole[r][n]
             /\ RowIs(grid, r, ToDict(grid, r))
             /\ SameDict(ToDict(grid, r), whole[r]) <=> RowIs(grid, r, whole[r])
             /\ RowIs(grid, r, whole[r]) <=> DOMAIN whole[r] = Range(ColNames(grid))

\* Columns are found under their own name, in the grid that was built and in
\* every grid the reader is in the middle of.
ColsByName ==
  \A g \in {grid, got} : \A n \in Names :
     Cardinality(ColIndex(g, n)) = IF n \in Range(ColNames(g)) THEN 1 ELSE 0
=============================================================================
