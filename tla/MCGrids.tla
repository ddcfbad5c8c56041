------------------------------ MODULE MCGrids ------------------------------
(* Grids of up to two columns and two rows, over values that use every        *)
(* escape and every branch of the reader.                                    *)
EXTENDS Grids, TLC

McWords == {"dis", "err", "errTrace", "empty", "kW"}
McOrder == << <<"dis">>, <<"empty">>, <<"err">>, <<"errTrace">>, <<"err", "_", "2">> >>

Odd == {
  Num(<<"5", "e", "+", "10">>, <<>>), Num(<<"5">>, <<"_", "kW">>), Num(<<"2010", ".", "2", "above">>, <<"kW">>),
  Coord("1.001", "0.0"), Uri(<<"a", "\\", ":">>), Uri(<<"a", "\\">>), Uri(<<"ctl">>),
  Bin(<<"text", "/", ")">>), Bin(<<"text", "/", "\n">>), Num(<<"NaN">>, <<"kW">>),
  DateTime(Date("2010", "11", "05"), Time("23", "00", "02", "000"), <<"New_York">>, "-5")}

Common == {
  Empty, Marker, Bool(TRUE),
  Num(<<"5">>, <<"kW">>), Num(<<"-", "5", "e", "+", "10">>, <<>>),
  Num(<<"10", ".", "5">>, <<"%">>), Num(<<"NaN">>, <<>>), Num(<<"-", "INF">>, <<>>),
  Str(<<>>), Str(<<"\"", "\\", "\n", ",">>), Str(<<"ctl", "\\">>),
  Ref(<<"dis", ":", "2">>, <<>>), Ref(<<"2">>, <<"a", "\"">>),
  Uri(<<"a", Tick, ",">>), Bin(<<"text", "/", "err">>), Coord("37.5", "0.0"),
  Date("2010", "11", "05"), Time("23", "00", "02", "005"),
  DateTime(Date("2010", "11", "05"), Time("23", "00", "02", "005"), <<"UTC">>, "0"),
  DateTime(Date("2010", "11", "05"), Time("23", "00", "02", "000"), <<"GMT", "+", "2">>, "+2")}

McCells == Common \union Odd
McMetaVals == {Empty, Marker, Str(<<"\"">>), Ref(<<"2">>, <<>>)}
McMessage == <<"message", "\"">>
McRecords == {
  NoTags,
  <<"dis">> :> Str(<<"a">>),
  (<<"dis">> :> Marker) @@ (<<"err">> :> Num(<<"5">>, <<>>)),
  (<<"err">> :> Ref(<<"2">>, <<"a">>)) @@ (<<"empty">> :> Marker)}

\* Bounds: one tag in the metas and then one row; values beyond a few only in
\* grids of one cell without tags; columns of two names.
Few == {Empty, Str(<<"\"", "\\", "\n", ",">>), Ref(<<"2">>, <<"a">>)}

McTags(g) == Cardinality(DOMAIN g.meta) +
           FoldLeft(LAMBDA n, c : n + Cardinality(DOMAIN c.meta), 0, g.cols)

McAllowed(g) ==
  \/ g = ErrorGrid(McMessage)
  \/ /\ Range(ColNames(g)) \subseteq {<<"dis">>, <<"err", "_", "2">>}
     /\ McTags(g) <= 1
     /\ McTags(g) = 1 => Len(g.rows) <= 1 /\ Len(g.cols) <= 1
     /\ \/ UNION {Range(g.rows[r]) : r \in DOMAIN g.rows} \subseteq Few
        \/ Len(g.cols) = 1 /\ Len(g.rows) = 1 /\ McTags(g) = 0
=============================================================================
