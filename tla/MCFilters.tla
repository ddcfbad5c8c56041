----------------------------- MODULE MCFilters -----------------------------
(* Filters of up to three conditions over paths of up to three names, and     *)
(* records that refer to one another and to one that is not there.           *)
EXTENDS Filters

McWords == {"a", "b", "r"}
A == <<"a">>
B == <<"b">>
R == <<"r">>
McPaths == {<<A>>, <<B>>, <<R>>, <<R, A>>, <<R, R, A>>}

McAscending == << <<"F">>, <<"T">>, <<"-", "3">>, <<"2">>, <<"3">>, <<"5">>, <<"10">>,
                  <<"10", "above">>, <<"2010", "10", "05">>, <<"2010", "11", "05">> >>
McAlphabetic == << <<"10">>, <<"2">>, <<"3">>, <<"5">> >>

Five == Num(<<"5">>, <<>>)
McRecs ==
  LET two == (A :> Marker) @@ (B :> Five) @@ (R :> Ref(<<"3">>, <<"a">>))
      three == (A :> Num(<<"10">>, <<>>)) @@ (B :> Bool(TRUE)) @@ (R :> Ref(<<"10">>, <<>>))
      ten == (A :> Num(<<"10">>, <<"b">>)) @@ (B :> Coord("37.5", "0.0"))
      eleven == (B :> Date("2010", "11", "05")) @@ (R :> Five)
  IN  (<<"2">> :> two) @@ (<<"3">> :> three) @@ (<<"10">> :> ten) @@ (<<"11">> :> eleven)

\* The same with a record whose ref leads nowhere.
McDatabases ==
  LET astray == (A :> Num(<<"2">>, <<>>)) @@ (R :> Ref(<<"5">>, <<>>))
  IN  {McRecs, (<<"23">> :> astray) @@ McRecs}

McAsked ==
  {Missing(B), Has(Joined(<<R, A>>)), Has(Joined(<<R, R, A>>)),
   Leaf("==", B, Bool(TRUE)), Leaf("!=", A, Num(<<"10">>, <<>>)),
   Leaf("==", R, Ref(<<"3">>, <<>>)), Leaf("<", B, Date("2010", "11", "05")),
   Leaf("<=", B, Five), Leaf(">", Joined(<<R, A>>), Num(<<"-", "3">>, <<>>)),
   Leaf("==", A, Marker), Leaf("<", A, Num(<<"10", "above">>, <<>>))}
=============================================================================
