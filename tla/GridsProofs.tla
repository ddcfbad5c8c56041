---------------------------- MODULE GridsProofs -----------------------------
(* What holds of Grids for all values, names and sizes.                      *)
EXTENDS Grids, ZincProofs, FiniteSetTheorems

(* The shape of a grid with columns of different names. *)
HasCols(g) ==
  /\ g = [meta |-> g.meta, cols |-> g.cols, rows |-> g.rows]
  /\ \E S : g.cols \in Seq(S)
  /\ \A i \in DOMAIN g.cols :
        g.cols[i] = [name |-> g.cols[i].name, meta |-> g.cols[i].meta]
  /\ \A i, j \in DOMAIN g.cols : g.cols[i].name = g.cols[j].name => i = j

(* A grid without columns has this shape. *)
LEMMA NewGridHasCols == HasCols(NewGrid)
  <1>1. \A S : <<>> \in Seq(S)
    OBVIOUS
  <1> QED BY <1>1 DEF HasCols, NewGrid

(* What Append gives. *)
LEMMA AppendTo ==
  ASSUME NEW S, NEW s \in Seq(S), NEW x
  PROVE  /\ Append(s, x) \in Seq(S \union {x})
         /\ Len(s) \in Nat /\ DOMAIN s = 1..Len(s)
         /\ Len(Append(s, x)) = Len(s) + 1 /\ DOMAIN Append(s, x) = 1..Len(s) + 1
         /\ Append(s, x)[Len(s) + 1] = x
         /\ \A i \in 1..Len(s) : Append(s, x)[i] = s[i]
  <1> DEFINE T == S \union {x}
  <1>1. s \in Seq(T) /\ x \in T
    OBVIOUS
  <1> HIDE DEF T
  <1>2. Append(s, x) \in Seq(T)
    BY <1>1
  <1>3. /\ Len(s) \in Nat /\ DOMAIN s = 1..Len(s)
        /\ Len(Append(s, x)) = Len(s) + 1 /\ DOMAIN Append(s, x) = 1..Len(s) + 1
        /\ Append(s, x)[Len(s) + 1] = x
        /\ \A i \in 1..Len(s) : Append(s, x)[i] = s[i]
    BY <1>1
  <1> QED BY <1>2, <1>3 DEF T

(* A column under a new name keeps the shape. *)
LEMMA WithColHasCols ==
  ASSUME NEW g, HasCols(g), NEW n
  PROVE  LET h == WithCol(g, n)
             k == Len(g.cols)
         IN  /\ k \in Nat /\ DOMAIN g.cols = 1..k /\ DOMAIN h.cols = 1..k + 1 /\ Len(h.cols) = k + 1
             /\ h.cols[k + 1] = [name |-> n, meta |-> NoTags]
             /\ \A i \in 1..k : h.cols[i] = g.cols[i]
             /\ h.meta = g.meta /\ h.rows = g.rows
             /\ ColIndex(g, n) = {} => HasCols(h)
  <1> DEFINE h == WithCol(g, n)
             k == Len(g.cols)
             c == [name |-> n, meta |-> NoTags]
  <1>1. PICK S : g.cols \in Seq(S)
    BY DEF HasCols
  <1>2. /\ h.cols = Append(g.cols, c) /\ h.meta = g.meta /\ h.rows = g.rows
        /\ h = [meta |-> h.meta, cols |-> h.cols, rows |-> h.rows]
    BY DEF HasCols, WithCol
  <1>3. c = [name |-> c.name, meta |-> c.meta] /\ c.name = n
    OBVIOUS
  <1> HIDE DEF h, c
  <1>4. /\ h.cols \in Seq(S \union {c})
        /\ k \in Nat /\ DOMAIN g.cols = 1..k
        /\ Len(h.cols) = k + 1 /\ DOMAIN h.cols = 1..k + 1
        /\ h.cols[k + 1] = c
        /\ \A i \in 1..k : h.cols[i] = g.cols[i]
    BY <1>1, <1>2, AppendTo
  <1>5. ASSUME ColIndex(g, n) = {} PROVE HasCols(h)
    <2>1. \A i \in 1..k : g.cols[i].name # n
      BY <1>4, <1>5 DEF ColIndex
    <2> HIDE DEF k
    <2>2. \A i \in 1..k + 1 : i \in 1..k \/ i = k + 1
      BY <1>4
    <2>3. \A i \in 1..k + 1 : h.cols[i] = [name |-> h.cols[i].name, meta |-> h.cols[i].meta]
      BY <1>3, <1>4, <2>2 DEF HasCols
    <2>4. \A i, j \in 1..k + 1 : h.cols[i].name = h.cols[j].name => i = j
      <3> SUFFICES ASSUME NEW i \in 1..k + 1, NEW j \in 1..k + 1, h.cols[i].name = h.cols[j].name
                   PROVE  i = j
        OBVIOUS
      <3>1. CASE i \in 1..k /\ j \in 1..k
        BY <1>4, <3>1 DEF HasCols
      <3>2. CASE i \in 1..k /\ j = k + 1
        BY <1>3, <1>4, <2>1, <3>2
      <3>3. CASE i = k + 1 /\ j \in 1..k
        BY <1>3, <1>4, <2>1, <3>3
      <3>4. CASE i = k + 1 /\ j = k + 1
        BY <3>4
      <3> QED BY <2>2, <3>1, <3>2, <3>3, <3>4
    <2>5. \E T : h.cols \in Seq(T)
      BY <1>4
    <2> QED BY <1>2, <1>4, <2>3, <2>4, <2>5 DEF HasCols
  <1> QED BY <1>2, <1>4, <1>5 DEF h, c

(* So does a tag of the last column. *)
LEMMA ColMetaHasCols ==
  ASSUME NEW g, HasCols(g), NEW x
  PROVE  /\ HasCols([g EXCEPT !.cols[Len(g.cols)].meta = x])
         /\ ColNames([g EXCEPT !.cols[Len(g.cols)].meta = x]) = ColNames(g)
  <1> DEFINE k == Len(g.cols)
             h == [g EXCEPT !.cols[k].meta = x]
             cols == [g.cols EXCEPT ![k].meta = x]
  <1>1. PICK S : g.cols \in Seq(S)
    BY DEF HasCols
  <1>2. h.cols = cols /\ h = [meta |-> h.meta, cols |-> h.cols, rows |-> h.rows]
    BY DEF HasCols
  <1>3. k \in Nat /\ DOMAIN g.cols = 1..k
    BY <1>1
  <1>4. /\ DOMAIN cols = 1..k
        /\ cols = [i \in 1..k |-> cols[i]]
    BY <1>3
  <1>5. \A i \in 1..k : cols[i] = [name |-> g.cols[i].name,
                                   meta |-> IF i = k THEN x ELSE g.cols[i].meta]
    <2> SUFFICES ASSUME NEW i \in 1..k
                 PROVE  cols[i] = [name |-> g.cols[i].name,
                                   meta |-> IF i = k THEN x ELSE g.cols[i].meta]
      OBVIOUS
    <2>0. g.cols[i] = [name |-> g.cols[i].name, meta |-> g.cols[i].meta]
      BY <1>3 DEF HasCols
    <2>1. PICK a, b : g.cols[i] = [name |-> a, meta |-> b]
      BY <2>0
    <2>2. cols[i] = IF i = k THEN [g.cols[i] EXCEPT !.meta = x] ELSE g.cols[i]
      BY <1>3
    <2> QED BY <2>1, <2>2
  <1>6. \E T : cols \in Seq(T)
    <2> DEFINE T == {cols[i] : i \in 1..k}
    <2>1. cols \in [1..k -> T]
      BY <1>4
    <2> HIDE DEF cols, T, k
    <2>2. cols \in Seq(T)
      BY <1>3, <2>1
    <2> QED BY <2>2
  <1> HIDE DEF h, cols, k
  <1>7. ASSUME NEW i \in 1..k
        PROVE  /\ cols[i].name = g.cols[i].name
               /\ cols[i] = [name |-> cols[i].name, meta |-> cols[i].meta]
    <2>1. PICK a, b : cols[i] = [name |-> a, meta |-> b] /\ a = g.cols[i].name
      BY <1>5
    <2> QED BY <2>1
  <1>8. HasCols(h)
    <2>1. \A i, j \in 1..k : g.cols[i].name = g.cols[j].name => i = j
      BY <1>3 DEF HasCols
    <2>2. \A i, j \in 1..k : cols[i].name = cols[j].name => i = j
      BY <1>7, <2>1
    <2> QED BY <1>2, <1>4, <1>6, <1>7, <2>2 DEF HasCols
  <1>9. ColNames(h) = ColNames(g)
    BY <1>2, <1>3, <1>4, <1>7 DEF ColNames
  <1> QED BY <1>8, <1>9 DEF h, k

(* So do other tags of the grid, and other rows. *)
LEMMA MetaHasCols ==
  ASSUME NEW g, HasCols(g), NEW x
  PROVE  /\ HasCols([g EXCEPT !.meta = x]) /\ HasCols([g EXCEPT !.rows = x])
  BY DEF HasCols

(* In this shape a name finds at most the one column that has it. *)
LEMMA ColsFound ==
  ASSUME NEW g, HasCols(g), NEW n
  PROVE  Cardinality(ColIndex(g, n)) = IF n \in Range(ColNames(g)) THEN 1 ELSE 0
  <1>1. Range(ColNames(g)) = {g.cols[i].name : i \in DOMAIN g.cols}
    BY DEF Range, ColNames
  <1>2. CASE n \notin Range(ColNames(g))
    <2>1. ColIndex(g, n) = {}
      BY <1>1, <1>2 DEF ColIndex
    <2> QED BY <1>2, <2>1, FS_EmptySet
  <1>3. CASE n \in Range(ColNames(g))
    <2>1. PICK i \in DOMAIN g.cols : g.cols[i].name = n
      BY <1>1, <1>3
    <2>2. ColIndex(g, n) = {i}
      BY <2>1 DEF ColIndex, HasCols
    <2> QED BY <1>3, <2>2, FS_Singleton
  <1> QED BY <1>2, <1>3

-----------------------------------------------------------------------------
(* Grid::make. *)

(* The columns of the tags, one after the other. *)
LEMMA WithColsSteps ==
  ASSUME NEW names, NEW n \in Nat, n = Len(names)
  PROVE  \E f : /\ f[0] = NewGrid
                /\ \A k \in 1..n : f[k] = IF ColIndex(f[k - 1], names[k]) = {}
                                          THEN WithCol(f[k - 1], names[k]) ELSE f[k - 1]
                /\ WithCols(names) = f[n]
  <1> DEFINE Chain(f, m) == f = [k \in 0..m |->
                                   IF k = 0 THEN NewGrid
                                   ELSE IF ColIndex(f[k - 1], names[k]) = {}
                                     THEN WithCol(f[k - 1], names[k])
                                   ELSE f[k - 1]]
             Long == {m \in Nat : \E f : Chain(f, m)}
             F == CHOOSE f : Chain(f, Len(names))
  <1>1. 0 \in Long
    <2>1. Chain([k \in 0..0 |-> NewGrid], 0)
      OBVIOUS
    <2> QED BY <2>1
  <1>2. ASSUME NEW m \in Nat, m \in Long PROVE m + 1 \in Long
    <2>1. PICK f : Chain(f, m)
      BY <1>2
    <2> DEFINE g == [k \in 0..m + 1 |->
                       IF k = m + 1
                       THEN IF ColIndex(f[m], names[k]) = {} THEN WithCol(f[m], names[k]) ELSE f[m]
                       ELSE f[k]]
    <2>2. ASSUME NEW k \in 0..m + 1
          PROVE  g[k] = IF k = 0 THEN NewGrid
                        ELSE IF ColIndex(g[k - 1], names[k]) = {}
                          THEN WithCol(g[k - 1], names[k])
                        ELSE g[k - 1]
      <3>1. CASE k = m + 1
        <4>1. k # 0 /\ k - 1 = m /\ m \in 0..m + 1 /\ m # m + 1
          BY <3>1
        <4>2. g[m] = f[m]
          BY <4>1
        <4> QED BY <3>1, <4>1, <4>2
      <3>2. CASE k # m + 1 /\ k # 0
        <4>1. k \in 0..m /\ k - 1 \in 0..m + 1 /\ k - 1 # m + 1
          BY <3>2
        <4>2. g[k] = f[k] /\ g[k - 1] = f[k - 1]
          BY <3>2, <4>1
        <4> QED BY <2>1, <3>2, <4>1, <4>2
      <3>3. CASE k = 0
        <4>1. 0 \in 0..m /\ 0 \in 0..m + 1 /\ 0 # m + 1
          OBVIOUS
        <4> QED BY <2>1, <3>3, <4>1
      <3> QED BY <3>1, <3>2, <3>3
    <2>3. Chain(g, m + 1)
      <3>1. g = [k \in 0..m + 1 |-> g[k]]
        OBVIOUS
      <3> HIDE DEF g
      <3> QED BY <2>2, <3>1
    <2>4. \E h : Chain(h, m + 1)
      <3> HIDE DEF g, Chain
      <3> QED BY <2>3
    <2> HIDE DEF Chain
    <2> QED BY <2>4
  <1>3. Len(names) \in Long
    <2> HIDE DEF Long
    <2> QED BY <1>1, <1>2, Induction
  <1>4. Chain(F, n)
    BY <1>3
  <1>5. WithCols(names) = F[n]
    BY DEF WithCols
  <1> HIDE DEF F
  <1>6. \A k \in 0..n : F[k] = IF k = 0 THEN NewGrid
                               ELSE IF ColIndex(F[k - 1], names[k]) = {}
                                 THEN WithCol(F[k - 1], names[k])
                               ELSE F[k - 1]
    BY <1>4, Zenon
  <1>7. 0 \in 0..n /\ \A k \in 1..n : k \in 0..n /\ k # 0
    OBVIOUS
  <1>8. /\ F[0] = NewGrid
        /\ \A k \in 1..n : F[k] = IF ColIndex(F[k - 1], names[k]) = {}
                                  THEN WithCol(F[k - 1], names[k]) ELSE F[k - 1]
    BY <1>6, <1>7, Zenon
  <1> QED BY <1>5, <1>8

(* They are the columns of a new grid, each under one of the names, and every *)
(* name has one.                                                             *)
LEMMA WithColsAre ==
  ASSUME NEW S, NEW names \in Seq(S)
  PROVE  LET g == WithCols(names)
         IN  /\ HasCols(g) /\ g.meta = NoTags /\ g.rows = <<>>
             /\ \A i \in DOMAIN g.cols : /\ g.cols[i].meta = NoTags
                                         /\ \E k \in DOMAIN names : g.cols[i].name = names[k]
             /\ \A k \in DOMAIN names : \E i \in DOMAIN g.cols : g.cols[i].name = names[k]
  <1>1. PICK n \in Nat : n = Len(names) /\ DOMAIN names = 1..n
    OBVIOUS
  <1>2. PICK f : /\ f[0] = NewGrid
                 /\ \A k \in 1..n : f[k] = IF ColIndex(f[k - 1], names[k]) = {}
                                           THEN WithCol(f[k - 1], names[k]) ELSE f[k - 1]
                 /\ WithCols(names) = f[n]
    BY <1>1, WithColsSteps
  <1> DEFINE Right(g, m) ==
        /\ HasCols(g) /\ g.meta = NoTags /\ g.rows = <<>>
        /\ \A i \in DOMAIN g.cols : /\ g.cols[i].meta = NoTags
                                    /\ \E k \in 1..m : g.cols[i].name = names[k]
        /\ \A k \in 1..m : \E i \in DOMAIN g.cols : g.cols[i].name = names[k]
             T == {m \in Nat : m <= n => Right(f[m], m)}
  <1>3. 0 \in T
    <2>1. DOMAIN NewGrid.cols = {} /\ NewGrid.meta = NoTags /\ NewGrid.rows = <<>> /\ 1..0 = {}
      BY DEF NewGrid
    <2>2. Right(NewGrid, 0)
      BY <2>1, NewGridHasCols
    <2> HIDE DEF Right
    <2> QED BY <1>2, <2>2
  <1>4. ASSUME NEW m \in Nat, m \in T PROVE m + 1 \in T
    <2>0. m + 1 \in Nat
      OBVIOUS
    <2> SUFFICES ASSUME m + 1 <= n PROVE Right(f[m + 1], m + 1)
      BY <2>0, Zenon
    <2>1. PICK g : g = f[m]
      OBVIOUS
    <2>2. Right(g, m)
      BY <1>4, <2>1
    <2>3. PICK name : name = names[m + 1]
      OBVIOUS
    <2>4. f[m + 1] = IF ColIndex(g, name) = {} THEN WithCol(g, name) ELSE g
      <3>1. m + 1 \in 1..n /\ (m + 1) - 1 = m
        OBVIOUS
      <3> QED BY <1>2, <2>1, <2>3, <3>1
    <2>5. \A k \in 1..m + 1 : k \in 1..m \/ k = m + 1
      OBVIOUS
    <2>6. 1..m \subseteq 1..m + 1 /\ m + 1 \in 1..m + 1
      OBVIOUS
    <2>7. CASE ColIndex(g, name) = {}
      <3> DEFINE h == WithCol(g, name)
                 c == Len(g.cols)
      <3>1. /\ c \in Nat /\ DOMAIN g.cols = 1..c /\ DOMAIN h.cols = 1..c + 1
            /\ h.cols[c + 1] = [name |-> name, meta |-> NoTags]
            /\ \A i \in 1..c : h.cols[i] = g.cols[i]
            /\ h.meta = g.meta /\ h.rows = g.rows
            /\ HasCols(h)
        BY <2>2, <2>7, WithColHasCols
      <3> HIDE DEF h, c
      <3>2. \A i \in 1..c + 1 : i \in 1..c \/ i = c + 1
        BY <3>1
      <3>3. 1..c \subseteq 1..c + 1 /\ c + 1 \in 1..c + 1
        BY <3>1
      <3>4. h.cols[c + 1].name = name /\ h.cols[c + 1].meta = NoTags
        BY <3>1
      <3>5. \A i \in 1..c + 1 : /\ h.cols[i].meta = NoTags
                                /\ \E k \in 1..m + 1 : h.cols[i].name = names[k]
        <4>1. ASSUME NEW i \in 1..c
              PROVE  h.cols[i].meta = NoTags /\ \E k \in 1..m + 1 : h.cols[i].name = names[k]
          <5>1. i \in DOMAIN g.cols /\ h.cols[i] = g.cols[i]
            BY <3>1
          <5>2. g.cols[i].meta = NoTags /\ \E k \in 1..m : g.cols[i].name = names[k]
            BY <2>2, <5>1, Zenon
          <5> QED BY <2>6, <5>1, <5>2, Zenon
        <4>2. \E k \in 1..m + 1 : h.cols[c + 1].name = names[k]
          BY <2>3, <2>6, <3>4, Zenon
        <4> QED BY <3>2, <3>4, <4>1, <4>2, Zenon
      <3>6. \A k \in 1..m + 1 : \E i \in 1..c + 1 : h.cols[i].name = names[k]
        BY <2>2, <2>3, <2>5, <3>1, <3>3, <3>4, Zenon
      <3>7. Right(h, m + 1)
        BY <2>2, <3>1, <3>5, <3>6
      <3> HIDE DEF Right
      <3> QED BY <2>4, <2>7, <3>7 DEF h
    <2>8. CASE ColIndex(g, name) # {}
      <3>1. \E i \in DOMAIN g.cols : g.cols[i].name = name
        BY <2>8 DEF ColIndex
      <3>2. Right(g, m + 1)
        BY <2>2, <2>3, <2>5, <2>6, <3>1, Zenon
      <3> HIDE DEF Right
      <3> QED BY <2>4, <2>8, <3>2
    <2> QED BY <2>7, <2>8
  <1>5. n \in T
    <2> HIDE DEF T
    <2> QED BY <1>3, <1>4, Induction
  <1>6. PICK g : g = WithCols(names)
    OBVIOUS
  <1>7. Right(g, n)
    BY <1>2, <1>5, <1>6
  <1> QED BY <1>1, <1>6, <1>7, Zenon

(* The rows of the dicts, one after the other. *)
LEMMA WithRecordsSteps ==
  ASSUME NEW g, NEW dicts, NEW n \in Nat, n = Len(dicts)
  PROVE  \E f : /\ f[0] = g
                /\ \A k \in 1..n : f[k] = WithRecord(f[k - 1], dicts[k])
                /\ WithRecords(g, dicts) = f[n]
  <1> DEFINE Chain(f, m) == f = [k \in 0..m |->
                                   IF k = 0 THEN g ELSE WithRecord(f[k - 1], dicts[k])]
             Long == {m \in Nat : \E f : Chain(f, m)}
             F == CHOOSE f : Chain(f, Len(dicts))
  <1>1. 0 \in Long
    <2>1. Chain([k \in 0..0 |-> g], 0)
      OBVIOUS
    <2> QED BY <2>1
  <1>2. ASSUME NEW m \in Nat, m \in Long PROVE m + 1 \in Long
    <2>1. PICK f : Chain(f, m)
      BY <1>2
    <2> DEFINE h == [k \in 0..m + 1 |-> IF k = m + 1 THEN WithRecord(f[m], dicts[k]) ELSE f[k]]
    <2>2. ASSUME NEW k \in 0..m + 1
          PROVE  h[k] = IF k = 0 THEN g ELSE WithRecord(h[k - 1], dicts[k])
      <3>1. CASE k = m + 1
        <4>1. k # 0 /\ k - 1 = m /\ m \in 0..m + 1 /\ m # m + 1
          BY <3>1
        <4>2. h[m] = f[m]
          BY <4>1
        <4> QED BY <3>1, <4>1, <4>2
      <3>2. CASE k # m + 1 /\ k # 0
        <4>1. k \in 0..m /\ k - 1 \in 0..m + 1 /\ k - 1 # m + 1
          BY <3>2
        <4>2. h[k] = f[k] /\ h[k - 1] = f[k - 1]
          BY <3>2, <4>1
        <4> QED BY <2>1, <3>2, <4>1, <4>2
      <3>3. CASE k = 0
        <4>1. 0 \in 0..m /\ 0 \in 0..m + 1 /\ 0 # m + 1
          OBVIOUS
        <4> QED BY <2>1, <3>3, <4>1
      <3> QED BY <3>1, <3>2, <3>3
    <2>3. Chain(h, m + 1)
      <3>1. h = [k \in 0..m + 1 |-> h[k]]
        OBVIOUS
      <3> HIDE DEF h
      <3> QED BY <2>2, <3>1
    <2>4. \E e : Chain(e, m + 1)
      <3> HIDE DEF h, Chain
      <3> QED BY <2>3
    <2> HIDE DEF Chain
    <2> QED BY <2>4
  <1>3. Len(dicts) \in Long
    <2> HIDE DEF Long
    <2> QED BY <1>1, <1>2, Induction
  <1>4. Chain(F, n)
    BY <1>3
  <1>5. WithRecords(g, dicts) = F[n]
    BY DEF WithRecords
  <1> HIDE DEF F
  <1>6. \A k \in 0..n : F[k] = IF k = 0 THEN g ELSE WithRecord(F[k - 1], dicts[k])
    BY <1>4, Zenon
  <1>7. 0 \in 0..n /\ \A k \in 1..n : k \in 0..n /\ k # 0
    OBVIOUS
  <1>8. F[0] = g /\ \A k \in 1..n : F[k] = WithRecord(F[k - 1], dicts[k])
    BY <1>6, <1>7, Zenon
  <1> QED BY <1>5, <1>8

(* One for each dict that is not empty, its tags under their columns. *)
CellsOf(g, d) == [i \in DOMAIN g.cols |-> Get(d, g.cols[i].name)]
Full(dicts) == {i \in DOMAIN dicts : dicts[i] # NoTags}

(* The grid that gets a row for each full dict. *)
LEMMA WithRecordsAre ==
  ASSUME NEW S, NEW dicts \in Seq(S), NEW g, HasCols(g), g.rows = <<>>
  PROVE  LET h == WithRecords(g, dicts)
             whole == Selected(dicts, Full(dicts))
         IN  /\ h.meta = g.meta /\ h.cols = g.cols /\ HasCols(h)
             /\ DOMAIN h.rows = DOMAIN whole /\ Len(h.rows) = Len(whole)
             /\ \E T : h.rows \in Seq(T)
             /\ \A r \in DOMAIN whole : h.rows[r] = CellsOf(g, whole[r])
  <1>1. PICK n \in Nat : n = Len(dicts) /\ DOMAIN dicts = 1..n
    OBVIOUS
  <1>2. PICK f : /\ f[0] = g
                 /\ \A k \in 1..n : f[k] = WithRecord(f[k - 1], dicts[k])
                 /\ WithRecords(g, dicts) = f[n]
    BY <1>1, WithRecordsSteps
  <1> DEFINE U == {CellsOf(g, d) : d \in S}
             Right(h, whole) ==
               /\ h = [g EXCEPT !.rows = h.rows]
               /\ h.rows \in Seq(U) /\ Len(h.rows) = Len(whole)
               /\ \A r \in 1..Len(whole) : h.rows[r] = CellsOf(g, whole[r])
             C(m) == Collected(dicts, Full(dicts), m)
             T == {m \in Nat : m <= n => Right(f[m], C(m))}
  <1>3. 0 \in T
    <2>1. C(0) = <<>>
      BY CollectedOneMore
    <2>2. g = [g EXCEPT !.rows = g.rows]
      BY DEF HasCols
    <2>3. <<>> \in Seq(U) /\ Len(<<>>) = 0 /\ 1..0 = {}
      OBVIOUS
    <2>4. Right(g, <<>>)
      BY <2>2, <2>3
    <2> HIDE DEF Right, C
    <2> QED BY <1>2, <2>1, <2>4
  <1>4. ASSUME NEW m \in Nat, m \in T PROVE m + 1 \in T
    <2>0. m + 1 \in Nat
      OBVIOUS
    <2> SUFFICES ASSUME m + 1 <= n PROVE Right(f[m + 1], C(m + 1))
      BY <2>0, Zenon
    <2>1. PICK h : h = f[m]
      OBVIOUS
    <2>2. PICK whole \in Seq(S) : whole = C(m)
      <3>1. m \in 0..Len(dicts)
        BY <1>1
      <3> QED BY <3>1, CollectedType
    <2>3. Right(h, whole)
      BY <1>4, <2>1, <2>2
    <2>4. PICK d \in S : d = dicts[m + 1]
      BY <1>1
    <2>5. f[m + 1] = WithRecord(h, d)
      <3>1. m + 1 \in 1..n /\ (m + 1) - 1 = m
        OBVIOUS
      <3> QED BY <1>2, <2>1, <2>4, <3>1
    <2>6. C(m + 1) = IF d # NoTags THEN Append(whole, d) ELSE whole
      <3>1. m + 1 \in Full(dicts) <=> d # NoTags
        BY <1>1, <2>4 DEF Full
      <3>2. \A j \in Nat : Collected(dicts, Full(dicts), j + 1)
                            = IF j + 1 \in Full(dicts)
                              THEN Append(Collected(dicts, Full(dicts), j), dicts[j + 1])
                              ELSE Collected(dicts, Full(dicts), j)
        BY CollectedOneMore
      <3>3. C(m + 1) = IF m + 1 \in Full(dicts) THEN Append(C(m), dicts[m + 1]) ELSE C(m)
        BY <3>2
      <3> HIDE DEF C
      <3> QED BY <2>2, <2>4, <3>1, <3>3
    <2> HIDE DEF C, T
    <2>7. CASE d = NoTags
      <3>1. WithRecord(h, d) = h
        BY <2>7 DEF WithRecord
      <3> HIDE DEF Right
      <3> QED BY <2>3, <2>5, <2>6, <2>7, <3>1
    <2>8. CASE d # NoTags
      <3>1. PICK rows \in Seq(U) : rows = h.rows
        BY <2>3
      <3>2. PICK row \in U : row = CellsOf(g, d)
        OBVIOUS
      <3>3. PICK x : x = Append(rows, row)
        OBVIOUS
      <3> DEFINE e == [g EXCEPT !.rows = x]
      <3>4. WithRecord(h, d) = e
        <4>1. g = [meta |-> g.meta, cols |-> g.cols, rows |-> g.rows] /\ h = [g EXCEPT !.rows = rows]
          BY <2>3, <3>1 DEF HasCols
        <4>2. h.cols = g.cols /\ h.rows = rows /\ [h EXCEPT !.rows = x] = e
          BY <4>1
        <4> QED BY <2>8, <3>2, <3>3, <4>2 DEF WithRecord, WithRow, CellsOf
      <3>5. e = [g EXCEPT !.rows = e.rows] /\ e.rows = Append(rows, row)
        BY <3>3 DEF HasCols
      <3> HIDE DEF e, U
      <3>6. PICK w \in Seq(S) : w = Append(whole, d)
        <4>1. Append(whole, d) \in Seq(S)
          OBVIOUS
        <4> QED BY <4>1
      <3>7. /\ Len(w) = Len(whole) + 1 /\ w[Len(whole) + 1] = d
            /\ \A r \in 1..Len(whole) : w[r] = whole[r]
        BY <3>6
      <3>8. /\ Append(rows, row) \in Seq(U) /\ Len(Append(rows, row)) = Len(rows) + 1
            /\ Append(rows, row)[Len(rows) + 1] = row
            /\ \A r \in 1..Len(rows) : Append(rows, row)[r] = rows[r]
        BY <3>1, <3>2
      <3>9. PICK k \in Nat : k = Len(rows) /\ k = Len(whole)
        BY <2>3, <3>1
      <3>10. ASSUME NEW r \in 1..Len(w) PROVE e.rows[r] = CellsOf(g, w[r])
        <4>1. CASE r = k + 1
          BY <3>2, <3>5, <3>7, <3>8, <3>9, <4>1
        <4>2. CASE r # k + 1
          <5>1. r \in 1..k
            BY <3>7, <3>9, <4>2
          <5> QED BY <2>3, <3>1, <3>5, <3>7, <3>8, <3>9, <5>1
        <4> QED BY <4>1, <4>2
      <3>11. Right(e, w)
        BY <3>5, <3>7, <3>8, <3>9, <3>10
      <3> HIDE DEF Right
      <3>12. f[m + 1] = e /\ C(m + 1) = w
        BY <2>5, <2>6, <2>8, <3>4, <3>6 DEF e
      <3> QED BY <3>11, <3>12
    <2> QED BY <2>7, <2>8
  <1>5. n \in T
    <2> HIDE DEF T
    <2> QED BY <1>3, <1>4, Induction
  <1>6. PICK h : h = WithRecords(g, dicts)
    OBVIOUS
  <1>7. PICK whole \in Seq(S) : whole = Selected(dicts, Full(dicts))
    BY SelectedType
  <1>8. Right(h, whole)
    BY <1>1, <1>2, <1>5, <1>6, <1>7 DEF Selected
  <1>9. h.meta = g.meta /\ h.cols = g.cols /\ HasCols(h)
    BY <1>8, MetaHasCols DEF HasCols
  <1>10. /\ DOMAIN h.rows = 1..Len(whole) /\ DOMAIN whole = 1..Len(whole)
         /\ h.rows \in Seq(U)
    BY <1>8
  <1> HIDE DEF U
  <1> QED BY <1>6, <1>7, <1>8, <1>9, <1>10

(* The names of the tags of a dict, each once. *)
LEMMA NamesInOrder == Order \in Seq(Names) /\ \A i \in DOMAIN Order : Order[i] \in Names
  <1>1. PICK s \in Seq(Seq(STRING)) : s = Order
    BY OrderAssumption
  <1>2. \A U : s \in Seq(U) => s \in [1..Len(s) -> U] /\ Len(s) \in Nat
    OBVIOUS
  <1>3. DOMAIN s = 1..Len(s) /\ Len(s) \in Nat /\ s = [i \in 1..Len(s) |-> s[i]]
    BY <1>2
  <1>4. Range(s) = {s[i] : i \in 1..Len(s)}
    BY <1>3 DEF Range
  <1>5. \A U : s \in [1..Len(s) -> U] /\ Len(s) \in Nat => s \in Seq(U)
    OBVIOUS
  <1>6. s \in [1..Len(s) -> Range(s)]
    BY <1>3, <1>4
  <1>7. s \in Seq(Range(s))
    BY <1>3, <1>5, <1>6
  <1> QED BY <1>1, <1>3, <1>4, <1>7 DEF Names

(* The names of the tags of a dict, each once. *)
LEMMA TagNamesAre ==
  ASSUME NEW d, DOMAIN d \subseteq Names
  PROVE  /\ TagNames(d) \in Seq(Names)
         /\ \A j \in DOMAIN TagNames(d) : TagNames(d)[j] \in DOMAIN d
         /\ \A n \in DOMAIN d : \E j \in DOMAIN TagNames(d) : TagNames(d)[j] = n
         /\ \A i, j \in DOMAIN TagNames(d) : TagNames(d)[i] = TagNames(d)[j] => i = j
  <1>1. PICK P : P = {i \in DOMAIN Order : Order[i] \in DOMAIN d}
    OBVIOUS
  <1>2. PICK names \in Seq(Names) : names = Selected(Order, P)
    BY NamesInOrder, SelectedType
  <1>3. /\ \A j \in DOMAIN names : \E i \in DOMAIN Order : i \in P /\ names[j] = Order[i]
        /\ \A i \in DOMAIN Order : i \in P => \E j \in DOMAIN names : names[j] = Order[i]
        /\ (\A i, j \in DOMAIN Order : Order[i] = Order[j] => i = j)
              => \A i, j \in DOMAIN names : names[i] = names[j] => i = j
    BY <1>2, NamesInOrder, SelectedElements
  <1>4. TagNames(d) = names
    BY <1>1, <1>2 DEF TagNames
  <1>5. \A i, j \in DOMAIN Order : Order[i] = Order[j] => i = j
    BY OrderAssumption
  <1>6. \A j \in DOMAIN names : names[j] \in DOMAIN d
    BY <1>1, <1>3
  <1>7. \A n \in DOMAIN d : \E j \in DOMAIN names : names[j] = n
    <2> SUFFICES ASSUME NEW n \in DOMAIN d PROVE \E j \in DOMAIN names : names[j] = n
      OBVIOUS
    <2>1. PICK i \in DOMAIN Order : Order[i] = n
      BY DEF Names, Range
    <2> QED BY <1>1, <1>3, <2>1
  <1> QED BY <1>2, <1>3, <1>4, <1>5, <1>6, <1>7

(* The grid of a sequence of dicts. *)
LEMMA MadeIs ==
  ASSUME NEW dicts \in Seq(Records)
  PROVE  LET g == Made(dicts)
             whole == Selected(dicts, Full(dicts))
         IN  /\ HasCols(g) /\ g.meta = NoTags
             /\ \A i \in DOMAIN g.cols : g.cols[i].meta = NoTags /\ g.cols[i].name \in Names
             /\ \A k \in DOMAIN dicts : \A n \in DOMAIN dicts[k] :
                   \E i \in DOMAIN g.cols : g.cols[i].name = n
             /\ DOMAIN g.rows = DOMAIN whole /\ Len(g.rows) = Len(whole)
             /\ \E S : g.rows \in Seq(S)
             /\ \A r \in DOMAIN whole : g.rows[r] = CellsOf(g, whole[r])
  <1>1. PICK k \in Nat : k = Len(dicts) /\ DOMAIN dicts = 1..k
    OBVIOUS
  <1>2. PICK lists : lists = [i \in 1..Len(dicts) |-> TagNames(dicts[i])]
    OBVIOUS
  <1>3. \A i \in 1..k : /\ DOMAIN dicts[i] \subseteq Names
                        /\ lists[i] = TagNames(dicts[i])
    BY <1>1, <1>2, ValuesAssumption
  <1>4. lists \in Seq(Seq(Names)) /\ DOMAIN lists = 1..k
    <2>1. \A U : lists \in [1..k -> U] => lists \in Seq(U)
      OBVIOUS
    <2>2. \A i \in 1..k : lists[i] \in Seq(Names)
      BY <1>3, TagNamesAre
    <2>3. lists \in [1..k -> Seq(Names)]
      BY <1>1, <1>2, <2>2
    <2> QED BY <2>1, <2>3
  <1>5. PICK names \in Seq(Names) : names = FlattenSeq(lists)
    BY <1>4, FlattenedElements
  <1>6. \A i \in 1..k : \A n \in DOMAIN dicts[i] : \E j \in DOMAIN names : names[j] = n
    <2> SUFFICES ASSUME NEW i \in 1..k, NEW n \in DOMAIN dicts[i]
                 PROVE  \E j \in DOMAIN names : names[j] = n
      OBVIOUS
    <2>1. PICK j \in DOMAIN lists[i] : lists[i][j] = n
      BY <1>3, TagNamesAre
    <2>2. \A u \in DOMAIN lists : \A v \in DOMAIN lists[u] :
             \E w \in DOMAIN FlattenSeq(lists) : FlattenSeq(lists)[w] = lists[u][v]
      BY <1>4, FlattenedElements
    <2> QED BY <1>4, <1>5, <2>1, <2>2, Zenon
  <1>7. PICK g : g = WithCols(names)
    OBVIOUS
  <1>8. /\ HasCols(g) /\ g.meta = NoTags /\ g.rows = <<>>
        /\ \A i \in DOMAIN g.cols : /\ g.cols[i].meta = NoTags
                                    /\ \E j \in DOMAIN names : g.cols[i].name = names[j]
        /\ \A j \in DOMAIN names : \E i \in DOMAIN g.cols : g.cols[i].name = names[j]
    BY <1>7, WithColsAre
  <1>9. \A j \in DOMAIN names : names[j] \in Names
    OBVIOUS
  <1>10. PICK h : h = WithRecords(g, dicts)
    OBVIOUS
  <1>11. PICK whole : whole = Selected(dicts, Full(dicts))
    OBVIOUS
  <1>12. /\ h.meta = g.meta /\ h.cols = g.cols /\ HasCols(h)
         /\ DOMAIN h.rows = DOMAIN whole /\ Len(h.rows) = Len(whole)
         /\ \E T : h.rows \in Seq(T)
         /\ \A r \in DOMAIN whole : h.rows[r] = CellsOf(g, whole[r])
    BY <1>8, <1>10, <1>11, WithRecordsAre
  <1>13. Made(dicts) = h
    BY <1>2, <1>5, <1>7, <1>10 DEF Made
  <1>14. \A d : CellsOf(h, d) = CellsOf(g, d)
    BY <1>12 DEF CellsOf
  <1>15. \A i \in DOMAIN h.cols : h.cols[i].meta = NoTags /\ h.cols[i].name \in Names
    BY <1>8, <1>9, <1>12
  <1>16. \A i \in DOMAIN dicts : \A n \in DOMAIN dicts[i] :
            \E j \in DOMAIN h.cols : h.cols[j].name = n
    <2> SUFFICES ASSUME NEW i \in 1..k, NEW n \in DOMAIN dicts[i]
                 PROVE  \E j \in DOMAIN h.cols : h.cols[j].name = n
      BY <1>1, Zenon
    <2>1. PICK m \in DOMAIN names : names[m] = n
      BY <1>6
    <2> QED BY <1>8, <1>12, <2>1
  <1> QED BY <1>8, <1>11, <1>12, <1>13, <1>14, <1>15, <1>16

(* A value compares equal to itself. *)
LEMMA SameReflexive == \A v : Same(v, v)
  BY DEF Same

(* A grid has as many columns as names. *)
LEMMA ColsCounted ==
  ASSUME NEW g, HasCols(g)
  PROVE  /\ IsFiniteSet(Range(ColNames(g))) /\ Cardinality(Range(ColNames(g))) = Len(g.cols)
         /\ Range(ColNames(g)) = {g.cols[i].name : i \in DOMAIN g.cols}
  <1>1. PICK k \in Nat : k = Len(g.cols) /\ DOMAIN g.cols = 1..k
    <2>1. PICK S : g.cols \in Seq(S)
      BY DEF HasCols
    <2> QED BY <2>1
  <1>2. PICK names : names = ColNames(g)
    OBVIOUS
  <1>3. names = [i \in 1..k |-> g.cols[i].name] /\ Range(names) = {g.cols[i].name : i \in 1..k}
    BY <1>1, <1>2 DEF ColNames, Range
  <1>4. \A i, j \in 1..k : names[i] = names[j] => i = j
    BY <1>1, <1>3 DEF HasCols
  <1>5. names \in Bijection(1..k, Range(names))
    BY <1>3, <1>4 DEF Bijection, Injection, Surjection, IsInjective
  <1>6. IsFiniteSet(1..k) /\ Cardinality(1..k) = k
    BY FS_Interval
  <1>7. ExistsBijection(1..k, Range(names))
    BY <1>5 DEF ExistsBijection
  <1>8. IsFiniteSet(Range(names)) /\ Cardinality(Range(names)) = k
    BY <1>6, <1>7, FS_Bijection
  <1> QED BY <1>1, <1>2, <1>3, <1>8

(* A row that was made of a dict. *)
LEMMA RowOfRecord ==
  ASSUME NEW g, HasCols(g), NEW r, NEW d, DOMAIN d \subseteq Range(ColNames(g)),
         g.rows[r] = CellsOf(g, d)
  PROVE  /\ \A n \in DOMAIN d : ToDict(g, r)[n] = d[n]
         /\ RowIs(g, r, ToDict(g, r))
         /\ SameDict(ToDict(g, r), d) <=> RowIs(g, r, d)
         /\ RowIs(g, r, d) <=> DOMAIN d = Range(ColNames(g))
  <1> DEFINE N == Range(ColNames(g))
             k == Len(g.cols)
             name(i) == g.cols[i].name
             cell(i) == Cell(g, r, i)
  <1>1. IsFiniteSet(N) /\ Cardinality(N) = k /\ N = {name(i) : i \in DOMAIN g.cols}
    BY ColsCounted
  <1>2. \A i \in DOMAIN g.cols : cell(i) = Get(d, name(i))
    BY DEF Cell, CellsOf
  <1>3. PICK e : e = ToDict(g, r)
    OBVIOUS
  <1>4. DOMAIN e = N
    BY <1>3 DEF ToDict
  <1>5. \A i \in DOMAIN g.cols : e[name(i)] = cell(i)
    <2> SUFFICES ASSUME NEW i \in DOMAIN g.cols PROVE e[name(i)] = cell(i)
      OBVIOUS
    <2>1. ColIndex(g, name(i)) = {i}
      BY DEF ColIndex, HasCols
    <2>2. (CHOOSE j \in ColIndex(g, name(i)) : TRUE) = i
      BY <2>1
    <2>3. name(i) \in N
      BY <1>1
    <2> HIDE DEF N
    <2>4. e[name(i)] = Cell(g, r, CHOOSE j \in ColIndex(g, name(i)) : TRUE)
      BY <1>3, <2>3 DEF ToDict, N
    <2> QED BY <2>2, <2>4
  <1> HIDE DEF N, name, cell, k
  <1>6. \A n \in N : \E i \in DOMAIN g.cols : n = name(i)
    BY <1>1
  <1>7. \A n \in DOMAIN d : e[n] = d[n]
    <2> SUFFICES ASSUME NEW n \in DOMAIN d PROVE e[n] = d[n]
      OBVIOUS
    <2>1. PICK i \in DOMAIN g.cols : n = name(i)
      BY <1>6 DEF N
    <2> QED BY <1>2, <1>5, <2>1 DEF Get
  <1>8. \A i \in DOMAIN g.cols : Get(e, name(i)) = cell(i)
    BY <1>1, <1>4, <1>5 DEF Get
  <1>9. \A x : RowIs(g, r, x) <=> /\ k = Cardinality(DOMAIN x)
                                  /\ \A i \in DOMAIN g.cols : Same(cell(i), Get(x, name(i)))
    BY DEF RowIs, k, cell, name
  <1>10. RowIs(g, r, e)
    <2>1. k = Cardinality(DOMAIN e)
      BY <1>1, <1>4
    <2>2. \A i \in DOMAIN g.cols : Same(cell(i), Get(e, name(i)))
      BY <1>8, SameReflexive
    <2> QED BY <1>9, <2>1, <2>2
  <1>11. SameDict(e, d) <=> RowIs(g, r, d)
    <2>1. SameDict(e, d) <=> /\ k = Cardinality(DOMAIN d)
                             /\ \A n \in N : Same(e[n], Get(d, n))
      BY <1>1, <1>4 DEF SameDict
    <2>2. (\A n \in N : Same(e[n], Get(d, n)))
             <=> \A i \in DOMAIN g.cols : Same(cell(i), Get(d, name(i)))
      <3>1. \A i \in DOMAIN g.cols : name(i) \in N
        BY <1>1
      <3> QED BY <1>5, <1>6, <3>1
    <2> QED BY <1>9, <2>1, <2>2
  <1>12. RowIs(g, r, d) <=> DOMAIN d = N
    <2>1. \A i \in DOMAIN g.cols : Same(cell(i), Get(d, name(i)))
      BY <1>2, SameReflexive
    <2>2. k = Cardinality(DOMAIN d) <=> DOMAIN d = N
      <3>1. DOMAIN d \in SUBSET N
        BY DEF N
      <3> QED BY <1>1, <3>1, FS_Subset
    <2> QED BY <1>9, <2>1, <2>2
  <1> QED BY <1>3, <1>7, <1>10, <1>11, <1>12 DEF N

(* So every record is found in the grid that is made of them. *)
LEMMA RecordsFound ==
  ASSUME NEW dicts \in Seq(Records)
  PROVE  LET g == Made(dicts)
             whole == Selected(dicts, Full(dicts))
         IN  /\ Len(g.rows) = Len(whole)
             /\ \A r \in DOMAIN whole :
                  /\ \A n \in DOMAIN whole[r] : ToDict(g, r)[n] = whole[r][n]
                  /\ RowIs(g, r, ToDict(g, r))
                  /\ SameDict(ToDict(g, r), whole[r]) <=> RowIs(g, r, whole[r])
                  /\ RowIs(g, r, whole[r]) <=> DOMAIN whole[r] = Range(ColNames(g))
  <1>1. PICK g : g = Made(dicts)
    OBVIOUS
  <1>2. PICK whole : whole = Selected(dicts, Full(dicts))
    OBVIOUS
  <1>3. /\ HasCols(g)
        /\ \A k \in DOMAIN dicts : \A n \in DOMAIN dicts[k] :
              \E i \in DOMAIN g.cols : g.cols[i].name = n
        /\ Len(g.rows) = Len(whole)
        /\ \A r \in DOMAIN whole : g.rows[r] = CellsOf(g, whole[r])
    BY <1>1, <1>2, MadeIs
  <1>4. \A r \in DOMAIN whole : \E k \in DOMAIN dicts : whole[r] = dicts[k]
    BY <1>2, SelectedElements
  <1>5. ASSUME NEW r \in DOMAIN whole
        PROVE  /\ \A n \in DOMAIN whole[r] : ToDict(g, r)[n] = whole[r][n]
               /\ RowIs(g, r, ToDict(g, r))
               /\ SameDict(ToDict(g, r), whole[r]) <=> RowIs(g, r, whole[r])
               /\ RowIs(g, r, whole[r]) <=> DOMAIN whole[r] = Range(ColNames(g))
    <2>1. PICK d : d = whole[r]
      OBVIOUS
    <2>2. \A n \in DOMAIN d : \E i \in DOMAIN g.cols : g.cols[i].name = n
      BY <1>3, <1>4, <2>1
    <2>3. DOMAIN d \subseteq Range(ColNames(g))
      BY <1>3, <2>2, ColsCounted
    <2>4. g.rows[r] = CellsOf(g, d)
      BY <1>3, <2>1
    <2> QED BY <1>3, <2>1, <2>3, <2>4, RowOfRecord
  <1> QED BY <1>1, <1>2, <1>3, <1>5, Zenon

-----------------------------------------------------------------------------
(* Columns and rows in every state.  A grid that is made of dicts stays what *)
(* it is; every other grid, the reader's too, gets a column only under a new *)
(* name, whatever the text says.                                             *)
Shapes ==
  /\ HasCols(grid) /\ HasCols(got)
  /\ made # <<>> => made \in Seq(Records) /\ grid = Made(made)

(* No grid is there at first. *)
LEMMA ShapesInit == Init => Shapes
  BY NewGridHasCols DEF Init, Shapes

(* An error grid has this shape. *)
LEMMA ErrorGridHasCols == \A message : HasCols(ErrorGrid(message))
  <1> SUFFICES ASSUME NEW message PROVE HasCols(ErrorGrid(message))
    OBVIOUS
  <1>1. PICK x : ErrorGrid(message) = WithCol([NewGrid EXCEPT !.meta = x], <<"empty">>)
    BY DEF ErrorGrid
  <1>2. PICK h : h = [NewGrid EXCEPT !.meta = x]
    OBVIOUS
  <1>3. HasCols(h)
    BY <1>2, NewGridHasCols, MetaHasCols
  <1>4. ColIndex(h, <<"empty">>) = {}
    BY <1>2 DEF ColIndex, NewGrid
  <1>5. HasCols(WithCol(h, <<"empty">>))
    BY <1>3, <1>4, WithColHasCols
  <1> QED BY <1>1, <1>2, <1>5

(* Every step of the writer and the reader keeps the shapes. *)
LEMMA ShapesStep == Shapes /\ [Next]_vars => Shapes'
  <1> SUFFICES ASSUME Shapes, [Next]_vars PROVE Shapes'
    OBVIOUS
  <1>1. HasCols(grid) /\ HasCols(got)
    BY DEF Shapes
  <1>2. ASSUME grid' = grid, made' = made, HasCols(got') PROVE Shapes'
    BY <1>2 DEF Shapes
  <1>3. ASSUME made = <<>>, made' = made, HasCols(grid'), got' = got PROVE Shapes'
    BY <1>1, <1>3 DEF Shapes
  <1>4. ASSUME NEW how, Stop(how) PROVE Shapes'
    BY <1>1, <1>2, <1>4 DEF Stop
  <1>5. ASSUME NEW next, NEW t, NEW g, HasCols(g), Go(next, t, g) PROVE Shapes'
    BY <1>2, <1>5 DEF Go
  <1>6. ASSUME NEW g, Building, Build(g), HasCols(g) PROVE Shapes'
    BY <1>3, <1>6 DEF Building, Build
  <1>7. CASE \E n \in Names, v \in MetaVals : AddMeta(n, v) \/ AddColMeta(n, v)
    <2>1. ASSUME NEW n, NEW v, AddMeta(n, v) PROVE Shapes'
      BY <1>1, <1>6, <2>1, MetaHasCols DEF AddMeta
    <2>2. ASSUME NEW n, NEW v, AddColMeta(n, v) PROVE Shapes'
      <3>1. PICK x : Build([grid EXCEPT !.cols[Len(grid.cols)].meta = x])
        BY <2>2 DEF AddColMeta
      <3> QED BY <1>1, <1>6, <2>2, <3>1, ColMetaHasCols DEF AddColMeta
    <2> QED BY <1>7, <2>1, <2>2
  <1>8. CASE \E n \in Names : AddCol(n)
    <2>1. PICK n : AddCol(n)
      BY <1>8
    <2>2. HasCols(WithCol(grid, n))
      BY <1>1, <2>1, WithColHasCols DEF AddCol, CanAddCol
    <2> QED BY <1>6, <2>1, <2>2 DEF AddCol
  <1>9. CASE \E k \in 0..Len(grid.cols) : \E row \in [1..k -> Cells] : AddRow(row)
    <2>1. PICK row : AddRow(row)
      BY <1>9
    <2> QED BY <1>1, <1>6, <2>1, MetaHasCols DEF AddRow, WithRow
  <1>10. CASE \E k \in 1..MaxRows : \E dicts \in [1..k -> Records] : MakeGrid(dicts)
    <2>0. PICK k \in 1..MaxRows : \E dicts \in [1..k -> Records] : MakeGrid(dicts)
      BY <1>10
    <2>1. PICK dicts \in [1..k -> Records] : MakeGrid(dicts)
      BY <2>0
    <2>2. k \in Nat
      OBVIOUS
    <2>3. dicts \in Seq(Records)
      BY <2>2
    <2>4. made' = dicts /\ grid' = Made(dicts) /\ got' = got
      BY <2>1 DEF MakeGrid
    <2>5. HasCols(Made(dicts))
      BY <2>3, MadeIs
    <2> QED BY <1>1, <2>3, <2>4, <2>5 DEF Shapes
  <1>11. CASE MakeError
    BY <1>6, <1>11, ErrorGridHasCols DEF MakeError
  <1>12. CASE Write \/ \E n \in 0..Len(text) - 1 : Cut(n)
    BY <1>1, <1>2, <1>12 DEF Write, Cut
  <1>13. CASE ReadVer
    BY <1>1, <1>4, <1>5, <1>13 DEF ReadVer
  <1>14. CASE ReadTag
    <2>1. ASSUME NEW n, NEW v PROVE HasCols(WithTag(n, v))
      <3>1. \/ \E x : WithTag(n, v) = [got EXCEPT !.meta = x]
            \/ \E x : WithTag(n, v) = [got EXCEPT !.cols[Len(got.cols)].meta = x]
        BY DEF WithTag
      <3>2. ASSUME NEW x, WithTag(n, v) = [got EXCEPT !.meta = x] PROVE HasCols(WithTag(n, v))
        <4>1. HasCols([got EXCEPT !.meta = x])
          BY <1>1, MetaHasCols
        <4> QED BY <3>2, <4>1, Zenon
      <3>3. ASSUME NEW x, WithTag(n, v) = [got EXCEPT !.cols[Len(got.cols)].meta = x]
            PROVE  HasCols(WithTag(n, v))
        <4>1. HasCols([got EXCEPT !.cols[Len(got.cols)].meta = x])
          BY <1>1, ColMetaHasCols
        <4> QED BY <3>3, <4>1, Zenon
      <3> QED BY <3>1, <3>2, <3>3
    <2>2. \/ \E how : Stop(how)
          \/ \E next, t, n, v : Go(next, t, WithTag(n, v))
      BY <1>14 DEF ReadTag
    <2> QED BY <1>4, <1>5, <2>1, <2>2
  <1>15. CASE ReadMetaEnd
    BY <1>1, <1>4, <1>5, <1>15 DEF ReadMetaEnd
  <1>16. CASE ReadCol
    <2>1. PICK name : IF CanAddCol(got, name)
                      THEN \E next, t : Go(next, t, WithCol(got, name)) ELSE Stop("raise")
      BY <1>16 DEF ReadCol
    <2>2. CanAddCol(got, name) => HasCols(WithCol(got, name))
      BY <1>1, WithColHasCols DEF CanAddCol
    <2> QED BY <1>4, <1>5, <2>1, <2>2
  <1>17. CASE ReadColEnd
    BY <1>1, <1>4, <1>5, <1>17 DEF ReadColEnd
  <1>18. CASE ReadCell
    <2>1. \/ \E how : Stop(how)
          \/ /\ made' = made /\ grid' = grid
             /\ got' = got \/ \E rows : got' = [got EXCEPT !.rows = rows]
      BY <1>18 DEF ReadCell, WithRow
    <2>2. ASSUME NEW rows, got' = [got EXCEPT !.rows = rows] PROVE HasCols(got')
      BY <1>1, <2>2, MetaHasCols
    <2> QED BY <1>1, <1>2, <1>4, <2>1, <2>2
  <1>19. CASE ReadEnd
    BY <1>1, <1>5, <1>19 DEF ReadEnd
  <1>20. CASE UNCHANGED vars
    BY <1>1, <1>2, <1>20 DEF vars
  <1> QED BY <1>7, <1>8, <1>9, <1>10, <1>11, <1>12, <1>13, <1>14, <1>15, <1>16, <1>17, <1>18,
             <1>19, <1>20 DEF Next

(* So they hold in every state. *)
LEMMA ShapesAlways == Spec => []Shapes
  BY ShapesInit, ShapesStep, PTL DEF Spec

(* A column is found under its own name and under no other, in the grid that *)
(* a program builds and in every grid that the reader is in the middle of,   *)
(* whatever text it reads.                                                   *)
THEOREM ColsAlwaysByName == Spec => []ColsByName
  <1>1. Shapes => ColsByName
    <2> SUFFICES ASSUME Shapes, NEW g \in {grid, got}, NEW n
                 PROVE  Cardinality(ColIndex(g, n)) = IF n \in Range(ColNames(g)) THEN 1 ELSE 0
      BY DEF ColsByName
    <2>1. HasCols(g)
      BY DEF Shapes
    <2> QED BY <2>1, ColsFound
  <1> QED BY <1>1, ShapesAlways, PTL

(* Grid::make gives a row to each dict that is not empty, in their order and *)
(* with their tags, and only those rows compare equal to their dict that     *)
(* have a tag for every column: for any number of dicts.                     *)
THEOREM RowsAlwaysRecords == Spec => []RowsAreRecords
  <1>1. Shapes => RowsAreRecords
    <2> SUFFICES ASSUME Shapes, made # <<>> PROVE RowsAreRecords
      BY DEF RowsAreRecords
    <2>1. made \in Seq(Records) /\ grid = Made(made)
      BY DEF Shapes
    <2>2. PICK dicts \in Seq(Records) : dicts = made
      BY <2>1
    <2>3. PICK g : g = Made(dicts)
      OBVIOUS
    <2>4. PICK whole : whole = Selected(dicts, Full(dicts))
      OBVIOUS
    <2>5. /\ Len(g.rows) = Len(whole)
          /\ \A r \in DOMAIN whole :
               /\ \A n \in DOMAIN whole[r] : ToDict(g, r)[n] = whole[r][n]
               /\ RowIs(g, r, ToDict(g, r))
               /\ SameDict(ToDict(g, r), whole[r]) <=> RowIs(g, r, whole[r])
               /\ RowIs(g, r, whole[r]) <=> DOMAIN whole[r] = Range(ColNames(g))
      BY <2>3, <2>4, RecordsFound
    <2>6. grid = g
      BY <2>1, <2>2, <2>3
    <2>7. Selected(made, {i \in DOMAIN made : made[i] # NoTags}) = whole
      BY <2>2, <2>4 DEF Full
    <2> QED BY <2>5, <2>6, <2>7, Zenon DEF RowsAreRecords
  <1> QED BY <1>1, ShapesAlways, PTL
-----------------------------------------------------------------------------
(* Kind by kind, for the values that Zinc can carry.                         *)

(* Numbers, whose unit must not begin with what goes on with a number. *)
LEMMA NumValue ==
  ASSUME NEW v, v = Value("num", v.text, v.more), v.text \in NumTexts \union Unlimited,
         v.more \in Seq(UnitChar), Faithful(v), NEW rest, Ends(rest)
  PROVE  ReadBack(v, rest)
<1>1. v.kind = "num"
  BY DEF Value
<1>2. NoLoneDigit(v.text)
  BY <1>1 DEF Faithful, NoLoneDigit
<1>3. v.more = <<>> \/ (v.more[1] # Separator /\ v.text \notin Unlimited)
  BY <1>1 DEF Faithful, Separator
<1>4. PICK s, m : s = v.text /\ m = v.more
  OBVIOUS
<1>5. v = Num(s, m)
  BY <1>4 DEF Num
<1>6. CASE s \in Unlimited
  <2>1. m = <<>>
    BY <1>3, <1>4, <1>6
  <2>2. v \in {Num(w, <<>>) : w \in Unlimited}
    BY <1>5, <1>6, <2>1
  <2>. QED
    BY <2>2, WordsReadBack
<1>7. CASE s \notin Unlimited
  <2>1. s \in Printable /\ m \in Seq(UnitChar)
    BY <1>1, <1>4, <1>7, RoundedIs DEF Faithful
  <2>2. NoLoneDigit(s) /\ (m = <<>> \/ m[1] # Separator)
    BY <1>2, <1>3, <1>4
  <2>3. ReadBack(Num(s, m), rest)
    BY <2>1, <2>2, NumReadsBack
  <2>. QED
    BY <1>5, <2>3
<1>. QED
  BY <1>6, <1>7

(* The kinds that are a text. *)
LEMMA TextValue ==
  ASSUME NEW v, v = Value(v.kind, v.text, v.more), Writable(v), Faithful(v), NEW rest, Ends(rest),
         \/ v.kind = "str" /\ IsText(v.text) /\ v.more = <<>>
         \/ v.kind = "ref" /\ v.text \in Seq(RefChar) /\ IsText(v.more)
         \/ v.kind = "uri" /\ IsText(v.text) /\ v.more = <<>>
         \/ v.kind = "bin" /\ IsText(v.text) /\ "/" \in Range(v.text) /\ v.more = <<>>
  PROVE  ReadBack(v, rest)
<1>1. PICK k, s, m : k = v.kind /\ s = v.text /\ m = v.more
  OBVIOUS
<1>2. v = Value(k, s, m)
  BY <1>1
<1>3. CASE k = "str" /\ IsText(s) /\ m = <<>>
  <2>1. v = Str(s)
    BY <1>2, <1>3 DEF Str
  <2>. QED
    BY <1>3, <2>1, StrReadsBack
<1>4. CASE k = "ref" /\ s \in Seq(RefChar) /\ IsText(m)
  <2>1. v = Ref(s, m)
    BY <1>2, <1>4 DEF Ref
  <2>. QED
    BY <1>4, <2>1, RefReadsBack
<1>5. CASE k = "uri" /\ IsText(s) /\ m = <<>>
  <2>1. v = Uri(s)
    BY <1>2, <1>5 DEF Uri
  <2>2. Range(s) \intersect Control = {}
    BY <1>1, <1>5 DEF Writable, UriWritable
  <2>3. "\\" \notin Range(s)
    BY <1>1, <1>5 DEF Faithful, UriCloses
  <2>4. Range(s) \intersect {"\\", "\n", "\r"} = {}
    BY <2>2, <2>3 DEF Control
  <2>. QED
    BY <1>5, <2>1, <2>4, UriReadsBack
<1>6. CASE k = "bin" /\ IsText(s) /\ "/" \in Range(s) /\ m = <<>>
  <2>1. v = Bin(s)
    BY <1>2, <1>6 DEF Bin
  <2>2. ")" \notin Range(s)
    BY <1>1, <1>6 DEF Writable, BinWritable
  <2>3. Range(s) \intersect {"\n", "\r"} = {}
    BY <1>1, <1>6 DEF Faithful
  <2>4. Range(s) \intersect {")", "\n", "\r"} = {}
    BY <2>2, <2>3
  <2>5. s \in Text
    BY <1>6, TextTypes DEF IsText
  <2>. QED
    BY <1>6, <2>1, <2>4, <2>5, BinReadsBack
<1>. QED
  BY <1>1, <1>3, <1>4, <1>5, <1>6

(* The kinds that stand for a place or a time. *)
LEMMA PlacedValue ==
  ASSUME NEW v, v = Value(v.kind, v.text, v.more), Faithful(v), NEW rest, Ends(rest),
         \/ v.kind = "coord" /\ \E lat, lng \in Degrees : v = Coord(lat, lng)
         \/ v.kind = "date" /\ v.text \in DateTexts /\ v.more = <<>>
         \/ v.kind = "time" /\ v.text \in TimeTexts /\ v.more = <<>>
  PROVE  ReadBack(v, rest)
<1>1. PICK k, s, m : k = v.kind /\ s = v.text /\ m = v.more
  OBVIOUS
<1>2. v = Value(k, s, m)
  BY <1>1
<1>3. ASSUME NEW lat \in Degrees, NEW lng \in Degrees, v = Coord(lat, lng), k = "coord" PROVE ReadBack(v, rest)
  <2>1. v.text = <<lat>> /\ v.more = <<lng>>
    BY <1>3 DEF Coord, Value
  <2>2. v.text[1] = lat /\ v.more[1] = lng
    BY <2>1
  <2>3. lat # "1.001" /\ lng # "1.001"
    BY <1>1, <1>3, <2>2 DEF Faithful
  <2>. QED
    BY <1>3, <2>3, CoordReadsBack
<1>4. CASE k = "date" /\ s \in DateTexts /\ m = <<>>
  <2>1. PICK x \in TwoDigits, y \in TwoDigits : s = <<"2010", x, y>>
    BY <1>4 DEF DateTexts
  <2>2. v = Value("date", <<"2010", x, y>>, <<>>)
    BY <1>2, <1>4, <2>1
  <2>. QED
    BY <2>2, DateReadsBack
<1>5. CASE k = "time" /\ s \in TimeTexts /\ m = <<>>
  <2>1. PICK h, x, y, z : Clock(h, x, y, z) /\ s = <<h, x, y, z>>
    BY <1>5 DEF TimeTexts, Clock
  <2>2. v = Value("time", <<h, x, y, z>>, <<>>)
    BY <1>2, <1>5, <2>1
  <2>. QED
    BY <2>1, <2>2, TimeReadsBack
<1>. QED
  BY <1>1, <1>3, <1>4, <1>5

(* The parts of a date with a time that Zinc carries. *)
LEMMA DateTimeIs ==
  ASSUME NEW v, v = Value("datetime", v.text, v.more), Faithful(v),
         \E date \in DateTexts, time \in TimeTexts : v.text = date \o time,
         \E zone \in ZoneNames, offset \in Offsets : v.more = zone \o <<offset>>
  PROVE  \E x, y, h, i, s, ms, zone : IsDateTime(v, x, y, h, i, s, ms, zone)
<1>1. PICK date \in DateTexts, time \in TimeTexts : v.text = date \o time
  OBVIOUS
<1>2. PICK zone \in ZoneNames, offset \in Offsets : v.more = zone \o <<offset>>
  OBVIOUS
<1>3. PICK x \in TwoDigits, y \in TwoDigits : date = <<"2010", x, y>>
  BY DEF DateTexts
<1>4. PICK h, i, s, ms : Clock(h, i, s, ms) /\ time = <<h, i, s, ms>>
  BY DEF TimeTexts, Clock
<1>5. offset \in Symbol
  BY DEF Symbol
<1>6. Zone(v) = zone /\ Offset(v) = offset
  BY <1>2, <1>5, ZonesAre, ZonePlaces
<1>7. v.kind = "datetime"
  BY DEF Value
<1>8. offset = ZoneOffset(zone)
  BY <1>6, <1>7 DEF Faithful
<1>9. IsDateTime(v, x, y, h, i, s, ms, zone)
  <2>1. v.text = DateAndTime(x, y, h, i, s, ms)
    BY <1>1, <1>3, <1>4, Zenon DEF DateAndTime
  <2>2. v.more = zone \o <<ZoneOffset(zone)>>
    BY <1>2, <1>8
  <2>. QED
    BY <1>4, <2>1, <2>2, Zenon DEF IsDateTime
<1>. QED
  BY <1>9

(* And such a value is read back. *)
LEMMA DateTimeValue ==
  ASSUME NEW v, v = Value("datetime", v.text, v.more), Faithful(v), NEW rest, Ends(rest),
         \E date \in DateTexts, time \in TimeTexts : v.text = date \o time,
         \E zone \in ZoneNames, offset \in Offsets : v.more = zone \o <<offset>>
  PROVE  ReadBack(v, rest)
<1>1. PICK x, y, h, i, s, ms, zone : IsDateTime(v, x, y, h, i, s, ms, zone)
  BY DateTimeIs
<1>. QED
  BY <1>1, DateTimeReadsBack

(* Whatever the kind of a value: what the writer prints for it the reader  *)
(* takes for the same value, with what follows it still to be read.        *)
THEOREM ValuesReadBack ==
  ASSUME NEW v, IsValue(v), Writable(v), Faithful(v), v # Empty, NEW rest, Ends(rest)
  PROVE  ReadBack(v, rest)
<1>1. v = Value(v.kind, v.text, v.more)
  BY DEF IsValue
<1>2. CASE v \in {Marker, Bool(TRUE), Bool(FALSE)}
  BY <1>2, WordsReadBack
<1>3. CASE v.kind = "num" /\ v.text \in NumTexts \union Unlimited /\ v.more \in Seq(UnitChar)
  BY <1>1, <1>3, NumValue
<1>4. CASE \/ v.kind = "str" /\ IsText(v.text) /\ v.more = <<>>
           \/ v.kind = "ref" /\ v.text \in Seq(RefChar) /\ IsText(v.more)
           \/ v.kind = "uri" /\ IsText(v.text) /\ v.more = <<>>
           \/ v.kind = "bin" /\ IsText(v.text) /\ "/" \in Range(v.text) /\ v.more = <<>>
  BY <1>1, <1>4, TextValue
<1>5. CASE \/ v.kind = "coord" /\ \E lat, lng \in Degrees : v = Coord(lat, lng)
           \/ v.kind = "date" /\ v.text \in DateTexts /\ v.more = <<>>
           \/ v.kind = "time" /\ v.text \in TimeTexts /\ v.more = <<>>
  BY <1>1, <1>5, PlacedValue
<1>6. CASE /\ v.kind = "datetime"
           /\ \E date \in DateTexts, time \in TimeTexts : v.text = date \o time
           /\ \E zone \in ZoneNames, offset \in Offsets : v.more = zone \o <<offset>>
  BY <1>1, <1>6, DateTimeValue
<1>. QED
  BY <1>2, <1>3, <1>4, <1>5, <1>6, Zenon DEF IsValue

-----------------------------------------------------------------------------
(* Parts of a text: what is left of it behind some of them, and how the    *)
(* text of each kind of value begins.                                       *)

(* The part of a sequence behind its first elements, and its own first. *)
LEMMA SubSeqFirst ==
  ASSUME NEW S, NEW ss \in Seq(S), NEW n \in Nat, n = Len(ss), NEW k \in 0..n
  PROVE  /\ SubSeq(ss, k + 1, n) \in Seq(S)
         /\ k # n => /\ SubSeq(ss, k + 1, n) # <<>> /\ SubSeq(ss, k + 1, n)[1] = ss[k + 1]
                     /\ Tail(SubSeq(ss, k + 1, n)) = SubSeq(ss, k + 2, n)
<1>1. PICK tt : tt = SubSeq(ss, k + 1, n)
  OBVIOUS
<1>2. tt \in Seq(S) /\ Len(tt) = n - k /\ \A i \in 1..n - k : tt[i] = ss[k + i]
  BY <1>1
<1>3. ASSUME k # n PROVE tt # <<>> /\ tt[1] = ss[k + 1] /\ Tail(tt) = SubSeq(ss, k + 2, n)
  <2>1. tt # <<>> /\ tt[1] = ss[k + 1]
    BY <1>2, <1>3
  <2>2. PICK uu : uu = SubSeq(ss, k + 2, n)
    OBVIOUS
  <2>3. uu \in Seq(S) /\ Len(uu) = n - k - 1 /\ \A i \in 1..n - k - 1 : uu[i] = ss[k + 1 + i]
    BY <1>3, <2>2
  <2>4. PICK vv : vv = Tail(tt)
    OBVIOUS
  <2>5. vv \in Seq(S) /\ Len(vv) = n - k - 1 /\ \A i \in 1..n - k - 1 : vv[i] = tt[i + 1]
    <3>1. PICK m \in Nat : m = n - k - 1 /\ Len(tt) = m + 1
      BY <1>2, <1>3
    <3>2. vv = SubSeq(tt, 2, m + 1)
      BY <2>4, <3>1 DEF Tail
    <3>3. vv \in Seq(S) /\ Len(vv) = m /\ \A i \in 1..m : vv[i] = tt[i + 1]
      BY <1>2, <3>1, <3>2
    <3>. QED
      BY <3>1, <3>3
  <2>6. \A i \in 1..n - k - 1 : vv[i] = uu[i]
    BY <1>2, <2>3, <2>5
  <2>7. vv = uu
    BY <2>3, <2>5, <2>6
  <2>. QED
    BY <2>1, <2>2, <2>4, <2>7
<1>. QED
  BY <1>1, <1>2, <1>3

(* What is left of texts put end to end, behind the first k. *)
After(ss, k) == FlattenSeq(SubSeq(ss, k + 1, Len(ss)))

(* Texts that are joined begin with the first of them. *)
LEMMA AfterFacts ==
  ASSUME NEW ss \in Seq(Text)
  PROVE  /\ After(ss, 0) = FlattenSeq(ss) /\ After(ss, Len(ss)) = <<>>
         /\ \A k \in 0..Len(ss) : After(ss, k) \in Text
         /\ \A k \in 0..Len(ss) - 1 : After(ss, k) = ss[k + 1] \o After(ss, k + 1)
<1>1. PICK n \in Nat : n = Len(ss)
  OBVIOUS
<1>2. PICK S : S = Seq(Symbol)
  OBVIOUS
<1>3. ss \in Seq(S)
  BY <1>2 DEF Text
<1>4. ASSUME NEW k \in 0..n
      PROVE  /\ After(ss, k) \in Text
             /\ k # n => After(ss, k) = ss[k + 1] \o After(ss, k + 1)
  <2>1. PICK tt : tt = SubSeq(ss, k + 1, n)
    OBVIOUS
  <2>2. tt \in Seq(S) /\ (k # n => /\ tt # <<>> /\ tt[1] = ss[k + 1]
                                   /\ Tail(tt) = SubSeq(ss, k + 2, n))
    BY <1>1, <1>3, <2>1, SubSeqFirst
  <2>3. tt \in Seq(Seq(Symbol))
    BY <1>2, <2>2
  <2>4. FlattenSeq(tt) \in Seq(Symbol) /\ (tt # <<>> => FlattenSeq(tt) = tt[1] \o FlattenSeq(Tail(tt)))
    BY <2>3, FlattenedElements, FlattenedFirst
  <2>5. k + 2 = k + 1 + 1
    OBVIOUS
  <2>. QED
    BY <1>1, <2>1, <2>2, <2>4, <2>5 DEF After, Text
<1>5. After(ss, 0) = FlattenSeq(ss)
  <2>1. SubSeq(ss, 1, Len(ss)) = ss
    BY <1>3
  <2>2. After(ss, 0) = FlattenSeq(SubSeq(ss, 0 + 1, Len(ss)))
    BY DEF After
  <2>3. 0 + 1 = 1
    OBVIOUS
  <2>. QED
    BY <2>1, <2>2, <2>3
<1>6. After(ss, n) = <<>>
  <2>1. PICK e : e = SubSeq(ss, n + 1, n)
    OBVIOUS
  <2>2. e \in Seq(S) /\ e = <<>>
    BY <1>1, <1>3, <2>1
  <2>3. e \in Seq(Seq(Symbol)) /\ DOMAIN e = {}
    BY <1>2, <2>2
  <2>4. PICK f : f = FlattenSeq(e)
    OBVIOUS
  <2>5. f \in Seq(Symbol) /\ DOMAIN f = {}
    BY <2>3, <2>4, FlattenedElements
  <2>6. f = <<>>
    BY <2>5
  <2>. QED
    BY <1>1, <2>1, <2>4, <2>6 DEF After
<1>7. \A k \in 0..n - 1 : k \in 0..n /\ k # n
  OBVIOUS
<1>. QED
  BY <1>1, <1>4, <1>5, <1>6, <1>7

(* A text that begins with neither a blank nor what ends a value or a line. *)
Opens(t) == t \in Text /\ t # <<>> /\ Cur(t) \notin {" ", "\t", ",", "\n", "eof"}

(* The shortest texts. *)
LEMMA NoText == <<>> \in Text /\ \A c \in Symbol : <<c>> \in Text
<1>1. \A S : <<>> \in Seq(S) /\ \A c \in S : <<c>> \in Seq(S)
  OBVIOUS
<1>. QED
  BY <1>1, Zenon DEF Text

(* A single symbol that opens. *)
LEMMA OpensWith ==
  ASSUME NEW c \in Symbol, c \notin {" ", "\t", ",", "\n", "eof"}
  PROVE  Opens(<<c>>)
<1>1. PICK e \in Text : e = <<>>
  BY NoText
<1>2. <<c>> = Pre(c, e)
  BY <1>1, JoinPre
<1>3. Pre(c, e) \in Text /\ Pre(c, e) # <<>> /\ Cur(Pre(c, e)) = c
  BY PreText
<1>. QED
  BY <1>2, <1>3 DEF Opens

(* A text opens whatever follows its first symbol. *)
LEMMA OpensJoin ==
  ASSUME NEW s, Opens(s), NEW t \in Text
  PROVE  Opens(s \o t)
<1>1. s \in Text /\ s # <<>>
  BY DEF Opens
<1>2. s \o t \in Text /\ Cur(s \o t) = Cur(s) /\ Len(s \o t) = Len(s) + Len(t)
  BY <1>1, JoinText
<1>3. s \o t # <<>>
  <2>1. PICK n \in Nat, m \in Nat : n = Len(s) /\ m = Len(t) /\ n # 0
    BY <1>1, TextTypes
  <2>. QED
    BY <1>2, <2>1
<1>. QED
  BY <1>2, <1>3 DEF Opens

(* A text of two symbols. *)
LEMMA TwoJoined ==
  ASSUME NEW a \in Symbol, NEW b \in Symbol
  PROVE  <<a>> \o <<b>> = <<a, b>> /\ <<b>> \in Text
<1>1. PICK t \in Text : t = <<b>>
  BY NoText
<1>2. <<a>> \o t = Pre(a, t)
  BY JoinPre
<1>3. <<a, b>> = Pre(a, <<b>>)
  BY <1>1, PairText
<1>. QED
  BY <1>1, <1>2, <1>3

(* A number begins with a digit, a sign or a word. *)
LEMMA NumOpens ==
  ASSUME NEW v, v = Value("num", v.text, v.more), v.text \in NumTexts \union Unlimited,
         v.more \in Seq(UnitChar), Faithful(v)
  PROVE  Opens(ToZinc(v))
<1>1. v.kind = "num"
  BY DEF Value
<1>2. NoLoneDigit(v.text)
  BY <1>1 DEF Faithful, NoLoneDigit
<1>3. PICK s, m : s = v.text /\ m = v.more
  OBVIOUS
<1>4. m \in Text
  BY <1>3, TextTypes
<1>5. PICK apart : apart = {" ", "\t", ",", "\n", "eof"}
  OBVIOUS
<1>6. /\ \A c \in Digits : c \in Symbol /\ c \notin apart
      /\ "-" \in Symbol /\ "-" \notin apart
      /\ \A c \in {"NaN", "INF"} : c \in Symbol /\ c \notin apart
  BY <1>5, SymbolsAre, NoClass DEF Signs, Alpha, Upper
<1>7. CASE s \in Unlimited
  <2>1. ToZinc(v) = s
    BY <1>1, <1>3, <1>7 DEF ToZinc, NumText
  <2>2. CASE s = <<"NaN">> \/ s = <<"INF">>
    BY <1>5, <1>6, <2>1, <2>2, OpensWith
  <2>3. CASE s = <<"-", "INF">>
    <3>1. Opens(<<"-">>)
      BY <1>5, <1>6, OpensWith
    <3>2. <<"INF">> \in Text
      BY <1>6 DEF Text
    <3>3. Opens(<<"-">> \o <<"INF">>)
      BY <3>1, <3>2, OpensJoin
    <3>4. <<"-">> \o <<"INF">> = <<"-", "INF">>
      <4>1. PICK a, b : a = "-" /\ b = "INF"
        OBVIOUS
      <4>. QED
        BY <1>6, <4>1, TwoJoined
    <3>. QED
      BY <2>1, <2>3, <3>3, <3>4
  <2>. QED
    BY <1>7, <2>2, <2>3 DEF Unlimited
<1>8. CASE s \notin Unlimited
  <2>0. s \in Printable /\ Rounded(s) = s
    BY <1>1, <1>3, <1>8, RoundedIs DEF Faithful
  <2>1. ToZinc(v) = s \o m
    BY <1>1, <1>3, <1>8, <2>0 DEF ToZinc, NumText
  <2>2. PICK n \in Nat : IsNumber(s, n) /\ Begins(s, n)
    BY <1>2, <1>3, <2>0, NumTextIs
  <2>3. s \in Text /\ n # 0 /\ n = Len(s)
    BY <2>2 DEF IsNumber
  <2>4. s[1] \in Digits \/ s[1] = "-"
    BY <2>2 DEF Begins
  <2>5. s # <<>> /\ Cur(s) = s[1]
    BY <2>3, TextTypes
  <2>6. Opens(s)
    BY <1>5, <1>6, <2>3, <2>4, <2>5 DEF Opens
  <2>. QED
    BY <1>4, <2>1, <2>6, OpensJoin
<1>. QED
  BY <1>7, <1>8

(* Texts, references and the other quoted values begin with their sign. *)
LEMMA TextOpens ==
  ASSUME NEW v, v = Value(v.kind, v.text, v.more), Writable(v), Faithful(v),
         \/ v.kind = "str" /\ IsText(v.text) /\ v.more = <<>>
         \/ v.kind = "ref" /\ v.text \in Seq(RefChar) /\ IsText(v.more)
         \/ v.kind = "uri" /\ IsText(v.text) /\ v.more = <<>>
         \/ v.kind = "bin" /\ IsText(v.text) /\ "/" \in Range(v.text) /\ v.more = <<>>
  PROVE  Opens(ToZinc(v))
<1>1. PICK k, s, m : k = v.kind /\ s = v.text /\ m = v.more
  OBVIOUS
<1>2. <<>> \in Text /\ \A t \in Text : t \o <<>> = t
  BY JoinText DEF Text
<1>3. PICK apart : apart = {" ", "\t", ",", "\n", "eof"}
  OBVIOUS
<1>4. /\ \A c \in {"\"", "@", Tick, "Bin"} : c \in Symbol /\ c \notin apart
      /\ "(" \in Symbol /\ ")" \in Symbol /\ " " \in Symbol
  BY <1>3, SymbolsAre DEF Signs, Alpha, Upper, Tick
<1>5. CASE k = "str" /\ IsText(s)
  <2>1. ToZinc(v) = Quoted(s)
    BY <1>1, <1>5 DEF ToZinc
  <2>2. Quoted(s) \in Text /\ Quoted(s) \o <<>> # <<>> /\ Cur(Quoted(s) \o <<>>) = "\""
    BY <1>2, <1>5, QuotedIs
  <2>3. "\"" \notin {" ", "\t", ",", "\n", "eof"}
    OBVIOUS
  <2>. QED
    BY <1>2, <2>1, <2>2, <2>3 DEF Opens
<1>6. CASE k = "ref" /\ s \in Seq(RefChar) /\ IsText(m)
  <2>1. s \in Text
    BY <1>6, TextTypes
  <2>2. PICK d \in Text : d = IF m = <<>> THEN <<>> ELSE <<" ">> \o Quoted(m)
    <3>1. <<" ">> \in Text
      BY <1>2, <1>4, JoinPre
    <3>2. Quoted(m) \in Text
      BY <1>2, <1>6, QuotedIs
    <3>3. <<" ">> \o Quoted(m) \in Text
      BY <3>1, <3>2, JoinText
    <3>. QED
      BY <1>2, <3>3
  <2>3. ToZinc(v) = (<<"@">> \o s) \o d
    BY <1>1, <1>6, <2>2 DEF ToZinc, RefText
  <2>4. Opens(<<"@">>)
    BY <1>3, <1>4, OpensWith
  <2>5. Opens(<<"@">> \o s)
    BY <2>1, <2>4, OpensJoin
  <2>. QED
    BY <2>2, <2>3, <2>5, OpensJoin
<1>7. CASE k = "uri" /\ IsText(s)
  <2>1. ToZinc(v) = UriText(s)
    BY <1>1, <1>7 DEF ToZinc
  <2>2. Range(s) \intersect Control = {}
    BY <1>1, <1>7 DEF Writable, UriWritable
  <2>3. "\\" \notin Range(s)
    BY <1>1, <1>7 DEF Faithful, UriCloses
  <2>4. Range(s) \intersect {"\\", "\n", "\r"} = {}
    BY <2>2, <2>3 DEF Control
  <2>5. UriText(s) \in Text /\ UriText(s) \o <<>> # <<>> /\ Cur(UriText(s) \o <<>>) = Tick
    BY <1>2, <1>7, <2>4, UriTextIs
  <2>. QED
    BY <1>2, <1>3, <1>4, <2>1, <2>5 DEF Opens
<1>8. CASE k = "bin" /\ IsText(s)
  <2>1. s \in Text
    BY <1>8, TextTypes DEF IsText
  <2>2. ToZinc(v) = (<<"Bin", "(">> \o s) \o <<")">>
    BY <1>1, <1>8 DEF ToZinc, BinText
  <2>3. Opens(<<"Bin">>) /\ <<"(">> \in Text /\ <<")">> \in Text
    BY <1>2, <1>3, <1>4, OpensWith, JoinPre
  <2>4. Opens(<<"Bin">> \o <<"(">>)
    BY <2>3, OpensJoin
  <2>5. <<"Bin">> \o <<"(">> = <<"Bin", "(">>
    <3>1. PICK a, b : a = "Bin" /\ b = "("
      OBVIOUS
    <3>. QED
      BY <1>4, <3>1, TwoJoined
  <2>6. Opens(<<"Bin", "(">> \o s)
    BY <2>1, <2>4, <2>5, OpensJoin
  <2>. QED
    BY <2>2, <2>3, <2>6, OpensJoin
<1>. QED
  BY <1>1, <1>5, <1>6, <1>7, <1>8

(* The parts of the text of a date with a time. *)
DateTimeJoined(date, time, offset, zone) ==
  ((((date \o <<"T">>) \o time) \o offset) \o <<" ">>) \o zone

(* These parts make the text that is written. *)
LEMMA DateTimeParts ==
  ASSUME NEW m, NEW d, NEW h, NEW i, NEW s, NEW ms, NEW zone, NEW v,
         IsDateTime(v, m, d, h, i, s, ms, zone)
  PROVE  /\ ToZinc(v) = DateTimeJoined(<<"2010", "-", m, "-", d>>, TimeText(<<h, i, s, ms>>),
                                        OffsetText(ZoneOffset(zone)), zone)
         /\ <<"2010", "-", m, "-", d>> \in Text /\ TimeText(<<h, i, s, ms>>) \in Text
         /\ OffsetText(ZoneOffset(zone)) \in Text /\ zone \in Text
<1>0. m \in TwoDigits /\ d \in TwoDigits /\ Clock(h, i, s, ms) /\ zone \in ZoneNames
  BY DEF IsDateTime
<1>1. v.kind = "datetime" /\ v.text = DateAndTime(m, d, h, i, s, ms) /\ v.more = zone \o <<ZoneOffset(zone)>>
  BY DEF IsDateTime, Value
<1>2. DateText(v.text) = <<"2010", "-", m, "-", d>> /\ SubSeq(v.text, 4, 7) = <<h, i, s, ms>>
  <2>1. m \in TwoDigits /\ d \in TwoDigits
    BY <1>0
  <2>2. Clock(h, i, s, ms)
    BY <1>0
  <2>. QED
    BY <1>1, <2>1, <2>2, DateTimePlaces
<1>3. PICK t \in Text : t = <<>>
  BY NoText
<1>4. ZoneOffset(zone) \in Symbol /\ zone \in Text /\ OffsetText(ZoneOffset(zone)) \in Text
  BY <1>0, <1>3, OffsetTextIs
<1>5. Zone(v) = zone /\ Offset(v) = ZoneOffset(zone)
  BY <1>0, <1>1, <1>4, ZonesAre, ZonePlaces
<1>6. TimeText(<<h, i, s, ms>>) \in Text
  BY <1>0, <1>3, TimeTextIs
<1>7. <<"2010", "-", m, "-", d>> \in Text
  <2>1. PICK y, a : y = "2010" /\ a = "-"
    OBVIOUS
  <2>2. Five(y, a, m, a, d)
    BY <1>0, <2>1, GroupsAre DEF Five, Four
  <2>3. <<y, a, m, a, d>> \in Text
    BY <2>2, FiveText
  <2>. QED
    BY <2>1, <2>3
<1>8. ToZinc(v) = DateTimeText(v)
  BY <1>1 DEF ToZinc
<1>9. DateTimeText(v) = DateTimeJoined(DateText(v.text), TimeText(SubSeq(v.text, 4, 7)),
                                       OffsetText(Offset(v)), Zone(v))
  BY DEF DateTimeText, DateTimeJoined
<1>. QED
  BY <1>2, <1>4, <1>5, <1>6, <1>7, <1>8, <1>9

(* Coordinates, dates and times begin with a word or a digit. *)
LEMMA PlacedOpens ==
  ASSUME NEW v, v = Value(v.kind, v.text, v.more), Faithful(v),
         \/ v.kind = "coord" /\ \E lat, lng \in Degrees : v = Coord(lat, lng)
         \/ v.kind = "date" /\ v.text \in DateTexts /\ v.more = <<>>
         \/ v.kind = "time" /\ v.text \in TimeTexts /\ v.more = <<>>
  PROVE  Opens(ToZinc(v))
<1>1. PICK k, s, m : k = v.kind /\ s = v.text /\ m = v.more
  OBVIOUS
<1>2. v = Value(k, s, m)
  BY <1>1
<1>3. PICK apart : apart = {" ", "\t", ",", "\n", "eof"}
  OBVIOUS
<1>4. /\ "C" \in Symbol /\ "C" \notin apart
      /\ {"(", ",", ")"} \subseteq Symbol /\ Degrees \subseteq Symbol
      /\ \A c \in Digits : c \in Symbol /\ c \notin apart
  BY <1>3, SymbolsAre, NoClass DEF Signs, Alpha, Upper, Symbol
<1>5. ASSUME NEW lat \in Degrees, NEW lng \in Degrees, v = Coord(lat, lng), k = "coord"
      PROVE  Opens(ToZinc(v))
  <2>1. v.text = <<lat>> /\ v.more = <<lng>>
    BY <1>5 DEF Coord, Value
  <2>2. ToZinc(v) = (((<<"C", "(">> \o <<lat>>) \o <<",">>) \o <<lng>>) \o <<")">>
    BY <1>1, <1>5, <2>1 DEF ToZinc, CoordText
  <2>3. <<lat>> \in Text /\ <<",">> \in Text /\ <<lng>> \in Text /\ <<")">> \in Text /\ <<"(">> \in Text
    BY <1>4, NoText
  <2>4. Opens(<<"C">>)
    BY <1>3, <1>4, OpensWith
  <2>5. PICK p : p = <<"C", "(">>
    OBVIOUS
  <2>6. Opens(p)
    <3>1. PICK a, b : a = "C" /\ b = "("
      OBVIOUS
    <3>2. <<a>> \o <<b>> = <<a, b>>
      BY <1>4, <3>1, TwoJoined
    <3>. QED
      BY <2>3, <2>4, <2>5, <3>1, <3>2, OpensJoin
  <2>7. Opens(p \o <<lat>>)
    BY <2>3, <2>6, OpensJoin
  <2>8. Opens((p \o <<lat>>) \o <<",">>)
    BY <2>3, <2>7, OpensJoin
  <2>9. Opens(((p \o <<lat>>) \o <<",">>) \o <<lng>>)
    BY <2>3, <2>8, OpensJoin
  <2>. QED
    BY <2>2, <2>3, <2>5, <2>9, OpensJoin
<1>6. CASE k = "date" /\ s \in DateTexts
  <2>1. PICK x \in TwoDigits, y \in TwoDigits : s = <<"2010", x, y>>
    BY <1>6 DEF DateTexts
  <2>2. s[1] = "2010" /\ s[2] = x /\ s[3] = y
    BY <2>1
  <2>3. ToZinc(v) = <<"2010", "-", x, "-", y>>
    BY <1>1, <1>6, <2>2 DEF ToZinc, DateText
  <2>4. PICK c, a : c = "2010" /\ a = "-"
    OBVIOUS
  <2>5. Five(c, a, x, a, y)
    BY <2>4, GroupsAre DEF Five, Four
  <2>6. PICK w : w = <<c, a, x, a, y>>
    OBVIOUS
  <2>7. w \in Text /\ w # <<>> /\ w[1] = c
    BY <2>5, <2>6, FiveText
  <2>8. Cur(w) = c /\ c \notin apart
    BY <1>4, <2>4, <2>7, GroupsAre DEF Cur
  <2>. QED
    BY <1>3, <2>3, <2>4, <2>6, <2>7, <2>8 DEF Opens
<1>7. CASE k = "time" /\ s \in TimeTexts
  <2>1. PICK h, x, y, z : Clock(h, x, y, z) /\ s = <<h, x, y, z>>
    BY <1>7 DEF TimeTexts, Clock
  <2>2. PICK t \in Text : t = <<>>
    BY NoText
  <2>3. TimeText(<<h, x, y, z>>) \in Text
    BY <2>1, <2>2, TimeTextIs
  <2>4. TimeText(<<h, x, y, z>>) \o t = Pre(h, TimeTail(x, y, z, t))
    BY <2>1, TimeTextIs
  <2>5. TimeText(<<h, x, y, z>>) \o t = TimeText(<<h, x, y, z>>)
    BY <2>2, <2>3, JoinText
  <2>6. h \in Symbol /\ h \notin apart
    BY <1>4, <2>1, GroupsAre DEF Clock
  <2>7. TimeTail(x, y, z, t) \in Text
    <3>1. t = <<>> => Cur(t) # "."
      BY DEF Cur
    <3>. QED
      BY <2>1, <2>2, <3>1, TimeValIs
  <2>8. PICK e \in Text : e = TimeTail(x, y, z, t)
    BY <2>7
  <2>9. Pre(h, e) # <<>> /\ Cur(Pre(h, e)) = h
    BY <2>6, PreText
  <2>10. ToZinc(v) = TimeText(s)
    BY <1>1, <1>7 DEF ToZinc
  <2>11. ToZinc(v) \in Text /\ ToZinc(v) = Pre(h, e)
    BY <2>1, <2>3, <2>4, <2>5, <2>8, <2>10
  <2>. QED
    BY <1>3, <2>6, <2>9, <2>11 DEF Opens
<1>. QED
  BY <1>1, <1>5, <1>6, <1>7

(* A date with a time begins with the year. *)
LEMMA DateTimeOpens ==
  ASSUME NEW m, NEW d, NEW h, NEW i, NEW s, NEW ms, NEW zone, NEW v,
         IsDateTime(v, m, d, h, i, s, ms, zone)
  PROVE  Opens(ToZinc(v))
<1>1. PICK e : e = <<"2010", "-", m, "-", d>>
  OBVIOUS
<1>2. PICK f : f = TimeText(<<h, i, s, ms>>)
  OBVIOUS
<1>3. PICK g : g = OffsetText(ZoneOffset(zone))
  OBVIOUS
<1>4. ToZinc(v) = ((((e \o <<"T">>) \o f) \o g) \o <<" ">>) \o zone
  <2>1. ToZinc(v) = DateTimeJoined(<<"2010", "-", m, "-", d>>, TimeText(<<h, i, s, ms>>),
                                   OffsetText(ZoneOffset(zone)), zone)
    BY DateTimeParts
  <2>2. ToZinc(v) = DateTimeJoined(e, f, g, zone)
    BY <1>1, <1>2, <1>3, <2>1, Zenon
  <2>. QED
    BY <2>2 DEF DateTimeJoined
<1>5. e \in Text /\ f \in Text /\ g \in Text /\ zone \in Text
  <2>1. <<"2010", "-", m, "-", d>> \in Text /\ TimeText(<<h, i, s, ms>>) \in Text
        /\ OffsetText(ZoneOffset(zone)) \in Text /\ zone \in Text
    BY DateTimeParts
  <2>. QED
    BY <1>1, <1>2, <1>3, <2>1
<1>6. Opens(e)
  <2>1. PICK y, a : y = "2010" /\ a = "-"
    OBVIOUS
  <2>2. PICK w : w = <<y, a, m, a, d>>
    OBVIOUS
  <2>3. w = e /\ w # <<>> /\ w[1] = y
    BY <1>1, <2>1, <2>2
  <2>4. Cur(w) = "2010"
    BY <2>1, <2>3 DEF Cur
  <2>. QED
    BY <1>5, <2>3, <2>4 DEF Opens
<1>7. <<"T">> \in Text /\ <<" ">> \in Text
  BY NoText, GroupsAre
<1>8. Opens(e \o <<"T">>)
  BY <1>6, <1>7, OpensJoin
<1>9. Opens((e \o <<"T">>) \o f)
  BY <1>5, <1>8, OpensJoin
<1>10. Opens(((e \o <<"T">>) \o f) \o g)
  BY <1>5, <1>9, OpensJoin
<1>11. Opens((((e \o <<"T">>) \o f) \o g) \o <<" ">>)
  BY <1>7, <1>10, OpensJoin
<1>. QED
  BY <1>4, <1>5, <1>11, OpensJoin

(* Values that Zinc carries. *)
Sendable(v) == IsValue(v) /\ Writable(v) /\ Faithful(v)

(* The text of every value that is not empty opens. *)
LEMMA ValuesOpen ==
  ASSUME NEW v, Sendable(v), v # Empty
  PROVE  Opens(ToZinc(v))
<1>0. IsValue(v) /\ Writable(v) /\ Faithful(v)
  BY DEF Sendable
<1>1. v = Value(v.kind, v.text, v.more)
  BY <1>0 DEF IsValue
<1>2. CASE v \in {Marker, Bool(TRUE), Bool(FALSE)}
  <2>1. \A c \in {"M", "T", "F"} : c \in Symbol /\ c \notin {" ", "\t", ",", "\n", "eof"}
    BY SymbolsAre DEF Alpha, Upper
  <2>2. ToZinc(Marker) = <<"M">> /\ ToZinc(Bool(TRUE)) = <<"T">> /\ ToZinc(Bool(FALSE)) = <<"F">>
    BY DEF ToZinc, Marker, Bool, Value
  <2>. QED
    BY <1>2, <2>1, <2>2, OpensWith
<1>3. CASE v.kind = "num" /\ v.text \in NumTexts \union Unlimited /\ v.more \in Seq(UnitChar)
  BY <1>0, <1>1, <1>3, NumOpens
<1>4. CASE \/ v.kind = "str" /\ IsText(v.text) /\ v.more = <<>>
           \/ v.kind = "ref" /\ v.text \in Seq(RefChar) /\ IsText(v.more)
           \/ v.kind = "uri" /\ IsText(v.text) /\ v.more = <<>>
           \/ v.kind = "bin" /\ IsText(v.text) /\ "/" \in Range(v.text) /\ v.more = <<>>
  BY <1>0, <1>1, <1>4, TextOpens
<1>5. CASE \/ v.kind = "coord" /\ \E lat, lng \in Degrees : v = Coord(lat, lng)
           \/ v.kind = "date" /\ v.text \in DateTexts /\ v.more = <<>>
           \/ v.kind = "time" /\ v.text \in TimeTexts /\ v.more = <<>>
  BY <1>0, <1>1, <1>5, PlacedOpens
<1>6. CASE /\ v.kind = "datetime"
           /\ \E date \in DateTexts, time \in TimeTexts : v.text = date \o time
           /\ \E zone \in ZoneNames, offset \in Offsets : v.more = zone \o <<offset>>
  <2>1. PICK x, y, h, i, s, ms, zone : IsDateTime(v, x, y, h, i, s, ms, zone)
    BY <1>0, <1>1, <1>6, DateTimeIs
  <2>. QED
    BY <2>1, DateTimeOpens
<1>. QED
  BY <1>0, <1>2, <1>3, <1>4, <1>5, <1>6, Zenon DEF IsValue

-----------------------------------------------------------------------------
(* Lines.  No value has the end of a line in its text: a line ends only where *)
(* the writer of the grid ends it.                                           *)
Plain == Symbol \ {"\n", "eof"}
NoLine(t) == t \in Seq(Plain)

(* The symbols of most classes are no end of a line. *)
LEMMA PlainAre ==
  /\ Alpha \subseteq Plain /\ Id \subseteq Plain /\ UnitChar \subseteq Plain /\ RefChar \subseteq Plain
  /\ TzChar \subseteq Plain /\ Digits \subseteq Plain /\ TwoDigits \subseteq Plain /\ Degrees \subseteq Plain
  /\ {"\"", "\\", "\r", "\t", " ", ",", ":", "-", "+", ".", "(", ")", "@", Tick} \subseteq Plain
  /\ {"ctl", "u", "n", "r", "t", "2.0", "005"} \subseteq Plain
  /\ \A c \in STRING : c \notin {"\n", "eof"} => c \in Plain
<1>1. \A c \in {"\n", "eof"} : /\ c \notin Alpha /\ c \notin Id /\ c \notin UnitChar /\ c \notin RefChar
                               /\ c \notin TzChar /\ c \notin Digits
  BY NoClass
<1>2. Alpha \subseteq Plain /\ Id \subseteq Plain /\ UnitChar \subseteq Plain /\ RefChar \subseteq Plain
      /\ TzChar \subseteq Plain /\ Digits \subseteq Plain
  BY <1>1, SymbolsAre DEF Plain
<1>3. {"\"", "\\", "\r", "\t", " ", ",", ":", "-", "+", ".", "(", ")", "@", Tick} \subseteq Plain
  <2>1. {"\"", "\\", "\r", "\t", " ", ",", ":", "-", "+", ".", "(", ")", "@", Tick} \subseteq Signs
    BY DEF Signs
  <2>. QED
    BY <2>1, SymbolsAre DEF Plain, Tick
<1>4. {"ctl", "u", "n", "r", "t", "2.0"} \subseteq Plain /\ Degrees \subseteq Plain
  BY DEF Plain, Symbol, Degrees
<1>5. TwoDigits \subseteq Plain /\ "005" \in Plain
  BY <1>2 DEF Digits
<1>6. \A c \in STRING : c \notin {"\n", "eof"} => c \in Plain
  BY SymbolsAre DEF Plain
<1>. QED
  BY <1>2, <1>3, <1>4, <1>5, <1>6

(* Texts without one, put together. *)
LEMMA NoLineJoin ==
  /\ NoLine(<<>>)
  /\ \A c \in Plain : NoLine(<<c>>)
  /\ \A s, t : NoLine(s) /\ NoLine(t) => NoLine(s \o t)
  /\ \A C : C \subseteq Plain => \A s \in Seq(C) : NoLine(s)
<1>1. \A C : C \subseteq Plain => \A s \in Seq(C) : s \in Seq(Plain)
  BY SeqMonotonic, Zenon
<1>2. \A s, t \in Seq(Plain) : s \o t \in Seq(Plain)
  BY ConcatPlaces
<1>. QED
  BY <1>1, <1>2 DEF NoLine

(* Such a text is a text. *)
LEMMA NoLineText ==
  ASSUME NEW t, NoLine(t)
  PROVE  t \in Text
BY DEF NoLine, Text, Plain

(* And one after the other. *)
LEMMA NoLineFlat ==
  ASSUME NEW n \in Nat, NEW f, f = [i \in 1..n |-> f[i]], \A i \in 1..n : NoLine(f[i])
  PROVE  NoLine(FlattenSeq(f))
<1>1. f \in [1..n -> Seq(Plain)]
  BY DEF NoLine
<1>2. f \in Seq(Seq(Plain))
  BY <1>1
<1>. QED
  BY <1>2, FlattenedElements DEF NoLine

(* Pairs and triples. *)
LEMMA NoLineFew ==
  /\ \A a, b \in Plain : NoLine(<<a, b>>)
  /\ \A a, b, c \in Plain : NoLine(<<a, b, c>>)
  /\ \A a, b, c, d \in Plain : NoLine(<<a, b, c, d>>)
  /\ \A a, b, c, d, e \in Plain : NoLine(<<a, b, c, d, e>>)
BY DEF NoLine

(* The text between quotes. *)
LEMMA QuotedNoLine ==
  ASSUME NEW s, IsText(s)
  PROVE  NoLine(Quoted(s))
<1>1. s \in Seq(STRING) /\ "eof" \notin Range(s)
  BY DEF IsText
<1>2. PICK n \in Nat : n = Len(s)
  BY <1>1
<1>3. ASSUME NEW i \in 1..n PROVE NoLine(Escaped(s[i]))
  <2>0. s[i] \in STRING /\ s[i] \in Range(s)
    BY <1>1, <1>2 DEF Range
  <2>1. PICK c \in STRING : c = s[i] /\ c # "eof"
    BY <1>1, <2>0
  <2>2. CASE c \in {"\n", "\r", "\t", "\"", "\\", "ctl"}
    BY <2>1, <2>2, PlainAre, NoLineFew DEF Escaped
  <2>3. CASE c \notin {"\n", "\r", "\t", "\"", "\\", "ctl"}
    <3>1. c \in Plain
      BY <2>1, <2>3, PlainAre
    <3>2. Escaped(c) = <<c>>
      BY <2>3 DEF Escaped
    <3>. QED
      BY <2>1, <3>1, <3>2, NoLineJoin
  <2>. QED
    BY <2>2, <2>3
<1>4. PICK f : f = [i \in 1..n |-> Escaped(s[i])]
  OBVIOUS
<1>5. NoLine(FlattenSeq(f))
  BY <1>3, <1>4, NoLineFlat
<1>6. NoLine(<<"\"">>)
  BY PlainAre, NoLineJoin
<1>7. Quoted(s) = (<<"\"">> \o FlattenSeq(f)) \o <<"\"">>
  BY <1>2, <1>4 DEF Quoted
<1>. QED
  BY <1>5, <1>6, <1>7, NoLineJoin

(* The text between backticks. *)
LEMMA UriNoLine ==
  ASSUME NEW s, IsText(s), "\n" \notin Range(s)
  PROVE  NoLine(UriText(s))
<1>1. s \in Seq(STRING) /\ "eof" \notin Range(s)
  BY DEF IsText
<1>2. PICK n \in Nat : n = Len(s)
  BY <1>1
<1>3. PICK f : f = [i \in 1..n |-> IF s[i] = Tick THEN <<"\\", Tick>> ELSE <<s[i]>>]
  OBVIOUS
<1>4. ASSUME NEW i \in 1..n PROVE NoLine(f[i])
  <2>0. s[i] \in STRING /\ s[i] \in Range(s)
    BY <1>1, <1>2 DEF Range
  <2>1. PICK c \in STRING : c = s[i] /\ c # "eof" /\ c # "\n"
    BY <1>1, <2>0
  <2>2. c \in Plain
    BY <2>1, PlainAre
  <2>3. f[i] = <<"\\", Tick>> \/ f[i] = <<c>>
    BY <1>3, <2>1
  <2>. QED
    BY <2>2, <2>3, PlainAre, NoLineFew, NoLineJoin
<1>5. NoLine(FlattenSeq(f))
  BY <1>3, <1>4, NoLineFlat
<1>6. NoLine(<<Tick>>)
  BY PlainAre, NoLineJoin
<1>7. UriText(s) = (<<Tick>> \o FlattenSeq(f)) \o <<Tick>>
  BY <1>2, <1>3 DEF UriText
<1>. QED
  BY <1>5, <1>6, <1>7, NoLineJoin

(* Texts, references and the other quoted values. *)
LEMMA TextNoLine ==
  ASSUME NEW v, Writable(v), Faithful(v),
         \/ v.kind = "str" /\ IsText(v.text)
         \/ v.kind = "ref" /\ v.text \in Seq(RefChar) /\ IsText(v.more)
         \/ v.kind = "uri" /\ IsText(v.text)
         \/ v.kind = "bin" /\ IsText(v.text)
  PROVE  NoLine(ToZinc(v))
<1>1. CASE v.kind = "str" /\ IsText(v.text)
  BY <1>1, QuotedNoLine DEF ToZinc
<1>2. CASE v.kind = "ref" /\ v.text \in Seq(RefChar) /\ IsText(v.more)
  <2>1. NoLine(<<"@">>) /\ NoLine(<<" ">>) /\ NoLine(v.text) /\ NoLine(<<>>)
    BY <1>2, PlainAre, NoLineJoin
  <2>2. PICK q : q = Quoted(v.more) /\ NoLine(q)
    BY <1>2, QuotedNoLine
  <2>3. NoLine(<<"@">> \o v.text) /\ NoLine(<<" ">> \o q)
    BY <2>1, <2>2, NoLineJoin
  <2>4. PICK w : w = (IF v.more = <<>> THEN <<>> ELSE <<" ">> \o q) /\ NoLine(w)
    BY <2>1, <2>3
  <2>5. ToZinc(v) = (<<"@">> \o v.text) \o w
    BY <1>2, <2>2, <2>4 DEF ToZinc, RefText
  <2>. QED
    BY <2>3, <2>4, <2>5, NoLineJoin
<1>3. CASE v.kind = "uri" /\ IsText(v.text)
  <2>1. "\n" \notin Range(v.text)
    BY <1>3 DEF Writable, UriWritable, Control
  <2>. QED
    BY <1>3, <2>1, UriNoLine DEF ToZinc
<1>4. CASE v.kind = "bin" /\ IsText(v.text)
  <2>1. "\n" \notin Range(v.text) /\ "eof" \notin Range(v.text)
    BY <1>4 DEF Faithful, IsText
  <2>2. PICK s \in Seq(STRING) : s = v.text
    BY <1>4 DEF IsText
  <2>3. NoLine(s)
    <3>1. \A i \in 1..Len(s) : s[i] \in Plain
      <4>1. \A i \in 1..Len(s) : s[i] \in STRING /\ s[i] \in Range(s)
        BY DEF Range
      <4>. QED
        BY <2>1, <2>2, <4>1, PlainAre
    <3>. QED
      BY <3>1 DEF NoLine
  <2>4. NoLine(<<"Bin", "(">>) /\ NoLine(<<")">>)
    <3>1. "Bin" \in Plain
      BY PlainAre DEF Alpha, Upper
    <3>. QED
      BY <3>1, PlainAre, NoLineFew, NoLineJoin
  <2>5. ToZinc(v) = (<<"Bin", "(">> \o s) \o <<")">>
    BY <1>4, <2>2 DEF ToZinc, BinText
  <2>. QED
    BY <2>3, <2>4, <2>5, NoLineJoin
<1>. QED
  BY <1>1, <1>2, <1>3, <1>4

(* Numbers. *)
LEMMA NumNoLine ==
  ASSUME NEW v, v.kind = "num", v.text \in NumTexts \union Unlimited, v.more \in Seq(UnitChar)
  PROVE  NoLine(ToZinc(v))
<1>1. NoLine(v.more)
  BY PlainAre, NoLineJoin
<1>2. "NaN" \in Plain /\ "INF" \in Plain /\ "e" \in Plain
  BY PlainAre DEF Alpha, Upper, Lower, Keyword
<1>3. CASE v.text \in Unlimited
  <2>1. NoLine(<<"NaN">>) /\ NoLine(<<"INF">>) /\ NoLine(<<"-", "INF">>)
    BY <1>2, PlainAre, NoLineJoin, NoLineFew
  <2>. QED
    BY <1>3, <2>1 DEF ToZinc, NumText, Unlimited
<1>4. CASE v.text \notin Unlimited
  <2>0. PICK s : s = Rounded(v.text) /\ s \in Printable
    BY <1>4, RoundedIs
  <2>1. PICK sign \in Signed, d \in Digits, f \in Fraction, e \in Exponent : s = ((sign \o <<d>>) \o f) \o e
    BY <2>0, PrintableParts DEF NumberText
  <2>2. NoLine(sign)
    BY PlainAre, NoLineJoin DEF Signed
  <2>3. NoLine(<<d>>)
    BY PlainAre, NoLineJoin
  <2>4. NoLine(f)
    BY PlainAre, NoLineJoin, NoLineFew DEF Fraction
  <2>5. NoLine(e)
    <3>1. CASE e = <<>>
      BY <3>1, NoLineJoin
    <3>2. CASE e # <<>>
      <4>1. PICK z \in {"+", "-"}, x \in Digits : e = <<"e", z, x>>
        <5>1. e = <<>> \/ \E z \in {"+", "-"} : \E x \in Digits : e = <<"e", z, x>>
          BY DEF Exponent
        <5>. QED
          BY <3>2, <5>1
      <4>2. z \in Plain /\ x \in Plain
        BY PlainAre
      <4>. QED
        BY <1>2, <4>1, <4>2, NoLineFew
    <3>. QED
      BY <3>1, <3>2
  <2>6. NoLine(s)
    BY <2>1, <2>2, <2>3, <2>4, <2>5, NoLineJoin
  <2>. QED
    BY <1>1, <1>4, <2>0, <2>6, NoLineJoin DEF ToZinc, NumText
<1>. QED
  BY <1>3, <1>4

(* The parts of dates and times. *)
LEMMA TimeNoLine ==
  /\ \A x, y \in TwoDigits : NoLine(<<"2010", "-", x, "-", y>>)
  /\ \A h, i, s, ms : Clock(h, i, s, ms) => NoLine(TimeText(<<h, i, s, ms>>))
  /\ \A zone \in ZoneNames : NoLine(OffsetText(ZoneOffset(zone))) /\ NoLine(zone)
<1>1. "2010" \in Plain /\ "00" \in Plain /\ "02" \in Plain /\ "2" \in Plain
  BY PlainAre DEF Digits, TwoDigits, OneDigit, Zeros
<1>2. \A x, y \in TwoDigits : NoLine(<<"2010", "-", x, "-", y>>)
  BY <1>1, PlainAre, NoLineFew
<1>3. ASSUME NEW h, NEW i, NEW s, NEW ms, Clock(h, i, s, ms) PROVE NoLine(TimeText(<<h, i, s, ms>>))
  <2>1. NoLine(<<h, ":", i, ":", s>>)
    BY <1>3, PlainAre, NoLineFew DEF Clock
  <2>2. ms # "000" => NoLine(<<".", ms>>)
    BY <1>3, PlainAre, NoLineFew DEF Clock
  <2>3. TimeText(<<h, i, s, ms>>) = <<h, ":", i, ":", s>> \o IF ms = "000" THEN <<>> ELSE <<".", ms>>
    BY DEF TimeText
  <2>. QED
    BY <2>1, <2>2, <2>3, NoLineJoin
<1>4. ASSUME NEW zone \in ZoneNames PROVE NoLine(OffsetText(ZoneOffset(zone))) /\ NoLine(zone)
  <2>1. "Z" \in Plain
    BY PlainAre DEF Alpha, Upper
  <2>2. OffsetText("0") = <<"Z">> /\ OffsetText("+2") = <<"+", "02", ":", "00">>
    BY DEF OffsetText
  <2>3. ZoneOffset(zone) \in {"0", "+2"}
    BY DEF ZoneOffset
  <2>4. NoLine(<<"Z">>) /\ NoLine(<<"+", "02", ":", "00">>)
    BY <1>1, <2>1, PlainAre, NoLineJoin, NoLineFew
  <2>5. {"UTC", "New_York", "GMT"} \subseteq Plain
    BY PlainAre DEF TzChar, Zones
  <2>6. NoLine(zone)
    <3>1. NoLine(<<"UTC">>) /\ NoLine(<<"New_York">>) /\ NoLine(<<"GMT">>)
      BY <2>5, NoLineJoin
    <3>2. NoLine(<<"GMT", "+", "2">>)
      BY <1>1, <2>5, PlainAre, NoLineFew
    <3>3. zone \in {<<"UTC">>, <<"New_York">>, <<"GMT">>, <<"GMT", "+", "2">>}
      BY Zenon DEF ZoneNames
    <3>. QED
      BY <3>1, <3>2, <3>3, Zenon
  <2>. QED
    BY <2>2, <2>3, <2>4, <2>6
<1>. QED
  BY <1>2, <1>3, <1>4

(* Coordinates, dates and times. *)
LEMMA PlacedNoLine ==
  ASSUME NEW v,
         \/ v.kind = "coord" /\ \E lat, lng \in Degrees : v = Coord(lat, lng)
         \/ v.kind = "date" /\ v.text \in DateTexts
         \/ v.kind = "time" /\ v.text \in TimeTexts
  PROVE  NoLine(ToZinc(v))
<1>1. CASE v.kind = "coord" /\ \E lat, lng \in Degrees : v = Coord(lat, lng)
  <2>1. PICK lat \in Degrees, lng \in Degrees : v = Coord(lat, lng)
    BY <1>1
  <2>2. v.text = <<lat>> /\ v.more = <<lng>>
    BY <2>1 DEF Coord, Value
  <2>3. ToZinc(v) = (((<<"C", "(">> \o <<lat>>) \o <<",">>) \o <<lng>>) \o <<")">>
    BY <1>1, <2>2 DEF ToZinc, CoordText
  <2>4. "C" \in Plain
    BY PlainAre DEF Alpha, Upper
  <2>5. NoLine(<<"C", "(">>) /\ NoLine(<<lat>>) /\ NoLine(<<",">>) /\ NoLine(<<lng>>) /\ NoLine(<<")">>)
    BY <2>4, PlainAre, NoLineJoin, NoLineFew
  <2>. QED
    BY <2>3, <2>5, NoLineJoin
<1>2. CASE v.kind = "date" /\ v.text \in DateTexts
  <2>1. PICK s : s = v.text
    OBVIOUS
  <2>2. PICK x \in TwoDigits, y \in TwoDigits : s = <<"2010", x, y>>
    BY <1>2, <2>1 DEF DateTexts
  <2>3. s[1] = "2010" /\ s[2] = x /\ s[3] = y
    BY <2>2
  <2>4. ToZinc(v) = <<"2010", "-", x, "-", y>>
    BY <1>2, <2>1, <2>3 DEF ToZinc, DateText
  <2>. QED
    BY <2>4, TimeNoLine
<1>3. CASE v.kind = "time" /\ v.text \in TimeTexts
  <2>1. PICK s : s = v.text
    OBVIOUS
  <2>2. PICK h, x, y, z : Clock(h, x, y, z) /\ s = <<h, x, y, z>>
    BY <1>3, <2>1 DEF TimeTexts, Clock
  <2>3. ToZinc(v) = TimeText(<<h, x, y, z>>)
    BY <1>3, <2>1, <2>2 DEF ToZinc
  <2>. QED
    BY <2>2, <2>3, TimeNoLine
<1>. QED
  BY <1>1, <1>2, <1>3

(* Dates with a time. *)
LEMMA DateTimeNoLine ==
  ASSUME NEW m, NEW d, NEW h, NEW i, NEW s, NEW ms, NEW zone, NEW v,
         IsDateTime(v, m, d, h, i, s, ms, zone)
  PROVE  NoLine(ToZinc(v))
<1>1. PICK e, f, g : e = <<"2010", "-", m, "-", d>> /\ f = TimeText(<<h, i, s, ms>>) /\ g = OffsetText(ZoneOffset(zone))
  OBVIOUS
<1>2. m \in TwoDigits /\ d \in TwoDigits /\ Clock(h, i, s, ms) /\ zone \in ZoneNames
  BY DEF IsDateTime
<1>3. NoLine(e) /\ NoLine(f) /\ NoLine(g) /\ NoLine(zone)
  BY <1>1, <1>2, TimeNoLine
<1>4. NoLine(<<"T">>) /\ NoLine(<<" ">>)
  <2>1. "T" \in Plain
    BY PlainAre DEF Alpha, Upper
  <2>. QED
    BY <2>1, PlainAre, NoLineJoin
<1>5. ToZinc(v) = ((((e \o <<"T">>) \o f) \o g) \o <<" ">>) \o zone
  <2>1. ToZinc(v) = DateTimeJoined(<<"2010", "-", m, "-", d>>, TimeText(<<h, i, s, ms>>),
                                   OffsetText(ZoneOffset(zone)), zone)
    BY DateTimeParts
  <2>2. ToZinc(v) = DateTimeJoined(e, f, g, zone)
    BY <1>1, <2>1, Zenon
  <2>. QED
    BY <2>2 DEF DateTimeJoined
<1>6. NoLine(((e \o <<"T">>) \o f) \o g)
  BY <1>3, <1>4, NoLineJoin
<1>. QED
  BY <1>3, <1>4, <1>5, <1>6, NoLineJoin

(* No value that Zinc carries. *)
LEMMA ValuesNoLine ==
  ASSUME NEW v, Sendable(v)
  PROVE  NoLine(ToZinc(v))
<1>0. IsValue(v) /\ Writable(v) /\ Faithful(v)
  BY DEF Sendable
<1>1. v = Value(v.kind, v.text, v.more)
  BY <1>0 DEF IsValue
<1>2. CASE v \in {Empty, Marker, Bool(TRUE), Bool(FALSE)}
  <2>1. {"M", "T", "F"} \subseteq Plain
    BY PlainAre DEF Alpha, Upper
  <2>2. /\ ToZinc(Marker) = <<"M">> /\ ToZinc(Bool(TRUE)) = <<"T">> /\ ToZinc(Bool(FALSE)) = <<"F">>
        /\ ToZinc(Empty) = <<>>
    BY DEF ToZinc, Marker, Bool, Value, Empty
  <2>. QED
    BY <1>2, <2>1, <2>2, NoLineJoin
<1>3. CASE v.kind = "num" /\ v.text \in NumTexts \union Unlimited /\ v.more \in Seq(UnitChar)
  BY <1>3, NumNoLine
<1>4. CASE \/ v.kind = "str" /\ IsText(v.text) /\ v.more = <<>>
           \/ v.kind = "ref" /\ v.text \in Seq(RefChar) /\ IsText(v.more)
           \/ v.kind = "uri" /\ IsText(v.text) /\ v.more = <<>>
           \/ v.kind = "bin" /\ IsText(v.text) /\ "/" \in Range(v.text) /\ v.more = <<>>
  BY <1>0, <1>4, TextNoLine
<1>5. CASE \/ v.kind = "coord" /\ \E lat, lng \in Degrees : v = Coord(lat, lng)
           \/ v.kind = "date" /\ v.text \in DateTexts /\ v.more = <<>>
           \/ v.kind = "time" /\ v.text \in TimeTexts /\ v.more = <<>>
  BY <1>5, PlacedNoLine
<1>6. CASE /\ v.kind = "datetime"
           /\ \E date \in DateTexts, time \in TimeTexts : v.text = date \o time
           /\ \E zone \in ZoneNames, offset \in Offsets : v.more = zone \o <<offset>>
  <2>1. PICK x, y, h, i, s, ms, zone : IsDateTime(v, x, y, h, i, s, ms, zone)
    BY <1>0, <1>1, <1>6, DateTimeIs
  <2>. QED
    BY <2>1, DateTimeNoLine
<1>. QED
  BY <1>0, <1>2, <1>3, <1>4, <1>5, <1>6, Zenon DEF IsValue

-----------------------------------------------------------------------------
(* The text of a dict: a tag at a time, with what follows it.               *)

(* A dict with tags that Zinc carries. *)
CleanDict(d) ==
  /\ DOMAIN d \subseteq Names /\ d = [n \in DOMAIN d |-> d[n]]
  /\ \A n \in DOMAIN d : Sendable(d[n]) /\ d[n] # Empty

(* A name is a text that begins as an identifier does. *)
LEMMA NamesAre ==
  ASSUME NEW n \in Names
  PROVE  n \in Text /\ n # <<>> /\ Cur(n) \in IdStart /\ \A i \in 1..Len(n) : n[i] \in Id
<1>1. n \in Seq(STRING)
  <2>1. PICK s \in Seq(Seq(STRING)) : s = Order
    BY OrderAssumption
  <2>2. PICK i \in DOMAIN s : n = s[i]
    BY <2>1 DEF Names, Range
  <2>. QED
    BY <2>2
<1>2. IsTagName(n)
  BY OrderAssumption
<1>3. n \in Text /\ DOMAIN n = 1..Len(n)
  BY <1>1, TextTypes
<1>. QED
  BY <1>2, <1>3 DEF IsTagName, Cur

(* The reader takes a name up to what is not part of one. *)
LEMMA NameIsRead ==
  ASSUME NEW n \in Names, NEW u \in Text, Cur(u) \notin Id
  PROVE  /\ n \o u \in Text /\ Cur(n \o u) = Cur(n)
         /\ Name(n \o u) = n /\ Drop(n \o u, Len(n)) = u
<1>1. n \in Text /\ n # <<>> /\ Cur(n) \in IdStart /\ \A i \in 1..Len(n) : n[i] \in Id
  BY NamesAre
<1>2. n \o u \in Text /\ Cur(n \o u) = Cur(n)
  BY <1>1, JoinText
<1>3. Run(n \o u, Id) = Len(n) /\ SubSeq(n \o u, 1, Len(n)) = n /\ Drop(n \o u, Len(n)) = u
  BY <1>1, RunOfClass
<1>. QED
  BY <1>1, <1>2, <1>3 DEF Name

(* The texts of the tags, what is left of them behind the first j, with    *)
(* what follows, and the dict of the first j.                              *)
TagTexts(d) ==
  [i \in 1..Len(TagNames(d)) |-> <<" ">> \o TagText(TagNames(d)[i], d[TagNames(d)[i]])]
TagsLeft(d, j, rest) == After(TagTexts(d), j) \o rest
TagsUpTo(d, j) == [n \in {TagNames(d)[i] : i \in 1..j} |-> d[n]]

(* One tag, with what follows. *)
TagThen(n, v, u) == n \o IF v = Marker THEN u ELSE Pre(":", ToZinc(v) \o u)

(* The j-th tag of a dict. *)
IsTag(d, j, n, v) ==
  /\ CleanDict(d) /\ j \in 1..Len(TagNames(d)) /\ n = TagNames(d)[j] /\ v = d[n]

(* A tag of a clean dict has a name and a value that Zinc carries. *)
LEMMA TagIs ==
  ASSUME NEW d, NEW j, NEW n, NEW v, IsTag(d, j, n, v)
  PROVE  n \in Names /\ n \in DOMAIN d /\ Sendable(v) /\ v # Empty /\ ToZinc(v) \in Text /\ Opens(ToZinc(v))
<1>1. DOMAIN d \subseteq Names /\ \A m \in DOMAIN d : Sendable(d[m]) /\ d[m] # Empty
  BY DEF IsTag, CleanDict
<1>2. PICK names : names = TagNames(d)
  OBVIOUS
<1>3. names \in Seq(Names) /\ \A i \in DOMAIN names : names[i] \in DOMAIN d
  BY <1>1, <1>2, TagNamesAre
<1>4. n \in DOMAIN d
  BY <1>2, <1>3 DEF IsTag
<1>5. Sendable(v) /\ v # Empty
  BY <1>1, <1>4 DEF IsTag
<1>6. Opens(ToZinc(v))
  BY <1>5, ValuesOpen
<1>. QED
  BY <1>1, <1>4, <1>5, <1>6 DEF Opens

(* The text of a tag, with a blank before it and any text behind it. *)
LEMMA TagTextIs ==
  ASSUME NEW n \in Names, NEW v, ToZinc(v) \in Text, NEW u \in Text
  PROVE  /\ TagText(n, v) \in Text
         /\ (<<" ">> \o TagText(n, v)) \o u = Pre(" ", TagThen(n, v, u))
         /\ <<" ">> \o TagText(n, v) \in Text
<1>1. n \in Text
  BY NamesAre
<1>2. " " \in Symbol /\ ":" \in Symbol
  BY GroupsAre
<1>3. PICK x : x = IF v = Marker THEN <<>> ELSE <<":">> \o ToZinc(v)
  OBVIOUS
<1>4. x \in Text /\ x \o u = IF v = Marker THEN u ELSE Pre(":", ToZinc(v) \o u)
  <2>1. CASE v = Marker
    BY <1>3, <2>1, NoText, JoinText
  <2>2. CASE v # Marker
    <3>1. PICK c \in Text : c = <<":">>
      BY <1>2, NoText
    <3>2. PICK z \in Text : z = ToZinc(v)
      OBVIOUS
    <3>3. (c \o z) \o u = c \o (z \o u)
      BY <3>1, <3>2, JoinJoin
    <3>4. c \o z \in Text
      BY <3>1, <3>2, JoinText
    <3>5. PICK w \in Text : w = c \o z
      BY <3>4
    <3>6. x = w
      BY <1>3, <2>2, <3>1, <3>2, <3>5
    <3>7. x \o u = Pre(":", ToZinc(v) \o u)
      BY <3>1, <3>2, <3>3, <3>5, <3>6, Zenon DEF Pre
    <3>. QED
      BY <2>2, <3>5, <3>6, <3>7
  <2>. QED
    BY <2>1, <2>2
<1>5. PICK t \in Text : t = TagText(n, v) /\ t = n \o x
  <2>1. TagText(n, v) = n \o x
    BY <1>3, Zenon DEF TagText
  <2>2. n \o x \in Text
    BY <1>1, <1>4, JoinText
  <2>. QED
    BY <2>1, <2>2
<1>6. PICK b \in Text : b = <<" ">>
  BY <1>2, NoText
<1>7. (b \o t) \o u = b \o (t \o u) /\ b \o t \in Text
  <2>1. (b \o t) \o u = b \o (t \o u)
    BY <1>5, <1>6, JoinJoin, Zenon
  <2>2. b \o t \in Text
    BY <1>5, <1>6, JoinText
  <2>. QED
    BY <2>1, <2>2
<1>8. t \o u = n \o (x \o u)
  <2>1. (n \o x) \o u = n \o (x \o u)
    BY <1>1, <1>4, JoinJoin, Zenon
  <2>. QED
    BY <1>5, <2>1, Zenon
<1>9. t \o u = TagThen(n, v, u)
  BY <1>4, <1>8, Zenon DEF TagThen
<1>10. (<<" ">> \o TagText(n, v)) \o u = Pre(" ", TagThen(n, v, u))
  BY <1>5, <1>6, <1>7, <1>9, Zenon DEF Pre
<1>11. <<" ">> \o TagText(n, v) \in Text
  BY <1>5, <1>6, <1>7, Zenon
<1>. QED
  BY <1>5, <1>10, <1>11

(* There are as many of these texts as tags. *)
LEMMA TagTextsAre ==
  ASSUME NEW d, CleanDict(d)
  PROVE  /\ TagTexts(d) \in Seq(Text) /\ Len(TagTexts(d)) = Len(TagNames(d)) /\ Len(TagNames(d)) \in Nat
<1>1. PICK k \in Nat : k = Len(TagNames(d))
  <2>1. TagNames(d) \in Seq(Names)
    BY TagNamesAre DEF CleanDict
  <2>. QED
    BY <2>1
<1>2. PICK tt : tt = TagTexts(d)
  OBVIOUS
<1>3. ASSUME NEW i \in 1..k PROVE <<" ">> \o TagText(TagNames(d)[i], d[TagNames(d)[i]]) \in Text
  <2>1. PICK n, v : IsTag(d, i, n, v) /\ n = TagNames(d)[i] /\ v = d[n]
    BY <1>1 DEF IsTag
  <2>2. n \in Names /\ ToZinc(v) \in Text
    BY <2>1, TagIs
  <2>3. PICK u \in Text : u = <<>>
    BY NoText
  <2>4. <<" ">> \o TagText(n, v) \in Text
    BY <2>2, <2>3, TagTextIs
  <2>. QED
    BY <2>1, <2>4
<1>4. tt \in [1..k -> Text]
  BY <1>1, <1>2, <1>3 DEF TagTexts
<1>5. tt \in Seq(Text) /\ Len(tt) = k
  BY <1>4
<1>. QED
  BY <1>1, <1>2, <1>5

(* A tag, with what follows, begins with its name. *)
LEMMA TagThenIs ==
  ASSUME NEW n \in Names, NEW v, ToZinc(v) \in Text, NEW u \in Text
  PROVE  /\ TagThen(n, v, u) \in Text /\ Cur(TagThen(n, v, u)) = Cur(n)
         /\ Cur(n) \in IdStart /\ SkipSpace(TagThen(n, v, u)) = TagThen(n, v, u)
<1>1. n \in Text /\ n # <<>> /\ Cur(n) \in IdStart
  BY NamesAre
<1>2. ":" \in Symbol
  BY GroupsAre
<1>3. PICK x \in Text : x = IF v = Marker THEN u ELSE Pre(":", ToZinc(v) \o u)
  <2>1. ToZinc(v) \o u \in Text
    BY JoinText
  <2>. QED
    BY <1>2, <2>1, PreText
<1>4. TagThen(n, v, u) = n \o x
  BY <1>3, Zenon DEF TagThen
<1>5. n \o x \in Text /\ Cur(n \o x) = Cur(n)
  BY <1>1, <1>3, JoinText
<1>6. Cur(n) \notin {" ", "\t"}
  BY <1>1, NoClass DEF IdStart
<1>. QED
  BY <1>1, <1>4, <1>5, <1>6, SkipFacts

(* What is left behind a tag is one tag shorter. *)
LEMMA TagsLeftFacts ==
  ASSUME NEW d, CleanDict(d), NEW rest \in Text, NEW k \in Nat, k = Len(TagNames(d))
  PROVE  /\ TagsLeft(d, 0, rest) = MetaText(d) \o rest /\ MetaText(d) \in Text
         /\ TagsLeft(d, k, rest) = rest
         /\ \A j \in 0..k : TagsLeft(d, j, rest) \in Text
         /\ \A j \in 0..k - 1 : \A n, v : IsTag(d, j + 1, n, v) =>
               TagsLeft(d, j, rest) = Pre(" ", TagThen(n, v, TagsLeft(d, j + 1, rest)))
<1>1. PICK tt \in Seq(Text) : tt = TagTexts(d) /\ Len(tt) = k
  BY TagTextsAre
<1>2. /\ After(tt, 0) = FlattenSeq(tt) /\ After(tt, k) = <<>>
      /\ \A j \in 0..k : After(tt, j) \in Text
      /\ \A j \in 0..k - 1 : After(tt, j) = tt[j + 1] \o After(tt, j + 1)
  BY <1>1, AfterFacts
<1>3. MetaText(d) = After(tt, 0)
  BY <1>1, <1>2, Zenon DEF MetaText, TagTexts
<1>4. MetaText(d) \in Text
  BY <1>2, <1>3
<1>5. TagsLeft(d, 0, rest) = MetaText(d) \o rest
  BY <1>1, <1>3, Zenon DEF TagsLeft
<1>6. TagsLeft(d, k, rest) = rest
  <2>1. TagsLeft(d, k, rest) = <<>> \o rest
    BY <1>1, <1>2, Zenon DEF TagsLeft
  <2>. QED
    BY <2>1, NoText, JoinText
<1>7. \A j \in 0..k : TagsLeft(d, j, rest) \in Text
  BY <1>1, <1>2, JoinText DEF TagsLeft
<1>8. ASSUME NEW j \in 0..k - 1, NEW n, NEW v, IsTag(d, j + 1, n, v)
      PROVE  TagsLeft(d, j, rest) = Pre(" ", TagThen(n, v, TagsLeft(d, j + 1, rest)))
  <2>1. n \in Names /\ ToZinc(v) \in Text
    BY <1>8, TagIs
  <2>2. PICK a \in Text : a = After(tt, j + 1)
    <3>1. j + 1 \in 0..k
      OBVIOUS
    <3>. QED
      BY <1>2, <3>1
  <2>3. PICK u \in Text : u = a \o rest
    BY <2>2, JoinText
  <2>4. u = TagsLeft(d, j + 1, rest)
    BY <1>1, <2>2, <2>3, Zenon DEF TagsLeft
  <2>5. PICK b \in Text : b = <<" ">> \o TagText(n, v)
    BY <2>1, <2>3, TagTextIs
  <2>6. tt[j + 1] = b
    <3>1. j + 1 \in 1..k
      OBVIOUS
    <3>2. n = TagNames(d)[j + 1] /\ v = d[n]
      BY <1>8 DEF IsTag
    <3>3. PICK i : i = j + 1 /\ i \in 1..Len(TagNames(d))
      BY <3>1
    <3>4. TagTexts(d)[i] = <<" ">> \o TagText(TagNames(d)[i], d[TagNames(d)[i]])
      BY <3>3, Zenon DEF TagTexts
    <3>. QED
      BY <1>1, <2>5, <3>2, <3>3, <3>4, Zenon
  <2>7. TagsLeft(d, j, rest) = (b \o a) \o rest
    BY <1>1, <1>2, <2>2, <2>6, Zenon DEF TagsLeft
  <2>8. (b \o a) \o rest = b \o u
    BY <2>2, <2>3, <2>5, JoinJoin
  <2>9. b \o u = Pre(" ", TagThen(n, v, u))
    BY <2>1, <2>3, <2>5, TagTextIs
  <2>. QED
    BY <2>4, <2>7, <2>8, <2>9
<1>. QED
  BY <1>4, <1>5, <1>6, <1>7, <1>8

(* What follows a value in the tags of a dict ends it. *)
Follows(rest) == rest \in Text /\ Cur(rest) \in {",", "\n"}

(* Behind a tag comes a blank and the next, or what follows the dict. *)
LEMMA TagsGoOn ==
  ASSUME NEW d, CleanDict(d), NEW rest, Follows(rest), NEW k \in Nat, k = Len(TagNames(d)), NEW j \in 0..k
  PROVE  /\ Ends(TagsLeft(d, j, rest))
         /\ j = k => SkipSpace(TagsLeft(d, j, rest)) = rest
         /\ j # k => \A n, v : IsTag(d, j + 1, n, v) =>
               SkipSpace(TagsLeft(d, j, rest)) = TagThen(n, v, TagsLeft(d, j + 1, rest))
         /\ Cur(SkipSpace(TagsLeft(d, j, rest))) # ":"
         /\ SkipSpace(TagsLeft(d, j, rest)) \in Text
<1>1. rest \in Text /\ Cur(rest) \in {",", "\n"}
  BY DEF Follows
<1>2. CASE j = k
  <2>1. TagsLeft(d, j, rest) = rest
    BY <1>1, <1>2, TagsLeftFacts
  <2>2. SkipSpace(rest) = rest
    BY <1>1, SkipFacts
  <2>. QED
    BY <1>1, <1>2, <2>1, <2>2 DEF Ends
<1>3. CASE j # k
  <2>1. PICK n, v : IsTag(d, j + 1, n, v)
    <3>1. j + 1 \in 1..k
      BY <1>3
    <3>. QED
      BY <3>1 DEF IsTag
  <2>2. n \in Names /\ ToZinc(v) \in Text
    BY <2>1, TagIs
  <2>3. PICK u \in Text : u = TagsLeft(d, j + 1, rest)
    <3>1. j + 1 \in 0..k
      BY <1>3
    <3>. QED
      BY <1>1, <3>1, TagsLeftFacts
  <2>4. PICK t \in Text : t = TagThen(n, v, u) /\ Cur(t) \in IdStart /\ SkipSpace(t) = t
    BY <2>2, <2>3, TagThenIs
  <2>5. TagsLeft(d, j, rest) = Pre(" ", t)
    <3>1. j \in 0..k - 1
      BY <1>3
    <3>2. \A i \in 0..k - 1 : \A x, y : IsTag(d, i + 1, x, y) =>
             TagsLeft(d, i, rest) = Pre(" ", TagThen(x, y, TagsLeft(d, i + 1, rest)))
      BY <1>1, TagsLeftFacts
    <3>3. TagsLeft(d, j, rest) = Pre(" ", TagThen(n, v, TagsLeft(d, j + 1, rest)))
      BY <2>1, <3>1, <3>2
    <3>. QED
      BY <2>3, <2>4, <3>3
  <2>6. " " \in Symbol
    BY GroupsAre
  <2>7. Pre(" ", t) \in Text /\ Cur(Pre(" ", t)) = " " /\ SkipSpace(Pre(" ", t)) = t
    BY <2>4, <2>6, PreText, SkipFacts
  <2>8. Cur(t) # "\"" /\ Cur(t) # ":"
    BY <2>4, NoClass DEF IdStart, Id, Alpha
  <2>9. Ends(Pre(" ", t))
    BY <2>7, <2>8 DEF Ends
  <2>10. \A x, y : IsTag(d, j + 1, x, y) => x = n /\ y = v
    BY <2>1 DEF IsTag
  <2>. QED
    BY <1>3, <2>3, <2>4, <2>5, <2>7, <2>8, <2>9, <2>10
<1>. QED
  BY <1>2, <1>3

(* A turn of read_meta takes the tag. *)
LEMMA TagIsRead ==
  ASSUME NEW n \in Names, NEW v, Sendable(v), v # Empty, NEW u, Ends(u), Cur(SkipSpace(u)) # ":",
         NEW t, t = TagThen(n, v, u), NEW r, r = SkipSpace(Drop(t, Len(n)))
  PROVE  /\ Name(t) = n /\ n # <<>>
         /\ v = Marker => Cur(r) # ":" /\ r = SkipSpace(u)
         /\ v # Marker => Cur(r) = ":" /\ ReadBack(v, u)
                          /\ SkipSpace(Drop(r, 1)) = ToZinc(v) \o u
<1>1. u \in Text /\ Cur(u) \notin Id
  BY EndsFacts
<1>2. n # <<>>
  BY NamesAre
<1>3. CASE v = Marker
  <2>1. t = n \o u
    BY <1>3, Zenon DEF TagThen
  <2>2. Name(t) = n /\ Drop(t, Len(n)) = u
    BY <1>1, <2>1, NameIsRead
  <2>. QED
    BY <1>2, <1>3, <2>2
<1>4. CASE v # Marker
  <2>1. Opens(ToZinc(v)) /\ ReadBack(v, u)
    BY ValuesOpen, ValuesReadBack DEF Sendable
  <2>2. PICK z : z = ToZinc(v)
    OBVIOUS
  <2>3. Opens(z \o u)
    BY <1>1, <2>1, <2>2, OpensJoin
  <2>4. PICK w \in Text : w = z \o u /\ Cur(w) \notin {" ", "\t"}
    BY <2>3 DEF Opens
  <2>5. PICK x \in Text : x = Pre(":", w) /\ Cur(x) = ":" /\ Drop(x, 1) = w
    <3>1. ":" \in Symbol
      BY GroupsAre
    <3>2. w \in Text
      BY <2>4
    <3>3. Pre(":", w) \in Text /\ Cur(Pre(":", w)) = ":" /\ Drop(Pre(":", w), 1) = w
      BY <3>1, <3>2, PreText, Zenon
    <3>. QED
      BY <3>3
  <2>6. t = n \o x
    BY <1>4, <2>2, <2>4, <2>5, Zenon DEF TagThen
  <2>7. Cur(x) \notin Id /\ Cur(x) \notin {" ", "\t"}
    BY <2>5, NoClass
  <2>8. Name(t) = n /\ Drop(t, Len(n)) = x
    BY <2>6, <2>7, NameIsRead
  <2>9. r = x
    BY <2>7, <2>8, SkipFacts
  <2>10. SkipSpace(w) = w
    BY <2>4, SkipFacts
  <2>. QED
    BY <1>2, <1>4, <2>1, <2>2, <2>4, <2>5, <2>8, <2>9, <2>10
<1>. QED
  BY <1>3, <1>4

(* The dict that has been read grows by a tag a turn, up to the whole dict. *)
LEMMA TagsUpToFacts ==
  ASSUME NEW d, CleanDict(d), NEW k \in Nat, k = Len(TagNames(d))
  PROVE  /\ TagsUpTo(d, 0) = NoTags /\ TagsUpTo(d, k) = d
         /\ \A j \in 0..k - 1 : \A n, v : IsTag(d, j + 1, n, v) =>
               Add(TagsUpTo(d, j), n, v) = TagsUpTo(d, j + 1)
<1>1. DOMAIN d \subseteq Names /\ d = [n \in DOMAIN d |-> d[n]]
  BY DEF CleanDict
<1>2. PICK names \in Seq(Names) :
        /\ names = TagNames(d)
        /\ \A j \in DOMAIN names : names[j] \in DOMAIN d
        /\ \A n \in DOMAIN d : \E j \in DOMAIN names : names[j] = n
        /\ \A i, j \in DOMAIN names : names[i] = names[j] => i = j
  BY <1>1, TagNamesAre
<1>3. DOMAIN names = 1..k
  BY <1>2
<1>4. TagsUpTo(d, 0) = NoTags
  <2>1. {names[i] : i \in 1..0} = {}
    OBVIOUS
  <2>2. [n \in {names[i] : i \in 1..0} |-> d[n]] = [n \in {} |-> Empty]
    BY <2>1
  <2>. QED
    BY <1>2, <2>2 DEF TagsUpTo, NoTags
<1>5. TagsUpTo(d, k) = d
  <2>1. {names[i] : i \in 1..k} = DOMAIN d
    <3>1. \A m \in {names[i] : i \in 1..k} : m \in DOMAIN d
      BY <1>2, <1>3
    <3>2. \A m \in DOMAIN d : m \in {names[i] : i \in 1..k}
      BY <1>2, <1>3, Zenon
    <3>. QED
      BY <3>1, <3>2
  <2>2. [n \in {names[i] : i \in 1..k} |-> d[n]] = d
    BY <1>1, <2>1
  <2>. QED
    BY <1>2, <2>2 DEF TagsUpTo
<1>6. ASSUME NEW j \in 0..k - 1, NEW n, NEW v, IsTag(d, j + 1, n, v)
      PROVE  Add(TagsUpTo(d, j), n, v) = TagsUpTo(d, j + 1)
  <2>1. PICK A, B : A = {names[i] : i \in 1..j} /\ B = {names[i] : i \in 1..j + 1}
    OBVIOUS
  <2>2. n = names[j + 1] /\ v = d[n]
    BY <1>2, <1>6 DEF IsTag
  <2>3. j \in Nat /\ j + 1 \in 1..k /\ \A i \in 1..j + 1 : i \in 1..j \/ i = j + 1
    OBVIOUS
  <2>4. B = A \union {n}
    BY <2>1, <2>2, <2>3
  <2>5. n \notin A
    <3>1. SUFFICES ASSUME NEW i \in 1..j, names[i] = n PROVE FALSE
      BY <2>1
    <3>2. i \in 1..k /\ i # j + 1
      OBVIOUS
    <3>. QED
      BY <1>2, <1>3, <2>2, <2>3, <3>1, <3>2
  <2>6. PICK e : e = [m \in A |-> d[m]]
    OBVIOUS
  <2>7. TagsUpTo(d, j) = e /\ TagsUpTo(d, j + 1) = [m \in B |-> d[m]]
    BY <1>2, <2>1, <2>6 DEF TagsUpTo
  <2>8. Add(e, n, v) = [m \in A \union {n} |-> IF m = n THEN v ELSE e[m]]
    BY <2>5, <2>6 DEF Add
  <2>9. [m \in A \union {n} |-> IF m = n THEN v ELSE e[m]] = [m \in B |-> d[m]]
    BY <2>2, <2>4, <2>5, <2>6
  <2>. QED
    BY <2>7, <2>8, <2>9
<1>. QED
  BY <1>4, <1>5, <1>6

-----------------------------------------------------------------------------
(* The text of a row, of the line of columns and of the whole grid.         *)

(* The texts with their commas, and what is left of them behind the first k. *)
Parted(texts) == [i \in 1..Len(texts) |-> (IF i = 1 THEN <<>> ELSE <<",">>) \o texts[i]]
CommasLeft(texts, k, rest) == After(Parted(texts), k) \o rest

(* What is left behind one of these texts begins with a comma, or is over. *)
LEMMA CommasLeftFacts ==
  ASSUME NEW ss \in Seq(Text), NEW n \in Nat, n = Len(ss), NEW rest \in Text
  PROVE  /\ CommasLeft(ss, 0, rest) = Commas(ss) \o rest /\ Commas(ss) \in Text
         /\ CommasLeft(ss, n, rest) = rest
         /\ \A k \in 0..n : CommasLeft(ss, k, rest) \in Text
         /\ n # 0 => CommasLeft(ss, 0, rest) = ss[1] \o CommasLeft(ss, 1, rest)
         /\ \A k \in 1..n - 1 : CommasLeft(ss, k, rest) = Pre(",", ss[k + 1] \o CommasLeft(ss, k + 1, rest))
<1>1. PICK c \in Text : c = <<",">> /\ \A t \in Text : c \o t = Pre(",", t)
  <2>1. "," \in Symbol
    BY SymbolsAre DEF Signs
  <2>. QED
    BY <2>1, NoText DEF Pre
<1>2. PICK tt : tt = Parted(ss)
  OBVIOUS
<1>3. \A i \in 1..n : ss[i] \in Text
  OBVIOUS
<1>4. /\ tt = [i \in 1..n |-> tt[i]]
      /\ \A i \in 1..n : tt[i] = IF i = 1 THEN ss[1] ELSE c \o ss[i]
  <2>1. tt = [i \in 1..n |-> (IF i = 1 THEN <<>> ELSE <<",">>) \o ss[i]]
    BY <1>2 DEF Parted
  <2>2. \A i \in 1..n : <<>> \o ss[i] = ss[i]
    BY <1>3, NoText, JoinText
  <2>. QED
    BY <1>1, <2>1, <2>2
<1>5. ASSUME NEW i \in 1..n PROVE tt[i] \in Text
  <2>1. PICK s \in Text : s = ss[i]
    BY <1>3
  <2>2. c \o s \in Text
    BY JoinText
  <2>. QED
    BY <1>4, <2>1, <2>2
<1>6. tt \in Seq(Text) /\ Len(tt) = n
  <2>1. tt \in [1..n -> Text]
    BY <1>4, <1>5
  <2>. QED
    BY <2>1
<1>7. /\ After(tt, 0) = FlattenSeq(tt) /\ After(tt, n) = <<>>
      /\ \A k \in 0..n : After(tt, k) \in Text
      /\ \A k \in 0..n - 1 : After(tt, k) = tt[k + 1] \o After(tt, k + 1)
  BY <1>6, AfterFacts
<1>8. \A k : CommasLeft(ss, k, rest) = After(tt, k) \o rest
  BY <1>2 DEF CommasLeft
<1>9. Commas(ss) = After(tt, 0)
  BY <1>2, <1>7, Zenon DEF Commas, Parted
<1>10. ASSUME NEW k \in 0..n PROVE CommasLeft(ss, k, rest) \in Text
  <2>1. PICK a \in Text : a = After(tt, k)
    BY <1>7
  <2>2. a \o rest \in Text
    BY JoinText
  <2>. QED
    BY <1>8, <2>1, <2>2
<1>11. CommasLeft(ss, n, rest) = rest
  <2>1. CommasLeft(ss, n, rest) = <<>> \o rest
    BY <1>7, <1>8, Zenon
  <2>. QED
    BY <2>1, NoText, JoinText
<1>12. ASSUME NEW k \in 0..n - 1
       PROVE  CommasLeft(ss, k, rest) = tt[k + 1] \o CommasLeft(ss, k + 1, rest)
  <2>1. PICK a \in Text : a = After(tt, k + 1)
    <3>1. k + 1 \in 0..n
      OBVIOUS
    <3>. QED
      BY <1>7, <3>1
  <2>2. PICK b \in Text : b = tt[k + 1]
    <3>1. k + 1 \in 1..n
      OBVIOUS
    <3>. QED
      BY <1>5, <3>1
  <2>3. (b \o a) \o rest = b \o (a \o rest)
    BY JoinJoin
  <2>4. After(tt, k) = b \o a
    BY <1>7, <2>1, <2>2
  <2>. QED
    BY <1>8, <2>1, <2>2, <2>3, <2>4, Zenon
<1>13. ASSUME n # 0 PROVE CommasLeft(ss, 0, rest) = ss[1] \o CommasLeft(ss, 1, rest)
  <2>1. 0 \in 0..n - 1 /\ 1 \in 1..n /\ 0 + 1 = 1
    BY <1>13
  <2>2. tt[1] = ss[1]
    BY <1>4, <2>1
  <2>3. CommasLeft(ss, 0, rest) = tt[0 + 1] \o CommasLeft(ss, 0 + 1, rest)
    BY <1>12, <2>1
  <2>. QED
    BY <2>1, <2>2, <2>3
<1>14. ASSUME NEW k \in 1..n - 1
       PROVE  CommasLeft(ss, k, rest) = Pre(",", ss[k + 1] \o CommasLeft(ss, k + 1, rest))
  <2>1. k \in 0..n - 1 /\ k + 1 \in 1..n /\ k + 1 \in 0..n /\ k + 1 # 1
    OBVIOUS
  <2>2. PICK u \in Text : u = CommasLeft(ss, k + 1, rest)
    BY <1>10, <2>1
  <2>3. PICK s \in Text : s = ss[k + 1]
    BY <1>3, <2>1
  <2>4. tt[k + 1] = c \o s
    BY <1>4, <2>1, <2>3
  <2>5. CommasLeft(ss, k, rest) = (c \o s) \o u
    BY <1>12, <2>1, <2>2, <2>4
  <2>6. (c \o s) \o u = c \o (s \o u)
    BY JoinJoin
  <2>7. s \o u \in Text
    BY JoinText
  <2>. QED
    BY <1>1, <2>2, <2>3, <2>5, <2>6, <2>7
<1>15. CommasLeft(ss, 0, rest) = Commas(ss) \o rest /\ Commas(ss) \in Text
  <2>1. 0 \in 0..n
    OBVIOUS
  <2>. QED
    BY <1>7, <1>8, <1>9, <2>1, Zenon
<1>. QED
  BY <1>10, <1>11, <1>13, <1>14, <1>15

(* Dicts and grids of values, with tags and columns that have names. *)
IsDict(d) ==
  /\ DOMAIN d \subseteq Names /\ d = [n \in DOMAIN d |-> d[n]]
  /\ \A n \in DOMAIN d : IsValue(d[n])

IsGrid(g) ==
  /\ HasCols(g) /\ IsDict(g.meta)
  /\ \A i \in DOMAIN g.cols : g.cols[i].name \in Names /\ IsDict(g.cols[i].meta)
  /\ \E S : g.rows \in Seq(S)
  /\ \A r \in DOMAIN g.rows, i \in DOMAIN g.cols : IsValue(Cell(g, r, i))
  /\ g.rows # <<>> => g.cols # <<>>

(* A grid that Zinc carries. *)
Carried(g) ==
  /\ IsGrid(g) /\ MetaIsFull(g)
  /\ \A v \in ValuesOf(g) : Writable(v) /\ Faithful(v)

(* All tags and cells of such a grid can be sent. *)
LEMMA CarriedFacts ==
  ASSUME NEW g, Carried(g)
  PROVE  /\ CleanDict(g.meta)
         /\ \A i \in DOMAIN g.cols : g.cols[i].name \in Names /\ CleanDict(g.cols[i].meta)
         /\ \A r \in DOMAIN g.rows, i \in DOMAIN g.cols : Sendable(Cell(g, r, i))
         /\ Len(g.cols) \in Nat /\ DOMAIN g.cols = 1..Len(g.cols)
         /\ Len(g.rows) \in Nat /\ DOMAIN g.rows = 1..Len(g.rows)
         /\ g.rows # <<>> => g.cols # <<>>
<1>1. IsGrid(g) /\ MetaIsFull(g) /\ \A v \in ValuesOf(g) : Writable(v) /\ Faithful(v)
  BY DEF Carried
<1>2. HasCols(g) /\ IsDict(g.meta)
  BY <1>1 DEF IsGrid
<1>3. ASSUME NEW d, IsDict(d), Empty \notin Range(d), \A v \in Range(d) : v \in ValuesOf(g)
      PROVE  CleanDict(d)
  <2>1. DOMAIN d \subseteq Names /\ d = [n \in DOMAIN d |-> d[n]] /\ \A n \in DOMAIN d : IsValue(d[n])
    BY <1>3 DEF IsDict
  <2>2. \A n \in DOMAIN d : d[n] \in Range(d)
    BY DEF Range
  <2>3. ASSUME NEW n \in DOMAIN d PROVE Sendable(d[n]) /\ d[n] # Empty
    BY <1>1, <1>3, <2>1, <2>2, Zenon DEF Sendable
  <2>. QED
    BY <2>1, <2>3 DEF CleanDict
<1>4. CleanDict(g.meta)
  <2>1. Empty \notin Range(g.meta)
    BY <1>1 DEF MetaIsFull, TagValues
  <2>2. \A v \in Range(g.meta) : v \in ValuesOf(g)
    BY DEF ValuesOf, TagValues
  <2>. QED
    BY <1>2, <1>3, <2>1, <2>2
<1>5. ASSUME NEW i \in DOMAIN g.cols PROVE g.cols[i].name \in Names /\ CleanDict(g.cols[i].meta)
  <2>1. PICK d : d = g.cols[i].meta
    OBVIOUS
  <2>2. IsDict(d) /\ g.cols[i].name \in Names
    BY <1>1, <2>1 DEF IsGrid
  <2>3. \A v \in Range(d) : v \in UNION {Range(g.cols[j].meta) : j \in DOMAIN g.cols}
    BY <2>1
  <2>4. Empty \notin Range(d)
    BY <1>1, <2>3 DEF MetaIsFull, TagValues
  <2>5. \A v \in Range(d) : v \in ValuesOf(g)
    BY <2>3 DEF ValuesOf, TagValues
  <2>. QED
    BY <1>3, <2>1, <2>2, <2>4, <2>5
<1>6. ASSUME NEW r \in DOMAIN g.rows, NEW i \in DOMAIN g.cols PROVE Sendable(Cell(g, r, i))
  <2>1. IsValue(Cell(g, r, i))
    BY <1>1 DEF IsGrid
  <2>2. Cell(g, r, i) \in ValuesOf(g)
    BY DEF ValuesOf
  <2>. QED
    BY <1>1, <2>1, <2>2 DEF Sendable
<1>7. Len(g.cols) \in Nat /\ DOMAIN g.cols = 1..Len(g.cols)
  <2>1. PICK S : g.cols \in Seq(S)
    BY <1>2 DEF HasCols
  <2>. QED
    BY <2>1
<1>8. Len(g.rows) \in Nat /\ DOMAIN g.rows = 1..Len(g.rows)
  <2>1. PICK S : g.rows \in Seq(S)
    BY <1>1 DEF IsGrid
  <2>. QED
    BY <2>1
<1>9. g.rows # <<>> => g.cols # <<>>
  BY <1>1 DEF IsGrid
<1>. QED
  BY <1>4, <1>5, <1>6, <1>7, <1>8, <1>9

(* The texts of the cells of a row, and what is left of a grid behind r     *)
(* rows, and behind i cells of a row, when a tail follows the grid.          *)
CellText(g, r, i) == IF Cell(g, r, i) = Empty /\ i = 1 THEN <<"N">> ELSE ToZinc(Cell(g, r, i))
CellTexts(g, r) == [i \in 1..Len(g.cols) |-> CellText(g, r, i)]
RowTexts(g) == [r \in 1..Len(g.rows) |-> Append(RowText(g, r), "\n")]
RowsLeft(g, tail, r) == After(RowTexts(g), r) \o tail
CellsLeft(g, tail, r, i) == CommasLeft(CellTexts(g, r), i, Pre("\n", RowsLeft(g, tail, r)))

(* Only an empty cell has no text, and never the first of a row. *)
LEMMA CellTextIs ==
  ASSUME NEW g, Carried(g), NEW r \in DOMAIN g.rows, NEW i \in DOMAIN g.cols
  PROVE  /\ CellText(g, r, i) \in Text
         /\ i = 1 => Opens(CellText(g, r, i))
         /\ Cell(g, r, i) # Empty => Opens(CellText(g, r, i)) /\ CellText(g, r, i) = ToZinc(Cell(g, r, i))
         /\ Cell(g, r, i) = Empty => CellText(g, r, i) = IF i = 1 THEN <<"N">> ELSE <<>>
<1>1. PICK v : v = Cell(g, r, i) /\ Sendable(v)
  BY CarriedFacts
<1>2. CellText(g, r, i) = IF v = Empty /\ i = 1 THEN <<"N">> ELSE ToZinc(v)
  BY <1>1, Zenon DEF CellText
<1>3. CASE v = Empty
  <2>1. ToZinc(v) = <<>>
    BY <1>3 DEF ToZinc, Empty, Value
  <2>2. "N" \in Symbol /\ "N" \notin {" ", "\t", ",", "\n", "eof"}
    BY SymbolsAre DEF Alpha, Upper
  <2>3. Opens(<<"N">>)
    BY <2>2, OpensWith
  <2>. QED
    BY <1>1, <1>2, <1>3, <2>1, <2>3, NoText DEF Opens
<1>4. CASE v # Empty
  <2>1. Opens(ToZinc(v))
    BY <1>1, <1>4, ValuesOpen
  <2>. QED
    BY <1>1, <1>2, <1>4, <2>1 DEF Opens
<1>. QED
  BY <1>3, <1>4

(* These texts make the row that is written. *)
LEMMA CellTextsAre ==
  ASSUME NEW g, Carried(g), NEW r \in DOMAIN g.rows
  PROVE  /\ CellTexts(g, r) \in Seq(Text) /\ Len(CellTexts(g, r)) = Len(g.cols)
         /\ RowText(g, r) = Commas(CellTexts(g, r)) /\ RowText(g, r) \in Text
         /\ \A i \in 1..Len(g.cols) : CellTexts(g, r)[i] = CellText(g, r, i)
<1>1. PICK n \in Nat : n = Len(g.cols) /\ DOMAIN g.cols = 1..n
  BY CarriedFacts
<1>2. \A i \in 1..n : CellText(g, r, i) \in Text
  BY <1>1, CellTextIs
<1>3. PICK ss : ss = CellTexts(g, r)
  OBVIOUS
<1>4. ss = [i \in 1..n |-> CellText(g, r, i)]
  BY <1>1, <1>3 DEF CellTexts
<1>5. ss \in [1..n -> Text]
  BY <1>2, <1>4
<1>6. ss \in Seq(Text) /\ Len(ss) = n
  BY <1>5
<1>7. RowText(g, r) = Commas(CellTexts(g, r))
  BY Zenon DEF RowText, CellTexts, CellText
<1>8. Commas(ss) \in Text
  BY <1>6, NoText, CommasLeftFacts
<1>. QED
  BY <1>1, <1>3, <1>4, <1>6, <1>7, <1>8

(* A symbol more behind a text. *)
LEMMA AppendText ==
  ASSUME NEW s \in Text, NEW c \in Symbol
  PROVE  Append(s, c) = s \o <<c>> /\ Append(s, c) \in Text
<1>. QED
  BY DEF Text

(* What is left behind some rows is the next row, or nothing. *)
LEMMA RowsLeftFacts ==
  ASSUME NEW g, Carried(g), NEW m \in Nat, m = Len(g.rows), NEW tail, NoLine(tail)
  PROVE  /\ RowsLeft(g, tail, 0) = FlattenSeq(RowTexts(g)) \o tail /\ RowsLeft(g, tail, m) = tail
         /\ FlattenSeq(RowTexts(g)) \in Text /\ tail \in Text
         /\ \A r \in 0..m : RowsLeft(g, tail, r) \in Text
         /\ \A r \in 0..m - 1 : RowsLeft(g, tail, r) = CellsLeft(g, tail, r + 1, 0)
<1>0. tail \in Text
  BY NoLineText
<1>1. DOMAIN g.rows = 1..m
  BY CarriedFacts
<1>2. PICK tt : tt = RowTexts(g)
  OBVIOUS
<1>3. "\n" \in Symbol
  BY SymbolsAre DEF Signs
<1>4. ASSUME NEW r \in 1..m
      PROVE  tt[r] = RowText(g, r) \o <<"\n">> /\ tt[r] \in Text
  <2>1. PICK s \in Text : s = RowText(g, r)
    BY <1>1, CellTextsAre
  <2>2. Append(s, "\n") = s \o <<"\n">> /\ Append(s, "\n") \in Text
    BY <1>3, AppendText
  <2>3. tt[r] = Append(RowText(g, r), "\n")
    <3>1. PICK q : q = r /\ q \in 1..Len(g.rows)
      OBVIOUS
    <3>. QED
      BY <1>2, <3>1 DEF RowTexts
  <2>. QED
    BY <2>1, <2>2, <2>3
<1>5. tt \in Seq(Text) /\ Len(tt) = m
  <2>1. tt = [r \in 1..m |-> tt[r]]
    BY <1>2 DEF RowTexts
  <2>2. tt \in [1..m -> Text]
    BY <1>4, <2>1
  <2>. QED
    BY <2>2
<1>6. /\ After(tt, 0) = FlattenSeq(tt) /\ After(tt, m) = <<>>
      /\ \A r \in 0..m : After(tt, r) \in Text
      /\ \A r \in 0..m - 1 : After(tt, r) = tt[r + 1] \o After(tt, r + 1)
  BY <1>5, AfterFacts
<1>7. \A r : RowsLeft(g, tail, r) = After(tt, r) \o tail
  BY <1>2 DEF RowsLeft
<1>9. ASSUME NEW r \in 0..m PROVE RowsLeft(g, tail, r) \in Text
  <2>1. PICK a \in Text : a = After(tt, r)
    BY <1>6
  <2>2. a \o tail \in Text
    BY <1>0, JoinText
  <2>. QED
    BY <1>7, <2>1, <2>2
<1>10. RowsLeft(g, tail, m) = tail
  <2>1. RowsLeft(g, tail, m) = <<>> \o tail
    BY <1>6, <1>7, Zenon
  <2>. QED
    BY <1>0, <2>1, NoText, JoinText
<1>11. ASSUME NEW r \in 0..m - 1 PROVE RowsLeft(g, tail, r) = tt[r + 1] \o RowsLeft(g, tail, r + 1)
  <2>1. r + 1 \in 0..m /\ r + 1 \in 1..m
    OBVIOUS
  <2>2. PICK a \in Text : a = After(tt, r + 1)
    BY <1>6, <2>1
  <2>3. PICK b \in Text : b = tt[r + 1]
    BY <1>4, <2>1
  <2>4. (b \o a) \o tail = b \o (a \o tail)
    BY <1>0, JoinJoin
  <2>5. After(tt, r) = b \o a
    BY <1>6, <2>2, <2>3
  <2>. QED
    BY <1>7, <2>2, <2>3, <2>4, <2>5, Zenon
<1>8. ASSUME NEW r \in 0..m - 1 PROVE RowsLeft(g, tail, r) = CellsLeft(g, tail, r + 1, 0)
  <2>1. r + 1 \in 0..m /\ r + 1 \in 1..m
    OBVIOUS
  <2>2. PICK q \in 1..m : q = r + 1
    BY <2>1
  <2>3. PICK u \in Text : u = RowsLeft(g, tail, q)
    BY <1>9, <2>1, <2>2
  <2>4. PICK ss \in Seq(Text) : ss = CellTexts(g, q) /\ RowText(g, q) = Commas(ss)
    BY <1>1, CellTextsAre
  <2>5. PICK s \in Text : s = RowText(g, q)
    BY <1>1, CellTextsAre
  <2>6. PICK e \in Text : e = <<"\n">> /\ e \o u = Pre("\n", u)
    BY <1>3, NoText DEF Pre
  <2>7. Pre("\n", u) \in Text
    BY <1>3, PreText
  <2>8. CellsLeft(g, tail, q, 0) = CommasLeft(ss, 0, Pre("\n", u))
    BY <2>3, <2>4, Zenon DEF CellsLeft
  <2>9. CommasLeft(ss, 0, Pre("\n", u)) = s \o Pre("\n", u)
    <3>1. PICK n \in Nat : n = Len(ss)
      BY <2>4
    <3>2. PICK x \in Text : x = Pre("\n", u)
      BY <2>7
    <3>3. CommasLeft(ss, 0, x) = Commas(ss) \o x
      BY <2>4, <3>1, CommasLeftFacts
    <3>. QED
      BY <2>4, <2>5, <3>2, <3>3
  <2>10. RowsLeft(g, tail, r) = (s \o e) \o u
    <3>1. RowsLeft(g, tail, r) = tt[r + 1] \o RowsLeft(g, tail, r + 1)
      BY <1>11
    <3>. QED
      BY <1>4, <2>2, <2>3, <2>5, <2>6, <3>1
  <2>11. (s \o e) \o u = s \o (e \o u)
    BY JoinJoin
  <2>. QED
    BY <2>2, <2>6, <2>8, <2>9, <2>10, <2>11
<1>12. RowsLeft(g, tail, 0) = FlattenSeq(RowTexts(g)) \o tail /\ FlattenSeq(RowTexts(g)) \in Text
  <2>1. 0 \in 0..m
    OBVIOUS
  <2>. QED
    BY <1>2, <1>6, <1>7, <2>1
<1>. QED
  BY <1>0, <1>8, <1>9, <1>10, <1>12

(* The texts of the columns, and what is left of a grid behind k of them. *)
HeadTexts(g) == [i \in 1..Len(g.cols) |-> g.cols[i].name \o MetaText(g.cols[i].meta)]
ColsLeft(g, tail, k) == CommasLeft(HeadTexts(g), k, Pre("\n", RowsLeft(g, tail, 0)))
ColText(g, tail, k) == g.cols[k].name \o TagsLeft(g.cols[k].meta, 0, ColsLeft(g, tail, k))

(* The text of a column is its name and its tags. *)
LEMMA HeadTextsAre ==
  ASSUME NEW g, Carried(g), NEW n \in Nat, n = Len(g.cols)
  PROVE  /\ HeadTexts(g) \in Seq(Text) /\ Len(HeadTexts(g)) = n
         /\ \A k \in 1..n : \A u \in Text :
               HeadTexts(g)[k] \o u = g.cols[k].name \o TagsLeft(g.cols[k].meta, 0, u)
<1>1. DOMAIN g.cols = 1..n
  BY CarriedFacts
<1>2. PICK ss : ss = HeadTexts(g)
  OBVIOUS
<1>3. \A k \in 1..n : ss[k] = g.cols[k].name \o MetaText(g.cols[k].meta)
  BY <1>2 DEF HeadTexts
<1>4. ASSUME NEW k \in 1..n
      PROVE  ss[k] \in Text /\ \A u \in Text : ss[k] \o u = g.cols[k].name \o TagsLeft(g.cols[k].meta, 0, u)
  <2>1. PICK d : d = g.cols[k].meta /\ CleanDict(d)
    BY <1>1, CarriedFacts
  <2>2. PICK c \in Text : c = g.cols[k].name
    BY <1>1, CarriedFacts, NamesAre
  <2>3. PICK j \in Nat : j = Len(TagNames(d))
    BY <2>1, TagTextsAre
  <2>4. PICK m \in Text : m = MetaText(d)
    BY <2>1, <2>3, NoText, TagsLeftFacts
  <2>5. ss[k] = c \o m
    BY <1>3, <2>1, <2>2, <2>4
  <2>6. c \o m \in Text
    BY JoinText
  <2>7. ASSUME NEW u \in Text PROVE ss[k] \o u = c \o TagsLeft(d, 0, u)
    <3>1. TagsLeft(d, 0, u) = m \o u
      BY <2>1, <2>3, <2>4, TagsLeftFacts
    <3>2. (c \o m) \o u = c \o (m \o u)
      BY JoinJoin
    <3>. QED
      BY <2>5, <3>1, <3>2
  <2>. QED
    BY <2>1, <2>2, <2>5, <2>6, <2>7
<1>5. ss \in Seq(Text) /\ Len(ss) = n
  <2>1. ss = [i \in 1..n |-> ss[i]]
    BY <1>2 DEF HeadTexts
  <2>2. ss \in [1..n -> Text]
    BY <1>4, <2>1
  <2>. QED
    BY <2>2
<1>. QED
  BY <1>2, <1>4, <1>5

(* What is left behind some columns is a comma and the next, or the rows. *)
LEMMA ColsLeftFacts ==
  ASSUME NEW g, Carried(g), NEW n \in Nat, n = Len(g.cols), NEW tail, NoLine(tail)
  PROVE  /\ \A k \in 0..n : ColsLeft(g, tail, k) \in Text
         /\ ColsLeft(g, tail, n) = Pre("\n", RowsLeft(g, tail, 0))
         /\ n # 0 => ColsLeft(g, tail, 0) = ColText(g, tail, 1)
         /\ \A k \in 1..n - 1 : ColsLeft(g, tail, k) = Pre(",", ColText(g, tail, k + 1))
         /\ \A k \in 1..n : ColText(g, tail, k) \in Text /\ Cur(ColText(g, tail, k)) \in IdStart
         /\ \A k \in 1..n : Follows(ColsLeft(g, tail, k))
<1>1. DOMAIN g.cols = 1..n
  BY CarriedFacts
<1>2. "\n" \in Symbol /\ "," \in Symbol
  BY SymbolsAre DEF Signs
<1>3. PICK u \in Text : u = Pre("\n", RowsLeft(g, tail, 0)) /\ Cur(u) = "\n"
  <2>1. PICK m \in Nat : m = Len(g.rows)
    BY CarriedFacts
  <2>2. RowsLeft(g, tail, 0) \in Text
    BY <2>1, RowsLeftFacts
  <2>. QED
    BY <1>2, <2>2, PreText
<1>4. PICK ss \in Seq(Text) :
        /\ ss = HeadTexts(g) /\ Len(ss) = n
        /\ \A k \in 1..n : \A t \in Text : ss[k] \o t = g.cols[k].name \o TagsLeft(g.cols[k].meta, 0, t)
  BY HeadTextsAre
<1>5. \A k : ColsLeft(g, tail, k) = CommasLeft(ss, k, u)
  BY <1>3, <1>4 DEF ColsLeft
<1>6. /\ \A k \in 0..n : ColsLeft(g, tail, k) \in Text
      /\ ColsLeft(g, tail, n) = u
      /\ n # 0 => ColsLeft(g, tail, 0) = ss[1] \o ColsLeft(g, tail, 1)
      /\ \A k \in 1..n - 1 : ColsLeft(g, tail, k) = Pre(",", ss[k + 1] \o ColsLeft(g, tail, k + 1))
  <2>1. /\ \A k \in 0..n : CommasLeft(ss, k, u) \in Text
        /\ CommasLeft(ss, n, u) = u
        /\ n # 0 => CommasLeft(ss, 0, u) = ss[1] \o CommasLeft(ss, 1, u)
        /\ \A k \in 1..n - 1 : CommasLeft(ss, k, u) = Pre(",", ss[k + 1] \o CommasLeft(ss, k + 1, u))
    BY <1>4, CommasLeftFacts
  <2>. QED
    BY <1>5, <2>1
<1>7. ASSUME NEW k \in 1..n PROVE ss[k] \o ColsLeft(g, tail, k) = ColText(g, tail, k) /\ ColText(g, tail, k) \in Text /\ Cur(ColText(g, tail, k)) \in IdStart
  <2>1. PICK t \in Text : t = ColsLeft(g, tail, k)
    <3>1. k \in 0..n
      OBVIOUS
    <3>. QED
      BY <1>6, <3>1
  <2>2. ColText(g, tail, k) = g.cols[k].name \o TagsLeft(g.cols[k].meta, 0, t)
    BY <2>1 DEF ColText
  <2>3. PICK c \in Text : c = g.cols[k].name /\ c # <<>> /\ Cur(c) \in IdStart
    BY <1>1, CarriedFacts, NamesAre
  <2>4. PICK d : d = g.cols[k].meta /\ CleanDict(d)
    BY <1>1, CarriedFacts
  <2>5. PICK j \in Nat : j = Len(TagNames(d))
    BY <2>4, TagTextsAre
  <2>6. PICK w \in Text : w = TagsLeft(d, 0, t)
    <3>1. TagsLeft(d, 0, t) = MetaText(d) \o t /\ MetaText(d) \in Text
      BY <2>4, <2>5, TagsLeftFacts
    <3>. QED
      BY <3>1, JoinText
  <2>7. c \o w \in Text /\ Cur(c \o w) = Cur(c)
    BY <2>3, JoinText
  <2>. QED
    BY <1>4, <2>1, <2>2, <2>3, <2>4, <2>6, <2>7
<1>8. n # 0 => ColsLeft(g, tail, 0) = ColText(g, tail, 1)
  <2>1. n # 0 => 1 \in 1..n
    OBVIOUS
  <2>. QED
    BY <1>6, <1>7, <2>1
<1>9. ASSUME NEW k \in 1..n - 1 PROVE ColsLeft(g, tail, k) = Pre(",", ColText(g, tail, k + 1))
  <2>1. k + 1 \in 1..n
    OBVIOUS
  <2>. QED
    BY <1>6, <1>7, <2>1
<1>10. ASSUME NEW k \in 1..n PROVE Follows(ColsLeft(g, tail, k))
  <2>1. CASE k = n
    BY <1>3, <1>6, <2>1 DEF Follows
  <2>2. CASE k # n
    <3>1. k \in 1..n - 1 /\ k + 1 \in 1..n
      BY <2>2
    <3>2. PICK t \in Text : t = ColText(g, tail, k + 1)
      BY <1>7, <3>1
    <3>3. Pre(",", t) \in Text /\ Cur(Pre(",", t)) = ","
      BY <1>2, PreText
    <3>. QED
      BY <1>9, <3>1, <3>2, <3>3 DEF Follows
  <2>. QED
    BY <2>1, <2>2
<1>. QED
  BY <1>3, <1>6, <1>7, <1>8, <1>9, <1>10

(* The six parts of a text, joined from the left and from the right. *)
InTurn(v, m, e, c, r) == ((((v \o m) \o e) \o c) \o e) \o r
Nested(v, m, e, c, r) == v \o (m \o (e \o (c \o (e \o r))))

(* Both are the same. *)
LEMMA JoinSix ==
  ASSUME NEW v, NEW m, NEW e, NEW c, Texts(v, m, e, c), NEW r, Texts(r, r, r, r)
  PROVE  InTurn(v, m, e, c, r) = Nested(v, m, e, c, r)
<1>1. v \in Text /\ m \in Text /\ e \in Text /\ c \in Text /\ r \in Text
  BY DEF Texts
<1>2. PICK x : x = (v \o m) \o e /\ x \in Text
  <2>1. Texts(v, m, e, e)
    BY DEF Texts
  <2>. QED
    BY <2>1, JoinsFour
<1>3. PICK y : y = e \o r /\ y \in Text
  BY <1>1, JoinText
<1>4. PICK w : w = c \o y /\ w \in Text
  BY <1>1, <1>3, JoinText
<1>5. Texts(x, c, e, r) /\ Texts(v, m, e, w)
  BY <1>1, <1>2, <1>4 DEF Texts
<1>6. ((x \o c) \o e) \o r = x \o (c \o (e \o r))
  BY <1>5, JoinsFour
<1>7. ((v \o m) \o e) \o w = v \o (m \o (e \o w))
  BY <1>5, JoinsFour
<1>. QED
  BY <1>2, <1>3, <1>4, <1>6, <1>7 DEF InTurn, Nested

(* A text joined at its end. *)
LEMMA JoinsEnd ==
  ASSUME NEW a, NEW b, NEW c, Texts(a, b, c, c)
  PROVE  (a \o b) \o c = a \o (b \o c)
<1>1. a \in Text /\ b \in Text /\ c \in Text
  BY DEF Texts
<1>. QED
  BY <1>1, JoinJoin

(* The whole text: the version, the tags of the grid, its columns and rows. *)
LEMMA GridTextIs ==
  ASSUME NEW g, Carried(g), NEW tail, NoLine(tail)
  PROVE  \E u \in Text :
            /\ u = TagsLeft(g.meta, 0, Pre("\n", ColsLeft(g, tail, 0)))
            /\ Follows(Pre("\n", ColsLeft(g, tail, 0)))
            /\ GridText(g) \o tail \in Text /\ IsPrefix(Version, GridText(g) \o tail)
            /\ Drop(GridText(g) \o tail, Len(Version)) = u
<1>1. PICK n \in Nat : n = Len(g.cols)
  BY CarriedFacts
<1>2. PICK e \in Text : e = <<"\n">> /\ \A t \in Text : e \o t = Pre("\n", t) /\ Pre("\n", t) \in Text /\ Cur(Pre("\n", t)) = "\n"
  <2>1. "\n" \in Symbol
    BY SymbolsAre DEF Signs
  <2>2. \A t \in Text : Pre("\n", t) \in Text /\ Cur(Pre("\n", t)) = "\n"
    BY <2>1, PreText
  <2>. QED
    BY <2>1, <2>2, NoText DEF Pre
<1>3. PICK r \in Text, rows \in Text : r = RowsLeft(g, tail, 0) /\ rows = FlattenSeq(RowTexts(g)) /\ r = rows \o tail
  <2>1. PICK m \in Nat : m = Len(g.rows)
    BY CarriedFacts
  <2>. QED
    BY <2>1, RowsLeftFacts
<1>4. PICK c \in Text : c = Commas(HeadTexts(g)) /\ ColsLeft(g, tail, 0) = c \o (e \o r)
  <2>1. PICK x \in Text : x = e \o r /\ x = Pre("\n", r)
    BY <1>2
  <2>2. PICK ss \in Seq(Text) : ss = HeadTexts(g) /\ Len(ss) = n
    BY <1>1, HeadTextsAre
  <2>3. CommasLeft(ss, 0, x) = Commas(ss) \o x /\ Commas(ss) \in Text
    BY <2>2, CommasLeftFacts
  <2>4. ColsLeft(g, tail, 0) = CommasLeft(ss, 0, x)
    BY <1>3, <2>1, <2>2, Zenon DEF ColsLeft
  <2>. QED
    BY <2>1, <2>2, <2>3, <2>4
<1>5. PICK k \in Nat : k = Len(TagNames(g.meta))
  BY CarriedFacts, TagTextsAre
<1>6. PICK m \in Text : m = MetaText(g.meta) /\ \A t \in Text : TagsLeft(g.meta, 0, t) = m \o t
  BY <1>5, NoText, CarriedFacts, TagsLeftFacts
<1>7. PICK v \in Text : v = Version
  <2>1. "ver" \in Symbol /\ ":" \in Symbol /\ "\"" \in Symbol /\ "2.0" \in Symbol
    <3>1. "ver" \in Lower /\ ":" \in Signs /\ "\"" \in Signs
      BY DEF Signs, Lower, Keyword
    <3>. QED
      BY <3>1 DEF Symbol
  <2>2. PICK a \in Symbol, b \in Symbol, c2 \in Symbol, d \in Symbol :
          a = "ver" /\ b = ":" /\ c2 = "\"" /\ d = "2.0"
    BY <2>1
  <2>3. <<a, b, c2, d, c2>> \in Text
    BY DEF Text
  <2>4. Version = <<a, b, c2, d, c2>>
    BY <2>2, Zenon DEF Version
  <2>. QED
    BY <2>3, <2>4
<1>8. GridText(g) \o tail = ((((v \o m) \o e) \o c) \o e) \o r
  <2>1. PICK h : h = (((v \o m) \o e) \o c) \o e /\ h \in Text
    <3>1. PICK x : x = (v \o m) \o e /\ x \in Text
      <4>1. Texts(v, m, e, e)
        BY DEF Texts
      <4>. QED
        BY <4>1, JoinsFour
    <3>2. x \o c \in Text
      BY <3>1, JoinText
    <3>3. (x \o c) \o e \in Text
      BY <3>2, JoinText
    <3>. QED
      BY <3>1, <3>3
  <2>2. GridText(g) = h \o rows
    BY <1>2, <1>3, <1>4, <1>6, <1>7, <2>1 DEF GridText, HeadTexts, RowTexts
  <2>3. (h \o rows) \o tail = h \o (rows \o tail)
    <3>1. tail \in Text
      BY NoLineText
    <3>2. Texts(h, rows, tail, tail)
      BY <2>1, <3>1 DEF Texts
    <3>. QED
      BY <3>2, JoinsEnd
  <2>. QED
    BY <1>3, <2>1, <2>2, <2>3
<1>9. PICK w \in Text : w = ColsLeft(g, tail, 0) /\ w = c \o (e \o r)
  <2>1. 0 \in 0..n
    BY <1>1
  <2>. QED
    BY <1>1, <1>4, <2>1, ColsLeftFacts
<1>10. PICK u \in Text : u = m \o (e \o w)
  <2>1. e \o w \in Text
    BY <1>2
  <2>. QED
    BY <2>1, JoinText
<1>11. GridText(g) \o tail = v \o u
  <2>1. Texts(v, m, e, c) /\ Texts(r, r, r, r)
    BY DEF Texts
  <2>2. InTurn(v, m, e, c, r) = Nested(v, m, e, c, r)
    BY <2>1, JoinSix
  <2>. QED
    BY <1>8, <1>9, <1>10, <2>2, Zenon DEF InTurn, Nested
<1>12. u = TagsLeft(g.meta, 0, Pre("\n", ColsLeft(g, tail, 0)))
  <2>1. PICK x \in Text : x = e \o w /\ x = Pre("\n", w)
    BY <1>2
  <2>2. TagsLeft(g.meta, 0, x) = m \o x
    BY <1>6
  <2>. QED
    BY <1>9, <1>10, <2>1, <2>2, Zenon
<1>13. Follows(Pre("\n", ColsLeft(g, tail, 0)))
  BY <1>2, <1>9 DEF Follows
<1>14. v \o u \in Text /\ Drop(v \o u, Len(v)) = u /\ IsPrefix(v, v \o u)
  <2>1. v \o u \in Text /\ Drop(v \o u, Len(v)) = u /\ SubSeq(v \o u, 1, Len(v)) = v
        /\ Len(v \o u) = Len(v) + Len(u)
    BY JoinText
  <2>2. PICK a \in Nat, b \in Nat : a = Len(v) /\ b = Len(u)
    BY TextTypes
  <2>3. SubSeq(v, 1, Len(v)) = v
    BY DEF Text
  <2>4. Len(v) <= Len(v \o u)
    BY <2>1, <2>2
  <2>. QED
    BY <2>1, <2>3, <2>4 DEF IsPrefix
<1>. QED
  BY <1>7, <1>11, <1>12, <1>13, <1>14

-----------------------------------------------------------------------------
(* What programs build.                                                     *)

(* Every grid that a program builds is a grid of values. *)
LEMMA AddIsDict ==
  ASSUME NEW d, IsDict(d), NEW n \in Names, NEW v, IsValue(v)
  PROVE  IsDict(Add(d, n, v))
<1>1. DOMAIN d \subseteq Names /\ \A m \in DOMAIN d : IsValue(d[m])
  BY DEF IsDict
<1>2. CASE n \in DOMAIN d
  BY <1>2 DEF Add
<1>3. CASE n \notin DOMAIN d
  <2>1. PICK e : e = [m \in DOMAIN d \union {n} |-> IF m = n THEN v ELSE d[m]]
    OBVIOUS
  <2>2. e = Add(d, n, v)
    BY <1>3, <2>1 DEF Add
  <2>3. DOMAIN e \subseteq Names /\ e = [m \in DOMAIN e |-> e[m]]
    BY <1>1, <2>1
  <2>4. \A m \in DOMAIN e : IsValue(e[m])
    BY <1>1, <2>1
  <2>. QED
    BY <2>2, <2>3, <2>4 DEF IsDict
<1>. QED
  BY <1>2, <1>3

(* A dict without tags is one of these. *)
LEMMA NoTagsIsDict == IsDict(NoTags)
BY DEF IsDict, NoTags

(* So is a grid without columns. *)
LEMMA NewGridIsGrid == IsGrid(NewGrid)
<1>1. NewGrid.meta = NoTags /\ NewGrid.cols = <<>> /\ NewGrid.rows = <<>>
  BY DEF NewGrid
<1>2. \A S : <<>> \in Seq(S)
  OBVIOUS
<1>. QED
  BY <1>1, <1>2, NewGridHasCols, NoTagsIsDict DEF IsGrid

(* What does not touch the rows keeps the cells. *)
LEMMA SameCells ==
  ASSUME NEW g, NEW h, h.rows = g.rows
  PROVE  \A r, i : Cell(h, r, i) = Cell(g, r, i)
BY DEF Cell

(* Adding a tag to the grid. *)
LEMMA MetaIsGrid ==
  ASSUME NEW g, IsGrid(g), NEW n \in Names, NEW v, IsValue(v)
  PROVE  IsGrid([g EXCEPT !.meta = Add(@, n, v)])
<1>1. HasCols(g) /\ IsDict(g.meta)
  BY DEF IsGrid
<1>2. PICK d : d = Add(g.meta, n, v) /\ IsDict(d)
  BY <1>1, AddIsDict
<1>3. PICK h : h = [g EXCEPT !.meta = d]
  OBVIOUS
<1>4. HasCols(h) /\ h.meta = d /\ h.cols = g.cols /\ h.rows = g.rows
  <2>1. g = [meta |-> g.meta, cols |-> g.cols, rows |-> g.rows]
    BY <1>1 DEF HasCols
  <2>2. HasCols(h)
    BY <1>1, <1>3, MetaHasCols
  <2>3. h.meta = d /\ h.cols = g.cols /\ h.rows = g.rows
    BY <1>3, <2>1
  <2>. QED
    BY <2>2, <2>3
<1>5. \A r, i : Cell(h, r, i) = Cell(g, r, i)
  BY <1>4, SameCells
<1>6. IsGrid(h)
  BY <1>2, <1>4, <1>5 DEF IsGrid
<1>. QED
  BY <1>2, <1>3, <1>6

(* Adding a column. *)
LEMMA ColIsGrid ==
  ASSUME NEW g, IsGrid(g), NEW n \in Names, CanAddCol(g, n)
  PROVE  IsGrid(WithCol(g, n))
<1>1. HasCols(g) /\ IsDict(g.meta) /\ g.rows = <<>> /\ ColIndex(g, n) = {}
  BY DEF IsGrid, CanAddCol
<1>2. PICK h : h = WithCol(g, n)
  OBVIOUS
<1>3. PICK k \in Nat : k = Len(g.cols)
  BY <1>1, WithColHasCols
<1>4. /\ DOMAIN g.cols = 1..k /\ DOMAIN h.cols = 1..k + 1
      /\ h.cols[k + 1] = [name |-> n, meta |-> NoTags]
      /\ \A i \in 1..k : h.cols[i] = g.cols[i]
      /\ h.meta = g.meta /\ h.rows = g.rows /\ HasCols(h)
  BY <1>1, <1>2, <1>3, WithColHasCols
<1>5. \A i \in DOMAIN h.cols : h.cols[i].name \in Names /\ IsDict(h.cols[i].meta)
  <2>1. \A i \in DOMAIN h.cols : i \in 1..k \/ i = k + 1
    BY <1>4
  <2>2. \A i \in 1..k : g.cols[i].name \in Names /\ IsDict(g.cols[i].meta)
    BY <1>4 DEF IsGrid
  <2>3. h.cols[k + 1].name = n /\ h.cols[k + 1].meta = NoTags
    BY <1>4
  <2>. QED
    BY <1>4, <2>1, <2>2, <2>3, NoTagsIsDict
<1>6. h.rows = <<>> /\ \A S : <<>> \in Seq(S)
  BY <1>1, <1>4
<1>. QED
  BY <1>1, <1>2, <1>4, <1>5, <1>6 DEF IsGrid

(* Adding a tag to the last column. *)
LEMMA ColMetaIsGrid ==
  ASSUME NEW g, IsGrid(g), g.rows = <<>>, g.cols # <<>>, NEW n \in Names, NEW v, IsValue(v)
  PROVE  IsGrid([g EXCEPT !.cols[Len(g.cols)].meta = Add(@, n, v)])
<1>1. HasCols(g) /\ IsDict(g.meta)
  BY DEF IsGrid
<1>2. PICK k \in Nat : k = Len(g.cols) /\ DOMAIN g.cols = 1..k /\ k # 0
  <2>1. PICK S : g.cols \in Seq(S)
    BY <1>1 DEF HasCols
  <2>. QED
    BY <2>1
<1>3. PICK d : d = Add(g.cols[k].meta, n, v)
  OBVIOUS
<1>4. IsDict(d)
  <2>1. k \in DOMAIN g.cols
    BY <1>2
  <2>. QED
    BY <1>3, <2>1, AddIsDict DEF IsGrid
<1>5. PICK h : h = [g EXCEPT !.cols[Len(g.cols)].meta = d]
  OBVIOUS
<1>6. h = [g EXCEPT !.cols[Len(g.cols)].meta = Add(@, n, v)]
  BY <1>2, <1>3, <1>5
<1>7. HasCols(h) /\ ColNames(h) = ColNames(g)
  BY <1>1, <1>5, ColMetaHasCols
<1>8. g = [meta |-> g.meta, cols |-> g.cols, rows |-> g.rows]
  BY <1>1 DEF HasCols
<1>9. h.cols = [g.cols EXCEPT ![k].meta = d] /\ h.meta = g.meta /\ h.rows = g.rows
  BY <1>2, <1>5, <1>8
<1>10. ASSUME NEW i \in DOMAIN h.cols PROVE h.cols[i].name \in Names /\ IsDict(h.cols[i].meta)
  <2>1. i \in DOMAIN g.cols
    BY <1>9
  <2>2. g.cols[i].name \in Names /\ IsDict(g.cols[i].meta)
    BY <2>1 DEF IsGrid
  <2>3. g.cols[i] = [name |-> g.cols[i].name, meta |-> g.cols[i].meta]
    BY <1>1, <2>1 DEF HasCols
  <2>4. h.cols[i] = IF i = k THEN [g.cols[i] EXCEPT !.meta = d] ELSE g.cols[i]
    BY <1>9, <2>1
  <2>5. h.cols[i].name = g.cols[i].name /\ (h.cols[i].meta = d \/ h.cols[i].meta = g.cols[i].meta)
    <3>1. PICK x, y : g.cols[i] = [name |-> x, meta |-> y]
      BY <2>3
    <3>. QED
      BY <2>4, <3>1
  <2>. QED
    BY <1>4, <2>2, <2>5
<1>11. h.rows = <<>> /\ \A S : <<>> \in Seq(S)
  BY <1>9
<1>12. \A r, i : ~(r \in DOMAIN h.rows)
  BY <1>11
<1>13. IsGrid(h)
  BY <1>1, <1>7, <1>9, <1>10, <1>11, <1>12 DEF IsGrid
<1>. QED
  BY <1>6, <1>13, Zenon

(* No value counts as a value. *)
LEMMA EmptyIsValue == IsValue(Empty)
BY DEF IsValue, Empty, Value

(* Adding a row, a short one too. *)
LEMMA RowIsGrid ==
  ASSUME NEW g, IsGrid(g), g.cols # <<>>, NEW k \in Nat, NEW row \in [1..k -> Cells]
  PROVE  IsGrid(WithRow(g, row))
<1>1. HasCols(g) /\ IsDict(g.meta)
  BY DEF IsGrid
<1>2. PICK S : g.rows \in Seq(S)
  BY DEF IsGrid
<1>3. PICK m \in Nat : m = Len(g.rows) /\ DOMAIN g.rows = 1..m
  BY <1>2
<1>4. PICK h : h = WithRow(g, row)
  OBVIOUS
<1>5. g = [meta |-> g.meta, cols |-> g.cols, rows |-> g.rows]
  BY <1>1 DEF HasCols
<1>6. h.rows = Append(g.rows, row) /\ h.meta = g.meta /\ h.cols = g.cols
  BY <1>4, <1>5 DEF WithRow
<1>7. HasCols(h)
  BY <1>1, <1>4, MetaHasCols DEF WithRow
<1>8. /\ h.rows \in Seq(S \union {row}) /\ DOMAIN h.rows = 1..m + 1
      /\ h.rows[m + 1] = row /\ \A r \in 1..m : h.rows[r] = g.rows[r]
  BY <1>2, <1>3, <1>6, AppendTo
<1>9. \A c \in Cells : IsValue(c)
  BY ValuesAssumption
<1>10. ASSUME NEW r \in DOMAIN h.rows, NEW i \in DOMAIN h.cols PROVE IsValue(Cell(h, r, i))
  <2>1. CASE r = m + 1
    <3>1. Cell(h, r, i) = IF i \in 1..k THEN row[i] ELSE Empty
      BY <1>8, <2>1 DEF Cell
    <3>. QED
      BY <1>9, <3>1, EmptyIsValue
  <2>2. CASE r # m + 1
    <3>1. r \in 1..m
      BY <1>8, <2>2
    <3>2. Cell(h, r, i) = Cell(g, r, i)
      BY <1>8, <3>1 DEF Cell
    <3>. QED
      BY <1>3, <1>6, <3>1, <3>2 DEF IsGrid
  <2>. QED
    BY <2>1, <2>2
<1>11. \A i \in DOMAIN h.cols : h.cols[i].name \in Names /\ IsDict(h.cols[i].meta)
  BY <1>6 DEF IsGrid
<1>. QED
  BY <1>1, <1>4, <1>6, <1>7, <1>8, <1>10, <1>11 DEF IsGrid

(* Making a grid of dicts. *)
LEMMA MadeIsGrid ==
  ASSUME NEW dicts \in Seq(Records)
  PROVE  IsGrid(Made(dicts))
<1>1. PICK g : g = Made(dicts)
  OBVIOUS
<1>2. PICK whole \in Seq(Records) : whole = Selected(dicts, Full(dicts))
  BY SelectedType
<1>3. /\ HasCols(g) /\ g.meta = NoTags
      /\ \A i \in DOMAIN g.cols : g.cols[i].meta = NoTags /\ g.cols[i].name \in Names
      /\ \A k \in DOMAIN dicts : \A n \in DOMAIN dicts[k] : \E i \in DOMAIN g.cols : g.cols[i].name = n
      /\ DOMAIN g.rows = DOMAIN whole /\ Len(g.rows) = Len(whole)
      /\ \E S : g.rows \in Seq(S)
      /\ \A r \in DOMAIN whole : g.rows[r] = CellsOf(g, whole[r])
  BY <1>1, <1>2, MadeIs
<1>4. \A r \in DOMAIN whole : \E i \in DOMAIN dicts : i \in Full(dicts) /\ whole[r] = dicts[i]
  BY <1>2, SelectedElements
<1>5. \A r \in DOMAIN whole : whole[r] \in Records
  OBVIOUS
<1>6. ASSUME NEW r \in DOMAIN g.rows, NEW i \in DOMAIN g.cols PROVE IsValue(Cell(g, r, i))
  <2>1. PICK d \in Records : d = whole[r]
    BY <1>3, <1>5
  <2>2. \A n \in DOMAIN d : IsValue(d[n])
    BY ValuesAssumption
  <2>3. g.rows[r] = [j \in DOMAIN g.cols |-> Get(d, g.cols[j].name)]
    BY <1>3, <2>1 DEF CellsOf
  <2>4. Cell(g, r, i) = Get(d, g.cols[i].name)
    BY <2>3 DEF Cell
  <2>. QED
    BY <2>2, <2>4, EmptyIsValue DEF Get
<1>7. g.rows # <<>> => g.cols # <<>>
  <2>1. SUFFICES ASSUME g.rows # <<>>, g.cols = <<>> PROVE FALSE
    OBVIOUS
  <2>2. PICK S : g.rows \in Seq(S)
    BY <1>3
  <2>3. 1 \in DOMAIN g.rows
    BY <2>1, <2>2
  <2>4. PICK i \in DOMAIN dicts : i \in Full(dicts)
    BY <1>3, <1>4, <2>3
  <2>5. PICK d : d = dicts[i] /\ d \in Records /\ d # NoTags
    BY <2>4 DEF Full
  <2>6. d = [n \in DOMAIN d |-> d[n]]
    BY <2>5, ValuesAssumption
  <2>7. DOMAIN d # {}
    <3>1. SUFFICES ASSUME DOMAIN d = {} PROVE d = [n \in {} |-> Empty]
      BY <2>5 DEF NoTags
    <3>. QED
      BY <2>6, <3>1
  <2>8. PICK n : n \in DOMAIN dicts[i]
    BY <2>5, <2>7
  <2>9. DOMAIN g.cols = {}
    BY <2>1
  <2>. QED
    BY <1>3, <2>8, <2>9
<1>8. IsDict(g.meta) /\ \A i \in DOMAIN g.cols : g.cols[i].name \in Names /\ IsDict(g.cols[i].meta)
  BY <1>3, NoTagsIsDict
<1>. QED
  BY <1>1, <1>3, <1>6, <1>7, <1>8 DEF IsGrid

(* Making an error grid. *)
LEMMA ErrorIsGrid == IsGrid(ErrorGrid(Message))
<1>1. IsText(Message) /\ IsText(<<>>)
  BY ValuesAssumption DEF IsText, Range
<1>2. IsValue(Marker) /\ IsValue(Str(Message)) /\ IsValue(Str(<<>>))
  BY <1>1 DEF IsValue, Marker, Str, Value
<1>3. <<"err">> \in Names /\ <<"dis">> \in Names /\ <<"errTrace">> \in Names /\ <<"empty">> \in Names
  BY OrderAssumption
<1>4. PICK a : a = Add(NoTags, <<"err">>, Marker) /\ IsDict(a)
  BY <1>2, <1>3, NoTagsIsDict, AddIsDict
<1>5. PICK b : b = Add(a, <<"dis">>, Str(Message)) /\ IsDict(b)
  BY <1>2, <1>3, <1>4, AddIsDict
<1>6. PICK d : d = Add(b, <<"errTrace">>, Str(<<>>)) /\ IsDict(d)
  BY <1>2, <1>3, <1>5, AddIsDict
<1>7. PICK g : g = [NewGrid EXCEPT !.meta = d]
  OBVIOUS
<1>8. g.meta = d /\ g.cols = <<>> /\ g.rows = <<>>
  BY <1>7 DEF NewGrid
<1>9. IsGrid(g)
  <2>1. HasCols(g)
    BY <1>7, NewGridHasCols, MetaHasCols
  <2>2. \A S : <<>> \in Seq(S)
    OBVIOUS
  <2>. QED
    BY <1>6, <1>8, <2>1, <2>2 DEF IsGrid
<1>10. CanAddCol(g, <<"empty">>)
  <2>1. IsTagName(<<"empty">>)
    BY <1>3, OrderAssumption
  <2>2. ColIndex(g, <<"empty">>) = {}
    BY <1>8 DEF ColIndex
  <2>. QED
    BY <1>8, <2>1, <2>2 DEF CanAddCol
<1>11. ErrorGrid(Message) = WithCol(g, <<"empty">>)
  BY <1>4, <1>5, <1>6, <1>7, Zenon DEF ErrorGrid
<1>. QED
  BY <1>3, <1>9, <1>10, <1>11, ColIsGrid

-----------------------------------------------------------------------------
(* What the reader makes.                                                   *)

(* The grid that has been read: its first columns, the last of them with the *)
(* tags that have been read, its first rows and the first cells of a row.    *)
GridOf(m, c, r) == [meta |-> m, cols |-> c, rows |-> r]
FirstCols(g, k) == [i \in 1..k |-> g.cols[i]]
PartCols(g, k, d) ==
  [i \in 1..k |-> [name |-> g.cols[i].name, meta |-> IF i = k THEN d ELSE g.cols[i].meta]]
FirstCells(g, r, i) == [j \in 1..i |-> Cell(g, r, j)]
FirstRows(g, r) == [q \in 1..r |-> FirstCells(g, q, Len(g.cols))]

(* Append, of a sequence given by its elements. *)
LEMMA FunctionAppend ==
  ASSUME NEW k \in Nat, NEW s, DOMAIN s = 1..k, s = [i \in 1..k |-> s[i]], NEW x
  PROVE  /\ Len(s) = k /\ Append(s, x) = [i \in 1..k + 1 |-> IF i = k + 1 THEN x ELSE s[i]]
<1>1. PICK S : S = {s[i] : i \in 1..k}
  OBVIOUS
<1>2. s \in [1..k -> S]
  BY <1>1
<1>3. s \in Seq(S)
  BY <1>2
<1>4. Len(s) = k
  BY <1>3
<1>5. PICK a : a = Append(s, x)
  OBVIOUS
<1>6. /\ a \in Seq(S \union {x}) /\ DOMAIN a = 1..k + 1
      /\ a[k + 1] = x /\ \A i \in 1..k : a[i] = s[i]
  BY <1>3, <1>4, <1>5, AppendTo
<1>7. \A i \in 1..k + 1 : i \in 1..k \/ i = k + 1
  OBVIOUS
<1>8. a = [i \in 1..k + 1 |-> a[i]]
  <2>1. \A T : \A t \in Seq(T) : t = [i \in DOMAIN t |-> t[i]]
    OBVIOUS
  <2>. QED
    BY <1>6, <2>1
<1>9. \A i \in 1..k + 1 : a[i] = IF i = k + 1 THEN x ELSE s[i]
  BY <1>6, <1>7
<1>10. a = [i \in 1..k + 1 |-> IF i = k + 1 THEN x ELSE s[i]]
  BY <1>8, <1>9
<1>. QED
  BY <1>4, <1>5, <1>10

(* A column that has all its tags is a column of the grid. *)
LEMMA FirstColsFacts ==
  ASSUME NEW g, HasCols(g), NEW n \in Nat, n = Len(g.cols)
  PROVE  /\ FirstCols(g, 0) = <<>> /\ FirstCols(g, n) = g.cols
         /\ \A k \in 1..n : PartCols(g, k, g.cols[k].meta) = FirstCols(g, k)
         /\ \A k \in 0..n - 1 : Append(FirstCols(g, k), [name |-> g.cols[k + 1].name, meta |-> NoTags])
                                  = PartCols(g, k + 1, NoTags)
<1>1. g.cols = [i \in 1..n |-> g.cols[i]] /\ DOMAIN g.cols = 1..n
  <2>1. PICK S : g.cols \in Seq(S)
    BY DEF HasCols
  <2>. QED
    BY <2>1
<1>2. \A i \in 1..n : g.cols[i] = [name |-> g.cols[i].name, meta |-> g.cols[i].meta]
  BY <1>1 DEF HasCols
<1>3. FirstCols(g, 0) = <<>>
  BY DEF FirstCols
<1>4. FirstCols(g, n) = g.cols
  BY <1>1 DEF FirstCols
<1>5. ASSUME NEW k \in 1..n PROVE PartCols(g, k, g.cols[k].meta) = FirstCols(g, k)
  <2>1. \A i \in 1..k : i \in 1..n
    OBVIOUS
  <2>2. \A i \in 1..k : [name |-> g.cols[i].name, meta |-> IF i = k THEN g.cols[k].meta ELSE g.cols[i].meta]
                         = g.cols[i]
    BY <1>2, <2>1
  <2>. QED
    BY <2>2 DEF PartCols, FirstCols
<1>6. ASSUME NEW k \in 0..n - 1
      PROVE  Append(FirstCols(g, k), [name |-> g.cols[k + 1].name, meta |-> NoTags])
               = PartCols(g, k + 1, NoTags)
  <2>1. PICK x : x = [name |-> g.cols[k + 1].name, meta |-> NoTags]
    OBVIOUS
  <2>0. PICK s : s = FirstCols(g, k)
    OBVIOUS
  <2>2. s = FirstCols(g, k) /\ DOMAIN s = 1..k /\ s = [i \in 1..k |-> s[i]]
        /\ \A i \in 1..k : s[i] = g.cols[i]
    BY <2>0 DEF FirstCols
  <2>3. Append(s, x) = [i \in 1..k + 1 |-> IF i = k + 1 THEN x ELSE s[i]]
    <3>1. k \in Nat
      OBVIOUS
    <3>. QED
      BY <2>2, <3>1, FunctionAppend
  <2>4. \A i \in 1..k + 1 : (IF i = k + 1 THEN x ELSE s[i])
           = [name |-> g.cols[i].name, meta |-> IF i = k + 1 THEN NoTags ELSE g.cols[i].meta]
    <3>1. \A i \in 1..k + 1 : i \in 1..n /\ (i \in 1..k \/ i = k + 1)
      OBVIOUS
    <3>. QED
      BY <1>2, <2>1, <2>2, <3>1
  <2>5. [i \in 1..k + 1 |-> IF i = k + 1 THEN x ELSE s[i]] = PartCols(g, k + 1, NoTags)
    BY <2>4 DEF PartCols
  <2>. QED
    BY <2>1, <2>2, <2>3, <2>5
<1>. QED
  BY <1>3, <1>4, <1>5, <1>6

(* A tag is put into the k-th column. *)
MetaAdded(cols, k, n, v) == [cols EXCEPT ![k].meta = Add(@, n, v)]

(* A tag more in the last column that has been read. *)
LEMMA PartColsFacts ==
  ASSUME NEW g, NEW k \in Nat, k # 0, NEW d
  PROVE  /\ Len(PartCols(g, k, d)) = k
         /\ \A n, v : MetaAdded(PartCols(g, k, d), k, n, v) = PartCols(g, k, Add(d, n, v))
<1>1. PICK s : s = PartCols(g, k, d)
  OBVIOUS
<1>2. /\ DOMAIN s = 1..k /\ s = [i \in 1..k |-> s[i]]
      /\ \A i \in 1..k : s[i] = [name |-> g.cols[i].name, meta |-> IF i = k THEN d ELSE g.cols[i].meta]
  BY <1>1 DEF PartCols
<1>3. Len(s) = k
  BY <1>2, FunctionAppend
<1>4. ASSUME NEW n, NEW v PROVE MetaAdded(s, k, n, v) = PartCols(g, k, Add(d, n, v))
  <2>1. k \in 1..k
    OBVIOUS
  <2>2. s[k] = [name |-> g.cols[k].name, meta |-> d]
    BY <1>2, <2>1
  <2>3. [s[k] EXCEPT !.meta = Add(@, n, v)] = [name |-> g.cols[k].name, meta |-> Add(d, n, v)]
    BY <2>2
  <2>4. [s EXCEPT ![k].meta = Add(@, n, v)]
          = [i \in 1..k |-> IF i = k THEN [s[k] EXCEPT !.meta = Add(@, n, v)] ELSE s[i]]
    BY <1>2, <2>1
  <2>5. \A i \in 1..k : (IF i = k THEN [s[k] EXCEPT !.meta = Add(@, n, v)] ELSE s[i])
           = [name |-> g.cols[i].name, meta |-> IF i = k THEN Add(d, n, v) ELSE g.cols[i].meta]
    BY <1>2, <2>3
  <2>6. [i \in 1..k |-> IF i = k THEN [s[k] EXCEPT !.meta = Add(@, n, v)] ELSE s[i]]
          = PartCols(g, k, Add(d, n, v))
    BY <2>5 DEF PartCols
  <2>. QED
    BY <2>4, <2>6 DEF MetaAdded
<1>. QED
  BY <1>1, <1>3, <1>4

(* A column that has not been read can be added. *)
LEMMA NextColAdds ==
  ASSUME NEW g, Carried(g), NEW n \in Nat, n = Len(g.cols), NEW k \in 0..n - 1, NEW m
  PROVE  CanAddCol(GridOf(m, FirstCols(g, k), <<>>), g.cols[k + 1].name)
<1>1. HasCols(g)
  BY DEF Carried, IsGrid
<1>2. DOMAIN g.cols = 1..n
  BY CarriedFacts
<1>3. PICK j : j = k + 1 /\ j \in 1..n /\ \A i \in 1..k : i \in 1..n /\ i # j
  OBVIOUS
<1>4. IsTagName(g.cols[j].name)
  BY <1>2, <1>3, CarriedFacts, OrderAssumption
<1>5. \A i \in 1..k : g.cols[i].name # g.cols[j].name
  BY <1>1, <1>2, <1>3 DEF HasCols
<1>6. PICK h : h = GridOf(m, FirstCols(g, k), <<>>)
  OBVIOUS
<1>7. h.rows = <<>> /\ DOMAIN h.cols = 1..k /\ \A i \in 1..k : h.cols[i] = g.cols[i]
  BY <1>6 DEF GridOf, FirstCols
<1>8. ColIndex(h, g.cols[j].name) = {}
  BY <1>5, <1>7 DEF ColIndex
<1>. QED
  BY <1>3, <1>4, <1>6, <1>7, <1>8 DEF CanAddCol

(* A cell more in the row that is read. *)
LEMMA FirstCellsFacts ==
  ASSUME NEW g, NEW r, NEW i \in Nat
  PROVE  /\ FirstCells(g, r, 0) = <<>>
         /\ Append(FirstCells(g, r, i), Cell(g, r, i + 1)) = FirstCells(g, r, i + 1)
         /\ Len(FirstCells(g, r, i + 1)) = i + 1
<1>1. FirstCells(g, r, 0) = <<>>
  BY DEF FirstCells
<1>0. PICK s : s = FirstCells(g, r, i)
  OBVIOUS
<1>2. s = FirstCells(g, r, i) /\ DOMAIN s = 1..i /\ s = [j \in 1..i |-> s[j]]
      /\ \A j \in 1..i : s[j] = Cell(g, r, j)
  BY <1>0 DEF FirstCells
<1>3. PICK x : x = Cell(g, r, i + 1)
  OBVIOUS
<1>4. Append(s, x) = [j \in 1..i + 1 |-> IF j = i + 1 THEN x ELSE s[j]]
  BY <1>2, FunctionAppend
<1>5. \A j \in 1..i + 1 : j \in 1..i \/ j = i + 1
  OBVIOUS
<1>6. \A j \in 1..i + 1 : (IF j = i + 1 THEN x ELSE s[j]) = Cell(g, r, j)
  BY <1>2, <1>3, <1>5
<1>7. [j \in 1..i + 1 |-> IF j = i + 1 THEN x ELSE s[j]] = FirstCells(g, r, i + 1)
  BY <1>6 DEF FirstCells
<1>8. Len(FirstCells(g, r, i + 1)) = i + 1
  <2>0. PICK k \in Nat : k = i + 1
    OBVIOUS
  <2>3. PICK t : t = FirstCells(g, r, k)
    OBVIOUS
  <2>1. DOMAIN t = 1..k /\ t = [j \in 1..k |-> t[j]]
    BY <2>3 DEF FirstCells
  <2>2. Len(t) = k
    BY <2>1, FunctionAppend
  <2>. QED
    BY <2>0, <2>2, <2>3
<1>. QED
  BY <1>1, <1>2, <1>3, <1>4, <1>7, <1>8

(* A row more in the grid. *)
LEMMA FirstRowsFacts ==
  ASSUME NEW g, NEW r \in Nat
  PROVE  /\ FirstRows(g, 0) = <<>>
         /\ Append(FirstRows(g, r), FirstCells(g, r + 1, Len(g.cols))) = FirstRows(g, r + 1)
<1>1. FirstRows(g, 0) = <<>>
  BY DEF FirstRows
<1>0. PICK s : s = FirstRows(g, r)
  OBVIOUS
<1>2. s = FirstRows(g, r) /\ DOMAIN s = 1..r /\ s = [q \in 1..r |-> s[q]]
      /\ \A q \in 1..r : s[q] = FirstCells(g, q, Len(g.cols))
  BY <1>0 DEF FirstRows
<1>3. PICK x : x = FirstCells(g, r + 1, Len(g.cols))
  OBVIOUS
<1>4. Append(s, x) = [q \in 1..r + 1 |-> IF q = r + 1 THEN x ELSE s[q]]
  BY <1>2, FunctionAppend
<1>5. \A q \in 1..r + 1 : q \in 1..r \/ q = r + 1
  OBVIOUS
<1>6. \A q \in 1..r + 1 : (IF q = r + 1 THEN x ELSE s[q]) = FirstCells(g, q, Len(g.cols))
  BY <1>2, <1>3, <1>5
<1>7. [q \in 1..r + 1 |-> IF q = r + 1 THEN x ELSE s[q]] = FirstRows(g, r + 1)
  BY <1>6 DEF FirstRows
<1>. QED
  BY <1>1, <1>2, <1>3, <1>4, <1>7

(* When all rows are read, the grid is the one that was written. *)
LEMMA WholeGridRead ==
  ASSUME NEW g, Carried(g), NEW h, h = GridOf(g.meta, g.cols, FirstRows(g, Len(g.rows)))
  PROVE  View(h) = View(g)
<1>1. PICK n \in Nat : n = Len(g.cols) /\ DOMAIN g.cols = 1..n
  BY CarriedFacts
<1>2. PICK m \in Nat : m = Len(g.rows) /\ DOMAIN g.rows = 1..m
  BY CarriedFacts
<1>3. h.meta = g.meta /\ h.cols = g.cols /\ h.rows = FirstRows(g, m)
  BY <1>2 DEF GridOf
<1>4. DOMAIN h.rows = 1..m /\ \A r \in 1..m : h.rows[r] = FirstCells(g, r, n)
  BY <1>1, <1>3 DEF FirstRows
<1>5. ASSUME NEW r \in 1..m, NEW i \in 1..n PROVE Cell(h, r, i) = Cell(g, r, i)
  <2>1. h.rows[r] = [j \in 1..n |-> Cell(g, r, j)]
    BY <1>4, Zenon DEF FirstCells
  <2>2. DOMAIN h.rows[r] = 1..n /\ h.rows[r][i] = Cell(g, r, i)
    BY <2>1
  <2>3. \A c : c = Cell(g, r, i) => Cell(h, r, i) = c
    BY <2>2 DEF Cell
  <2>. QED
    BY <2>3
<1>6. [r \in 1..m |-> [i \in 1..n |-> Cell(h, r, i)]] = [r \in 1..m |-> [i \in 1..n |-> Cell(g, r, i)]]
  <2>1. \A r \in 1..m : [i \in 1..n |-> Cell(h, r, i)] = [i \in 1..n |-> Cell(g, r, i)]
    BY <1>5
  <2>. QED
    BY <2>1
<1>. QED
  BY <1>1, <1>2, <1>3, <1>4, <1>6 DEF View

-----------------------------------------------------------------------------
(* The reader, a step at a time.                                            *)

(* A turn of read_meta, with j tags of a dict behind it: one tag more, or none. *)
TagAt(d, rest, j, t, n, v) ==
  /\ CleanDict(d) /\ Follows(rest) /\ j \in 0..Len(TagNames(d)) - 1
  /\ t = SkipSpace(TagsLeft(d, j, rest)) /\ IsTag(d, j + 1, n, v)

(* What the turn does with the tag: r is what is left behind its name.       *)
TakesTag(d, rest, j, t, n, v, r) ==
  /\ Name(t) = n /\ n # <<>> /\ v # Empty
  /\ Add(TagsUpTo(d, j), n, v) = TagsUpTo(d, j + 1)
  /\ v = Marker => Cur(r) # ":" /\ r = SkipSpace(TagsLeft(d, j + 1, rest))
  /\ v # Marker => /\ Cur(r) = ":"
                   /\ \E w : /\ ReadVal(SkipSpace(Drop(r, 1)), FALSE) = Got(v, w)
                             /\ SkipSpace(w) = SkipSpace(TagsLeft(d, j + 1, rest))

(* A turn takes the tag that stands next, name and value. *)
LEMMA TurnTakesTag ==
  ASSUME NEW d, NEW rest, NEW j, NEW t, NEW n, NEW v, TagAt(d, rest, j, t, n, v),
         NEW r, r = SkipSpace(Drop(t, Len(n)))
  PROVE  TakesTag(d, rest, j, t, n, v, r)
<1>1. /\ CleanDict(d) /\ Follows(rest) /\ j \in 0..Len(TagNames(d)) - 1
      /\ t = SkipSpace(TagsLeft(d, j, rest)) /\ IsTag(d, j + 1, n, v)
  BY DEF TagAt
<1>2. PICK k \in Nat : k = Len(TagNames(d))
  BY <1>1, TagTextsAre
<1>3. j \in 0..k /\ j # k /\ j + 1 \in 0..k
  BY <1>1, <1>2
<1>4. n \in Names /\ Sendable(v) /\ v # Empty
  BY <1>1, TagIs
<1>5. PICK y : y = TagsLeft(d, j + 1, rest) /\ Ends(y) /\ Cur(SkipSpace(y)) # ":" /\ SkipSpace(y) \in Text
  BY <1>1, <1>2, <1>3, TagsGoOn
<1>6. t = TagThen(n, v, y)
  <2>1. \A a, b : IsTag(d, j + 1, a, b) =>
           SkipSpace(TagsLeft(d, j, rest)) = TagThen(a, b, TagsLeft(d, j + 1, rest))
    BY <1>1, <1>2, <1>3, TagsGoOn
  <2>. QED
    BY <1>1, <1>5, <2>1
<1>7. /\ Name(t) = n /\ n # <<>>
      /\ v = Marker => Cur(r) # ":" /\ r = SkipSpace(y)
      /\ v # Marker => Cur(r) = ":" /\ ReadBack(v, y) /\ SkipSpace(Drop(r, 1)) = ToZinc(v) \o y
  BY <1>4, <1>5, <1>6, TagIsRead
<1>8. v # Marker => \E w : ReadVal(SkipSpace(Drop(r, 1)), FALSE) = Got(v, w) /\ SkipSpace(w) = SkipSpace(y)
  BY <1>7 DEF ReadBack
<1>9. Add(TagsUpTo(d, j), n, v) = TagsUpTo(d, j + 1)
  <2>1. \A i \in 0..k - 1 : \A a, b : IsTag(d, i + 1, a, b) => Add(TagsUpTo(d, i), a, b) = TagsUpTo(d, i + 1)
    BY <1>1, <1>2, TagsUpToFacts
  <2>. QED
    BY <1>1, <1>2, <2>1
<1>. QED
  BY <1>4, <1>5, <1>7, <1>8, <1>9 DEF TakesTag

(* Behind the last tag there is no name. *)
LEMMA NoTagLeft ==
  ASSUME NEW d, CleanDict(d), NEW rest, Follows(rest), NEW k \in Nat, k = Len(TagNames(d)),
         NEW t, t = SkipSpace(TagsLeft(d, k, rest))
  PROVE  t = rest /\ Name(t) = <<>> /\ TagsUpTo(d, k) = d
<1>1. t = rest
  BY TagsGoOn
<1>2. Cur(rest) \in {",", "\n"}
  BY DEF Follows
<1>3. Cur(rest) \notin IdStart
  BY <1>2, NoClass DEF IdStart
<1>. QED
  BY <1>1, <1>3, TagsUpToFacts DEF Name

(* How far the reader has got with a grid: what it has made, of the grid    *)
(* that was written, and what is left of its text, when a tail follows it.   *)
AtMeta(g, tail, j, t, h) ==
  /\ h = GridOf(TagsUpTo(g.meta, j), <<>>, <<>>)
  /\ t = SkipSpace(TagsLeft(g.meta, j, Pre("\n", ColsLeft(g, tail, 0))))
AtCol(g, tail, k, t, h) ==
  /\ h = GridOf(g.meta, FirstCols(g, k), <<>>) /\ t = ColText(g, tail, k + 1)
AtColMeta(g, tail, k, j, t, h) ==
  /\ h = GridOf(g.meta, PartCols(g, k, TagsUpTo(g.cols[k].meta, j)), <<>>)
  /\ t = SkipSpace(TagsLeft(g.cols[k].meta, j, ColsLeft(g, tail, k)))
AtRow(g, tail, r, t, h) ==
  /\ h = GridOf(g.meta, g.cols, FirstRows(g, r)) /\ t = RowsLeft(g, tail, r)
AtCell(g, tail, r, i, t, h, c) ==
  /\ c = FirstCells(g, r + 1, i) /\ h = GridOf(g.meta, g.cols, FirstRows(g, r))
  /\ t = CellText(g, r + 1, i + 1) \o CellsLeft(g, tail, r + 1, i + 1)

Reached(g, tail, p, t, h, c) ==
  \/ p = "header" /\ c = <<>> /\ h = NewGrid /\ t = GridText(g) \o tail
  \/ p = "meta" /\ c = <<>> /\ \E j \in 0..Len(TagNames(g.meta)) : AtMeta(g, tail, j, t, h)
  \/ p = "cols" /\ c = <<>> /\ \E k \in 0..Len(g.cols) - 1 : AtCol(g, tail, k, t, h)
  \/ /\ p = "colmeta" /\ c = <<>>
     /\ \E k \in 1..Len(g.cols) : \E j \in 0..Len(TagNames(g.cols[k].meta)) : AtColMeta(g, tail, k, j, t, h)
  \/ p = "rows" /\ c = <<>> /\ g.cols # <<>> /\ \E r \in 0..Len(g.rows) : AtRow(g, tail, r, t, h)
  \/ p = "cells" /\ \E r \in 0..Len(g.rows) - 1 : \E i \in 1..Len(g.cols) - 1 : AtCell(g, tail, r, i, t, h, c)
  \/ p = "read" /\ View(h) = View(g)

Reading(g, tail) == Reached(g, tail, phase, text, got, cells)

(* The reader has got on. *)
LEMMA GoReaches ==
  ASSUME NEW g, NEW tail, NEW p, NEW t, NEW h, Go(p, t, h), Reached(g, tail, p, t, h, cells)
  PROVE  Reading(g, tail)'
BY DEF Go, Reading

(* What follows the rows is next, and is none. *)
AtTail(tail) == phase = "rows" /\ text = tail /\ tail # <<>>

(* read_ver *)
LEMMA VersionIsRead ==
  ASSUME NEW g, Carried(g), NEW tail, NoLine(tail), phase = "header", Reading(g, tail), ReadVer
  PROVE  Reading(g, tail)'
<1>1. cells = <<>> /\ got = NewGrid /\ text = GridText(g) \o tail
  BY DEF Reading, Reached
<1>2. PICK u \in Text : /\ u = TagsLeft(g.meta, 0, Pre("\n", ColsLeft(g, tail, 0)))
                        /\ IsPrefix(Version, text) /\ Drop(text, Len(Version)) = u
  BY <1>1, GridTextIs
<1>3. Go("meta", SkipSpace(u), got)
  BY <1>2 DEF ReadVer
<1>4. PICK d : d = g.meta /\ CleanDict(d)
  BY CarriedFacts
<1>5. PICK k \in Nat : k = Len(TagNames(d))
  BY <1>4, TagTextsAre
<1>6. TagsUpTo(d, 0) = NoTags
  BY <1>4, <1>5, TagsUpToFacts
<1>7. NewGrid = GridOf(NoTags, <<>>, <<>>)
  BY DEF NewGrid, GridOf
<1>8. AtMeta(g, tail, 0, SkipSpace(u), got)
  BY <1>1, <1>2, <1>4, <1>6, <1>7 DEF AtMeta
<1>9. 0 \in 0..Len(TagNames(g.meta))
  BY <1>4, <1>5
<1>10. Reached(g, tail, "meta", SkipSpace(u), got, cells)
  BY <1>1, <1>8, <1>9 DEF Reached
<1>. QED
  BY <1>3, <1>10, GoReaches

(* read_meta takes the tag that stands next. *)
LEMMA TagTurn ==
  ASSUME NEW d, CleanDict(d), NEW rest, Follows(rest), NEW k \in Nat, k = Len(TagNames(d)),
         NEW j \in 0..k, text = SkipSpace(TagsLeft(d, j, rest)), ReadTag
  PROVE  j # k /\ \E n, v : /\ Add(TagsUpTo(d, j), n, v) = TagsUpTo(d, j + 1)
                            /\ Go(phase, SkipSpace(TagsLeft(d, j + 1, rest)), WithTag(n, v))
<1>1. Name(text) # <<>>
  BY DEF ReadTag
<1>2. j # k
  BY <1>1, NoTagLeft
<1>3. j \in 0..k - 1 /\ j + 1 \in 1..k
  BY <1>2
<1>4. PICK n, v : IsTag(d, j + 1, n, v)
  BY <1>3 DEF IsTag
<1>5. TagAt(d, rest, j, text, n, v)
  BY <1>3, <1>4 DEF TagAt
<1>6. PICK r : r = SkipSpace(Drop(text, Len(n)))
  OBVIOUS
<1>11. PICK u : u = SkipSpace(TagsLeft(d, j + 1, rest))
  OBVIOUS
<1>12. /\ Name(text) = n /\ n # <<>> /\ v # Empty
       /\ Add(TagsUpTo(d, j), n, v) = TagsUpTo(d, j + 1)
       /\ v = Marker => Cur(r) # ":" /\ r = u
       /\ v # Marker => /\ Cur(r) = ":"
                        /\ \E w : ReadVal(SkipSpace(Drop(r, 1)), FALSE) = Got(v, w) /\ SkipSpace(w) = u
  <2>1. /\ Name(text) = n /\ n # <<>> /\ v # Empty
        /\ Add(TagsUpTo(d, j), n, v) = TagsUpTo(d, j + 1)
        /\ v = Marker => Cur(r) # ":" /\ r = SkipSpace(TagsLeft(d, j + 1, rest))
        /\ v # Marker => /\ Cur(r) = ":"
                         /\ \E w : /\ ReadVal(SkipSpace(Drop(r, 1)), FALSE) = Got(v, w)
                                   /\ SkipSpace(w) = SkipSpace(TagsLeft(d, j + 1, rest))
    <3>1. TakesTag(d, rest, j, text, n, v, r)
      BY <1>5, <1>6, TurnTakesTag
    <3>. QED
      BY <3>1 DEF TakesTag
  <2>. QED
    BY <1>11, <2>1
<1>7. PICK val : val = ReadVal(SkipSpace(Drop(r, 1)), FALSE)
  OBVIOUS
<1>8. IF Cur(r) # ":" THEN Go(phase, r, WithTag(n, Marker))
      ELSE IF val.out # "ok" THEN Stop(val.out)
      ELSE IF val.val = Empty THEN Stop("raise")
      ELSE Go(phase, SkipSpace(val.rest), WithTag(n, val.val))
  BY <1>6, <1>7, <1>12 DEF ReadTag
<1>9. CASE v = Marker
  BY <1>2, <1>8, <1>9, <1>11, <1>12
<1>10. CASE v # Marker
  <2>1. PICK w : val = Got(v, w) /\ SkipSpace(w) = u
    BY <1>7, <1>10, <1>12
  <2>2. val.out = "ok" /\ val.val = v /\ val.rest = w
    BY <2>1 DEF Got
  <2>3. Go(phase, u, WithTag(n, v))
    BY <1>8, <1>10, <1>12, <2>1, <2>2
  <2>. QED
    BY <1>2, <1>11, <1>12, <2>3
<1>. QED
  BY <1>9, <1>10

(* read_meta, in the tags of the grid and in those of a column. *)
LEMMA TagIsTaken ==
  ASSUME NEW g, Carried(g), NEW tail, NoLine(tail), Reading(g, tail), ReadTag
  PROVE  Reading(g, tail)'
<1>1. phase \in {"meta", "colmeta"}
  BY DEF ReadTag
<1>2. CASE phase = "meta"
  <2>1. cells = <<>> /\ \E j \in 0..Len(TagNames(g.meta)) : AtMeta(g, tail, j, text, got)
    BY <1>2 DEF Reading, Reached
  <2>2. PICK d : d = g.meta /\ CleanDict(d)
    BY CarriedFacts
  <2>3. PICK k \in Nat : k = Len(TagNames(d))
    BY <2>2, TagTextsAre
  <2>4. PICK j \in 0..k : AtMeta(g, tail, j, text, got)
    BY <2>1, <2>2, <2>3
  <2>5. PICK rest : rest = Pre("\n", ColsLeft(g, tail, 0)) /\ Follows(rest)
    BY GridTextIs
  <2>6. got = GridOf(TagsUpTo(d, j), <<>>, <<>>) /\ text = SkipSpace(TagsLeft(d, j, rest))
    BY <2>2, <2>4, <2>5 DEF AtMeta
  <2>7. PICK n, v : /\ j # k /\ Add(TagsUpTo(d, j), n, v) = TagsUpTo(d, j + 1)
                    /\ Go(phase, SkipSpace(TagsLeft(d, j + 1, rest)), WithTag(n, v))
    BY <2>2, <2>3, <2>5, <2>6, TagTurn
  <2>8. PICK t, h : t = SkipSpace(TagsLeft(d, j + 1, rest)) /\ h = WithTag(n, v)
    OBVIOUS
  <2>9. h = GridOf(TagsUpTo(d, j + 1), <<>>, <<>>)
    BY <1>2, <2>6, <2>7, <2>8 DEF WithTag, GridOf
  <2>10. AtMeta(g, tail, j + 1, t, h)
    BY <2>2, <2>5, <2>8, <2>9 DEF AtMeta
  <2>11. j + 1 \in 0..Len(TagNames(g.meta))
    BY <2>2, <2>3, <2>7
  <2>12. Reached(g, tail, phase, t, h, cells)
    BY <1>2, <2>1, <2>10, <2>11 DEF Reached
  <2>. QED
    BY <2>7, <2>8, <2>12, GoReaches
<1>3. CASE phase = "colmeta"
  <2>1. cells = <<>> /\ \E k \in 1..Len(g.cols) : \E j \in 0..Len(TagNames(g.cols[k].meta)) : AtColMeta(g, tail, k, j, text, got)
    BY <1>3 DEF Reading, Reached
  <2>2. PICK k \in 1..Len(g.cols) : \E j \in 0..Len(TagNames(g.cols[k].meta)) : AtColMeta(g, tail, k, j, text, got)
    BY <2>1
  <2>3. PICK d : d = g.cols[k].meta /\ CleanDict(d)
    BY CarriedFacts
  <2>4. PICK m \in Nat : m = Len(TagNames(d))
    BY <2>3, TagTextsAre
  <2>5. PICK j \in 0..m : AtColMeta(g, tail, k, j, text, got)
    BY <2>2, <2>3, <2>4
  <2>6. PICK rest : rest = ColsLeft(g, tail, k) /\ Follows(rest)
    BY CarriedFacts, ColsLeftFacts
  <2>7. /\ got = GridOf(g.meta, PartCols(g, k, TagsUpTo(d, j)), <<>>)
        /\ text = SkipSpace(TagsLeft(d, j, rest))
    BY <2>3, <2>5, <2>6 DEF AtColMeta
  <2>8. PICK n, v : /\ j # m /\ Add(TagsUpTo(d, j), n, v) = TagsUpTo(d, j + 1)
                    /\ Go(phase, SkipSpace(TagsLeft(d, j + 1, rest)), WithTag(n, v))
    BY <2>3, <2>4, <2>6, <2>7, TagTurn
  <2>9. PICK t, h : t = SkipSpace(TagsLeft(d, j + 1, rest)) /\ h = WithTag(n, v)
    OBVIOUS
  <2>10. h = GridOf(g.meta, PartCols(g, k, TagsUpTo(d, j + 1)), <<>>)
    <3>1. PICK cols : cols = PartCols(g, k, TagsUpTo(d, j))
      OBVIOUS
    <3>2. k \in Nat /\ k # 0
      BY CarriedFacts
    <3>3. Len(cols) = k /\ MetaAdded(cols, k, n, v) = PartCols(g, k, TagsUpTo(d, j + 1))
      <4>1. PICK e : e = TagsUpTo(d, j)
        OBVIOUS
      <4>2. /\ Len(PartCols(g, k, e)) = k
            /\ \A a, b : MetaAdded(PartCols(g, k, e), k, a, b) = PartCols(g, k, Add(e, a, b))
        BY <3>2, PartColsFacts
      <4>. QED
        BY <2>8, <3>1, <4>1, <4>2
    <3>4. got = [meta |-> g.meta, cols |-> cols, rows |-> <<>>]
      BY <2>7, <3>1 DEF GridOf
    <3>5. h = [got EXCEPT !.cols[Len(got.cols)].meta = Add(@, n, v)]
      BY <1>3, <2>9 DEF WithTag
    <3>6. h = [meta |-> g.meta, cols |-> MetaAdded(cols, k, n, v), rows |-> <<>>]
      BY <3>3, <3>4, <3>5 DEF MetaAdded
    <3>. QED
      BY <3>3, <3>6 DEF GridOf
  <2>11. AtColMeta(g, tail, k, j + 1, t, h)
    BY <2>3, <2>6, <2>9, <2>10 DEF AtColMeta
  <2>12. j + 1 \in 0..Len(TagNames(g.cols[k].meta))
    BY <2>3, <2>4, <2>8
  <2>13. Reached(g, tail, phase, t, h, cells)
    BY <1>3, <2>1, <2>11, <2>12 DEF Reached
  <2>. QED
    BY <2>8, <2>9, <2>13, GoReaches
<1>. QED
  BY <1>1, <1>2, <1>3

(* read_grid, where the first line of the text is over. *)
LEMMA MetaEndIsRead ==
  ASSUME NEW g, Carried(g), NEW tail, NoLine(tail), Reading(g, tail), ReadMetaEnd
  PROVE  Reading(g, tail)'
<1>1. phase = "meta" /\ Name(text) = <<>>
  BY DEF ReadMetaEnd
<1>2. cells = <<>> /\ \E j \in 0..Len(TagNames(g.meta)) : AtMeta(g, tail, j, text, got)
  BY <1>1 DEF Reading, Reached
<1>3. PICK d : d = g.meta /\ CleanDict(d)
  BY CarriedFacts
<1>4. PICK k \in Nat : k = Len(TagNames(d))
  BY <1>3, TagTextsAre
<1>5. PICK j \in 0..k : AtMeta(g, tail, j, text, got)
  BY <1>2, <1>3, <1>4
<1>6. PICK n \in Nat : n = Len(g.cols) /\ DOMAIN g.cols = 1..n
  BY CarriedFacts
<1>7. PICK c \in Text : c = ColsLeft(g, tail, 0)
  <2>1. 0 \in 0..n
    OBVIOUS
  <2>. QED
    BY <1>6, <2>1, ColsLeftFacts
<1>8. PICK rest \in Text : rest = Pre("\n", c) /\ Follows(rest) /\ Cur(rest) = "\n" /\ Peek(rest) = Cur(c) /\ Drop(rest, 1) = c
  <2>1. "\n" \in Symbol
    BY SymbolsAre DEF Signs
  <2>2. Pre("\n", c) \in Text /\ Cur(Pre("\n", c)) = "\n" /\ Peek(Pre("\n", c)) = Cur(c) /\ Drop(Pre("\n", c), 1) = c
    BY <2>1, PreText
  <2>. QED
    BY <2>2 DEF Follows
<1>9. got = GridOf(TagsUpTo(d, j), <<>>, <<>>) /\ text = SkipSpace(TagsLeft(d, j, rest))
  BY <1>3, <1>5, <1>7, <1>8 DEF AtMeta
<1>10. j = k
  <2>1. SUFFICES ASSUME j # k PROVE FALSE
    OBVIOUS
  <2>2. j \in 0..k - 1 /\ j + 1 \in 1..k
    BY <2>1
  <2>3. PICK a, b : IsTag(d, j + 1, a, b)
    BY <1>3, <1>4, <2>2 DEF IsTag
  <2>4. Name(text) = a /\ a # <<>>
    <3>1. TagAt(d, rest, j, text, a, b)
      BY <1>3, <1>4, <1>8, <1>9, <2>2, <2>3 DEF TagAt
    <3>2. PICK r : r = SkipSpace(Drop(text, Len(a)))
      OBVIOUS
    <3>3. TakesTag(d, rest, j, text, a, b, r)
      BY <3>1, <3>2, TurnTakesTag
    <3>. QED
      BY <3>3 DEF TakesTag
  <2>. QED
    BY <1>1, <2>4
<1>11. text = rest /\ TagsUpTo(d, k) = d
  BY <1>3, <1>4, <1>8, <1>9, <1>10, NoTagLeft
<1>12. got = GridOf(g.meta, <<>>, <<>>)
  BY <1>3, <1>9, <1>10, <1>11
<1>13. Go(IF Cur(c) = "\n" THEN "read" ELSE "cols", c, got)
  BY <1>8, <1>11 DEF ReadMetaEnd
<1>14. CASE n = 0
  <2>1. g.cols = <<>> /\ g.rows = <<>>
    <3>1. HasCols(g)
      BY DEF Carried, IsGrid
    <3>2. PICK S : g.cols \in Seq(S)
      BY <3>1 DEF HasCols
    <3>3. g.cols = <<>>
      <4>1. \A s \in Seq(S) : Len(s) = 0 => s = <<>>
        OBVIOUS
      <4>. QED
        BY <1>6, <1>14, <3>2, <4>1
    <3>. QED
      BY <3>3, CarriedFacts
  <2>2. PICK m \in Nat : m = Len(g.rows) /\ m = 0
    BY <2>1
  <2>3. FirstRows(g, Len(g.rows)) = <<>>
    BY <2>2, FirstRowsFacts
  <2>4. got = GridOf(g.meta, g.cols, FirstRows(g, Len(g.rows)))
    BY <1>12, <2>1, <2>3
  <2>5. View(got) = View(g)
    BY <2>4, WholeGridRead
  <2>6. Cur(c) = "\n"
    <3>1. RowsLeft(g, tail, 0) \in Text
      <4>1. PICK l \in Nat : l = Len(g.rows)
        BY <2>2
      <4>. QED
        BY <4>1, RowsLeftFacts
    <3>2. "\n" \in Symbol
      BY SymbolsAre DEF Signs
    <3>3. c = Pre("\n", RowsLeft(g, tail, 0))
      BY <1>6, <1>7, <1>14, ColsLeftFacts
    <3>. QED
      BY <3>1, <3>2, <3>3, PreText
  <2>7. Reached(g, tail, "read", c, got, cells)
    BY <2>5 DEF Reached
  <2>. QED
    BY <1>13, <2>6, <2>7, GoReaches
<1>15. CASE n # 0
  <2>1. 1 \in 1..n
    BY <1>15
  <2>2. c = ColText(g, tail, 1) /\ Cur(c) \in IdStart
    BY <1>6, <1>7, <1>15, <2>1, ColsLeftFacts
  <2>3. Cur(c) # "\n"
    BY <2>2, NoClass DEF IdStart
  <2>4. HasCols(g)
    BY DEF Carried, IsGrid
  <2>5. got = GridOf(g.meta, FirstCols(g, 0), <<>>)
    BY <1>6, <1>12, <2>4, FirstColsFacts
  <2>6. AtCol(g, tail, 0, c, got)
    <3>1. c = ColText(g, tail, 0 + 1)
      BY <2>2
    <3>. QED
      BY <2>5, <3>1 DEF AtCol
  <2>7. 0 \in 0..Len(g.cols) - 1
    BY <1>6, <1>15
  <2>8. Reached(g, tail, "cols", c, got, cells)
    BY <1>2, <2>6, <2>7 DEF Reached
  <2>. QED
    BY <1>13, <2>3, <2>8, GoReaches
<1>. QED
  BY <1>14, <1>15

(* add_col, by the parts of the grid. *)
LEMMA ColAppended ==
  ASSUME NEW m, NEW c, NEW r, NEW h, h = GridOf(m, c, r), NEW n
  PROVE  WithCol(h, n) = GridOf(m, Append(c, [name |-> n, meta |-> NoTags]), r)
<1>1. PICK x : x = [name |-> n, meta |-> NoTags]
  OBVIOUS
<1>2. PICK s : s = Append(c, x)
  OBVIOUS
<1>3. h = [meta |-> m, cols |-> c, rows |-> r] /\ h.cols = c
  BY DEF GridOf
<1>4. WithCol(h, n) = [h EXCEPT !.cols = s]
  BY <1>1, <1>2, <1>3 DEF WithCol
<1>5. [h EXCEPT !.cols = s] = [meta |-> m, cols |-> s, rows |-> r]
  BY <1>3
<1>. QED
  BY <1>1, <1>2, <1>4, <1>5 DEF GridOf

(* A turn of read_cols takes the name of the column that stands next. *)
LEMMA ColIsRead ==
  ASSUME NEW g, Carried(g), NEW tail, NoLine(tail), NEW n \in Nat, n = Len(g.cols), NEW k \in 0..n - 1,
         NEW t, NEW h, AtCol(g, tail, k, t, h)
  PROVE  /\ CanAddCol(h, Name(t)) /\ k + 1 \in 1..n
         /\ 0 \in 0..Len(TagNames(g.cols[k + 1].meta))
         /\ AtColMeta(g, tail, k + 1, 0, SkipSpace(Drop(t, Len(Name(t)))), WithCol(h, Name(t)))
<1>1. PICK j \in 1..n : j = k + 1 /\ j \in DOMAIN g.cols
  BY CarriedFacts
<1>2. h = GridOf(g.meta, FirstCols(g, k), <<>>) /\ t = ColText(g, tail, j)
  BY <1>1 DEF AtCol
<1>3. PICK name \in Names : name = g.cols[j].name
  BY <1>1, CarriedFacts
<1>4. PICK d : d = g.cols[j].meta /\ CleanDict(d)
  BY <1>1, CarriedFacts
<1>5. PICK m \in Nat : m = Len(TagNames(d))
  BY <1>4, TagTextsAre
<1>6. Follows(ColsLeft(g, tail, j))
  BY ColsLeftFacts
<1>7. PICK u : u = TagsLeft(d, 0, ColsLeft(g, tail, j)) /\ Ends(u)
  <2>1. 0 \in 0..m
    OBVIOUS
  <2>. QED
    BY <1>4, <1>5, <1>6, <2>1, TagsGoOn
<1>8. u \in Text /\ Cur(u) \notin Id
  BY <1>7, EndsFacts
<1>9. t = name \o u
  BY <1>2, <1>3, <1>4, <1>7 DEF ColText
<1>10. Name(t) = name /\ Drop(t, Len(name)) = u
  BY <1>8, <1>9, NameIsRead
<1>11. CanAddCol(h, name)
  BY <1>1, <1>2, <1>3, NextColAdds
<1>12. WithCol(h, name) = GridOf(g.meta, PartCols(g, j, NoTags), <<>>)
  <2>1. HasCols(g)
    BY DEF Carried, IsGrid
  <2>2. Append(FirstCols(g, k), [name |-> name, meta |-> NoTags]) = PartCols(g, j, NoTags)
    BY <1>1, <1>3, <2>1, FirstColsFacts
  <2>3. PICK c, q : c = FirstCols(g, k) /\ q = <<>>
    OBVIOUS
  <2>4. WithCol(h, name) = GridOf(g.meta, Append(c, [name |-> name, meta |-> NoTags]), q)
    BY <1>2, <2>3, ColAppended
  <2>. QED
    BY <2>2, <2>3, <2>4
<1>13. TagsUpTo(d, 0) = NoTags
  BY <1>4, <1>5, TagsUpToFacts
<1>14. AtColMeta(g, tail, j, 0, SkipSpace(u), WithCol(h, name))
  BY <1>4, <1>7, <1>12, <1>13 DEF AtColMeta
<1>. QED
  BY <1>1, <1>4, <1>5, <1>10, <1>11, <1>14

(* read_cols, the name of a column. *)
LEMMA ColumnIsRead ==
  ASSUME NEW g, Carried(g), NEW tail, NoLine(tail), Reading(g, tail), ReadCol
  PROVE  Reading(g, tail)'
<1>1. phase = "cols"
  BY DEF ReadCol
<1>2. cells = <<>> /\ \E k \in 0..Len(g.cols) - 1 : AtCol(g, tail, k, text, got)
  BY <1>1 DEF Reading, Reached
<1>3. PICK n \in Nat : n = Len(g.cols)
  BY CarriedFacts
<1>4. PICK k \in 0..n - 1 : AtCol(g, tail, k, text, got)
  BY <1>2, <1>3
<1>5. PICK t, h : t = SkipSpace(Drop(text, Len(Name(text)))) /\ h = WithCol(got, Name(text))
  OBVIOUS
<1>6. /\ CanAddCol(got, Name(text)) /\ k + 1 \in 1..n
      /\ 0 \in 0..Len(TagNames(g.cols[k + 1].meta))
      /\ AtColMeta(g, tail, k + 1, 0, t, h)
  BY <1>3, <1>4, <1>5, ColIsRead
<1>7. Go("colmeta", t, h)
  BY <1>5, <1>6 DEF ReadCol
<1>8. Reached(g, tail, "colmeta", t, h, cells)
  BY <1>2, <1>3, <1>6 DEF Reached
<1>. QED
  BY <1>7, <1>8, GoReaches

(* The end of a column: a comma and the next, or the line and the rows. *)
LEMMA ColEndIsRead ==
  ASSUME NEW g, Carried(g), NEW tail, NoLine(tail), Reading(g, tail), ReadColEnd
  PROVE  Reading(g, tail)'
<1>1. phase = "colmeta" /\ Name(text) = <<>>
  BY DEF ReadColEnd
<1>2. cells = <<>> /\ \E k \in 1..Len(g.cols) : \E j \in 0..Len(TagNames(g.cols[k].meta)) : AtColMeta(g, tail, k, j, text, got)
  BY <1>1 DEF Reading, Reached
<1>3. PICK n \in Nat : n = Len(g.cols) /\ DOMAIN g.cols = 1..n
  BY CarriedFacts
<1>4. PICK k \in 1..n : \E j \in 0..Len(TagNames(g.cols[k].meta)) : AtColMeta(g, tail, k, j, text, got)
  BY <1>2, <1>3
<1>5. PICK d : d = g.cols[k].meta /\ CleanDict(d)
  BY <1>3, CarriedFacts
<1>6. PICK m \in Nat : m = Len(TagNames(d))
  BY <1>5, TagTextsAre
<1>7. PICK j \in 0..m : AtColMeta(g, tail, k, j, text, got)
  BY <1>4, <1>5, <1>6
<1>8. PICK rest : rest = ColsLeft(g, tail, k) /\ Follows(rest)
  BY <1>3, ColsLeftFacts
<1>9. got = GridOf(g.meta, PartCols(g, k, TagsUpTo(d, j)), <<>>) /\ text = SkipSpace(TagsLeft(d, j, rest))
  BY <1>5, <1>7, <1>8 DEF AtColMeta
<1>10. j = m
  <2>1. SUFFICES ASSUME j # m PROVE FALSE
    OBVIOUS
  <2>2. j \in 0..m - 1 /\ j + 1 \in 1..m
    BY <2>1
  <2>3. PICK a, b : IsTag(d, j + 1, a, b)
    BY <1>5, <1>6, <2>2 DEF IsTag
  <2>4. Name(text) = a /\ a # <<>>
    <3>1. TagAt(d, rest, j, text, a, b)
      BY <1>5, <1>6, <1>8, <1>9, <2>2, <2>3 DEF TagAt
    <3>2. PICK r : r = SkipSpace(Drop(text, Len(a)))
      OBVIOUS
    <3>3. TakesTag(d, rest, j, text, a, b, r)
      BY <3>1, <3>2, TurnTakesTag
    <3>. QED
      BY <3>3 DEF TakesTag
  <2>. QED
    BY <1>1, <2>4
<1>11. text = rest /\ TagsUpTo(d, m) = d
  BY <1>5, <1>6, <1>8, <1>9, <1>10, NoTagLeft
<1>12. HasCols(g)
  BY DEF Carried, IsGrid
<1>13. got = GridOf(g.meta, FirstCols(g, k), <<>>)
  <2>1. PartCols(g, k, d) = FirstCols(g, k)
    BY <1>3, <1>5, <1>12, FirstColsFacts
  <2>. QED
    BY <1>9, <1>10, <1>11, <2>1
<1>14. CASE k = n
  <2>1. PICK u \in Text : u = RowsLeft(g, tail, 0)
    <3>1. PICK q \in Nat : q = Len(g.rows)
      BY CarriedFacts
    <3>2. 0 \in 0..q
      OBVIOUS
    <3>. QED
      BY <3>1, <3>2, RowsLeftFacts
  <2>2. rest = Pre("\n", u)
    BY <1>3, <1>8, <1>14, <2>1, ColsLeftFacts
  <2>3. Cur(text) = "\n" /\ Drop(text, 1) = u
    <3>1. "\n" \in Symbol
      BY SymbolsAre DEF Signs
    <3>. QED
      BY <1>11, <2>2, <3>1, PreText
  <2>4. Go("rows", u, got)
    BY <2>3 DEF ReadColEnd
  <2>5. got = GridOf(g.meta, g.cols, FirstRows(g, 0))
    <3>1. FirstCols(g, n) = g.cols
      BY <1>3, <1>12, FirstColsFacts
    <3>2. FirstRows(g, 0) = <<>>
      BY FirstRowsFacts
    <3>. QED
      BY <1>13, <1>14, <3>1, <3>2
  <2>6. AtRow(g, tail, 0, u, got)
    BY <2>1, <2>5 DEF AtRow
  <2>7. 0 \in 0..Len(g.rows)
    BY CarriedFacts
  <2>8. g.cols # <<>>
    BY <1>3
  <2>9. Reached(g, tail, "rows", u, got, cells)
    BY <1>2, <2>6, <2>7, <2>8 DEF Reached
  <2>. QED
    BY <2>4, <2>9, GoReaches
<1>15. CASE k # n
  <2>1. k \in 1..n - 1 /\ k + 1 \in 1..n
    BY <1>15
  <2>2. PICK u \in Text : u = ColText(g, tail, k + 1) /\ Cur(u) \in IdStart
    BY <1>3, <2>1, ColsLeftFacts
  <2>3. rest = Pre(",", u)
    BY <1>3, <1>8, <2>1, <2>2, ColsLeftFacts
  <2>4. Cur(text) = "," /\ Drop(text, 1) = u
    <3>1. "," \in Symbol
      BY SymbolsAre DEF Signs
    <3>. QED
      BY <1>11, <2>3, <3>1, PreText
  <2>5. SkipSpace(u) = u
    <3>1. Cur(u) \notin {" ", "\t"}
      BY <2>2, NoClass DEF IdStart
    <3>. QED
      BY <3>1, SkipFacts
  <2>6. Go("cols", u, got)
    BY <2>4, <2>5 DEF ReadColEnd
  <2>7. AtCol(g, tail, k, u, got)
    BY <1>13, <2>2 DEF AtCol
  <2>8. k \in 0..Len(g.cols) - 1
    BY <1>3, <2>1
  <2>9. Reached(g, tail, "cols", u, got, cells)
    BY <1>2, <2>7, <2>8 DEF Reached
  <2>. QED
    BY <2>6, <2>9, GoReaches
<1>. QED
  BY <1>14, <1>15

(* What the reader makes of the next cell: the value, and what is left.      *)
CellRead(here) == IF Cur(here) \in {",", "\n"} THEN Got(Empty, here) ELSE ReadVal(here, FALSE)

(* The reader takes it for v, and stops before what follows the cell. *)
TakesCell(v, rest, t) ==
  \E w : CellRead(SkipSpace(t)) = Got(v, w) /\ SkipSpace(w) = rest

(* Any cell is taken for what it is, up to the comma or the end of its row.  *)
LEMMA CellIsTaken ==
  ASSUME NEW g, Carried(g), NEW r \in DOMAIN g.rows, NEW i \in DOMAIN g.cols,
         NEW rest \in Text, Follows(rest), NEW t, t = CellText(g, r, i) \o rest
  PROVE  TakesCell(Cell(g, r, i), rest, t)
<1>1. Cur(rest) \in {",", "\n"} /\ SkipSpace(rest) = rest
  <2>1. Cur(rest) \in {",", "\n"}
    BY DEF Follows
  <2>. QED
    BY <2>1, SkipFacts
<1>2. Ends(rest)
  BY <1>1 DEF Ends
<1>3. PICK v : v = Cell(g, r, i) /\ Sendable(v)
  BY CarriedFacts
<1>4. PICK s \in Text : s = CellText(g, r, i)
  BY CellTextIs
<1>5. ASSUME Opens(s) PROVE SkipSpace(t) = t /\ Cur(t) \notin {",", "\n"}
  <2>1. Opens(s \o rest)
    BY <1>5, OpensJoin
  <2>2. t \in Text /\ Cur(t) \notin {" ", "\t", ",", "\n", "eof"}
    BY <1>4, <2>1 DEF Opens
  <2>. QED
    BY <2>2, SkipFacts
<1>6. CASE v # Empty
  <2>1. Opens(s) /\ s = ToZinc(v)
    BY <1>3, <1>4, <1>6, CellTextIs
  <2>2. PICK w \in Text : ReadVal(ToZinc(v) \o rest, FALSE) = Got(v, w) /\ SkipSpace(w) = SkipSpace(rest)
    <3>1. ReadBack(v, rest)
      BY <1>2, <1>3, <1>6, ValuesReadBack DEF Sendable
    <3>. QED
      BY <3>1 DEF ReadBack
  <2>3. CellRead(SkipSpace(t)) = Got(v, w)
    BY <1>4, <1>5, <2>1, <2>2 DEF CellRead
  <2>. QED
    BY <1>1, <1>3, <2>2, <2>3 DEF TakesCell
<1>7. CASE v = Empty /\ i = 1
  <2>1. s = <<"N">> /\ Opens(s)
    BY <1>3, <1>4, <1>7, CellTextIs
  <2>2. "N" \in Alpha /\ Cur(rest) \notin Alpha
    BY <1>2, EndsFacts DEF Alpha, Upper
  <2>3. ReadVal(t, FALSE) = Word(<<"N">>, rest)
    BY <1>4, <2>1, <2>2, OneWord DEF Pre
  <2>4. Word(<<"N">>, rest) = Got(Empty, rest)
    BY DEF Word
  <2>5. CellRead(SkipSpace(t)) = Got(v, rest)
    BY <1>5, <1>7, <2>1, <2>3, <2>4 DEF CellRead
  <2>. QED
    BY <1>1, <1>3, <2>5 DEF TakesCell
<1>8. CASE v = Empty /\ i # 1
  <2>1. s = <<>>
    BY <1>3, <1>4, <1>8, CellTextIs
  <2>2. t = rest
    BY <1>4, <2>1, JoinText
  <2>3. CellRead(SkipSpace(t)) = Got(v, rest)
    BY <1>1, <1>8, <2>2 DEF CellRead
  <2>. QED
    BY <1>1, <1>3, <2>3 DEF TakesCell
<1>. QED
  BY <1>6, <1>7, <1>8

(* What is left behind a cell: a comma and the next, or the end of the row. *)
LEMMA CellsGoOn ==
  ASSUME NEW g, Carried(g), NEW tail, NoLine(tail), NEW n \in Nat, n = Len(g.cols), NEW m \in Nat, m = Len(g.rows),
         NEW r \in 0..m - 1
  PROVE  /\ RowsLeft(g, tail, r) = CellText(g, r + 1, 1) \o CellsLeft(g, tail, r + 1, 1)
         /\ n # 0
         /\ \A i \in 1..n : CellsLeft(g, tail, r + 1, i) \in Text /\ Follows(CellsLeft(g, tail, r + 1, i))
         /\ \A i \in 1..n - 1 : CellsLeft(g, tail, r + 1, i)
                                  = Pre(",", CellText(g, r + 1, i + 1) \o CellsLeft(g, tail, r + 1, i + 1))
         /\ \A i \in 1..n - 1 : CellText(g, r + 1, i + 1) \o CellsLeft(g, tail, r + 1, i + 1) \in Text
         /\ CellsLeft(g, tail, r + 1, n) = Pre("\n", RowsLeft(g, tail, r + 1)) /\ RowsLeft(g, tail, r + 1) \in Text
<1>1. PICK q : q = r + 1 /\ q \in 1..m /\ q \in DOMAIN g.rows /\ DOMAIN g.cols = 1..n
  BY CarriedFacts
<1>2. n # 0
  <2>1. g.cols # <<>>
    <3>1. g.rows # <<>>
      BY <1>1
    <3>. QED
      BY <3>1, CarriedFacts
  <2>2. PICK S : g.cols \in Seq(S)
    BY DEF Carried, IsGrid, HasCols
  <2>3. \A s \in Seq(S) : Len(s) = 0 => s = <<>>
    OBVIOUS
  <2>. QED
    BY <2>1, <2>2, <2>3
<1>3. PICK u \in Text : u = RowsLeft(g, tail, q)
  <2>1. q \in 0..m
    BY <1>1
  <2>. QED
    BY <2>1, RowsLeftFacts
<1>4. "\n" \in Symbol /\ "," \in Symbol
  BY SymbolsAre DEF Signs
<1>5. PICK e \in Text : e = Pre("\n", u) /\ Cur(e) = "\n"
  BY <1>3, <1>4, PreText
<1>6. PICK ss \in Seq(Text) : ss = CellTexts(g, q) /\ Len(ss) = n
  BY <1>1, CellTextsAre
<1>7. \A i \in 1..n : ss[i] \in Text /\ ss[i] = CellText(g, q, i)
  BY <1>1, <1>6, CellTextsAre
<1>8. \A i : CellsLeft(g, tail, q, i) = CommasLeft(ss, i, e)
  BY <1>3, <1>5, <1>6 DEF CellsLeft
<1>9. /\ CommasLeft(ss, n, e) = e
      /\ \A i \in 0..n : CommasLeft(ss, i, e) \in Text
      /\ CommasLeft(ss, 0, e) = ss[1] \o CommasLeft(ss, 1, e)
      /\ \A i \in 1..n - 1 : CommasLeft(ss, i, e) = Pre(",", ss[i + 1] \o CommasLeft(ss, i + 1, e))
  BY <1>2, <1>6, CommasLeftFacts
<1>10. RowsLeft(g, tail, r) = CellText(g, q, 1) \o CellsLeft(g, tail, q, 1)
  <2>1. RowsLeft(g, tail, r) = CellsLeft(g, tail, q, 0)
    BY <1>1, RowsLeftFacts
  <2>2. 1 \in 1..n
    BY <1>2
  <2>. QED
    BY <1>7, <1>8, <1>9, <2>1, <2>2
<1>11. ASSUME NEW i \in 1..n - 1
       PROVE  /\ CellsLeft(g, tail, q, i) = Pre(",", CellText(g, q, i + 1) \o CellsLeft(g, tail, q, i + 1))
              /\ CellText(g, q, i + 1) \o CellsLeft(g, tail, q, i + 1) \in Text
  <2>1. i + 1 \in 1..n /\ i + 1 \in 0..n
    OBVIOUS
  <2>2. PICK a \in Text : a = ss[i + 1] /\ a = CellText(g, q, i + 1)
    BY <1>7, <2>1
  <2>3. PICK b \in Text : b = CommasLeft(ss, i + 1, e) /\ b = CellsLeft(g, tail, q, i + 1)
    BY <1>8, <1>9, <2>1
  <2>4. CommasLeft(ss, i, e) = Pre(",", a \o b)
    BY <1>9, <2>2, <2>3
  <2>5. a \o b \in Text
    BY JoinText
  <2>. QED
    BY <1>8, <2>2, <2>3, <2>4, <2>5
<1>12. ASSUME NEW i \in 1..n PROVE CellsLeft(g, tail, q, i) \in Text /\ Follows(CellsLeft(g, tail, q, i))
  <2>1. i \in 0..n
    OBVIOUS
  <2>2. CellsLeft(g, tail, q, i) \in Text
    BY <1>8, <1>9, <2>1
  <2>3. CASE i = n
    BY <1>5, <1>8, <1>9, <2>2, <2>3 DEF Follows
  <2>4. CASE i # n
    <3>1. i \in 1..n - 1
      BY <2>4
    <3>2. PICK x \in Text : x = CellText(g, q, i + 1) \o CellsLeft(g, tail, q, i + 1) /\ CellsLeft(g, tail, q, i) = Pre(",", x)
      BY <1>11, <3>1
    <3>3. Cur(Pre(",", x)) = ","
      BY <1>4, PreText
    <3>. QED
      BY <2>2, <3>2, <3>3 DEF Follows
  <2>. QED
    BY <2>2, <2>3, <2>4
<1>13. CellsLeft(g, tail, q, n) = Pre("\n", RowsLeft(g, tail, q)) /\ RowsLeft(g, tail, q) \in Text
  BY <1>3, <1>5, <1>8, <1>9
<1>. QED
  BY <1>1, <1>2, <1>10, <1>11, <1>12, <1>13

(* All of it for one row. *)
CellsFit(g, tail, r) ==
  LET n == Len(g.cols)
  IN  /\ RowsLeft(g, tail, r) = CellText(g, r + 1, 1) \o CellsLeft(g, tail, r + 1, 1)
      /\ n # 0
      /\ \A i \in 1..n : CellsLeft(g, tail, r + 1, i) \in Text /\ Follows(CellsLeft(g, tail, r + 1, i))
      /\ \A i \in 1..n - 1 : CellsLeft(g, tail, r + 1, i)
                               = Pre(",", CellText(g, r + 1, i + 1) \o CellsLeft(g, tail, r + 1, i + 1))
      /\ \A i \in 1..n - 1 : CellText(g, r + 1, i + 1) \o CellsLeft(g, tail, r + 1, i + 1) \in Text
      /\ CellsLeft(g, tail, r + 1, n) = Pre("\n", RowsLeft(g, tail, r + 1)) /\ RowsLeft(g, tail, r + 1) \in Text

(* So it does, row for row. *)
LEMMA CellsFitIn ==
  ASSUME NEW g, Carried(g), NEW tail, NoLine(tail), NEW r \in 0..Len(g.rows) - 1
  PROVE  CellsFit(g, tail, r)
<1>1. PICK n \in Nat, m \in Nat : n = Len(g.cols) /\ m = Len(g.rows)
  BY CarriedFacts
<1>2. r \in 0..m - 1
  BY <1>1
<1>. QED
  BY <1>1, <1>2, CellsGoOn DEF CellsFit

(* add_row, by the parts of the grid. *)
LEMMA RowAppended ==
  ASSUME NEW m, NEW c, NEW r, NEW h, h = GridOf(m, c, r), NEW row
  PROVE  WithRow(h, row) = GridOf(m, c, Append(r, row))
<1>1. PICK s : s = Append(r, row)
  OBVIOUS
<1>2. h = [meta |-> m, cols |-> c, rows |-> r] /\ h.rows = r
  BY DEF GridOf
<1>3. WithRow(h, row) = [h EXCEPT !.rows = s]
  BY <1>1, <1>2 DEF WithRow
<1>4. [h EXCEPT !.rows = s] = [meta |-> m, cols |-> c, rows |-> s]
  BY <1>2
<1>. QED
  BY <1>1, <1>3, <1>4 DEF GridOf

(* The turn of read_row that takes the cell i + 1 of the row r + 1. *)
LEMMA CellTurn ==
  ASSUME NEW g, Carried(g), NEW tail, NoLine(tail), NEW n \in Nat, n = Len(g.cols), NEW m \in Nat, m = Len(g.rows),
         NEW r \in 0..m - 1, NEW i \in 0..n - 1, cells = FirstCells(g, r + 1, i),
         got = GridOf(g.meta, g.cols, FirstRows(g, r)),
         text = CellText(g, r + 1, i + 1) \o CellsLeft(g, tail, r + 1, i + 1), ReadCell
  PROVE  Reading(g, tail)'
<1>1. PICK q : q = r + 1 /\ q \in DOMAIN g.rows /\ q \in 1..m
  BY CarriedFacts
<1>2. PICK j : j = i + 1 /\ j \in DOMAIN g.cols /\ j \in 1..n
  BY CarriedFacts
<1>0. CellsFit(g, tail, r)
  BY CellsFitIn
<1>3. PICK rest \in Text : rest = CellsLeft(g, tail, q, j) /\ Follows(rest)
  BY <1>0, <1>1, <1>2 DEF CellsFit
<1>4. PICK v : v = Cell(g, q, j)
  OBVIOUS
<1>5. PICK w : CellRead(SkipSpace(text)) = Got(v, w) /\ SkipSpace(w) = rest
  <2>1. TakesCell(Cell(g, q, j), rest, text)
    BY <1>1, <1>2, <1>3, CellIsTaken
  <2>. QED
    BY <1>4, <2>1 DEF TakesCell
<1>6. PICK row : row = Append(cells, v) /\ row = FirstCells(g, q, j) /\ Len(row) = j
  <2>1. i \in Nat
    OBVIOUS
  <2>. QED
    BY <1>1, <1>2, <1>4, <2>1, FirstCellsFacts
<1>7. PICK val : val = CellRead(SkipSpace(text)) /\ val.out = "ok" /\ val.val = v /\ val.rest = w
  BY <1>5 DEF Got
<1>8. got.cols = g.cols /\ Len(got.cols) = n
  BY DEF GridOf
<1>9. \/ /\ j = n /\ EndsRow(rest)
         /\ phase' = "rows" /\ text' = Drop(rest, 1) /\ got' = WithRow(got, row) /\ cells' = <<>>
      \/ j = n /\ ~EndsRow(rest)
      \/ /\ j # n /\ Cur(rest) = ","
         /\ phase' = "cells" /\ text' = Drop(rest, 1) /\ got' = got /\ cells' = row
      \/ j # n /\ Cur(rest) # ","
  BY <1>5, <1>6, <1>7, <1>8 DEF ReadCell, CellRead
<1>11. CASE j = n
  <2>1. PICK u \in Text : u = RowsLeft(g, tail, q) /\ rest = Pre("\n", u)
    <3>1. CellsLeft(g, tail, r + 1, n) = Pre("\n", RowsLeft(g, tail, r + 1)) /\ RowsLeft(g, tail, r + 1) \in Text
      BY <1>0 DEF CellsFit
    <3>. QED
      BY <1>1, <1>2, <1>3, <1>11, <3>1
  <2>2. "\n" \in Symbol
    BY SymbolsAre DEF Signs
  <2>3. EndsRow(rest) /\ Drop(rest, 1) = u
    BY <2>1, <2>2, PreText DEF EndsRow
  <2>4. phase' = "rows" /\ text' = u /\ got' = WithRow(got, row) /\ cells' = <<>>
    BY <1>9, <1>11, <2>3
  <2>5. got' = GridOf(g.meta, g.cols, FirstRows(g, q))
    <3>1. Append(FirstRows(g, r), row) = FirstRows(g, q)
      <4>1. r \in Nat
        OBVIOUS
      <4>2. row = FirstCells(g, r + 1, Len(g.cols))
        BY <1>1, <1>6, <1>11
      <4>. QED
        BY <1>1, <4>1, <4>2, FirstRowsFacts
    <3>2. PICK a, b, c : a = g.meta /\ b = g.cols /\ c = FirstRows(g, r)
      OBVIOUS
    <3>3. WithRow(got, row) = GridOf(a, b, Append(c, row))
      BY <3>2, RowAppended
    <3>. QED
      BY <2>4, <3>1, <3>2, <3>3
  <2>6. AtRow(g, tail, q, text', got')
    BY <2>1, <2>4, <2>5 DEF AtRow
  <2>7. q \in 0..Len(g.rows) /\ g.cols # <<>>
    <3>1. n # 0
      BY <1>0 DEF CellsFit
    <3>. QED
      BY <1>1, <3>1
  <2>8. Reached(g, tail, phase', text', got', cells')
    BY <2>4, <2>6, <2>7 DEF Reached
  <2>. QED
    BY <2>8 DEF Reading
<1>12. CASE j # n
  <2>1. j \in 1..n - 1
    BY <1>2, <1>12
  <2>2. PICK u \in Text : u = CellText(g, q, j + 1) \o CellsLeft(g, tail, q, j + 1) /\ rest = Pre(",", u)
    <3>1. /\ CellsLeft(g, tail, r + 1, j) = Pre(",", CellText(g, r + 1, j + 1) \o CellsLeft(g, tail, r + 1, j + 1))
          /\ CellText(g, r + 1, j + 1) \o CellsLeft(g, tail, r + 1, j + 1) \in Text
      BY <1>0, <2>1 DEF CellsFit
    <3>. QED
      BY <1>1, <1>3, <3>1
  <2>3. "," \in Symbol
    BY SymbolsAre DEF Signs
  <2>4. Cur(rest) = "," /\ Drop(rest, 1) = u
    BY <2>2, <2>3, PreText
  <2>5. phase' = "cells" /\ text' = u /\ got' = got /\ cells' = row
    BY <1>9, <1>12, <2>4
  <2>6. AtCell(g, tail, r, j, text', got', cells')
    BY <1>1, <1>6, <2>2, <2>5 DEF AtCell
  <2>7. r \in 0..Len(g.rows) - 1 /\ j \in 1..Len(g.cols) - 1
    BY <2>1
  <2>8. Reached(g, tail, phase', text', got', cells')
    BY <2>5, <2>6, <2>7 DEF Reached
  <2>. QED
    BY <2>8 DEF Reading
<1>. QED
  BY <1>11, <1>12

(* read_row, in its first cell and in the others. *)
LEMMA CellIsRead ==
  ASSUME NEW g, Carried(g), NEW tail, NoLine(tail), Reading(g, tail), ReadCell, ~AtTail(tail)
  PROVE  Reading(g, tail)'
<1>1. PICK n \in Nat, m \in Nat : n = Len(g.cols) /\ m = Len(g.rows)
  BY CarriedFacts
<1>2. CASE phase = "cells"
  <2>1. \E r \in 0..Len(g.rows) - 1 : \E i \in 1..Len(g.cols) - 1 : AtCell(g, tail, r, i, text, got, cells)
    BY <1>2 DEF Reading, Reached
  <2>2. PICK r \in 0..m - 1 : \E i \in 1..n - 1 : AtCell(g, tail, r, i, text, got, cells)
    BY <1>1, <2>1
  <2>3. PICK i \in 1..n - 1 : AtCell(g, tail, r, i, text, got, cells)
    BY <2>2
  <2>4. i \in 0..n - 1
    OBVIOUS
  <2>. QED
    BY <1>1, <2>3, <2>4, CellTurn DEF AtCell
<1>3. CASE phase = "rows" /\ Cur(text) \notin {"\n", "eof"}
  <2>1. cells = <<>> /\ g.cols # <<>> /\ \E r \in 0..Len(g.rows) : AtRow(g, tail, r, text, got)
    BY <1>3 DEF Reading, Reached
  <2>2. PICK r \in 0..m : AtRow(g, tail, r, text, got)
    BY <1>1, <2>1
  <2>3. got = GridOf(g.meta, g.cols, FirstRows(g, r)) /\ text = RowsLeft(g, tail, r)
    BY <2>2 DEF AtRow
  <2>4. r # m
    <3>1. SUFFICES ASSUME r = m PROVE FALSE
      OBVIOUS
    <3>2. text = tail
      BY <1>1, <2>3, <3>1, RowsLeftFacts
    <3>. QED
      BY <1>3, <3>2 DEF Cur, AtTail
  <2>5. r \in 0..m - 1
    BY <2>4
  <2>6. n # 0 /\ text = CellText(g, r + 1, 1) \o CellsLeft(g, tail, r + 1, 1)
    <3>1. n # 0 /\ RowsLeft(g, tail, r) = CellText(g, r + 1, 1) \o CellsLeft(g, tail, r + 1, 1)
      <4>1. CellsFit(g, tail, r)
        BY <1>1, <2>5, CellsFitIn
      <4>. QED
        BY <1>1, <4>1 DEF CellsFit
    <3>. QED
      BY <2>3, <3>1
  <2>7. PICK i \in 0..n - 1 : i = 0 /\ i + 1 = 1
    BY <2>6
  <2>8. cells = FirstCells(g, r + 1, i)
    BY <2>1, <2>7, FirstCellsFacts
  <2>. QED
    BY <1>1, <2>3, <2>5, <2>6, <2>7, <2>8, CellTurn
<1>. QED
  BY <1>2, <1>3 DEF ReadCell

(* The rows end where the text does. *)
LEMMA EndIsRead ==
  ASSUME NEW g, Carried(g), NEW tail, NoLine(tail), Reading(g, tail), ReadEnd
  PROVE  Reading(g, tail)'
<1>1. phase = "rows" /\ Cur(text) \in {"\n", "eof"} /\ Go("read", text, got)
  BY DEF ReadEnd
<1>2. cells = <<>> /\ g.cols # <<>> /\ \E r \in 0..Len(g.rows) : AtRow(g, tail, r, text, got)
  BY <1>1 DEF Reading, Reached
<1>3. PICK n \in Nat, m \in Nat : n = Len(g.cols) /\ m = Len(g.rows)
  BY CarriedFacts
<1>4. PICK r \in 0..m : AtRow(g, tail, r, text, got)
  BY <1>2, <1>3
<1>5. got = GridOf(g.meta, g.cols, FirstRows(g, r)) /\ text = RowsLeft(g, tail, r)
  BY <1>4 DEF AtRow
<1>6. r = m
  <2>1. SUFFICES ASSUME r # m PROVE FALSE
    OBVIOUS
  <2>2. r \in 0..m - 1
    BY <2>1
  <2>3. PICK q : q = r + 1 /\ q \in DOMAIN g.rows
    BY <1>3, <2>2, CarriedFacts
  <2>4. n # 0 /\ text = CellText(g, q, 1) \o CellsLeft(g, tail, q, 1)
    <3>1. n # 0 /\ RowsLeft(g, tail, r) = CellText(g, r + 1, 1) \o CellsLeft(g, tail, r + 1, 1)
      <4>1. CellsFit(g, tail, r)
        BY <1>3, <2>2, CellsFitIn
      <4>. QED
        BY <1>3, <4>1 DEF CellsFit
    <3>. QED
      BY <1>5, <2>3, <3>1
  <2>5. 1 \in 1..n /\ 1 \in DOMAIN g.cols
    BY <1>3, <2>4, CarriedFacts
  <2>6. CellsLeft(g, tail, q, 1) \in Text
    BY <1>3, <2>2, <2>3, <2>5, CellsGoOn
  <2>7. Opens(CellText(g, q, 1))
    BY <2>3, <2>5, CellTextIs
  <2>8. PICK a, b : a = CellText(g, q, 1) /\ b = CellsLeft(g, tail, q, 1)
    OBVIOUS
  <2>9. Opens(a \o b)
    BY <2>6, <2>7, <2>8, OpensJoin
  <2>. QED
    BY <1>1, <2>4, <2>8, <2>9 DEF Opens
<1>7. View(got) = View(g)
  BY <1>3, <1>5, <1>6, WholeGridRead
<1>8. Reached(g, tail, "read", text, got, cells)
  BY <1>7 DEF Reached
<1>. QED
  BY <1>1, <1>8, GoReaches

-----------------------------------------------------------------------------
(* A text that ends too early.                                               *)

(* A text of at most one line and its end. *)
OneLine(t) ==
  /\ t \in Text
  /\ \A i \in 1..Len(t) : t[i] # "eof"
  /\ \A i, j \in 1..Len(t) : t[i] = "\n" /\ t[j] = "\n" => i = j

(* Its symbols. *)
LEMMA NoLineFacts ==
  ASSUME NEW t
  PROVE  NoLine(t) <=> t \in Text /\ \A i \in 1..Len(t) : t[i] # "\n" /\ t[i] # "eof"
<1>1. ASSUME NoLine(t) PROVE t \in Text /\ \A i \in 1..Len(t) : t[i] # "\n" /\ t[i] # "eof"
  <2>1. \A i \in 1..Len(t) : t[i] \in Plain
    BY <1>1 DEF NoLine
  <2>2. t \in Text
    BY <1>1, NoLineText
  <2>. QED
    BY <2>1, <2>2 DEF Plain
<1>2. ASSUME t \in Text, \A i \in 1..Len(t) : t[i] # "\n" /\ t[i] # "eof" PROVE NoLine(t)
  <2>1. PICK n \in Nat : n = Len(t) /\ DOMAIN t = 1..n
    BY <1>2, TextTypes
  <2>2. \A i \in 1..n : t[i] \in Plain
    BY <1>2, <2>1, TextTypes DEF Plain
  <2>3. t = [i \in 1..n |-> t[i]]
    BY <1>2, <2>1 DEF Text
  <2>4. t \in [1..n -> Plain]
    BY <2>2, <2>3
  <2>. QED
    BY <2>4 DEF NoLine
<1>. QED
  BY <1>1, <1>2

(* What is left of a text holds the symbols of its end. *)
LEMMA EndHolds ==
  ASSUME NEW u, NEW t, EndOf(u, t)
  PROVE  /\ u \in Text /\ t \in Text
         /\ \E n \in Nat : \A i \in 1..Len(u) : i + n \in 1..Len(t) /\ u[i] = t[i + n]
<1>1. t \in Text
  BY DEF EndOf
<1>2. PICK n \in Nat : u = Drop(t, n)
  BY DEF EndOf
<1>3. u \in Text
  BY <1>1, <1>2, TextTypes
<1>4. PICK m \in Nat : m = Len(t)
  BY <1>1, TextTypes
<1>5. CASE n <= m
  <2>1. Len(u) = m - n /\ \A i \in 1..m - n : u[i] = t[i + n]
    BY <1>1, <1>2, <1>4, <1>5, DropFacts DEF Text
  <2>2. \A i \in 1..Len(u) : i + n \in 1..Len(t) /\ u[i] = t[i + n]
    BY <1>4, <1>5, <2>1
  <2>. QED
    BY <1>1, <1>3, <2>2
<1>6. CASE n >= m
  <2>1. u = <<>>
    BY <1>1, <1>2, <1>4, <1>6, DropFacts DEF Text
  <2>2. 1..Len(u) = {}
    BY <2>1
  <2>. QED
    BY <1>1, <1>3, <2>2
<1>. QED
  BY <1>5, <1>6

(* It has no more lines than the text. *)
LEMMA EndLines ==
  ASSUME NEW u, NEW t, EndOf(u, t)
  PROVE  /\ NoLine(t) => NoLine(u)
         /\ OneLine(t) => OneLine(u)
<1>1. PICK n \in Nat : \A i \in 1..Len(u) : i + n \in 1..Len(t) /\ u[i] = t[i + n]
  BY EndHolds
<1>2. u \in Text
  BY EndHolds
<1>3. NoLine(t) => NoLine(u)
  BY <1>1, <1>2, NoLineFacts
<1>4. ASSUME OneLine(t) PROVE OneLine(u)
  <2>1. \A i \in 1..Len(u) : u[i] # "eof"
    BY <1>1, <1>4 DEF OneLine
  <2>2. ASSUME NEW i \in 1..Len(u), NEW j \in 1..Len(u), u[i] = "\n", u[j] = "\n" PROVE i = j
    <3>1. i + n = j + n
      BY <1>1, <1>4, <2>2 DEF OneLine
    <3>2. i \in Int /\ j \in Int
      OBVIOUS
    <3>. QED
      BY <3>1, <3>2
  <2>. QED
    BY <1>2, <2>1, <2>2 DEF OneLine
<1>. QED
  BY <1>3, <1>4

(* What the reader sees of it. *)
LEMMA LinesSeen ==
  ASSUME NEW t
  PROVE  /\ NoLine(t) => t \in Text /\ OneLine(t) /\ Cur(t) # "\n" /\ (t # <<>> => Cur(t) # "eof")
         /\ OneLine(t) => t \in Text
         /\ OneLine(t) /\ Cur(t) = "\n" => Peek(t) # "\n" /\ NoLine(Drop(t, 1))
<1>1. ASSUME NoLine(t)
      PROVE  t \in Text /\ OneLine(t) /\ Cur(t) # "\n" /\ (t # <<>> => Cur(t) # "eof")
  <2>1. t \in Text /\ \A i \in 1..Len(t) : t[i] # "\n" /\ t[i] # "eof"
    BY <1>1, NoLineFacts
  <2>2. t # <<>> => 1 \in 1..Len(t)
    BY <2>1, TextTypes
  <2>. QED
    BY <2>1, <2>2 DEF Cur, OneLine
<1>2. ASSUME OneLine(t), Cur(t) = "\n" PROVE Peek(t) # "\n" /\ NoLine(Drop(t, 1))
  <2>1. t \in Text /\ t # <<>> /\ t[1] = "\n"
    BY <1>2 DEF OneLine, Cur
  <2>2. PICK n \in Nat : n = Len(t) /\ n # 0
    BY <2>1, TextTypes
  <2>3. \A i \in 1..n : i # 1 => t[i] # "\n" /\ t[i] # "eof"
    BY <1>2, <2>1, <2>2 DEF OneLine
  <2>4. Peek(t) # "\n"
    BY <2>2, <2>3 DEF Peek
  <2>5. Len(Drop(t, 1)) = n - 1 /\ \A i \in 1..n - 1 : Drop(t, 1)[i] = t[i + 1]
    <3>1. 1 \in Nat /\ 1 <= Len(t)
      BY <2>2
    <3>. QED
      BY <2>1, <2>2, <3>1, DropFacts DEF Text
  <2>6. Drop(t, 1) \in Text
    BY <2>1, TextTypes
  <2>7. \A i \in 1..n - 1 : t[i + 1] # "\n" /\ t[i + 1] # "eof"
    BY <2>2, <2>3
  <2>. QED
    BY <2>4, <2>5, <2>6, <2>7, NoLineFacts
<1>. QED
  BY <1>1, <1>2 DEF OneLine

(* A name is as long as a number says. *)
LEMMA NameLength ==
  ASSUME NEW t \in Text
  PROVE  Len(Name(t)) \in Nat
<1>1. PICK n \in Nat : n = Len(t)
  BY TextTypes
<1>2. Run(t, Id) \in 0..n
  BY <1>1, RunFacts DEF Text
<1>3. Len(SubSeq(t, 1, Run(t, Id))) \in Nat
  BY <1>1, <1>2 DEF Text
<1>. QED
  BY <1>3 DEF Name

(* The reader is in the middle of a text that misses its last line, or has   *)
(* all of the columns and a part of a row before it.                         *)
Torn ==
  \/ phase \in {"header", "meta"} /\ OneLine(text)
  \/ phase \in {"cols", "colmeta", "cells"} /\ NoLine(text)
  \/ phase = "rows" /\ text # <<>> /\ NoLine(text)

(* Whatever it reads, it reads the end of that text. *)
LEMMA EndsRead ==
  ASSUME NEW t \in Text
  PROVE  /\ \A u : EndOf(u, t) => EndOf(SkipSpace(u), t) /\ EndOf(ReadVal(u, FALSE).rest, t)
         /\ \A u : EndOf(u, t) => EndOf(SkipSpace(ReadVal(u, FALSE).rest), t)
         /\ \A u : EndOf(u, t) => u \in Text
         /\ \A n \in Nat : EndOf(Drop(t, n), t) /\ EndOf(SkipSpace(Drop(t, n)), t)
         /\ \A u : \A n \in Nat : EndOf(u, t) => EndOf(Drop(u, n), t)
<1>1. \A u : EndOf(u, t) => u \in Text /\ EndOf(SkipSpace(u), t) /\ \A n \in Nat : EndOf(Drop(u, n), t)
  BY EndOfFacts, SkipEndOf
<1>2. ASSUME NEW u, EndOf(u, t) PROVE EndOf(ReadVal(u, FALSE).rest, t)
  <2>1. u \in Text
    BY <1>1, <1>2
  <2>2. EndOf(ReadVal(u, FALSE).rest, u)
    BY <2>1, ReadLeaves DEF Leaves
  <2>. QED
    BY <1>2, <2>2, EndOfTwice
<1>3. \A n \in Nat : EndOf(Drop(t, n), t)
  BY DEF EndOf
<1>. QED
  BY <1>1, <1>2, <1>3

(* Stopped, or on with what is left. *)
Stopped == phase' \in {"raised", "crashed"}

(* A reader that stops has stopped. *)
LEMMA StopStops ==
  ASSUME NEW how, Stop(how)
  PROVE  Stopped
BY DEF Stop, Stopped

(* The version, of a text that misses its end. *)
LEMMA HeaderTears ==
  ASSUME Torn, ReadVer
  PROVE  Torn' \/ Stopped
<1>1. OneLine(text) /\ phase = "header"
  BY DEF Torn, ReadVer
<1>2. PICK t \in Text : t = text
  BY <1>1, LinesSeen
<1>3. Len(Version) \in Nat
  BY DEF Version
<1>4. PICK u : u = SkipSpace(Drop(text, Len(Version))) /\ EndOf(u, t)
  BY <1>2, <1>3, EndsRead
<1>5. OneLine(u)
  BY <1>1, <1>2, <1>4, EndLines
<1>6. Go("meta", u, got) \/ Stop("raise")
  BY <1>4 DEF ReadVer
<1>7. ASSUME Go("meta", u, got) PROVE Torn'
  BY <1>5, <1>7 DEF Go, Torn
<1>. QED
  BY <1>6, <1>7, StopStops

(* A tag of the grid or of a column. *)
LEMMA TagTears ==
  ASSUME Torn, ReadTag
  PROVE  Torn' \/ Stopped
<1>1. phase \in {"meta", "colmeta"}
  BY DEF ReadTag
<1>2. text \in Text
  BY LinesSeen DEF Torn
<1>3. PICK t \in Text : t = text
  BY <1>2
<1>4. PICK name : name = Name(text) /\ Len(name) \in Nat
  BY <1>2, NameLength
<1>5. PICK rest : rest = SkipSpace(Drop(text, Len(name))) /\ EndOf(rest, t)
  BY <1>3, <1>4, EndsRead
<1>6. PICK val : val = ReadVal(SkipSpace(Drop(rest, 1)), FALSE) /\ EndOf(SkipSpace(val.rest), t)
  <2>1. 1 \in Nat
    OBVIOUS
  <2>. QED
    BY <1>5, <2>1, EndsRead
<1>7. ASSUME NEW u, NEW h, EndOf(u, t), Go(phase, u, h) PROVE Torn'
  <2>1. /\ phase = "meta" => OneLine(u)
        /\ phase = "colmeta" => NoLine(u)
    BY <1>3, <1>7, EndLines DEF Torn
  <2>. QED
    BY <1>1, <1>7, <2>1 DEF Go, Torn
<1>8. \/ Go(phase, rest, WithTag(name, Marker))
      \/ \E how : Stop(how)
      \/ Go(phase, SkipSpace(val.rest), WithTag(name, val.val))
  BY <1>4, <1>5, <1>6 DEF ReadTag
<1>. QED
  BY <1>5, <1>6, <1>7, <1>8, StopStops

(* The end of the first line: no column has come whole behind it. *)
LEMMA MetaEndTears ==
  ASSUME Torn, ReadMetaEnd
  PROVE  Torn' \/ Stopped
<1>1. phase = "meta" /\ OneLine(text)
  BY DEF Torn, ReadMetaEnd
<1>2. CASE Cur(text) = "\n"
  <2>1. Peek(text) # "\n" /\ NoLine(Drop(text, 1))
    BY <1>1, <1>2, LinesSeen
  <2>2. Go("cols", Drop(text, 1), got)
    BY <1>2, <2>1 DEF ReadMetaEnd
  <2>. QED
    BY <2>1, <2>2 DEF Go, Torn
<1>3. CASE Cur(text) # "\n"
  BY <1>3, StopStops DEF ReadMetaEnd
<1>. QED
  BY <1>2, <1>3

(* A column. *)
LEMMA ColTears ==
  ASSUME Torn, ReadCol
  PROVE  Torn' \/ Stopped
<1>1. phase = "cols" /\ NoLine(text)
  BY DEF Torn, ReadCol
<1>2. PICK t \in Text : t = text
  BY <1>1, LinesSeen
<1>3. PICK name : name = Name(text) /\ Len(name) \in Nat
  BY <1>2, NameLength
<1>4. PICK u : u = SkipSpace(Drop(text, Len(name))) /\ EndOf(u, t)
  BY <1>2, <1>3, EndsRead
<1>5. NoLine(u)
  BY <1>1, <1>2, <1>4, EndLines
<1>6. Go("colmeta", u, WithCol(got, name)) \/ Stop("raise")
  BY <1>3, <1>4 DEF ReadCol
<1>7. ASSUME Go("colmeta", u, WithCol(got, name)) PROVE Torn'
  BY <1>5, <1>7 DEF Go, Torn
<1>. QED
  BY <1>6, <1>7, StopStops

(* A comma behind a column: the end of the line never comes. *)
LEMMA ColEndTears ==
  ASSUME Torn, ReadColEnd
  PROVE  Torn' \/ Stopped
<1>1. phase = "colmeta" /\ NoLine(text)
  BY DEF Torn, ReadColEnd
<1>2. PICK t \in Text : t = text
  BY <1>1, LinesSeen
<1>3. 1 \in Nat
  OBVIOUS
<1>4. PICK u : u = SkipSpace(Drop(text, 1)) /\ EndOf(u, t)
  BY <1>2, <1>3, EndsRead
<1>5. NoLine(u)
  BY <1>1, <1>2, <1>4, EndLines
<1>6. Cur(text) # "\n"
  BY <1>1, LinesSeen
<1>7. Go("cols", u, got) \/ Stop("raise")
  BY <1>4, <1>6 DEF ReadColEnd
<1>8. ASSUME Go("cols", u, got) PROVE Torn'
  BY <1>5, <1>8 DEF Go, Torn
<1>. QED
  BY <1>7, <1>8, StopStops

(* A cell: the last of the row has no end of the line behind it. *)
LEMMA CellTears ==
  ASSUME Torn, ReadCell
  PROVE  Torn' \/ Stopped
<1>1. NoLine(text)
  BY DEF Torn, ReadCell
<1>2. PICK t \in Text : t = text
  BY <1>1, LinesSeen
<1>3. PICK here : here = SkipSpace(text) /\ EndOf(here, t)
  BY <1>2, EndOfFacts, EndsRead
<1>4. PICK val : val = CellRead(here) /\ EndOf(SkipSpace(val.rest), t)
  <2>1. CASE Cur(here) \in {",", "\n"}
    <3>1. CellRead(here) = Got(Empty, here) /\ Got(Empty, here).rest = here
      BY <2>1 DEF CellRead, Got
    <3>. QED
      BY <1>2, <1>3, <3>1, EndsRead
  <2>2. CASE Cur(here) \notin {",", "\n"}
    <3>1. CellRead(here) = ReadVal(here, FALSE)
      BY <2>2 DEF CellRead
    <3>. QED
      BY <1>2, <1>3, <3>1, EndsRead
  <2>. QED
    BY <2>1, <2>2
<1>5. PICK rest : rest = SkipSpace(val.rest) /\ NoLine(rest) /\ NoLine(Drop(rest, 1))
  <2>1. 1 \in Nat
    OBVIOUS
  <2>. QED
    BY <1>1, <1>2, <1>4, <2>1, EndsRead, EndLines
<1>6. ~EndsRow(rest)
  BY <1>5, LinesSeen DEF EndsRow
<1>7. (\E how : Stop(how)) \/ (phase' = "cells" /\ text' = Drop(rest, 1))
  BY <1>3, <1>4, <1>5, <1>6 DEF ReadCell, CellRead
<1>. QED
  BY <1>5, <1>7, StopStops DEF Torn

(* There is a symbol left, so the rows do not end. *)
LEMMA EndTears ==
  ASSUME Torn, ReadEnd
  PROVE  FALSE
BY LinesSeen DEF Torn, ReadEnd

(* From there it never gets to the end. *)
LEMMA TornStays ==
  ASSUME Torn, ReadVer \/ ReadTag \/ ReadMetaEnd \/ ReadCol \/ ReadColEnd \/ ReadCell \/ ReadEnd
  PROVE  Torn' \/ Stopped
BY HeaderTears, TagTears, MetaEndTears, ColTears, ColEndTears, CellTears, EndTears

-----------------------------------------------------------------------------
(* The first symbols of two texts in a row.                                  *)
LEMMA HeadCut ==
  ASSUME NEW s \in Text, NEW t \in Text, NEW m \in Nat
  PROVE  /\ m <= Len(s) => SubSeq(s \o t, 1, m) = SubSeq(s, 1, m)
         /\ m >= Len(s) /\ m <= Len(s) + Len(t) =>
              SubSeq(s \o t, 1, m) = s \o SubSeq(t, 1, m - Len(s))
         /\ SubSeq(s, 1, Len(s)) = s
         /\ m <= Len(s) => SubSeq(s, 1, m) \in Text
<1>1. PICK a \in Nat, b \in Nat : a = Len(s) /\ b = Len(t) /\ DOMAIN s = 1..a /\ DOMAIN t = 1..b
  BY TextTypes
<1>2. PICK u \in Text : /\ u = s \o t /\ Len(u) = a + b
                        /\ \A i \in 1..a + b : u[i] = IF i <= a THEN s[i] ELSE t[i - a]
  <2>1. s \o t \in Text /\ Len(s \o t) = a + b
    BY <1>1, JoinText
  <2>2. \A i \in 1..Len(s) + Len(t) : (s \o t)[i] = IF i <= Len(s) THEN s[i] ELSE t[i - Len(s)]
    BY ConcatPlaces DEF Text
  <2>. QED
    BY <1>1, <2>1, <2>2
<1>3. ASSUME m <= a PROVE SubSeq(u, 1, m) = SubSeq(s, 1, m)
  <2>1. m <= Len(u) /\ m <= Len(s) /\ \A j \in 1..m : u[j] = s[j]
    BY <1>1, <1>2, <1>3
  <2>. QED
    BY <2>1, PrefixSame DEF Text
<1>4. ASSUME m >= a, m <= a + b PROVE SubSeq(u, 1, m) = s \o SubSeq(t, 1, m - a)
  <2>1. PICK w \in Text : w = SubSeq(t, 1, m - a) /\ Len(w) = m - a /\ \A i \in 1..m - a : w[i] = t[i]
    <3>1. PICK c \in Nat : c = m - a /\ c <= b
      BY <1>4
    <3>2. SubSeq(t, 1, c) \in Seq(Symbol) /\ Len(SubSeq(t, 1, c)) = c /\ \A i \in 1..c : SubSeq(t, 1, c)[i] = t[i]
      BY <1>1, <3>1 DEF Text
    <3>. QED
      BY <3>1, <3>2 DEF Text
  <2>2. PICK x \in Text : /\ x = s \o w /\ Len(x) = m
                          /\ \A i \in 1..m : x[i] = IF i <= a THEN s[i] ELSE w[i - a]
    <3>1. PICK c \in Nat : c = m - a /\ a + c = m
      BY <1>4
    <3>2. s \o w \in Text /\ Len(s \o w) = a + c
      BY <1>1, <2>1, <3>1, JoinText
    <3>3. \A i \in 1..Len(s) + Len(w) : (s \o w)[i] = IF i <= Len(s) THEN s[i] ELSE w[i - Len(s)]
      BY ConcatPlaces DEF Text
    <3>4. PICK x : x = s \o w
      OBVIOUS
    <3>5. x \in Text /\ Len(x) = m
      BY <3>1, <3>2, <3>4
    <3>6. \A i \in 1..m : x[i] = IF i <= a THEN s[i] ELSE w[i - a]
      BY <1>1, <2>1, <3>1, <3>3, <3>4
    <3>. QED
      BY <3>4, <3>5, <3>6
  <2>3. \A i \in 1..m : u[i] = x[i]
    <3>1. ASSUME NEW i \in 1..m PROVE u[i] = x[i]
      <4>1. CASE i <= a
        BY <1>2, <1>4, <2>2, <4>1
      <4>2. CASE ~(i <= a)
        <5>1. i - a \in 1..m - a /\ i \in 1..a + b
          BY <1>4, <4>2
        <5>. QED
          BY <1>2, <2>1, <2>2, <4>2, <5>1
      <4>. QED
        BY <4>1, <4>2
    <3>. QED
      BY <3>1
  <2>4. SubSeq(u, 1, m) = SubSeq(x, 1, m)
    <3>1. m <= Len(u) /\ m <= Len(x)
      BY <1>2, <1>4, <2>2
    <3>. QED
      BY <2>3, <3>1, PrefixSame DEF Text
  <2>5. SubSeq(x, 1, m) = x
    BY <2>2 DEF Text
  <2>. QED
    BY <2>1, <2>2, <2>4, <2>5
<1>5. SubSeq(s, 1, a) = s /\ (m <= a => SubSeq(s, 1, m) \in Text)
  BY <1>1 DEF Text
<1>. QED
  BY <1>1, <1>2, <1>3, <1>4, <1>5

(* Some of the first. *)
LEMMA HeadCutWithin ==
  ASSUME NEW s, NEW t, NEW m, s \in Text /\ t \in Text /\ m \in Nat, m <= Len(s)
  PROVE  SubSeq(s \o t, 1, m) = SubSeq(s, 1, m)
BY HeadCut

(* All of the first, and some of the second. *)
LEMMA HeadCutBehind ==
  ASSUME NEW s, NEW t, NEW m, NEW r, s \in Text /\ t \in Text /\ r \in Nat, r <= Len(t), m = Len(s) + r
  PROVE  SubSeq(s \o t, 1, m) = s \o SubSeq(t, 1, r)
<1>1. PICK a \in Nat, b \in Nat : a = Len(s) /\ b = Len(t)
  BY TextTypes
<1>2. m \in Nat /\ m >= Len(s) /\ m <= Len(s) + Len(t) /\ m - Len(s) = r
  BY <1>1
<1>3. SubSeq(s \o t, 1, m) = s \o SubSeq(t, 1, m - Len(s))
  BY <1>2, HeadCut
<1>. QED
  BY <1>2, <1>3

(* The first k texts of a row, put end to end. *)
Before(ss, k) == FlattenSeq(SubSeq(ss, 1, k))

(* They grow by a text at a time. *)
LEMMA BeforeFacts ==
  ASSUME NEW ss \in Seq(Text), NEW n \in Nat, n = Len(ss)
  PROVE  /\ Before(ss, 0) = <<>> /\ Before(ss, n) = FlattenSeq(ss)
         /\ \A k \in 0..n : Before(ss, k) \in Text
         /\ \A k \in 0..n - 1 : Before(ss, k + 1) = Before(ss, k) \o ss[k + 1]
<1>1. PICK S : S = Seq(Symbol)
  OBVIOUS
<1>2. ss \in Seq(S)
  BY <1>1 DEF Text
<1>3. \A k \in 0..n : SubSeq(ss, 1, k) \in Seq(S)
  BY <1>2
<1>4. ASSUME NEW k \in 0..n PROVE Before(ss, k) \in Text
  <2>1. PICK tt : tt = SubSeq(ss, 1, k) /\ tt \in Seq(Seq(Symbol))
    BY <1>1, <1>3
  <2>. QED
    BY <2>1, FlattenedElements DEF Before, Text
<1>5. ASSUME NEW k \in 0..n - 1 PROVE Before(ss, k + 1) = Before(ss, k) \o ss[k + 1]
  <2>1. k \in Nat /\ k + 1 <= Len(ss) /\ k \in 0..n /\ k + 1 \in 1..n
    OBVIOUS
  <2>2. PICK tt : tt = SubSeq(ss, 1, k) /\ tt \in Seq(Seq(Symbol))
    BY <1>1, <1>3, <2>1
  <2>3. PICK s : s = ss[k + 1] /\ s \in Seq(Symbol)
    BY <1>1, <1>2, <2>1
  <2>4. SubSeq(ss, 1, k + 1) = Append(tt, s)
    BY <1>2, <2>1, <2>2, <2>3, PrefixOneMore
  <2>5. FlattenSeq(Append(tt, s)) = FlattenSeq(tt) \o s
    BY <2>2, <2>3, FlattenedOneMore
  <2>. QED
    BY <2>2, <2>3, <2>4, <2>5 DEF Before
<1>6. Before(ss, 0) = <<>>
  <2>1. PICK e : e = SubSeq(ss, 1, 0) /\ e = <<>>
    <3>1. PICK e : e = SubSeq(ss, 1, 0)
      OBVIOUS
    <3>2. e \in Seq(S) /\ Len(e) = 0
      BY <1>2, <3>1
    <3>3. e = <<>>
      BY <3>2
    <3>. QED
      BY <3>1, <3>3
  <2>2. e \in Seq(Seq(Symbol)) /\ DOMAIN e = {}
    BY <2>1
  <2>3. PICK f : f = FlattenSeq(e)
    OBVIOUS
  <2>4. f \in Seq(Symbol) /\ DOMAIN f = {}
    BY <2>2, <2>3, FlattenedElements
  <2>5. f = <<>>
    BY <2>4
  <2>. QED
    BY <2>1, <2>3, <2>5 DEF Before
<1>7. Before(ss, n) = FlattenSeq(ss)
  <2>1. SubSeq(ss, 1, n) = ss
    BY <1>2
  <2>. QED
    BY <2>1 DEF Before
<1>. QED
  BY <1>4, <1>5, <1>6, <1>7

(* A line and its end. *)
IsLine(t) == \E s : NoLine(s) /\ t = s \o <<"\n">>

(* A line that is cut off is whole, or a text without an end of a line. *)
LEMMA LineCut ==
  ASSUME NEW t, IsLine(t), NEW m \in Nat, m <= Len(t)
  PROVE  t \in Text /\ (m = Len(t) \/ NoLine(SubSeq(t, 1, m)))
<1>1. PICK s : NoLine(s) /\ t = s \o <<"\n">>
  BY DEF IsLine
<1>2. PICK e \in Text : e = <<"\n">> /\ Len(e) = 1
  <2>1. "\n" \in Symbol
    BY SymbolsAre DEF Signs
  <2>. QED
    BY <2>1, NoText
<1>3. PICK n \in Nat : n = Len(s) /\ s \in Text /\ DOMAIN s = 1..n
  BY <1>1, NoLineText, TextTypes
<1>4. t \in Text /\ Len(t) = n + 1
  BY <1>1, <1>2, <1>3, JoinText
<1>5. CASE m <= n
  <2>1. SubSeq(t, 1, m) = SubSeq(s, 1, m)
    BY <1>1, <1>2, <1>3, <1>5, HeadCut
  <2>2. SubSeq(s, 1, m) \in Seq(Plain)
    BY <1>1, <1>3, <1>5 DEF NoLine
  <2>. QED
    BY <1>4, <2>1, <2>2 DEF NoLine
<1>. QED
  BY <1>4, <1>5

(* Lines that are cut off are some of the lines, and a part of the next. *)
LEMMA LinesCut ==
  ASSUME NEW ss \in Seq(Text), NEW n \in Nat, n = Len(ss), \A i \in 1..n : IsLine(ss[i]),
         NEW m \in Nat, m <= Len(FlattenSeq(ss))
  PROVE  \E k \in 0..n : \E p : NoLine(p) /\ SubSeq(FlattenSeq(ss), 1, m) = Before(ss, k) \o p
<1> DEFINE Splits(j) == \A q \in Nat : q <= Len(Before(ss, j)) =>
                          \E k \in 0..j : \E p : NoLine(p) /\ SubSeq(Before(ss, j), 1, q) = Before(ss, k) \o p
           T == {j \in Nat : j <= n => Splits(j)}
<1>1. 0 \in T
  <2>1. ASSUME NEW q \in Nat, q <= Len(Before(ss, 0))
        PROVE  \E k \in 0..0 : \E p : NoLine(p) /\ SubSeq(Before(ss, 0), 1, q) = Before(ss, k) \o p
    <3>1. Before(ss, 0) = <<>>
      BY BeforeFacts
    <3>2. q = 0
      BY <2>1, <3>1
    <3>3. SubSeq(<<>>, 1, 0) = <<>> \o <<>>
      OBVIOUS
    <3>4. NoLine(<<>>)
      BY NoLineJoin
    <3>5. 0 \in 0..0
      OBVIOUS
    <3>. QED
      BY <3>1, <3>2, <3>3, <3>4, <3>5
  <2>. QED
    BY <2>1
<1>2. ASSUME NEW j \in Nat, j \in T PROVE j + 1 \in T
  <2>0. SUFFICES ASSUME j + 1 <= n PROVE Splits(j + 1)
    <3>1. j + 1 \in Nat
      OBVIOUS
    <3> HIDE DEF Splits
    <3>. QED
      BY <3>1
  <2>1. SUFFICES ASSUME NEW q \in Nat, q <= Len(Before(ss, j + 1))
                 PROVE  \E k \in 0..j + 1 : \E p : NoLine(p) /\ SubSeq(Before(ss, j + 1), 1, q) = Before(ss, k) \o p
    BY DEF Splits
  <2>2. j \in 0..n - 1 /\ j + 1 \in 1..n /\ j <= n /\ j \in 0..n /\ j + 1 \in 0..n
    BY <2>0
  <2>3. Splits(j)
    BY <1>2, <2>2
  <2> HIDE DEF Splits
  <2>4. PICK b \in Text : b = Before(ss, j)
    BY <2>2, BeforeFacts
  <2>5. PICK t \in Text : t = ss[j + 1] /\ IsLine(t)
    BY <2>2, LineCut
  <2>6. Before(ss, j + 1) = b \o t /\ b \o t \in Text
    <3>1. Before(ss, j + 1) = Before(ss, j) \o ss[j + 1]
      BY <2>2, BeforeFacts
    <3>2. b \o t \in Text
      BY JoinText
    <3>. QED
      BY <2>4, <2>5, <3>1, <3>2
  <2>7. PICK x \in Nat, y \in Nat : x = Len(b) /\ y = Len(t) /\ Len(b \o t) = x + y
    BY TextTypes, JoinText
  <2>8. CASE q <= x
    <3>1. SubSeq(b \o t, 1, q) = SubSeq(b, 1, q)
      BY <2>7, <2>8, HeadCut
    <3>2. PICK k \in 0..j : \E p : NoLine(p) /\ SubSeq(b, 1, q) = Before(ss, k) \o p
      BY <2>3, <2>4, <2>7, <2>8 DEF Splits
    <3>3. k \in 0..j + 1
      OBVIOUS
    <3>. QED
      BY <2>6, <3>1, <3>2, <3>3
  <2>9. CASE ~(q <= x)
    <3>1. PICK r \in Nat : r = q - x /\ r <= y /\ q >= x /\ q <= x + y
      <4>1. Len(Before(ss, j + 1)) = x + y
        BY <2>6, <2>7, Zenon
      <4>2. q <= x + y
        BY <2>1, <4>1
      <4>. QED
        BY <2>9, <4>2
    <3>2. SubSeq(b \o t, 1, q) = b \o SubSeq(t, 1, r)
      <4>1. b \in Text /\ t \in Text /\ r \in Nat /\ r <= Len(t) /\ q = Len(b) + r
        BY <2>7, <3>1
      <4>. QED
        BY <4>1, HeadCutBehind
    <3>3. CASE r = y
      <4>1. SubSeq(t, 1, r) = t
        BY <2>7, <3>3, HeadCut
      <4>2. (b \o t) \o <<>> = b \o t
        BY <2>6, NoText, JoinText
      <4>3. SubSeq(Before(ss, j + 1), 1, q) = Before(ss, j + 1) \o <<>>
        BY <2>6, <3>2, <4>1, <4>2
      <4>4. NoLine(<<>>) /\ j + 1 \in 0..j + 1
        BY NoLineJoin
      <4>. QED
        BY <4>3, <4>4
    <3>4. CASE r # y
      <4>1. NoLine(SubSeq(t, 1, r))
        BY <2>5, <2>7, <3>1, <3>4, LineCut
      <4>2. j \in 0..j + 1
        OBVIOUS
      <4>. QED
        BY <2>4, <2>6, <3>2, <4>1, <4>2
    <3>. QED
      BY <3>3, <3>4
  <2>. QED
    BY <2>8, <2>9
<1>3. n \in T
  <2> HIDE DEF T
  <2>. QED
    BY <1>1, <1>2, Induction
<1>4. Before(ss, n) = FlattenSeq(ss)
  BY BeforeFacts
<1>5. Splits(n)
  <2>1. n <= n
    OBVIOUS
  <2> HIDE DEF Splits
  <2>. QED
    BY <1>3, <2>1
<1>6. m <= Len(Before(ss, n))
  BY <1>4
<1>7. \E k \in 0..n : \E p : NoLine(p) /\ SubSeq(Before(ss, n), 1, m) = Before(ss, k) \o p
  BY <1>5, <1>6
<1>. QED
  BY <1>4, <1>7

-----------------------------------------------------------------------------
(* The texts of tags, of columns and of cells hold no end of a line.          *)
LEMMA NameNoLine ==
  ASSUME NEW n \in Names
  PROVE  NoLine(n)
<1>1. n \in Text /\ \A i \in 1..Len(n) : n[i] \in Plain
  BY NamesAre, PlainAre
<1>. QED
  BY <1>1, NoLineFacts DEF Plain

(* A tag. *)
LEMMA TagNoLine ==
  ASSUME NEW d, NEW j, NEW n, NEW v, IsTag(d, j, n, v)
  PROVE  NoLine(<<" ">> \o TagText(n, v))
<1>1. NoLine(n) /\ NoLine(ToZinc(v))
  BY TagIs, NameNoLine, ValuesNoLine
<1>2. NoLine(<<" ">>) /\ NoLine(<<":">>) /\ NoLine(<<>>)
  BY NoLineJoin, PlainAre
<1>3. PICK x : x = (IF v = Marker THEN <<>> ELSE <<":">> \o ToZinc(v)) /\ NoLine(x)
  BY <1>1, <1>2, NoLineJoin
<1>4. TagText(n, v) = n \o x
  BY <1>3 DEF TagText
<1>. QED
  BY <1>1, <1>2, <1>3, <1>4, NoLineJoin

(* The tags of a grid or of a column. *)
LEMMA MetaNoLine ==
  ASSUME NEW d, CleanDict(d)
  PROVE  NoLine(MetaText(d))
<1>1. PICK k \in Nat : k = Len(TagNames(d))
  BY TagTextsAre
<1>2. PICK f : f = TagTexts(d)
  OBVIOUS
<1>3. ASSUME NEW i \in 1..k PROVE NoLine(f[i])
  <2>1. PICK n, v : IsTag(d, i, n, v) /\ n = TagNames(d)[i] /\ v = d[n]
    BY <1>1 DEF IsTag
  <2>2. f[i] = <<" ">> \o TagText(n, v)
    BY <1>1, <1>2, <2>1 DEF TagTexts
  <2>. QED
    BY <2>1, <2>2, TagNoLine
<1>4. f = [i \in 1..k |-> f[i]]
  BY <1>1, <1>2 DEF TagTexts
<1>5. MetaText(d) = FlattenSeq(f)
  BY <1>2 DEF MetaText, TagTexts
<1>. QED
  BY <1>3, <1>4, <1>5, NoLineFlat

(* Texts with commas between them. *)
LEMMA CommasNoLine ==
  ASSUME NEW ss, NEW n \in Nat, n = Len(ss), \A i \in 1..n : NoLine(ss[i])
  PROVE  NoLine(Commas(ss))
<1>1. PICK f : f = Parted(ss)
  OBVIOUS
<1>2. NoLine(<<>>) /\ NoLine(<<",">>)
  BY NoLineJoin, PlainAre
<1>3. ASSUME NEW i \in 1..n PROVE NoLine(f[i])
  <2>1. PICK c : c = (IF i = 1 THEN <<>> ELSE <<",">>) /\ NoLine(c)
    BY <1>2
  <2>2. f[i] = c \o ss[i]
    BY <1>1, <2>1 DEF Parted
  <2>. QED
    BY <2>1, <2>2, NoLineJoin
<1>4. f = [i \in 1..n |-> f[i]]
  BY <1>1 DEF Parted
<1>5. Commas(ss) = FlattenSeq(f)
  BY <1>1 DEF Commas, Parted
<1>. QED
  BY <1>3, <1>4, <1>5, NoLineFlat

(* The first two lines, each on its own. *)
LEMMA HeadsNoLine ==
  ASSUME NEW g, Carried(g)
  PROVE  NoLine(MetaText(g.meta)) /\ NoLine(Commas(HeadTexts(g)))
<1>1. PICK n \in Nat : n = Len(g.cols) /\ DOMAIN g.cols = 1..n
  BY CarriedFacts
<1>2. ASSUME NEW i \in 1..n PROVE NoLine(HeadTexts(g)[i])
  <2>1. PICK d : d = g.cols[i].meta /\ CleanDict(d)
    BY <1>1, CarriedFacts
  <2>2. PICK name : name = g.cols[i].name /\ name \in Names
    BY <1>1, CarriedFacts
  <2>3. HeadTexts(g)[i] = name \o MetaText(d)
    BY <1>1, <2>1, <2>2 DEF HeadTexts
  <2>. QED
    BY <2>1, <2>2, <2>3, NameNoLine, MetaNoLine, NoLineJoin
<1>3. Len(HeadTexts(g)) = n
  BY <1>1, HeadTextsAre
<1>4. NoLine(MetaText(g.meta))
  BY CarriedFacts, MetaNoLine
<1>. QED
  BY <1>2, <1>3, <1>4, CommasNoLine

(* A row. *)
LEMMA RowNoLine ==
  ASSUME NEW g, Carried(g), NEW r \in DOMAIN g.rows
  PROVE  NoLine(RowText(g, r))
<1>1. PICK n \in Nat : n = Len(g.cols) /\ DOMAIN g.cols = 1..n
  BY CarriedFacts
<1>2. ASSUME NEW i \in 1..n PROVE NoLine(CellText(g, r, i))
  <2>1. PICK v : v = Cell(g, r, i) /\ Sendable(v)
    BY <1>1, CarriedFacts
  <2>2. NoLine(ToZinc(v)) /\ NoLine(<<"N">>)
    <3>1. "N" \in Plain
      BY PlainAre DEF Alpha, Upper
    <3>. QED
      BY <2>1, <3>1, ValuesNoLine, NoLineJoin
  <2>3. CellText(g, r, i) = IF v = Empty /\ i = 1 THEN <<"N">> ELSE ToZinc(v)
    BY <2>1, Zenon DEF CellText
  <2>. QED
    BY <2>2, <2>3
<1>3. PICK ss : ss = CellTexts(g, r) /\ Len(ss) = n /\ \A i \in 1..n : ss[i] = CellText(g, r, i)
  BY <1>1, CellTextsAre
<1>4. RowText(g, r) = Commas(ss)
  BY <1>3, CellTextsAre
<1>. QED
  BY <1>2, <1>3, <1>4, CommasNoLine

(* So a row is a line. *)
LEMMA RowsAreLines ==
  ASSUME NEW g, Carried(g), NEW m \in Nat, m = Len(g.rows)
  PROVE  /\ RowTexts(g) \in Seq(Text) /\ Len(RowTexts(g)) = m
         /\ \A r \in 1..m : IsLine(RowTexts(g)[r])
<1>1. DOMAIN g.rows = 1..m
  BY CarriedFacts
<1>2. PICK tt : tt = RowTexts(g)
  OBVIOUS
<1>3. ASSUME NEW r \in 1..m PROVE IsLine(tt[r]) /\ tt[r] \in Text
  <2>1. PICK s : s = RowText(g, r) /\ NoLine(s)
    BY <1>1, RowNoLine
  <2>2. "\n" \in Symbol
    BY SymbolsAre DEF Signs
  <2>3. Append(s, "\n") = s \o <<"\n">> /\ Append(s, "\n") \in Text
    BY <2>1, <2>2, NoLineText, AppendText
  <2>4. tt[r] = Append(s, "\n")
    BY <1>2, <2>1 DEF RowTexts
  <2>. QED
    BY <2>1, <2>3, <2>4 DEF IsLine
<1>4. tt = [r \in 1..m |-> tt[r]]
  BY <1>2 DEF RowTexts
<1>5. tt \in [1..m -> Text]
  BY <1>3, <1>4
<1>6. tt \in Seq(Text) /\ Len(tt) = m
  BY <1>5
<1>. QED
  BY <1>2, <1>3, <1>6

(* Two parts of a text with the end of a line between them. *)
LEMMA JoinOneLine ==
  ASSUME NEW a, NEW c, NoLine(a), NoLine(c)
  PROVE  OneLine((a \o <<"\n">>) \o c)
<1>1. PICK n \in Nat : n = Len(a) /\ a \in Text /\ \A i \in 1..n : a[i] \notin {"\n", "eof"}
  BY NoLineFacts, TextTypes
<1>2. PICK m \in Nat : m = Len(c) /\ c \in Text /\ \A i \in 1..m : c[i] \notin {"\n", "eof"}
  BY NoLineFacts, TextTypes
<1>3. PICK e \in Text : e = <<"\n">> /\ Len(e) = 1 /\ e[1] = "\n"
  <2>1. "\n" \in Symbol
    BY SymbolsAre DEF Signs
  <2>. QED
    BY <2>1, NoText
<1>4. PICK u : u = a \o e /\ u \in Text /\ Len(u) = n + 1
  <2>1. a \o e \in Text /\ Len(a \o e) = Len(a) + Len(e)
    BY <1>1, <1>3, JoinText, Zenon
  <2>. QED
    BY <1>1, <1>3, <2>1
<1>5. \A i \in 1..n + 1 : u[i] = IF i <= n THEN a[i] ELSE e[i - n]
  <2>1. \A i \in 1..Len(a) + Len(e) : (a \o e)[i] = IF i <= Len(a) THEN a[i] ELSE e[i - Len(a)]
    BY <1>1, <1>3, ConcatPlaces DEF Text
  <2>. QED
    BY <1>1, <1>3, <1>4, <2>1
<1>6. PICK t : t = u \o c /\ t \in Text /\ Len(t) = (n + 1) + m
  <2>1. u \o c \in Text /\ Len(u \o c) = Len(u) + Len(c)
    BY <1>2, <1>4, JoinText, Zenon
  <2>. QED
    BY <1>2, <1>4, <2>1
<1>7. \A i \in 1..(n + 1) + m : t[i] = IF i <= n + 1 THEN u[i] ELSE c[i - (n + 1)]
  <2>1. \A i \in 1..Len(u) + Len(c) : (u \o c)[i] = IF i <= Len(u) THEN u[i] ELSE c[i - Len(u)]
    BY <1>2, <1>4, ConcatPlaces DEF Text
  <2>. QED
    BY <1>2, <1>4, <1>6, <2>1
<1>8. ASSUME NEW i \in 1..(n + 1) + m PROVE t[i] # "eof" /\ (t[i] = "\n" => i = n + 1)
  <2>1. CASE i <= n
    <3>1. t[i] = a[i] /\ i \in 1..n
      BY <1>5, <1>7, <2>1
    <3>. QED
      BY <1>1, <3>1
  <2>2. CASE i = n + 1
    <3>1. t[i] = u[i] /\ u[i] = e[i - n] /\ i - n = 1
      BY <1>5, <1>7, <2>2
    <3>2. "\n" # "eof"
      OBVIOUS
    <3>. QED
      BY <1>3, <2>2, <3>1, <3>2
  <2>3. CASE i > n + 1
    <3>1. t[i] = c[i - (n + 1)] /\ i - (n + 1) \in 1..m
      BY <1>7, <2>3
    <3>. QED
      BY <1>2, <3>1
  <2>. QED
    BY <2>1, <2>2, <2>3
<1>9. OneLine(t)
  BY <1>6, <1>8 DEF OneLine
<1>. QED
  BY <1>3, <1>4, <1>6, <1>9

(* A part of it has no more lines. *)
LEMMA OneLineCut ==
  ASSUME NEW t, OneLine(t), NEW m \in Nat, m <= Len(t)
  PROVE  OneLine(SubSeq(t, 1, m))
<1>1. PICK n \in Nat : n = Len(t) /\ t \in Text
  BY TextTypes DEF OneLine
<1>2. PICK s : s = SubSeq(t, 1, m)
  OBVIOUS
<1>3. s \in Text /\ Len(s) = m /\ \A i \in 1..m : s[i] = t[i]
  BY <1>1, <1>2 DEF Text
<1>4. 1..m \subseteq 1..n
  BY <1>1
<1>5. OneLine(s)
  BY <1>1, <1>3, <1>4 DEF OneLine
<1>. QED
  BY <1>2, <1>5

-----------------------------------------------------------------------------
(* A grid without its last rows.                                             *)
FirstOf(g, k) == [g EXCEPT !.rows = SubSeq(@, 1, k)]

(* It can be sent as well, and has the same columns and cells. *)
LEMMA FirstOfFacts ==
  ASSUME NEW g, Carried(g), NEW m \in Nat, m = Len(g.rows), NEW k \in 0..m
  PROVE  /\ Carried(FirstOf(g, k))
         /\ FirstOf(g, k).meta = g.meta /\ FirstOf(g, k).cols = g.cols
         /\ Len(FirstOf(g, k).rows) = k /\ DOMAIN FirstOf(g, k).rows = 1..k
         /\ \A r \in 1..k : \A i : Cell(FirstOf(g, k), r, i) = Cell(g, r, i)
<1>1. HasCols(g) /\ IsGrid(g)
  BY DEF Carried, IsGrid
<1>2. PICK S : g.rows \in Seq(S)
  BY <1>1 DEF IsGrid
<1>3. PICK s : s = SubSeq(g.rows, 1, k) /\ s \in Seq(S) /\ Len(s) = k /\ DOMAIN s = 1..k /\ \A r \in 1..k : s[r] = g.rows[r]
  <2>1. PICK a \in Seq(S) : a = g.rows /\ Len(a) = m
    BY <1>2
  <2>2. /\ SubSeq(a, 1, k) \in Seq(S) /\ Len(SubSeq(a, 1, k)) = k /\ DOMAIN SubSeq(a, 1, k) = 1..k
        /\ \A r \in 1..k : SubSeq(a, 1, k)[r] = a[r]
    BY <2>1
  <2>. QED
    BY <2>1, <2>2
<1>4. PICK h : h = [g EXCEPT !.rows = s]
  OBVIOUS
<1>5. h.meta = g.meta /\ h.cols = g.cols /\ h.rows = s
  BY <1>1, <1>4 DEF HasCols
<1>6. HasCols(h)
  BY <1>1, <1>4, MetaHasCols
<1>7. FirstOf(g, k) = h
  BY <1>3, <1>4 DEF FirstOf
<1>8. \A r \in 1..k : \A i : Cell(h, r, i) = Cell(g, r, i)
  BY <1>3, <1>5 DEF Cell
<1>9. 1..k \subseteq DOMAIN g.rows
  BY <1>2
<1>10. \A r \in DOMAIN h.rows, i \in DOMAIN h.cols :
          r \in DOMAIN g.rows /\ i \in DOMAIN g.cols /\ Cell(h, r, i) = Cell(g, r, i)
  BY <1>3, <1>5, <1>8, <1>9
<1>11. h.rows # <<>> => h.cols # <<>>
  <2>1. g.rows = <<>> => k = 0
    BY <1>2
  <2>2. k = 0 => s = <<>>
    BY <1>3
  <2>. QED
    BY <1>1, <1>5, <2>1, <2>2 DEF IsGrid
<1>12. IsGrid(h)
  <2>1. IsDict(h.meta) /\ \A i \in DOMAIN h.cols : h.cols[i].name \in Names /\ IsDict(h.cols[i].meta)
    BY <1>1, <1>5 DEF IsGrid
  <2>2. \E Q : h.rows \in Seq(Q)
    BY <1>3, <1>5
  <2>3. \A r \in DOMAIN h.rows, i \in DOMAIN h.cols : IsValue(Cell(h, r, i))
    <3>1. \A r \in DOMAIN g.rows, i \in DOMAIN g.cols : IsValue(Cell(g, r, i))
      BY <1>1 DEF IsGrid
    <3>. QED
      BY <1>10, <3>1, Zenon
  <2>. QED
    BY <1>6, <1>11, <2>1, <2>2, <2>3 DEF IsGrid
<1>13. TagValues(h) = TagValues(g)
  BY <1>5 DEF TagValues
<1>14. ASSUME NEW v \in ValuesOf(h) PROVE v \in ValuesOf(g)
  <2>1. CASE v \in TagValues(h)
    BY <1>13, <2>1 DEF ValuesOf
  <2>2. CASE v \in {Cell(h, r, i) : r \in DOMAIN h.rows, i \in DOMAIN h.cols}
    <3>1. PICK r \in DOMAIN h.rows, i \in DOMAIN h.cols : v = Cell(h, r, i)
      BY <2>2
    <3>2. r \in DOMAIN g.rows /\ i \in DOMAIN g.cols /\ v = Cell(g, r, i)
      BY <1>10, <3>1
    <3>. QED
      BY <3>2 DEF ValuesOf
  <2>. QED
    BY <2>1, <2>2 DEF ValuesOf
<1>15. Carried(h)
  BY <1>12, <1>13, <1>14 DEF Carried, MetaIsFull
<1>. QED
  BY <1>3, <1>5, <1>7, <1>8, <1>15

(* Its text. *)
FirstLines(g) == Version \o MetaText(g.meta) \o <<"\n">> \o Commas(HeadTexts(g))

(* Its text begins as the text of the grid does. *)
LEMMA FirstOfText ==
  ASSUME NEW g, Carried(g), NEW m \in Nat, m = Len(g.rows), NEW k \in 0..m
  PROVE  /\ GridText(g) = (FirstLines(g) \o <<"\n">>) \o FlattenSeq(RowTexts(g))
         /\ GridText(FirstOf(g, k)) = (FirstLines(g) \o <<"\n">>) \o Before(RowTexts(g), k)
<1>1. \A h : GridText(h) = (FirstLines(h) \o <<"\n">>) \o FlattenSeq(RowTexts(h))
  BY Zenon DEF GridText, FirstLines, HeadTexts, RowTexts
<1>2. PICK h : h = FirstOf(g, k)
  OBVIOUS
<1>3. /\ h.meta = g.meta /\ h.cols = g.cols /\ Len(h.rows) = k
      /\ \A r \in 1..k : \A i : Cell(h, r, i) = Cell(g, r, i)
  BY <1>2, FirstOfFacts
<1>4. FirstLines(h) = FirstLines(g)
  BY <1>3 DEF FirstLines, HeadTexts
<1>5. ASSUME NEW r \in 1..k PROVE RowText(h, r) = RowText(g, r)
  BY <1>3, Zenon DEF RowText
<1>6. PICK tt : /\ tt = RowTexts(g) /\ tt \in Seq(Text) /\ Len(tt) = m
                /\ \A r \in 1..m : tt[r] = Append(RowText(g, r), "\n")
  <2>1. PICK tt : tt = RowTexts(g) /\ tt \in Seq(Text) /\ Len(tt) = m
    BY RowsAreLines
  <2>2. \A r \in 1..m : tt[r] = Append(RowText(g, r), "\n")
    BY <2>1 DEF RowTexts
  <2>. QED
    BY <2>1, <2>2
<1>7. RowTexts(h) = [r \in 1..k |-> Append(RowText(g, r), "\n")]
  BY <1>3, <1>5 DEF RowTexts
<1>8. SubSeq(tt, 1, k) = [r \in 1..k |-> tt[r]]
  BY <1>6
<1>9. \A r \in 1..k : r \in 1..m
  OBVIOUS
<1>10. RowTexts(h) = SubSeq(tt, 1, k)
  BY <1>6, <1>7, <1>8, <1>9
<1>. QED
  BY <1>1, <1>2, <1>4, <1>6, <1>10 DEF Before

(* A text that is cut off has not all of its first two lines, or is the text *)
(* of the grid without its last rows, and a part of a row.                   *)
CutOf(g, t) ==
  \/ OneLine(t)
  \/ \E k \in 0..Len(g.rows) : \E p : NoLine(p) /\ t = GridText(FirstOf(g, k)) \o p

(* The version is no end of a line. *)
LEMMA VersionNoLine == NoLine(Version)
<1>1. "ver" \in Plain /\ ":" \in Plain /\ "\"" \in Plain /\ "2.0" \in Plain
  BY PlainAre DEF Alpha, Lower, Keyword
<1>. QED
  BY <1>1, NoLineFew DEF Version

(* The first two lines, without the end of the second. *)
LEMMA HeadIsOneLine ==
  ASSUME NEW g, Carried(g)
  PROVE  OneLine(FirstLines(g)) /\ FirstLines(g) \in Text
<1>1. PICK a : a = Version \o MetaText(g.meta) /\ NoLine(a)
  BY VersionNoLine, HeadsNoLine, NoLineJoin
<1>2. FirstLines(g) = (a \o <<"\n">>) \o Commas(HeadTexts(g))
  BY <1>1 DEF FirstLines
<1>. QED
  BY <1>1, <1>2, HeadsNoLine, JoinOneLine, LinesSeen

(* Wherever it is cut off. *)
LEMMA TextIsCut ==
  ASSUME NEW g, Carried(g), NEW n \in Nat, n < Len(GridText(g))
  PROVE  CutOf(g, SubSeq(GridText(g), 1, n))
<1>1. PICK m \in Nat : m = Len(g.rows)
  BY CarriedFacts
<1>2. PICK h : h = FirstLines(g) /\ h \in Text /\ OneLine(h)
  BY HeadIsOneLine
<1>3. PICK e \in Text : e = <<"\n">> /\ Len(e) = 1
  <2>1. "\n" \in Symbol
    BY SymbolsAre DEF Signs
  <2>. QED
    BY <2>1, NoText
<1>4. PICK tt : tt = RowTexts(g) /\ tt \in Seq(Text) /\ Len(tt) = m /\ \A r \in 1..m : IsLine(tt[r])
  BY <1>1, RowsAreLines
<1>5. PICK f : f = FlattenSeq(tt) /\ f \in Text
  <2>1. Before(tt, m) = FlattenSeq(tt) /\ m \in 0..m
    BY <1>4, BeforeFacts
  <2>. QED
    BY <1>4, <2>1, BeforeFacts
<1>6. PICK he : he = h \o e /\ he \in Text /\ Len(he) = Len(h) + 1
  <2>1. h \o e \in Text /\ Len(h \o e) = Len(h) + Len(e)
    BY <1>2, <1>3, JoinText, Zenon
  <2>. QED
    BY <1>3, <2>1
<1>7. GridText(g) = he \o f
  <2>1. 0 \in 0..m
    OBVIOUS
  <2>. QED
    BY <1>1, <1>2, <1>3, <1>4, <1>5, <1>6, <2>1, FirstOfText
<1>8. PICK x \in Nat, y \in Nat : x = Len(h) /\ y = Len(f) /\ Len(he) = x + 1 /\ Len(he \o f) = (x + 1) + y
  <2>1. Len(he \o f) = Len(he) + Len(f)
    BY <1>5, <1>6, JoinText, Zenon
  <2>. QED
    BY <1>2, <1>5, <1>6, <2>1, TextTypes
<1>9. CASE n <= x
  <2>1. n <= Len(he) /\ n <= Len(h)
    BY <1>8, <1>9
  <2>2. SubSeq(he \o f, 1, n) = SubSeq(he, 1, n)
    BY <1>5, <1>6, <2>1, HeadCutWithin
  <2>3. SubSeq(h \o e, 1, n) = SubSeq(h, 1, n)
    BY <1>2, <1>3, <2>1, HeadCutWithin
  <2>4. OneLine(SubSeq(h, 1, n))
    BY <1>2, <2>1, OneLineCut
  <2>. QED
    BY <1>6, <1>7, <2>2, <2>3, <2>4, Zenon DEF CutOf
<1>10. CASE ~(n <= x)
  <2>1. PICK q \in Nat : q = n - (x + 1) /\ q <= y /\ n = (x + 1) + q
    <3>1. Len(GridText(g)) = (x + 1) + y
      BY <1>7, <1>8, Zenon
    <3>. QED
      BY <1>10, <3>1
  <2>2. SubSeq(he \o f, 1, n) = he \o SubSeq(f, 1, q)
    <3>1. he \in Text /\ f \in Text /\ q \in Nat /\ q <= Len(f) /\ n = Len(he) + q
      BY <1>5, <1>6, <1>8, <2>1
    <3>. QED
      BY <3>1, HeadCutBehind
  <2>3. PICK k \in 0..m : \E p : NoLine(p) /\ SubSeq(f, 1, q) = Before(tt, k) \o p
    <3>1. q <= Len(FlattenSeq(tt))
      BY <1>5, <1>8, <2>1
    <3>. QED
      <4>1. \E k \in 0..m : \E p : NoLine(p) /\ SubSeq(FlattenSeq(tt), 1, q) = Before(tt, k) \o p
        BY <1>4, <3>1, LinesCut
      <4>. QED
        BY <1>5, <4>1, Zenon
  <2>4. PICK p : NoLine(p) /\ SubSeq(f, 1, q) = Before(tt, k) \o p
    BY <2>3
  <2>5. PICK b : b = Before(tt, k) /\ b \in Text
    BY <1>4, BeforeFacts
  <2>6. he \o (b \o p) = (he \o b) \o p
    <3>1. Texts(he, b, p, p)
      BY <1>6, <2>4, <2>5, NoLineText DEF Texts
    <3>. QED
      BY <3>1, JoinsEnd
  <2>7. GridText(FirstOf(g, k)) = he \o b
    BY <1>1, <1>2, <1>3, <1>4, <1>6, <2>5, FirstOfText
  <2>. QED
    BY <1>1, <1>7, <2>2, <2>4, <2>5, <2>6, <2>7 DEF CutOf
<1>. QED
  BY <1>9, <1>10

-----------------------------------------------------------------------------
(* The whole way.                                                           *)

(* The grid has been written. *)
OnWire == phase \notin {"build", "unwritten"}

(* A text that was cut off: it is refused, or will be, or is read as the     *)
(* grid without its last rows, with a part of the next row behind it.        *)
Broken ==
  \/ phase \in {"raised", "crashed"}
  \/ Torn
  \/ \E k \in 0..Len(grid.rows) : \E p : NoLine(p) /\ Reading(FirstOf(grid, k), p)

(* What every step keeps: the grid is one a program can build, all of it can *)
(* be written once it is, and the reader is where the text and the grid it   *)
(* makes say that it is, whether all of the text has come or not.            *)
Wire ==
  /\ IsGrid(grid)
  /\ phase = "build" => got = NewGrid /\ cells = <<>> /\ ~cut
  /\ OnWire => \A v \in ValuesOf(grid) : Writable(v)
  /\ Meant /\ ~cut /\ OnWire => Reading(grid, <<>>)
  /\ Meant /\ cut /\ OnWire => Broken

(* What is given for the first n numbers is a sequence. *)
LEMMA NumberedIsSeq ==
  ASSUME NEW n \in Nat, NEW f, f = [i \in 1..n |-> f[i]]
  PROVE  Len(f) = n /\ \E S : f \in Seq(S)
<1> DEFINE S == {f[i] : i \in 1..n}
<1>1. f \in [1..n -> S]
  OBVIOUS
<1> HIDE DEF S
<1>2. f \in Seq(S) /\ Len(f) = n
  BY <1>1
<1>. QED
  BY <1>2

(* A grid without its last rows has the first rows of the grid. *)
LEMMA FirstOfIsPrefix ==
  ASSUME NEW g, Carried(g), NEW k \in 0..Len(g.rows)
  PROVE  IsPrefix(View(FirstOf(g, k)).rows, View(g).rows)
<1>1. PICK m \in Nat : m = Len(g.rows) /\ DOMAIN g.rows = 1..m
  BY CarriedFacts
<1>2. PICK h : /\ h = FirstOf(g, k) /\ h.cols = g.cols /\ DOMAIN h.rows = 1..k
               /\ \A r \in 1..k : \A i : Cell(h, r, i) = Cell(g, r, i)
  BY <1>1, FirstOfFacts
<1>3. PICK s, t : s = View(h).rows /\ t = View(g).rows
  OBVIOUS
<1>4. /\ s = [r \in 1..k |-> [i \in DOMAIN g.cols |-> Cell(h, r, i)]]
      /\ t = [r \in 1..m |-> [i \in DOMAIN g.cols |-> Cell(g, r, i)]]
  BY <1>1, <1>2, <1>3 DEF View
<1>5. \A r \in 1..k : [i \in DOMAIN g.cols |-> Cell(h, r, i)] = [i \in DOMAIN g.cols |-> Cell(g, r, i)]
  BY <1>2
<1>6. \A r \in 1..k : r \in 1..m /\ s[r] = t[r]
  BY <1>1, <1>4, <1>5
<1>7. Len(s) = k /\ Len(t) = m /\ (\E A : s \in Seq(A)) /\ (\E B : t \in Seq(B))
  <2>1. k \in Nat /\ s = [r \in 1..k |-> s[r]] /\ t = [r \in 1..m |-> t[r]]
    BY <1>1, <1>4
  <2>. QED
    BY <2>1, NumberedIsSeq
<1>8. PICK S : s \in Seq(S) /\ t \in Seq(S)
  <2>1. PICK A, B : s \in Seq(A) /\ t \in Seq(B)
    BY <1>7
  <2>2. s \in Seq(A \union B) /\ t \in Seq(A \union B)
    BY <2>1
  <2>. QED
    BY <2>2
<1>9. SubSeq(s, 1, k) = SubSeq(t, 1, k)
  <2>1. k \in Nat /\ k <= Len(s) /\ k <= Len(t)
    BY <1>1, <1>7
  <2>. QED
    BY <1>6, <1>8, <2>1, PrefixSame
<1>10. IsPrefix(s, t)
  BY <1>1, <1>7, <1>9 DEF IsPrefix
<1>. QED
  BY <1>2, <1>3, <1>10

(* Nothing follows the whole text. *)
LEMMA WholeText ==
  ASSUME NEW g, Carried(g)
  PROVE  GridText(g) \o <<>> = GridText(g) /\ Len(GridText(g)) \in Nat
<1>1. PICK m \in Nat : m = Len(g.rows)
  BY CarriedFacts
<1>2. PICK tt : tt = RowTexts(g) /\ tt \in Seq(Text) /\ Len(tt) = m
  BY <1>1, RowsAreLines
<1>3. FlattenSeq(tt) \in Text
  <2>1. Before(tt, m) = FlattenSeq(tt) /\ m \in 0..m
    BY <1>2, BeforeFacts
  <2>. QED
    BY <1>2, <2>1, BeforeFacts
<1>4. <<"\n">> \in Text
  BY SymbolsAre, NoText DEF Signs
<1>5. FirstLines(g) \o <<"\n">> \in Text
  BY <1>4, HeadIsOneLine, JoinText, Zenon
<1>6. GridText(g) = (FirstLines(g) \o <<"\n">>) \o FlattenSeq(tt)
  <2>1. 0 \in 0..m
    OBVIOUS
  <2>. QED
    BY <1>1, <1>2, <2>1, FirstOfText
<1>7. GridText(g) \in Text
  BY <1>3, <1>5, <1>6, JoinText, Zenon
<1>. QED
  BY <1>7, NoText, JoinText, TextTypes

(* Nothing has been written at first. *)
LEMMA WireStarts == Init => Wire
BY NewGridIsGrid DEF Init, Wire, OnWire

(* The steps that build the grid. *)
LEMMA BuildingKeepsGrid ==
  ASSUME Wire, NEW g, IsGrid(g), phase = "build", grid' = g,
         UNCHANGED <<phase, text, cut, got, cells>>
  PROVE  Wire'
BY DEF Wire, OnWire

(* The writer puts the whole text before the reader. *)
LEMMA WritingStartsWire ==
  ASSUME Wire, Write
  PROVE  Wire'
<1>1. /\ phase = "build" /\ IsGrid(grid) /\ got = NewGrid /\ cells = <<>> /\ ~cut
      /\ grid' = grid /\ got' = got /\ cells' = cells /\ cut' = cut
  BY DEF Write, Wire
<1>2. CASE \A v \in ValuesOf(grid) : Writable(v)
  <2>1. phase' = "header" /\ text' = GridText(grid)
    BY <1>2 DEF Write
  <2>2. ASSUME Meant' PROVE Reading(grid, <<>>)'
    <3>1. Carried(grid)
      BY <1>1, <1>2, <2>2 DEF Carried, Meant
    <3>2. PICK g : g = grid /\ Carried(g)
      BY <3>1
    <3>3. GridText(g) \o <<>> = GridText(g)
      BY <3>2, WholeText
    <3>. QED
      BY <1>1, <2>1, <3>2, <3>3 DEF Reading, Reached
  <2>. QED
    BY <1>1, <1>2, <2>1, <2>2 DEF Wire, OnWire
<1>3. CASE ~(\A v \in ValuesOf(grid) : Writable(v))
  <2>1. phase' = "unwritten"
    BY <1>3 DEF Write
  <2>. QED
    BY <1>1, <2>1 DEF Wire, OnWire
<1>. QED
  BY <1>2, <1>3

(* A connection that breaks leaves a part of the text. *)
LEMMA CuttingKeepsWire ==
  ASSUME Wire, NEW n \in 0..Len(text) - 1, Cut(n)
  PROVE  Wire'
<1>1. /\ phase = "header" /\ ~cut /\ phase' = phase /\ cut' = TRUE /\ text' = SubSeq(text, 1, n)
      /\ grid' = grid /\ got' = got /\ cells' = cells
  BY DEF Cut
<1>2. IsGrid(grid) /\ (\A v \in ValuesOf(grid) : Writable(v)) /\ (Meant => Reading(grid, <<>>))
  BY <1>1 DEF Wire, OnWire
<1>3. ASSUME Meant PROVE Broken'
  <2>1. Carried(grid)
    BY <1>2, <1>3 DEF Carried, Meant
  <2>2. PICK g : g = grid /\ Carried(g)
    BY <2>1
  <2>3. PICK w : w = GridText(g) /\ w \o <<>> = w /\ Len(w) \in Nat
    BY <2>2, WholeText
  <2>4. text = w /\ got = NewGrid /\ cells = <<>>
    BY <1>1, <1>2, <1>3, <2>2, <2>3 DEF Reading, Reached
  <2>5. PICK t : t = SubSeq(w, 1, n) /\ CutOf(g, t)
    <3>1. n \in Nat /\ n < Len(w)
      BY <2>3, <2>4
    <3>. QED
      BY <2>2, <2>3, <3>1, TextIsCut
  <2>6. text' = t /\ phase' = "header" /\ got' = NewGrid /\ cells' = <<>> /\ grid' = g
    BY <1>1, <2>2, <2>4, <2>5
  <2>7. CASE OneLine(t)
    BY <2>6, <2>7 DEF Broken, Torn
  <2>8. ASSUME NEW k \in 0..Len(g.rows), NEW p, NoLine(p), t = GridText(FirstOf(g, k)) \o p
        PROVE  Broken'
    <3>1. PICK h : h = FirstOf(g, k)
      OBVIOUS
    <3>2. Reading(h, p)'
      BY <2>6, <2>8, <3>1 DEF Reading, Reached
    <3>3. Reading(FirstOf(grid, k), p)' /\ (k \in 0..Len(grid.rows))'
      BY <2>6, <3>1, <3>2 DEF Reading
    <3>. QED
      BY <2>8, <3>3 DEF Broken
  <2>. QED
    BY <2>5, <2>7, <2>8 DEF CutOf
<1>4. Meant' => Meant
  BY <1>1 DEF Meant
<1>. QED
  BY <1>1, <1>2, <1>3, <1>4 DEF Wire, OnWire

(* The steps of the reader. *)
ReaderStep == ReadVer \/ ReadTag \/ ReadMetaEnd \/ ReadCol \/ ReadColEnd \/ ReadCell \/ ReadEnd

(* The reader leaves the grid of the writer alone. *)
LEMMA ReaderStepsLeave ==
  ASSUME ReaderStep
  PROVE  OnWire /\ OnWire' /\ phase' # "build" /\ grid' = grid /\ cut' = cut
<1>1. /\ \A p, t, g : Go(p, t, g) => phase' = p /\ grid' = grid /\ cut' = cut
      /\ \A h : Stop(h) => phase' \in {"crashed", "raised"} /\ grid' = grid /\ cut' = cut
  BY DEF Go, Stop
<1>2. ASSUME ReadVer PROVE OnWire /\ phase' \in {"meta", "crashed", "raised"} /\ grid' = grid /\ cut' = cut
  BY <1>1, <1>2 DEF ReadVer, OnWire
<1>3. ASSUME ReadTag PROVE OnWire /\ phase' \in {phase, "crashed", "raised"} /\ grid' = grid /\ cut' = cut
  BY <1>1, <1>3 DEF ReadTag, OnWire
<1>4. ASSUME ReadMetaEnd PROVE OnWire /\ phase' \in {"read", "cols", "crashed", "raised"} /\ grid' = grid /\ cut' = cut
  BY <1>1, <1>4 DEF ReadMetaEnd, OnWire
<1>5. ASSUME ReadCol PROVE OnWire /\ phase' \in {"colmeta", "crashed", "raised"} /\ grid' = grid /\ cut' = cut
  BY <1>1, <1>5 DEF ReadCol, OnWire
<1>6. ASSUME ReadColEnd PROVE OnWire /\ phase' \in {"cols", "rows", "crashed", "raised"} /\ grid' = grid /\ cut' = cut
  BY <1>1, <1>6 DEF ReadColEnd, OnWire
<1>7. ASSUME ReadCell PROVE OnWire /\ phase' \in {"cells", "rows", "crashed", "raised"} /\ grid' = grid /\ cut' = cut
  BY <1>1, <1>7 DEF ReadCell, OnWire
<1>8. ASSUME ReadEnd PROVE OnWire /\ phase' \in {"read", "crashed", "raised"} /\ grid' = grid /\ cut' = cut
  BY <1>1, <1>8 DEF ReadEnd, OnWire
<1>. QED
  BY <1>2, <1>3, <1>4, <1>5, <1>6, <1>7, <1>8 DEF ReaderStep, OnWire

(* The reader gets on through the text of a grid. *)
LEMMA ReaderGetsOn ==
  ASSUME NEW g, Carried(g), NEW tail, NoLine(tail), Reading(g, tail), ReaderStep, ~(ReadCell /\ AtTail(tail))
  PROVE  Reading(g, tail)'
<1>1. ASSUME ReadVer PROVE phase = "header"
  BY <1>1 DEF ReadVer
<1>. QED
  BY <1>1, VersionIsRead, TagIsTaken, MetaEndIsRead, ColumnIsRead, ColEndIsRead, CellIsRead, EndIsRead
     DEF ReaderStep

(* It gets nowhere else in a text that was cut off. *)
LEMMA BrokenStays ==
  ASSUME Carried(grid), Broken, ReaderStep, grid' = grid
  PROVE  Broken'
<1>1. phase \notin {"raised", "crashed"}
  BY DEF ReaderStep, ReadVer, ReadTag, ReadMetaEnd, ReadCol, ReadColEnd, ReadCell, ReadEnd
<1>2. ASSUME Torn PROVE Broken'
  BY <1>2, TornStays DEF ReaderStep, Broken, Stopped
<1>3. ASSUME NEW k \in 0..Len(grid.rows), NEW p, NoLine(p), Reading(FirstOf(grid, k), p)
      PROVE  Broken'
  <2>1. PICK g : g = grid /\ Carried(g)
    OBVIOUS
  <2>2. PICK m \in Nat : m = Len(g.rows)
    BY <2>1, CarriedFacts
  <2>3. PICK h : h = FirstOf(g, k)
    OBVIOUS
  <2>4. Carried(h)
    BY <1>3, <2>1, <2>2, <2>3, FirstOfFacts
  <2>5. Reading(h, p)
    BY <1>3, <2>1, <2>3
  <2>6. CASE ReadCell /\ AtTail(p)
    <3>1. Torn
      BY <1>3, <2>6 DEF AtTail, Torn
    <3>. QED
      BY <1>2, <3>1
  <2>7. CASE ~(ReadCell /\ AtTail(p))
    <3>1. Reading(h, p)'
      BY <1>3, <2>4, <2>5, <2>7, ReaderGetsOn
    <3>2. Reading(FirstOf(grid, k), p)' /\ (k \in 0..Len(grid.rows))'
      BY <1>3, <2>1, <2>3, <3>1 DEF Reading
    <3>. QED
      BY <1>3, <3>2 DEF Broken
  <2>. QED
    BY <2>6, <2>7
<1>. QED
  BY <1>1, <1>2, <1>3 DEF Broken

(* The reader gets on through the text, and stops nowhere in it. *)
LEMMA ReaderStepsKeepWire ==
  ASSUME Wire, ReaderStep
  PROVE  Wire'
<1>1. OnWire /\ OnWire' /\ phase' # "build" /\ grid' = grid /\ cut' = cut
  BY ReaderStepsLeave
<1>2. IsGrid(grid) /\ \A v \in ValuesOf(grid) : Writable(v)
  BY <1>1 DEF Wire
<1>3. Meant => Carried(grid)
  BY <1>2 DEF Carried, Meant
<1>5. ASSUME Meant, ~cut PROVE Reading(grid, <<>>)'
  <2>1. PICK g : g = grid /\ Carried(g)
    BY <1>3, <1>5
  <2>2. PICK e : e = <<>> /\ NoLine(e)
    BY NoLineJoin
  <2>3. Reading(g, e) /\ ~AtTail(e)
    BY <1>1, <1>5, <2>1, <2>2 DEF Wire, AtTail
  <2>4. Reading(g, e)'
    BY <2>1, <2>2, <2>3, ReaderGetsOn
  <2>. QED
    BY <1>1, <2>1, <2>2, <2>4 DEF Reading
<1>6. ASSUME Meant, cut PROVE Broken'
  <2>1. Broken
    BY <1>1, <1>6 DEF Wire
  <2>. QED
    BY <1>1, <1>3, <1>6, <2>1, BrokenStays
<1>4. Meant' => Meant
  BY <1>1 DEF Meant
<1>. QED
  BY <1>1, <1>2, <1>4, <1>5, <1>6 DEF Wire

(* Every step keeps the invariant. *)
LEMMA StepsKeepWire == Wire /\ [Next]_vars => Wire'
<1> SUFFICES ASSUME Wire, [Next]_vars PROVE Wire'
  OBVIOUS
<1>1. IsGrid(grid)
  BY DEF Wire
<1>2. \A g : Build(g) => grid' = g /\ UNCHANGED <<phase, text, cut, got, cells>>
  BY DEF Build
<1>3. ASSUME NEW n \in Names, NEW v \in MetaVals, AddMeta(n, v) \/ AddColMeta(n, v) PROVE Wire'
  <2>1. IsValue(v)
    BY ValuesAssumption
  <2>2. CASE AddMeta(n, v)
    <3>1. PICK g : g = [grid EXCEPT !.meta = Add(@, n, v)]
      OBVIOUS
    <3>2. IsGrid(g)
      BY <1>1, <2>1, <3>1, MetaIsGrid
    <3>3. phase = "build" /\ Build(g)
      BY <2>2, <3>1 DEF AddMeta, Building
    <3>. QED
      BY <1>2, <3>2, <3>3, BuildingKeepsGrid
  <2>3. CASE AddColMeta(n, v)
    <3>1. PICK g : g = [grid EXCEPT !.cols[Len(grid.cols)].meta = Add(@, n, v)]
      OBVIOUS
    <3>2. phase = "build" /\ Build(g) /\ grid.rows = <<>> /\ grid.cols # <<>>
      BY <2>3, <3>1 DEF AddColMeta, Building
    <3>3. IsGrid(g)
      BY <1>1, <2>1, <3>1, <3>2, ColMetaIsGrid
    <3>. QED
      BY <1>2, <3>2, <3>3, BuildingKeepsGrid
  <2>. QED
    BY <1>3, <2>2, <2>3
<1>4. ASSUME NEW n \in Names, AddCol(n) PROVE Wire'
  <2>1. PICK g : g = WithCol(grid, n)
    OBVIOUS
  <2>2. phase = "build" /\ CanAddCol(grid, n) /\ Build(g)
    BY <1>4, <2>1 DEF AddCol, Building
  <2>3. IsGrid(g)
    BY <1>1, <2>1, <2>2, ColIsGrid
  <2>. QED
    BY <1>2, <2>2, <2>3, BuildingKeepsGrid
<1>5. ASSUME NEW k \in 0..Len(grid.cols), NEW row \in [1..k -> Cells], AddRow(row) PROVE Wire'
  <2>1. PICK g : g = WithRow(grid, row)
    OBVIOUS
  <2>2. phase = "build" /\ grid.cols # <<>> /\ Build(g)
    BY <1>5, <2>1 DEF AddRow, Building
  <2>3. IsGrid(g)
    <3>1. k \in Nat
      OBVIOUS
    <3>. QED
      BY <1>1, <2>1, <2>2, <3>1, RowIsGrid
  <2>. QED
    BY <1>2, <2>2, <2>3, BuildingKeepsGrid
<1>6. ASSUME NEW k \in 1..MaxRows, NEW dicts \in [1..k -> Records], MakeGrid(dicts) PROVE Wire'
  <2>1. PICK g : g = Made(dicts)
    OBVIOUS
  <2>2. IsGrid(g)
    <3>1. dicts \in Seq(Records)
      OBVIOUS
    <3>. QED
      BY <2>1, <3>1, MadeIsGrid
  <2>3. phase = "build" /\ grid' = g /\ UNCHANGED <<phase, text, cut, got, cells>>
    BY <1>6, <2>1 DEF MakeGrid, Building
  <2>. QED
    BY <2>2, <2>3, BuildingKeepsGrid
<1>7. CASE MakeError
  <2>1. PICK g : g = ErrorGrid(Message) /\ IsGrid(g)
    BY ErrorIsGrid
  <2>2. phase = "build" /\ Build(g)
    BY <1>7, <2>1 DEF MakeError, Building
  <2>. QED
    BY <1>2, <2>1, <2>2, BuildingKeepsGrid
<1>8. CASE Write
  BY <1>8, WritingStartsWire
<1>9. ASSUME NEW n \in 0..Len(text) - 1, Cut(n) PROVE Wire'
  BY <1>9, CuttingKeepsWire
<1>10. CASE ReaderStep
  BY <1>10, ReaderStepsKeepWire
<1>11. CASE UNCHANGED vars
  BY <1>11 DEF vars, Wire, OnWire, Meant, Reading, Broken, Torn
<1>. QED
  <2>1. \/ \E n \in Names, v \in MetaVals : AddMeta(n, v) \/ AddColMeta(n, v)
        \/ \E n \in Names : AddCol(n)
        \/ \E k \in 0..Len(grid.cols) : \E row \in [1..k -> Cells] : AddRow(row)
        \/ \E k \in 1..MaxRows : \E dicts \in [1..k -> Records] : MakeGrid(dicts)
        \/ MakeError
        \/ Write
        \/ \E n \in 0..Len(text) - 1 : Cut(n)
        \/ ReaderStep
        \/ UNCHANGED vars
    BY DEF Next, ReaderStep
  <2>. QED
    BY <1>3, <1>4, <1>5, <1>6, <1>7, <1>8, <1>9, <1>10, <1>11, <2>1

(* A grid that is written and read again is the same grid, however many tags,
   columns and rows it has and whatever values they hold: write_grid and
   read_grid agree on every separator, on empty cells and on short rows, and
   the reader neither refuses the text nor dies of it.                        *)
THEOREM WireAlwaysKeepsGrid == Spec => []WireKeepsGrid
<1>1. Wire => WireKeepsGrid
  <2>1. Reading(grid, <<>>) => phase \notin {"raised", "crashed"} /\ (phase = "read" => View(got) = View(grid))
    BY DEF Reading, Reached
  <2>. QED
    BY <2>1 DEF Wire, OnWire, WireKeepsGrid
<1>. QED
  BY <1>1, WireStarts, StepsKeepWire, PTL DEF Spec

(* A text that is cut off anywhere, in a name, a value or a row, is refused,
   or read as the grid with some of its first rows: the reader never makes a
   row, a column or a tag out of a part of the text of one.                   *)
THEOREM CutAlwaysPrefix == Spec => []CutIsPrefix
<1>1. Wire => CutIsPrefix
  <2>1. SUFFICES ASSUME Wire, Meant, cut, phase = "read"
                 PROVE  /\ got.meta = grid.meta /\ got.cols = grid.cols
                        /\ IsPrefix(View(got).rows, View(grid).rows)
    BY DEF CutIsPrefix
  <2>2. Broken /\ Carried(grid)
    BY <2>1 DEF Wire, OnWire, Meant, Carried
  <2>3. PICK k \in 0..Len(grid.rows) : \E p : NoLine(p) /\ Reading(FirstOf(grid, k), p)
    BY <2>1, <2>2 DEF Broken, Torn
  <2>4. View(got) = View(FirstOf(grid, k))
    BY <2>1, <2>3 DEF Reading, Reached
  <2>5. PICK g : g = grid /\ Carried(g)
    BY <2>2
  <2>6. IsPrefix(View(FirstOf(g, k)).rows, View(g).rows)
    BY <2>5, FirstOfIsPrefix
  <2>7. FirstOf(g, k).meta = g.meta /\ FirstOf(g, k).cols = g.cols
    <3>1. PICK m \in Nat : m = Len(g.rows)
      BY <2>5, CarriedFacts
    <3>. QED
      BY <2>5, <3>1, FirstOfFacts
  <2>8. \A x, y : View(x) = View(y) => x.meta = y.meta /\ x.cols = y.cols
    BY DEF View
  <2>. QED
    BY <2>4, <2>5, <2>6, <2>7, <2>8
<1>. QED
  BY <1>1, WireStarts, StepsKeepWire, PTL DEF Spec
=============================================================================
