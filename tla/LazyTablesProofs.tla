-------------------------- MODULE LazyTablesProofs --------------------------
(***************************************************************************)
(* Proofs about LazyTables, for any number of threads, any operations in   *)
(* an order that ends with "ops", and any tags: what is built without a    *)
(* lock settles, however the builders overlap.                             *)
(***************************************************************************)
EXTENDS LazyTables, SequenceTheorems, TLAPS

(* What a thread's counter and its reference are good for at each point.   *)
Nowhere == {"idle", "check", "create"}     \* before the table is there

\* A thread may be at l with the counter n and a reference to o.
Fits(l, n, o) ==
    /\ l \notin Nowhere => table # 0
    /\ l \notin {"insert", "aboutFill"} => n = 1
    /\ l = "insert" => n <= Len(OpNames)
    /\ l \in {"find", "gridEnd", "gridCopy"} => o \in 1..Len(maps)
    /\ l = "aboutFill" => about # 0 /\ n <= Len(Tags)
    /\ l = "aboutFill" /\ n > 1 => o \in 1..Len(abouts)
    /\ l \in {"gridTest", "gridSet"} => o \in 1..Len(grids)

PointsInv == \A t \in Threads : Fits(pc[t], k[t], obj[t])

TypeInv == TypeOK /\ PointsInv

(* The worker that published the table, or one that came to insert later,  *)
(* puts into it all that is missing: it starts from the first operation.   *)
TableInv ==
    table # 0 =>
        \/ AllOps \subseteq maps[table]
        \/ \E t \in Threads : /\ pc[t] = "insert"
                              /\ \A i \in 1..(k[t] - 1) : OpNames[i] \in maps[table]

(* A record that is neither empty nor whole is being filled by a thread    *)
(* that began with the first tag.                                          *)
Fills(t, d) == pc[t] = "aboutFill" /\ k[t] > 1 /\ obj[t] = d

AboutInv ==
    /\ \A t \in Threads : \A d \in DOMAIN abouts :
          Fills(t, d) => \A i \in 1..(k[t] - 1) : Tags[i] \in abouts[d]
    /\ \A d \in DOMAIN abouts :
          abouts[d] \in {{}, AllTags} \/ \E t \in Threads : Fills(t, d)

(* A grid that a thread has made is its own until it is kept or deleted. *)
Owns(t) == pc[t] \in {"gridTest", "gridSet"}

GridInv ==
    /\ grid \notin freed
    /\ \A t \in Threads : Owns(t) => obj[t] \notin freed /\ obj[t] # grid
    /\ \A t, u \in Threads : Owns(t) /\ Owns(u) /\ obj[t] = obj[u] => t = u

(* With one table there is one worker that fills it, in order; whoever     *)
(* found "ops" in it has found all of it.                                  *)
Listing == {"gridCheck", "gridBegin", "gridEnd", "gridCopy"}

OneTableInv ==
    /\ Len(maps) = 0 => grids = <<>>
    /\ Len(maps) = 1 =>
          /\ \A t, u \in Threads : pc[t] = "insert" /\ pc[u] = "insert" => t = u
          /\ \A t \in Threads :
                pc[t] = "insert" => \A o \in maps[1] :
                    \E i \in 1..(k[t] - 1) : o = OpNames[i]
          /\ \A t \in Threads : pc[t] \in Listing => maps[1] = AllOps
          /\ \A g \in DOMAIN grids : grids[g] = AllOps

Inv == TypeInv /\ TableInv /\ AboutInv /\ GridInv /\ OneTableInv

USE DEF Points, AllOps, AllTags

(* The range of a sequence: its members, one for each place. *)
LEMMA Members ==
    /\ \A o : o \in AllOps <=> \E i \in 1..Len(OpNames) : o = OpNames[i]
    /\ \A o : o \in AllTags <=> \E i \in 1..Len(Tags) : o = Tags[i]
    /\ Len(OpNames) \in Nat \ {0} /\ Len(Tags) \in Nat \ {0}
<1>1. DOMAIN OpNames = 1..Len(OpNames) /\ DOMAIN Tags = 1..Len(Tags)
  BY OpNamesAssumption
<1>2. Len(OpNames) \in Nat /\ Len(Tags) \in Nat
  BY OpNamesAssumption
<1>3. Len(OpNames) # 0 /\ Len(Tags) # 0
  <2>1. OpNames # <<>>
    BY OpNamesAssumption DEF ToSet
  <2>. QED
    BY <2>1, OpNamesAssumption, EmptySeq
<1>. QED
  BY <1>1, <1>2, <1>3 DEF ToSet

LEMMA InitInv == Init => Inv
<1> SUFFICES ASSUME Init PROVE Inv
  OBVIOUS
<1> USE Members DEF Init
<1>1. TypeInv
  BY DEF TypeInv, TypeOK, TablesTypeOK, ThreadsTypeOK, PointsInv, Fits, Nowhere
<1>2. TableInv /\ AboutInv /\ GridInv /\ OneTableInv
  BY DEF TableInv, AboutInv, GridInv, OneTableInv, Owns, Listing, Fills
<1>. QED
  BY <1>1, <1>2 DEF Inv

LEMMA Appended ==
    ASSUME NEW S, NEW s \in Seq(S), NEW e \in S
    PROVE  /\ Append(s, e) \in Seq(S)
           /\ Len(Append(s, e)) = Len(s) + 1
           /\ DOMAIN Append(s, e) = 1..(Len(s) + 1) /\ DOMAIN s = 1..Len(s)
           /\ Len(s) \in Nat
           /\ \A i \in DOMAIN s : Append(s, e)[i] = s[i]
           /\ Append(s, e)[Len(s) + 1] = e
OBVIOUS

LEMMA Replaced ==
    ASSUME NEW S, NEW s \in Seq(S), NEW i \in DOMAIN s, NEW e \in S
    PROVE  /\ [s EXCEPT ![i] = e] \in Seq(S)
           /\ Len([s EXCEPT ![i] = e]) = Len(s)
           /\ DOMAIN [s EXCEPT ![i] = e] = DOMAIN s
           /\ \A j \in DOMAIN s : [s EXCEPT ![i] = e][j] = IF j = i THEN e ELSE s[j]
<1>1. DOMAIN s = 1..Len(s)
  OBVIOUS
<1>. QED
  BY <1>1, ExceptSeq

(* How a thread may move: to the point l, with the counter n, holding o. *)
Move(t, l, n, o) == /\ pc' = [pc EXCEPT ![t] = l]
                    /\ k' = [k EXCEPT ![t] = n]
                    /\ obj' = [obj EXCEPT ![t] = o]

\* What is built stays.
Grows == /\ table # 0 => table' # 0
         /\ about # 0 => about' # 0
         /\ 1..Len(maps) \subseteq 1..Len(maps')
         /\ 1..Len(abouts) \subseteq 1..Len(abouts')
         /\ 1..Len(grids) \subseteq 1..Len(grids')

LEMMA MoveFits ==
    ASSUME TypeInv, Grows, TablesTypeOK', UNCHANGED up,
           NEW t \in Threads, NEW l \in Points, NEW n \in Nat \ {0}, NEW o \in Nat,
           Move(t, l, n, o), Fits(l, n, o)',
           want' \in [Threads -> AllOps]
    PROVE  TypeInv'
<1>1. n \in 1..(Len(OpNames) + Len(Tags))
  BY Members DEF Fits
<1>2. ThreadsTypeOK'
  BY <1>1 DEF TypeInv, TypeOK, ThreadsTypeOK, Move
<1>3. ASSUME NEW u \in Threads, u # t PROVE Fits(pc[u], k[u], obj[u])'
  <2>1. pc'[u] = pc[u] /\ k'[u] = k[u] /\ obj'[u] = obj[u]
    BY <1>3 DEF Move, TypeInv, TypeOK, ThreadsTypeOK
  <2>2. Fits(pc[u], k[u], obj[u])
    BY DEF TypeInv, PointsInv
  <2>. QED
    BY <2>1, <2>2 DEF Fits, Grows
<1>4. pc'[t] = l /\ k'[t] = n /\ obj'[t] = o
  BY DEF Move, TypeInv, TypeOK, ThreadsTypeOK
<1>5. PointsInv'
  BY <1>3, <1>4 DEF PointsInv, Fits
<1>. QED
  BY <1>2, <1>5 DEF TypeInv, TypeOK

LEMMA TablesStutter ==
    ASSUME TypeInv, UNCHANGED tables
    PROVE  TablesTypeOK' /\ Grows
BY DEF TypeInv, TypeOK, TablesTypeOK, tables, Grows

LEMMA MoveOnly ==
    ASSUME TypeInv, UNCHANGED <<tables, up>>,
           NEW t \in Threads, NEW l \in Points, NEW n \in Nat \ {0}, NEW o \in Nat,
           Move(t, l, n, o), Fits(l, n, o),
           want' \in [Threads -> AllOps]
    PROVE  TypeInv'
<1>1. Fits(l, n, o)'
  BY DEF Fits, tables
<1>. QED
  BY <1>1, TablesStutter, MoveFits

LEMMA DoneTypes ==
    ASSUME TypeInv, UNCHANGED up, TablesTypeOK', Grows,
           NEW t \in Threads, Done(t)
    PROVE  TypeInv'
<1>1. Move(t, "idle", 1, 0) /\ Fits("idle", 1, 0)'
  BY DEF Done, Move, Fits, Nowhere
<1>2. OpNames[1] \in AllOps
  BY Members
<1>3. want' \in [Threads -> AllOps]
  BY <1>2 DEF Done, TypeInv, TypeOK, ThreadsTypeOK
<1>. QED
  BY <1>1, <1>3, MoveFits

\* A thread with the counter n and a reference to o, before its step.
Here(t, n, o) ==
    /\ n = k[t] /\ o = obj[t] /\ Fits(pc[t], n, o)
    /\ pc[t] \in Points /\ want \in [Threads -> AllOps]

LEMMA Standing ==
    ASSUME TypeInv, NEW t \in Threads
    PROVE  \E n \in Nat \ {0}, o \in Nat : Here(t, n, o)
<1>1. k[t] \in Nat \ {0} /\ obj[t] \in Nat
  BY Members DEF TypeInv, TypeOK, ThreadsTypeOK
<1>. QED
  BY <1>1 DEF Here, TypeInv, TypeOK, ThreadsTypeOK, PointsInv

LEMMA Sizes ==
    ASSUME TypeInv
    PROVE  /\ maps \in Seq(SUBSET AllOps) /\ Len(maps) \in Nat
           /\ table = Len(maps) /\ DOMAIN maps = 1..Len(maps)
           /\ abouts \in Seq(SUBSET AllTags) /\ Len(abouts) \in Nat
           /\ about = Len(abouts) /\ DOMAIN abouts = 1..Len(abouts)
           /\ grids \in Seq(SUBSET AllOps) /\ Len(grids) \in Nat
           /\ grid \in 0..Len(grids) /\ DOMAIN grids = 1..Len(grids)
           /\ gv \in 0..Len(grids) /\ freed \subseteq 1..Len(grids)
BY DEF TypeInv, TypeOK, TablesTypeOK

LEMMA Moved ==
    ASSUME TypeInv, NEW t \in Threads, NEW l, NEW n, NEW o,
           pc' = [pc EXCEPT ![t] = l],
           k' = [k EXCEPT ![t] = n] \/ (UNCHANGED k /\ n = k[t]),
           obj' = [obj EXCEPT ![t] = o] \/ (UNCHANGED obj /\ o = obj[t])
    PROVE  Move(t, l, n, o)
BY DEF TypeInv, TypeOK, ThreadsTypeOK, Move
-----------------------------------------------------------------------------
(* Types and points *)

LEMMA TableTypes ==
    ASSUME TypeInv, NEW t \in Threads,
           Request(t) \/ CheckTable(t) \/ CreateTable(t) \/ InsertOp(t) \/ FindOp(t)
    PROVE  TypeInv'
<1> USE DEF At, Goto, Hold
<1>0. PICK n \in Nat \ {0}, o \in Nat : Here(t, n, o)
  BY Standing
<1>1. CASE Request(t)
  <2>1. Move(t, "check", n, o)
    BY <1>0, <1>1, Moved DEF Request, Here, tables
  <2>2. Fits("check", n, o)
    BY <1>0, <1>1 DEF Request, Here, Fits, Nowhere
  <2>3. want' \in [Threads -> AllOps]
    BY <1>0, <1>1 DEF Request, Here
  <2>. QED
    BY <1>1, <2>1, <2>2, <2>3, MoveOnly DEF Request
<1>2. CASE CheckTable(t)
  <2>1. CASE table = 0
    <3>1. Move(t, "create", n, o)
      BY <1>0, <1>2, <2>1, Moved DEF CheckTable, Here
    <3>2. Fits("create", n, o)
      BY <1>0, <1>2 DEF CheckTable, Here, Fits, Nowhere
    <3>. QED
      BY <1>0, <1>2, <3>1, <3>2, MoveOnly DEF CheckTable, Here
  <2>2. CASE table # 0
    <3>1. Move(t, "find", n, table)
      BY <1>0, <1>2, <2>2, Moved DEF CheckTable, Here
    <3>2. Fits("find", n, table)
      BY <1>0, <1>2, <2>2, Sizes DEF CheckTable, Here, Fits, Nowhere
    <3>. QED
      BY <1>0, <1>2, <3>1, <3>2, Sizes, MoveOnly DEF CheckTable, Here
  <2>. QED
    BY <2>1, <2>2
<1>3. CASE CreateTable(t)
  <2>1. /\ maps' \in Seq(SUBSET AllOps) /\ Len(maps') = Len(maps) + 1
        /\ table' = Len(maps') /\ pc[t] = "create"
        /\ UNCHANGED <<about, abouts, grid, grids, freed, gv, want, k, obj, up>>
    BY <1>3, Sizes, Appended DEF CreateTable
  <2>2. TablesTypeOK' /\ Grows
    BY <2>1, Sizes DEF TablesTypeOK, Grows
  <2>3. Move(t, "insert", n, o)
    BY <1>0, <1>3, <2>1, Moved DEF CreateTable, Here
  <2>4. Fits("insert", n, o)'
    BY <1>0, <2>1, Members, Sizes DEF Here, Fits, Nowhere
  <2>. QED
    BY <1>0, <2>1, <2>2, <2>3, <2>4, MoveFits DEF Here
<1>4. CASE InsertOp(t)
  <2>1. pc[t] = "insert" /\ n \in 1..Len(OpNames) /\ table \in DOMAIN maps
    BY <1>0, <1>4, Sizes, Members DEF InsertOp, Here, Fits, Nowhere
  <2>2. maps[table] \cup {OpNames[n]} \in SUBSET AllOps
    BY <2>1, Members, Sizes
  <2>3. maps' = [maps EXCEPT ![table] = maps[table] \cup {OpNames[n]}]
    BY <1>0, <1>4 DEF InsertOp, Here
  <2>4. /\ maps' \in Seq(SUBSET AllOps) /\ Len(maps') = Len(maps)
        /\ UNCHANGED <<table, about, abouts, grid, grids, freed, gv, want, up>>
    BY <1>4, <2>1, <2>2, <2>3, Sizes, Replaced DEF InsertOp
  <2>5. TablesTypeOK' /\ Grows
    BY <2>4, Sizes DEF TablesTypeOK, Grows
  <2>6. CASE n < Len(OpNames)
    <3>1. k' = [k EXCEPT ![t] = n + 1] /\ UNCHANGED <<pc, obj>>
      BY <1>0, <1>4, <2>6 DEF InsertOp, Here
    <3>2. Move(t, "insert", n + 1, o)
      BY <1>0, <2>1, <3>1 DEF Move, TypeInv, TypeOK, ThreadsTypeOK, Here
    <3>3. Fits("insert", n + 1, o)'
      BY <1>0, <2>1, <2>4, <2>6, Members DEF Here, Fits, Nowhere
    <3>. QED
      BY <1>0, <2>4, <2>5, <3>2, <3>3, MoveFits DEF Here
  <2>7. CASE n = Len(OpNames)
    <3>1. Move(t, "find", 1, table)
      BY <1>0, <1>4, <2>7 DEF InsertOp, Here, Move
    <3>2. Fits("find", 1, table)'
      BY <2>1, <2>4, Sizes DEF Fits, Nowhere
    <3>. QED
      BY <1>0, <2>4, <2>5, <3>1, <3>2, Sizes, MoveFits DEF Here
  <2>. QED
    BY <2>1, <2>6, <2>7
<1>5. CASE FindOp(t)
  <2>1. CASE Done(t)
    BY <1>5, <2>1, TablesStutter, DoneTypes DEF FindOp
  <2>2. CASE ~Done(t)
    <3>1. PICK l \in {"aboutCheck", "gridCheck"} :
             pc' = [pc EXCEPT ![t] = l] /\ UNCHANGED <<want, k, obj>>
      BY <1>5, <2>2 DEF FindOp
    <3>2. Move(t, l, n, o)
      BY <1>0, <3>1, Moved DEF Here
    <3>3. Fits(l, n, o)
      BY <1>0, <1>5 DEF FindOp, Here, Fits, Nowhere
    <3>. QED
      BY <1>0, <1>5, <3>1, <3>2, <3>3, MoveOnly DEF FindOp, Here
  <2>. QED
    BY <2>1, <2>2
<1>. QED
  BY <1>1, <1>2, <1>3, <1>4, <1>5

LEMMA AboutTypes ==
    ASSUME TypeInv, NEW t \in Threads,
           CheckAbout(t) \/ NewAbout(t) \/ FillAbout(t) \/ CopyAbout(t)
    PROVE  TypeInv'
<1> USE DEF At, Goto, Hold
<1>0. PICK n \in Nat \ {0}, o \in Nat : Here(t, n, o)
  BY Standing
<1>1. CASE CheckAbout(t)
  <2>1. CASE about = 0
    <3>1. Move(t, "aboutNew", n, o)
      BY <1>0, <1>1, <2>1, Moved DEF CheckAbout, Here
    <3>2. Fits("aboutNew", n, o)
      BY <1>0, <1>1 DEF CheckAbout, Here, Fits, Nowhere
    <3>. QED
      BY <1>0, <1>1, <3>1, <3>2, MoveOnly DEF CheckAbout, Here
  <2>2. CASE about # 0
    <3>1. Move(t, "aboutCopy", n, about)
      BY <1>0, <1>1, <2>2, Moved DEF CheckAbout, Here
    <3>2. Fits("aboutCopy", n, about)
      BY <1>0, <1>1 DEF CheckAbout, Here, Fits, Nowhere
    <3>. QED
      BY <1>0, <1>1, <3>1, <3>2, Sizes, MoveOnly DEF CheckAbout, Here
  <2>. QED
    BY <2>1, <2>2
<1>2. CASE NewAbout(t)
  <2>1. /\ abouts' \in Seq(SUBSET AllTags) /\ Len(abouts') = Len(abouts) + 1
        /\ about' = Len(abouts') /\ pc[t] = "aboutNew"
        /\ UNCHANGED <<table, maps, grid, grids, freed, gv, want, k, up>>
    BY <1>2, Sizes, Appended DEF NewAbout
  <2>2. TablesTypeOK' /\ Grows
    BY <2>1, Sizes DEF TablesTypeOK, Grows
  <2>3. Move(t, "aboutFill", n, 0)
    BY <1>0, <1>2, Moved DEF NewAbout, Here
  <2>4. Fits("aboutFill", n, 0)'
    BY <1>0, <2>1, Members, Sizes DEF Here, Fits, Nowhere
  <2>. QED
    BY <1>0, <2>1, <2>2, <2>3, <2>4, MoveFits DEF Here
<1>3. CASE FillAbout(t)
  <2>1. CASE Done(t) /\ UNCHANGED abouts
    <3>1. UNCHANGED <<tables, up>>
      BY <1>3, <2>1 DEF FillAbout, tables
    <3>. QED
      BY <2>1, <3>1, TablesStutter, DoneTypes
  <2>2. CASE ~(Done(t) /\ UNCHANGED abouts)
    <3>1. PICK d \in DOMAIN abouts : d = IF k[t] = 1 THEN about ELSE obj[t]
      BY <1>0, <1>3, Sizes DEF FillAbout, Here, Fits
    <3>2. n \in 1..Len(Tags) /\ pc[t] = "aboutFill" /\ table # 0 /\ about # 0
      BY <1>0, <1>3, Members DEF FillAbout, Here, Fits, Nowhere
    <3>3. abouts[d] \cup {Tags[n]} \in SUBSET AllTags
      <4>1. Tags[n] \in AllTags
        BY <3>2, Members
      <4>2. abouts[d] \in SUBSET AllTags
        BY <3>1, Sizes
      <4>. QED
        BY <4>1, <4>2
    <3>4. /\ UNCHANGED <<table, maps, about, grid, grids, freed, gv, up>>
          /\ want' \in [Threads -> AllOps]
      BY <1>0, <1>3, <2>2 DEF FillAbout, Here
    <3>5. abouts' \in Seq(SUBSET AllTags) /\ Len(abouts') = Len(abouts)
      <4>1. abouts' = [abouts EXCEPT ![d] = abouts[d] \cup {Tags[n]}]
        BY <1>0, <1>3, <2>2, <3>1 DEF FillAbout, Here
      <4>. QED
        BY <3>1, <3>3, <4>1, Sizes, Replaced
    <3>6. TablesTypeOK' /\ Grows
      BY <3>4, <3>5, Sizes DEF TablesTypeOK, Grows
    <3>7. CASE n < Len(Tags)
      <4>1. /\ k' = [k EXCEPT ![t] = n + 1] /\ obj' = [obj EXCEPT ![t] = d]
            /\ UNCHANGED pc
        BY <1>0, <1>3, <2>2, <3>1, <3>7 DEF FillAbout, Here
      <4>2. Move(t, "aboutFill", n + 1, d)
        BY <3>2, <4>1 DEF Move, TypeInv, TypeOK, ThreadsTypeOK
      <4>3. d \in Nat /\ d \in 1..Len(abouts')
        BY <3>1, <3>5, Sizes
      <4>4. Fits("aboutFill", n + 1, d)'
        BY <3>2, <3>4, <3>7, <4>3, Members DEF Fits, Nowhere
      <4>. QED
        BY <3>4, <3>6, <4>2, <4>3, <4>4, MoveFits
    <3>8. CASE n = Len(Tags)
      <4>1. PICK a \in Nat : a = about
        BY Sizes
      <4>2. Move(t, "aboutCopy", 1, a)
        BY <1>0, <1>3, <2>2, <3>8, <4>1 DEF FillAbout, Here, Move
      <4>3. Fits("aboutCopy", 1, a)'
        BY <3>2, <3>4 DEF Fits, Nowhere
      <4>. QED
        BY <3>4, <3>6, <4>2, <4>3, MoveFits
    <3>. QED
      BY <3>2, <3>7, <3>8
  <2>. QED
    BY <2>1, <2>2
<1>4. CASE CopyAbout(t)
  BY <1>4, TablesStutter, DoneTypes DEF CopyAbout
<1>. QED
  BY <1>1, <1>2, <1>3, <1>4

LEMMA GridTypes ==
    ASSUME TypeInv, NEW t \in Threads, ~Crash,
           \/ CheckGrid(t) \/ StaticView(t) \/ GridBegin(t) \/ GridEnd(t)
           \/ GridCopy(t) \/ GridTest(t) \/ GridSet(t) \/ GridView(t)
           \/ WriteGrid(t)
    PROVE  TypeInv'
<1> USE DEF At, Goto, Hold
<1>0. PICK n \in Nat \ {0}, o \in Nat : Here(t, n, o)
  BY Standing
<1>1. CASE CheckGrid(t)
  <2>1. PICK l \in {"gridBegin", "static"} : Move(t, l, n, o)
    BY <1>0, <1>1, Moved DEF CheckGrid, Here
  <2>2. Fits(l, n, o)
    BY <1>0, <1>1 DEF CheckGrid, Here, Fits, Nowhere
  <2>. QED
    BY <1>0, <1>1, <2>1, <2>2, MoveOnly DEF CheckGrid, Here
<1>2. CASE StaticView(t)
  <2>1. /\ gv' \in 0..Len(grids) /\ pc[t] = "static"
        /\ UNCHANGED <<table, maps, about, abouts, grid, grids, freed, want, up>>
    BY <1>2, Sizes DEF StaticView
  <2>2. TablesTypeOK' /\ Grows
    BY <2>1, Sizes DEF TablesTypeOK, Grows
  <2>3. PICK g \in Nat : g = gv'
    BY <2>1, Sizes
  <2>4. Move(t, "write", n, g)
    BY <1>0, <1>2, <2>3, Moved DEF StaticView, Here
  <2>5. Fits("write", n, g)'
    BY <1>0, <2>1 DEF Here, Fits, Nowhere
  <2>. QED
    BY <1>0, <2>1, <2>2, <2>4, <2>5, MoveFits DEF Here
<1>3. CASE GridBegin(t)
  <2>1. Move(t, "gridEnd", n, table)
    BY <1>0, <1>3, Moved DEF GridBegin, Here
  <2>2. Fits("gridEnd", n, table)
    BY <1>0, <1>3, Sizes DEF GridBegin, Here, Fits, Nowhere
  <2>. QED
    BY <1>0, <1>3, <2>1, <2>2, Sizes, MoveOnly DEF GridBegin, Here
<1>4. CASE GridEnd(t)
  <2>1. Move(t, "gridCopy", n, o)
    BY <1>0, <1>4, Moved DEF GridEnd, Here
  <2>2. Fits("gridCopy", n, o)
    BY <1>0, <1>4 DEF GridEnd, Here, Fits, Nowhere
  <2>. QED
    BY <1>0, <1>4, <2>1, <2>2, MoveOnly DEF GridEnd, Here
<1>5. CASE GridCopy(t)
  <2>1. pc[t] = "gridCopy" /\ maps[obj[t]] \in SUBSET AllOps
    BY <1>0, <1>5, Sizes DEF GridCopy, Here, Fits
  <2>2. /\ grids' \in Seq(SUBSET AllOps) /\ Len(grids') = Len(grids) + 1
        /\ UNCHANGED <<table, maps, about, abouts, grid, freed, gv, want, k, up>>
    BY <1>5, <2>1, Sizes, Appended DEF GridCopy
  <2>3. TablesTypeOK' /\ Grows
    BY <2>2, Sizes DEF TablesTypeOK, Grows
  <2>4. PICK g \in Nat : g = Len(grids) + 1
    BY Sizes
  <2>5. Move(t, "gridTest", n, g)
    BY <1>0, <1>5, <2>4, Moved DEF GridCopy, Here
  <2>6. Fits("gridTest", n, g)'
    BY <1>0, <2>1, <2>2, <2>4, Sizes DEF Here, Fits, Nowhere
  <2>. QED
    BY <1>0, <2>2, <2>3, <2>5, <2>6, MoveFits DEF Here
<1>6. CASE GridTest(t) \/ GridSet(t)
  <2>1. pc[t] \in {"gridTest", "gridSet"} /\ o \in 1..Len(grids)
    BY <1>0, <1>6 DEF GridTest, GridSet, Here, Fits
  <2>2. /\ freed' \subseteq 1..Len(grids) /\ grid' \in 0..Len(grids)
        /\ UNCHANGED <<table, maps, about, abouts, grids, gv, k, obj, up>>
        /\ want' \in [Threads -> AllOps]
    BY <1>0, <1>6, <2>1, Sizes DEF GridTest, GridSet, Here
  <2>3. TablesTypeOK' /\ Grows
    BY <2>2, Sizes DEF TablesTypeOK, Grows
  <2>4. PICK l \in {"gridSet", "gridView"} : Move(t, l, n, o)
    BY <1>0, <1>6, <2>2, Moved DEF GridTest, GridSet, Here
  <2>5. Fits(l, n, o)' /\ l \in Points
    BY <1>0, <2>1, <2>2 DEF Here, Fits, Nowhere
  <2>. QED
    BY <1>0, <2>2, <2>3, <2>4, <2>5, MoveFits
<1>7. CASE GridView(t)
  <2>1. PICK g \in Nat : g = grid
    BY Sizes
  <2>2. Move(t, "write", n, g)
    BY <1>0, <1>7, <2>1, Moved DEF GridView, Here
  <2>3. Fits("write", n, g)
    BY <1>0, <1>7 DEF GridView, Here, Fits, Nowhere
  <2>. QED
    BY <1>0, <1>7, <2>2, <2>3, MoveOnly DEF GridView, Here
<1>8. CASE WriteGrid(t)
  BY <1>8, TablesStutter, DoneTypes DEF WriteGrid
<1>. QED
  BY <1>1, <1>2, <1>3, <1>4, <1>5, <1>6, <1>7, <1>8
-----------------------------------------------------------------------------
(* A step of a thread moves that thread only. *)
LEMMA OthersStay ==
    ASSUME TypeInv, NEW t \in Threads, Request(t) \/ Step(t), ~Crash,
           NEW u \in Threads, u # t
    PROVE  pc'[u] = pc[u] /\ k'[u] = k[u] /\ obj'[u] = obj[u]
<1> USE DEF TypeInv, TypeOK, ThreadsTypeOK, Goto, Hold, Done
<1>1. CASE Request(t) \/ CheckTable(t) \/ CreateTable(t) \/ InsertOp(t) \/ FindOp(t)
  BY <1>1 DEF Request, CheckTable, CreateTable, InsertOp, FindOp
<1>2. CASE CheckAbout(t) \/ NewAbout(t) \/ FillAbout(t) \/ CopyAbout(t)
  BY <1>2 DEF CheckAbout, NewAbout, FillAbout, CopyAbout
<1>3. CASE CheckGrid(t) \/ StaticView(t) \/ GridBegin(t) \/ GridEnd(t)
  BY <1>3 DEF CheckGrid, StaticView, GridBegin, GridEnd
<1>4. CASE GridCopy(t) \/ GridTest(t) \/ GridSet(t) \/ GridView(t) \/ WriteGrid(t)
  BY <1>4 DEF GridCopy, GridTest, GridSet, GridView, WriteGrid
<1>. QED
  BY <1>1, <1>2, <1>3, <1>4 DEF Step

(* What each part of the state is left alone by. *)
LEMMA Elsewhere ==
    ASSUME TypeInv, NEW t \in Threads, Request(t) \/ Step(t), ~Crash
    PROVE  /\ ~CreateTable(t) /\ ~InsertOp(t)
                => /\ UNCHANGED <<table, maps>>
                   /\ pc[t] # "insert" /\ pc'[t] # "insert"
           /\ ~NewAbout(t) /\ ~FillAbout(t)
                => /\ UNCHANGED <<about, abouts>>
                   /\ pc[t] # "aboutFill" /\ pc'[t] # "aboutFill"
           /\ ~GridCopy(t) /\ ~GridTest(t) /\ ~GridSet(t)
                => /\ UNCHANGED <<grid, grids, freed>>
                   /\ ~Owns(t) /\ ~(Owns(t)')
<1> USE DEF At, Goto, Done, Owns, tables, TypeInv, TypeOK, ThreadsTypeOK
<1>1. CASE Request(t) \/ CheckTable(t) \/ FindOp(t)
  BY <1>1 DEF Request, CheckTable, FindOp
<1>2. CASE CreateTable(t) \/ InsertOp(t)
  BY <1>2 DEF CreateTable, InsertOp
<1>3. CASE CheckAbout(t) \/ CopyAbout(t)
  BY <1>3 DEF CheckAbout, CopyAbout
<1>4. CASE NewAbout(t) \/ FillAbout(t)
  BY <1>4 DEF NewAbout, FillAbout
<1>5. CASE CheckGrid(t) \/ StaticView(t) \/ GridBegin(t) \/ GridEnd(t)
  BY <1>5 DEF CheckGrid, StaticView, GridBegin, GridEnd
<1>6. CASE GridCopy(t) \/ GridTest(t) \/ GridSet(t)
  BY <1>6 DEF GridCopy, GridTest, GridSet
<1>7. CASE GridView(t) \/ WriteGrid(t)
  BY <1>7 DEF GridView, WriteGrid
<1>. QED
  BY <1>1, <1>2, <1>3, <1>4, <1>5, <1>6, <1>7 DEF Step

(* The table *)

LEMMA TableStep ==
    ASSUME TypeInv, TableInv, NEW t \in Threads, Request(t) \/ Step(t), ~Crash
    PROVE  TableInv'
<1>1. CASE CreateTable(t)
  <2>1. table' = Len(maps) + 1 /\ maps' = Append(maps, {}) /\ pc'[t] = "insert"
    BY <1>1 DEF CreateTable, Goto, TypeInv, TypeOK, ThreadsTypeOK
  <2>2. k'[t] = 1
    <3>1. k' = k /\ pc[t] = "create" /\ Fits(pc[t], k[t], obj[t])
      BY <1>1 DEF CreateTable, At, TypeInv, PointsInv
    <3>. QED
      BY <3>1 DEF Fits
  <2>3. \A i \in 1..(k'[t] - 1) : OpNames[i] \in maps'[table']
    BY <2>2
  <2>. QED
    BY <2>1, <2>3 DEF TableInv
<1>2. CASE InsertOp(t)
  <2>1. PICK n \in Nat \ {0}, o \in Nat : Here(t, n, o)
    BY Standing
  <2>2. n \in 1..Len(OpNames) /\ table \in DOMAIN maps /\ table' = table
    BY <1>2, <2>1, Sizes, Members DEF InsertOp, At, Here, Fits, Nowhere
  <2>3. maps'[table] = maps[table] \cup {OpNames[n]}
    <3>1. maps' = [maps EXCEPT ![table] = maps[table] \cup {OpNames[n]}]
      BY <1>2, <2>1 DEF InsertOp, Here
    <3>2. maps[table] \cup {OpNames[n]} \in SUBSET AllOps
      BY <2>2, Members, Sizes
    <3>. QED
      BY <2>2, <3>1, <3>2, Sizes, Replaced
  <2>4. CASE AllOps \subseteq maps[table]
    BY <2>2, <2>3, <2>4 DEF TableInv
  <2>5. CASE \E u \in Threads : /\ pc[u] = "insert"
                                /\ \A i \in 1..(k[u] - 1) : OpNames[i] \in maps[table]
    <3>1. PICK u \in Threads : /\ pc[u] = "insert"
                               /\ \A i \in 1..(k[u] - 1) : OpNames[i] \in maps[table]
      BY <2>5
    <3>2. CASE u # t
      <4>1. pc'[u] = "insert" /\ k'[u] = k[u]
        BY <1>2, <3>1, <3>2, OthersStay DEF Step
      <4>2. \A i \in 1..(k'[u] - 1) : OpNames[i] \in maps'[table']
        BY <2>2, <2>3, <3>1, <4>1
      <4>. QED
        BY <4>1, <4>2 DEF TableInv
    <3>3. CASE u = t
      <4>1. \A i \in 1..n : OpNames[i] \in maps'[table']
        BY <2>1, <2>2, <2>3, <3>1, <3>3 DEF Here
      <4>2. CASE n < Len(OpNames)
        <5>1. pc'[t] = "insert" /\ k'[t] = n + 1
          BY <1>2, <2>1, <3>1, <3>3, <4>2
          DEF InsertOp, Here, TypeInv, TypeOK, ThreadsTypeOK
        <5>2. \A i \in 1..(k'[t] - 1) : OpNames[i] \in maps'[table']
          BY <4>1, <5>1
        <5>. QED
          BY <5>1, <5>2 DEF TableInv
      <4>3. CASE n = Len(OpNames)
        <5>1. AllOps \subseteq maps'[table']
          BY <4>1, <4>3, Members
        <5>. QED
          BY <5>1 DEF TableInv
      <4>. QED
        BY <2>2, <4>2, <4>3
    <3>. QED
      BY <3>2, <3>3
  <2>. QED
    BY <2>2, <2>4, <2>5, Sizes DEF TableInv
<1>3. CASE ~CreateTable(t) /\ ~InsertOp(t)
  <2>1. UNCHANGED <<table, maps>> /\ pc[t] # "insert"
    BY <1>3, Elsewhere
  <2>2. ASSUME NEW u \in Threads, pc[u] = "insert"
        PROVE  pc'[u] = "insert" /\ k'[u] = k[u]
    BY <2>1, <2>2, OthersStay
  <2>. QED
    BY <2>1, <2>2 DEF TableInv
<1>. QED
  BY <1>1, <1>2, <1>3

(* The about record *)

LEMMA AboutStep ==
    ASSUME TypeInv, AboutInv, TypeInv', NEW t \in Threads,
           Request(t) \/ Step(t), ~Crash
    PROVE  AboutInv'
<1>0. ASSUME NEW u \in Threads, u # t, NEW d PROVE Fills(u, d)' <=> Fills(u, d)
  BY <1>0, OthersStay DEF Fills
<1>1. CASE NewAbout(t)
  <2>1. /\ DOMAIN abouts' = DOMAIN abouts \cup {Len(abouts) + 1}
        /\ \A d \in DOMAIN abouts : abouts'[d] = abouts[d]
        /\ abouts'[Len(abouts) + 1] = {}
    BY <1>1, Sizes, Appended DEF NewAbout
  <2>2. pc[t] = "aboutNew" /\ k[t] = 1 /\ k' = k
    <3>1. pc[t] = "aboutNew" /\ Fits(pc[t], k[t], obj[t])
      BY <1>1 DEF NewAbout, At, TypeInv, PointsInv
    <3>. QED
      BY <1>1, <3>1 DEF NewAbout, Fits
  <2>3. \A d : ~Fills(t, d) /\ ~(Fills(t, d)')
    BY <2>2 DEF Fills
  <2>4. ASSUME NEW u \in Threads, NEW d, Fills(u, d)'
        PROVE  u # t /\ Fills(u, d) /\ d \in DOMAIN abouts
    <3>1. u # t /\ Fills(u, d)
      BY <1>0, <2>3, <2>4
    <3>. QED
      BY <3>1, Sizes DEF TypeInv, PointsInv, Fits, Fills
  <2>5. \A u \in Threads : \A d \in DOMAIN abouts' :
           Fills(u, d)' => \A i \in 1..(k'[u] - 1) : Tags[i] \in abouts'[d]
    BY <2>1, <2>2, <2>4 DEF AboutInv
  <2>6. \A d \in DOMAIN abouts' :
           abouts'[d] \in {{}, AllTags} \/ \E u \in Threads : Fills(u, d)'
    BY <1>0, <2>1, <2>3 DEF AboutInv
  <2>. QED
    BY <2>5, <2>6 DEF AboutInv
<1>2. CASE FillAbout(t)
  <2>1. PICK n \in Nat \ {0}, o \in Nat : Here(t, n, o)
    BY Standing
  <2>2. CASE Done(t) /\ UNCHANGED abouts
    <3>1. n = 1 \/ pc' = [pc EXCEPT ![t] = "idle"]
      BY <2>2 DEF Done
    <3>2. \A d : ~(Fills(t, d)')
      BY <2>2 DEF Done, Fills, TypeInv, TypeOK, ThreadsTypeOK
    <3>3. \A d : ~Fills(t, d)
      <4>1. k[t] = 1
        BY <1>2, <2>2
        DEF FillAbout, Done, Goto, TypeInv, TypeOK, ThreadsTypeOK, At
      <4>. QED
        BY <4>1 DEF Fills
    <3>4. \A u \in Threads, d \in DOMAIN abouts : Fills(u, d)' <=> Fills(u, d)
      BY <1>0, <3>2, <3>3
    <3>5. ASSUME NEW u \in Threads, NEW d \in DOMAIN abouts, Fills(u, d)'
          PROVE  k'[u] = k[u]
      BY <3>2, <3>5, OthersStay
    <3>. QED
      BY <2>2, <3>4, <3>5 DEF AboutInv
  <2>3. CASE ~(Done(t) /\ UNCHANGED abouts)
    <3>1. PICK d \in DOMAIN abouts : d = IF k[t] = 1 THEN about ELSE obj[t]
      <4>1. pc[t] = "aboutFill" /\ Fits("aboutFill", k[t], obj[t]) /\ k[t] = n
        BY <1>2, <2>1 DEF FillAbout, At, Here
      <4>. QED
        BY <4>1, Sizes DEF Fits
    <3>2. n \in 1..Len(Tags) /\ pc[t] = "aboutFill"
      BY <1>2, <2>1, Members DEF FillAbout, At, Here, Fits
    <3>3. /\ DOMAIN abouts' = DOMAIN abouts
          /\ abouts'[d] = abouts[d] \cup {Tags[n]}
          /\ \A e \in DOMAIN abouts : e # d => abouts'[e] = abouts[e]
      <4>1. abouts' = [abouts EXCEPT ![d] = abouts[d] \cup {Tags[n]}]
        BY <1>2, <2>1, <2>3, <3>1 DEF FillAbout, Here
      <4>. QED
        BY <3>1, <4>1, Sizes
    <3>4. \A i \in 1..n : Tags[i] \in abouts'[d]
      <4>1. CASE n = 1
        BY <3>3, <4>1
      <4>2. CASE n > 1
        <5>1. Fills(t, d)
          BY <2>1, <3>1, <3>2, <4>2 DEF Fills, Here
        <5>2. \A i \in 1..(n - 1) : Tags[i] \in abouts[d]
          BY <2>1, <5>1 DEF AboutInv, Here
        <5>. QED
          BY <3>3, <5>2
      <4>. QED
        BY <4>1, <4>2
    <3>5. \A e : Fills(t, e) => e = d
      BY <2>1, <3>1 DEF Fills, Here
    <3>6. CASE n < Len(Tags)
      <4>1. pc'[t] = "aboutFill" /\ k'[t] = n + 1 /\ obj'[t] = d
        BY <1>2, <2>1, <2>3, <3>1, <3>2, <3>6
        DEF FillAbout, Hold, Here, TypeInv, TypeOK, ThreadsTypeOK
      <4>2. \A e : Fills(t, e)' <=> e = d
        BY <3>2, <4>1 DEF Fills
      <4>3. ASSUME NEW u \in Threads, NEW e \in DOMAIN abouts, Fills(u, e)'
            PROVE  \A i \in 1..(k'[u] - 1) : Tags[i] \in abouts'[e]
        <5>1. CASE u = t
          BY <3>4, <4>1, <4>2, <4>3, <5>1
        <5>2. CASE u # t
          <6>1. Fills(u, e) /\ k'[u] = k[u]
            BY <1>0, <4>3, <5>2, OthersStay
          <6>. QED
            BY <3>3, <6>1 DEF AboutInv
        <5>. QED
          BY <5>1, <5>2
      <4>4. ASSUME NEW e \in DOMAIN abouts
            PROVE  abouts'[e] \in {{}, AllTags} \/ \E u \in Threads : Fills(u, e)'
        <5>1. CASE e = d
          BY <4>2, <5>1
        <5>2. CASE e # d
          BY <1>0, <3>3, <3>5, <5>2 DEF AboutInv
        <5>. QED
          BY <5>1, <5>2
      <4>. QED
        BY <3>3, <4>3, <4>4 DEF AboutInv
    <3>7. CASE n = Len(Tags)
      <4>1. pc'[t] = "aboutCopy"
        BY <1>2, <2>1, <2>3, <3>7
        DEF FillAbout, Goto, Here, TypeInv, TypeOK, ThreadsTypeOK
      <4>2. \A e : ~(Fills(t, e)')
        BY <4>1 DEF Fills
      <4>3. ASSUME NEW u \in Threads, NEW e \in DOMAIN abouts, Fills(u, e)'
            PROVE  \A i \in 1..(k'[u] - 1) : Tags[i] \in abouts'[e]
        <5>1. u # t
          BY <4>2, <4>3
        <5>2. Fills(u, e) /\ k'[u] = k[u]
          BY <1>0, <4>3, <5>1, OthersStay
        <5>. QED
          BY <3>3, <5>2 DEF AboutInv
      <4>4. ASSUME NEW e \in DOMAIN abouts
            PROVE  abouts'[e] \in {{}, AllTags} \/ \E u \in Threads : Fills(u, e)'
        <5>1. CASE e = d
          <6>1. AllTags \subseteq abouts'[d]
            BY <3>4, <3>7, Members
          <6>2. abouts'[d] \subseteq AllTags
            BY <3>3 DEF TypeInv, TypeOK, TablesTypeOK
          <6>. QED
            BY <5>1, <6>1, <6>2
        <5>2. CASE e # d
          BY <1>0, <3>3, <3>5, <5>2 DEF AboutInv
        <5>. QED
          BY <5>1, <5>2
      <4>. QED
        BY <3>3, <4>3, <4>4 DEF AboutInv
    <3>. QED
      BY <3>2, <3>6, <3>7
  <2>. QED
    BY <2>2, <2>3
<1>3. CASE ~NewAbout(t) /\ ~FillAbout(t)
  <2>1. UNCHANGED <<about, abouts>> /\ pc[t] # "aboutFill" /\ pc'[t] # "aboutFill"
    BY <1>3, Elsewhere
  <2>2. ASSUME NEW u \in Threads, NEW d, Fills(u, d) \/ Fills(u, d)'
        PROVE  Fills(u, d) /\ Fills(u, d)' /\ k'[u] = k[u]
    <3>1. u # t
      BY <2>1, <2>2 DEF Fills
    <3>. QED
      BY <1>0, <2>2, <3>1, OthersStay
  <2>. QED
    BY <2>1, <2>2 DEF AboutInv
<1>. QED
  BY <1>1, <1>2, <1>3

(* The grids of the ops operation *)

LEMMA GridStep ==
    ASSUME TypeInv, GridInv, NEW t \in Threads, Request(t) \/ Step(t), ~Crash
    PROVE  GridInv'
<1>0. ASSUME NEW u \in Threads, u # t
      PROVE  (Owns(u)' <=> Owns(u)) /\ obj'[u] = obj[u]
  BY <1>0, OthersStay DEF Owns
<1> USE DEF At, Goto, Hold
<1>1. CASE GridCopy(t)
  <2>1. PICK g \in Nat : g = Len(grids) + 1
    BY Sizes
  <2>2. obj'[t] = g /\ ~Owns(t) /\ UNCHANGED <<grid, freed>>
    BY <1>1, <2>1 DEF GridCopy, Owns, TypeInv, TypeOK, ThreadsTypeOK
  <2>3. g # grid /\ g \notin freed
    BY <2>1, Sizes
  <2>4. ASSUME NEW u \in Threads, Owns(u) PROVE obj[u] # g
    <3>1. obj[u] \in 1..Len(grids)
      BY <2>4 DEF Owns, TypeInv, PointsInv, Fits
    <3>. QED
      BY <2>1, <3>1, Sizes
  <2>. QED
    BY <1>0, <2>2, <2>3, <2>4 DEF GridInv
<1>2. CASE GridTest(t)
  <2>1. /\ Owns(t) /\ UNCHANGED <<grid, obj>>
        /\ \/ UNCHANGED freed
           \/ ~(Owns(t)') /\ freed' = freed \cup {obj[t]}
    BY <1>2 DEF GridTest, Owns, TypeInv, TypeOK, ThreadsTypeOK
  <2>. QED
    BY <1>0, <2>1 DEF GridInv
<1>3. CASE GridSet(t)
  <2>1. /\ Owns(t) /\ ~(Owns(t)') /\ UNCHANGED obj /\ grid' = obj[t]
        /\ freed' \subseteq freed \cup {grid}
    BY <1>3 DEF GridSet, Owns, TypeInv, TypeOK, ThreadsTypeOK
  <2>. QED
    BY <1>0, <2>1 DEF GridInv
<1>4. CASE ~GridCopy(t) /\ ~GridTest(t) /\ ~GridSet(t)
  <2>1. UNCHANGED <<grid, grids, freed>> /\ ~Owns(t) /\ ~(Owns(t)')
    BY <1>4, Elsewhere
  <2>. QED
    BY <1>0, <2>1 DEF GridInv
<1>. QED
  BY <1>1, <1>2, <1>3, <1>4

(* With one table *)

LEMMA OneTableStep ==
    ASSUME TypeInv, TypeInv', TableInv, OneTableInv, NEW t \in Threads,
           Request(t) \/ Step(t), ~Crash
    PROVE  OneTableInv'
<1>0. ASSUME NEW u \in Threads, u # t
      PROVE  pc'[u] = pc[u] /\ k'[u] = k[u] /\ obj'[u] = obj[u]
  BY <1>0, OthersStay
<1> USE DEF At, Goto, Hold
<1>1. CASE CreateTable(t)
  <2>1. /\ Len(maps') = Len(maps) + 1 /\ UNCHANGED grids
        /\ pc[t] = "create" /\ pc'[t] = "insert"
    BY <1>1, Sizes, Appended DEF CreateTable, TypeInv, TypeOK, ThreadsTypeOK
  <2>2. CASE Len(maps) # 0
    BY <2>1, <2>2, Sizes DEF OneTableInv
  <2>3. CASE Len(maps) = 0
    <3>1. maps'[1] = {} /\ grids' = <<>> /\ Len(maps') = 1
      BY <1>1, <2>1, <2>3, Sizes, Appended DEF CreateTable, OneTableInv
    <3>2. ASSUME NEW u \in Threads, u # t PROVE pc'[u] \in Nowhere
      BY <1>0, <2>3, <3>2, Sizes DEF TypeInv, PointsInv, Fits
    <3>. QED
      BY <2>1, <3>1, <3>2 DEF OneTableInv, Nowhere, Listing
  <2>. QED
    BY <2>2, <2>3
<1>2. CASE InsertOp(t)
  <2>1. PICK n \in Nat \ {0}, o \in Nat : Here(t, n, o)
    BY Standing
  <2>2. /\ n \in 1..Len(OpNames) /\ table \in DOMAIN maps /\ pc[t] = "insert"
        /\ UNCHANGED <<table, grids>>
    BY <1>2, <2>1, Sizes, Members DEF InsertOp, Here, Fits, Nowhere
  <2>3. /\ Len(maps') = Len(maps)
        /\ maps'[table] = maps[table] \cup {OpNames[n]}
    <3>1. maps' = [maps EXCEPT ![table] = maps[table] \cup {OpNames[n]}]
      BY <1>2, <2>1 DEF InsertOp, Here
    <3>2. maps[table] \cup {OpNames[n]} \in SUBSET AllOps
      BY <2>2, Members, Sizes
    <3>. QED
      BY <2>2, <3>1, <3>2, Sizes, Replaced
  <2>4. CASE Len(maps) = 1
    <3>1. table = 1
      BY <2>4, Sizes
    <3>2. \A p \in maps[1] : \E i \in 1..(n - 1) : p = OpNames[i]
      BY <2>1, <2>2, <2>4 DEF OneTableInv, Here
    <3>3. "ops" \notin maps[1]
      <4>1. DOMAIN OpNames = 1..Len(OpNames)
        BY OpNamesAssumption
      <4>. QED
        BY <2>2, <3>2, <4>1, OrderAssumption
    <3>4. \A u \in Threads : pc[u] \notin Listing
      BY <2>4, <3>3, OpNamesAssumption DEF OneTableInv
    <3>5. \A u \in Threads : pc[u] = "insert" => u = t
      BY <2>2, <2>4 DEF OneTableInv
    <3>6. pc'[t] \in {"insert", "find"} /\ (pc'[t] = "insert" => k'[t] = n + 1)
      BY <1>2, <2>1, <2>2 DEF InsertOp, Here, TypeInv, TypeOK, ThreadsTypeOK
    <3>7. \A u \in Threads : pc'[u] \notin Listing /\ (pc'[u] = "insert" => u = t)
      BY <1>0, <3>4, <3>5, <3>6 DEF Listing
    <3>8. \A p \in maps'[1] : \E i \in 1..n : p = OpNames[i]
      BY <2>2, <2>3, <3>1, <3>2
    <3>9. \A u \in Threads :
              pc'[u] = "insert" => \A p \in maps'[1] :
                  \E i \in 1..(k'[u] - 1) : p = OpNames[i]
      BY <3>6, <3>7, <3>8
    <3>10. \A g \in DOMAIN grids' : grids'[g] = AllOps
      BY <2>2, <2>4 DEF OneTableInv
    <3>. QED
      BY <2>3, <2>4, <3>7, <3>9, <3>10 DEF OneTableInv
  <2>5. CASE Len(maps) # 1
    BY <2>2, <2>3, <2>5, Sizes DEF OneTableInv
  <2>. QED
    BY <2>4, <2>5
<1>3. CASE FindOp(t)
  <2>1. UNCHANGED <<maps, grids>> /\ pc[t] = "find" /\ pc'[t] # "insert"
    BY <1>3 DEF FindOp, Done, tables, TypeInv, TypeOK, ThreadsTypeOK
  <2>2. ASSUME Len(maps) = 1, pc'[t] \in Listing PROVE maps[1] = AllOps
    <3>1. "ops" \in maps[1]
      <4>1. obj[t] \in 1..Len(maps)
        BY <2>1 DEF TypeInv, PointsInv, Fits
      <4>2. want[t] = "ops" /\ want[t] \in maps[obj[t]]
        BY <1>3, <2>2 DEF FindOp, Done, Listing, TypeInv, TypeOK, ThreadsTypeOK
      <4>. QED
        BY <2>2, <4>1, <4>2
    <3>2. \A u \in Threads : pc[u] # "insert"
      <4>1. DOMAIN OpNames = 1..Len(OpNames) /\ Len(OpNames) \in Nat
        BY OpNamesAssumption
      <4>2. ASSUME NEW u \in Threads, pc[u] = "insert" PROVE FALSE
        <5>1. PICK i \in 1..(k[u] - 1) : OpNames[i] = "ops"
          BY <2>2, <3>1, <4>2 DEF OneTableInv
        <5>2. k[u] \in Nat /\ k[u] <= Len(OpNames)
          BY <4>2 DEF TypeInv, TypeOK, ThreadsTypeOK, PointsInv, Fits
        <5>. QED
          BY <4>1, <5>1, <5>2, OrderAssumption
      <4>. QED
        BY <4>2
    <3>3. table = 1 /\ maps[1] \in SUBSET AllOps
      <4>1. table = 1 /\ 1 \in DOMAIN maps
        BY <2>2, Sizes
      <4>. QED
        BY <4>1, Sizes
    <3>4. AllOps \subseteq maps[1]
      BY <3>2, <3>3 DEF TableInv
    <3>. QED
      BY <3>3, <3>4
  <2>. QED
    BY <1>0, <2>1, <2>2 DEF OneTableInv
<1>4. CASE GridCopy(t)
  <2>1. UNCHANGED maps /\ pc[t] = "gridCopy" /\ pc'[t] = "gridTest"
    BY <1>4 DEF GridCopy, TypeInv, TypeOK, ThreadsTypeOK
  <2>2. obj[t] \in 1..Len(maps)
    BY <2>1 DEF TypeInv, PointsInv, Fits
  <2>3. Len(maps) # 0
    BY <2>2, Sizes
  <2>4. ASSUME Len(maps) = 1 PROVE \A g \in DOMAIN grids' : grids'[g] = AllOps
    <3>1. maps[obj[t]] = AllOps
      BY <2>1, <2>2, <2>4 DEF OneTableInv, Listing
    <3>2. grids' = Append(grids, AllOps) /\ \A g \in DOMAIN grids : grids[g] = AllOps
      BY <1>4, <2>4, <3>1 DEF GridCopy, OneTableInv
    <3>. QED
      BY <3>2, Sizes
  <2>. QED
    BY <1>0, <2>1, <2>3, <2>4 DEF OneTableInv, Listing
<1>5. CASE ~CreateTable(t) /\ ~InsertOp(t) /\ ~FindOp(t) /\ ~GridCopy(t)
  <2>1. UNCHANGED <<table, maps>> /\ pc[t] # "insert" /\ pc'[t] # "insert"
    BY <1>5, Elsewhere
  <2>2. UNCHANGED grids /\ (pc'[t] \in Listing => pc[t] \in Listing)
    <3> USE <1>5 DEF Listing, TypeInv, TypeOK, ThreadsTypeOK, Step, tables, Done
    <3>1. CASE Request(t) \/ CheckTable(t)
      BY <3>1 DEF Request, CheckTable
    <3>2. CASE CheckAbout(t) \/ NewAbout(t) \/ CopyAbout(t)
      BY <3>2 DEF CheckAbout, NewAbout, CopyAbout
    <3>3. CASE FillAbout(t)
      BY <3>3 DEF FillAbout
    <3>4. CASE CheckGrid(t) \/ StaticView(t) \/ GridBegin(t) \/ GridEnd(t)
      BY <3>4 DEF CheckGrid, StaticView, GridBegin, GridEnd
    <3>5. CASE GridTest(t) \/ GridSet(t) \/ GridView(t) \/ WriteGrid(t)
      BY <3>5 DEF GridTest, GridSet, GridView, WriteGrid
    <3>. QED
      BY <3>1, <3>2, <3>3, <3>4, <3>5
  <2>. QED
    BY <1>0, <2>1, <2>2 DEF OneTableInv
<1>. QED
  BY <1>1, <1>2, <1>3, <1>4, <1>5
-----------------------------------------------------------------------------
LEMMA StepInv ==
    ASSUME Inv, NEW t \in Threads, Request(t) \/ Step(t)
    PROVE  Inv'
<1>1. CASE Crash
  <2> USE DEF Inv, Crash, tables, threadVars
  <2>1. TypeInv'
    BY <1>1 DEF TypeInv, TypeOK, TablesTypeOK, ThreadsTypeOK, PointsInv, Fits
  <2>2. TableInv' /\ AboutInv' /\ GridInv' /\ OneTableInv'
    BY <1>1 DEF TableInv, AboutInv, Fills, GridInv, Owns, OneTableInv
  <2>. QED
    BY <2>1, <2>2
<1>2. CASE ~Crash
  <2>1. TypeInv'
    BY <1>2, TableTypes, AboutTypes, GridTypes DEF Step, Inv
  <2>. QED
    BY <1>2, <2>1, TableStep, AboutStep, GridStep, OneTableStep DEF Inv
<1>. QED
  BY <1>1, <1>2

LEMMA NextInv == Inv /\ [Next]_vars => Inv'
<1> SUFFICES ASSUME Inv, [Next]_vars PROVE Inv'
  OBVIOUS
<1>1. ASSUME NEW t \in Threads, Request(t) \/ Step(t) PROVE Inv'
  BY <1>1, StepInv
<1>2. CASE Race \/ UNCHANGED vars
  <2>1. UNCHANGED <<tables, threadVars>> /\ up' \in BOOLEAN
    BY <1>2 DEF Race, Crash, vars, Inv, TypeInv, TypeOK
  <2> USE <2>1 DEF Inv, tables, threadVars
  <2>2. TypeInv'
    BY DEF TypeInv, TypeOK, TablesTypeOK, ThreadsTypeOK, PointsInv, Fits
  <2>3. TableInv' /\ AboutInv' /\ GridInv' /\ OneTableInv'
    BY DEF TableInv, AboutInv, Fills, GridInv, Owns, OneTableInv
  <2>. QED
    BY <2>2, <2>3
<1>. QED
  BY <1>1, <1>2 DEF Next

LEMMA AlwaysInv == Spec => []Inv
BY InitInv, NextInv, PTL DEF Spec

(* Every variable has its type in every reachable state. *)
THEOREM TypesHold == Spec => []TypeOK
<1>1. Inv => TypeOK
  BY DEF Inv, TypeInv
<1>. QED
  BY <1>1, AlwaysInv, PTL

(* However many workers find no table and build one over the others', the  *)
(* one that StdOps::ops_map ends up with has every operation as soon as    *)
(* nobody is inserting.                                                    *)
THEOREM TableAlwaysSettles == Spec => []TableSettles
<1>1. Inv => TableSettles
  <2> SUFFICES ASSUME Inv, table # 0, \A t \in Threads : pc[t] # "insert"
               PROVE  maps[table] = AllOps
    BY DEF TableSettles
  <2>1. AllOps \subseteq maps[table]
    BY DEF Inv, TableInv
  <2>2. table \in DOMAIN maps
    BY Sizes DEF Inv
  <2>3. maps[table] \in SUBSET AllOps
    BY <2>2, Sizes DEF Inv
  <2>. QED
    BY <2>1, <2>3
<1>. QED
  BY <1>1, AlwaysInv, PTL

(* However many workers fill the about record over one another, and        *)
(* whether or not the host name is found, what TestProj::on_about leaves   *)
(* is a whole record or an empty one.                                      *)
THEOREM AboutNeverPartial == Spec => []AboutAllOrNothing
<1>1. Inv => AboutAllOrNothing
  BY Sizes DEF Inv, AboutInv, AboutAllOrNothing, Fills
<1>. QED
  BY <1>1, AlwaysInv, PTL

(* As long as one table only has been made, every grid that OpsOp makes    *)
(* of it lists every operation, even while the table is being filled.      *)
THEOREM GridAlwaysWhole == Spec => []GridIsWhole
<1>1. Inv => GridIsWhole
  <2>1. Inv /\ Len(maps) = 0 => DOMAIN grids = {}
    BY DEF Inv, OneTableInv
  <2>. QED
    BY <2>1, Sizes DEF Inv, OneTableInv, GridIsWhole
<1>. QED
  BY <1>1, AlwaysInv, PTL

(* The grid that OpsOp::ops_grid holds has not been deleted, however many  *)
(* workers make one and test and assign the auto_ptr in whatever order.    *)
THEOREM KeptGridAlwaysLives == Spec => []KeptGridLives
<1>1. Inv => KeptGridLives
  BY DEF Inv, GridInv, KeptGridLives
<1>. QED
  BY <1>1, AlwaysInv, PTL
=============================================================================
