----------------------------- MODULE LazyTables ------------------------------
(***************************************************************************)
(* What the server builds on first use, without any lock, while up to      *)
(* maxThreads HTTP workers serve requests: the table of operations         *)
(* (StdOps::ops_map), the constant part of the about record                *)
(* (TestProj::on_about), and the grid and the static GridView that the     *)
(* "ops" operation answers with (OpsOp::on_service).                       *)
(*                                                                         *)
(* The objects built are numbered in the order of their creation; 0 is the *)
(* null pointer.  Two threads on one container, one of them writing, are a *)
(* race: each access happens as if alone, or the process ends (up).  So    *)
(* does writing a view of a grid that has been deleted.                    *)
(***************************************************************************)
EXTENDS Integers, Sequences, FiniteSets, SequencesExt

CONSTANTS
    Threads,            \* HTTP workers
    OpNames,            \* the names of the table in the order of insertion
    Tags,               \* the tags of on_about in the order of adding
    HostNameMayFail     \* whether DNS::hostName() may throw

ASSUME OpNamesAssumption ==
    /\ OpNames \in Seq(STRING) /\ {"about", "ops"} \subseteq ToSet(OpNames)
    /\ Tags \in Seq(STRING) /\ Tags # <<>>
    /\ HostNameMayFail \in BOOLEAN

\* Every operation is inserted once, and "ops" after all the others.
ASSUME OrderAssumption ==
    /\ \A i, j \in DOMAIN OpNames : OpNames[i] = OpNames[j] => i = j
    /\ OpNames[Len(OpNames)] = "ops"

VARIABLES
    table, maps,        \* m_ops_map, and the contents of the maps made
    about, abouts,      \* m_about, and the tags of the dicts made
    grid, grids,        \* ops_grid, and the operations the grids made list
    freed,              \* grids that the auto_ptr ops_grid has deleted
    gv,                 \* the grid that the static GridView gv shows, or 0
    pc, want,           \* thread -> program point, operation asked for
    k,                  \* thread -> next entry to insert
    obj,                \* thread -> the object it holds a reference to
    up

tables == <<table, maps, about, abouts, grid, grids, freed, gv>>
threadVars == <<pc, want, k, obj>>
vars == <<tables, threadVars, up>>

AllOps == ToSet(OpNames)
AllTags == ToSet(Tags)

Points == {"idle", "check", "create", "insert", "find",
           "aboutCheck", "aboutNew", "aboutFill", "aboutCopy",
           "gridCheck", "gridBegin", "gridEnd", "gridCopy", "gridTest",
           "gridSet", "gridView", "static", "write"}

Init == /\ table = 0 /\ maps = <<>>
        /\ about = 0 /\ abouts = <<>>
        /\ grid = 0 /\ grids = <<>> /\ freed = {} /\ gv = 0
        /\ pc = [t \in Threads |-> "idle"]
        /\ want = [t \in Threads |-> OpNames[1]]
        /\ k = [t \in Threads |-> 1]
        /\ obj = [t \in Threads |-> 0]
        /\ up = TRUE

At(t, point) == up /\ pc[t] = point
Goto(t, point) == pc' = [pc EXCEPT ![t] = point]
Hold(t, o) == obj' = [obj EXCEPT ![t] = o]
Crash == up' = FALSE /\ UNCHANGED <<tables, threadVars>>

Done(t) == /\ pc' = [pc EXCEPT ![t] = "idle"]
           /\ want' = [want EXCEPT ![t] = OpNames[1]]
           /\ k' = [k EXCEPT ![t] = 1]
           /\ obj' = [obj EXCEPT ![t] = 0]
-----------------------------------------------------------------------------
(* StdOps::ops_map, called by TestProj::op for every request *)

Request(t) ==
    /\ At(t, "idle")
    /\ \E o \in AllOps : want' = [want EXCEPT ![t] = o]
    /\ Goto(t, "check")
    /\ UNCHANGED <<tables, k, obj, up>>

CheckTable(t) ==
    /\ At(t, "check")
    /\ \/ table = 0 /\ Goto(t, "create") /\ UNCHANGED obj
       \/ table # 0 /\ Goto(t, "find") /\ Hold(t, table)
    /\ UNCHANGED <<tables, want, k, up>>

(* Faulty variant: a table published in the meantime is kept. *)
CreateTableKeepsFirst(t) ==
    /\ At(t, "create")
    /\ maps' = Append(maps, {})
    /\ table' = IF table = 0 THEN Len(maps) + 1 ELSE table
    /\ Goto(t, "insert")
    /\ UNCHANGED <<about, abouts, grid, grids, freed, gv, want, k, obj, up>>

(* The pointer is set before the map is filled. *)
CreateTable(t) ==
    /\ At(t, "create")
    /\ maps' = Append(maps, {})
    /\ table' = Len(maps) + 1
    /\ Goto(t, "insert")
    /\ UNCHANGED <<about, abouts, grid, grids, freed, gv, want, k, obj, up>>

(* Faulty variant: the last operation is forgotten. *)
InsertOpOneShort(t) ==
    /\ At(t, "insert")
    /\ maps' = [maps EXCEPT ![table] = @ \cup {OpNames[k[t]]}]
    /\ \/ /\ k[t] < Len(OpNames) - 1
          /\ k' = [k EXCEPT ![t] = @ + 1]
          /\ UNCHANGED <<pc, obj>>
       \/ /\ k[t] >= Len(OpNames) - 1
          /\ k' = [k EXCEPT ![t] = 1]
          /\ Goto(t, "find") /\ Hold(t, table)
    /\ UNCHANGED <<table, about, abouts, grid, grids, freed, gv, want, up>>

(* Faulty variant: the operations are inserted the other way round. *)
InsertOpReversed(t) ==
    /\ At(t, "insert")
    /\ maps' = [maps EXCEPT ![table] = @ \cup {OpNames[Len(OpNames) + 1 - k[t]]}]
    /\ \/ /\ k[t] < Len(OpNames)
          /\ k' = [k EXCEPT ![t] = @ + 1]
          /\ UNCHANGED <<pc, obj>>
       \/ /\ k[t] = Len(OpNames)
          /\ k' = [k EXCEPT ![t] = 1]
          /\ Goto(t, "find") /\ Hold(t, table)
    /\ UNCHANGED <<table, about, abouts, grid, grids, freed, gv, want, up>>

(* Every insert goes through the static pointer again. *)
InsertOp(t) ==
    /\ At(t, "insert")
    /\ maps' = [maps EXCEPT ![table] = @ \cup {OpNames[k[t]]}]
    /\ \/ /\ k[t] < Len(OpNames)
          /\ k' = [k EXCEPT ![t] = @ + 1]
          /\ UNCHANGED <<pc, obj>>
       \/ /\ k[t] = Len(OpNames)
          /\ k' = [k EXCEPT ![t] = 1]
          /\ Goto(t, "find") /\ Hold(t, table)
    /\ UNCHANGED <<table, about, abouts, grid, grids, freed, gv, want, up>>

(* TestProj::op: what is not in the map is answered with a 404. *)
FindOp(t) ==
    /\ At(t, "find")
    /\ IF want[t] \in maps[obj[t]] /\ want[t] \in {"about", "ops"}
       THEN /\ Goto(t, IF want[t] = "about" THEN "aboutCheck" ELSE "gridCheck")
            /\ UNCHANGED <<want, k, obj>>
       ELSE Done(t)
    /\ UNCHANGED <<tables, up>>
-----------------------------------------------------------------------------
(* TestProj::on_about, and Server::about, which copies it *)

CheckAbout(t) ==
    /\ At(t, "aboutCheck")
    /\ \/ about = 0 /\ Goto(t, "aboutNew") /\ UNCHANGED obj
       \/ about # 0 /\ Goto(t, "aboutCopy") /\ Hold(t, about)
    /\ UNCHANGED <<tables, want, k, up>>

NewAbout(t) ==
    /\ At(t, "aboutNew")
    /\ abouts' = Append(abouts, {})
    /\ about' = Len(abouts) + 1
    /\ Goto(t, "aboutFill") /\ Hold(t, 0)
    /\ UNCHANGED <<table, maps, grid, grids, freed, gv, want, k, up>>

(* Faulty variant: the host name is asked for after the first add. *)
FillAboutLateName(t) ==
    /\ At(t, "aboutFill")
    /\ LET o == IF k[t] = 1 THEN about ELSE obj[t] IN
       \/ /\ HostNameMayFail /\ k[t] = 2
          /\ Done(t)
          /\ UNCHANGED abouts
       \/ /\ abouts' = [abouts EXCEPT ![o] = @ \cup {Tags[k[t]]}]
          /\ IF k[t] < Len(Tags)
             THEN k' = [k EXCEPT ![t] = @ + 1] /\ Hold(t, o) /\ UNCHANGED pc
             ELSE /\ k' = [k EXCEPT ![t] = 1]
                  /\ Goto(t, "aboutCopy") /\ Hold(t, about)
          /\ UNCHANGED want
    /\ UNCHANGED <<table, maps, about, grid, grids, freed, gv, up>>

(* The chain of adds starts from the static pointer, once.  hostName()     *)
(* fails before the first add, with an exception that no handler catches   *)
(* and that leaves m_about as it is; on_about returns *m_about.            *)
FillAbout(t) ==
    /\ At(t, "aboutFill")
    /\ LET o == IF k[t] = 1 THEN about ELSE obj[t] IN
       \/ /\ HostNameMayFail /\ k[t] = 1
          /\ Done(t)
          /\ UNCHANGED abouts
       \/ /\ abouts' = [abouts EXCEPT ![o] = @ \cup {Tags[k[t]]}]
          /\ IF k[t] < Len(Tags)
             THEN k' = [k EXCEPT ![t] = @ + 1] /\ Hold(t, o) /\ UNCHANGED pc
             ELSE /\ k' = [k EXCEPT ![t] = 1]
                  /\ Goto(t, "aboutCopy") /\ Hold(t, about)
          /\ UNCHANGED want
    /\ UNCHANGED <<table, maps, about, grid, grids, freed, gv, up>>

CopyAbout(t) ==
    /\ At(t, "aboutCopy")
    /\ Done(t)
    /\ UNCHANGED <<tables, up>>
-----------------------------------------------------------------------------
(* OpsOp::on_service *)

CheckGrid(t) ==
    /\ At(t, "gridCheck")
    /\ Goto(t, IF grid = 0 THEN "gridBegin" ELSE "static")
    /\ UNCHANGED <<tables, want, k, obj, up>>

(* The static view is made once, of the grid of that moment. *)
StaticView(t) ==
    /\ At(t, "static")
    /\ gv' = IF gv = 0 THEN grid ELSE gv
    /\ Goto(t, "write") /\ Hold(t, gv')
    /\ UNCHANGED <<table, maps, about, abouts, grid, grids, freed, want, k, up>>

(* begin() and end() come from two calls of ops_map(). *)
GridBegin(t) ==
    /\ At(t, "gridBegin")
    /\ Goto(t, "gridEnd") /\ Hold(t, table)
    /\ UNCHANGED <<tables, want, k, up>>

GridEnd(t) ==
    /\ At(t, "gridEnd")
    /\ IF table # obj[t] THEN Crash
       ELSE Goto(t, "gridCopy") /\ UNCHANGED <<tables, want, k, obj, up>>

(* The thread's own grid, of what the map holds; k is not used any more. *)
GridCopy(t) ==
    /\ At(t, "gridCopy")
    /\ grids' = Append(grids, maps[obj[t]])
    /\ Goto(t, "gridTest") /\ Hold(t, Len(grids) + 1)
    /\ UNCHANGED <<table, maps, about, abouts, grid, freed, gv, want, k, up>>

(* A grid that is not kept is deleted with the local auto_ptr. *)
GridTest(t) ==
    /\ At(t, "gridTest")
    /\ \/ grid = 0 /\ Goto(t, "gridSet") /\ UNCHANGED freed
       \/ grid # 0 /\ Goto(t, "gridView") /\ freed' = freed \cup {obj[t]}
    /\ UNCHANGED <<table, maps, about, abouts, grid, grids, gv, want, k, obj, up>>

(* Faulty variant: the local auto_ptr keeps the grid, and deletes it. *)
GridSetKeepsOwner(t) ==
    /\ At(t, "gridSet")
    /\ freed' = freed \cup ({grid, obj[t]} \ {0})
    /\ grid' = obj[t]
    /\ Goto(t, "gridView")
    /\ UNCHANGED <<table, maps, about, abouts, grids, gv, want, k, obj, up>>

(* Assigning the auto_ptr deletes the grid that it held. *)
GridSet(t) ==
    /\ At(t, "gridSet")
    /\ freed' = IF grid = 0 THEN freed ELSE freed \cup {grid}
    /\ grid' = obj[t]
    /\ Goto(t, "gridView")
    /\ UNCHANGED <<table, maps, about, abouts, grids, gv, want, k, obj, up>>

GridView(t) ==
    /\ At(t, "gridView")
    /\ Goto(t, "write") /\ Hold(t, grid)
    /\ UNCHANGED <<tables, want, k, up>>

WriteGrid(t) ==
    /\ At(t, "write")
    /\ IF obj[t] \in freed THEN Crash
       ELSE Done(t) /\ UNCHANGED <<tables, up>>
-----------------------------------------------------------------------------
MapRace(t, u) == /\ t # u /\ pc[t] = "insert"
                 /\ \/ pc[u] \in {"insert", "gridBegin", "gridEnd"}
                    \/ pc[u] \in {"find", "gridCopy"} /\ obj[u] = table

FillsDict(t) == IF k[t] = 1 THEN about ELSE obj[t]
DictRace(t, u) == /\ t # u /\ pc[t] = "aboutFill"
                  /\ \/ pc[u] = "aboutFill" /\ FillsDict(u) = FillsDict(t)
                     \/ pc[u] = "aboutCopy" /\ obj[u] = FillsDict(t)

Race == /\ up
        /\ \E t, u \in Threads : MapRace(t, u) \/ DictRace(t, u)
        /\ Crash

Step(t) == \/ CheckTable(t) \/ CreateTable(t) \/ InsertOp(t) \/ FindOp(t)
           \/ CheckAbout(t) \/ NewAbout(t) \/ FillAbout(t) \/ CopyAbout(t)
           \/ CheckGrid(t) \/ StaticView(t) \/ GridBegin(t) \/ GridEnd(t)
           \/ GridCopy(t) \/ GridTest(t) \/ GridSet(t) \/ GridView(t)
           \/ WriteGrid(t)

Next == \/ \E t \in Threads : Request(t) \/ Step(t)
        \/ Race

Spec == Init /\ [][Next]_vars
-----------------------------------------------------------------------------
(* Properties *)

TablesTypeOK ==
    /\ maps \in Seq(SUBSET AllOps) /\ table = Len(maps)
    /\ abouts \in Seq(SUBSET AllTags) /\ about = Len(abouts)
    /\ grids \in Seq(SUBSET AllOps) /\ grid \in 0..Len(grids)
    /\ freed \subseteq 1..Len(grids) /\ gv \in 0..Len(grids)

ThreadsTypeOK ==
    /\ pc \in [Threads -> Points]
    /\ want \in [Threads -> AllOps]
    /\ k \in [Threads -> 1..(Len(OpNames) + Len(Tags))]
    /\ obj \in [Threads -> Nat]

TypeOK == TablesTypeOK /\ ThreadsTypeOK /\ up \in BOOLEAN

(* Once nobody is filling it, the published table has every operation,     *)
(* even if several threads built tables over one another.                  *)
TableSettles ==
    table # 0 /\ (\A t \in Threads : pc[t] # "insert") => maps[table] = AllOps

(* Whether or not the host name can be found, what is left behind is a     *)
(* whole record or an empty one, never a part of one.                      *)
AboutAllOrNothing ==
    about # 0 /\ (\A t \in Threads : pc[t] # "aboutFill")
        => abouts[about] \in {{}, AllTags}

(* A grid of operations is made from a whole table, as long as only one    *)
(* thread builds the table: "ops" is found only when all the rest is there.*)
GridIsWhole == Len(maps) <= 1 => \A g \in DOMAIN grids : grids[g] = AllOps

(* Each builder that comes second deletes a grid, its own or the one that  *)
(* was kept, but never the one that ops_grid goes on to hold.              *)
KeptGridLives == grid \notin freed
=============================================================================
