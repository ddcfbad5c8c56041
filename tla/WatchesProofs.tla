---------------------------- MODULE WatchesProofs ----------------------------
(***************************************************************************)
(* Proofs about Watches, for any number of workers, watches and requests   *)
(* and any lease: the types of its state, that the erase loop of the timer *)
(* always finds what it erases, that it implements WatchRegistry, and what *)
(* considerate clients can rely on.                                        *)
(***************************************************************************)
EXTENDS Watches, OperatorProofs

(* What the local variables of on_timer keep to while it works.  What has  *)
(* been marked is registered and is marked once; the scan never comes back *)
(* to it, because a watch is either still to visit, or looked at, or past; *)
(* and a watch is only looked at while it is in the registry.              *)
Looking == tpc \in {"load", "store", "recheck", "mark"}

TimerInv ==
    /\ tpc = "sleep" => del = <<>>
    /\ tpc = "store" => loaded > 0
    /\ \A w \in todo : m_watches[w] # "absent"
    /\ \A i \in DOMAIN del : del[i] \notin todo
    /\ Looking => /\ at \in Wids /\ at \notin todo
                  /\ m_watches[at] = "watch"
                  /\ \A i \in DOMAIN del : del[i] # at
    /\ TimerReads \/ todo = {}

Inv == StateTypeOK /\ TimerInv /\ EraseFinds

USE DEF AllWids, Places, TimerPoints, Leases, MinLease

LEMMA InitInv == Init => Inv
<1> SUFFICES ASSUME Init PROVE Inv
  OBVIOUS
<1>1. StateTypeOK
  BY LeaseAssumption
  DEF Init, StateTypeOK, RegistryTypeOK, WorkersTypeOK, TimerTypeOK
<1>2. TimerInv /\ EraseFinds
  BY DEF Init, TimerInv, Looking, EraseFinds, AllFound
<1>. QED
  BY <1>1, <1>2 DEF Inv

(* A request is converted and handed on to sub, unsub, close or poll. *)
LEMMA AfterLookupType ==
    ASSUME NEW r \in Request, r.op # "list"
    PROVE  AfterLookup(r) \in {"idle", "assign", "unsub", "close", "poll"}
BY DEF AfterLookup, Request, Ops

(* Worker steps that leave the registry and the timer alone. *)
LEMMA TimerInvStutter ==
    ASSUME TimerInv, EraseFinds, UNCHANGED <<m_watches, timerVars>>
    PROVE  TimerInv' /\ EraseFinds'
BY DEF TimerInv, EraseFinds, AllFound, Looking, TimerReads, timerVars

LEMMA TimerTypeStutter ==
    ASSUME TimerTypeOK, UNCHANGED timerVars
    PROVE  TimerTypeOK'
BY DEF TimerTypeOK, timerVars

LEMMA WorkersTypeStutter ==
    ASSUME WorkersTypeOK, UNCHANGED workerVars
    PROVE  WorkersTypeOK'
BY DEF WorkersTypeOK, workerVars

(* How a worker's program point and request may change. *)
LEMMA WorkersTypeStep ==
    ASSUME WorkersTypeOK, NEW p \in Workers,
           NEW l \in Places, NEW q \in Request \cup {NoReq},
           pc' = [pc EXCEPT ![p] = l], req' = [req EXCEPT ![p] = q],
           told' \in [Workers -> SUBSET Wids],
           l # "idle" => q \in Request,
           l \in {"insert", "inMap"} => q.op # "list",
           l = "inMap" => q.wid \in AllWids,
           l \notin {"idle", "inMap", "inList"} => q.wid \in Wids
    PROVE  WorkersTypeOK'
BY DEF WorkersTypeOK

LEMMA FinishType ==
    ASSUME WorkersTypeOK, NEW p \in Workers, NEW ids \in SUBSET Wids,
           Finish(p, ids)
    PROVE  WorkersTypeOK'
<1>1. told' \in [Workers -> SUBSET Wids]
  BY DEF Finish, WorkersTypeOK
<1>. QED
  BY <1>1, WorkersTypeStep DEF Finish

(* To a point past the lookup, with a request that names a watch. *)
LEMMA GotoType ==
    ASSUME WorkersTypeOK, NEW p \in Workers,
           NEW l \in Places \ {"idle", "insert", "inMap", "inList"},
           Goto(p, l), pc[p] # "idle", req[p].wid \in Wids
    PROVE  WorkersTypeOK'
<1>1. /\ req[p] \in Request
      /\ req' = [req EXCEPT ![p] = req[p]]
      /\ told' \in [Workers -> SUBSET Wids]
  BY DEF Goto, WorkersTypeOK
<1>. QED
  BY <1>1, WorkersTypeStep DEF Goto

LEMMA ProceedType ==
    ASSUME WorkersTypeOK, NEW p \in Workers, Proceed(p),
           pc[p] \in {"insert", "inMap"}, req[p].wid \in Wids
    PROVE  WorkersTypeOK'
<1>1. AfterLookup(req[p]) \in {"idle", "assign", "unsub", "close", "poll"}
  BY AfterLookupType DEF WorkersTypeOK
<1>2. CASE AfterLookup(req[p]) = "idle"
  BY <1>2, FinishType DEF Proceed
<1>3. CASE AfterLookup(req[p]) # "idle"
  BY <1>1, <1>3, GotoType DEF Proceed
<1>. QED
  BY <1>2, <1>3
-----------------------------------------------------------------------------
LEMMA ArriveInv ==
    ASSUME Inv, NEW p \in Workers, Arrive(p)
    PROVE  Inv'
<1> USE DEF Inv, StateTypeOK
<1>1. PICK r \in Requests : Lookup(p, r) \/ List(p, r) \/ NewWatch(p, r)
  BY DEF Arrive
<1>2. r \in Request
  BY RequestsAssumption
<1>3. UNCHANGED <<m_watches, m_is_open, m_lease, timerVars, told, up>>
  BY <1>1 DEF Lookup, List, NewWatch, watchVars
<1>4. TimerInv' /\ EraseFinds' /\ TimerTypeOK'
  BY <1>3, TimerInvStutter, TimerTypeStutter
<1>5. told' \in [Workers -> SUBSET Wids]
  BY <1>3 DEF WorkersTypeOK
<1>6. RegistryTypeOK'
  BY <1>1, <1>3 DEF RegistryTypeOK, Lookup, List, NewWatch, watchVars
<1>7. WorkersTypeOK'
  <2>1. CASE Lookup(p, r)
    <3>1. r.wid \in AllWids /\ r.op # "list"
      BY <2>1 DEF Lookup, WorkersTypeOK
    <3>. QED
      BY <2>1, <3>1, <1>2, <1>5, WorkersTypeStep DEF Lookup
  <2>2. CASE List(p, r)
    BY <2>2, <1>2, <1>5, WorkersTypeStep DEF List
  <2>3. CASE NewWatch(p, r)
    <3>1. PICK w \in Wids : req' = [req EXCEPT ![p] = [r EXCEPT !.wid = w]]
      BY <2>3 DEF NewWatch
    <3> DEFINE q == [r EXCEPT !.wid = w]
    <3>2. q \in Request /\ q.wid = w /\ q.op = "subNew"
      BY <1>2, <2>3 DEF Request, NewWatch
    <3>3. pc' = [pc EXCEPT ![p] = "insert"]
      BY <2>3 DEF NewWatch
    <3>4. req' = [req EXCEPT ![p] = q]
      BY <3>1
    <3> HIDE DEF q
    <3>. QED
      BY <3>2, <3>3, <3>4, <1>5, WorkersTypeStep
  <2>. QED
    BY <1>1, <2>1, <2>2, <2>3
<1>. QED
  BY <1>3, <1>4, <1>6, <1>7

LEMMA CrashInv ==
    ASSUME Inv, Crash
    PROVE  Inv'
<1> USE DEF Inv, StateTypeOK, Crash
<1>1. RegistryTypeOK'
  BY DEF RegistryTypeOK, watchVars
<1>2. TimerInv' /\ EraseFinds' /\ TimerTypeOK' /\ WorkersTypeOK'
  BY TimerInvStutter, TimerTypeStutter, WorkersTypeStutter DEF watchVars
<1>. QED
  BY <1>1, <1>2

(* watch_open has the lock to itself: the timer has nothing in its hands   *)
(* but what it has marked, which stays registered.                         *)
LEMMA OnWatchOpenInv ==
    ASSUME Inv, NEW p \in Workers, OnWatchOpen(p)
    PROVE  Inv'
<1> USE DEF Inv, StateTypeOK
<1>1. pc[p] = "insert" /\ req[p].wid \in Wids
  BY DEF OnWatchOpen, At, WorkersTypeOK
<1>2. WorkersTypeOK' /\ TimerTypeOK' /\ up' \in BOOLEAN
  BY <1>1, ProceedType, TimerTypeStutter DEF OnWatchOpen
<1>3. RegistryTypeOK'
  BY <1>1, DistinctAssumption DEF OnWatchOpen, RegistryTypeOK
<1>4. TimerInv' /\ EraseFinds'
  BY <1>1 DEF OnWatchOpen, WriteLockFree, RegistryTypeOK, TimerTypeOK, TimerInv,
              EraseFinds, AllFound, Looking, TimerReads, timerVars
<1>. QED
  BY <1>2, <1>3, <1>4

(* A lookup only ever turns an absent entry into a null one, which no      *)
(* marked watch and no watch the timer looks at can be.                    *)
LEMMA OnWatchInv ==
    ASSUME Inv, NEW p \in Workers, OnWatch(p)
    PROVE  Inv'
<1> USE DEF Inv, StateTypeOK
<1> DEFINE w == req[p].wid
<1>1. pc[p] = "inMap" /\ w \in AllWids
  BY DEF OnWatch, At, WorkersTypeOK
<1>2. UNCHANGED <<born, m_is_open, m_lease, tpc, at, loaded, del, up>>
  BY DEF OnWatch
<1>3. CASE m_watches[w] = "watch"
  <2>1. w \in Wids /\ Proceed(p) /\ UNCHANGED <<m_watches, todo>>
    BY <1>1, <1>3 DEF OnWatch, RegistryTypeOK
  <2>2. WorkersTypeOK'
    BY <1>1, <2>1, ProceedType
  <2>. QED
    BY <1>2, <2>1, <2>2, TimerInvStutter, TimerTypeStutter
    DEF timerVars, RegistryTypeOK
<1>4. CASE m_watches[w] = "null"
  <2>1. Finish(p, {}) /\ UNCHANGED <<m_watches, todo>>
    BY <1>4 DEF OnWatch
  <2>2. WorkersTypeOK'
    BY <2>1, FinishType
  <2>. QED
    BY <1>2, <2>1, <2>2, TimerInvStutter, TimerTypeStutter
    DEF timerVars, RegistryTypeOK
<1>5. CASE m_watches[w] = "absent"
  <2>1. /\ Finish(p, {})
        /\ m_watches' = [m_watches EXCEPT ![w] = "null"]
        /\ todo' \subseteq todo \cup {w}
        /\ ~TimerReads => todo' = todo
    BY <1>5 DEF OnWatch
  <2>2. WorkersTypeOK'
    BY <2>1, FinishType
  <2>3. RegistryTypeOK' /\ TimerTypeOK'
    BY <1>1, <1>2, <2>1 DEF RegistryTypeOK, TimerTypeOK
  <2>4. EraseFinds'
    BY <1>1, <1>2, <1>5, <2>1 DEF EraseFinds, AllFound, RegistryTypeOK, TimerTypeOK
  <2>5. TimerInv'
    BY <1>1, <1>2, <1>5, <2>1
    DEF TimerInv, EraseFinds, AllFound, Looking, TimerReads, RegistryTypeOK,
        TimerTypeOK
  <2>. QED
    BY <1>2, <2>2, <2>3, <2>4, <2>5
<1>. QED
  BY <1>1, <1>3, <1>4, <1>5 DEF RegistryTypeOK

(* Everything past the lookup leaves the registry and the timer alone. *)
LEMMA WatchInv ==
    ASSUME Inv, NEW p \in Workers,
           \/ OnWatches(p) \/ SubAssign(p) \/ SubScan(p) \/ SubOpen(p)
           \/ Renew(p) \/ Unsub(p) \/ Close(p) \/ PollRefresh(p)
    PROVE  Inv'
<1>1. CASE Crash
  BY <1>1, CrashInv
<1>2. CASE ~Crash
  <2> USE DEF Inv, StateTypeOK
  <2>1. UNCHANGED <<m_watches, born, timerVars, up>>
    BY <1>2 DEF OnWatches, SubAssign, SubScan, SubOpen, Renew, Unsub, Close,
                PollRefresh, watchVars
  <2>2. TimerInv' /\ EraseFinds' /\ TimerTypeOK'
    BY <2>1, TimerInvStutter, TimerTypeStutter
  <2>3. pc[p] \notin {"idle", "inMap", "inList"} => req[p].wid \in Wids
    BY DEF WorkersTypeOK
  <2>4. RegistryTypeOK'
    <3>1. DefaultLease \in Leases
      BY LeaseAssumption
    <3>2. \/ UNCHANGED m_is_open
          \/ /\ req[p].wid \in Wids
             /\ \E b \in BOOLEAN : m_is_open' = [m_is_open EXCEPT ![req[p].wid] = b]
      BY <1>2, <2>3 DEF OnWatches, SubAssign, SubScan, SubOpen, Renew, Unsub,
                        Close, PollRefresh, watchVars, At
    <3>3. \/ UNCHANGED m_lease
          \/ /\ req[p].wid \in Wids
             /\ m_lease' = [m_lease EXCEPT ![req[p].wid] = DefaultLease]
      BY <1>2, <2>3 DEF OnWatches, SubAssign, SubScan, SubOpen, Renew, Unsub,
                        Close, PollRefresh, watchVars, At
    <3>. QED
      BY <2>1, <3>1, <3>2, <3>3 DEF RegistryTypeOK
  <2>5. WorkersTypeOK'
    <3>1. CASE OnWatches(p)
      BY <1>2, <3>1, FinishType DEF OnWatches
    <3>2. CASE SubAssign(p)
      BY <2>3, <3>2, GotoType DEF SubAssign, At
    <3>3. CASE SubScan(p)
      BY <1>2, <2>3, <3>3, GotoType, FinishType DEF SubScan, At
    <3>4. CASE SubOpen(p)
      BY <2>3, <3>4, GotoType DEF SubOpen, At
    <3>5. CASE Renew(p)
      BY <2>3, <3>5, FinishType DEF Renew, At
    <3>6. CASE Unsub(p)
      BY <1>2, <3>6, FinishType DEF Unsub
    <3>7. CASE Close(p)
      BY <3>7, FinishType DEF Close
    <3>8. CASE PollRefresh(p)
      BY <1>2, <2>3, <3>8, GotoType, FinishType DEF PollRefresh, At
    <3>. QED
      BY <3>1, <3>2, <3>3, <3>4, <3>5, <3>6, <3>7, <3>8
  <2>. QED
    BY <2>1, <2>2, <2>4, <2>5
<1>. QED
  BY <1>1, <1>2
-----------------------------------------------------------------------------
(* The timer.  Its steps leave the workers alone, and only TimerErase      *)
(* touches the registry.                                                   *)

LEMMA TimerFiresInv ==
    ASSUME Inv, TimerFires
    PROVE  Inv'
<1> USE DEF Inv, StateTypeOK
<1>1. WorkersTypeOK' /\ RegistryTypeOK' /\ up' \in BOOLEAN
  BY WorkersTypeStutter DEF TimerFires, RegistryTypeOK, watchVars
<1>2. TimerTypeOK'
  BY DEF TimerFires, TimerTypeOK
<1>3. TimerInv' /\ EraseFinds'
  BY DEF TimerFires, TimerAt, TimerInv, EraseFinds, AllFound, Looking,
         TimerReads, watchVars
<1>. QED
  BY <1>1, <1>2, <1>3

LEMMA TimerVisitInv ==
    ASSUME Inv, TimerVisit
    PROVE  Inv'
<1>1. CASE Crash
  BY <1>1, CrashInv
<1>2. CASE ~Crash
  <2> USE DEF Inv, StateTypeOK
  <2>1. PICK w \in todo :
           /\ m_watches[w] # "null"
           /\ todo' = todo \ {w}
           /\ at' = w
           /\ tpc' = IF m_is_open[w] THEN "load" ELSE "recheck"
           /\ UNCHANGED <<watchVars, workerVars, loaded, del, up>>
    BY <1>2 DEF TimerVisit
  <2>2. w \in Wids /\ m_watches[w] = "watch"
    BY <2>1 DEF TimerInv, RegistryTypeOK, TimerTypeOK
  <2>3. WorkersTypeOK' /\ RegistryTypeOK' /\ up' \in BOOLEAN
    BY <2>1, WorkersTypeStutter DEF RegistryTypeOK, watchVars
  <2>4. TimerTypeOK'
    BY <2>1, <2>2 DEF TimerTypeOK
  <2>5. TimerInv' /\ EraseFinds'
    BY <2>1, <2>2 DEF TimerInv, EraseFinds, AllFound, Looking, TimerReads,
                      TimerTypeOK, watchVars
  <2>. QED
    BY <2>1, <2>3, <2>4, <2>5
<1>. QED
  BY <1>1, <1>2

LEMMA TimerLoadInv ==
    ASSUME Inv, TimerLoad \/ TimerRecheck \/ TimerScanned
    PROVE  Inv'
<1> USE DEF Inv, StateTypeOK, TimerLoad, TimerRecheck, TimerScanned
<1>1. WorkersTypeOK' /\ RegistryTypeOK' /\ up' \in BOOLEAN
  BY WorkersTypeStutter DEF RegistryTypeOK, watchVars
<1>2. TimerTypeOK'
  BY DEF TimerTypeOK, RegistryTypeOK, TimerInv, Looking, TimerAt
<1>3. TimerInv' /\ EraseFinds'
  BY DEF TimerAt, TimerInv, EraseFinds, AllFound, Looking, TimerReads, watchVars
<1>. QED
  BY <1>1, <1>2, <1>3

(* What a tick stores is a lease: it has loaded a positive one.  So it     *)
(* marks nothing here, and the recheck is the only place that does.        *)
LEMMA TimerStoreInv ==
    ASSUME Inv, TimerStore
    PROVE  Inv'
<1> USE DEF Inv, StateTypeOK
<1>1. loaded \in 1..DefaultLease /\ at \in Wids
  BY LeaseAssumption DEF TimerStore, TimerAt, TimerInv, TimerTypeOK, Looking
<1>2. loaded - 1 \in 0..DefaultLease /\ del' = del
  BY <1>1, LeaseAssumption DEF TimerStore
<1>3. WorkersTypeOK' /\ up' \in BOOLEAN
  BY WorkersTypeStutter DEF TimerStore
<1>4. RegistryTypeOK'
  BY <1>1, <1>2 DEF TimerStore, RegistryTypeOK
<1>5. TimerTypeOK'
  BY <1>2 DEF TimerStore, TimerTypeOK
<1>6. TimerInv' /\ EraseFinds'
  BY <1>2 DEF TimerStore, TimerAt, TimerInv, EraseFinds, AllFound, Looking,
              TimerReads
<1>. QED
  BY <1>3, <1>4, <1>5, <1>6

LEMMA TimerMarkInv ==
    ASSUME Inv, TimerMark
    PROVE  Inv'
<1> USE DEF Inv, StateTypeOK
<1>1. at \in Wids
  BY DEF TimerMark, TimerAt, TimerInv, Looking
<1>2. WorkersTypeOK' /\ RegistryTypeOK' /\ up' \in BOOLEAN
  BY WorkersTypeStutter DEF TimerMark, RegistryTypeOK, watchVars
<1>3. CASE del' = del
  <2>1. TimerTypeOK'
    BY <1>3 DEF TimerMark, TimerTypeOK
  <2>2. TimerInv' /\ EraseFinds'
    BY <1>3 DEF TimerMark, TimerAt, TimerInv, EraseFinds, AllFound, Looking,
                TimerReads, watchVars
  <2>. QED
    BY <1>2, <2>1, <2>2
<1>4. CASE del' = Append(del, at)
  <2>1. TimerTypeOK'
    BY <1>1, <1>4 DEF TimerMark, TimerTypeOK
  <2>2. \A i \in DOMAIN del' :
           \/ i \in DOMAIN del /\ del'[i] = del[i]
           \/ i = Len(del) + 1 /\ del'[i] = at
    BY <1>1, <1>4 DEF TimerTypeOK
  <2>3. EraseFinds'
    BY <1>1, <2>2 DEF TimerMark, TimerAt, TimerInv, EraseFinds, AllFound,
                      Looking, watchVars
  <2>4. TimerInv'
    BY <1>1, <2>2 DEF TimerMark, TimerAt, TimerInv, Looking, TimerReads, watchVars
  <2>. QED
    BY <1>2, <2>1, <2>3, <2>4
<1>. QED
  BY <1>3, <1>4 DEF TimerMark

LEMMA TimerEraseInv ==
    ASSUME Inv, TimerErase
    PROVE  Inv'
<1> USE DEF Inv, StateTypeOK
<1>1. /\ m_watches' = [w \in AllWids |-> IF \E i \in DOMAIN del : del[i] = w
                                         THEN "absent" ELSE m_watches[w]]
      /\ del' = <<>> /\ tpc' = "sleep" /\ todo = {}
      /\ UNCHANGED <<born, m_ids, m_is_open, m_lease, workerVars, todo, at,
                     loaded, up>>
  BY DEF TimerErase, TimerAt, TimerInv, TimerReads, EraseFinds
<1>2. WorkersTypeOK' /\ up' \in BOOLEAN
  BY <1>1, WorkersTypeStutter
<1>3. RegistryTypeOK'
  BY <1>1 DEF RegistryTypeOK
<1>4. TimerTypeOK' /\ TimerInv' /\ EraseFinds'
  BY <1>1 DEF TimerTypeOK, TimerInv, EraseFinds, AllFound, Looking, TimerReads
<1>. QED
  BY <1>2, <1>3, <1>4
-----------------------------------------------------------------------------
LEMMA NextInv == Inv /\ [Next]_vars => Inv'
<1> SUFFICES ASSUME Inv, [Next]_vars PROVE Inv'
  OBVIOUS
<1>1. ASSUME NEW p \in Workers, Arrive(p) PROVE Inv'
  BY <1>1, ArriveInv
<1>2. ASSUME NEW p \in Workers, Handle(p) PROVE Inv'
  BY <1>2, OnWatchOpenInv, OnWatchInv, WatchInv DEF Handle
<1>3. CASE TimerFires
  BY <1>3, TimerFiresInv
<1>4. CASE OnTimer
  BY <1>4, TimerVisitInv, TimerLoadInv, TimerStoreInv, TimerMarkInv, TimerEraseInv
  DEF OnTimer
<1>5. CASE Race
  BY <1>5, CrashInv DEF Race
<1>6. CASE UNCHANGED vars
  <2> USE DEF Inv, StateTypeOK
  <2>. QED
    BY <1>6, TimerInvStutter, TimerTypeStutter, WorkersTypeStutter
    DEF vars, RegistryTypeOK, watchVars
<1>. QED
  BY <1>1, <1>2, <1>3, <1>4, <1>5, <1>6 DEF Next

(* In every reachable state, for any constants: the state has its types,   *)
(* the subscriptions apart, which AllTypesHold adds.                       *)
THEOREM TypesHold == Spec => []StateTypeOK
<1>1. Spec => []Inv
  BY InitInv, NextInv, PTL DEF Spec
<1>2. Inv => StateTypeOK
  BY DEF Inv
<1>. QED
  BY <1>1, <1>2, PTL

(* The erase loop of on_timer always finds the watch it erases, once: no   *)
(* interleaving of lookups, renewals and closes with the tick, and no      *)
(* stale or unknown id a client sends, makes it erase end().               *)
THEOREM EraseAlwaysFinds == Spec => []EraseFinds
<1>1. Spec => []Inv
  BY InitInv, NextInv, PTL DEF Spec
<1>2. Inv => EraseFinds
  BY DEF Inv
<1>. QED
  BY <1>1, <1>2, PTL

-----------------------------------------------------------------------------
(* That Watches implements WatchRegistry: every step of a handler or of    *)
(* the timer is a step in the life of one watch, a sweep, or no step at    *)
(* all.  What the mapping needs beyond Inv is where the uuid of a watch    *)
(* is: drawn, inserted once by the worker that drew it, and only then in   *)
(* the hands of other workers.                                             *)

\* The points of a worker that holds a watch.
Holding == Places \ {"idle", "insert", "inMap", "inList"}

DrawnInv ==
    /\ \A w \in Wids : m_watches[w] = "watch" => w \in born /\ ~Inserting(w)
    /\ \A p \in Workers : pc[p] = "insert" => req[p].wid \in born
    /\ \A p, q \in Workers :
          pc[p] = "insert" /\ pc[q] = "insert" /\ req[p].wid = req[q].wid => p = q
    /\ \A p \in Workers :
          pc[p] \in Holding => req[p].wid \in born /\ ~Inserting(req[p].wid)

LEMMA DrawnInit == Init => DrawnInv
<1> SUFFICES ASSUME Init PROVE DrawnInv
  OBVIOUS
<1>1. \A p \in Workers : pc[p] = "idle"
  BY DEF Init
<1>2. \A w \in Wids : m_watches[w] = "absent"
  BY DEF Init
<1>. QED
  BY <1>1, <1>2 DEF DrawnInv, Holding

LEMMA MapsInit == Init => Registry!AInit
<1> SUFFICES ASSUME Init PROVE Registry!AInit
  OBVIOUS
<1>1. ASSUME NEW w \in Wids PROVE Life(w) = "unborn"
  <2>1. ~Marked(w) /\ m_watches[w] = "absent" /\ w \notin born
    BY DEF Init, Marked
  <2>. QED
    BY <2>1 DEF Life, Inserting
<1>2. \A w \in Wids : m_lease[w] = MinLease
  BY DEF Init
<1>. QED
  BY <1>1, <1>2 DEF Registry!AInit

(* A step that draws no uuid, inserts and erases no watch and marks none:  *)
(* workers may only pass on a watch they hold or find in the registry.     *)
KeepsLives ==
    /\ UNCHANGED <<born, del>>
    /\ \A w \in Wids : m_watches'[w] = "watch" <=> m_watches[w] = "watch"
    /\ \A p \in Workers :
          /\ pc'[p] = "insert" <=> pc[p] = "insert"
          /\ pc[p] = "insert" => req'[p].wid = req[p].wid
          /\ pc'[p] \in Holding =>
                \/ pc[p] \in Holding /\ req'[p].wid = req[p].wid
                \/ req'[p].wid \in Wids /\ m_watches[req'[p].wid] = "watch"

LEMMA LivesKept ==
    ASSUME DrawnInv, KeepsLives
    PROVE  DrawnInv' /\ \A w \in Wids : Life(w)' = Life(w)
<1> USE DEF KeepsLives
<1>1. \A w : Inserting(w)' <=> Inserting(w)
  BY DEF Inserting
<1>2. \A w : Marked(w)' <=> Marked(w)
  BY DEF Marked
<1>3. DrawnInv'
  <2>1. \A w \in Wids : m_watches'[w] = "watch" => w \in born' /\ ~(Inserting(w)')
    BY <1>1 DEF DrawnInv
  <2>2. \A p \in Workers : pc'[p] = "insert" => req'[p].wid \in born'
    BY DEF DrawnInv
  <2>3. \A p, q \in Workers :
          pc'[p] = "insert" /\ pc'[q] = "insert" /\ req'[p].wid = req'[q].wid => p = q
    BY DEF DrawnInv
  <2>4. \A p \in Workers :
          pc'[p] \in Holding => req'[p].wid \in born' /\ ~Inserting(req[p].wid)'
    BY DEF DrawnInv, Inserting
  <2>. QED
    BY <2>1, <2>2, <2>3, <2>4 DEF DrawnInv
<1>4. ASSUME NEW w \in Wids PROVE Life(w)' = Life(w)
  BY <1>1, <1>2 DEF Life
<1>. QED
  BY <1>3, <1>4

LEMMA Stutters ==
    ASSUME DrawnInv, KeepsLives, UNCHANGED m_lease
    PROVE  DrawnInv' /\ UNCHANGED Registry!avars
BY LivesKept DEF Registry!avars

LEMMA FinishKeeps ==
    ASSUME WorkersTypeOK, NEW p \in Workers, NEW ids, Finish(p, ids),
           pc[p] # "insert", UNCHANGED <<born, del>>,
           \A w \in Wids : m_watches'[w] = "watch" <=> m_watches[w] = "watch"
    PROVE  KeepsLives
BY DEF WorkersTypeOK, Finish, KeepsLives, Holding

LEMMA GotoKeeps ==
    ASSUME WorkersTypeOK, NEW p \in Workers, NEW l \in Holding, Goto(p, l),
           \/ pc[p] \in Holding
           \/ pc[p] = "inMap" /\ req[p].wid \in Wids /\ m_watches[req[p].wid] = "watch",
           UNCHANGED <<m_watches, born, del>>
    PROVE  KeepsLives
BY DEF WorkersTypeOK, Goto, KeepsLives, Holding

LEMMA CrashKeeps ==
    ASSUME Crash
    PROVE  KeepsLives /\ UNCHANGED m_lease
BY DEF Crash, KeepsLives, watchVars, workerVars, timerVars
-----------------------------------------------------------------------------
(* The steps of a worker *)

LEMMA ArriveMaps ==
    ASSUME Inv, DrawnInv, NEW p \in Workers, Arrive(p)
    PROVE  DrawnInv' /\ UNCHANGED Registry!avars
<1>1. PICK r \in Requests : Lookup(p, r) \/ List(p, r) \/ NewWatch(p, r)
  BY DEF Arrive
<1>2. CASE Lookup(p, r) \/ List(p, r)
  <2>1. KeepsLives /\ UNCHANGED m_lease
    BY <1>2 DEF Lookup, List, At, KeepsLives, Holding, Inv, StateTypeOK,
                WorkersTypeOK, watchVars, timerVars
  <2>. QED
    BY <2>1, Stutters
<1>3. CASE NewWatch(p, r)
  <2> USE DEF Inv, StateTypeOK, WorkersTypeOK, RegistryTypeOK
  <2>1. PICK v \in Wids \ born :
           /\ born' = born \cup {v}
           /\ req' = [req EXCEPT ![p] = [r EXCEPT !.wid = v]]
    BY <1>3 DEF NewWatch
  <2>2. /\ pc[p] = "idle" /\ pc' = [pc EXCEPT ![p] = "insert"]
        /\ UNCHANGED <<m_watches, m_lease, del>>
    BY <1>3 DEF NewWatch, At, timerVars
  <2>3. req'[p].wid = v
    BY <2>1, RequestsAssumption DEF Request
  <2>4. \A w : Inserting(w)' <=> w = v \/ Inserting(w)
    BY <2>1, <2>2, <2>3 DEF Inserting
  <2>5. DrawnInv'
    BY <2>1, <2>2, <2>3, <2>4 DEF DrawnInv, Holding
  <2>6. ASSUME NEW w \in Wids PROVE Life(w)' = Life(w)
    BY <2>1, <2>2, <2>4 DEF Life, Marked
  <2>. QED
    BY <2>2, <2>5, <2>6 DEF Registry!avars
<1>. QED
  BY <1>1, <1>2, <1>3

(* The watch is in the registry: it has been drawn by this worker alone. *)
LEMMA OnWatchOpenMaps ==
    ASSUME Inv, DrawnInv, NEW p \in Workers, OnWatchOpen(p)
    PROVE  DrawnInv' /\ \E w \in Wids : Registry!Register(w)
<1> USE DEF Inv, StateTypeOK, WorkersTypeOK, RegistryTypeOK
<1>0. PICK v \in Wids : v = req[p].wid /\ pc[p] = "insert"
  BY DEF OnWatchOpen, At
<1>1. /\ pc[p] = "insert" /\ v = req[p].wid /\ v \in born
      /\ m_watches' = [m_watches EXCEPT ![v] = "watch"]
      /\ UNCHANGED <<born, m_lease, del>>
  BY <1>0 DEF OnWatchOpen, At, timerVars, DrawnInv
<1>2. \E l \in Places \ {"insert", "inMap", "inList"} :
         pc' = [pc EXCEPT ![p] = l] /\ (l # "idle" => req' = req)
         /\ \A q \in Workers \ {p} : req'[q] = req[q]
  <2>1. AfterLookup(req[p]) \in {"idle", "assign", "unsub", "close", "poll"}
    BY <1>1, AfterLookupType
  <2>. QED
    BY <1>1, <2>1 DEF OnWatchOpen, Proceed, Finish, Goto
<1>3. \A w : Inserting(w)' <=> w # v /\ Inserting(w)
  BY <1>1, <1>2 DEF Inserting, DrawnInv
<1>4. DrawnInv'
  BY <1>1, <1>2, <1>3 DEF DrawnInv, Holding
<1>5. Inserting(v) /\ m_watches[v] # "watch" /\ ~Marked(v)
  BY <1>1 DEF Inserting, Marked, DrawnInv, EraseFinds, AllFound
<1>6. Life(v) = "unborn" /\ Life(v)' = "registered"
  BY <1>1, <1>5 DEF Life, Marked
<1>7. ASSUME NEW w \in Wids, w # v PROVE Life(w)' = Life(w)
  BY <1>1, <1>3, <1>7 DEF Life, Marked
<1>8. Registry!Register(v)
  BY <1>1, <1>6, <1>7 DEF Registry!Register
<1>. QED
  BY <1>1, <1>4, <1>8

LEMMA OnWatchMaps ==
    ASSUME Inv, DrawnInv, NEW p \in Workers, OnWatch(p)
    PROVE  DrawnInv' /\ UNCHANGED Registry!avars
<1> USE DEF Inv, StateTypeOK, WorkersTypeOK, RegistryTypeOK
<1>1. pc[p] = "inMap" /\ req[p].wid \in AllWids /\ UNCHANGED <<born, m_lease, del>>
  BY DEF OnWatch, At
<1>2. CASE m_watches[req[p].wid] = "watch"
  <2>1. req[p].wid \in Wids /\ Proceed(p) /\ UNCHANGED m_watches
    BY <1>1, <1>2 DEF OnWatch
  <2>2. AfterLookup(req[p]) \in {"idle", "assign", "unsub", "close", "poll"}
    BY <1>1, AfterLookupType
  <2>3. KeepsLives
    <3>1. CASE AfterLookup(req[p]) = "idle"
      BY <1>1, <2>1, <3>1, FinishKeeps DEF Proceed
    <3>2. CASE AfterLookup(req[p]) # "idle"
      BY <1>1, <1>2, <2>1, <2>2, <3>2, GotoKeeps DEF Proceed, Holding
    <3>. QED
      BY <3>1, <3>2
  <2>. QED
    BY <1>1, <2>3, Stutters
<1>3. CASE m_watches[req[p].wid] # "watch"
  <2>1. Finish(p, {}) /\ \A w \in Wids : m_watches'[w] = "watch" <=> m_watches[w] = "watch"
    BY <1>1, <1>3 DEF OnWatch
  <2>2. KeepsLives
    BY <1>1, <2>1, FinishKeeps
  <2>. QED
    BY <1>1, <2>2, Stutters
<1>. QED
  BY <1>2, <1>3

(* The holder of a watch goes on leasing it, registered or dropped. *)
LEMMA RenewMaps ==
    ASSUME Inv, DrawnInv, NEW p \in Workers, Renew(p)
    PROVE  DrawnInv' /\ \E w \in Wids : Registry!Lease(w)
<1> USE DEF Inv, StateTypeOK, WorkersTypeOK, RegistryTypeOK
<1>1. PICK v \in Wids : v = req[p].wid /\ pc[p] \in {"setLease", "pollLease"}
  BY DEF Renew, At
<1>2. /\ m_lease' = [m_lease EXCEPT ![v] = DefaultLease]
      /\ Finish(p, {v})
      /\ UNCHANGED <<m_watches, born, del>>
  BY <1>1 DEF Renew, timerVars
<1>3. KeepsLives
  BY <1>1, <1>2, FinishKeeps
<1>4. v \in born /\ ~Inserting(v)
  BY <1>1 DEF DrawnInv, Holding
<1>5. Life(v) # "unborn"
  BY <1>4 DEF Life
<1>6. Registry!Lease(v)
  <2>1. \A w \in Wids : m_lease'[w] # MinLease <=> w = v \/ m_lease[w] # MinLease
    BY <1>2, LeaseAssumption
  <2>. QED
    BY <1>3, <1>5, <2>1, LivesKept DEF Registry!Lease
<1>. QED
  BY <1>1, <1>3, <1>6, LivesKept

LEMMA WatchMaps ==
    ASSUME Inv, DrawnInv, NEW p \in Workers,
           \/ OnWatches(p) \/ SubAssign(p) \/ SubScan(p) \/ SubOpen(p)
           \/ Unsub(p) \/ Close(p) \/ PollRefresh(p)
    PROVE  DrawnInv' /\ UNCHANGED Registry!avars
<1>1. CASE Crash
  BY <1>1, CrashKeeps, Stutters
<1>2. CASE ~Crash
  <2>1. WorkersTypeOK
    BY DEF Inv, StateTypeOK
  <2>2. UNCHANGED <<m_watches, born, m_lease, del>>
    BY <1>2 DEF OnWatches, SubAssign, SubScan, SubOpen, Unsub, Close,
                PollRefresh, watchVars, timerVars
  <2>3. pc[p] = "inList" \/ pc[p] \in Holding
    BY DEF OnWatches, SubAssign, SubScan, SubOpen, Unsub, Close, PollRefresh,
           At, Holding
  <2>4. \/ \E ids : Finish(p, ids)
        \/ pc[p] \in Holding /\ \E l \in Holding : Goto(p, l)
    BY <1>2 DEF OnWatches, SubAssign, SubScan, SubOpen, Unsub, Close,
                PollRefresh, At, Holding
  <2>5. KeepsLives
    <3>1. CASE \E ids : Finish(p, ids)
      BY <2>1, <2>2, <2>3, <3>1, FinishKeeps DEF Holding
    <3>2. CASE pc[p] \in Holding /\ \E l \in Holding : Goto(p, l)
      BY <2>1, <2>2, <3>2, GotoKeeps
    <3>. QED
      BY <2>4, <3>1, <3>2
  <2>. QED
    BY <2>2, <2>5, Stutters
<1>. QED
  BY <1>1, <1>2
-----------------------------------------------------------------------------
(* The steps of the timer, which leave the workers alone *)

LEMMA TimerKeeps ==
    ASSUME UNCHANGED <<workerVars, m_watches, born, del>>
    PROVE  KeepsLives
BY DEF KeepsLives, workerVars

LEMMA ScanMaps ==
    ASSUME Inv, DrawnInv,
           TimerFires \/ TimerVisit \/ TimerLoad \/ TimerRecheck \/ TimerScanned
    PROVE  DrawnInv' /\ UNCHANGED Registry!avars
<1>1. CASE Crash
  BY <1>1, CrashKeeps, Stutters
<1>2. CASE ~Crash
  <2>1. UNCHANGED <<workerVars, watchVars, del>>
    BY <1>2 DEF TimerFires, TimerVisit, TimerLoad, TimerRecheck, TimerScanned
  <2>. QED
    BY <2>1, TimerKeeps, Stutters DEF watchVars
<1>. QED
  BY <1>1, <1>2

(* What the timer counts down is a lease the watch has held. *)
LEMMA TimerStoreMaps ==
    ASSUME Inv, DrawnInv, TimerStore
    PROVE  DrawnInv' /\ \E w \in Wids : Registry!Lease(w)
<1> USE DEF Inv, StateTypeOK, RegistryTypeOK
<1>1. PICK v \in Wids : v = at /\ m_watches[v] = "watch" /\ loaded \in 1..DefaultLease
  BY LeaseAssumption DEF TimerStore, TimerAt, TimerInv, TimerTypeOK, Looking
<1>2. /\ m_lease' = [m_lease EXCEPT ![v] = loaded - 1]
      /\ UNCHANGED <<workerVars, m_watches, born, del>>
  BY <1>1, LeaseAssumption DEF TimerStore
<1>3. Life(v) # "unborn"
  BY <1>1 DEF Life
<1>4. \A w \in Wids : m_lease'[w] # MinLease <=> w = v \/ m_lease[w] # MinLease
  BY <1>1, <1>2, LeaseAssumption
<1>5. KeepsLives
  BY <1>2, TimerKeeps
<1>6. Registry!Lease(v)
  BY <1>3, <1>4, <1>5, LivesKept DEF Registry!Lease
<1>. QED
  BY <1>1, <1>5, <1>6, LivesKept

LEMMA TimerMarkMaps ==
    ASSUME Inv, DrawnInv, TimerMark
    PROVE  DrawnInv' /\ [\E w \in Wids : Registry!Mark(w)]_(Registry!avars)
<1> USE DEF Inv, StateTypeOK, RegistryTypeOK
<1>1. PICK v \in Wids : /\ v = at /\ m_watches[v] = "watch"
                        /\ \A i \in DOMAIN del : del[i] # v
  BY DEF TimerMark, TimerAt, TimerInv, Looking
<1>2. UNCHANGED <<workerVars, watchVars>>
  BY DEF TimerMark
<1>3. CASE del' = del
  BY <1>2, <1>3, TimerKeeps, Stutters DEF watchVars
<1>4. CASE m_lease[v] > 0 /\ del' = Append(del, v)
  <2>1. \A i : i \in DOMAIN del' <=> i \in DOMAIN del \/ i = Len(del) + 1
    BY <1>4 DEF TimerTypeOK
  <2>2. del'[Len(del) + 1] = v /\ \A i \in DOMAIN del : del'[i] = del[i]
    BY <1>4 DEF TimerTypeOK
  <2>3. \A w : Marked(w)' <=> w = v \/ Marked(w)
    BY <2>1, <2>2 DEF Marked
  <2>4. \A w : Inserting(w)' <=> Inserting(w)
    BY <1>2 DEF Inserting, workerVars
  <2>5. DrawnInv'
    BY <1>2 DEF DrawnInv, Inserting, watchVars, workerVars
  <2>6. Life(v) = "registered" /\ Life(v)' = "marked"
    BY <1>1, <2>3 DEF Life, Marked
  <2>7. ASSUME NEW w \in Wids, w # v PROVE Life(w)' = Life(w)
    BY <1>2, <2>3, <2>4, <2>7 DEF Life, watchVars
  <2>8. m_lease[v] # MinLease /\ UNCHANGED m_lease
    BY <1>2, <1>4 DEF watchVars
  <2>9. Registry!Mark(v)
    <3>1. [w \in Wids |-> Life(w)][v] = "registered"
      BY <2>6
    <3>2. v \in {w \in Wids : m_lease[w] # MinLease}
      BY <2>8
    <3>3. [w \in Wids |-> Life(w)]' = [[w \in Wids |-> Life(w)] EXCEPT ![v] = "marked"]
      BY <2>6, <2>7
    <3>4. UNCHANGED {w \in Wids : m_lease[w] # MinLease}
      BY <2>8
    <3>. QED
      BY <3>1, <3>2, <3>3, <3>4 DEF Registry!Mark
  <2>. QED
    BY <2>5, <2>9
<1>. QED
  BY <1>1, <1>3, <1>4 DEF TimerMark

LEMMA TimerEraseMaps ==
    ASSUME Inv, DrawnInv, TimerErase
    PROVE  DrawnInv' /\ [Registry!Sweep]_(Registry!avars)
<1> USE DEF Inv, StateTypeOK, RegistryTypeOK
<1>1. /\ m_watches' = [w \in AllWids |-> IF Marked(w) THEN "absent" ELSE m_watches[w]]
      /\ del' = <<>>
      /\ UNCHANGED <<born, m_lease, workerVars>>
  BY DEF TimerErase, EraseFinds, Marked
<1>2. \A w : Inserting(w)' <=> Inserting(w)
  BY <1>1 DEF Inserting, workerVars
<1>3. \A w : ~(Marked(w)')
  BY <1>1 DEF Marked
<1>4. DrawnInv'
  BY <1>1, <1>2 DEF DrawnInv, Inserting, workerVars
<1>5. ASSUME NEW w \in Wids
      PROVE  Life(w)' = IF Life(w) = "marked" THEN "gone" ELSE Life(w)
  <2>1. CASE Marked(w)
    <3>1. m_watches[w] = "watch"
      BY <2>1 DEF Marked, EraseFinds, AllFound
    <3>2. w \in born /\ ~Inserting(w)
      BY <3>1 DEF DrawnInv
    <3>3. m_watches'[w] = "absent"
      BY <1>1, <2>1
    <3>. QED
      BY <1>1, <1>2, <1>3, <2>1, <3>2, <3>3 DEF Life
  <2>2. CASE ~Marked(w)
    <3>1. m_watches'[w] = m_watches[w]
      BY <1>1, <2>2
    <3>. QED
      BY <1>1, <1>2, <1>3, <2>2, <3>1 DEF Life
  <2>. QED
    BY <2>1, <2>2
<1>6. CASE \E w \in Wids : Life(w) = "marked"
  <2>1. Registry!Sweep
    BY <1>1, <1>5, <1>6 DEF Registry!Sweep
  <2>. QED
    BY <1>4, <2>1
<1>7. CASE ~\E w \in Wids : Life(w) = "marked"
  <2>1. UNCHANGED Registry!avars
    BY <1>1, <1>5, <1>7 DEF Registry!avars
  <2>. QED
    BY <1>4, <2>1
<1>. QED
  BY <1>6, <1>7
-----------------------------------------------------------------------------
LEMMA NextMaps ==
    Inv /\ DrawnInv /\ [Next]_vars
        => DrawnInv' /\ [Registry!ANext]_(Registry!avars)
<1> SUFFICES ASSUME Inv, DrawnInv, [Next]_vars
             PROVE  DrawnInv' /\ [Registry!ANext]_(Registry!avars)
  OBVIOUS
<1> USE DEF Registry!ANext
<1>1. ASSUME NEW p \in Workers, Arrive(p)
      PROVE  DrawnInv' /\ [Registry!ANext]_(Registry!avars)
  BY <1>1, ArriveMaps
<1>2. ASSUME NEW p \in Workers, Handle(p)
      PROVE  DrawnInv' /\ [Registry!ANext]_(Registry!avars)
  BY <1>2, OnWatchOpenMaps, OnWatchMaps, RenewMaps, WatchMaps DEF Handle
<1>3. CASE TimerFires
  BY <1>3, ScanMaps
<1>4. CASE OnTimer
  BY <1>4, ScanMaps, TimerStoreMaps, TimerMarkMaps, TimerEraseMaps DEF OnTimer
<1>5. CASE Race
  BY <1>5, CrashKeeps, Stutters DEF Race
<1>6. CASE UNCHANGED vars
  BY <1>6, TimerKeeps, Stutters DEF vars, watchVars, timerVars
<1>. QED
  BY <1>1, <1>2, <1>3, <1>4, <1>5, <1>6 DEF Next

(* Whatever the interleaving of handlers and timer, and however many there *)
(* are: a watch is registered once, marked as garbage only after it has    *)
(* held a lease, dropped together with all that is marked, and never comes *)
(* back into m_watches.                                                    *)
THEOREM WatchesImplementRegistry == Spec => RegistrySpec
<1>1. Init => Inv /\ DrawnInv /\ Registry!AInit
  BY InitInv, DrawnInit, MapsInit
<1>2. Inv /\ DrawnInv /\ [Next]_vars
         => Inv' /\ DrawnInv' /\ [Registry!ANext]_(Registry!avars)
  BY NextInv, NextMaps
<1>. QED
  BY <1>1, <1>2, PTL DEF Spec, RegistrySpec, Registry!ASpec
-----------------------------------------------------------------------------
(* The subscriptions: what clients send, with ids erased from it. *)

LEMMA FirstUnknown ==
    ASSUME NEW s \in Seq(Ids), UnknownAt(s) # {}
    PROVE  \E first \in UnknownAt(s) :
              /\ first = CHOOSE i \in UnknownAt(s) : \A j \in UnknownAt(s) : i <= j
              /\ RemoveAt(s, first) \in Seq(Ids)
              /\ \A i \in DOMAIN RemoveAt(s, first) :
                    /\ i < first => RemoveAt(s, first)[i] = s[i] /\ i \in DOMAIN s
                    /\ i >= first => RemoveAt(s, first)[i] = s[i + 1] /\ i + 1 \in DOMAIN s
<1> DEFINE Smallest(i) == i \in UnknownAt(s) /\ \A j \in UnknownAt(s) : i <= j
           first == CHOOSE i \in UnknownAt(s) : \A j \in UnknownAt(s) : i <= j
<1>1. UnknownAt(s) \subseteq 1..Len(s)
  BY DEF UnknownAt
<1>2. \E i \in UnknownAt(s) : \A j \in UnknownAt(s) : i <= j
  BY <1>1, FirstPlace
<1>3. first \in UnknownAt(s)
  BY <1>2
<1> HIDE DEF first
<1>4. first \in 1..Len(s)
  BY <1>1, <1>3
<1>5. RemoveAt(s, first) = SubSeq(s, 1, first - 1) \o SubSeq(s, first + 1, Len(s))
  BY DEF RemoveAt
<1> DEFINE front == SubSeq(s, 1, first - 1)
           back == SubSeq(s, first + 1, Len(s))
<1>6. /\ front \in Seq(Ids) /\ Len(front) = first - 1
      /\ \A i \in 1..first - 1 : front[i] = s[i]
  BY <1>4
<1>7. /\ back \in Seq(Ids) /\ Len(back) = Len(s) - first
      /\ \A i \in 1..Len(s) - first : back[i] = s[first + i]
  BY <1>4
<1> HIDE DEF front, back
<1>8. /\ front \o back \in Seq(Ids) /\ Len(front \o back) = Len(s) - 1
      /\ \A i \in 1..Len(s) - 1 : (front \o back)[i] = IF i < first THEN s[i] ELSE s[i + 1]
  <2>1. /\ front \o back \in Seq(Ids) /\ Len(front \o back) = Len(s) - 1
        /\ \A i \in 1..Len(s) - 1 :
              (front \o back)[i] = IF i <= Len(front) THEN front[i] ELSE back[i - Len(front)]
    <3>1. Len(front) + Len(back) = Len(s) - 1
      BY <1>4, <1>6, <1>7
    <3> QED BY <1>6, <1>7, <3>1, ConcatPlaces
  <2>2. ASSUME NEW i \in 1..Len(s) - 1
        PROVE  (front \o back)[i] = IF i < first THEN s[i] ELSE s[i + 1]
    <3>1. CASE i < first
      <4>1. i <= Len(front) /\ i \in 1..first - 1
        BY <1>4, <1>6, <3>1
      <4> QED BY <1>6, <2>1, <3>1, <4>1
    <3>2. CASE ~(i < first)
      <4>1. /\ ~(i <= Len(front)) /\ i - Len(front) \in 1..Len(s) - first
            /\ first + (i - Len(front)) = i + 1
        BY <1>4, <1>6, <3>2
      <4> QED BY <1>7, <2>1, <3>2, <4>1
    <3> QED BY <3>1, <3>2
  <2> QED BY <2>1, <2>2
<1>9. RemoveAt(s, first) = front \o back
  BY <1>5 DEF front, back
<1>10. \A i \in DOMAIN RemoveAt(s, first) :
          /\ i < first => RemoveAt(s, first)[i] = s[i] /\ i \in DOMAIN s
          /\ i >= first => RemoveAt(s, first)[i] = s[i + 1] /\ i + 1 \in DOMAIN s
  <2>1. DOMAIN (front \o back) = 1..Len(s) - 1
    BY <1>8
  <2>2. ASSUME NEW i \in 1..Len(s) - 1
        PROVE  /\ i < first => i \in DOMAIN s
               /\ i >= first => i + 1 \in DOMAIN s
    BY <1>4
  <2>3. ASSUME NEW i \in DOMAIN RemoveAt(s, first)
        PROVE  /\ i < first => RemoveAt(s, first)[i] = s[i] /\ i \in DOMAIN s
               /\ i >= first => RemoveAt(s, first)[i] = s[i + 1] /\ i + 1 \in DOMAIN s
    <3>1. i \in 1..Len(s) - 1
      BY <1>9, <2>1
    <3>2. RemoveAt(s, first)[i] = IF i < first THEN s[i] ELSE s[i + 1]
      BY <1>8, <1>9, <3>1, Zenon
    <3>3. i >= first <=> ~(i < first)
      BY <1>4, <3>1
    <3>. QED
      BY <2>2, <3>1, <3>2, <3>3, Zenon
  <2>. QED
    BY <2>3
<1>. QED
  BY <1>3, <1>8, <1>9, <1>10 DEF first

IdsTypeOK == m_ids \in [Wids -> Seq(Ids)]

LEMMA IdsTypeStep ==
    ASSUME StateTypeOK, IdsTypeOK, [Next]_vars
    PROVE  IdsTypeOK'
<1> USE DEF StateTypeOK, WorkersTypeOK, IdsTypeOK
<1>1. ASSUME NEW p \in Workers, SubAssign(p) PROVE IdsTypeOK'
  BY <1>1 DEF SubAssign, At, Request
<1>2. ASSUME NEW p \in Workers, SubScan(p) PROVE IdsTypeOK'
  <2>1. CASE UNCHANGED m_ids
    BY <2>1
  <2>2. CASE m_ids' # m_ids
    <3>1. PICK w \in Wids : w = req[p].wid
      BY <1>2 DEF SubScan, At
    <3>2. PICK s \in Seq(Ids) : s = m_ids[w]
      OBVIOUS
    <3>3. /\ UnknownAt(s) # {}
          /\ m_ids' = [m_ids EXCEPT ![w] =
                RemoveAt(@, CHOOSE i \in UnknownAt(s) : \A j \in UnknownAt(s) : i <= j)]
      BY <1>2, <2>2, <3>1, <3>2 DEF SubScan, Crash, watchVars
    <3>. QED
      BY <3>2, <3>3, FirstUnknown
  <2>. QED
    BY <2>1, <2>2
<1>3. ASSUME NEW p \in Workers, Unsub(p) PROVE IdsTypeOK'
  <2>1. CASE Crash
    BY <2>1 DEF Crash, watchVars
  <2>2. CASE ~Crash
    <3>1. PICK w \in Wids : w = req[p].wid
      BY <1>3 DEF Unsub, At
    <3>2. m_ids' = [m_ids EXCEPT ![w] = Remaining(m_ids[w], ToSet(req[p].ids))]
      BY <1>3, <2>2, <3>1 DEF Unsub
    <3>. QED
      BY <3>1, <3>2, RemainingType
  <2>. QED
    BY <2>1, <2>2
<1>4. ASSUME NEW p \in Workers, Arrive(p) PROVE IdsTypeOK'
  BY <1>4 DEF Arrive, Lookup, List, NewWatch, watchVars
<1>5. ASSUME NEW p \in Workers,
             \/ OnWatchOpen(p) \/ OnWatch(p) \/ OnWatches(p) \/ SubOpen(p)
             \/ Renew(p) \/ Close(p) \/ PollRefresh(p)
      PROVE  IdsTypeOK'
  BY <1>5 DEF OnWatchOpen, OnWatch, OnWatches, SubOpen, Renew, Close, PollRefresh,
              Crash, watchVars
<1>6. CASE TimerFires \/ OnTimer \/ Race
  BY <1>6 DEF TimerFires, OnTimer, TimerVisit, TimerLoad, TimerStore, TimerRecheck,
              TimerMark, TimerScanned, TimerErase, Race, Crash, watchVars
<1>7. CASE UNCHANGED vars
  BY <1>7 DEF vars, watchVars
<1>. QED
  BY <1>1, <1>2, <1>3, <1>4, <1>5, <1>6, <1>7 DEF Next, Handle

(* In every reachable state, for any constants, the state has its types.   *)
THEOREM AllTypesHold == Spec => []TypeOK
<1>1. Init => IdsTypeOK
  BY DEF Init, IdsTypeOK
<1>2. Inv /\ IdsTypeOK /\ [Next]_vars => IdsTypeOK'
  BY IdsTypeStep DEF Inv
<1>3. Inv /\ IdsTypeOK => TypeOK
  BY DEF Inv, TypeOK, IdsTypeOK
<1>. QED
  BY InitInv, NextInv, <1>1, <1>2, <1>3, PTL DEF Spec
-----------------------------------------------------------------------------
(* Considerate clients.  A watch is in the hands of one worker only: of    *)
(* the one that drew its uuid, whose client is the only one to be told.    *)

Holds(p, w) == \/ w \in told[p]
               \/ pc[p] \in Holding \cup {"insert"} /\ req[p].wid = w

OwnInv ==
    /\ \A p, q \in Workers, w \in Wids : Holds(p, w) /\ Holds(q, w) => p = q
    /\ \A p \in Workers, w \in Wids : Holds(p, w) => w \in born
    /\ \A p \in Workers :
          /\ pc[p] = "inMap" => req[p].wid \in told[p] \cup Strays
          /\ pc[p] # "idle" => Considerate(req[p])
          /\ pc[p] # "inList"
          /\ pc[p] = "assign" => req[p].op \in {"sub", "subNew"}
          /\ pc[p] = "unsub" => req[p].op = "unsub"

(* No subscription has duplicates, and none an unknown id but while the    *)
(* sub that brought it looks for it: and then it is not the last.          *)
Scanning(w) == \E p \in Workers : pc[p] = "scan" /\ req[p].wid = w

IdsInv ==
    \A w \in Wids :
        /\ IsInjective(m_ids[w])
        /\ \A i, j \in UnknownAt(m_ids[w]) : i = j /\ i # Len(m_ids[w])
        /\ UnknownAt(m_ids[w]) = {} \/ Scanning(w)

OwnersInv == Inv /\ IdsTypeOK /\ OwnInv /\ IdsInv /\ OnlyStaleIdsKill

LEMMA OwnFinish ==
    ASSUME OwnInv, WorkersTypeOK, NEW p \in Workers, NEW ids,
           Finish(p, ids), \A w \in ids : Holds(p, w), UNCHANGED born
    PROVE  OwnInv'
<1>1. ASSUME NEW q \in Workers, NEW w, Holds(q, w)' PROVE Holds(q, w)
  BY <1>1 DEF Finish, Holds, WorkersTypeOK, Holding
<1>2. \A q \in Workers : /\ q # p => pc'[q] = pc[q] /\ req'[q] = req[q] /\ told'[q] = told[q]
                         /\ q = p => pc'[q] = "idle"
  BY DEF Finish, WorkersTypeOK
<1>. QED
  BY <1>1, <1>2 DEF OwnInv

LEMMA OwnGoto ==
    ASSUME OwnInv, WorkersTypeOK, NEW p \in Workers, NEW l \in Holding,
           Goto(p, l), pc[p] # "idle", Holds(p, req[p].wid), UNCHANGED born,
           l = "assign" => req[p].op \in {"sub", "subNew"},
           l = "unsub" => req[p].op = "unsub"
    PROVE  OwnInv'
<1>1. ASSUME NEW q \in Workers, NEW w, Holds(q, w)' PROVE Holds(q, w)
  BY <1>1 DEF Goto, Holds, WorkersTypeOK, Holding
<1>2. UNCHANGED <<told, req>>
  BY DEF Goto
<1>3. \A q \in Workers : /\ q # p => pc'[q] = pc[q]
                         /\ q = p => pc'[q] = l
  BY DEF Goto, WorkersTypeOK
<1>. QED
  BY <1>1, <1>2, <1>3 DEF OwnInv, Holding

LEMMA OwnProceed ==
    ASSUME OwnInv, WorkersTypeOK, NEW p \in Workers, Proceed(p),
           pc[p] \in {"insert", "inMap"}, Holds(p, req[p].wid), UNCHANGED born
    PROVE  OwnInv'
<1>1. req[p] \in Request /\ req[p].op # "list"
  BY DEF WorkersTypeOK
<1>2. AfterLookup(req[p]) \in {"idle", "assign", "unsub", "close", "poll"}
  BY <1>1, AfterLookupType
<1>3. /\ AfterLookup(req[p]) = "assign" => req[p].op \in {"sub", "subNew"}
      /\ AfterLookup(req[p]) = "unsub" => req[p].op = "unsub"
  BY <1>1 DEF AfterLookup, Request, Ops
<1>4. CASE AfterLookup(req[p]) = "idle"
  BY <1>4, OwnFinish DEF Proceed
<1>5. CASE AfterLookup(req[p]) # "idle"
  BY <1>2, <1>3, <1>5, OwnGoto DEF Proceed, Holding
<1>. QED
  BY <1>4, <1>5

LEMMA OwnStutter ==
    ASSUME OwnInv, UNCHANGED <<workerVars, born>>
    PROVE  OwnInv'
<1>1. \A q, w : Holds(q, w)' <=> Holds(q, w)
  BY DEF Holds, workerVars
<1>. QED
  BY <1>1 DEF OwnInv, workerVars

(* A step that leaves the subscriptions alone and ends no scan. *)
LEMMA IdsStutter ==
    ASSUME IdsInv, UNCHANGED m_ids,
           \A p \in Workers : pc[p] = "scan" => pc'[p] = "scan" /\ req'[p].wid = req[p].wid
    PROVE  IdsInv'
<1>1. \A w : Scanning(w) => Scanning(w)'
  BY DEF Scanning
<1>. QED
  BY <1>1 DEF IdsInv

LEMMA FinishScans ==
    ASSUME WorkersTypeOK, NEW p \in Workers, NEW ids, Finish(p, ids), pc[p] # "scan"
    PROVE  \A q \in Workers : pc[q] = "scan" => pc'[q] = "scan" /\ req'[q].wid = req[q].wid
BY DEF Finish, WorkersTypeOK

LEMMA GotoScans ==
    ASSUME WorkersTypeOK, NEW p \in Workers, NEW l, Goto(p, l), pc[p] # "scan"
    PROVE  \A q \in Workers : pc[q] = "scan" => pc'[q] = "scan" /\ req'[q].wid = req[q].wid
BY DEF Goto, WorkersTypeOK

LEMMA ProceedScans ==
    ASSUME WorkersTypeOK, NEW p \in Workers, Proceed(p), pc[p] # "scan"
    PROVE  \A q \in Workers : pc[q] = "scan" => pc'[q] = "scan" /\ req'[q].wid = req[q].wid
BY FinishScans, GotoScans DEF Proceed

(* Of the watch that a worker works on no other worker is in a scan. *)
LEMMA OwnScan ==
    ASSUME OwnInv, WorkersTypeOK, NEW p \in Workers, pc[p] \in Holding,
           Scanning(req[p].wid)
    PROVE  pc[p] = "scan"
<1>1. req[p].wid \in Wids /\ Holds(p, req[p].wid)
  BY DEF WorkersTypeOK, Holds, Holding
<1>2. PICK q \in Workers : pc[q] = "scan" /\ req[q].wid = req[p].wid
  BY DEF Scanning
<1>3. Holds(q, req[p].wid)
  BY <1>2 DEF Holds, Holding
<1>. QED
  BY <1>1, <1>2, <1>3 DEF OwnInv

(* A step that changes the subscription of one watch at most. *)
LEMMA IdsStep ==
    ASSUME IdsInv, NEW w \in Wids,
           \A v \in Wids : v # w => m_ids'[v] = m_ids[v],
           \A q \in Workers : pc[q] = "scan" /\ req[q].wid # w
                               => pc'[q] = "scan" /\ req'[q].wid = req[q].wid,
           IsInjective(m_ids'[w]),
           \A i, j \in UnknownAt(m_ids'[w]) : i = j /\ i # Len(m_ids'[w]),
           UnknownAt(m_ids'[w]) = {} \/ Scanning(w)'
    PROVE  IdsInv'
<1>1. \A v \in Wids : v # w /\ Scanning(v) => Scanning(v)'
  BY DEF Scanning
<1>. QED
  BY <1>1 DEF IdsInv

(* What may have ended the process. *)
StaleId == \/ \E w \in AllWids : m_watches[w] = "null"
           \/ \E p \in Workers : MapRace(p)

Kept == OwnInv /\ IdsInv /\ OnlyStaleIdsKill

LEMMA CrashKept ==
    ASSUME OwnInv, IdsInv, Crash, StaleId
    PROVE  Kept'
<1>1. OwnInv' /\ IdsInv'
  BY OwnStutter, IdsStutter DEF Crash, watchVars, workerVars
<1>2. UNCHANGED <<m_watches, pc, req, tpc>>
  BY DEF Crash, watchVars, workerVars, timerVars
<1>3. StaleId'
  BY <1>2 DEF StaleId, MapRace, Readers
<1>. QED
  BY <1>1, <1>3 DEF Kept, OnlyStaleIdsKill, StaleId

LEMMA ArriveKept ==
    ASSUME \A r \in Requests : Considerate(r),
           Inv, OwnInv, IdsInv, NEW p \in Workers, Arrive(p)
    PROVE  Kept'
<1> USE DEF Inv, StateTypeOK
<1>1. PICK r \in Requests : Lookup(p, r) \/ List(p, r) \/ NewWatch(p, r)
  BY DEF Arrive
<1>2. Considerate(r) /\ r \in Request
  BY RequestsAssumption
<1>3. UNCHANGED <<m_ids, told, up>> /\ up /\ pc[p] = "idle"
  BY <1>1 DEF Lookup, List, NewWatch, watchVars, At
<1>4. IdsInv'
  BY <1>1, <1>3, IdsStutter DEF Lookup, List, NewWatch, WorkersTypeOK
<1>5. CASE Lookup(p, r)
  <2>1. ASSUME NEW q \in Workers, NEW w, Holds(q, w)' PROVE Holds(q, w)
    BY <1>5, <2>1 DEF Lookup, Holds, WorkersTypeOK, Holding
  <2>2. \A q \in Workers : /\ q # p => pc'[q] = pc[q] /\ req'[q] = req[q]
                           /\ q = p => pc'[q] = "inMap" /\ req'[q] = r
    BY <1>5 DEF Lookup, WorkersTypeOK
  <2>3. r.wid \in told[p] \cup Strays /\ UNCHANGED born
    BY <1>5 DEF Lookup, watchVars
  <2>. QED
    BY <1>2, <1>3, <1>4, <2>1, <2>2, <2>3 DEF OwnInv, Kept, OnlyStaleIdsKill
<1>6. CASE List(p, r)
  BY <1>2, <1>6 DEF List, Considerate
<1>7. CASE NewWatch(p, r)
  <2>1. PICK w \in Wids \ born : /\ born' = born \cup {w}
                                /\ req' = [req EXCEPT ![p] = [r EXCEPT !.wid = w]]
    BY <1>7 DEF NewWatch
  <2>2. PICK q \in Request : q = [r EXCEPT !.wid = w]
    BY <1>2 DEF Request
  <2>3. q.wid = w /\ q.op = r.op /\ q.ids = r.ids
    BY <1>2, <2>2 DEF Request
  <2>4. Considerate(q)
    BY <1>2, <2>3 DEF Considerate
  <2>5. \A x \in Workers : /\ x # p => pc'[x] = pc[x] /\ req'[x] = req[x]
                           /\ x = p => pc'[x] = "insert" /\ req'[x] = q
    BY <1>7, <2>1, <2>2 DEF NewWatch, WorkersTypeOK
  <2>6. ASSUME NEW x \in Workers, NEW v, Holds(x, v)'
        PROVE  Holds(x, v) \/ (x = p /\ v = w)
    BY <1>3, <2>3, <2>5, <2>6 DEF Holds
  <2>7. \A x \in Workers : ~Holds(x, w)
    BY <2>1 DEF OwnInv
  <2>8. /\ \A x, y \in Workers, v \in Wids : Holds(x, v)' /\ Holds(y, v)' => x = y
        /\ \A x \in Workers, v \in Wids : Holds(x, v)' => v \in born'
    BY <2>1, <2>6, <2>7 DEF OwnInv
  <2>. QED
    BY <1>3, <1>4, <2>4, <2>5, <2>8 DEF OwnInv, Kept, OnlyStaleIdsKill
<1>. QED
  BY <1>1, <1>5, <1>6, <1>7

LEMMA LookedUpKept ==
    ASSUME Inv, OwnInv, IdsInv, NEW p \in Workers, OnWatchOpen(p) \/ OnWatch(p)
    PROVE  Kept'
<1> USE DEF Inv, StateTypeOK
<1>1. /\ UNCHANGED <<born, m_ids, up>> /\ up
      /\ pc[p] \in {"insert", "inMap"}
  BY DEF OnWatchOpen, OnWatch, At
<1>2. \/ Finish(p, {})
      \/ Proceed(p) /\ Holds(p, req[p].wid)
  <2>1. CASE OnWatchOpen(p)
    BY <2>1 DEF OnWatchOpen, At, Holds, WorkersTypeOK
  <2>2. CASE OnWatch(p)
    <3>1. pc[p] = "inMap" /\ req[p].wid \in told[p] \cup Strays
      BY <2>2 DEF OnWatch, At, OwnInv
    <3>2. m_watches[req[p].wid] = "watch" => req[p].wid \notin Strays
      BY DEF RegistryTypeOK
    <3>. QED
      BY <2>2, <3>1, <3>2 DEF OnWatch, Holds
  <2>. QED
    BY <2>1, <2>2
<1>3. OwnInv'
  BY <1>1, <1>2, OwnFinish, OwnProceed
<1>4. \A q \in Workers : pc[q] = "scan" => pc'[q] = "scan" /\ req'[q].wid = req[q].wid
  BY <1>1, <1>2, FinishScans, ProceedScans
<1>5. IdsInv'
  BY <1>1, <1>4, IdsStutter
<1>. QED
  BY <1>1, <1>3, <1>5 DEF Kept, OnlyStaleIdsKill

LEMMA AssignKept ==
    ASSUME Inv, IdsTypeOK, OwnInv, IdsInv, NEW p \in Workers, SubAssign(p)
    PROVE  Kept'
<1> USE DEF Inv, StateTypeOK
<1>1. PICK w \in Wids : w = req[p].wid
  BY DEF SubAssign, At, WorkersTypeOK
<1>2. PICK s \in Seq(Ids) : s = req[p].ids
  BY DEF SubAssign, At, WorkersTypeOK, Request
<1>3. /\ pc[p] = "assign" /\ up /\ Goto(p, "scan")
      /\ UNCHANGED <<born, up>>
  BY DEF SubAssign, At
<1>4. m_ids'[w] = s /\ \A v \in Wids : v # w => m_ids'[v] = m_ids[v]
  BY <1>1, <1>2 DEF SubAssign, IdsTypeOK
<1>5. /\ IsInjective(s)
      /\ \A i, j \in UnknownAt(s) : i = j /\ i # Len(s)
  BY <1>2, <1>3 DEF OwnInv, Considerate
<1>6. Scanning(w)'
  BY <1>1, <1>3 DEF Goto, Scanning, WorkersTypeOK
<1>7. \A q \in Workers : pc[q] = "scan" => pc'[q] = "scan" /\ req'[q].wid = req[q].wid
  BY <1>3, GotoScans
<1>8. IdsInv'
  BY <1>4, <1>5, <1>6, <1>7, IdsStep
<1>9. OwnInv'
  BY <1>3, OwnGoto DEF Holds, Holding
<1>. QED
  BY <1>3, <1>8, <1>9 DEF Kept, OnlyStaleIdsKill

(* The unknown id is found and erased by the sub that brought it. *)
LEMMA SubScanKept ==
    ASSUME Inv, IdsTypeOK, OwnInv, IdsInv, NEW p \in Workers, SubScan(p)
    PROVE  Kept'
<1> USE DEF Inv, StateTypeOK
<1>1. PICK w \in Wids : w = req[p].wid
  BY DEF SubScan, At, WorkersTypeOK
<1>2. PICK s \in Seq(Ids) : s = m_ids[w]
  BY DEF IdsTypeOK
<1>3. pc[p] = "scan" /\ up
  BY DEF SubScan, At
<1>4. /\ IsInjective(s)
      /\ \A i, j \in UnknownAt(s) : i = j /\ i # Len(s)
  BY <1>2 DEF IdsInv
<1>5. CASE UnknownAt(s) = {}
  <2>1. Goto(p, "setOpen") /\ UNCHANGED <<born, m_ids, up>>
    BY <1>1, <1>2, <1>5 DEF SubScan, watchVars
  <2>2. \A q \in Workers : pc[q] = "scan" /\ req[q].wid # w
                           => pc'[q] = "scan" /\ req'[q].wid = req[q].wid
    BY <1>1, <2>1 DEF Goto, WorkersTypeOK
  <2>3. IdsInv'
    BY <1>2, <1>4, <1>5, <2>1, <2>2, IdsStep
  <2>4. OwnInv'
    BY <1>3, <2>1, OwnGoto DEF Holds, Holding
  <2>. QED
    BY <1>3, <2>1, <2>3, <2>4 DEF Kept, OnlyStaleIdsKill
<1>6. CASE UnknownAt(s) # {}
  <2>1. PICK first \in UnknownAt(s) :
           /\ first = CHOOSE i \in UnknownAt(s) : \A j \in UnknownAt(s) : i <= j
           /\ RemoveAt(s, first) \in Seq(Ids)
           /\ \A i \in DOMAIN RemoveAt(s, first) :
                 /\ i < first => RemoveAt(s, first)[i] = s[i] /\ i \in DOMAIN s
                 /\ i >= first => RemoveAt(s, first)[i] = s[i + 1] /\ i + 1 \in DOMAIN s
    BY <1>6, FirstUnknown
  <2>2. PICK t \in Seq(Ids) : t = RemoveAt(s, first)
    BY <2>1
  <2>3. /\ first # Len(s) /\ first \in DOMAIN s
        /\ \A i \in DOMAIN s : s[i] \notin Recs => i = first
    BY <1>4 DEF UnknownAt
  <2>4. \A i \in DOMAIN t : /\ i < first => t[i] = s[i] /\ i \in DOMAIN s
                            /\ i >= first => t[i] = s[i + 1] /\ i + 1 \in DOMAIN s
    BY <2>1, <2>2
  <2>5. DOMAIN s = 1..Len(s) /\ DOMAIN t = 1..Len(t)
    OBVIOUS
  <2>6. UnknownAt(t) = {}
    BY <2>3, <2>4, <2>5 DEF UnknownAt
  <2>7. IsInjective(t)
    <3>1. ASSUME NEW i \in DOMAIN t, NEW j \in DOMAIN t, t[i] = t[j] PROVE i = j
      <4>1. \A a, b \in DOMAIN s : s[a] = s[b] => a = b
        BY <1>4 DEF IsInjective
      <4>. QED
        BY <2>3, <2>4, <2>5, <3>1, <4>1
    <3>. QED
      BY <3>1 DEF IsInjective
  <2>8. /\ m_ids' = [m_ids EXCEPT ![w] = t]
        /\ Finish(p, {})
        /\ UNCHANGED <<born, up>>
    BY <1>1, <1>2, <1>6, <2>1, <2>2, <2>3 DEF SubScan
  <2>9. m_ids'[w] = t /\ \A v \in Wids : v # w => m_ids'[v] = m_ids[v]
    BY <2>8 DEF IdsTypeOK
  <2>10. \A q \in Workers : pc[q] = "scan" /\ req[q].wid # w
                            => pc'[q] = "scan" /\ req'[q].wid = req[q].wid
    BY <1>1, <2>8 DEF Finish, WorkersTypeOK
  <2>11. IdsInv'
    BY <2>6, <2>7, <2>9, <2>10, IdsStep
  <2>12. OwnInv'
    BY <2>8, OwnFinish
  <2>. QED
    BY <1>3, <2>8, <2>11, <2>12 DEF Kept, OnlyStaleIdsKill
<1>. QED
  BY <1>5, <1>6

(* What a worker finds in a subscription that nobody is bringing. *)
LEMMA NoUnknown ==
    ASSUME Inv, OwnInv, IdsInv, NEW p \in Workers,
           pc[p] \in Holding \ {"scan"}
    PROVE  UnknownAt(m_ids[req[p].wid]) = {}
<1>1. ~Scanning(req[p].wid) /\ req[p].wid \in Wids
  BY OwnScan DEF Inv, StateTypeOK, WorkersTypeOK, Holding
<1>. QED
  BY <1>1 DEF IdsInv

LEMMA UnsubKept ==
    ASSUME Inv, IdsTypeOK, OwnInv, IdsInv, NEW p \in Workers, Unsub(p)
    PROVE  Kept'
<1> USE DEF Inv, StateTypeOK
<1>1. PICK w \in Wids : w = req[p].wid
  BY DEF Unsub, At, WorkersTypeOK
<1>2. PICK s \in Seq(Ids) : s = m_ids[w]
  BY DEF IdsTypeOK
<1>3. pc[p] = "unsub" /\ up
  BY DEF Unsub, At
<1>4. PICK V : V = ToSet(req[p].ids)
  OBVIOUS
<1>5. \A u, v \in V : u = v
  <2>1. req[p] \in Request /\ req[p].op = "unsub" /\ Considerate(req[p])
    BY <1>3 DEF OwnInv, WorkersTypeOK
  <2>2. PICK r \in Request : r = req[p]
    BY <2>1
  <2>3. \A i, j \in DOMAIN r.ids : r.ids[i] = r.ids[j]
    BY <2>1, <2>2 DEF Considerate
  <2>. QED
    BY <1>4, <2>2, <2>3 DEF ToSet
<1>6. IsInjective(s) /\ UnknownAt(s) = {}
  BY <1>1, <1>2, <1>3, NoUnknown DEF IdsInv, Holding
<1>7. ~OverrunsEnd(s, V) /\ Remaining(s, V) = Selected(s, Others(s, V))
  BY <1>5, <1>6, OneIdErased DEF IsInjective
<1>8. PICK t \in Seq(Ids) : t = Selected(s, Others(s, V))
  BY SelectedType
<1>9. /\ \A j \in DOMAIN t : \E i \in DOMAIN s : t[j] = s[i]
      /\ \A i, j \in DOMAIN t : t[i] = t[j] => i = j
  <2>1. PICK P : P = Others(s, V)
    OBVIOUS
  <2>2. \A i, j \in DOMAIN s : s[i] = s[j] => i = j
    BY <1>6 DEF IsInjective
  <2>3. /\ \A j \in DOMAIN Selected(s, P) :
              \E i \in DOMAIN s : i \in P /\ Selected(s, P)[j] = s[i]
        /\ \A i, j \in DOMAIN Selected(s, P) :
              Selected(s, P)[i] = Selected(s, P)[j] => i = j
    BY <2>2, SelectedElements
  <2>. QED
    BY <1>8, <2>1, <2>3
<1>10. IsInjective(t) /\ UnknownAt(t) = {}
  BY <1>6, <1>9 DEF IsInjective, UnknownAt
<1>11. /\ m_ids' = [m_ids EXCEPT ![w] = t]
       /\ Finish(p, {})
       /\ UNCHANGED <<born, up>>
  BY <1>1, <1>2, <1>4, <1>7, <1>8 DEF Unsub
<1>12. m_ids'[w] = t /\ \A v \in Wids : v # w => m_ids'[v] = m_ids[v]
  BY <1>11 DEF IdsTypeOK
<1>13. \A q \in Workers : pc[q] = "scan" => pc'[q] = "scan" /\ req'[q].wid = req[q].wid
  BY <1>3, <1>11, FinishScans
<1>14. IdsInv'
  BY <1>10, <1>12, <1>13, IdsStep
<1>15. OwnInv'
  BY <1>11, OwnFinish
<1>. QED
  BY <1>3, <1>11, <1>14, <1>15 DEF Kept, OnlyStaleIdsKill

(* The poll finds a record for every id. *)
LEMMA PollKept ==
    ASSUME Inv, IdsTypeOK, OwnInv, IdsInv, NEW p \in Workers, PollRefresh(p)
    PROVE  Kept'
<1> USE DEF Inv, StateTypeOK
<1>1. PICK w \in Wids : w = req[p].wid
  BY DEF PollRefresh, At, WorkersTypeOK
<1>2. PICK s \in Seq(Ids) : s = m_ids[w]
  BY DEF IdsTypeOK
<1>3. pc[p] = "poll" /\ up
  BY DEF PollRefresh, At
<1>4. \A i \in DOMAIN s : s[i] \in Recs
  BY <1>1, <1>2, <1>3, NoUnknown DEF Holding, UnknownAt
<1>5. PICK odd : odd = {i \in DOMAIN s : s[i] \notin Points}
  OBVIOUS
<1>6. odd # {} => (CHOOSE i \in odd : \A j \in odd : i <= j) \in DOMAIN s
  <2>1. ASSUME odd # {} PROVE \E i \in odd : \A j \in odd : i <= j
    <3>1. odd \subseteq Nat
      BY <1>5
    <3>. QED
      BY <2>1, <3>1, FirstPlace
  <2>2. ASSUME odd # {} PROVE (CHOOSE i \in odd : \A j \in odd : i <= j) \in odd
    BY <2>1, <2>2
  <2>. QED
    BY <1>5, <2>2
<1>7. /\ Goto(p, "pollLease") \/ Finish(p, {})
      /\ UNCHANGED <<born, m_ids, up>>
  BY <1>1, <1>2, <1>4, <1>5, <1>6 DEF PollRefresh, watchVars
<1>8. \A q \in Workers : pc[q] = "scan" => pc'[q] = "scan" /\ req'[q].wid = req[q].wid
  BY <1>3, <1>7, GotoScans, FinishScans
<1>9. OwnInv'
  BY <1>3, <1>7, OwnGoto, OwnFinish DEF Holds, Holding
<1>10. IdsInv'
  BY <1>7, <1>8, IdsStutter
<1>. QED
  BY <1>3, <1>7, <1>9, <1>10 DEF Kept, OnlyStaleIdsKill

LEMMA FieldKept ==
    ASSUME Inv, OwnInv, IdsInv, NEW p \in Workers,
           OnWatches(p) \/ SubOpen(p) \/ Renew(p) \/ Close(p)
    PROVE  Kept'
<1> USE DEF Inv, StateTypeOK
<1>1. pc[p] # "inList"
  BY DEF OwnInv
<1>2. /\ SubOpen(p) \/ Renew(p) \/ Close(p)
      /\ UNCHANGED <<born, m_ids, up>> /\ up
      /\ pc[p] \in Holding \ {"scan"}
  BY <1>1 DEF OnWatches, SubOpen, Renew, Close, At, Holding
<1>3. Holds(p, req[p].wid)
  BY <1>2 DEF Holds
<1>4. Goto(p, "setLease") \/ Finish(p, {}) \/ Finish(p, {req[p].wid})
  BY <1>2 DEF SubOpen, Renew, Close
<1>5. OwnInv'
  BY <1>2, <1>3, <1>4, OwnGoto, OwnFinish DEF Holding
<1>6. \A q \in Workers : pc[q] = "scan" => pc'[q] = "scan" /\ req'[q].wid = req[q].wid
  BY <1>2, <1>4, GotoScans, FinishScans
<1>7. IdsInv'
  BY <1>2, <1>6, IdsStutter
<1>. QED
  BY <1>2, <1>5, <1>7 DEF Kept, OnlyStaleIdsKill

(* The timer can only come across a null entry; no marked watch is gone. *)
LEMMA TimerKept ==
    ASSUME Inv, OwnInv, IdsInv, TimerFires \/ OnTimer
    PROVE  Kept'
<1> USE DEF Inv, StateTypeOK
<1>1. CASE Crash
  <2>1. up' = FALSE
    BY <1>1 DEF Crash
  <2>2. StaleId
    BY <1>1, <2>1 DEF TimerFires, OnTimer, TimerVisit, TimerLoad, TimerStore, TimerRecheck,
           TimerMark, TimerScanned, TimerErase, TimerAt, EraseFinds, StaleId,
           TimerTypeOK
  <2>. QED
    BY <1>1, <2>2, CrashKept
<1>2. CASE ~Crash
  <2>1. UNCHANGED <<born, m_ids, workerVars, up>> /\ up
    BY <1>2 DEF TimerFires, OnTimer, TimerVisit, TimerLoad, TimerStore, TimerRecheck,
           TimerMark, TimerScanned, TimerErase, TimerAt, watchVars
  <2>2. OwnInv'
    BY <2>1, OwnStutter
  <2>3. IdsInv'
    BY <2>1, IdsStutter DEF workerVars
  <2>. QED
    BY <2>1, <2>2, <2>3 DEF Kept, OnlyStaleIdsKill
<1>. QED
  BY <1>1, <1>2

(* No two workers are at work on the same watch. *)
LEMMA RaceKept ==
    ASSUME Inv, OwnInv, IdsInv, Race
    PROVE  Kept'
<1> USE DEF Inv, StateTypeOK
<1>1. ASSUME NEW p \in Workers, NEW q \in Workers, IdsRace(p, q) PROVE FALSE
  <2>1. /\ pc[p] \in Holding /\ pc[q] \in Holding
        /\ p # q /\ req[p].wid = req[q].wid
    BY <1>1 DEF IdsRace, WritesIds, UsesIds, Holding
  <2>2. Holds(p, req[p].wid) /\ Holds(q, req[p].wid) /\ req[p].wid \in Wids
    BY <2>1 DEF Holds, WorkersTypeOK, Holding
  <2>. QED
    BY <2>1, <2>2 DEF OwnInv
<1>2. Crash /\ StaleId
  BY <1>1 DEF Race, StaleId
<1>. QED
  BY <1>2, CrashKept

(* Considerate clients can end the process only through an id that the     *)
(* registry has dropped, or never had: a null entry that such an id has    *)
(* left there, or a lookup that inserts one while others read.  The        *)
(* subscriptions, which nothing guards, need no lock then: each has one    *)
(* owner, no duplicates, and unknown ids only while it is being scanned.   *)
THEOREM ConsiderateClientsSurvive ==
    ASSUME \A r \in Requests : Considerate(r)
    PROVE  Spec => []OnlyStaleIdsKill
<1>1. Init => OwnersInv
  <2> SUFFICES ASSUME Init PROVE OwnersInv
    OBVIOUS
  <2>1. \A p \in Workers : pc[p] = "idle" /\ told[p] = {}
    BY DEF Init
  <2>2. OwnInv
    BY <2>1 DEF OwnInv, Holds, Holding
  <2>3. IdsTypeOK /\ \A w \in Wids : m_ids[w] = <<>>
    BY DEF Init, IdsTypeOK
  <2>4. IdsInv
    BY <2>3 DEF IdsInv, IsInjective, UnknownAt
  <2>5. OnlyStaleIdsKill
    BY DEF Init, OnlyStaleIdsKill
  <2>. QED
    BY <2>2, <2>3, <2>4, <2>5, InitInv DEF OwnersInv
<1>2. OwnersInv /\ [Next]_vars => OwnersInv'
  <2> SUFFICES ASSUME OwnersInv, [Next]_vars PROVE OwnersInv'
    OBVIOUS
  <2> USE DEF OwnersInv
  <2>1. Inv' /\ IdsTypeOK'
    BY NextInv, IdsTypeStep DEF Inv
  <2>2. ASSUME NEW p \in Workers, Arrive(p) PROVE Kept'
    BY <2>2, ArriveKept
  <2>3. ASSUME NEW p \in Workers, Handle(p) PROVE Kept'
    BY <2>3, LookedUpKept, AssignKept, SubScanKept, UnsubKept, PollKept, FieldKept
    DEF Handle
  <2>4. ASSUME TimerFires \/ OnTimer PROVE Kept'
    BY <2>4, TimerKept
  <2>5. ASSUME Race PROVE Kept'
    BY <2>5, RaceKept
  <2>6. ASSUME UNCHANGED vars PROVE Kept'
    <3>1. OwnInv' /\ IdsInv'
      BY <2>6, OwnStutter, IdsStutter DEF vars, watchVars, workerVars
    <3>2. UNCHANGED <<m_watches, pc, req, tpc, up>>
      BY <2>6 DEF vars, watchVars, workerVars, timerVars
    <3>3. Readers' = Readers
      BY <3>2 DEF Readers
    <3>4. \A p \in Workers : MapRace(p)' <=> MapRace(p)
      BY <3>2, <3>3 DEF MapRace
    <3>. QED
      BY <3>1, <3>2, <3>4 DEF Kept, OnlyStaleIdsKill
  <2>. QED
    BY <2>1, <2>2, <2>3, <2>4, <2>5, <2>6 DEF Next, Kept
<1>3. OwnersInv => OnlyStaleIdsKill
  BY DEF OwnersInv
<1>. QED
  BY <1>1, <1>2, <1>3, PTL DEF Spec
-----------------------------------------------------------------------------
(* The timer does not mark a watch in use: of the open ones it marks only  *)
(* those whose lease has run out, and the test that marks the others comes *)
(* after a look at whether they are open.                                  *)
StaysOpen(w) == /\ m_watches[w] = "watch"
                /\ ~Marked(w)
                /\ ~(tpc = "mark" /\ at = w)

LEMMA OpenStep ==
    ASSUME NEW w \in Wids, Inv, InUse(w), StaysOpen(w), [Next]_vars
    PROVE  StaysOpen(w)'
<1> USE DEF Inv, StateTypeOK, RegistryTypeOK, TimerTypeOK
<1>1. UNCHANGED <<tpc, at, del>> => Marked(w)' = Marked(w)
  BY DEF Marked
<1>2. ASSUME NEW p \in Workers, Arrive(p) PROVE StaysOpen(w)'
  BY <1>1, <1>2 DEF Arrive, Lookup, List, NewWatch, StaysOpen, watchVars, timerVars
<1>3. ASSUME NEW p \in Workers, OnWatchOpen(p) \/ OnWatch(p) PROVE StaysOpen(w)'
  <2>1. m_watches'[w] = "watch"
    BY <1>3 DEF OnWatchOpen, OnWatch, StaysOpen
  <2>. QED
    BY <1>1, <1>3, <2>1 DEF OnWatchOpen, OnWatch, StaysOpen, timerVars
<1>4. ASSUME NEW p \in Workers,
             \/ OnWatches(p) \/ SubAssign(p) \/ SubScan(p) \/ SubOpen(p)
             \/ Renew(p) \/ Unsub(p) \/ Close(p) \/ PollRefresh(p)
      PROVE  StaysOpen(w)'
  <2>1. UNCHANGED <<m_watches, tpc, at, del>>
    BY <1>4 DEF OnWatches, SubAssign, SubScan, SubOpen, Renew, Unsub, Close,
                PollRefresh, Crash, watchVars, timerVars
  <2>. QED
    BY <1>1, <2>1 DEF StaysOpen
<1>5. CASE TimerFires \/ TimerVisit \/ TimerLoad \/ TimerScanned
  <2>1. UNCHANGED <<m_watches, del>> /\ (tpc' = "mark" => tpc = "mark" /\ at' = at)
    BY <1>5 DEF TimerFires, TimerVisit, TimerLoad, TimerScanned, Crash, watchVars,
                timerVars
  <2>. QED
    BY <2>1 DEF StaysOpen, Marked
<1>6. CASE TimerStore
  <2>1. UNCHANGED <<m_watches, del>> /\ tpc' = "recheck"
    BY <1>6 DEF TimerStore, TimerAt, TimerInv, Leases, MinLease
  <2>. QED
    BY <2>1 DEF StaysOpen, Marked
<1>7. CASE TimerRecheck
  <2>1. UNCHANGED <<m_watches, del>> /\ ~(tpc' = "mark" /\ at' = w)
    BY <1>7 DEF TimerRecheck, InUse, watchVars
  <2>. QED
    BY <2>1 DEF StaysOpen, Marked
<1>8. CASE TimerMark
  <2>1. UNCHANGED m_watches /\ tpc' = "scan" /\ at # w
    BY <1>8 DEF TimerMark, TimerAt, StaysOpen, watchVars
  <2>2. ~Marked(w)'
    BY <1>8, <2>1 DEF TimerMark, StaysOpen, Marked
  <2>. QED
    BY <2>1, <2>2 DEF StaysOpen
<1>9. CASE TimerErase
  <2>1. CASE Crash
    BY <1>1, <2>1 DEF Crash, watchVars, timerVars, StaysOpen
  <2>2. CASE ~Crash
    BY <1>9, <2>2 DEF TimerErase, StaysOpen, Marked
  <2>. QED
    BY <2>1, <2>2
<1>10. CASE Race \/ UNCHANGED vars
  BY <1>1, <1>10 DEF Race, Crash, vars, watchVars, timerVars, StaysOpen
<1>. QED
  BY <1>2, <1>3, <1>4, <1>5, <1>6, <1>7, <1>8, <1>9, <1>10 DEF Next, Handle, OnTimer

(* A watch that is open when a tick begins, is not closed and is polled    *)
(* before its lease runs out stays in the registry: no interleaving of     *)
(* polls, subscriptions and ticks with anything else collects it.          *)
THEOREM OpenWatchesStay == Spec => OpenOutlivesTicks
<1> DEFINE Found(w) == tpc = "sleep" /\ m_watches[w] = "watch"
           There(w) == m_watches[w] = "watch"
<1>1. Spec => []Inv
  BY InitInv, NextInv, PTL DEF Spec
<1>2. ASSUME NEW w \in Wids
      PROVE  Spec => [](tpc = "sleep" /\ m_watches[w] = "watch" /\ []InUse(w)
                        => [](m_watches[w] = "watch"))
  <2>1. Inv /\ Found(w) => StaysOpen(w)
    BY DEF Inv, TimerInv, StaysOpen, Marked
  <2>2. Inv /\ InUse(w) /\ StaysOpen(w) /\ [Next]_vars => StaysOpen(w)'
    BY OpenStep
  <2>3. StaysOpen(w) => There(w)
    BY DEF StaysOpen
  <2>4. Spec => [](Found(w) /\ []InUse(w) => []There(w))
    <3> HIDE DEF Found, There
    <3>. QED
      BY <1>1, <2>1, <2>2, <2>3, PTL DEF Spec
  <2>. QED
    BY <2>4
<1>. QED
  BY <1>2 DEF OpenOutlivesTicks
=============================================================================
