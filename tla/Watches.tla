------------------------------- MODULE Watches -------------------------------
(***************************************************************************)
(* Watches of the sample server: TestProj's registry m_watches behind a    *)
(* read/write lock, the TestWatch objects whose fields no lock guards, the *)
(* request handlers (WatchSubOp, WatchUnsubOp, WatchPollOp, WatchListOp)   *)
(* that run on the HTTP worker threads, and TestProj::on_timer, which      *)
(* runs on the thread of a Poco::Timer and collects garbage watches.       *)
(*                                                                         *)
(* A worker serves one connection, so it also stands for the client at its *)
(* other end: told[p] is the set of watch ids that this client has been    *)
(* given.  Being at a program point means being about to do, or doing,     *)
(* the access that the action of that point performs.                      *)
(*                                                                         *)
(* Undefined behaviour (a null or past-the-end dereference, erasing end(), *)
(* a data race on a container) ends the process in the builds at hand, or, *)
(* for a race and a freed string, may also pass unnoticed: an action that  *)
(* clears `up' is one of the outcomes, and nothing happens after it.       *)
(***************************************************************************)
EXTENDS Subscription, FiniteSets, SequencesExt

CONSTANTS
    Workers,        \* HTTP worker threads, one connection each
    Wids,           \* the uuids drawn for new watches (bounds their number)
    Strays,         \* ids that clients send and that never name a watch
    Recs,           \* ids of the records of the project (m_recs, constant)
    Points,         \* those with a `kind' tag: sites and equips have none
    BadIds,         \* ids of no record
    Requests,       \* the requests that clients send
    DefaultLease    \* DEFAULT_LEASE_TIME in timer periods: 300 s / 60 s = 5

Ids == Recs \cup BadIds
AllWids == Wids \cup Strays
NoWatch == "none"
Ops == {"subNew", "sub", "unsub", "close", "poll", "list"}

(* watchSub without a watchId is "subNew", watchUnsub with `close' is      *)
(* "close".  badRow: a row of the request has no Ref under "id".  Requests *)
(* refused before they touch any state (no watchId, a blank watchDis) are  *)
(* left out.                                                               *)
Request == [op : Ops, wid : AllWids \cup {NoWatch}, ids : Seq(Ids), badRow : BOOLEAN]

NoReq == [op |-> "none"]

ASSUME LeaseAssumption == DefaultLease \in Nat \ {0}
ASSUME RequestsAssumption == Requests \subseteq Request
ASSUME DistinctAssumption == /\ Recs \cap BadIds = {}
                             /\ Points \subseteq Recs
                             /\ Wids \cap Strays = {}

VARIABLES
    m_watches,      \* the registry: id -> "absent", "null" entry or "watch"
    born,           \* the uuids already drawn
    m_ids,          \* TestWatch::m_ids, the subscribed ids
    m_is_open,      \* TestWatch::m_is_open
    m_lease,        \* TestWatch::m_lease, in timer periods
    told,           \* worker -> the watch ids its client knows
    pc, req,        \* worker -> program point, and the request it serves
    tpc,            \* program point of on_timer
    todo,           \* entries its scan has yet to visit
    at, loaded,     \* the watch it looks at, and its local `lease'
    del,            \* its local vector of watches to delete
    up              \* FALSE once undefined behaviour has ended the process

watchVars == <<m_watches, born, m_ids, m_is_open, m_lease>>
workerVars == <<told, pc, req>>
timerVars == <<tpc, todo, at, loaded, del>>
vars == <<watchVars, workerVars, timerVars, up>>

-----------------------------------------------------------------------------
MinLease == -1000   \* numeric_limits<int>::min(): only its sign is ever used

Leases == {MinLease} \cup 0..DefaultLease
Places == {"idle", "insert", "inMap", "inList", "assign", "scan", "setOpen",
           "setLease", "unsub", "close", "poll", "pollLease"}
TimerPoints == {"sleep", "scan", "load", "store", "recheck", "mark", "erase"}

Init == /\ m_watches = [w \in AllWids |-> "absent"]
        /\ born = {}
        /\ m_ids = [w \in Wids |-> <<>>]
        /\ m_is_open = [w \in Wids |-> FALSE]
        /\ m_lease = [w \in Wids |-> MinLease]
        /\ told = [p \in Workers |-> {}]
        /\ pc = [p \in Workers |-> "idle"]
        /\ req = [p \in Workers |-> NoReq]
        /\ tpc = "sleep"
        /\ todo = {}
        /\ at = NoWatch
        /\ loaded = MinLease
        /\ del = <<>>
        /\ up = TRUE

(* m_lock: workers between lock and unlock of a ScopedReadRWLock, and the  *)
(* whole scan of the timer.  Write sections are single actions below.      *)
Readers == {p \in Workers : pc[p] \in {"inMap", "inList"}}
(* Faulty variant: the scope of the read lock extends over the erasing. *)
TimerReadsThroughErase == tpc # "sleep"

TimerReads == tpc \in {"scan", "load", "store", "recheck", "mark"}
WriteLockFree == Readers = {} /\ ~TimerReads

At(p, point) == up /\ pc[p] = point
TimerAt(point) == up /\ tpc = point

Goto(p, point) == /\ pc' = [pc EXCEPT ![p] = point]
                  /\ UNCHANGED <<told, req>>

(* The end of a request, by an answer or by a caught runtime_error. *)
Finish(p, ids) == /\ pc' = [pc EXCEPT ![p] = "idle"]
                  /\ req' = [req EXCEPT ![p] = NoReq]
                  /\ told' = [told EXCEPT ![p] = @ \cup ids]

Crash == up' = FALSE /\ UNCHANGED <<watchVars, workerVars, timerVars>>

(* Where on_service goes once it holds a watch: watchSub and watchUnsub    *)
(* convert the rows (grid_to_ids), which throws on a bad one.              *)
AfterLookup(r) ==
    CASE r.op \in {"sub", "subNew"} -> IF r.badRow THEN "idle" ELSE "assign"
      [] r.op = "unsub"             -> IF r.badRow THEN "idle" ELSE "unsub"
      [] r.op \in {"close", "poll"} -> r.op

Proceed(p) == IF AfterLookup(req[p]) = "idle" THEN Finish(p, {})
              ELSE Goto(p, AfterLookup(req[p]))
-----------------------------------------------------------------------------
(* Requests and the registry *)

(* A client names only ids it was given, or ones that never were an id. *)
Lookup(p, r) ==
    /\ At(p, "idle")
    /\ r.op \in {"sub", "unsub", "close", "poll"}
    /\ r.wid \in told[p] \cup Strays
    /\ pc' = [pc EXCEPT ![p] = "inMap"]
    /\ req' = [req EXCEPT ![p] = r]
    /\ UNCHANGED <<watchVars, told, timerVars, up>>

List(p, r) ==
    /\ At(p, "idle")
    /\ r.op = "list"
    /\ pc' = [pc EXCEPT ![p] = "inList"]
    /\ req' = [req EXCEPT ![p] = r]
    /\ UNCHANGED <<watchVars, told, timerVars, up>>

(* watch_open: the watch and its uuid are made before the lock is taken. *)
NewWatch(p, r) ==
    /\ At(p, "idle")
    /\ r.op = "subNew"
    /\ \E w \in Wids \ born :
          /\ born' = born \cup {w}
          /\ req' = [req EXCEPT ![p] = [r EXCEPT !.wid = w]]
    /\ pc' = [pc EXCEPT ![p] = "insert"]
    /\ UNCHANGED <<m_watches, m_ids, m_is_open, m_lease, told, timerVars, up>>

OnWatchOpen(p) ==
    /\ At(p, "insert")
    /\ WriteLockFree
    /\ m_watches' = [m_watches EXCEPT ![req[p].wid] = "watch"]
    /\ Proceed(p)
    /\ UNCHANGED <<born, m_ids, m_is_open, m_lease, timerVars, up>>

(* on_watch: operator[] inserts a null entry for an id it does not find,   *)
(* under the read lock; a scan of the timer may or may not come across it. *)
(* Server::watch throws on null for sub and poll, watchUnsub ignores it.   *)
OnWatch(p) ==
    /\ At(p, "inMap")
    /\ LET w == req[p].wid IN
       \/ /\ m_watches[w] = "watch"
          /\ Proceed(p)
          /\ UNCHANGED <<m_watches, todo>>
       \/ /\ m_watches[w] = "null"
          /\ Finish(p, {})
          /\ UNCHANGED <<m_watches, todo>>
       \/ /\ m_watches[w] = "absent"
          /\ m_watches' = [m_watches EXCEPT ![w] = "null"]
          /\ todo' \in {todo} \cup (IF TimerReads THEN {todo \cup {w}} ELSE {})
          /\ Finish(p, {})
    /\ UNCHANGED <<born, m_ids, m_is_open, m_lease, tpc, at, loaded, del, up>>

(* on_watches copies every entry and watchList dereferences each copy. *)
OnWatches(p) ==
    /\ At(p, "inList")
    /\ IF \E w \in AllWids : m_watches[w] = "null"
       THEN Crash
       ELSE /\ Finish(p, {w \in Wids : m_watches[w] = "watch"})
            /\ UNCHANGED <<watchVars, timerVars, up>>
-----------------------------------------------------------------------------
(* TestWatch *)

UnknownAt(s) == {i \in DOMAIN s : s[i] \notin Recs}

SubAssign(p) ==
    /\ At(p, "assign")
    /\ m_ids' = [m_ids EXCEPT ![req[p].wid] = req[p].ids]
    /\ Goto(p, "scan")
    /\ UNCHANGED <<m_watches, born, m_is_open, m_lease, timerVars, up>>

(* Faulty variant: the unknown id is not erased before the throw. *)
SubScanKeepsUnknown(p) ==
    /\ At(p, "scan")
    /\ IF UnknownAt(m_ids[req[p].wid]) = {} THEN Goto(p, "setOpen")
       ELSE Finish(p, {})
    /\ UNCHANGED <<watchVars, timerVars, up>>

(* The first unknown id is erased and the call throws (the handlers leave  *)
(* `checked' at true).  The message is read from the slot of the erased    *)
(* id: a freed Ref when that slot was the last one.                        *)
SubScan(p) ==
    /\ At(p, "scan")
    /\ LET w == req[p].wid
           bad == UnknownAt(m_ids[w])
           first == CHOOSE i \in bad : \A j \in bad : i <= j
       IN \/ /\ bad = {}
             /\ Goto(p, "setOpen")
             /\ UNCHANGED <<watchVars, timerVars, up>>
          \/ /\ bad # {}
             /\ m_ids' = [m_ids EXCEPT ![w] = RemoveAt(@, first)]
             /\ Finish(p, {})
             /\ UNCHANGED <<m_watches, born, m_is_open, m_lease, timerVars, up>>
          \/ /\ bad # {} /\ first = Len(m_ids[w])
             /\ Crash

SubOpen(p) ==
    /\ At(p, "setOpen")
    /\ m_is_open' = [m_is_open EXCEPT ![req[p].wid] = TRUE]
    /\ Goto(p, "setLease")
    /\ UNCHANGED <<m_watches, born, m_ids, m_lease, timerVars, up>>

(* The end of sub and of a poll: the answer carries watchId and lease. *)
Renew(p) ==
    /\ At(p, "setLease") \/ At(p, "pollLease")
    /\ m_lease' = [m_lease EXCEPT ![req[p].wid] = DefaultLease]
    /\ Finish(p, {req[p].wid})
    /\ UNCHANGED <<m_watches, born, m_ids, m_is_open, timerVars, up>>

Unsub(p) ==
    /\ At(p, "unsub")
    /\ LET w == req[p].wid
           ids == ToSet(req[p].ids)
       IN IF OverrunsEnd(m_ids[w], ids)
          THEN Crash
          ELSE /\ m_ids' = [m_ids EXCEPT ![w] = Remaining(@, ids)]
               /\ Finish(p, {})
               /\ UNCHANGED <<m_watches, born, m_is_open, m_lease, timerVars, up>>

Close(p) ==
    /\ At(p, "close")
    /\ m_is_open' = [m_is_open EXCEPT ![req[p].wid] = FALSE]
    /\ Finish(p, {})
    /\ UNCHANGED <<m_watches, born, m_ids, m_lease, timerVars, up>>

(* poll_changes is poll_refresh, which dereferences what it finds for      *)
(* every id without comparing it with end(), and throws on a record that   *)
(* has no `kind' (get_str): then the lease is not renewed.                 *)
PollRefresh(p) ==
    /\ At(p, "poll")
    /\ LET s == m_ids[req[p].wid]
           odd == {i \in DOMAIN s : s[i] \notin Points}
           first == CHOOSE i \in odd : \A j \in odd : i <= j
       IN \/ /\ odd = {}
             /\ Goto(p, "pollLease")
             /\ UNCHANGED <<watchVars, timerVars, up>>
          \/ /\ odd # {} /\ s[first] \in Recs
             /\ Finish(p, {})
             /\ UNCHANGED <<watchVars, timerVars, up>>
          \/ /\ odd # {} /\ s[first] \notin Recs
             /\ Crash
-----------------------------------------------------------------------------
(* Data races.  The accesses overlap: each happens as if alone (the        *)
(* actions above) or a container is corrupted and the process ends.        *)

UsesIds(p) == pc[p] \in {"assign", "scan", "unsub", "poll"}
WritesIds(p) ==
    \/ pc[p] = "assign"
    \/ pc[p] = "scan" /\ UnknownAt(m_ids[req[p].wid]) # {}
    \/ pc[p] = "unsub" /\ ToSet(m_ids[req[p].wid]) \cap ToSet(req[p].ids) # {}

IdsRace(p, q) == /\ p # q /\ WritesIds(p) /\ UsesIds(q)
                 /\ req[p].wid = req[q].wid

(* A lookup that inserts while another reader is inside the tree. *)
MapRace(p) == /\ pc[p] = "inMap" /\ m_watches[req[p].wid] = "absent"
              /\ Readers # {p} \/ tpc = "scan"

Race == /\ up
        /\ \E p \in Workers : MapRace(p) \/ \E q \in Workers : IdsRace(p, q)
        /\ Crash
-----------------------------------------------------------------------------
(* TestProj::on_timer, field access by field access *)

TimerFires ==
    /\ TimerAt("sleep")
    /\ tpc' = "scan"
    /\ todo' = {w \in AllWids : m_watches[w] # "absent"}
    /\ UNCHANGED <<watchVars, workerVars, at, loaded, del, up>>

(* The next entry, a null one dereferenced, and the first read of is_open. *)
TimerVisit ==
    /\ TimerAt("scan")
    /\ \E w \in todo :
          IF m_watches[w] = "null"
          THEN Crash
          ELSE /\ todo' = todo \ {w}
               /\ at' = w
               /\ tpc' = IF m_is_open[w] THEN "load" ELSE "recheck"
               /\ UNCHANGED <<watchVars, workerVars, loaded, del, up>>

(* Faulty variant: `w.lease() >= 0'. *)
TimerLoadAtZero ==
    /\ TimerAt("load")
    /\ IF m_lease[at] >= 0
       THEN tpc' = "store" /\ loaded' = m_lease[at]
       ELSE tpc' = "recheck" /\ UNCHANGED loaded
    /\ UNCHANGED <<watchVars, workerVars, todo, at, del, up>>

(* `w.lease() > 0' and the load after it: between the two the lease can    *)
(* only become DefaultLease, so one read at the later instant is the same. *)
TimerLoad ==
    /\ TimerAt("load")
    /\ IF m_lease[at] > 0
       THEN tpc' = "store" /\ loaded' = m_lease[at]
       ELSE tpc' = "recheck" /\ UNCHANGED loaded
    /\ UNCHANGED <<watchVars, workerVars, todo, at, del, up>>

(* Faulty variant: `lease <= 0', which does mark what has expired. *)
TimerStoreMarksExpired ==
    /\ TimerAt("store")
    /\ m_lease' = [m_lease EXCEPT ![at] = loaded - 1]
    /\ del' = IF loaded - 1 <= 0 THEN Append(del, at) ELSE del
    /\ tpc' = "recheck"
    /\ loaded' = MinLease
    /\ UNCHANGED <<m_watches, born, m_ids, m_is_open, workerVars, todo, at, up>>

TimerStore ==
    /\ TimerAt("store")
    /\ m_lease' = [m_lease EXCEPT ![at] = loaded - 1]
    /\ del' = IF loaded - 1 < 0 THEN Append(del, at) ELSE del
    /\ tpc' = "recheck"
    /\ loaded' = MinLease
    /\ UNCHANGED <<m_watches, born, m_ids, m_is_open, workerVars, todo, at, up>>

(* Faulty variant: the test of the second `if' is inverted. *)
TimerRecheckInverted ==
    /\ TimerAt("recheck")
    /\ IF ~m_is_open[at]
       THEN tpc' = "scan" /\ at' = NoWatch
       ELSE tpc' = "mark" /\ UNCHANGED at
    /\ UNCHANGED <<watchVars, workerVars, todo, loaded, del, up>>

TimerRecheck ==
    /\ TimerAt("recheck")
    /\ IF m_is_open[at]
       THEN tpc' = "scan" /\ at' = NoWatch
       ELSE tpc' = "mark" /\ UNCHANGED at
    /\ UNCHANGED <<watchVars, workerVars, todo, loaded, del, up>>

(* Faulty variant: without the test of the lease. *)
TimerMarkUnleased ==
    /\ TimerAt("mark")
    /\ del' = Append(del, at)
    /\ tpc' = "scan"
    /\ at' = NoWatch
    /\ UNCHANGED <<watchVars, workerVars, todo, loaded, up>>

TimerMark ==
    /\ TimerAt("mark")
    /\ del' = IF m_lease[at] > 0 THEN Append(del, at) ELSE del
    /\ tpc' = "scan"
    /\ at' = NoWatch
    /\ UNCHANGED <<watchVars, workerVars, todo, loaded, up>>

TimerScanned ==
    /\ TimerAt("scan")
    /\ todo = {}
    /\ tpc' = IF del = <<>> THEN "sleep" ELSE "erase"
    /\ UNCHANGED <<watchVars, workerVars, todo, at, loaded, del, up>>

(* Every watch of del is found again and erased, under the write lock;     *)
(* find would return end() for one that is no longer there.                *)
AllFound == /\ \A i \in DOMAIN del : m_watches[del[i]] = "watch"
            /\ \A i, j \in DOMAIN del : del[i] = del[j] => i = j

(* Faulty variant: only the first watch of del is erased. *)
TimerEraseFirst ==
    /\ TimerAt("erase")
    /\ WriteLockFree
    /\ m_watches' = [m_watches EXCEPT ![del[1]] = "absent"]
    /\ del' = <<>>
    /\ tpc' = "sleep"
    /\ UNCHANGED <<born, m_ids, m_is_open, m_lease, workerVars, todo, at,
                   loaded, up>>

TimerErase ==
    /\ TimerAt("erase")
    /\ WriteLockFree
    /\ IF ~AllFound
       THEN Crash
       ELSE /\ m_watches' = [w \in AllWids |->
                  IF \E i \in DOMAIN del : del[i] = w THEN "absent"
                  ELSE m_watches[w]]
            /\ del' = <<>>
            /\ tpc' = "sleep"
            /\ UNCHANGED <<born, m_ids, m_is_open, m_lease, workerVars, todo, at,
                           loaded, up>>
-----------------------------------------------------------------------------
Arrive(p) == \E r \in Requests : Lookup(p, r) \/ List(p, r) \/ NewWatch(p, r)

Handle(p) == \/ OnWatchOpen(p) \/ OnWatch(p) \/ OnWatches(p)
             \/ SubAssign(p) \/ SubScan(p) \/ SubOpen(p) \/ Renew(p)
             \/ Unsub(p) \/ Close(p) \/ PollRefresh(p)

OnTimer == \/ TimerVisit \/ TimerLoad \/ TimerStore \/ TimerRecheck
           \/ TimerMark \/ TimerScanned \/ TimerErase

Next == \/ \E p \in Workers : Arrive(p) \/ Handle(p)
        \/ TimerFires
        \/ OnTimer
        \/ Race

Spec == Init /\ [][Next]_vars

(* Threads that can run do run: a handler goes on with its request, the    *)
(* timer fires again and again and its callback goes on.  No client has to *)
(* send anything.  A pthread rwlock favours readers, so a writer may wait  *)
(* as long as lookups keep coming; but the timer leaves the lock alone for *)
(* a minute between two ticks, so it cannot keep watch_open out for good.  *)
Fairness == /\ \A p \in Workers : /\ WF_vars(Handle(p))
                                  /\ SF_vars(OnWatchOpen(p))
            /\ WF_vars(TimerFires \/ OnTimer)

FairSpec == Spec /\ Fairness
-----------------------------------------------------------------------------
(* Properties *)

RegistryTypeOK ==
    /\ m_watches \in [AllWids -> {"absent", "null", "watch"}]
    /\ \A w \in Strays : m_watches[w] # "watch"
    /\ born \in SUBSET Wids
    /\ m_is_open \in [Wids -> BOOLEAN]
    /\ m_lease \in [Wids -> Leases]

WorkersTypeOK ==
    /\ told \in [Workers -> SUBSET Wids]
    /\ pc \in [Workers -> Places]
    /\ req \in [Workers -> Request \cup {NoReq}]
    /\ \A p \in Workers :
          /\ pc[p] # "idle" => req[p] \in Request
          /\ pc[p] \in {"insert", "inMap"} => req[p].op # "list"
          /\ pc[p] = "inMap" => req[p].wid \in AllWids
          /\ pc[p] \notin {"idle", "inMap", "inList"} => req[p].wid \in Wids

TimerTypeOK ==
    /\ tpc \in TimerPoints
    /\ todo \in SUBSET AllWids
    /\ at \in Wids \cup {NoWatch}
    /\ loaded \in Leases
    /\ del \in Seq(Wids)

StateTypeOK == RegistryTypeOK /\ WorkersTypeOK /\ TimerTypeOK /\ up \in BOOLEAN

(* Every variable has its type, each program point the locals it uses: a   *)
(* lease never falls below 0, and only watches of the registry are looked  *)
(* at by the timer and handed to the methods of TestWatch.                 *)
TypeOK == StateTypeOK /\ m_ids \in [Wids -> Seq(Ids)]

(* The erase loop of on_timer does not compare what find returns with      *)
(* end(): that is sound only if each watch of del is in the registry, and  *)
(* is there once, from the moment it is marked to the moment it is erased, *)
(* although the read lock is given up in between.                          *)
EraseFinds == AllFound

(* The life of a watch is the one WatchRegistry promises: registered once, *)
(* marked only after it has held a lease, dropped with all the marked ones *)
(* and never again in the registry, whatever stale ids clients send.       *)
Marked(w) == \E i \in DOMAIN del : del[i] = w

\* The uuid is drawn, and the watch not yet in the registry.
Inserting(w) == \E p \in Workers : pc[p] = "insert" /\ req[p].wid = w

Life(w) == IF Marked(w) THEN "marked"
           ELSE IF m_watches[w] = "watch" THEN "registered"
           ELSE IF w \in born /\ ~Inserting(w) THEN "gone"
           ELSE "unborn"

Registry == INSTANCE WatchRegistry
                WITH life <- [w \in Wids |-> Life(w)],
                     leased <- {w \in Wids : m_lease[w] # MinLease}

RegistrySpec == Registry!ASpec

(* A request of a client that does not ask for the watches of others, does *)
(* not send an id twice, sends at most one unknown id, not as the last to  *)
(* subscribe, and unsubscribes from one id at a time.                      *)
Considerate(r) ==
    /\ r.op # "list"
    /\ r.op \in {"sub", "subNew"} =>
          /\ IsInjective(r.ids)
          /\ \A i, j \in UnknownAt(r.ids) : i = j /\ i # Len(r.ids)
    /\ r.op = "unsub" => \A i, j \in DOMAIN r.ids : r.ids[i] = r.ids[j]

(* Considerate clients can end the process only through an id the registry *)
(* has dropped: no poll meets an unknown id, no unsub overruns the         *)
(* subscription and no subscription is raced on, although nothing guards   *)
(* it.                                                                     *)
OnlyStaleIdsKill ==
    ~up => \/ \E w \in AllWids : m_watches[w] = "null"
           \/ \E p \in Workers : MapRace(p)

(* A watch whose client keeps it is kept: one that is open between two     *)
(* ticks, and from then on is not closed and polled before its lease runs  *)
(* out, stays in the registry, however polls and ticks interleave.  What   *)
(* happens to a watch that is polled too late is left open.                *)
InUse(w) == m_is_open[w] /\ m_lease[w] > 0

OpenOutlivesTicks ==
    \A w \in Wids : [](tpc = "sleep" /\ m_watches[w] = "watch" /\ []InUse(w)
                       => [](m_watches[w] = "watch"))

(* A closed watch that still has lease when the timer comes round is       *)
(* collected, once requests let the timer have the write lock.             *)
Quiet == <>[](\A p \in Workers : pc[p] = "idle")

ClosedIsCollected ==
    Quiet => \A w \in Wids :
        (/\ tpc = "sleep"
         /\ m_watches[w] = "watch" /\ ~m_is_open[w] /\ m_lease[w] > 0)
        ~> (m_watches[w] # "watch" \/ m_is_open[w] \/ ~up)

(* A request is answered: the handlers never wait for one another or for   *)
(* the timer for good, except watch_open, which waits for the readers.     *)
RequestsFinish ==
    \A p \in Workers :
        /\ pc[p] \notin {"idle", "insert"} ~> (pc[p] = "idle" \/ ~up)
        /\ (\A q \in Workers : <>[](pc[q] \notin {"inMap", "inList"}))
           => (pc[p] = "insert" ~> (pc[p] # "insert" \/ ~up))
-----------------------------------------------------------------------------
(* What a comment of the code says and the code does not do *)

(* op.cpp:381 "lookup watch, silently ignore failure": once a watchUnsub   *)
(* for an id that is not registered has returned, the server is as it was  *)
(* and goes on, since the null entry it left behind does no harm.          *)
ServerSurvives == (\A p \in Workers : pc[p] # "inMap") => up

=============================================================================
