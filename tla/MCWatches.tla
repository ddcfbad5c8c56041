----------------------------- MODULE MCWatches ------------------------------
(***************************************************************************)
(* Watches on small instances: the requests that the clients of each run   *)
(* send.  A list of ids is bounded by the sets given here.                 *)
(***************************************************************************)
EXTENDS Watches, TLC

Make(ops, wids, lists, badRows) ==
    [op : ops, wid : wids, ids : lists, badRow : badRows]

NewSubs(lists) == Make({"subNew"}, {NoWatch}, lists, {FALSE})
Polls == Make({"poll"}, Wids, {<<>>}, {FALSE})
Closes == Make({"close"}, Wids, {<<>>}, {FALSE})
Lists == Make({"list"}, {NoWatch}, {<<>>}, {FALSE})
Records == {<<r>> : r \in Recs}
Unknown == {<<x>> : x \in BadIds}

(* An id the project does not have in front of one that it has. *)
BadFirst == {<<x, r>> : x \in BadIds, r \in Recs}

(* Everything a client may send, with the ids it sends in any order. *)
AnyRequests ==
    NewSubs(Records \cup Unknown) \cup Polls \cup Closes \cup Lists
    \cup Make({"subNew"}, {NoWatch}, {<<>>}, {TRUE})
    \cup Make({"unsub", "sub"}, Wids, Records, BOOLEAN)
    \cup Make({"close", "poll"}, Strays, {<<>>}, {FALSE})

(* Clients that keep to their own watch, name it only while it is open and *)
(* send at most one unknown id in a request, never as the last.            *)
PoliteRequests ==
    NewSubs(Records \cup BadFirst) \cup Polls
    \cup Make({"sub"}, Wids, Records \cup BadFirst, {FALSE})
    \cup Make({"unsub"}, Wids, Records, BOOLEAN)

ASSUME PoliteAssumption == \A r \in PoliteRequests : Considerate(r)

OwnRequests == NewSubs(Records) \cup Polls \cup Closes

(* The one misuse of the violating run *)
StrayUnsubs == Make({"unsub"}, Strays, Records, {FALSE})

Symmetric == Permutations(Workers)
=============================================================================
