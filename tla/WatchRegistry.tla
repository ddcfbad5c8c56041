---------------------------- MODULE WatchRegistry ----------------------------
(***************************************************************************)
(* What the server promises about the life of a watch, whatever the        *)
(* interleaving of request handlers and of the garbage collecting timer:   *)
(* a watch is registered once, it can be marked as garbage only after it   *)
(* has held a lease, a sweep drops every marked watch together, and a      *)
(* dropped watch never comes back.  Watches implements this specification. *)
(***************************************************************************)
CONSTANT Wids                   \* the ids that watches are given

VARIABLES
    life,                       \* where each watch is in its life
    leased                      \* the watches that have ever held a lease

avars == <<life, leased>>

Stages == {"unborn", "registered", "marked", "gone"}

AbsTypeOK == /\ life \in [Wids -> Stages]
             /\ leased \in SUBSET Wids

AInit == /\ life = [w \in Wids |-> "unborn"]
         /\ leased = {}

Register(w) == /\ life[w] = "unborn"
               /\ life' = [life EXCEPT ![w] = "registered"]
               /\ UNCHANGED leased

(* A handler that still holds a dropped watch may go on leasing it. *)
Lease(w) == /\ life[w] # "unborn"
            /\ leased' = leased \cup {w}
            /\ UNCHANGED life

Mark(w) == /\ life[w] = "registered"
           /\ w \in leased
           /\ life' = [life EXCEPT ![w] = "marked"]
           /\ UNCHANGED leased

Sweep == /\ \E w \in Wids : life[w] = "marked"
         /\ life' = [w \in Wids |-> IF life[w] = "marked" THEN "gone" ELSE life[w]]
         /\ UNCHANGED leased

ANext == \/ \E w \in Wids : Register(w) \/ Lease(w) \/ Mark(w)
         \/ Sweep

ASpec == AInit /\ [][ANext]_avars
=============================================================================
