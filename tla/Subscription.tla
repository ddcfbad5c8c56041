---------------------------- MODULE Subscription -----------------------------
(***************************************************************************)
(* What the loops of TestWatch do to the ptr_vector m_ids.  TestWatch::sub *)
(* and TestWatch::unsub both erase elements inside an iterator loop whose  *)
(* end was taken before the loop (testproj.cpp:459-474 and 487-493):       *)
(* erasing moves the rest one slot down while the iterator still moves on, *)
(* so the element after an erased one is skipped, and each skip makes the  *)
(* loop read one slot beyond the new end at last.  Those slots still hold  *)
(* the last element; erasing it there is undefined behaviour.  EraseLoop   *)
(* is the loop itself, and is checked against these definitions.           *)
(***************************************************************************)
EXTENDS Integers, Selection

(* The positions that the loop erases when it is to erase the victims. *)
Erased(s, victims) ==
    LET hit[i \in 0..Len(s)] == i > 0 /\ s[i] \in victims /\ ~hit[i - 1]
    IN {i \in DOMAIN s : hit[i]}

(* What it leaves, when it does not overrun. *)
Remaining(s, victims) == Selected(s, DOMAIN s \ Erased(s, victims))

(* The positions of everything but the victims. *)
Others(s, victims) == {i \in DOMAIN s : s[i] \notin victims}

OverrunsEnd(s, victims) == /\ Erased(s, victims) \ {Len(s)} # {}
                           /\ s[Len(s)] \in victims
=============================================================================
