------------------------------ MODULE EraseLoop ------------------------------
(***************************************************************************)
(* The erasing loop of TestWatch::sub and TestWatch::unsub, iteration by   *)
(* iteration, on the storage of the vector: slots is what the storage      *)
(* holds, of which the first `size' slots are the vector.  For unsub the   *)
(* victims are the ids to remove, for sub with checked = false (which no   *)
(* handler asks for) the ids of no record.                                 *)
(***************************************************************************)
EXTENDS Subscription, SequencesExt

CONSTANTS Elems,        \* ids
          MaxLen        \* bound on the length of a subscription

ASSUME MaxLenAssumption == MaxLen \in Nat

VARIABLES given, victims,       \* the vector before the loop, what to erase
          slots, size,          \* its storage and its length
          it,                   \* the iterator
          overrun               \* end() has been erased: undefined

eraseVars == <<given, victims, slots, size, it, overrun>>

EraseInit == /\ given \in UNION {[1..n -> Elems] : n \in 0..MaxLen}
             /\ victims \in SUBSET Elems
             /\ slots = given /\ size = Len(given)
             /\ it = 1
             /\ overrun = FALSE

Running == ~overrun /\ it <= Len(given)

(* Faulty variant: the iterator stays, for the element that has moved down. *)
EraseStays == /\ Running
              /\ slots[it] \in victims
              /\ IF it > size
                 THEN overrun' = TRUE /\ UNCHANGED <<slots, size>>
                 ELSE /\ slots' = [j \in DOMAIN slots |->
                                     IF it <= j /\ j < size THEN slots[j + 1]
                                     ELSE slots[j]]
                      /\ size' = size - 1
                      /\ UNCHANGED overrun
              /\ it' = it
              /\ UNCHANGED <<given, victims>>

(* Faulty variant: the element after the one found is erased. *)
EraseAfter == /\ Running
              /\ slots[it] \in victims
              /\ IF it > size
                 THEN overrun' = TRUE /\ UNCHANGED <<slots, size>>
                 ELSE /\ slots' = [j \in DOMAIN slots |->
                                     IF it < j /\ j < size THEN slots[j + 1]
                                     ELSE slots[j]]
                      /\ size' = size - 1
                      /\ UNCHANGED overrun
              /\ it' = it + 1
              /\ UNCHANGED <<given, victims>>

(* vector::erase moves what follows down and leaves the last slot alone. *)
Erase == /\ Running
         /\ slots[it] \in victims
         /\ IF it > size
            THEN overrun' = TRUE /\ UNCHANGED <<slots, size>>
            ELSE /\ slots' = [j \in DOMAIN slots |->
                                IF it <= j /\ j < size THEN slots[j + 1]
                                ELSE slots[j]]
                 /\ size' = size - 1
                 /\ UNCHANGED overrun
         /\ it' = it + 1
         /\ UNCHANGED <<given, victims>>

Keep == /\ Running
        /\ slots[it] \notin victims
        /\ it' = it + 1
        /\ UNCHANGED <<given, victims, slots, size, overrun>>

EraseNext == Erase \/ Keep

EraseSpec == EraseInit /\ [][EraseNext]_eraseVars

-----------------------------------------------------------------------------
Held == SubSeq(slots, 1, size)

(* The loop leaves, and overruns on, exactly what the closed forms of      *)
(* Subscription say: Watches uses those for the whole call.                *)
LoopAgrees ==
    ~Running => /\ overrun = OverrunsEnd(given, victims)
                /\ ~overrun => Held = Remaining(given, victims)

(* Removing one id from a subscription without duplicates is exact: that   *)
(* is as far as unsub does what it is for.                                 *)
OneIdIsRemoved ==
    ~Running /\ IsInjective(given) /\ (\E e \in Elems : victims = {e})
        => /\ ~overrun
           /\ Held = Selected(given, Others(given, victims))
=============================================================================
