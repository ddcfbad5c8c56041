----------------------------- MODULE Selection ------------------------------
(***************************************************************************)
(* The elements of a sequence at some of its positions, in their order: a  *)
(* vector that a loop fills with what it selects, or what a loop leaves.   *)
(***************************************************************************)
EXTENDS Integers, Sequences

(* What the loop has selected once it has passed k elements. *)
Collected(s, places, k) ==
    LET upTo[i \in 0..k] == IF i = 0 THEN <<>>
                            ELSE IF i \in places THEN Append(upTo[i - 1], s[i])
                            ELSE upTo[i - 1]
    IN upTo[k]

Selected(s, places) == Collected(s, places, Len(s))
=============================================================================
