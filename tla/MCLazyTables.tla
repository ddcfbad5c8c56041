---------------------------- MODULE MCLazyTables -----------------------------
(***************************************************************************)
(* LazyTables with three operations, in the order of the code: about       *)
(* first, ops last.                                                        *)
(***************************************************************************)
EXTENDS LazyTables, TLC

MCOpNames == <<"about", "read", "ops">>
MCTags == <<"serverName", "vendorName">>
Symmetric == Permutations(Threads)
=============================================================================
