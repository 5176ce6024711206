----------------------------- MODULE MCConsole -----------------------------
(***************************************************************************)
(* Console on small instances.                                             *)
(***************************************************************************)
EXTENDS Console, TLC

MCHeads == {"headA", "headB", "headC"}
DeskSymmetry == Permutations(Desks)
=============================================================================
