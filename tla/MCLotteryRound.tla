--------------------------- MODULE MCLotteryRound ---------------------------
(***************************************************************************)
(* LotteryRound on small instances.                                        *)
(***************************************************************************)
EXTENDS LotteryRound

MCHeads == {"headA", "headB", "headC"}
=============================================================================
