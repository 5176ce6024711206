---------------------------- MODULE MCTicketSale ----------------------------
(***************************************************************************)
(* TicketSale on small instances.                                          *)
(***************************************************************************)
EXTENDS TicketSale

MCHeads == {"source", "headB"}
=============================================================================
