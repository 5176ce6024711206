--------------------------- MODULE MCHeadOpening ---------------------------
(***************************************************************************)
(* HeadOpening on small instances: heads A and B one after the other, head *)
(* A while Ida commits to head C, and head C by both of its participants.  *)
(* Ida holds an output for each head and the fuel, or one less; or Jon     *)
(* holds nothing.                                                          *)
(***************************************************************************)
EXTENDS HeadOpening

Holding(ida, jon) ==
    [alice |-> {10, 20}, bob |-> {10, 20}, ida |-> ida, jon |-> jon, charlie |-> {10, 20}]

MCCases ==
    [operations : {{"open_heads_ab"}},
     held : {Holding({10, 20, 30}, {10, 20}), Holding({10, 20}, {10, 20}), Holding({10, 20, 30}, {})}]
    \cup
    [operations : {{"open_head_a", "commit_head_c_admin"}},
     held : {Holding({10, 20, 30}, {}), Holding({10, 20}, {})}]
    \cup
    [operations : {{"open_head_b", "commit_head_c_admin"}}, held : {Holding({10, 20, 30}, {10, 20})}]
    \cup
    [operations : {{"commit_head_c_charlie", "commit_head_c_admin"}}, held : {Holding({10, 20}, {})}]
=============================================================================
