--------------------------- MODULE MCPathPayment ---------------------------
(***************************************************************************)
(* PathPayment on a small instance: Alice pays Bob through Ida, twice,     *)
(* with the same hash, in the topology of two heads.                       *)
(***************************************************************************)
EXTENDS PathPayment

MCTopology == {r \in twoHeads : r.payer = "alice"}
MCHeads == {"a", "b"}

Held(head, owner, n) == {[Coin(head, owner) EXCEPT !.tx = -k] : k \in 1..n}
MCCoins == Held("a", "alice", 2) \cup Held("a", "ida", 1) \cup Held("b", "ida", 2) \cup Held("b", "bob", 1)
MCInstants == {0, 3, 26}
=============================================================================
