----------------------------- MODULE AtomicSale -----------------------------
(***************************************************************************)
(* What buying a ticket with a payment on another head promises to the     *)
(* buyer: the payment is taken only when a ticket was delivered, and it is *)
(* either taken or returned, once.                                         *)
(***************************************************************************)
CONSTANT Purchases

VARIABLES
    payment,    \* "none", then "locked", then "paid" or "returned"
    ticket      \* a ticket was delivered

saleVars == <<payment, ticket>>

Init ==
    /\ payment = [b \in Purchases |-> "none"]
    /\ ticket = [b \in Purchases |-> FALSE]

Turn(b, from, to) ==
    /\ payment[b] = from
    /\ payment' = [payment EXCEPT ![b] = to]
    /\ UNCHANGED ticket

Lock(b) == Turn(b, "none", "locked")

Deliver(b) ==
    /\ payment[b] # "none"
    /\ ticket' = [ticket EXCEPT ![b] = TRUE]
    /\ UNCHANGED payment

Pay(b) == ticket[b] /\ Turn(b, "locked", "paid")

Return(b) == Turn(b, "locked", "returned")

Next == \E b \in Purchases : Lock(b) \/ Deliver(b) \/ Pay(b) \/ Return(b)

Spec == Init /\ [][Next]_saleVars
=============================================================================
