-------------------------- MODULE MCWorkflowQueue --------------------------
(* Instances of WorkflowQueue for TLC. *)
EXTENDS WorkflowQueue, TLC

CONSTANTS w1, w2, q1, q2

OneTicket == 1 :> "buy_ticket"
OneHeadOperation == 1 :> "admin_head_operation"
FundsAndWinner == 1 :> "request_funds" @@ 2 :> "pay_random_winner"

WorkerSymmetry == Permutations({w1, w2})
RequestSymmetry == Permutations({q1, q2})
=============================================================================
