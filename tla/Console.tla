------------------------------ MODULE Console ------------------------------
(***************************************************************************)
(* FinalDemoApp: one application, whose view is the page of a user, of     *)
(* Charlie or of an administrator.                                         *)
(***************************************************************************)
EXTENDS UserPage, AdminPage

vars == <<view, headVars, pageVars, adminVars>>

Init ==
    /\ view \in {"user", "charlie", "admin"}
    /\ PageInit(IF view = "admin" THEN {Coin} ELSE {Alice, Wallet})
    /\ AdminInit(IF view = "admin" THEN {Coin} ELSE {Alice, Wallet})

Next ==
    \/ view # "admin" /\ PageNext /\ UNCHANGED <<view, adminVars>>
    \/ view = "admin" /\ AdminNext /\ UNCHANGED <<view, pageVars>>

Spec == Init /\ [][Next]_vars

\* Every variable has its shape, whatever the view is.
TypeOK == sent \in 0..MaxTxs /\ now \in 0..MaxNow /\ PageTypeOK /\ AdminTypeOK
=============================================================================
