----------------------------- MODULE HydraHead -----------------------------
(***************************************************************************)
(* The Hydra heads as the operators of lib/hydra/ops-handler.ts see them:  *)
(* a head takes transactions in any order, decides each one against its    *)
(* UTxO set and the time, and broadcasts TxValid or TxInvalid to every     *)
(* client that is connected then, not only to the one that sent it.  What  *)
(* getSnapshot returns is the last snapshot that was confirmed, which may  *)
(* lag behind the transactions that are already valid.                     *)
(***************************************************************************)
EXTENDS Integers

CONSTANTS
    Heads,
    MaxTxs,     \* bound: transactions sent in a behaviour
    MaxNow      \* bound: the clock

ASSUME HeadAssumption == MaxTxs \in Nat /\ MaxNow \in Nat

VARIABLES
    utxo,       \* the outputs of all heads, each of them with its head
    snapshot,   \* those of the last confirmed snapshots
    pool,       \* the transactions sent and not decided yet
    sent,       \* how many were sent, which is also the id of the last one
    now         \* the clock

headVars == <<utxo, snapshot, pool, sent, now>>

Always == MaxNow + 1    \* no upper validity bound

\* Outputs are records with at least a head and the id of the transaction, so no two
\* transactions make the same output.
Tx(id, head, spends, reads, makes, from, upto) ==
    [id |-> id, head |-> head, spends |-> spends, reads |-> reads,
     makes |-> {[o EXCEPT !.tx = id] : o \in makes}, from |-> from, upto |-> upto]

HeadInit(outputs) ==
    /\ utxo = outputs
    /\ snapshot = outputs
    /\ pool = {}
    /\ sent = 0
    /\ now = 0

\* sendTx, up to ws.send: the transaction is on its way, and stays so even if the
\* sender gives up.
Send(head, spends, reads, makes, from, upto) ==
    /\ sent < MaxTxs
    /\ sent' = sent + 1
    /\ pool' = pool \cup {Tx(sent + 1, head, spends, reads, makes, from, upto)}
    /\ UNCHANGED <<utxo, snapshot, now>>

\* The ledger's rule: inputs and collateral are unspent, and the time is in the range.
Valid(t) ==
    /\ t.spends \cup t.reads \subseteq utxo
    /\ t.from <= now /\ now <= t.upto

\* The head decides t.
Decide(t) ==
    /\ pool' = pool \ {t}
    /\ utxo' = IF Valid(t) THEN (utxo \ t.spends) \cup t.makes ELSE utxo
    /\ UNCHANGED <<snapshot, sent, now>>

\* A snapshot of the head is confirmed.
Confirm(head) ==
    LET Elsewhere(outputs) == {o \in outputs : o.head # head} IN
    /\ snapshot' = Elsewhere(snapshot) \cup (utxo \ Elsewhere(utxo))
    /\ snapshot' # snapshot
    /\ UNCHANGED <<utxo, pool, sent, now>>

Tick ==
    /\ now < MaxNow
    /\ now' = now + 1
    /\ UNCHANGED <<utxo, snapshot, pool, sent>>
=============================================================================
