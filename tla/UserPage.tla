------------------------------ MODULE UserPage ------------------------------
(***************************************************************************)
(* The page of a user or of Charlie, FinalDemoApp with view user or        *)
(* charlie: its two mutations request funds and buy a ticket as chains of  *)
(* requests, each of which may be the last one.  The tabs of a browser     *)
(* share its local storage, where an intent keeps the idempotency key of   *)
(* what is on the form for a while.                                        *)
(*                                                                         *)
(* A server that has started to answer goes on when the tab is reloaded.   *)
(***************************************************************************)
EXTENDS HydraHead, Sequences, FiniteSets

CONSTANTS
    Tabs, NoTab,
    Amounts,        \* of funds, as they are typed
    MaxPairs,       \* HTLC_PAIRS_MAX
    FlowAttempts,   \* maxAttempts of a workflow
    MaxClicks,      \* bound: mutations that are started
    MaxTroubles     \* bound: reloads, answers that do not come, what is switched on or off

ASSUME PageAssumption ==
    /\ MaxPairs \in Nat \ {0} /\ FlowAttempts \in Nat
    /\ MaxClicks \in Nat /\ MaxTroubles \in Nat
    /\ {"headA", "headB", "headC"} \subseteq Heads
    /\ Amounts # {} /\ Amounts \cap Nat = {}

VARIABLES
    view,       \* which page it is
    tab,        \* what each tab shows
    run,        \* the mutations, one for each click
    intents,    \* local storage: the intent of each fingerprint
    pairs,      \* local storage: the hashes of the last HTLC pairs
    flows,      \* the workflows
    headRow,    \* the status of the heads in the database is open
    up,         \* and whether they are
    clicks,     \* mutations started, which also numbers the HTLC pairs
    keys,       \* idempotency keys made
    losses, excused, toggles  \* history

storage == <<intents, pairs, keys>>
pageVars == <<tab, run, intents, pairs, flows, headRow, up, clicks, keys, losses, excused, toggles>>

\* What a mutation is about: an amount of funds, or the ticket with a fresh hash.
Prints == Amounts \cup 1..MaxClicks
IsBuy(print) == print \notin Amounts

Source == IF view = "charlie" THEN "headC" ELSE "headA"
RequiredHeads(print) == IF IsBuy(print) THEN {"headB", Source} ELSE {"headA"}

\* alice and wallet: a wallet's output; funds and lock: what a transfer and a purchase make.
Made(head, kind, print) == [head |-> head, kind |-> kind, print |-> print, tx |-> 0]
Alice == Made("headA", "alice", 0)
Wallet == Made(Source, "wallet", 0)

NoIntent == [key |-> 0, flow |-> 0]
Still == [pc |-> "idle", print |-> 0, key |-> 0, draft |-> Alice, tx |-> 0, tab |-> NoTab, open |-> FALSE]
Runs == 1..MaxClicks

\* The amount that the form has at first, whose intent is made when the page is mounted.
FirstAmount == CHOOSE a \in Amounts : TRUE

PageInit(outputs) ==
    /\ HeadInit(outputs)
    /\ tab = [t \in Tabs |-> [form |-> FirstAmount, hash |-> 0, watch |-> 0, wallet |-> FALSE]]
    /\ run = [r \in Runs |-> Still]
    /\ intents = [p \in Prints |-> IF p = FirstAmount THEN [NoIntent EXCEPT !.key = 1] ELSE NoIntent]
    /\ pairs = <<>> /\ flows = <<>>
    /\ headRow = [h \in Heads |-> TRUE] /\ up = [h \in Heads |-> TRUE]
    /\ clicks = 0 /\ keys = 1 /\ losses = 0 /\ excused = 0 /\ toggles = 0

-----------------------------------------------------------------------------
(* Intents *)

\* A record is dropped when it is too old, which it may be at any time.
Expire(p) ==
    /\ intents[p].key # 0
    /\ intents' = [intents EXCEPT ![p] = NoIntent]
    /\ losses + toggles < MaxTroubles /\ toggles' = toggles + 1
    /\ UNCHANGED <<headVars, tab, run, pairs, flows, headRow, up, clicks, keys, losses, excused>>

\* getOrCreate...IdempotencyKey
KeyOf(p) == IF intents[p].key # 0 THEN intents[p].key ELSE keys + 1
GetOrCreate(p) ==
    IF intents[p].key # 0
    THEN UNCHANGED <<intents, keys>>
    ELSE /\ intents' = [intents EXCEPT ![p].key = keys + 1]
         /\ keys' = keys + 1

\* bind...IntentWorkflow: nothing, when the record is gone.
Bound(p, f) == IF intents[p].key = 0 THEN intents ELSE [intents EXCEPT ![p].flow = f]

\* clear...IntentByWorkflowId, and when it has removed a record, rotate...IdempotencyKey for
\* what the form shows now.
Retire(f, shown) ==
    LET of == {p \in Prints : intents[p].key # 0 /\ intents[p].flow = f /\ IsBuy(p) = IsBuy(flows[f].print)} IN
    /\ of # {}
    /\ intents' = [p \in Prints |-> CASE p = shown -> [key |-> keys + 1, flow |-> 0]
                                      [] p \in of \ {shown} -> NoIntent
                                      [] OTHER -> intents[p]]
    /\ keys' = keys + 1

-----------------------------------------------------------------------------
(* The form and its two buttons *)

\* An intent is there as soon as the form shows an amount.
Type(t, a) ==
    /\ view = "user" /\ tab[t].form # a
    /\ tab' = [tab EXCEPT ![t].form = a]
    /\ GetOrCreate(a)
    /\ UNCHANGED <<headVars, run, pairs, flows, headRow, up, clicks, losses, excused, toggles>>

\* A mutation of the tab that is pending, for funds or for a ticket.
Pending(t, buy) == \E c \in Runs : run[c].open /\ run[c].tab = t /\ IsBuy(run[c].print) = buy

\* There is a wallet to act for, on a testnet.  What is pending keeps the session that it has.
Session(t) ==
    /\ ~tab[t].wallet
    /\ tab' = [tab EXCEPT ![t].wallet = TRUE]
    /\ UNCHANGED <<headVars, run, storage, flows, headRow, up, clicks, losses, excused, toggles>>

\* A page that is mounted looks for a session: Charlie's is his address, and a wallet that
\* was enabled before is restored.
Restore(t) == Session(t)

Connect(t) == view = "user" /\ Session(t)

Disconnect(t) ==
    /\ view = "user" /\ tab[t].wallet
    /\ tab' = [tab EXCEPT ![t].wallet = FALSE]
    /\ losses + toggles < MaxTroubles /\ toggles' = toggles + 1
    /\ UNCHANGED <<headVars, run, storage, flows, headRow, up, clicks, losses, excused>>

\* What the page is told of a head: the row of the database, and what its node says.
RowOpen(h) == headRow[h]
SnapshotOpen(h) == up[h]

\* The button of a mutation is offered when either has the heads open.
Offered(t, print) ==
    /\ tab[t].wallet /\ ~Pending(t, IsBuy(print))
    /\ \A h \in RequiredHeads(print) : RowOpen(h) \/ SnapshotOpen(h)

Click(t, print, first) ==
    /\ Offered(t, print)
    /\ clicks < MaxClicks /\ clicks' = clicks + 1
    /\ run' = [run EXCEPT ![clicks + 1] =
                  [Still EXCEPT !.pc = first, !.print = print, !.key = KeyOf(print), !.tab = t, !.open = TRUE]]
    /\ GetOrCreate(print)
    /\ UNCHANGED <<headVars, flows, headRow, up, losses, excused, toggles>>

ClickFunds(t) == view = "user" /\ Click(t, tab[t].form, "prepare") /\ UNCHANGED <<tab, pairs>>

\* saveHtlcPair
Saved(hash) == SubSeq(<<hash>> \o pairs, 1, IF Len(pairs) < MaxPairs THEN Len(pairs) + 1 ELSE MaxPairs)

\* A click makes a pair of its own, shows its hash, and saves it before anything is sent.
ClickBuy(t) ==
    /\ Click(t, clicks + 1, IF view = "user" THEN "prepare" ELSE "post")
    /\ tab' = [tab EXCEPT ![t].hash = clicks + 1]
    /\ pairs' = Saved(clicks + 1)

-----------------------------------------------------------------------------
(* The requests of a mutation *)

RunAt(c, pc) == run[c].pc = pc

\* A step has been answered: the chain goes on if the page is still there.
Then(c, pc) == run' = [run EXCEPT ![c] = IF @.open /\ pc # "idle" THEN [@ EXCEPT !.pc = pc] ELSE Still]

\* A request is answered with an error, which ends the mutation.
Errors(c) == Then(c, "idle")

\* The server builds a transaction from the snapshot and keeps nothing.
Inputs(kind) == {o \in snapshot : o.kind = kind}

\* The wallet signs the transaction that was prepared.
Prepare(c) ==
    LET buy == IsBuy(run[c].print) IN
    /\ RunAt(c, "prepare")
    /\ \E o \in Inputs(IF buy THEN "wallet" ELSE "alice") :
          run' = [run EXCEPT ![c].pc = IF buy THEN "post" ELSE "send", ![c].draft = o]
    /\ UNCHANGED <<headVars, tab, storage, flows, headRow, up, clicks, losses, excused, toggles>>

\* Nothing could be prepared, or the wallet did not sign.
PrepareFails(c) ==
    /\ RunAt(c, "prepare") /\ Errors(c)
    /\ UNCHANGED <<headVars, tab, storage, flows, headRow, up, clicks, losses, excused, toggles>>

\* submit...Draft up to sendTx.  Charlie's transaction is built by the same request.
SendFrom(c, o, made) ==
    /\ Send(o.head, {o}, {}, {[o EXCEPT !.tx = 0], made}, 0, Always)
    /\ run' = [run EXCEPT ![c] = [@ EXCEPT !.pc = "await", !.tx = sent + 1]]
    /\ UNCHANGED <<tab, storage, flows, headRow, up, clicks, losses, excused, toggles>>

SendTransfer(c) ==
    RunAt(c, "send") /\ ~IsBuy(run[c].print) /\ SendFrom(c, run[c].draft, Made("headA", "funds", run[c].print))

SendLock(c) ==
    /\ RunAt(c, "send") /\ IsBuy(run[c].print)
    /\ \E o \in IF view = "user" THEN {run[c].draft} ELSE Inputs("wallet") :
          SendFrom(c, o, Made(Source, "lock", run[c].print))

\* What follows the answer of a head: the request of a user's lock records it by itself,
\* and so does not need the page.
AfterSend(c) ==
    LET recorded == IsBuy(run[c].print) /\ view = "user" IN
    CASE recorded -> "attach"
      [] ~recorded /\ ~run[c].open -> "idle"
      [] ~recorded /\ run[c].open /\ ~IsBuy(run[c].print) -> "post"
      [] OTHER -> "report"

Hears(head) == {c \in Runs : RunAt(c, "await") /\ (IF IsBuy(run[c].print) THEN Source ELSE "headA") = head}

\* The head decides a transaction, and everyone who waits there takes the answer.
PageAnswer(x) ==
    /\ Decide(x)
    /\ run' = [c \in Runs |->
          CASE c \notin Hears(x.head) -> run[c]
            [] c \in Hears(x.head) /\ Valid(x) /\ AfterSend(c) # "idle" -> [run[c] EXCEPT !.pc = AfterSend(c)]
            [] OTHER -> Still]
    /\ excused' = excused + Cardinality({c \in Hears(x.head) : run[c].tx # x.id})
    /\ UNCHANGED <<tab, storage, flows, headRow, up, clicks, losses, toggles>>

\* sendTx gives up, and the request fails.
GiveUp(c) ==
    /\ RunAt(c, "await") /\ Errors(c)
    /\ losses + toggles < MaxTroubles /\ losses' = losses + 1
    /\ UNCHANGED <<headVars, tab, storage, flows, headRow, up, clicks, excused, toggles>>

\* The tab is reloaded, which cuts its chains: the server ends the request that it has begun.
\* The URL keeps the workflow.
Reload(t) ==
    LET cut == {c \in Runs : run[c].open /\ run[c].tab = t} IN
    /\ cut # {}
    /\ run' = [c \in Runs |-> CASE c \in cut /\ run[c].pc \in {"await", "attach"} -> [run[c] EXCEPT !.open = FALSE]
                                [] c \in cut /\ run[c].pc \notin {"await", "attach"} -> Still
                                [] OTHER -> run[c]]
    /\ tab' = [tab EXCEPT ![t].wallet = FALSE, ![t].hash = 0]
    /\ losses + Cardinality(cut) + toggles <= MaxTroubles /\ losses' = losses + Cardinality(cut)
    /\ UNCHANGED <<headVars, storage, flows, headRow, up, clicks, excused, toggles>>

-----------------------------------------------------------------------------
(* The workflow routes *)

\* An artifact that differs from what the row has queues the workflow again.  An execution
\* is one action here (Work), so no row is found running, whose status htlc/submit leaves.
Attached(f, source) ==
    IF source \in {0, flows[f].source} THEN flows
    ELSE [flows EXCEPT ![f].source = source, ![f].status = "pending"]

\* The workflows of an idempotency key, which is unique in the database.
WithKey(key) == {f \in DOMAIN flows : flows[f].key = key}

NewFlow(c, source) ==
    [print |-> run[c].print, key |-> run[c].key, source |-> source, status |-> "pending", tries |-> 0]

\* Mutation of Post: the row of the key is not looked for.
PostAnew(c, source, next) ==
    /\ flows' = Append(flows, NewFlow(c, source))
    /\ Then(c, next)
    /\ UNCHANGED <<headVars, tab, storage, headRow, up, clicks, losses, excused, toggles>>

\* POST of a workflow: the row of the key if there is one, and a new row otherwise.
\* onSuccess: the page watches the workflow, and the intent is bound to it.
Post(c, source, next) ==
    LET print == run[c].print
        existing == WithKey(run[c].key)
        id == IF existing = {} THEN Len(flows) + 1 ELSE CHOOSE f \in existing : TRUE
    IN  /\ \A h \in RequiredHeads(print) : headRow[h]
        /\ flows' = CASE existing = {} -> Append(flows, NewFlow(c, source))
                      [] existing # {} /\ IsBuy(print) -> Attached(id, source)
                      [] OTHER -> flows
        /\ tab' = [tab EXCEPT ![run[c].tab].watch = id]
        /\ intents' = Bound(print, id)
        /\ excused' = IF existing # {} /\ ~IsBuy(print) THEN excused + 1 ELSE excused
        /\ Then(c, next)
        /\ UNCHANGED <<headVars, pairs, headRow, up, clicks, keys, losses, toggles>>

\* The transfer is done before its workflow is asked for.
PostFunds(c) == RunAt(c, "post") /\ ~IsBuy(run[c].print) /\ Post(c, run[c].tx, "idle")

\* Mutation of PostPurchase: the lock is sent first.
PostPurchaseLater(c) ==
    /\ RunAt(c, "post") /\ IsBuy(run[c].print) /\ Then(c, "send")
    /\ UNCHANGED <<headVars, tab, storage, flows, headRow, up, clicks, losses, excused, toggles>>

\* A purchase has its workflow, with the preimage, before its lock is sent.
PostPurchase(c) == RunAt(c, "post") /\ IsBuy(run[c].print) /\ Post(c, 0, "send")

\* Mutation of Report: the key is taken from the store once more.
ReportAnew(c) ==
    /\ RunAt(c, "report") /\ Then(c, "idle")
    /\ flows' = IF KeyOf(run[c].print) = run[c].key THEN Attached(CHOOSE f \in WithKey(run[c].key) : TRUE, run[c].tx)
                ELSE Append(flows, [NewFlow(c, run[c].tx) EXCEPT !.key = KeyOf(run[c].print)])
    /\ UNCHANGED <<headVars, tab, storage, headRow, up, clicks, losses, excused, toggles>>

\* Mutation of Report: the lock is forgotten.
ReportBare(c) == RunAt(c, "report") /\ Post(c, 0, "idle")

\* Afterwards the workflow is posted once more, with the lock.
Report(c) == RunAt(c, "report") /\ Post(c, run[c].tx, "idle")

\* A head that the database does not have open.
Refuse(c) ==
    /\ run[c].pc \in {"post", "report"}
    /\ \E h \in RequiredHeads(run[c].print) : ~headRow[h]
    /\ Errors(c) /\ excused' = excused + 1
    /\ UNCHANGED <<headVars, tab, storage, flows, headRow, up, clicks, losses, toggles>>

\* htlc/submit records the lock in the workflow of the key.
Attach(c) ==
    LET of == WithKey(run[c].key) IN
    /\ RunAt(c, "attach") /\ Then(c, "report")
    /\ flows' = IF of = {} THEN flows ELSE Attached(CHOOSE f \in of : TRUE, run[c].tx)
    /\ UNCHANGED <<headVars, tab, storage, headRow, up, clicks, losses, excused, toggles>>

-----------------------------------------------------------------------------
(* The workflows, the statuses of the heads, and what a tab sees of them *)

Ended(status) == status \in {"succeeded", "cancelled"}

\* The worker: a transfer is only probed for, a purchase is deferred as long as its lock
\* cannot be seen, and the rest of it is in TicketSale.
Ready(w) ==
    IF IsBuy(w.print) THEN w.source # 0 /\ \E o \in snapshot : o.kind = "lock" /\ o.print = w.print
    ELSE up["headA"]

Work(f) ==
    LET w == flows[f]
        ready == Ready(w)
        failed == [w EXCEPT !.tries = @ + 1, !.status = IF w.tries + 1 < FlowAttempts THEN "failed" ELSE "cancelled"]
    IN  /\ ~Ended(w.status)
        /\ \/ /\ ready
              /\ flows' = [flows EXCEPT ![f].status = "succeeded"]
              /\ headRow' = [headRow EXCEPT !["headA"] = @ \/ ~IsBuy(w.print)]
           \/ /\ IF IsBuy(w.print) THEN ready ELSE ~up["headA"]
              /\ flows' = [flows EXCEPT ![f] = failed]
              /\ UNCHANGED headRow
        /\ UNCHANGED <<headVars, tab, run, storage, up, clicks, losses, excused, toggles>>

\* The page polls its workflow; one that has ended retires its key.
Poll(t) ==
    LET f == tab[t].watch IN
    /\ f # 0
    /\ Ended(flows[f].status)
    /\ Retire(f, IF IsBuy(flows[f].print) THEN tab[t].hash ELSE tab[t].form)
    /\ UNCHANGED <<headVars, tab, run, pairs, flows, headRow, up, clicks, losses, excused, toggles>>

\* syncHeadSnapshotsHeartbeat
Heartbeat(h) ==
    /\ headRow[h] # up[h]
    /\ headRow' = [headRow EXCEPT ![h] = up[h]]
    /\ UNCHANGED <<headVars, tab, run, storage, flows, up, clicks, losses, excused, toggles>>

\* charlie/associate marks headC as connected, which is not open.
Associate ==
    /\ view = "charlie" /\ headRow["headC"]
    /\ losses + toggles < MaxTroubles /\ toggles' = toggles + 1
    /\ headRow' = [h \in Heads |-> h # "headC" /\ up[h]]
    /\ UNCHANGED <<headVars, tab, run, storage, flows, up, clicks, losses, excused>>

\* A head goes down or comes up, one that a mutation of this page asks for.
Toggle(h) ==
    /\ h \in RequiredHeads(1)
    /\ losses + toggles < MaxTroubles /\ toggles' = toggles + 1
    /\ up' = [up EXCEPT ![h] = ~@]
    /\ UNCHANGED <<headVars, tab, run, storage, flows, headRow, clicks, losses, excused>>

TabStep(t) ==
    \/ \E a \in Amounts : Type(t, a)
    \/ Restore(t) \/ Connect(t) \/ Disconnect(t) \/ ClickFunds(t) \/ ClickBuy(t) \/ Reload(t) \/ Poll(t)

RunStep(c) ==
    \/ Prepare(c) \/ PrepareFails(c) \/ SendTransfer(c) \/ SendLock(c) \/ GiveUp(c)
    \/ PostFunds(c) \/ PostPurchase(c) \/ Report(c) \/ Refuse(c) \/ Attach(c)

PageNext ==
    \/ \E t \in Tabs : TabStep(t)
    \/ \E c \in Runs : RunStep(c)
    \/ \E x \in pool : PageAnswer(x)
    \/ \E f \in DOMAIN flows : Work(f)
    \/ \E h \in Heads : Heartbeat(h) \/ Toggle(h)
    \/ Associate
    \/ \E p \in Prints : Expire(p)
    \/ \E h \in Heads : Confirm(h) /\ UNCHANGED pageVars

-----------------------------------------------------------------------------
(* Properties *)

RunPcs == {"idle", "prepare", "send", "await", "attach", "post", "report"}

\* A mutation past its click has a key, and a workflow belongs to one key.
PageTypeOK ==
    /\ \A c \in Runs :
          /\ run[c].pc \in RunPcs /\ run[c].key \in 0..keys /\ run[c].tx \in 0..sent
          /\ RunAt(c, "idle") \/ run[c].key # 0
    /\ \A t \in Tabs : tab[t].watch \in 0..Len(flows) /\ tab[t].form \in Amounts
    /\ \A p \in Prints : intents[p].key \in 0..keys /\ intents[p].flow \in 0..Len(flows)
    /\ \A f, g \in DOMAIN flows : flows[f].key = flows[g].key => f = g
    /\ headRow \in [Heads -> BOOLEAN] /\ up \in [Heads -> BOOLEAN]

OfKind(kind) == {o \in utxo : o.kind = kind}
OnRecord(o) == \E f \in DOMAIN flows : flows[f].source = o.tx

\* Money that moved is in a workflow.  A transfer or a lock that is not has a cause: its
\* chain is still running, it was cut by a reload or a timeout, a head's status had it
\* refused after the fact, or its key was in use for an earlier transfer.
UnrecordedHasCause ==
    Cardinality({o \in OfKind("funds") \cup OfKind("lock") : ~OnRecord(o)})
        <= losses + excused + Cardinality({c \in Runs : ~RunAt(c, "idle")})

\* The server has the preimage of a lock before there is the lock, so Ida's automation can
\* always claim it, whatever became of the page.
PreimageFirst ==
    \A o \in OfKind("lock") : \E f \in DOMAIN flows : flows[f].print = o.print

\* The two posts of a purchase meet in one workflow, even when its intent expired or was
\* retired in between: no purchase is executed twice.
OneRowPerPurchase ==
    \A f, g \in DOMAIN flows : IsBuy(flows[f].print) /\ flows[f].print = flows[g].print => f = g
=============================================================================
