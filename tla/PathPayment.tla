---------------------------- MODULE PathPayment ----------------------------
(***************************************************************************)
(* The payment client: one browser page that pays along a path of heads.   *)
(* For every step of the path it asks a server route to lock an HTLC of    *)
(* the same hash, for the payer first and then for Ida and Jon, and once   *)
(* the last one has gone it claims theirs.  The people at the page claim   *)
(* and refund with its buttons; they may also clear the payment that is    *)
(* shown, start the next one, or reload the page at any time.              *)
(***************************************************************************)
EXTENDS HydraHead, Topologies, FiniteSets, SequencesExt

CONSTANTS
    Topology,       \* the routes of the topology that was selected
    Hashes,         \* the hashes that are typed into the form
    Payments,       \* bound: the submissions of the form
    BaseTimeout,    \* timeoutMinutes of the form
    MAX_RETRIES,
    ClaimMargin,    \* minutes before the timeout at which a claim ends to be valid
    Coins,          \* the outputs of the payment's amount that the wallets hold at first
    Instants,       \* bound: the minutes the clock stops at
    MaxTroubles     \* bound: lost answers, resets and reloads

ASSUME PathAssumption ==
    /\ MAX_RETRIES \in Nat /\ ClaimMargin \in Nat /\ MaxTroubles \in Nat
    /\ BaseTimeout \in Nat \ {0} /\ Instants \subseteq 0..MaxNow
    /\ IsFiniteSet(Payments)
    /\ \A r \in Topology : IsPath(r.path)
    /\ \A c \in Coins : c.kind = "coin" /\ c.tx \in Int /\ c.tx <= 0

VARIABLES
    loop,       \* executePayment, a loop for each submission
    shown,      \* paymentState and currentStepsRef of the page, which all loops share
    pairs,      \* the preimages of the page: none, fresh or used
    troubles,   \* how many of MaxTroubles there were
    doubts,     \* history: transactions sent by a lock that was then reported as failed
    locked,     \* the HTLCs that were ever in a head, as the change outputs witness
    claimed     \* history: those of them that were claimed

pageVars == <<loop, shown, pairs>>
historyVars == <<locked, claimed>>
vars == <<headVars, loop, shown, pairs, troubles, doubts, locked, claimed>>

-----------------------------------------------------------------------------
(* Outputs *)

Coin(head, owner) == [kind |-> "coin", head |-> head, owner |-> owner, tx |-> 0]
IsHtlc(o) == o.kind = "htlc"

\* Mutation of calculateStepTimeout: the reduction is counted from the last of two steps.
timeoutFromTheEnd(index) ==
    ((BaseTimeout * 95^(2 - index) * 100 + 100^(2 - index) \div 2) \div 100^(2 - index)) \div 100

\* A step's lifetime in minutes: 95% of the one before, rounded to hundredths by the
\* page and cut to whole minutes by the route.
calculateStepTimeout(index) ==
    ((BaseTimeout * 95^(index - 1) * 100 + 100^(index - 1) \div 2) \div 100^(index - 1)) \div 100

\* The page matches outputs by hash and receiver, in the last snapshot of the head.
Matching(step, hash) ==
    {o \in snapshot : o.head = step.head /\ IsHtlc(o) /\ o.hash = hash /\ o.to = step.to}

Wallet(user, head) ==
    {o \in snapshot : o.head = head /\ o.kind = "coin" /\ o.owner = user}

\* What the lock route builds: the last step pays the final receiver, the others the
\* receiver of the step.
desiredOutput(path, index) ==
    IF index = Len(path) THEN Last(path).to ELSE path[index].to

HtlcOutput(path, index, hash) ==
    [kind |-> "htlc", head |-> path[index].head, hash |-> hash, from |-> path[index].from,
     to |-> path[index].to, pays |-> desiredOutput(path, index),
     timeout |-> now + calculateStepTimeout(index), at |-> now, tx |-> 0]

\* The claim route: for the receiver, to the desired output, with an output of the
\* claimer as collateral.
Claim(o, claimer) ==
    /\ o.to = claimer
    /\ \E c \in Wallet(claimer, o.head) :
        Send(o.head, {o}, {c}, {Coin(o.head, o.pays)}, 0, o.timeout - ClaimMargin)

\* The refund route knows only alice, bob and ida; the script refuses before the timeout.
RefundUsers == {"alice", "bob", "ida"}

Refund(o, sender) ==
    /\ sender \in RefundUsers
    /\ o.from = sender
    /\ now > o.timeout
    /\ \E c \in Wallet(sender, o.head) :
        Send(o.head, {o}, {c}, {Coin(o.head, sender)}, now, Always)

-----------------------------------------------------------------------------
(* The page *)

Idle == [pc |-> "idle", path |-> <<>>, hash |-> "none", preimage |-> FALSE,
         step |-> 1, retry |-> 0, tx |-> 0, collect |-> {}]

Cleared == [on |-> FALSE, busy |-> FALSE, recorded |-> {}]

PathInit ==
    /\ loop = [p \in Payments |-> Idle]
    /\ shown = Cleared
    /\ pairs = [h \in Hashes |-> "none"]
    /\ troubles = 0
    /\ doubts = 0
    /\ locked = {}
    /\ claimed = {}

At(p, pc) == loop[p].pc = pc
Current(p) == loop[p].path[loop[p].step]
Goto(p, pc) == loop' = [loop EXCEPT ![p].pc = pc]
Trouble == troubles < MaxTroubles /\ troubles' = troubles + 1

\* Generate Preimage: the pair is kept by the page, and in storage once it was used.
Generate(h) ==
    /\ pairs[h] = "none"
    /\ pairs' = [pairs EXCEPT ![h] = "fresh"]
    /\ UNCHANGED <<headVars, loop, shown, troubles, doubts, historyVars>>

\* A pair that was used outlives the page, in its storage.
markAsUsed(h) == [pairs EXCEPT ![h] = IF @ = "none" THEN "none" ELSE "used"]

\* Mutation of Submit: a lock of the hash that is already there is taken for the first
\* step, so that a payment that failed is resumed.
SubmitResumes(p, path, h) ==
    /\ At(p, "idle")
    /\ ~shown.busy
    /\ loop' = [loop EXCEPT ![p] = [Idle EXCEPT !.pc = "lock", !.path = path, !.hash = h,
                                                !.step = IF Matching(path[1], h) = {} THEN 1 ELSE 2]]
    /\ shown' = [on |-> TRUE, busy |-> TRUE, recorded |-> {}]
    /\ UNCHANGED <<headVars, pairs, troubles, doubts, historyVars>>

\* handleSubmit and the start of executePayment.  The form is off while a payment is
\* shown as executing; isExecutingRef refuses no one, as it was reset just before.
Submit(p, path, h) ==
    /\ At(p, "idle")
    /\ \A q \in Payments : q < p => ~At(q, "idle")
    /\ ~shown.busy
    /\ pairs' = markAsUsed(h)
    /\ loop' = [loop EXCEPT ![p] = [Idle EXCEPT !.pc = "lock", !.path = path, !.hash = h,
                                                !.preimage = pairs[h] # "none"]]
    /\ shown' = [on |-> TRUE, busy |-> TRUE, recorded |-> {}]
    /\ UNCHANGED <<headVars, troubles, doubts, historyVars>>

\* setPaymentState with isExecuting false, which changes nothing once it was cleared.
NotBusy == [shown EXCEPT !.busy = FALSE]

Fail(p) ==
    /\ Goto(p, "failed")
    /\ shown' = NotBusy

\* The loop of a step tries again after any error.
Retried(k) ==
    IF k.retry < MAX_RETRIES THEN [k EXCEPT !.pc = "lock", !.retry = @ + 1]
    ELSE [k EXCEPT !.pc = "failed"]

\* executeStep and the lock route, up to sendTx: an output of the sender is locked.
Lock(p) ==
    /\ At(p, "lock")
    /\ \E c \in Wallet(Current(p).from, Current(p).head) :
        Send(Current(p).head, {c}, {}, {HtlcOutput(loop[p].path, loop[p].step, loop[p].hash)}, 0, Always)
    /\ loop' = [loop EXCEPT ![p].pc = "sent", ![p].tx = sent']
    /\ UNCHANGED <<shown, pairs, troubles, doubts, historyVars>>

\* The wallet is empty: the route answers with an error and nothing was sent.
LockFails(p) ==
    /\ At(p, "lock")
    /\ Wallet(Current(p).from, Current(p).head) = {}
    /\ loop' = [loop EXCEPT ![p] = Retried(@)]
    /\ shown' = IF loop[p].retry < MAX_RETRIES THEN shown ELSE NotBusy
    /\ UNCHANGED <<headVars, pairs, troubles, doubts, historyVars>>

\* What a lock that waits for sendTx hears of its head: any TxValid is taken for its
\* own, and then the route waits for its transaction in a snapshot; so is any error.
Hears(p, t) == At(p, "sent") /\ Current(p).head = t.head

Answer(t) ==
    /\ Decide(t)
    /\ loop' = [p \in Payments |->
                   IF ~Hears(p, t) THEN loop[p]
                   ELSE IF Valid(t) THEN [loop[p] EXCEPT !.pc = "await"] ELSE Retried(loop[p])]
    /\ shown' = IF \E p \in Payments : loop'[p].pc = "failed" /\ ~At(p, "failed")
                THEN NotBusy ELSE shown
    /\ doubts' = doubts + IF Valid(t) THEN 0 ELSE Cardinality({p \in Payments : Hears(p, t) /\ loop[p].tx # t.id})
    /\ locked' = locked \cup {o \in utxo' \ utxo : IsHtlc(o)}
    /\ claimed' = claimed \cup {o \in utxo \ utxo' : IsHtlc(o) /\ \E n \in utxo' \ utxo : n.owner = o.pays}
    /\ UNCHANGED <<pairs, troubles>>

\* The answer is lost: nothing heard for ten seconds, a snapshot that could not be
\* fetched, or a connection that broke.  The transaction stays on its way.
AnswerLost(p) ==
    /\ loop[p].pc \in {"sent", "await"}
    /\ Trouble
    /\ loop' = [loop EXCEPT ![p] = Retried(@)]
    /\ shown' = IF loop[p].retry < MAX_RETRIES THEN shown ELSE NotBusy
    /\ doubts' = doubts + 1
    /\ UNCHANGED <<headVars, pairs, historyVars>>

\* Mutation of Finished: the watch starts without the preimage as well.
FinishedWatching(k) == [k EXCEPT !.pc = "watch"]

\* The end of executePayment: the watch over the last HTLC starts only if the page has
\* the preimage.
Finished(k) == [k EXCEPT !.pc = IF k.preimage THEN "watch" ELSE "done"]

\* Mutation of Awaited: sendTx's answer is enough.
AwaitedNothing(p) ==
    /\ At(p, "await")
    /\ LET last == loop[p].step = Len(loop[p].path) IN
        /\ loop' = [loop EXCEPT ![p] = IF last THEN Finished(@) ELSE [@ EXCEPT !.pc = "settle"]]
        /\ shown' = [shown EXCEPT !.recorded = @ \cup {loop[p].step}, !.busy = @ /\ ~last]
    /\ UNCHANGED <<headVars, pairs, troubles, doubts, historyVars>>

\* awaitTx looks for any output of the transaction, so the sender's change still shows a
\* lock whose HTLC was spent before the look; what is spent was in a snapshot before.
Found(p) ==
    \E o \in locked : /\ o.head = Current(p).head /\ o.tx = loop[p].tx
                      /\ o \in snapshot \/ o \notin utxo

\* The transaction is found, the answer arrives and the step is completed.
Awaited(p) ==
    /\ At(p, "await") /\ Found(p)
    /\ LET last == loop[p].step = Len(loop[p].path)
           step == IF shown.on THEN {loop[p].step} ELSE {} IN
        /\ loop' = [loop EXCEPT ![p] = IF last THEN Finished(@) ELSE [@ EXCEPT !.pc = "settle"]]
        /\ shown' = [shown EXCEPT !.recorded = @ \cup step, !.busy = @ /\ ~last]
    /\ UNCHANGED <<headVars, pairs, troubles, doubts, historyVars>>

\* waitForStepConfirmation: any lock of the hash for the receiver is a confirmation.
Confirmed(step, hash) == Matching(step, hash) # {}

\* It saw the step that was just completed.  The next one is of an
\* intermediary, and needs a transaction recorded for this one.
Settled(p) ==
    /\ At(p, "settle")
    /\ Confirmed(Current(p), loop[p].hash)
    /\ LET next == loop[p].path[loop[p].step + 1] IN
        IF isAutomatedStep(next) /\ loop[p].step \notin shown.recorded
        THEN Fail(p)
        ELSE /\ loop' = [loop EXCEPT ![p].pc = IF isAutomatedStep(next) THEN "cover" ELSE "lock",
                                     ![p].step = @ + 1, ![p].retry = 0]
             /\ UNCHANGED shown
    /\ UNCHANGED <<headVars, pairs, troubles, doubts, historyVars>>

\* Before an intermediary locks, the page looks once more for the lock it relays.
Covered(p) ==
    /\ At(p, "cover")
    /\ Confirmed(loop[p].path[loop[p].step - 1], loop[p].hash)
    /\ Goto(p, "lock")
    /\ UNCHANGED <<headVars, shown, pairs, troubles, doubts, historyVars>>

\* One of the two waits saw nothing for a minute.
NotConfirmed(p) ==
    /\ \/ At(p, "settle") /\ ~Confirmed(Current(p), loop[p].hash)
       \/ At(p, "cover") /\ ~Confirmed(loop[p].path[loop[p].step - 1], loop[p].hash)
    /\ Fail(p)
    /\ UNCHANGED <<headVars, pairs, troubles, doubts, historyVars>>

\* claimIntermediaryHtlcs goes for the locks that Ida and Jon receive.
intermediarySteps(path) == {i \in DOMAIN path : isIntermediaryReceiver(path[i])}

\* Mutation of Vanished: the intermediaries collect as soon as all steps are completed.
VanishedAtOnce(p) ==
    /\ At(p, "watch")
    /\ loop' = [loop EXCEPT ![p].pc = "collect",
                            ![p].collect = intermediarySteps(loop[p].path)]
    /\ UNCHANGED <<headVars, shown, pairs, troubles, doubts, historyVars>>

\* waitForHtlcClaimed: the last HTLC cannot be seen, which is taken for a claim.
Vanished(p) ==
    /\ At(p, "watch")
    /\ Matching(Last(loop[p].path), loop[p].hash) = {}
    /\ loop' = [loop EXCEPT ![p].pc = "collect",
                            ![p].collect = intermediarySteps(loop[p].path)]
    /\ UNCHANGED <<headVars, shown, pairs, troubles, doubts, historyVars>>

\* It was still there after two minutes: nobody claims for the intermediaries.
WatchEnds(p) ==
    /\ At(p, "watch")
    /\ Goto(p, "done")
    /\ UNCHANGED <<headVars, shown, pairs, troubles, doubts, historyVars>>

\* claimIntermediaryHtlc, in any order: one look, one claim, and no word of the result.
Collect(p, i) ==
    LET step == loop[p].path[i] IN
    /\ i \in loop[p].collect
    /\ loop' = [loop EXCEPT ![p].collect = @ \ {i}]
    /\ IF Matching(step, loop[p].hash) = {} \/ Wallet(step.to, step.head) = {}
       THEN UNCHANGED headVars
       ELSE \E o \in Matching(step, loop[p].hash) : Claim(o, step.to)
    /\ UNCHANGED <<shown, pairs, troubles, doubts, historyVars>>

\* The X of the sidebar: the loops go on without the state they share.
ResetPayment ==
    /\ Trouble
    /\ shown.on
    /\ shown' = Cleared
    /\ UNCHANGED <<headVars, loop, pairs, doubts, historyVars>>

\* The page is loaded again: its loops are gone, and so are the preimages not used yet.
Reload ==
    /\ Trouble
    /\ loop' = [p \in Payments |-> IF At(p, "idle") THEN Idle ELSE [loop[p] EXCEPT !.pc = "gone", !.collect = {}]]
    /\ pairs' = [h \in Hashes |-> IF pairs[h] = "used" THEN "used" ELSE "none"]
    /\ shown' = Cleared
    /\ UNCHANGED <<headVars, doubts, historyVars>>

-----------------------------------------------------------------------------
(* The people at the page, who pass each other the preimage. *)

\* The buttons of an output: to claim for the receiver until the timeout, and to refund
\* for the sender from then on.  No one can be Ida or Jon.
showClaimButton(o) == IsHtlc(o) /\ o.to \in PaymentUsers /\ now <= o.timeout
showRefundButton(o) == IsHtlc(o) /\ o.from \in PaymentUsers /\ now >= o.timeout

UserClaim(o) ==
    /\ showClaimButton(o)
    /\ Claim(o, o.to)
    /\ UNCHANGED <<pageVars, troubles, doubts, historyVars>>

UserRefund(o) ==
    /\ showRefundButton(o)
    /\ Refund(o, o.from)
    /\ UNCHANGED <<pageVars, troubles, doubts, historyVars>>

Wait ==
    /\ \E m \in Instants : m > now /\ (\A n \in Instants : n > now => n >= m) /\ now' = m
    /\ UNCHANGED <<utxo, snapshot, pool, sent, pageVars, troubles, doubts, historyVars>>

Init == HeadInit(Coins) /\ PathInit

Pay(p) ==
    \/ \E h \in Hashes, user \in PaymentUsers, head \in Heads :
        \E path \in findPaymentPath(Topology, user, head) : Submit(p, path, h)
    \/ Lock(p) \/ LockFails(p) \/ AnswerLost(p) \/ Awaited(p)
    \/ Settled(p) \/ Covered(p) \/ NotConfirmed(p)
    \/ Vanished(p) \/ WatchEnds(p) \/ \E i \in 1..3 : Collect(p, i)

Next ==
    \/ \E p \in Payments : Pay(p)
    \/ \E h \in Hashes : Generate(h)
    \/ ResetPayment \/ Reload
    \/ \E t \in pool : Answer(t)
    \/ \E o \in snapshot : UserClaim(o) \/ UserRefund(o)
    \/ \E head \in Heads : Confirm(head) /\ UNCHANGED <<pageVars, troubles, doubts, historyVars>>
    \/ Wait

Spec == Init /\ [][Next]_vars

-----------------------------------------------------------------------------
(* Properties *)

Of(outputs, hash) == {o \in outputs : o.hash = hash}
To(outputs, user) == {o \in outputs : o.to = user}
From(outputs, user) == {o \in outputs : o.from = user}

\* The page's states, and what each of them rests on: a loop that posted has a
\* transaction, a loop that collects has the preimage, and doubts are bounded.
TypeOK ==
    /\ \A p \in Payments :
        /\ loop[p].pc \in {"idle", "lock", "sent", "await", "settle", "cover", "watch",
                           "collect", "done", "failed", "gone"}
        /\ loop[p].pc \in {"sent", "await", "settle", "watch"} => loop[p].tx \in 1..sent
        /\ loop[p].collect # {} => loop[p].preimage
        /\ loop[p].retry \in 0..MAX_RETRIES
    /\ shown \in [on : BOOLEAN, busy : BOOLEAN, recorded : SUBSET (1..3)]
    /\ shown.busy => shown.on
    /\ pairs \in [Hashes -> {"none", "fresh", "used"}]
    /\ claimed \subseteq locked

\* An intermediary takes the payer's money for a hash at most as often as the final
\* receivers of that hash were paid: waitForHtlcClaimed and claimIntermediaryHtlcs
\* never collect for a payment that did not arrive, whatever was retried, cleared or
\* paid again with the same hash.
CollectedAfterPaid ==
    \A h \in Hashes, x \in Intermediaries :
        Cardinality(To(Of(claimed, h), x)) <=
        Cardinality({o \in Of(claimed, h) : o.to \notin Intermediaries})

\* An intermediary locks for a hash at most as often as it was locked for it, except
\* once for each lock that went through and was reported to the page as failed.
RelayCovered ==
    \A h \in Hashes, x \in Intermediaries :
        Cardinality(From(Of(locked, h), x)) <= Cardinality(To(Of(locked, h), x)) + doubts

\* A payment that the page reports as completed has locked every step of its own path,
\* even if sendTx took another transaction's answer for its own.
CompletedIsLocked ==
    \A p \in Payments :
        loop[p].pc \in {"watch", "collect", "done"} =>
            \A i \in DOMAIN loop[p].path : LET step == loop[p].path[i] IN
                Cardinality(From(To(Of(locked, loop[p].hash), step.to), step.from)) >=
                Cardinality({q \in Payments : /\ loop[q].pc \in {"watch", "collect", "done"}
                                              /\ loop[q].hash = loop[p].hash
                                              /\ loop[q].path = loop[p].path})

\* While the lock an intermediary made can be claimed, the one it relays was collected
\* or can be claimed as well, and the payer cannot have it back: the lifetimes fall
\* along the path.  This is for two locks of the same minute; a lock that followed
\* later than the difference of the lifetimes has no such cover.
CoverOutlives ==
    \A o \in {x \in utxo : IsHtlc(x) /\ x.from \in Intermediaries} :
        LET cover == {i \in locked : i.hash = o.hash /\ i.to = o.from /\ i.tx < o.tx} IN
        now <= o.timeout - ClaimMargin /\ (\E i \in cover : i.at = o.at) =>
            \E i \in cover : \/ i \in claimed
                             \/ i \in utxo /\ now <= i.timeout - ClaimMargin
=============================================================================
