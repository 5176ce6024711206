----------------------------- MODULE TicketSale -----------------------------
(***************************************************************************)
(* buyTicket of lib/services/ticket-service.ts.  A buyer locks the ticket  *)
(* cost in an HTLC for Ida on the source head; Ida's automation locks the  *)
(* same amount on headB in an HTLC that can only become a ticket of the    *)
(* buyer, claims that one first and the buyer's HTLC second.               *)
(*                                                                         *)
(* A call of the service is split at its awaits: each read of a snapshot   *)
(* and each sendTx is an action of its own.  Calls of several workers run  *)
(* at once, and a call may end at any await while what it sent is still on *)
(* its way; the workflow queue then calls the service again.               *)
(***************************************************************************)
EXTENDS HydraHead

CONSTANTS
    Purchases,
    Calls,          \* concurrent calls of buyTicket
    Timeout,        \* timeoutMinutes
    ClaimOffset,    \* CLAIM_VALIDITY_OFFSET_MS
    MaxAttempts,    \* executions of a purchase that may end in an error
    MaxFailures,    \* bound: calls that end between two awaits, by an error or a crash
    MaxTimeouts,    \* bound: awaits of sendTx that end before the head has answered
    None

ASSUME SaleAssumption ==
    /\ Timeout \in Nat /\ ClaimOffset \in Nat /\ MaxAttempts \in Nat /\ MaxFailures \in Nat /\ MaxTimeouts \in Nat
    /\ {"source", "headB"} \subseteq Heads
    /\ None \notin Purchases

VARIABLES
    buyer,      \* what each buyer has done, and the timeout of its HTLC
    call,       \* the state of each call
    done,       \* the result of the purchase is recorded
    attempts,   \* executions of the purchase that ended in an error
    failures,
    timeouts

saleVars == <<buyer, call, done, attempts, failures, timeouts>>
vars == <<headVars, saleVars>>

Kinds == {"htlc", "ticket", "coin", "paid", "refund"}
Output == [head: Heads, kind: Kinds, for: Purchases \cup {None}, until: Int, tx: Nat]

Out(head, kind, b, until) ==
    [head |-> head, kind |-> kind, for |-> b, until |-> until, tx |-> 0]

\* Ida's wallet on headB.
Coin == Out("headB", "coin", None, 0)

Waiting == {"awaitLock", "awaitTarget", "awaitSource"}
Quiet == [pc |-> "idle", b |-> None, ref |-> 0, found |-> Coin]

Init ==
    /\ HeadInit({Coin})
    /\ buyer = [b \in Purchases |-> [pc |-> "new", until |-> 0, refunding |-> FALSE]]
    /\ call = [c \in Calls |-> Quiet]
    /\ done = [b \in Purchases |-> FALSE]
    /\ attempts = [b \in Purchases |-> 0]
    /\ failures = 0
    /\ timeouts = 0

\* utxosAt, narrowed to the purchase by the hash of its HTLCs.
Here(head, kind, b) == {o \in snapshot : o.head = head /\ o.kind = kind /\ o.for = b}

-----------------------------------------------------------------------------
(* The buyer *)

\* prepareBuyTicketDraft fixes the timeout of the HTLC.
Prepare(b) ==
    /\ buyer[b].pc = "new"
    /\ buyer' = [buyer EXCEPT ![b].pc = "prepared", ![b].until = now + Timeout]
    /\ UNCHANGED <<headVars, call, done, attempts, failures, timeouts>>

\* submitBuyTicketDraft, after the buyer signed; the route records what it returns.
SubmitSource(b) ==
    /\ buyer[b].pc = "prepared"
    /\ Send("source", {}, {}, {Out("source", "htlc", b, buyer[b].until)}, 0, Always)
    /\ buyer' = [buyer EXCEPT ![b].pc = "waiting"]
    /\ UNCHANGED <<call, done, attempts, failures, timeouts>>

\* The await of the submission ends without an answer, and nothing is recorded.
Abandon(b) ==
    /\ buyer[b].pc = "waiting"
    /\ timeouts < MaxTimeouts
    /\ timeouts' = timeouts + 1
    /\ buyer' = [buyer EXCEPT ![b].pc = "refused"]
    /\ UNCHANGED <<headVars, call, done, attempts, failures>>

\* The buyer takes back, once, an HTLC that has run out.
Refund(b) ==
    /\ \E o \in Here("source", "htlc", b) :
          /\ now > o.until
          /\ Send("source", {o}, {}, {Out("source", "refund", b, 0)}, o.until + 1, Always)
    /\ ~buyer[b].refunding
    /\ buyer' = [buyer EXCEPT ![b].refunding = TRUE]
    /\ UNCHANGED <<call, done, attempts, failures, timeouts>>

-----------------------------------------------------------------------------
(* A call of buyTicket *)

Goes(c, pc) == call' = [call EXCEPT ![c].pc = pc]
At(c, pc) == call[c].pc = pc

\* The artifacts are in the payload, and the workflow has not ended with a result.
Start(c, b) ==
    /\ At(c, "idle")
    /\ buyer[b].pc = "recorded" /\ ~done[b] /\ attempts[b] < MaxAttempts
    /\ call' = [call EXCEPT ![c] = [Quiet EXCEPT !.pc = "ensure", !.b = b]]
    /\ UNCHANGED <<headVars, buyer, done, attempts, failures, timeouts>>

\* ensureHeadBIdaLock: an open lock of the purchase is used again, whatever its timeout.
Ensure(c) ==
    LET locks == Here("headB", "htlc", call[c].b) IN
    /\ At(c, "ensure")
    /\ \/ \E l \in locks : call' = [call EXCEPT ![c].pc = "findSource", ![c].ref = l.tx]
       \/ locks = {} /\ Goes(c, "lock")
    /\ UNCHANGED <<headVars, buyer, done, attempts, failures, timeouts>>

\* The wallet selects its inputs by a fixed rule.
Wallet == CHOOSE o \in snapshot : o.kind = "coin"

SendLock(c) ==
    /\ At(c, "lock")
    /\ Send("headB", {Wallet}, {}, {Coin, Out("headB", "htlc", call[c].b, now + Timeout)}, 0, Always)
    /\ call' = [call EXCEPT ![c].pc = "awaitLock", ![c].ref = sent + 1]
    /\ UNCHANGED <<buyer, done, attempts, failures, timeouts>>

\* Mutation of FindSource: the missing HTLC is not noticed.
FindSourceUnchecked(c) ==
    /\ At(c, "findSource") /\ Goes(c, "findLock")
    /\ UNCHANGED <<headVars, buyer, done, attempts, failures, timeouts>>

\* detectIdaHtlcPair; a missing half defers the workflow.
FindSource(c) ==
    LET open == Here("source", "htlc", call[c].b) IN
    /\ At(c, "findSource")
    /\ call' = [call EXCEPT ![c] = IF open = {} THEN Quiet ELSE [@ EXCEPT !.pc = "findLock"]]
    /\ UNCHANGED <<headVars, buyer, done, attempts, failures, timeouts>>

\* Mutation of FindLock: the missing lock is not noticed.
FindLockUnchecked(c) ==
    LET open == {o \in Here("headB", "htlc", call[c].b) : o.tx = call[c].ref} IN
    /\ At(c, "findLock")
    /\ \/ \E o \in open : call' = [call EXCEPT ![c].pc = "claimTarget", ![c].found = o]
       \/ open = {} /\ call' = [call EXCEPT ![c].pc = "claimTarget", ![c].found = None]
    /\ UNCHANGED <<headVars, buyer, done, attempts, failures, timeouts>>

FindLock(c) ==
    LET open == {o \in Here("headB", "htlc", call[c].b) : o.tx = call[c].ref} IN
    /\ At(c, "findLock")
    /\ \/ \E o \in open : call' = [call EXCEPT ![c].pc = "claimTarget", ![c].found = o]
       \/ open = {} /\ call' = [call EXCEPT ![c] = Quiet]
    /\ UNCHANGED <<headVars, buyer, done, attempts, failures, timeouts>>

\* claimIdaHtlcOnHead
Claim(c, reads, kind, next) ==
    LET o == call[c].found IN
    /\ Send(o.head, {o}, reads, {Out(o.head, kind, o.for, 0)}, 0, o.until - ClaimOffset)
    /\ Goes(c, next)
    /\ UNCHANGED <<buyer, done, attempts, failures, timeouts>>

\* Mutation of ClaimTarget: its answer is not awaited.
ClaimTargetUnawaited(c) == At(c, "claimTarget") /\ Claim(c, {Wallet}, "ticket", "findAgain")

\* The wallet provides the collateral.
ClaimTarget(c) == At(c, "claimTarget") /\ Claim(c, {Wallet}, "ticket", "awaitTarget")

\* The pair is read again: a source HTLC that is gone counts as claimed already.
FindAgain(c) ==
    LET open == Here("source", "htlc", call[c].b) IN
    /\ At(c, "findAgain")
    /\ \/ \E o \in open : call' = [call EXCEPT ![c].pc = "claimSource", ![c].found = o]
       \/ open = {} /\ Goes(c, "return")
    /\ UNCHANGED <<headVars, buyer, done, attempts, failures, timeouts>>

ClaimSource(c) == At(c, "claimSource") /\ Claim(c, {}, "paid", "awaitSource")

\* The executor records the result.
Return(c) ==
    /\ At(c, "return")
    /\ done' = [done EXCEPT ![call[c].b] = TRUE]
    /\ call' = [call EXCEPT ![c] = Quiet]
    /\ UNCHANGED <<headVars, buyer, attempts, failures, timeouts>>

\* An error ends the call and takes an attempt; a deferral takes none.
Ends(c) ==
    /\ call' = [call EXCEPT ![c] = Quiet]
    /\ attempts' = [attempts EXCEPT ![call[c].b] = @ + 1]

\* A call ends where nothing that it sent is undecided: an error or a crash.
Fail(c) ==
    /\ call[c].pc \notin {"idle"} \cup Waiting
    /\ failures < MaxFailures
    /\ failures' = failures + 1
    /\ Ends(c)
    /\ UNCHANGED <<headVars, buyer, done, timeouts>>

\* sendTx gives up after txAwaitTimeoutMs, or the worker dies; its transaction stays.
GiveUp(c) ==
    /\ call[c].pc \in Waiting
    /\ timeouts < MaxTimeouts
    /\ timeouts' = timeouts + 1
    /\ Ends(c)
    /\ UNCHANGED <<headVars, buyer, done, failures>>

-----------------------------------------------------------------------------
(* Answers: sendTx takes the first TxValid it hears for its own, and any   *)
(* TxInvalid for its own too.                                              *)

AwaitedHead(pc) == IF pc = "awaitSource" THEN "source" ELSE "headB"

AfterValid(pc) ==
    CASE pc = "awaitLock" -> "findSource"
      [] pc = "awaitTarget" -> "findAgain"
      [] pc = "awaitSource" -> "return"

\* Mutation of Hear: a refusal is not heard.
HearOnlyValid(k, head, valid) ==
    IF k.pc \in Waiting /\ AwaitedHead(k.pc) = head /\ valid
    THEN [k EXCEPT !.pc = AfterValid(k.pc)]
    ELSE k

Hear(k, head, valid) ==
    IF k.pc \in Waiting /\ AwaitedHead(k.pc) = head
    THEN IF valid THEN [k EXCEPT !.pc = AfterValid(k.pc)] ELSE Quiet
    ELSE k

Refused(k, head, valid) == k.pc \in Waiting /\ AwaitedHead(k.pc) = head /\ ~valid

Answer(t) ==
    /\ Decide(t)
    /\ call' = [c \in Calls |-> Hear(call[c], t.head, Valid(t))]
    /\ attempts' = [b \in Purchases |->
                       IF \E c \in Calls : call[c].b = b /\ Refused(call[c], t.head, Valid(t))
                       THEN attempts[b] + 1 ELSE attempts[b]]
    /\ buyer' = [b \in Purchases |->
                    IF buyer[b].pc = "waiting" /\ t.head = "source"
                    THEN [buyer[b] EXCEPT !.pc = IF Valid(t) THEN "recorded" ELSE "refused"]
                    ELSE buyer[b]]
    /\ UNCHANGED <<done, failures, timeouts>>

CallStep(c) ==
    \/ \E b \in Purchases : Start(c, b)
    \/ Ensure(c) \/ SendLock(c) \/ FindSource(c) \/ FindLock(c) \/ ClaimTarget(c)
    \/ FindAgain(c) \/ ClaimSource(c) \/ Return(c)

Next ==
    \/ \E b \in Purchases : Prepare(b) \/ SubmitSource(b) \/ Abandon(b) \/ Refund(b)
    \/ \E c \in Calls : CallStep(c) \/ Fail(c) \/ GiveUp(c)
    \/ \E t \in pool : Answer(t)
    \/ (Tick \/ \E h \in Heads : Confirm(h)) /\ UNCHANGED saleVars

Spec == Init /\ [][Next]_vars

\* The queue calls the service again until it succeeds, and the heads decide what they
\* were sent.
FairSpec ==
    /\ Spec
    /\ \A c \in Calls : WF_vars(CallStep(c))
    /\ WF_vars(\E t \in pool : Answer(t))
    /\ \A h \in Heads : WF_vars(Confirm(h) /\ UNCHANGED saleVars)

-----------------------------------------------------------------------------
(* Properties *)

CallPcs == {"idle", "ensure", "lock", "findSource", "findLock", "claimTarget",
            "findAgain", "claimSource", "return"} \cup Waiting

\* The type invariant: a call that is going to claim has found the output it claims.
TypeOK ==
    /\ utxo \subseteq Output /\ snapshot \subseteq Output
    /\ \A t \in pool : t.id \in 1..sent /\ t.spends \cup t.reads \cup t.makes \subseteq Output
    /\ sent \in 0..MaxTxs /\ now \in 0..MaxNow /\ failures \in 0..MaxFailures /\ timeouts \in 0..MaxTimeouts
    /\ buyer \in [Purchases -> [pc: {"new", "prepared", "waiting", "recorded", "refused"},
                                until: Nat, refunding: BOOLEAN]]
    /\ call \in [Calls -> [pc: CallPcs, b: Purchases \cup {None}, ref: Nat, found: Output]]
    /\ done \in [Purchases -> BOOLEAN] /\ attempts \in [Purchases -> Nat]

Has(head, kind, b) == \E o \in utxo : o.head = head /\ o.kind = kind /\ o.for = b

\* What a purchase comes to, read off the heads.
Payment(b) ==
    CASE Has("source", "paid", b) -> "paid"
      [] Has("source", "refund", b) -> "returned"
      [] Has("source", "htlc", b) -> "locked"
      [] OTHER -> "none"

Sale == INSTANCE AtomicSale WITH
    payment <- [b \in Purchases |-> Payment(b)],
    ticket <- [b \in Purchases |-> Has("headB", "ticket", b)]

\* Buying a ticket implements the abstract sale as long as every answer is awaited:
\* through failed calls, stale snapshots, claims that come too late and the buyer's refund,
\* the payment is only taken after a ticket was delivered, and taken or returned once.
RefinesSale == Sale!Spec

\* Ida gives no ticket away: a buyer with a ticket has locked a payment, even when the
\* workflow has recorded a submission that the head then refused.
NoFreeTicket ==
    \A b \in Purchases : Has("headB", "ticket", b) => Payment(b) # "none"

\* What the lower timeout of the target is for: when headB would now accept the claim of
\* a ticket, Ida has the payment or could claim it now too.  However long a call takes,
\* only a lock that runs out after the buyer's HTLC breaks this.
PaymentOutlastsClaim ==
    \A t \in pool : \A o \in t.makes :
        o.kind = "ticket" /\ Valid(t) =>
            \E p \in utxo : /\ p.head = "source" /\ p.for = o.for
                           /\ \/ p.kind = "paid"
                              \/ p.kind = "htlc" /\ now <= p.until - ClaimOffset

\* A purchase whose payment is locked and recorded is finished, or runs out of the time
\* in which it can be claimed, its attempts, or the bound on transactions.
Settles ==
    \A b \in Purchases :
        buyer[b].pc = "recorded" ~>
            (done[b] \/ now + ClaimOffset > buyer[b].until \/ attempts[b] >= MaxAttempts \/ sent = MaxTxs)
=============================================================================
