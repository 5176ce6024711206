---------------------------- MODULE LotteryRound ----------------------------
(***************************************************************************)
(* A round of the lottery as final-demo runs it: there is an active        *)
(* lottery on headB, tickets of it are sold, and workflows of type         *)
(* pay_random_winner draw a winner on headB and relay the prize to the     *)
(* winner's head.  The scripts of LotteryLedger may run at any time.       *)
(*                                                                         *)
(* The execution of a workflow is split at its awaits.  It may end at any  *)
(* of them; the queue then executes the workflow again.                    *)
(***************************************************************************)
EXTENDS LotteryLedger

CONSTANTS
    Draws,          \* workflows of type pay_random_winner
    Timeout,        \* minutes from a purchase to the timeout in its nested datum
    ClaimOffset,    \* CLAIM_VALIDITY_OFFSET_MS
    MaxAttempts,    \* maxAttempts of a workflow
    Leftovers,      \* buyers with a second, open lock on headB from a repeated sale
    WalkIns,        \* buyers with a ticket that buy_ticket.ts made before
    MaxFailures,    \* bound: executions that end between awaits, kills and lost answers
    MaxTimeouts,    \* bound: executions that end in an await
    MaxScripts      \* bound: scripts that are run by hand

ASSUME RoundAssumption ==
    /\ Timeout \in Nat /\ ClaimOffset \in Nat
    /\ MaxAttempts \in Nat /\ MaxFailures \in Nat /\ MaxTimeouts \in Nat /\ MaxScripts \in Nat
    /\ Leftovers \subseteq Buyers /\ WalkIns \subseteq Buyers /\ IsFiniteSet(Draws)

VARIABLES
    draw,       \* the workflows' rows and executions
    sold,       \* the buyers who bought a ticket from Ida
    failures,
    timeouts,
    scripts,
    broken,     \* history: executions that ended after their claim on the winner's head
    misled      \* history: an execution took the answer to another transaction for its own

history == <<failures, timeouts, scripts, broken, misled>>
roundVars == <<draw, sold, history>>
vars == <<headVars, roundVars>>

\* The lottery that is registered as active.
Active == 0

\* A workflow may be there from the start: the route that creates it is in Console.
Idle == [row |-> "pending", pc |-> "idle", attempts |-> 0, draft |-> None, own |-> 0, found |-> Coin, source |-> Coin]

Init ==
    /\ \E closes \in CloseTimes :
          HeadInit({Coin, Lottery(Active, closes)} \cup {Ticket(Active, b, FALSE, 0) : b \in WalkIns})
    /\ draw = [d \in Draws |-> Idle]
    /\ sold = {}
    /\ failures = 0 /\ timeouts = 0 /\ scripts = 0 /\ misled = FALSE
    /\ broken = [b \in Buyers |-> 0]

-----------------------------------------------------------------------------
(* Tickets *)

TargetHead(b) == IF b = Charlie THEN "headC" ELSE "headA"

\* What buyTicket comes to: a ticket of the active lottery, with the datum of an HTLC for
\* Ida, and for a repeated sale a lock with the same hash.
Sell(b) ==
    LET ticket == Ticket(Active, b, TRUE, now + Timeout) IN
    /\ Active \in {l.lot : l \in Lotteries}
    /\ b \notin sold /\ sold' = sold \cup {b}
    /\ utxo' = utxo \cup {ticket} \cup
                  {[ticket EXCEPT !.kind = "lock", !.tx = 0] : x \in Leftovers \cap {b}}
    /\ UNCHANGED <<snapshot, pool, sent, now, draw, history>>

-----------------------------------------------------------------------------
(* An execution of a draw *)

Goes(d, pc) == draw' = [draw EXCEPT ![d].pc = pc]
Awaits(d, pc) == draw' = [draw EXCEPT ![d].pc = pc, ![d].own = sent + 1]
Stays == UNCHANGED <<sold, history>>

\* The execution ends in an error: the workflow failed, and may be tried again.
Ended(k, row) == [k EXCEPT !.row = row, !.pc = "idle", !.own = 0, !.found = Coin, !.source = Coin]
Failed(k) == [Ended(k, "failed") EXCEPT !.attempts = @ + 1]
Fails(d) == draw' = [draw EXCEPT ![d] = Failed(@)]

\* The worker executes one workflow at a time; submit is skipped when it has succeeded.
Start(d) ==
    /\ \A e \in Draws : draw[e].pc = "idle"
    /\ draw[d].row \in {"pending", "failed"} /\ draw[d].attempts < MaxAttempts
    /\ draw' = [draw EXCEPT ![d].row = "running",
                            ![d].pc = IF draw[d].draft = None THEN "submit" ELSE "payout"]
    /\ Stays /\ UNCHANGED headVars

\* Mutation of SubmitPay: its answer is not awaited.
SubmitPayUnawaited(d) ==
    /\ draw[d].pc = "submit"
    /\ \E l \in Lotteries :
          /\ l.lot = Active /\ ~l.paid /\ now >= l.closes + PayDelay
          /\ \E winner \in TicketsOf(l.lot) :
                /\ winner.nested
                /\ Pay(l, winner, Desired(winner), PayDelay)
                /\ draw' = [draw EXCEPT ![d].pc = "store", ![d].found = winner]
    /\ Stays

\* The lottery that was read is not paid, the close is long enough ago, and the winner that
\* was picked has a nested datum.
SubmitPay(d) ==
    /\ draw[d].pc = "submit"
    /\ \E l \in Lotteries :
          /\ l.lot = Active
          /\ ~l.paid /\ now >= l.closes + PayDelay
          /\ \E winner \in TicketsOf(l.lot) :
                /\ winner.nested
                /\ Pay(l, winner, Desired(winner), PayDelay)
                /\ draw' = [draw EXCEPT ![d].pc = "awaitPay", ![d].own = sent + 1, ![d].found = winner]
    /\ Stays

\* No lottery, no ticket, a lottery that is paid or not over, a ticket without a datum.
SubmitRefuses(d) ==
    /\ draw[d].pc = "submit"
    /\ \/ \A l \in Lotteries : l.lot = Active => l.paid \/ now < l.closes + PayDelay
       \/ TicketsOf(Active) = {} \/ \E winner \in TicketsOf(Active) : ~winner.nested
    /\ Fails(d) /\ Stays /\ UNCHANGED headVars

\* setWorkflowDraftResultLocked.  The confirm step of the same execution looks for the draft
\* in the copy of the row that was read before, and fails.
StoreDraft(d) ==
    /\ draw[d].pc = "store"
    /\ draw' = [draw EXCEPT ![d] = [Failed(@) EXCEPT !.draft = draw[d].found.for]]
    /\ Stays /\ UNCHANGED headVars

\* The relay looks for the payout by hash and receiver, which a lock of the same purchase
\* has too.
FindPayout(d) ==
    LET open == {o \in snapshot : o.head = "headB" /\ o.kind \in {"payout", "lock"} /\ o.for = draw[d].draft} IN
    /\ draw[d].pc = "payout"
    /\ \/ \E o \in open : draw' = [draw EXCEPT ![d].pc = "target", ![d].source = o]
       \/ open = {} /\ Fails(d)
    /\ Stays /\ UNCHANGED headVars

\* The HTLCs on the winner's head are told by hash, receiver and value.
OpenRelayed(b) == {o \in snapshot : o.kind = "relayed" /\ o.for = b}

FindTarget(d) ==
    /\ draw[d].pc = "target"
    /\ \/ \E o \in OpenRelayed(draw[d].draft) : draw' = [draw EXCEPT ![d].pc = "claimTarget", ![d].found = o]
       \/ OpenRelayed(draw[d].draft) = {} /\ Goes(d, "lock")
    /\ Stays /\ UNCHANGED headVars

\* The new HTLC runs out when the payout does.
LockTarget(d) ==
    LET b == draw[d].draft IN
    /\ draw[d].pc = "lock"
    /\ Submit(TargetHead(b), "none", {}, {},
              {[draw[d].source EXCEPT !.head = TargetHead(b), !.kind = "relayed"]}, 0, Always)
    /\ Awaits(d, "awaitLock")
    /\ Stays

\* Mutation of Reread: the missing HTLC is not noticed.
RereadUnchecked(d) ==
    /\ draw[d].pc = "reread"
    /\ \/ \E o \in OpenRelayed(draw[d].draft) : draw' = [draw EXCEPT ![d].pc = "claimTarget", ![d].found = o]
       \/ OpenRelayed(draw[d].draft) = {} /\ draw' = [draw EXCEPT ![d].pc = "claimTarget", ![d].found = None]
    /\ Stays /\ UNCHANGED headVars

Reread(d) ==
    /\ draw[d].pc = "reread"
    /\ \/ \E o \in OpenRelayed(draw[d].draft) : draw' = [draw EXCEPT ![d].pc = "claimTarget", ![d].found = o]
       \/ OpenRelayed(draw[d].draft) = {} /\ Fails(d)
    /\ Stays /\ UNCHANGED headVars

\* claimIdaHtlcOnHead: the claim makes what the HTLC desires.
Claim(o) ==
    LET made == CASE o.kind = "relayed" -> "prize" [] o.kind = "payout" -> "repaid" [] o.kind = "lock" -> "ticket" IN
    Submit(o.head, "none", {o}, {}, {[o EXCEPT !.kind = made]}, 0, o.until - ClaimOffset)

\* Mutation of ClaimTarget: the source is claimed first.
ClaimSourceFirst(d) ==
    draw[d].pc = "claimTarget" /\ Claim(draw[d].source) /\ Awaits(d, "awaitTarget") /\ Stays

ClaimTarget(d) == draw[d].pc = "claimTarget" /\ Claim(draw[d].found) /\ Awaits(d, "awaitTarget") /\ Stays
ClaimSource(d) == draw[d].pc = "claimSource" /\ Claim(draw[d].source) /\ Awaits(d, "awaitSource") /\ Stays

\* Mutation of Finish: the success is not recorded.
FinishUnrecorded(d) ==
    /\ draw[d].pc = "finish"
    /\ draw' = [draw EXCEPT ![d] = Ended(@, "pending")]
    /\ Stays /\ UNCHANGED headVars

Finish(d) ==
    /\ draw[d].pc = "finish"
    /\ draw' = [draw EXCEPT ![d] = Ended(@, "succeeded")]
    /\ Stays /\ UNCHANGED headVars

\* The await each transaction is followed by, the head it is at and what comes next.
AfterAnswer == [awaitPay |-> "store", awaitLock |-> "reread", awaitTarget |-> "claimSource", awaitSource |-> "finish"]
Awaiting == DOMAIN AfterAnswer
AwaitedHead(k) == IF k.pc \in {"awaitLock", "awaitTarget"} THEN TargetHead(k.draft) ELSE "headB"

\* An execution that ends after its claim on the winner's head.
AfterClaim(k) == k.pc \in {"awaitTarget", "claimSource", "awaitSource", "finish"}
Breaks(ended) == [b \in Buyers |-> broken[b] + Cardinality({d \in ended : draw[d].draft = b /\ AfterClaim(draw[d])})]

\* An exception or a crash between two awaits.
Fail(d) ==
    /\ draw[d].pc \notin Awaiting \cup {"idle"}
    /\ failures < MaxFailures /\ failures' = failures + 1
    /\ Fails(d) /\ broken' = Breaks({d})
    /\ UNCHANGED <<headVars, sold, timeouts, scripts, misled>>

\* A timeout or a crash in an await; what was sent stays on its way.
GiveUp(d) ==
    /\ draw[d].pc \in Awaiting
    /\ timeouts < MaxTimeouts /\ timeouts' = timeouts + 1
    /\ Fails(d) /\ broken' = Breaks({d})
    /\ UNCHANGED <<headVars, sold, failures, scripts, misled>>

\* A head decides a transaction, and everyone who waits there takes the answer.
Answer(t) ==
    LET hears == {d \in Draws : draw[d].pc \in Awaiting /\ AwaitedHead(draw[d]) = t.head}
        ended == IF Accepts(t) THEN {} ELSE hears
    IN  /\ Judge(t)
        /\ draw' = [d \in Draws |->
              CASE d \in ended -> Failed(draw[d])
                [] d \in hears \ ended -> [draw[d] EXCEPT !.pc = AfterAnswer[draw[d].pc], !.own = 0]
                [] OTHER -> draw[d]]
        /\ broken' = Breaks(ended)
        /\ misled' = (misled \/ \E d \in hears \ ended : draw[d].own # t.id)
        /\ UNCHANGED <<sold, failures, timeouts, scripts>>

\* Someone runs a script.
Script ==
    /\ scripts < MaxScripts /\ scripts' = scripts + 1
    /\ ScriptStep
    /\ UNCHANGED <<draw, sold, failures, timeouts, broken, misled>>

DrawStep(d) ==
    \/ Start(d) \/ SubmitPay(d) \/ SubmitRefuses(d) \/ StoreDraft(d)
    \/ FindPayout(d) \/ FindTarget(d) \/ LockTarget(d) \/ Reread(d)
    \/ ClaimTarget(d) \/ ClaimSource(d) \/ Finish(d)

Next ==
    \/ \E b \in Buyers : Sell(b)
    \/ \E d \in Draws : DrawStep(d) \/ Fail(d) \/ GiveUp(d)
    \/ \E t \in pool : Answer(t)
    \/ Script
    \/ (Tick \/ \E h \in Heads : Confirm(h)) /\ UNCHANGED roundVars

Spec == Init /\ [][Next]_vars

-----------------------------------------------------------------------------
(* Properties *)

DrawPcs == Awaiting \cup {"idle", "submit", "store", "payout", "target", "lock", "reread",
                          "claimTarget", "claimSource", "finish"}

\* The type invariant: an execution has a draft where it relays, and sends what it found.
TypeOK ==
    /\ utxo \subseteq Output /\ snapshot \subseteq Output
    /\ \A t \in pool : t.id \in 1..sent /\ t.spends \cup t.reads \cup t.makes \subseteq Output
    /\ sent \in 0..MaxTxs /\ now \in 0..MaxNow /\ failures \in 0..MaxFailures /\ timeouts \in 0..MaxTimeouts /\ scripts \in 0..MaxScripts
    /\ sold \subseteq Buyers
    /\ draw \in [Draws -> [row: {"pending", "running", "failed", "succeeded"}, pc: DrawPcs,
                            attempts: 0..MaxAttempts, draft: Buyers \cup {None}, own: Nat,
                            found: Output, source: Output]]
    /\ \A d \in Draws :
          draw[d].pc \in {"payout", "target", "lock", "awaitLock", "reread"} \/ AfterClaim(draw[d])
              => draw[d].draft # None

\* The winners that the lottery lot has paid on headB.
Winners(lot) ==
    {o.for : o \in {x \in utxo : x.lot = lot /\ x.head = "headB" /\ x.kind \in {"payout", "repaid", "prize"}}}

\* What the buyers have on their own heads.
Relayed(b) == {o \in utxo : o.kind = "prize" /\ o.head # "headB" /\ o.for = b}

\* A lottery pays one winner, once, whatever the number of workflows, of their executions
\* and of scripts that compete for it with snapshots that lag behind.
OneWinner ==
    \A lot \in {o.lot : o \in utxo} :
        Cardinality({o \in utxo : o.lot = lot /\ o.head = "headB" /\ o.kind \in {"payout", "repaid", "prize"}}) <= 1

\* As long as no execution was misled by an answer, Ida relays a prize only to a buyer who
\* has won, even when a lock of the same purchase is open and looks like a payout.
OnlyWinnersArePaid ==
    ~misled => \A b \in Buyers : \A o \in Relayed(b) : b \in Winners(o.lot)

\* As long as no execution was misled by an answer, Ida takes the payout on headB after
\* the winner has the prize.
WinnerBeforeIda ==
    ~misled => \A o \in utxo : o.kind = "repaid" => Relayed(o.for) # {}

\* A prize is relayed once for each draw; every prize beyond that is due to an execution that
\* ended after its claim on the winner's head, and was repeated.
SurplusHasCause ==
    \A b \in Buyers :
        Cardinality(Relayed(b)) <= Cardinality({d \in Draws : draw[d].draft = b}) + broken[b]
=============================================================================
