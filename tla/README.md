# eUTxO L2 interop: specifications, model checking and proofs

This directory specifies the parts of the repository that carry its own logic:
the workflow queue of `src/src/final-demo` and the services its workers drive
over Hydra heads (the ticket sale and the draw of a winner), the lottery
contract, the pages that start all of this, the script that opens the heads, and
the payment client of `src/src/client`. The specifications are TLA+; TLC checks
them on small instances, and TLAPS proves the theorems listed below for every
value of the constants.

Paths below are relative to `src/src/final-demo/` unless they start with `src/`.

## 1. Inventory of the system

| Part | State | Operations | What is hard | What makes it correct |
|---|---|---|---|---|
| **Workflow queue** (`lib/workflows.ts`, `lib/executor.ts`, `worker.ts`, `prisma/schema.prisma`) | tables `Workflow` and `WorkflowStep`; in each worker, a batch of claimed rows and the executor's local variables | create, claim under a lease, refresh, run prepare/submit/confirm, write draft, succeed, fail with retry, defer, reconcile, retry by hand | every statement is a separate await; workers, requests and the clock interleave; workers die; copies read at claim time go stale | no two workers in a step of one workflow; no row becomes unreachable; success means the service ran; everything ends |
| **HTTP routes** (`app/api/...`) | none of their own: they read and write rows | create, attach artifacts, record a submission, retry, force, reconcile | read in one statement, write in another, by id and without the lock | they never strand a row or fake a success; a key makes one row |
| **Heads and their client** (`lib/hydra/ops-handler.ts`, `ops-provider.ts`) | external: UTxO set, confirmed snapshot, transactions on their way | `sendTx`, `getSnapshot` | `TxValid`/`TxInvalid` are broadcast; a timed-out transaction is still on its way; snapshots lag | a caller learns the fate of its own transaction |
| **Ticket service** (`lib/services/ticket-service.ts`, `lib/hydra/ops-buy-ticket.ts`, `app/api/hydra-ops/htlc/submit`) | none in memory: everything is on the heads and in the row's payload | prepare and submit the buyer's HTLC, lock on headB, detect the pair, claim target, claim source | two heads, two timeouts, calls that end anywhere and are repeated, a refund that races | payment only for a ticket, no ticket without a payment, no refund next to a ticket, one ticket for one payment |
| **Lottery contract and its scripts** (`src/src/onchain/validators/lottery.ak`, `src/src/offchain/lottery/`) | outputs on headB: the lottery, tickets | create, buy, PayWinner, Close, collect losing tickets | several scripts and workflows spend from snapshots that lag | a lottery pays one ticket, once |
| **Winner payout** (`lib/hydra/ops-pay-random-winner.ts`) | the draft of the row | `PayWinner` on headB, then a relay to the winner's head | as the sale, plus the order of two phases and a draft between them | the winner is paid once, and before Ida is repaid |
| **Pages** (`components/FinalDemoApp.tsx`, the routes it calls) | in each tab, forms and pending mutations; in local storage, intents with their idempotency keys, hash pairs, the record of a lottery to be reconciled | request funds, buy a ticket, create and reconcile a lottery, start operations | a mutation is a chain of requests, each of which may be the last; keys expire and are rotated while a chain runs | what moved is on record; a purchase makes one row; the preimage is stored before the lock |
| **Lottery registry** (`lib/lottery-instances.ts`, `scripts/hydra-create-lottery-head-b.ts`) | `LotteryInstance` rows | register, reconcile | count and insert in two statements; mint before register; the script is killed after three minutes | one active lottery a head; a minted prize is not forgotten |
| **Head opening** (`scripts/hydra-open-heads.ts`, `scripts/lib/`) | external: nodes and the first layer | init, commit, open, retry | nodes see events at different times; the script is run again; Ida is in all three heads | success means open; nobody commits nothing by mistake; heads open in the end |
| **Payment client** (`src/src/client/lib/use-payment-orchestration.ts`, routes) | React state, in the browser only | lock along a path, watch, collect for the intermediaries, claim, refund | retries of locks whose answer was lost; a payment cleared and paid again; timeouts that shrink by 5% a step | an intermediary takes no more than was delivered and locks no more than was locked for it |
| **request-funds** (`lib/services/request-funds.ts`, `lib/hydra/ops-request-funds.ts`) | none: the tab signs and posts | prepare, submit | the transfer precedes its workflow | the transfer is on record |
| **HTLC, vesting** (`src/src/onchain/validators/htlc.ak`, `vesting.ak`) | datums on outputs | claim, refund | validity ranges instead of clocks | claim and refund exclude each other |
| **Ad-hoc ledger** (`src/src/onchain/validators/adhoc_ledger_v*.ak`, `src/src/onchain/tests/`) | wrapped outputs on two heads and the first layer | wrap, verify, dispute, merge, unwrap, perform, revert, punish | several parties sign | see section 5 |

A page posts to a route and the route creates a row. A worker claims it, calls
the service, and the service sends transactions to heads through `sendTx` and
reads their snapshots. A precondition that is not there yet (artifacts missing,
an HTLC not visible) becomes a *deferral* of the row, another error a *failed
attempt*. The only channel back from a head is the websocket broadcast, and the
only memory of a sale between two calls is what the heads and the row hold. The
payment client is a program of its own: it has no queue, its page is the
orchestrator, and its memory is gone with the tab.

`PROJECT.json` lists all components with their status and the hazards, each at
the line where it bites, with the properties that would catch it.

## 2. Modules

```
JobBoard   <-- refined by --  WorkflowQueue  <-- MCWorkflowQueue
                                   ^------------ WorkflowQueueProofs <-- QueueBoardProofs
AtomicSale <-- refined by --  TicketSale     <-- MCTicketSale
                   | EXTENDS       ^------------ TicketSaleProofs
               HydraHead
                   ^ EXTENDS
                   |-- LotteryLedger <-- LotteryRound <-- MCLotteryRound
                   |         |               ^----------- LotteryRoundProofs <-- PrizeCountProofs
                   |         ^---------- AdminPage --.
                   |-- UserPage ---------------------+--> Console <-- MCConsole
                   |                                         ^------- ConsoleProofs
                   '-- PathPayment (with Topologies) <-- MCPathPayment
                             ^-------------------------- PathPaymentProofs

HeadOpening <-- MCHeadOpening
    ^---------- HeadOpeningProofs
```

`A <-- B` reads "B extends or instantiates A" except where *refined by* is
written; `Console` extends both pages.

### WorkflowQueue

One action is one database statement or transaction, or one call of a service.
What the code may interleave at an await, the model may interleave between two
actions.

| Variable | Code |
|---|---|
| `row[f]` | a row of `Workflow` and its three `WorkflowStep` rows: status, `attemptCount`, `lockedBy`, what is left of `lockExpiresAt` and `nextRetryAt`, `resultJson`, the step statuses, and of the payload whether it holds the artifacts and the reconciler's count |
| `worker[w]` | a process: program counter, candidates (`ids`), claimed rows not yet executed (`mine`), the copies it read (`snap`), the workflow and step it is in, the local `result`, the retryability of a caught error, and the age of its current work |
| `request[q]` | an HTTP request between its read and its write |
| `ran[f]` | history: submit's service returned successfully |
| `crashes` | the number of crashes, bounded |

* A tick of the worker is `ReconcileScan`/`ReconcileOne` (every few ticks),
  `ClaimScan`, `ClaimOne` for each candidate, `LoadClaimed`, then `PickNext`
  for each row of the batch, and `EndBatch`. `ClaimOne` repeats the condition
  of the scan, as the `where` of `updateMany` does.
* A step is `RefreshBefore`, `MarkStepRunning`, `RunPrepare`/`RunSubmit`/
  `RunConfirm` (or `RunDeferred`, `RunFailed`), `WriteDraft` where the code
  stores a draft, `RefreshAfter`, `MarkStepSucceeded`. Each *locked* write looks
  for the owner again (`Holds`); step rows are written without looking.
* Time is count-down timers decremented together by `Tick`. `Tick` waits while a
  worker has been as long in its current work as it may be: `StepTicks` in a
  step, `ClaimTicks` between a claim and the first refresh of the lock. With
  `StepTicks < LeaseTicks` a step ends before its lease; with a larger value it
  need not, which is what head operations do (their timeout is twelve minutes,
  the lease five).
* Requests read a row (`Arrive`) and write it later (`Answer`), by id.

Abstractions: retry delays are any of `1..BackoffTicks`; a claim compares with
the current timers, not with the `now` captured by the scan, which allows more
claims than the code does; the `findFirst` and the `updateMany` of
`markWorkflowFailedLocked` and `markWorkflowDeferredLocked` are one action, since
the second repeats the check of the lock and nobody else writes the columns they
carry over while the lock is held (requests excepted, which also take the lock
away). An exception of the database is the same as a failed run, or as a crash
followed by a restart. The payload's validation is left out: the routes do it
before they insert. `maxAttempts` is one constant instead of a column.

### JobBoard

What a client sees of the queue, without workers, locks and time: a job is
posted, performed any number of times, and completed only after it has been
performed, or given up. `FinalSpec` says that ended jobs stay ended; `Spec`
allows the re-opening that the reconciler and an administrator ask for.

### HydraHead

A set of heads that share one clock. `Send` puts a transaction on its way,
`Decide` applies the ledger's rule at some later moment (inputs and collateral
unspent, time within the validity range), `Confirm` publishes a snapshot of one
head. The head's consensus is external; what the code relies on is its
interface. Outputs carry the id of the transaction that made them, so an output
is never made twice.

### TicketSale

| Variable | Code |
|---|---|
| `buyer[b]` | the buyer's draft and submission; `recorded` when the route stored the artifacts in the workflow's payload |
| `call[c]` | one running `buyTicket`: where it is, for which purchase, the `utxoRef` of its lock and the output it is about to claim |
| `done[b]`, `attempts[b]` | the row's result and attempt count |
| `failures`, `timeouts` | bounds on calls that end early |

Each read of a snapshot (`Ensure`, `FindSource`, `FindLock`, `FindAgain`) and
each `sendTx` (`SendLock`, `ClaimTarget`, `ClaimSource`) is an action. After a
`sendTx` the call waits; `Answer` decides any transaction of the pool and
delivers the broadcast to every call that waits at the same head, because
`sendTx` resolves on the first `TxValid` and rejects on any `TxInvalid` it
hears. `Fail` ends a call between awaits (an exception or a crash), `GiveUp`
ends it in an await while its transaction stays on its way. The queue is
abstracted to what it does for the service: it starts a call of a recorded
purchase again until it is done or has used up `MaxAttempts`; `WorkflowQueue`
models how. Several calls may be active because a worker that lost its lease
keeps running its step.

Abstractions: a purchase is told from another by its hash, so outputs carry the
purchase; Ida's wallet on headB is one coin, which also serves as collateral,
so concurrent transactions of hers contend for it as they do in the code (the
provider selects inputs from the snapshot by a fixed rule); the source head's
collateral is not modelled; reading the wallet and sending is one action, the
lag of the snapshot giving the same stale inputs; a buyer asks for the refund
once; `FindAgain` takes a source HTLC that was refunded for one that was claimed,
as the code does when the pair is no longer found.

### AtomicSale

What the sale promises to the buyer: a payment is locked, then taken or
returned, once, and taken only after a ticket was delivered. `TicketSale` maps
to it by reading payment and ticket off the UTxO sets of the heads.

### LotteryLedger

The rules of `lottery.ak` (`Mint`, `PayWinner`, `Close`, and a ticket's `Win` and
`Lose`) as predicates of a transaction and the outputs it spends, and the five
scripts of `src/src/offchain/lottery` as one action each: a script reads one
snapshot, sends one transaction and keeps nothing. `Accepts` is what a head
decides with: the ledger's own rule of `HydraHead` and these. Token names are
the id of the seed's transaction, since an output is spent once; a ticket's
desired output is `nested` when it has the datum of an HTLC, which
`pay_winner.ts` drops and `payRandomWinner` demands. A ticket's value is not kept: the tools take
it from the lottery's ticket cost, so the check of it in `PayWinner` is left out.

### LotteryRound

| Variable | Code |
|---|---|
| `draw[d]` | a workflow of type `pay_random_winner`: its row (status, attempts, the winner's draft) and its execution, with the transaction it waits for and the HTLCs it has found |
| `sold` | buyers whose ticket was bought by `buyTicket`, which `TicketSale` models |
| `broken`, `misled` | history: executions that ended after their claim on the winner's head, and whether one took another transaction's answer for its own |

`SubmitPay` picks any ticket with a nested datum of the snapshot, `StoreDraft`
writes the draft, and the same execution then fails its confirm, because it
looks for the draft in the copy of the row that it was started with. The next
one relays: `FindPayout`, `FindTarget`, `LockTarget`, `Reread`, `ClaimTarget`,
`ClaimSource`. `Answer`, `Fail` and `GiveUp` are as in `TicketSale`. `Script` is any
script of `LotteryLedger`. `Leftovers` are buyers with a second, open lock of the
same hash on headB, which a repeated sale leaves there; `WalkIns` are buyers who have a ticket
of `buy_ticket.ts` from before. One workflow executes at
a time, as in a queue with one worker.

### UserPage, AdminPage, Console

`Console` is `FinalDemoApp`: its view is one of the two pages. A mutation of a
page is a chain of awaited requests, and each request is an action; `run[c]` is
the chain that was started by click `c`, and stays when its tab is reloaded as far
as the server has begun to answer.

| Variable | Code |
|---|---|
| `tab`, `run` | a tab's form, hash, watched workflow and wallet; the chains of `requestFundsMutation` and `buyTicketMutation` |
| `intents`, `pairs`, `keys` | local storage, shared by tabs: for an amount or hash the idempotency key and the workflow bound to it; the last HTLC pairs |
| `flows` | the rows that the routes have created by key |
| `headRow`, `up` | a head's status in the database, and whether it is open: the heartbeat and each action copy the one to the other |
| `desk` | an administrator's browser: the record of a lottery to be reconciled, the result shown, what is pending |
| `maker`, `asks`, `registry` | runs of `hydra-create-lottery-head-b.ts`; registrations between count and insert; the active rows |
| `order`, `jobs` | requests of `pay-random-winner` and `heads/open` between their look and their create; the workflows |

Abstractions: an intent may expire whenever it is there (a bounded number of
times); the worker is what it comes to for a row of the page (`Work`), in one action, so
that no request finds a row running; time does not pass, so a mint never leaves its window; one operation is ordered in the
run, since all of them share the pattern of the route. No code ends a row of the
registry, so none ends here.

### Topologies, PathPayment

`Topologies` states the paths of `lib/topologies.ts` of the client as data.

| Variable | Code |
|---|---|
| `loop[p]` | `executePayment` of the `p`-th submission: step, retry, the transaction it posted, the HTLCs to collect |
| `shown` | `paymentState` and `currentStepsRef`, which all loops share: `handleReset` clears it and so opens the guard to the next payment |
| `pairs` | the preimages the page holds for the hashes it generated |
| `locked`, `claimed`, `doubts` | HTLCs that were ever in a head, and as history those claimed, and transactions posted by a lock that was then reported as failed |

A loop posts the lock of a step (`lock`, `sent`, `await`), retries when its
answer is an error or does not come, covers the next step for Ida or Jon,
watches the last HTLC, and collects when it is gone. Claims and refunds of the
people at the page are `UserClaim` and `UserRefund`. Minutes are integers and the
lifetimes are computed with the page's rounding; the clock jumps between the
instants that matter. Abstractions: a lock spends a wallet's output of the
payment's amount, without change, and `locked` stands for the change in which `awaitTx` finds a
transaction whose HTLC is spent already (`Found`); a poll may end at any time instead of after
its limit of rounds; one topology is selected throughout.

### HeadOpening

| Variable | Code |
|---|---|
| `coins`, `chain` | the first layer: the outputs of each participant, and of each head its status, who has committed and who committed nothing |
| `seen[h][n]` | the status that the hydra-node of `n` reports, which follows the chain with a lag |
| `run[op]` | the run of `hydra-open-heads.ts` for an operation: where it is, the head and participant it is at, tries and retries, and the outputs it picked before it began |

A run posts Init when its node is idle and waits (`AskInit`, `Initialised`,
`InitTimeout`), checks the participants' nodes, commits for each of them
(`Commit`, `CommitRefused`, `NoFuelUTXOFound`, `CommitAnswerLost`,
`NothingToCommit`) and waits for the coordinator to report the head open
(`Opened`, `NotOpened`). `open_heads_ab` does this for A and then B, with outputs
picked before either; heads of other operations compete for Ida's. A commit's
error is passed over when the head is initialised, as the code does, and a run
is tried twice. Abstractions: fees are not taken off, but the fuel's output gets a
new version, so that a pick of it goes stale; a submission to the first layer is
decided at once; there are no rollbacks and heads do not close; every wait may
end by its event or by its timeout; refreshing `l1-utxos.json` and reading it is
one action.

## 3. What is checked

| Run | Instance | Shows |
|---|---|---|
| `queue_exclusive` | two workers, one `buy_ticket`, two attempts, one crash, lease 2, steps 1 | `Exclusive`: no two workers in a step of one workflow; `TimelineAgrees`: a succeeded row has three succeeded steps although step rows are written without the lock |
| `queue_long_steps` | two workers, a head operation, steps as long as the lease | `RefinesFinalBoard`: a worker that lost its row cannot undo how it ended, nor succeed without the service |
| `queue_requests` | one worker and its reconciler, two requests of all five kinds | `NoStrandedRow`: every row can be claimed now or when a timer runs out, or has ended; `RefinesJobBoard` |
| `queue_liveness` | a `request_funds` and a `pay_random_winner`, one crash, limit 1 | `EventuallyEnds` |
| `sale_atomic` | one purchase, calls that fail twice, stale snapshots, refund | `RefinesSale` |
| `sale_settles` | one purchase, no failure, a clock that outlasts the claim window | `Settles`: a recorded purchase is finished, or out of time, attempts or transactions |
| `sale_late_answers` | two purchases, two awaits that end early | `NoFreeTicket`: a buyer whose recorded submission the head refused gets no ticket |
| `sale_timelock` | one purchase, the clock runs | *violated* `PaymentOutlastsClaim`: when headB accepts the claim of a ticket, the payment can be claimed too |
| `round_winner` | two buyers, one draw of three executions with one error and one abandoned await, one script of any kind, a ticket from before of `buy_ticket.ts`, a leftover lock | `OneWinner`; `OnlyWinnersArePaid`, `WinnerBeforeIda` while no answer was taken for another's; `SurplusHasCause`: each further prize has an execution that broke off after its claim |
| `console` | one tab with two mutations; two desks with two creations and two draws; one reload, expiry or switch for the tab, two faults for the desks | `UnrecordedHasCause`, `PreimageFirst`, `OneRowPerPurchase`; `OneActiveLottery`, `OrphanHasCause`, `RegisteredExists`, `RecordsAreOpen`, `OneJobPerOperation` |
| `path_payment` | Alice to Bob through Ida over two heads, two payments of one hash, one lost answer, reset or reload | `CollectedAfterPaid`, `RelayCovered`, `CompletedIsLocked`, `CoverOutlives` |
| `head_opening` | A and B in one operation; A or B beside Ida's commit to C; C by both; three sets of holdings; two Inits, one trouble | `SuccessIsOpen`, `NoEmptyCommit`, `InitOpens` |

Several properties of `console` and `round_winner` are of the form "this never
happens, except once for each event of a given kind". The kinds (a reload in
the middle of a chain, two counts before either insert, an answer taken for
another's) are exactly the windows the code leaves, and a history variable
counts them; the property says that there are no others.

**Bounds.** Two workers are enough for one to lose a row to another; a third
adds no new kind of conflict, since a row has one owner. One workflow is
enough where the property is about a row, because workflows share only the
batch; two are used where the batch or the order matters. Two attempts give a
failure that is retried and one that ends the row. A lease of two ticks leaves
room for a step that is shorter, equal or longer. The sale needs three
transactions of a call, one of the buyer and one refund; six or seven let calls
be repeated. `Timeout = 3` and `ClaimOffset = 1` leave claims that come in time
and claims that come too late. `MaxTxs` and `MaxNow` stop the sale, so its runs
do not check for deadlock; the queue's runs do. `sale_late_answers` and `console`
fix the clock at 0, because their properties do not depend on it and the interleavings of
two purchases, mutations or desks do the work.

A draw needs one execution to pay and one to relay, so three attempts let one of
them break off; seven transactions are `PayWinner`, the three of the relay, and
three more for a repeated relay or a script. `pay_winner.ts` is refused for the tickets that Ida sells,
since it pays without the datum they ask for; `WalkIns` has one buyer with a ticket of
`buy_ticket.ts`, so that the script of `round_winner` and the draw, or a repeated execution of
it, may both have a `PayWinner` of the lottery on its way. Two draws that compete are only in
the theorem `PaidOnce`. `queue_requests` has no crash, since two requests and a crash are more
than TLC can finish: crashes are in `queue_exclusive` and `queue_liveness`,
and together with requests in the theorems `NeverStranded` and `ImplementsBoard`. In `console` a
second mutation, creation or order is what meets the first in a window;
`Retries = 1` stands for the five of the code, and gives both a retried
registration and one that is given up. In `path_payment` two payments of one
hash are the least that can be confused with each other, the five transactions
are two locks each and a claim or a retry, the
instants 0, 3 and 26 minutes are before and after a base timeout of 24 minutes
and within the margin of 20 minutes in which a claim is no longer valid;
`MAX_RETRIES = 1` stands for 3. In `head_opening` a second Init, a retry of a
commit (`COMMIT_RETRIES = 1` for 3) and one trouble let each of a run's
two tries end in each of its ways.

**Fairness.** `FairQueueSpec` assumes weak fairness of a live worker's next
step (it runs on a timer and awaits in sequence), of the restart of a dead one
(the supervisor of the compose file) and of time. Nothing is assumed of the
services: they may fail each time, which consumes attempts. `FairSpec` of the
sale assumes that the queue calls the service again, that heads decide what
they were sent and that snapshots are confirmed. `Settles` is checked without
failures and timeouts: after a crash that follows the source claim the service
takes the missing source HTLC for one not visible yet and the workflow is
deferred again and again, which no statement of the repository excludes.
`Spec` of `HeadOpening` assumes that nodes follow the chain and that a run which is
enabled goes on, a new run of the same operation included. The second part is an
assumption on whoever runs the script, an administrator or the queue's
retries, and it is what `InitOpens` is about: that a repeated run is never
stuck on what earlier ones left.

**A disagreement between the code and its documentation** that a run shows:
`sale_timelock`: Ida's lock on headB is given its timeout later than the
buyer's HTLC and so runs out after it; `src/book/ms1/README.md:46-48` asks for a
lower timeout on the target, so that whoever claims there leaves Ida the time to claim her
share. `PaymentOutlastsClaim` states this of each claim of a ticket that headB would accept
in the present state, so it says nothing of how long a call takes: if `SendLock`
copied the timeout of the buyer's HTLC, the same instance would have no counterexample.
In the trace the lock is made minutes after the buyer's draft. The claim of the ticket is
sent while the lock can be claimed, and by then the last minute for the buyer's HTLC is over.

**Further behaviour that the models contain** and a reader of the code should
know; each was met while modelling and is visible in the actions named:

* *Queue.* The claim looks at `nextRetryAt` for failed rows only
  (`lib/workflows.ts:163-169`), so deferred rows are due at once, are the oldest,
  and can fill every claim (`ClaimScan`). Draft and step are two writes and the
  retry looks at the step alone, so a crash in between replays submit
  (`WriteDraft`, `lib/executor.ts:197`). `RunConfirm` of `pay_random_winner` needs the
  draft in the copy read at claim time, so the execution that has just submitted
  always fails its confirm (`lib/executor.ts:345`). `WriteRetry` is by id, so a row
  claimed after it was read as failed is taken from its worker
  (`lib/workflows.ts:277`). A head operation may run longer than its lease, in
  which case `RefreshAfter` throws the finished run away (`lib/executor.ts:475`). A
  forced retry of a row read as succeeded, racing a worker between its last
  refresh and its last write, can leave a succeeded row without a result.
* *Sale.* `sendTx` resolves on another transaction's `TxValid`
  (`lib/hydra/ops-handler.ts:48`), so a source HTLC can be claimed with no ticket
  made. Only *open* locks count as already made (`ensureHeadBIdaLock`), so a call
  repeated after the target claim locks and claims a second ticket. A call that stalls
  between its two claims until the buyer's HTLC has run out loses the payment, whichever
  lock is the longer one.
* *Draw.* `PayWinner` is valid after the close whatever the age of the
  ticket, so tickets bought late can win. A leftover lock of the same hash is
  taken for the payout by the relay (`FindPayout`), and together with a foreign
  answer a buyer who did not win is paid. A crash between `PayWinner` and its
  draft leaves a lottery that is paid and a workflow that can never relay. Tickets
  that nobody collected when `close.ts` burns the token stay locked: `Lose` needs
  the lottery as a reference input.
* *Pages.* The record of a lottery to be reconciled is cleared by a later
  creation that succeeds. A registration tried again after a lost answer is
  refused because it succeeded, and the page asks to reconcile a registered
  lottery.
* *Opening.* `open_heads_ab` of the page always fails: the executor passes no
  flag for it (`lib/executor.ts:396`) and the script throws without one. Head C
  posts Init before it looks for an output and never commits nothing, so it can
  stay initialised after a run that reports success. `NoFuelUTXOFound` counts as
  the participant's own commit although the output may have gone to another
  head. With exactly two outputs Ida passes the check before Init with a stale
  pick for head B, which then ends as an empty commit (hence `Ample`).
* *Payments.* The watch lasts two minutes and dies with the tab; afterwards nobody
  claims for Ida and Jon, and the refund route knows neither Jon nor Charlie. A
  payment that was cleared goes on in the background, so two can run although a
  comment says that concurrent ones are prevented. With a base timeout of ten
  minutes or less two lifetimes are equal, and with twenty or less nothing can be
  claimed. `cancelPayment` is called by no page; its loop would go on to collect.

## 4. What is proved

`WorkflowQueueProofs` (1022 obligations), `QueueBoardProofs` (1489),
`TicketSaleProofs` (1628), `LotteryRoundProofs` (1196), `PrizeCountProofs` (1367),
`ConsoleProofs` (8530), `PathPaymentProofs` (3356) and `HeadOpeningProofs` (1438) are
checked completely. They assume only the modules' named ASSUMEs on constants:
bounds are numbers, names of different kinds are different, at most finitely many
draws, desks and payments, some amount to ask for, finitely many outputs of each
participant, and routes that are paths. Nothing is assumed of how many buyers,
workers, clicks, payments, runs, faults or transactions there are. Every invariant
and every refinement that a passing run checks is proved.

**Queue.**

* `TypeCorrect`: `Spec => []TypeOK`, for any sets of workflows, workers, requests.
* `NeverStranded`: `Spec => []NoStrandedRow`. `Recoverable` of each row is
  inductive together with the types: every write that takes a row out of
  `running` clears owner and lease together, and each of the unlocked writes of
  requests goes through `Requeued` or leaves status and lock alone.
* `StepsExclusive`: `QueueSpec => []Exclusive` if `StepTicks < LeaseTicks`. That
  two workers are not in one step is not inductive: it depends on why the one
  in the step still owns the row. The invariant adds `LeaseInv`: a worker past
  `RefreshBefore` owns its row, and the lease that is left is at least what a
  refresh granted less the age of the work (`Secured`). Since `Tick` stops at `StepTicks`,
  the lease is positive and nobody else's `ClaimOne` finds the row due. The
  theorem is about `QueueSpec`: a reconciler or a request re-queues a row by id,
  whoever is in it.
* `ImplementsBoard`: `Spec => RefinesJobBoard`, requests and reconciler included,
  and `ImplementsFinalBoard`: `QueueSpec => RefinesFinalBoard`, whatever the lengths
  of steps and leases, so also when a worker outlives its lease. A step of the
  queue is a step of the board or a stutter: `RunSubmit` performs a job, and of the
  last writes those complete it that find the owner still there. What they need
  is that the service has run by then, and a worker knows that only from its
  copy: `BoardInv` says that a submit step which is recorded as succeeded, in the row or in a
  worker's copy of it, means that the service has run, and so does a worker that is
  past submit (`Past`).
* `TimelineComplete`: `QueueSpec => []TimelineAgrees` if `StepTicks < LeaseTicks`.
  Step rows are written without the lock, so the invariant says when a copy is
  current: as long as a worker holds the row, its copy of the steps is the row's,
  up to the step it is in. It is built on `LeaseInv`, which keeps a second worker
  out.

**Sale.**

* `TypeCorrect`: `Spec => []TypeOK`; in particular a call never claims an output
  that it has not found.
* `NoTicketForFree`: `Spec => []NoFreeTicket`, for any number of purchases, calls,
  failures and timeouts. `NoFreeTicket` alone is not inductive, since a ticket may
  be on its way. `HeadOK` says that transactions, made or on their way, are
  `Harmless`: what they spend on the source head they replace by an output of the
  same purchase, and tickets they make are for purchases that are `Funded`. Thus
  `Funded` is never lost (`DecideKeeps`), and `CallsOK` carries it from `FindSource`,
  which saw the buyer's HTLC in a snapshot, to the claim of the target,
  through whatever answers the call took for its own.
* `ImplementsSale`: `Spec => RefinesSale` if one call runs at a time and no await
  ends early (`MaxTimeouts = 0`), as in the run; any number of purchases, refunds,
  failed calls and lagging snapshots. Without these hypotheses it is false, which
  is what `sendTx` resolving on a foreign answer costs. `SaleInv` says what each
  transaction on its way does to a purchase (`Known`), that a purchase has one output on the
  source head (`OnePayment`) and is submitted once, and that there is no
  transaction on headB but the one the call waits for (`Heard`). So what is heard there is
  the call's own, a call past the claim of the target has a ticket, and each
  claim of a payment that it sends, however late it is decided, is of a purchase
  that has one. Deciding a transaction locks, returns, pays or delivers, and
  everything else stutters.

**Draw.** For any number of buyers, leftover locks, draws, attempts, errors,
abandoned awaits and scripts, and any close, timeout and clock:

* `TypeCorrect`: `Spec => []TypeOK`.
* `OnlyWinners`: `Spec => []OnlyWinnersArePaid`, and `WinnerFirst`:
  `Spec => []WinnerBeforeIda`. Neither is inductive: a prize is on its way before
  it is made, and an execution acts on what it saw several awaits ago. The
  invariant `IInv` has two parts. `Shape` holds always: outputs with the datum of an HTLC
  are about the active lottery, and a transaction never spends a prize or a
  repayment, and a payout only to make a repayment of it (`Respects`). Hence `HasWon` and
  `HasPrize`, once true of a buyer, stay true (`DecideLasts`). `Faithful` holds until
  an execution takes another transaction's answer for its own: an HTLC on the winner's head
  and a prize there, made or on their way, belong to a buyer who has won; a
  repayment, to one who has the prize; a stored draft is a winner's; and an
  execution past its claim on the winner's head has a winner with the prize. The
  step that needs it most is `Answer`: the accepted transaction has the id the
  execution waits for, so it is the one it sent, and its outputs are there now.
  The proof does not use `FindPayout`'s choice among outputs, which is why a leftover
  lock does no harm on its own.
* `PaidOnce`: `Spec => []OneWinner`, for any number of draws, retries and scripts.
  The lottery that is not paid yet and what a lottery has paid are counted together:
  `OnceInv` says that of one token there is at most one of them (`PrizedOnce`), and that each
  transaction on its way passes on what it spends (`Conserves`). `PayWinner` of an unpaid
  lottery uses it up, and a token is not minted again: it is named after its
  seed, there is one coin to seed from, and tokens that are about are older than
  it (`TokensBelowCoin`).
* `SurplusExplained`: `Spec => []SurplusHasCause`, so Ida is out of pocket once at
  most for each execution that broke off. Cardinalities of the prizes and of the payouts
  claimed are compared with a history counter, and both lag what was sent.
  `SurplusInv` therefore gives each prize a transaction of its own (`PrizesInv`) and
  counts those that are still on their way as well: for each buyer they are no more
  than the draws past their claim and the executions that broke off there (`Covered`).

**Console.** For any number of tabs, clicks, desks, faults and retries:

* `TypeCorrect`, and of the users' pages `PreimageAlwaysFirst`
  (`Spec => []PreimageFirst`), `OneRow` (`OneRowPerPurchase`) and `UnrecordedExplained`
  (`UnrecordedHasCause`). A purchase is one row because its key is, and a key
  is in local storage, which an expiry clears: `KeyUses` says that the chains that
  run with a key and the intent stored for it agree on what it is for. Each transaction
  that is on a head and not on record is either still to be posted by a chain that is
  running (`RunsInv`) or lost to a reload that was counted (`LostTxs`).
* `OneActive` (`OneActiveLottery`), `OrphansExplained` (`OrphanHasCause`),
  `RegisteredIsThere` (`RegisteredExists`), `RecordsStayOpen` (`RecordsAreOpen`) and
  `OneJob` (`OneJobPerOperation`). `OneActiveLottery` and `OneJobPerOperation` are about a
  count read in one statement and used in the next: the invariants
  (`RegistryInv`, `OrdersInv`) count the requests that have looked and not yet written
  together with the rows that are there, against the number of times two had
  looked at once. `OrphansExplained` splits lotteries without a row by who still
  knows of them: a run that goes on, a record in a browser, or nobody, which costs
  one of the counted faults.
* A view is chosen once, so the invariant is that of the view which is shown, and of
  the other one that it has not moved (`PageIdle`, `AdminIdle`).

**Payment paths.** For any topology of paths, any payments and hashes, any base
timeout and margin, and any number of retries, lost answers, resets and reloads:

* `TopologiesHavePaths`: the routes of the three topologies are paths (`IsPath`), which is
  all that is assumed of a topology: two or three steps, between users, through
  intermediaries that receive what they lock next.
* `PathTypeCorrect` (`TypeOK`), `CollectedOnlyAfterPaid` (`CollectedAfterPaid`),
  `RelaysAreCovered` (`RelayCovered`), `CompletedAreLocked` (`CompletedIsLocked`) and
  `CoversOutlive` (`CoverOutlives`).

The invariants compare how many HTLCs were locked or claimed by whom. None of
these is inductive, since HTLCs do not say what they are for: two payments may have
the same hash, path and amounts, and a loop may take the answer to another's
transaction for its own. So the counts go by way of the loops. `HeadsInv` and
`LockedInv` say what becomes of an HTLC: a transaction spends one that was in a head,
it ends by a claim of its receiver or a refund after its timeout, and nobody asks
for a refund for Ida or Jon. `LoopsInv` says whose transaction is whose: no two loops
have the same one, and whatever was made by it is for the step that the loop is
at. On these, three counts are inductive:

* `CompletedInv`: of each step there are as many locks at rest, which no loop still
  waits for, as loops that are past it. A loop that takes a wrong answer does not get
  past the step, because it then looks for its own HTLC in the snapshot.
* `RelaysInv`: the locks of an intermediary, made or on their way, are no more than the
  loops at or past its step, plus `doubts`. A lost answer moves one from the loop to
  `doubts`. With `CompletedInv` for the steps that pay the intermediary this gives
  `RelayCovered`.
* `ClaimsInv`: the claims for an intermediary, made or on their way, are no more than
  the loops that have collected for it, each of which has seen a last HTLC of
  its own claimed (`LoopPaid`). The page takes an HTLC that cannot be seen for a
  claimed one; it is right because it has seen its own in a snapshot before,
  because the last lock is an intermediary's, and because nobody asks for a refund of that.

`CoverOutlives` needs only the lifetimes: they fall along a path (`Lifetimes`, for
every base timeout, rounding included), and an HTLC knows which step it may be of.

**Head opening.**

* `SuccessOpens`: `Spec => []SuccessIsOpen`, for any holdings, operations,
  retries, Inits and troubles. A run knows of the first layer only what a node
  tells it, and a run that has reached its second head has let the first one go.
  The invariant therefore adds `NodesBehind` (a node that knows of an open head
  is right) and `RunsOK` (the heads that a run has left behind are open, and when
  it is done, all of them). `ChainOK` types what they speak of, and
  `OpenStays` says that no step closes a head. Only `Opened` and
  `AlreadyOpen` move a run on, and both look at a node; that errors of commits are
  passed over does not matter for that reason.
* `TypeCorrect`: `Spec => []TypeOK`. Every step of the script makes a `Turn` of its run:
  it keeps the picks of the run, picks anew, or ends it.
* `NobodyCommitsNothing`: `Spec => []NoEmptyCommit`. Picks are older than the
  commits of other runs, so the invariant relates them to what is still there.
  Paying a fee changes an output but not its size, so what a participant has lost
  are sizes, and Ida has lost no more of them than she is committed to heads
  (`IdaInv`). As long as a head is left to her, she has two (`IdaRich`), and what
  a run picks for her is an output (`PickedOK`). The others are in one head each: until
  they commit there, a pick made at any time is what it would be now (`PicksInv`), and
  since an Init of head A or B needs a pick for each of them, they had one when it was
  posted (`OthersInv`).
  That the n-th smallest output exists (`NthThere`) needs no induction: ranks are an
  injection of the outputs into as many numbers, hence onto them.

**Only model-checked:** liveness (`EventuallyEnds`, `Settles`, `InitOpens`), which is
out of the prover's reach, as are the uses of ENABLED under fairness that it rests
on.

## 5. Not modelled, and what is left

Left out on purpose: metrics, logging, validation of bodies, authorisation,
addresses and CBOR, wallets' key handling, deployment, `monitoring-sections.tsx`,
which only displays, and the book. Also:

* **Ad-hoc ledger** (`src/src/onchain/validators/adhoc_ledger_v*.ak`, the emulated
  heads and the demo server in `src/src/onchain/tests/`). The multi-party steps that
  make the contracts interesting in version 4 (`Perform`, `Revert`, `Punish`, and
  `Verify` as a step of both heads) are built by no program of the repository, so
  there is no code that decides when a participant takes them, and what the
  protocol promises rests on exactly that. The validators alone promise little:
  `Verify` and `Perform` look at signatures only, `Revert` needs none, and a
  dispute may be repeated and so set its timeout anew. The demo server has one
  user and keeps its state in memory. Reading it showed: `Merge` compares its
  first output with the owner in each input's own datum, and the demo wraps the
  two with different owners (`tests/demo/routes.ts:156`), so the demo's merge cannot
  validate, while `tests/merge.ts` can; after an unwrap the phase never enables
  Close; the busy lock is released after a minute while its action goes on, and
  the end of that action releases the lock of the next.
* **Vesting** (`vesting.ak`, the vesting scripts and route): one transaction with a
  deadline and a signature, on one head, without a counterpart.
* **`src/src/offchain/lib/hydra/handler.ts`**: scripts that send one message and wait for
  one answer; its successors are in `HydraHead` and `PathPayment`.
* **`HtlcSenderForm`** and **`ops-draft-store.ts`**, which nothing mounts or imports.
* **Rollbacks of the first layer, closing and fanning out heads**: no code of the
  final demo handles them.

What is left: a ledger of HTLC and vesting outputs as a module of its own, which
`TicketSale`, `LotteryRound` and `PathPayment` would share, and with it vesting.
