--------------------------- MODULE WorkflowQueue ---------------------------
(***************************************************************************)
(* The workflow queue of final-demo: rows of the Workflow and WorkflowStep *)
(* tables, the workers that claim rows under a lease and execute their     *)
(* three steps, and the HTTP requests that re-queue rows behind the        *)
(* workers' backs.                                                         *)
(*                                                                         *)
(* One action is one database statement (or one transaction), or one call  *)
(* of a service, so everything that can happen between two awaits of the   *)
(* code can happen between two actions.  Time is a set of count-down       *)
(* timers: a row's lease and its retry delay are the ticks left until      *)
(* lockExpiresAt and nextRetryAt, and Tick decrements all of them.         *)
(***************************************************************************)
EXTENDS Integers, FiniteSets

CONSTANTS
    Workflows,      \* keys (idempotencyKey, type) that clients use, numbered by createdAt
    Workers,        \* worker processes
    Requests,       \* HTTP requests that touch existing rows
    RequestKinds,   \* which kinds of such requests arrive
    KindOf,         \* the type of each workflow
    MaxAttempts,    \* Workflow.maxAttempts
    LeaseTicks,     \* WORKFLOW_LOCK_MS
    StepTicks,      \* the longest a step runs between two lock refreshes
    ClaimTicks,     \* the longest from the start of a claim to the first lock refresh
    BackoffTicks,   \* the longest retry delay
    BatchLimit,     \* rows one claim may take
    MaxRequeues,    \* BUY_TICKET_RECONCILE_MAX_REQUEUES
    MaxCrashes,     \* bound: process crashes in a behaviour
    NoOne           \* null in lockedBy

Kinds == {"request_funds", "buy_ticket", "admin_head_operation", "pay_random_winner"}

ASSUME QueueAssumption ==
    /\ Workflows \subseteq Nat
    /\ KindOf \in [Workflows -> Kinds]
    /\ MaxAttempts \in Nat \ {0}
    /\ LeaseTicks \in Nat \ {0}
    /\ StepTicks \in Nat
    /\ ClaimTicks \in Nat
    /\ BackoffTicks \in Nat \ {0}
    /\ BatchLimit \in Nat \ {0}
    /\ MaxRequeues \in Nat
    /\ MaxCrashes \in Nat
    /\ RequestKinds \subseteq {"retry", "force", "attach", "submit", "reconcile"}
    /\ NoOne \notin Workers

VARIABLES
    row,        \* the database: one row per workflow, its steps included
    worker,     \* the state of each worker process
    request,    \* the state of each HTTP request
    ran,        \* history: the submit service of f has returned successfully
    crashes     \* crashes so far

vars == <<row, worker, request, ran, crashes>>

Prepare == 1
Submit == 2
Confirm == 3
Finished == 4       \* no step left

Off == -1           \* null in lockExpiresAt and nextRetryAt

Status == {"absent", "pending", "running", "succeeded", "failed", "cancelled"}
StepStatus == {"pending", "running", "succeeded", "failed"}
Result == {"none", "submitted", "confirmed"}

Row == [status: Status, attempts: Nat, owner: Workers \cup {NoOne},
        lease: Int, retry: Int, result: Result,
        steps: [Prepare..Confirm -> StepStatus],
        art: BOOLEAN, requeues: Nat]

AbsentRow == [status |-> "absent", attempts |-> 0, owner |-> NoOne,
              lease |-> Off, retry |-> Off, result |-> "none",
              steps |-> [s \in Prepare..Confirm |-> "pending"],
              art |-> FALSE, requeues |-> 0]

NoRows == [f \in Workflows |-> AbsentRow]

(***************************************************************************)
(* A worker: its program counter; the ids it still has to look at (the     *)
(* candidates of a claim or of a reconciliation); the ids it has claimed   *)
(* and not yet executed; the rows as it last read them; and, while it      *)
(* executes cur, the step, the executor's local variable result, and       *)
(* whether the error it caught is retryable.  age is the ticks since the   *)
(* claim took its timestamp, since the last successful lock refresh, or    *)
(* since it left a workflow.                                               *)
(***************************************************************************)
Stepping == {"mark", "run", "draft", "ran", "stepok", "stepwait", "stepfail",
             "finish", "defer", "fail"}
Pc == {"idle", "down", "reconcile", "claim", "pick", "begin"} \cup Stepping

WorkerState == [pc: Pc, ids: SUBSET Workflows, mine: SUBSET Workflows,
                snap: [Workflows -> Row], cur: Workflows \cup {NoOne},
                step: Prepare..Finished, res: Result, retryable: BOOLEAN, age: Nat]

Idle == [pc |-> "idle", ids |-> {}, mine |-> {}, snap |-> NoRows, cur |-> NoOne,
         step |-> Prepare, res |-> "none", retryable |-> TRUE, age |-> 0]

NoRequest == [pc |-> "new", kind |-> "retry", f |-> NoOne, seen |-> AbsentRow]

Init ==
    /\ row = NoRows
    /\ worker = [w \in Workers |-> Idle]
    /\ request = [q \in Requests |-> NoRequest]
    /\ ran = [f \in Workflows |-> FALSE]
    /\ crashes = 0

-----------------------------------------------------------------------------
(* Rows *)

\* Mutations of Due: a claim that looks at the status only, and one that never
\* recovers a stale lock.
DueWhateverLease(r) == r.status = "pending" \/ (r.status = "failed" /\ r.retry = 0)
                       \/ r.status = "running"
DueNeverStale(r) == r.status = "pending" \/ (r.status = "failed" /\ r.retry = 0)

\* The rows a claim may take.  A pending row is taken whatever its nextRetryAt.
Due(r) == \/ r.status = "pending"
          \/ r.status = "failed" /\ r.retry = 0
          \/ r.status = "running" /\ r.lease = 0

\* Mutation of Holds: the unlocked variants (markWorkflowFailed, ...) update by id.
HoldsById(w, f) == row[f].status # "absent"

Holds(w, f) == row[f].status = "running" /\ row[f].owner = w

\* Mutation of Requeued: the lock columns are left behind.
RequeuedKeepingLock(r) == [r EXCEPT !.status = "pending", !.retry = Off]

\* The columns every re-queueing of a row writes.
Requeued(r) == [r EXCEPT !.status = "pending", !.retry = Off, !.lease = Off, !.owner = NoOne]

\* The submit and confirm steps set back to pending.
StepsReopened(steps) == [steps EXCEPT ![Submit] = "pending", ![Confirm] = "pending"]

\* hasClaimCompletion: the result of buyTicket always carries both claims.
Reconcilable(f, r) ==
    /\ KindOf[f] = "buy_ticket"
    /\ r.status \in {"cancelled", "succeeded"}
    /\ r.art
    /\ r.result = "none"
    /\ r.requeues < MaxRequeues

\* The reconciler writes the payload it read, with one more requeue.
Reconciled(r, seen) ==
    [Requeued(r) EXCEPT !.art = seen.art, !.requeues = seen.requeues + 1,
                        !.steps = StepsReopened(r.steps)]

\* POST /api/workflows/*: find by key, else insert the row and its steps; the
\* unique key (idempotencyKey, type) turns a lost race into a replay.
CreateWorkflow(f) ==
    /\ row[f].status = "absent"
    /\ \A g \in Workflows : g < f => row[g].status # "absent"
    /\ \E art \in BOOLEAN :
          /\ KindOf[f] # "buy_ticket" => ~art
          /\ row' = [row EXCEPT ![f] = [AbsentRow EXCEPT !.status = "pending", !.art = art]]
    /\ UNCHANGED <<worker, request, ran, crashes>>

-----------------------------------------------------------------------------
(* A worker's tick: reconcile (every few ticks), claim, re-read, execute *)

At(w, pc) == worker[w].pc = pc
Become(w, s) == worker' = [worker EXCEPT ![w] = s]

ReconcileScan(w) ==
    /\ At(w, "idle")
    /\ Become(w, [worker[w] EXCEPT !.pc = "reconcile", !.snap = row,
                     !.ids = {f \in Workflows : Reconcilable(f, row[f])}])
    /\ UNCHANGED <<row, request, ran, crashes>>

ReconcileOne(w) ==
    /\ At(w, "reconcile")
    /\ \E f \in worker[w].ids :
          /\ row' = [row EXCEPT ![f] = Reconciled(row[f], worker[w].snap[f])]
          /\ Become(w, [worker[w] EXCEPT !.ids = @ \ {f}])
    /\ UNCHANGED <<request, ran, crashes>>

\* findMany over-fetches: CLAIM_CANDIDATE_MULTIPLIER times the limit, oldest first.
Candidates ==
    LET due == {f \in Workflows : Due(row[f])}
    IN  {f \in due : Cardinality({g \in due : g < f}) < 3 * BatchLimit}

\* The candidates, and the timestamp lockUntil is computed from.
ClaimScan(w) ==
    /\ At(w, "idle") \/ (At(w, "reconcile") /\ worker[w].ids = {})
    /\ Become(w, [worker[w] EXCEPT !.pc = "claim", !.age = 0, !.snap = NoRows,
                     !.ids = Candidates])
    /\ UNCHANGED <<row, request, ran, crashes>>

\* orderBy createdAt asc; nothing sets priority.
Oldest(f, S) == f \in S /\ \A g \in S : f <= g

\* What is left of a lease granted "age" ticks ago.
LeaseAfter(age) == IF age < LeaseTicks THEN LeaseTicks - age ELSE 0

\* updateMany of one candidate: it takes the row only if it is still due.
ClaimOne(w) ==
    /\ At(w, "claim")
    /\ \E f \in worker[w].ids :
      /\ Oldest(f, worker[w].ids)
      /\ \/ /\ Due(row[f])
            /\ row' = [row EXCEPT ![f] = [row[f] EXCEPT !.status = "running", !.owner = w,
                                             !.lease = LeaseAfter(worker[w].age)]]
            /\ Become(w, [worker[w] EXCEPT !.mine = @ \cup {f},
                    !.ids = IF Cardinality(worker[w].mine) + 1 >= BatchLimit
                            THEN {} ELSE @ \ {f}])
         \/ /\ ~Due(row[f])
            /\ Become(w, [worker[w] EXCEPT !.ids = @ \ {f}])
            /\ UNCHANGED row
    /\ UNCHANGED <<request, ran, crashes>>

\* The claimed rows are re-read: the executor works on these copies.
LoadClaimed(w) ==
    /\ At(w, "claim")
    /\ worker[w].ids = {}
    /\ Become(w, [worker[w] EXCEPT !.pc = "pick", !.snap = row])
    /\ UNCHANGED <<row, request, ran, crashes>>

\* Mutation of IsNextStep: a step left running by a dead worker is taken for done.
NextStepSkipsRunning(steps, from, n) ==
    /\ n \in from..Finished
    /\ n # Finished => steps[n] \notin {"succeeded", "running"}
    /\ \A m \in from..(n - 1) : steps[m] \in {"succeeded", "running"}

\* n is the first step from "from" on that the claimed copy does not show succeeded.
IsNextStep(steps, from, n) ==
    /\ n \in from..Finished
    /\ n # Finished => steps[n] # "succeeded"
    /\ \A m \in from..(n - 1) : steps[m] = "succeeded"

StepPc(n) == IF n = Finished THEN "finish" ELSE "begin"

\* The batch is executed one workflow after the other.
PickNext(w) ==
    /\ At(w, "pick")
    /\ \E f \in worker[w].mine, n \in Prepare..Finished :
          /\ Oldest(f, worker[w].mine)
          /\ IsNextStep(worker[w].snap[f].steps, Prepare, n)
          /\ Become(w, [worker[w] EXCEPT !.pc = StepPc(n), !.cur = f, !.mine = @ \ {f},
                           !.step = n, !.res = worker[w].snap[f].result])
    /\ UNCHANGED <<row, request, ran, crashes>>

EndBatch(w) ==
    /\ At(w, "pick")
    /\ worker[w].mine = {}
    /\ Become(w, Idle)
    /\ UNCHANGED <<row, request, ran, crashes>>

\* Leave the workflow, on WorkflowLockError or after its last write.
Left(s) == [s EXCEPT !.pc = "pick", !.cur = NoOne, !.step = Prepare, !.res = "none",
                     !.retryable = TRUE, !.age = 0]

-----------------------------------------------------------------------------
(* executeWorkflowStep *)

\* refreshWorkflowLock: only a holder whose lease has not run out extends it.
RefreshLock(w, from, to) ==
    LET f == worker[w].cur IN
    /\ At(w, from)
    /\ \/ /\ Holds(w, f) /\ row[f].lease > 0
          /\ row' = [row EXCEPT ![f] = [row[f] EXCEPT !.lease = LeaseTicks]]
          /\ Become(w, [worker[w] EXCEPT !.pc = to, !.age = 0])
       \/ /\ ~(Holds(w, f) /\ row[f].lease > 0)
          /\ Become(w, Left(worker[w]))
          /\ UNCHANGED row
    /\ UNCHANGED <<request, ran, crashes>>

RefreshBefore(w) == RefreshLock(w, "begin", "mark")
RefreshAfter(w) == RefreshLock(w, "ran", "stepok")

\* updateStepWithEvent: by workflow and step name, whoever holds the lock.
WriteStep(w, status) ==
    LET f == worker[w].cur IN
    row' = [row EXCEPT ![f] = [row[f] EXCEPT !.steps[worker[w].step] = status]]

MarkStepRunning(w) ==
    /\ At(w, "mark")
    /\ WriteStep(w, "running")
    /\ Become(w, [worker[w] EXCEPT !.pc = "run"])
    /\ UNCHANGED <<request, ran, crashes>>

\* prepare only looks at the payload.
RunPrepare(w) ==
    /\ At(w, "run") /\ worker[w].step = Prepare
    /\ Become(w, [worker[w] EXCEPT !.pc = "ran"])
    /\ UNCHANGED <<row, request, ran, crashes>>

\* submit calls the service; buy_ticket needs the artifacts in its copy of the payload.
RunSubmit(w) ==
    LET f == worker[w].cur IN
    /\ At(w, "run") /\ worker[w].step = Submit
    /\ KindOf[f] = "buy_ticket" => worker[w].snap[f].art
    /\ ran' = [ran EXCEPT ![f] = TRUE]
    /\ Become(w, [worker[w] EXCEPT !.pc = "draft", !.res = "submitted"])
    /\ UNCHANGED <<row, request, crashes>>

\* The precondition errors of buyTicket: artifacts, preimage or HTLC not there yet.
RunDeferred(w) ==
    /\ At(w, "run") /\ worker[w].step = Submit
    /\ KindOf[worker[w].cur] = "buy_ticket"
    /\ Become(w, [worker[w] EXCEPT !.pc = "stepwait"])
    /\ UNCHANGED <<row, request, ran, crashes>>

\* Any other error; pay_random_winner throws plain Errors, which are retryable.
RunFailed(w) ==
    /\ At(w, "run") /\ worker[w].step \in {Submit, Confirm}
    /\ \E retryable \in BOOLEAN :
          /\ (worker[w].step = Confirm \/ KindOf[worker[w].cur] = "pay_random_winner") => retryable
          /\ Become(w, [worker[w] EXCEPT !.pc = "stepfail", !.retryable = retryable])
    /\ UNCHANGED <<row, request, ran, crashes>>

\* confirm of pay_random_winner parses the draft from the copy read at claim time.
RunConfirm(w) ==
    LET f == worker[w].cur IN
    /\ At(w, "run") /\ worker[w].step = Confirm
    /\ KindOf[f] = "pay_random_winner" => worker[w].snap[f].result # "none"
    /\ IF KindOf[f] \in {"buy_ticket", "pay_random_winner"}
       THEN Become(w, [worker[w] EXCEPT !.pc = "draft", !.res = "confirmed"])
       ELSE Become(w, [worker[w] EXCEPT !.pc = "ran"])
    /\ UNCHANGED <<row, request, ran, crashes>>

\* setWorkflowDraftResultLocked
WriteDraft(w) ==
    LET f == worker[w].cur IN
    /\ At(w, "draft")
    /\ \/ /\ Holds(w, f)
          /\ row' = [row EXCEPT ![f] = [row[f] EXCEPT !.result = worker[w].res]]
          /\ Become(w, [worker[w] EXCEPT !.pc = "ran"])
       \/ /\ ~Holds(w, f)
          /\ Become(w, Left(worker[w]))
          /\ UNCHANGED row
    /\ UNCHANGED <<request, ran, crashes>>

MarkStepSucceeded(w) ==
    /\ At(w, "stepok")
    /\ WriteStep(w, "succeeded")
    /\ \E n \in Prepare..Finished :
          /\ IsNextStep(worker[w].snap[worker[w].cur].steps, worker[w].step + 1, n)
          /\ Become(w, [worker[w] EXCEPT !.pc = StepPc(n), !.step = n])
    /\ UNCHANGED <<request, ran, crashes>>

\* Mutation of MarkStepWaiting: a status the enum does not have.
MarkStepDeferred(w) ==
    /\ At(w, "stepwait")
    /\ WriteStep(w, "deferred")
    /\ Become(w, [worker[w] EXCEPT !.pc = "defer"])
    /\ UNCHANGED <<request, ran, crashes>>

\* Mutation of MarkStepWaiting: the deferral is not thrown on.
MarkStepWaitingGoesOn(w) ==
    /\ At(w, "stepwait")
    /\ WriteStep(w, "pending")
    /\ Become(w, [worker[w] EXCEPT !.pc = "begin", !.step = Confirm])
    /\ UNCHANGED <<request, ran, crashes>>

MarkStepWaiting(w) ==
    /\ At(w, "stepwait")
    /\ WriteStep(w, "pending")
    /\ Become(w, [worker[w] EXCEPT !.pc = "defer"])
    /\ UNCHANGED <<request, ran, crashes>>

MarkStepFailed(w) ==
    /\ At(w, "stepfail")
    /\ WriteStep(w, "failed")
    /\ Become(w, [worker[w] EXCEPT !.pc = "fail"])
    /\ UNCHANGED <<request, ran, crashes>>

-----------------------------------------------------------------------------
(* The last write of an execution; each is skipped when the lock is lost *)

Closed(r, status, result, attempts, retry) ==
    [r EXCEPT !.status = status, !.result = result, !.attempts = attempts, !.retry = retry,
              !.lease = Off, !.owner = NoOne]

LastWrite(w, pc, newRows) ==
    LET f == worker[w].cur IN
    /\ At(w, pc)
    /\ \/ Holds(w, f) /\ \E r \in newRows : row' = [row EXCEPT ![f] = r]
       \/ ~Holds(w, f) /\ UNCHANGED row
    /\ Become(w, Left(worker[w]))
    /\ UNCHANGED <<request, ran, crashes>>

\* markWorkflowSucceededLocked writes the executor's result.
MarkSucceeded(w) ==
    LET r == row[worker[w].cur] IN
    LastWrite(w, "finish", {Closed(r, "succeeded", worker[w].res, r.attempts, Off)})

\* markWorkflowFailedLocked: one more attempt; cancelled when none is left.
CanRetry(w, r) == worker[w].retryable /\ r.attempts + 1 < MaxAttempts

MarkFailed(w) ==
    LET r == row[worker[w].cur] IN
    LastWrite(w, "fail",
        IF CanRetry(w, r)
        THEN {Closed(r, "failed", r.result, r.attempts + 1, d) : d \in 1..BackoffTicks}
        ELSE {Closed(r, "cancelled", r.result, r.attempts + 1, Off)})

\* markWorkflowDeferredLocked: pending again, no attempt consumed.
MarkDeferred(w) ==
    LET r == row[worker[w].cur] IN
    LastWrite(w, "defer",
        {Closed(r, "pending", r.result, r.attempts, d) : d \in 1..BackoffTicks})

ExecuteStep(w) ==
    \/ RefreshBefore(w) \/ MarkStepRunning(w)
    \/ RunPrepare(w) \/ RunSubmit(w) \/ RunDeferred(w) \/ RunFailed(w) \/ RunConfirm(w)
    \/ WriteDraft(w) \/ RefreshAfter(w)
    \/ MarkStepSucceeded(w) \/ MarkStepWaiting(w) \/ MarkStepFailed(w)
    \/ MarkSucceeded(w) \/ MarkFailed(w) \/ MarkDeferred(w)

Claim(w) == ClaimScan(w) \/ ClaimOne(w) \/ LoadClaimed(w) \/ PickNext(w) \/ EndBatch(w)

WorkerStep(w) == Claim(w) \/ ExecuteStep(w)

\* A worker dies anywhere and loses its memory; the supervisor restarts it.
Crash(w) ==
    /\ ~At(w, "down")
    /\ crashes < MaxCrashes
    /\ crashes' = crashes + 1
    /\ Become(w, [Idle EXCEPT !.pc = "down"])
    /\ UNCHANGED <<row, request, ran>>

Restart(w) ==
    /\ At(w, "down")
    /\ Become(w, Idle)
    /\ UNCHANGED <<row, request, ran, crashes>>

\* Time passes, but not while a worker has used up what its current work may take.
Elapse(t) == IF t > 0 THEN t - 1 ELSE t

MayLast(pc) == IF pc \in Stepping THEN StepTicks ELSE ClaimTicks

Working == Stepping \cup {"claim", "pick", "begin"}

Tick ==
    /\ \A w \in Workers :
          worker[w].pc \in Working => worker[w].age < MayLast(worker[w].pc)
    /\ row' = [f \in Workflows |-> [row[f] EXCEPT !.lease = Elapse(@), !.retry = Elapse(@)]]
    /\ worker' = [w \in Workers |-> IF worker[w].pc \in Working
                                    THEN [worker[w] EXCEPT !.age = @ + 1] ELSE worker[w]]
    /\ UNCHANGED <<request, ran, crashes>>

-----------------------------------------------------------------------------
(* HTTP requests: each reads a row, decides, and writes it in a later statement *)

Arrive(q, kind, f) ==
    /\ request[q].pc = "new"
    /\ kind \in RequestKinds
    /\ row[f].status # "absent"
    /\ request' = [request EXCEPT ![q] = [pc |-> "read", kind |-> kind, f |-> f, seen |-> row[f]]]
    /\ UNCHANGED <<row, worker, ran, crashes>>

\* retryWorkflowNow refuses everything but failed and cancelled, unless forced.
ReadRetry(q, f) == Arrive(q, "retry", f) /\ row[f].status \in {"failed", "cancelled"}

ReadForce(q, f) == Arrive(q, "force", f)

\* POST /api/workflows/buy-ticket with a known key and artifacts or a preimage that the
\* row does not have, be they its first ones or others.
ReadAttach(q, f) == Arrive(q, "attach", f) /\ KindOf[f] = "buy_ticket"

\* POST /api/hydra-ops/htlc/submit, after a source transaction was sent.
ReadSubmit(q, f) == Arrive(q, "submit", f) /\ KindOf[f] = "buy_ticket"

ReadReconcile(q, f) == Arrive(q, "reconcile", f) /\ Reconcilable(f, row[f])

Answer(q, kind, newrow) ==
    /\ request[q].pc = "read" /\ request[q].kind = kind
    /\ row' = [row EXCEPT ![request[q].f] = newrow]
    /\ request' = [request EXCEPT ![q] = [NoRequest EXCEPT !.pc = "done"]]
    /\ UNCHANGED <<worker, ran, crashes>>

WriteRetry(q) == Answer(q, "retry", Requeued(row[request[q].f]))

\* A forced retry of a row read as succeeded starts it all over.
WriteForce(q) ==
    LET r == row[request[q].f] IN
    Answer(q, "force",
        IF request[q].seen.status = "succeeded"
        THEN [Requeued(r) EXCEPT !.attempts = 0, !.result = "none", !.steps = AbsentRow.steps]
        ELSE Requeued(r))

WriteAttach(q) ==
    LET r == row[request[q].f] IN
    Answer(q, "attach", [Requeued(r) EXCEPT !.art = TRUE, !.requeues = request[q].seen.requeues,
                                            !.steps = StepsReopened(r.steps)])

\* Only the payload is patched when the row was read as running.
WriteSubmit(q) ==
    LET r == row[request[q].f] IN
    Answer(q, "submit",
        IF request[q].seen.status = "running"
        THEN [r EXCEPT !.art = TRUE, !.requeues = request[q].seen.requeues]
        ELSE [Requeued(r) EXCEPT !.art = TRUE, !.requeues = request[q].seen.requeues,
                                 !.steps = StepsReopened(r.steps)])

WriteReconcile(q) ==
    Answer(q, "reconcile", Reconciled(row[request[q].f], request[q].seen))

RequestStep(q) ==
    \/ \E f \in Workflows : ReadRetry(q, f) \/ ReadForce(q, f) \/ ReadAttach(q, f)
                            \/ ReadSubmit(q, f) \/ ReadReconcile(q, f)
    \/ WriteRetry(q) \/ WriteForce(q) \/ WriteAttach(q) \/ WriteSubmit(q) \/ WriteReconcile(q)

-----------------------------------------------------------------------------
(* QueueSpec is the queue alone: clients, claims, executions, crashes and  *)
(* time.  Spec adds the reconciler of the worker and the HTTP requests.    *)

QueueNext ==
    \/ \E f \in Workflows : CreateWorkflow(f)
    \/ \E w \in Workers : WorkerStep(w) \/ Crash(w) \/ Restart(w)
    \/ Tick

Reconcile(w) == ReconcileScan(w) \/ ReconcileOne(w)

Next ==
    \/ QueueNext
    \/ \E w \in Workers : Reconcile(w)
    \/ \E q \in Requests : RequestStep(q)

QueueSpec == Init /\ [][QueueNext]_vars
Spec == Init /\ [][Next]_vars

\* A live worker ticks on a timer, the supervisor restarts it, and time passes.
FairQueueSpec ==
    /\ QueueSpec
    /\ \A w \in Workers : WF_vars(WorkerStep(w)) /\ WF_vars(Restart(w))
    /\ WF_vars(Tick)

-----------------------------------------------------------------------------
(* Properties *)

\* The database and the processes only hold values of their types.
TypeOK ==
    /\ row \in [Workflows -> Row]
    /\ worker \in [Workers -> WorkerState]
    /\ request \in [Requests -> [pc: {"new", "read", "done"},
                                  kind: {"retry", "force", "attach", "submit", "reconcile"},
                                  f: Workflows \cup {NoOne}, seen: Row]]
    /\ ran \in [Workflows -> BOOLEAN]
    /\ crashes \in Nat

\* w is in a step of f: past the lock refresh before it, or about to report its error.
InStep == Stepping \ {"finish"}
Executing(w, f) == worker[w].cur = f /\ worker[w].pc \in InStep

\* Two workers are never in a step of the same workflow at once: as long as a step
\* is shorter than the lease, whoever runs it still owns the row (claimDueWorkflows
\* and refreshWorkflowLock together).
Exclusive ==
    \A v, w \in Workers : \A f \in Workflows :
        Executing(v, f) /\ Executing(w, f) => v = w

\* r can be claimed now or when one of its timers runs out, or it has ended.
Recoverable(r) ==
    /\ r.status = "running" => r.owner # NoOne /\ r.lease >= 0
    /\ r.status = "failed" => r.retry >= 0
    /\ r.status # "running" => r.owner = NoOne /\ r.lease = Off

\* Whatever the interleaving of workers and requests, no row is lost to the
\* claim query: a running row has an owner and a lease that will run out, a failed
\* row has a retry time, and nothing else looks locked.
NoStrandedRow == \A f \in Workflows : Recoverable(row[f])

\* The step rows of a succeeded workflow all say succeeded, although workers
\* write them without looking at the lock (updateStepWithEvent).
TimelineAgrees ==
    \A f \in Workflows : row[f].status = "succeeded" =>
        \A s \in Prepare..Confirm : row[f].steps[s] = "succeeded"

\* What a client sees of a row.
OutcomeOf(status) ==
    CASE status = "absent" -> "none"
      [] status = "succeeded" -> "done"
      [] status = "cancelled" -> "dead"
      [] OTHER -> "open"

Board == INSTANCE JobBoard
    WITH Jobs <- Workflows, performed <- ran,
         outcome <- [f \in Workflows |-> OutcomeOf(row[f].status)]

\* Workers, leases, stale copies, crashes and re-queueing requests together still
\* implement the board: a workflow is succeeded only if its submit service has run.
RefinesJobBoard == Board!Spec

\* Without the reconciler and the requests, a workflow that ended also stays as it
\* ended, even while workers whose lease ran out are still busy with it.
RefinesFinalBoard == Board!FinalSpec

\* Every workflow that does not wait for a client ends, through crashes of the
\* worker and failures of the services.
EventuallyEnds ==
    \A f \in Workflows : KindOf[f] # "buy_ticket" =>
        (row[f].status # "absent" ~> row[f].status \in {"succeeded", "cancelled"})
=============================================================================
