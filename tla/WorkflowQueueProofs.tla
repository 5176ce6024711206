------------------------ MODULE WorkflowQueueProofs ------------------------
(***************************************************************************)
(* Theorems about WorkflowQueue, for any number of workflows, workers and  *)
(* requests and any values of the timing constants.                        *)
(***************************************************************************)
EXTENDS WorkflowQueue, TLAPS

-----------------------------------------------------------------------------
(* Type correctness *)

\* The strings the actions write are values of the fields they are written to.
LEMMA Names ==
    /\ Stepping \subseteq Pc
    /\ {"idle", "down", "reconcile", "claim", "pick", "begin"} \subseteq Pc
    /\ {"mark", "run", "draft", "ran", "stepok", "stepwait", "stepfail",
        "finish", "defer", "fail"} \subseteq Pc
    /\ {"absent", "pending", "running", "succeeded", "failed", "cancelled"} \subseteq Status
    /\ {"pending", "running", "succeeded", "failed"} \subseteq StepStatus
    /\ {"none", "submitted", "confirmed"} \subseteq Result
    /\ {Prepare, Submit, Confirm, Finished} \subseteq Prepare..Finished
    /\ {Submit, Confirm} \subseteq Prepare..Confirm
    /\ Off \in Int
  BY DEF Pc, Stepping, Status, StepStatus, Result, Prepare, Submit, Confirm, Finished, Off

LEMMA AbsentRowType == AbsentRow \in Row /\ NoRows \in [Workflows -> Row]
  BY Names DEF AbsentRow, NoRows, Row

LEMMA IdleType == Idle \in WorkerState
  BY Names, AbsentRowType DEF Idle, WorkerState

LEMMA LeftType == ASSUME NEW s \in WorkerState PROVE Left(s) \in WorkerState
  BY Names DEF Left, WorkerState

\* A re-queued, reconciled or closed row is a row.
LEMMA RequeuedType == ASSUME NEW r \in Row PROVE Requeued(r) \in Row
  BY Names DEF Requeued, Row

LEMMA StepsReopenedType ==
    ASSUME NEW r \in Row
    PROVE  /\ StepsReopened(r.steps) \in [Prepare..Confirm -> StepStatus]
           /\ [r EXCEPT !.steps = StepsReopened(r.steps)] \in Row
  BY Names DEF StepsReopened, Row

LEMMA ReconciledType ==
    ASSUME NEW r \in Row, NEW seen \in Row PROVE Reconciled(r, seen) \in Row
  <1>1. Requeued(r) \in Row BY RequeuedType
  <1>2. StepsReopened(r.steps) \in [Prepare..Confirm -> StepStatus] BY StepsReopenedType
  <1>3. seen.art \in BOOLEAN /\ seen.requeues + 1 \in Nat BY DEF Row
  <1>4. QED BY <1>1, <1>2, <1>3 DEF Reconciled, Row

LEMMA ClosedType ==
    ASSUME NEW r \in Row, NEW status \in Status, NEW result \in Result,
           NEW attempts \in Nat, NEW retry \in Int
    PROVE  Closed(r, status, result, attempts, retry) \in Row
  BY Names DEF Closed, Row

\* Replacing one row or one worker by another of its type keeps the types.
LEMMA PutRow ==
    ASSUME row \in [Workflows -> Row], NEW f, NEW r, f \in Workflows => r \in Row,
           row' = [row EXCEPT ![f] = r]
    PROVE  row' \in [Workflows -> Row]
  OBVIOUS

LEMMA PutWorker ==
    ASSUME worker \in [Workers -> WorkerState], NEW w \in Workers,
           NEW s \in WorkerState, Become(w, s)
    PROVE  worker' \in [Workers -> WorkerState]
  BY DEF Become

LEMMA LeftWorker ==
    ASSUME worker \in [Workers -> WorkerState], NEW w \in Workers, Become(w, Left(worker[w]))
    PROVE  worker' \in [Workers -> WorkerState]
  BY LeftType, PutWorker

\* What the actions need to know of the constants.
LEMMA Constants == LeaseTicks \in Nat /\ BackoffTicks \in Nat
  BY QueueAssumption

LEMMA LeaseAfterType == ASSUME NEW age \in Nat PROVE LeaseAfter(age) \in Nat
  BY QueueAssumption DEF LeaseAfter

LEMMA RefreshLockType ==
    ASSUME TypeOK, NEW w \in Workers, NEW from, NEW to \in Pc, RefreshLock(w, from, to)
    PROVE  TypeOK'
  <1> DEFINE f == worker[w].cur
  <1>1. row' \in [Workflows -> Row]
    <2>1. CASE UNCHANGED row BY <2>1 DEF TypeOK
    <2>2. CASE row' = [row EXCEPT ![f] = [row[f] EXCEPT !.lease = LeaseTicks]]
      <3>1. f \in Workflows => row[f] \in Row BY DEF TypeOK
      <3>2. f \in Workflows => [row[f] EXCEPT !.lease = LeaseTicks] \in Row
        BY <3>1, Constants DEF Row
      <3>3. QED BY <2>2, <3>2, PutRow DEF TypeOK
    <2>3. QED BY <2>1, <2>2 DEF RefreshLock
  <1>2. worker' \in [Workers -> WorkerState]
    <2>1. CASE Become(w, Left(worker[w])) BY <2>1, LeftWorker DEF TypeOK
    <2>2. CASE Become(w, [worker[w] EXCEPT !.pc = to, !.age = 0])
      <3>1. [worker[w] EXCEPT !.pc = to, !.age = 0] \in WorkerState BY DEF TypeOK, WorkerState
      <3>2. QED BY <2>2, <3>1, PutWorker DEF TypeOK
    <2>3. QED BY <2>1, <2>2 DEF RefreshLock
  <1>3. QED BY <1>1, <1>2 DEF TypeOK, RefreshLock

LEMMA LastWriteType ==
    ASSUME TypeOK, NEW w \in Workers, NEW pc, NEW newRows,
           worker[w].cur \in Workflows => newRows \subseteq Row, LastWrite(w, pc, newRows)
    PROVE  TypeOK'
  <1>1. row' \in [Workflows -> Row] BY DEF TypeOK, LastWrite
  <1>2. worker' \in [Workers -> WorkerState] BY LeftWorker DEF TypeOK, LastWrite
  <1>3. QED BY <1>1, <1>2 DEF TypeOK, LastWrite

LEMMA WriteStepType ==
    ASSUME TypeOK, NEW w \in Workers, NEW status \in StepStatus, WriteStep(w, status)
    PROVE  row' \in [Workflows -> Row]
  <1> DEFINE f == worker[w].cur
             r == [row[f] EXCEPT !.steps[worker[w].step] = status]
  <1>1. f \in Workflows => r \in Row
    <2>1. f \in Workflows => row[f] \in Row BY DEF TypeOK
    <2>2. QED BY <2>1 DEF Row
  <1>2. row' = [row EXCEPT ![f] = r] BY DEF WriteStep
  <1>3. QED BY <1>1, <1>2, PutRow DEF TypeOK

LEMMA AnswerType ==
    ASSUME TypeOK, NEW q \in Requests, NEW kind, NEW r,
           request[q].f \in Workflows => r \in Row, Answer(q, kind, r)
    PROVE  TypeOK'
  <1>1. row' \in [Workflows -> Row] BY DEF TypeOK, Answer
  <1>2. [NoRequest EXCEPT !.pc = "done"] \in
          [pc: {"new", "read", "done"},
           kind: {"retry", "force", "attach", "submit", "reconcile"},
           f: Workflows \cup {NoOne}, seen: Row]
    BY AbsentRowType DEF NoRequest
  <1>3. QED BY <1>1, <1>2 DEF TypeOK, Answer

LEMMA ArriveType ==
    ASSUME TypeOK, NEW q \in Requests, NEW kind, NEW f \in Workflows, Arrive(q, kind, f)
    PROVE  TypeOK'
  BY QueueAssumption DEF TypeOK, Arrive

LEMMA ExecuteStepType ==
    ASSUME TypeOK, NEW w \in Workers, ExecuteStep(w)
    PROVE  TypeOK'
  <1> DEFINE f == worker[w].cur
  <1>0. worker[w] \in WorkerState BY DEF TypeOK
  <1>1. CASE RefreshBefore(w) BY <1>1, RefreshLockType, Names DEF RefreshBefore
  <1>2. CASE RefreshAfter(w) BY <1>2, RefreshLockType, Names DEF RefreshAfter
  <1>3. CASE MarkStepRunning(w)
    <2>1. [worker[w] EXCEPT !.pc = "run"] \in WorkerState BY <1>0, Names DEF WorkerState
    <2>2. QED BY <1>3, <2>1, PutWorker, WriteStepType, Names DEF TypeOK, MarkStepRunning
  <1>4. CASE RunPrepare(w)
    <2>1. [worker[w] EXCEPT !.pc = "ran"] \in WorkerState BY <1>0, Names DEF WorkerState
    <2>2. QED BY <1>4, <2>1, PutWorker DEF TypeOK, RunPrepare
  <1>5. CASE RunSubmit(w)
    <2>1. [worker[w] EXCEPT !.pc = "draft", !.res = "submitted"] \in WorkerState
      BY <1>0, Names DEF WorkerState
    <2>2. QED BY <1>5, <2>1, PutWorker DEF TypeOK, RunSubmit
  <1>6. CASE RunDeferred(w)
    <2>1. [worker[w] EXCEPT !.pc = "stepwait"] \in WorkerState BY <1>0, Names DEF WorkerState
    <2>2. QED BY <1>6, <2>1, PutWorker DEF TypeOK, RunDeferred
  <1>7. CASE RunFailed(w)
    <2>1. \A b \in BOOLEAN : [worker[w] EXCEPT !.pc = "stepfail", !.retryable = b] \in WorkerState
      BY <1>0, Names DEF WorkerState
    <2>2. QED BY <1>7, <2>1, PutWorker DEF TypeOK, RunFailed
  <1>8. CASE RunConfirm(w)
    <2>1. /\ [worker[w] EXCEPT !.pc = "draft", !.res = "confirmed"] \in WorkerState
          /\ [worker[w] EXCEPT !.pc = "ran"] \in WorkerState
      BY <1>0, Names DEF WorkerState
    <2>2. QED BY <1>8, <2>1, PutWorker DEF TypeOK, RunConfirm
  <1>9. CASE WriteDraft(w)
    <2>1. [worker[w] EXCEPT !.pc = "ran"] \in WorkerState BY <1>0, Names DEF WorkerState
    <2>2. worker' \in [Workers -> WorkerState]
      BY <1>9, <2>1, PutWorker, LeftWorker DEF TypeOK, WriteDraft
    <2>3. f \in Workflows => [row[f] EXCEPT !.result = worker[w].res] \in Row
      <3>1. (f \in Workflows => row[f] \in Row) /\ worker[w].res \in Result
        BY <1>0 DEF TypeOK, WorkerState
      <3>2. QED BY <3>1 DEF Row
    <2>4. row' \in [Workflows -> Row] BY <1>9, <2>3, PutRow DEF TypeOK, WriteDraft
    <2>5. QED BY <1>9, <2>2, <2>4 DEF TypeOK, WriteDraft
  <1>10. CASE MarkStepSucceeded(w)
    <2>1. \A n \in Prepare..Finished :
            [worker[w] EXCEPT !.pc = StepPc(n), !.step = n] \in WorkerState
      BY <1>0, Names DEF WorkerState, StepPc
    <2>2. worker' \in [Workers -> WorkerState]
      BY <1>10, <2>1, PutWorker DEF TypeOK, MarkStepSucceeded
    <2>3. row' \in [Workflows -> Row] BY <1>10, WriteStepType, Names DEF MarkStepSucceeded
    <2>4. QED BY <1>10, <2>2, <2>3 DEF TypeOK, MarkStepSucceeded
  <1>11. CASE MarkStepWaiting(w)
    <2>1. [worker[w] EXCEPT !.pc = "defer"] \in WorkerState BY <1>0, Names DEF WorkerState
    <2>2. QED BY <1>11, <2>1, PutWorker, WriteStepType, Names DEF TypeOK, MarkStepWaiting
  <1>12. CASE MarkStepFailed(w)
    <2>1. [worker[w] EXCEPT !.pc = "fail"] \in WorkerState BY <1>0, Names DEF WorkerState
    <2>2. QED BY <1>12, <2>1, PutWorker, WriteStepType, Names DEF TypeOK, MarkStepFailed
  <1>13. CASE MarkSucceeded(w)
    <2>1. f \in Workflows =>
            {Closed(row[f], "succeeded", worker[w].res, row[f].attempts, Off)} \subseteq Row
      <3>1. (f \in Workflows => row[f] \in Row) /\ worker[w].res \in Result
        BY <1>0 DEF TypeOK, WorkerState
      <3>2. f \in Workflows => row[f].attempts \in Nat BY <3>1 DEF Row
      <3>3. "succeeded" \in Status /\ Off \in Int BY Names
      <3>4. QED BY <3>1, <3>2, <3>3, ClosedType
    <2>2. QED BY <1>13, <2>1, LastWriteType DEF MarkSucceeded
  <1>14. CASE MarkFailed(w)
    <2> DEFINE r == row[f]
    <2>1. f \in Workflows => r \in Row /\ r.attempts + 1 \in Nat /\ r.result \in Result
      BY DEF TypeOK, Row
    <2>2. f \in Workflows => \A d \in 1..BackoffTicks :
            Closed(r, "failed", r.result, r.attempts + 1, d) \in Row
      <3>1. "failed" \in Status /\ \A d \in 1..BackoffTicks : d \in Int BY Names
      <3>2. QED BY <2>1, <3>1, ClosedType
    <2>3. f \in Workflows => Closed(r, "cancelled", r.result, r.attempts + 1, Off) \in Row
      BY <2>1, ClosedType, Names
    <2>4. QED BY <1>14, <2>2, <2>3, LastWriteType DEF MarkFailed
  <1>15. CASE MarkDeferred(w)
    <2> DEFINE r == row[f]
    <2>1. f \in Workflows => r \in Row /\ r.attempts \in Nat /\ r.result \in Result
      BY DEF TypeOK, Row
    <2>2. f \in Workflows => \A d \in 1..BackoffTicks :
            Closed(r, "pending", r.result, r.attempts, d) \in Row
      <3>1. "pending" \in Status /\ \A d \in 1..BackoffTicks : d \in Int BY Names
      <3>2. QED BY <2>1, <3>1, ClosedType
    <2>3. QED BY <1>15, <2>2, LastWriteType DEF MarkDeferred
  <1>16. QED BY <1>1, <1>2, <1>3, <1>4, <1>5, <1>6, <1>7, <1>8, <1>9, <1>10, <1>11, <1>12,
                <1>13, <1>14, <1>15 DEF ExecuteStep

LEMMA ClaimType ==
    ASSUME TypeOK, NEW w \in Workers, Claim(w)
    PROVE  TypeOK'
  <1>0. worker[w] \in WorkerState BY DEF TypeOK
  <1>1. CASE ClaimScan(w)
    <2>1. Candidates \subseteq Workflows BY DEF Candidates
    <2>2. [worker[w] EXCEPT !.pc = "claim", !.age = 0, !.snap = NoRows,
                     !.ids = Candidates] \in WorkerState
      BY <1>0, <2>1, Names, AbsentRowType DEF WorkerState
    <2>3. QED BY <1>1, <2>2, PutWorker DEF TypeOK, ClaimScan
  <1>2. CASE ClaimOne(w)
    <2>1. PICK f \in worker[w].ids :
            \/ /\ row' = [row EXCEPT ![f] = [row[f] EXCEPT !.status = "running", !.owner = w,
                                             !.lease = LeaseAfter(worker[w].age)]]
               /\ Become(w, [worker[w] EXCEPT !.mine = @ \cup {f},
                    !.ids = IF Cardinality(worker[w].mine) + 1 >= BatchLimit
                            THEN {} ELSE @ \ {f}])
            \/ /\ Become(w, [worker[w] EXCEPT !.ids = @ \ {f}])
               /\ UNCHANGED row
      BY <1>2 DEF ClaimOne
    <2>2. f \in Workflows BY <1>0 DEF WorkerState
    <2>3. row' \in [Workflows -> Row]
      <3>1. row[f] \in Row /\ LeaseAfter(worker[w].age) \in Int
        BY <1>0, <2>2, LeaseAfterType DEF TypeOK, WorkerState
      <3>2. [row[f] EXCEPT !.status = "running", !.owner = w,
                           !.lease = LeaseAfter(worker[w].age)] \in Row
        BY <3>1, Names DEF Row
      <3>3. QED BY <2>1, <3>2, PutRow DEF TypeOK
    <2>4. worker' \in [Workers -> WorkerState]
      <3>1. \A ids \in SUBSET Workflows :
              [worker[w] EXCEPT !.mine = @ \cup {f}, !.ids = ids] \in WorkerState
        BY <1>0, <2>2 DEF WorkerState
      <3>2. [worker[w] EXCEPT !.ids = @ \ {f}] \in WorkerState BY <1>0 DEF WorkerState
      <3>3. (IF Cardinality(worker[w].mine) + 1 >= BatchLimit
             THEN {} ELSE worker[w].ids \ {f}) \in SUBSET Workflows
        BY <1>0 DEF WorkerState
      <3>4. QED BY <2>1, <3>1, <3>2, <3>3, PutWorker DEF TypeOK
    <2>5. QED BY <1>2, <2>3, <2>4 DEF TypeOK, ClaimOne
  <1>3. CASE LoadClaimed(w)
    <2>1. [worker[w] EXCEPT !.pc = "pick", !.snap = row] \in WorkerState
      BY <1>0, Names DEF TypeOK, WorkerState
    <2>2. QED BY <1>3, <2>1, PutWorker DEF TypeOK, LoadClaimed
  <1>4. CASE PickNext(w)
    <2>1. ASSUME NEW f \in worker[w].mine, NEW n \in Prepare..Finished
          PROVE  [worker[w] EXCEPT !.pc = StepPc(n), !.cur = f, !.mine = @ \ {f},
                           !.step = n, !.res = worker[w].snap[f].result] \in WorkerState
      <3>1. f \in Workflows /\ worker[w].snap[f] \in Row BY <1>0 DEF WorkerState
      <3>2. worker[w].snap[f].result \in Result BY <3>1 DEF Row
      <3>3. StepPc(n) \in Pc BY Names DEF StepPc
      <3>4. QED BY <1>0, <3>1, <3>2, <3>3 DEF WorkerState
    <2>2. QED BY <1>4, <2>1, PutWorker DEF TypeOK, PickNext
  <1>5. CASE EndBatch(w) BY <1>5, IdleType, PutWorker DEF TypeOK, EndBatch
  <1>6. QED BY <1>1, <1>2, <1>3, <1>4, <1>5 DEF Claim

LEMMA ReconcileType ==
    ASSUME TypeOK, NEW w \in Workers, Reconcile(w)
    PROVE  TypeOK'
  <1>0. worker[w] \in WorkerState BY DEF TypeOK
  <1>1. CASE ReconcileScan(w)
    <2>1. [worker[w] EXCEPT !.pc = "reconcile", !.snap = row,
             !.ids = {f \in Workflows : Reconcilable(f, row[f])}] \in WorkerState
      BY <1>0, Names DEF TypeOK, WorkerState
    <2>2. QED BY <1>1, <2>1, PutWorker DEF TypeOK, ReconcileScan
  <1>2. CASE ReconcileOne(w)
    <2>1. PICK f \in worker[w].ids :
            /\ row' = [row EXCEPT ![f] = Reconciled(row[f], worker[w].snap[f])]
            /\ Become(w, [worker[w] EXCEPT !.ids = @ \ {f}])
      BY <1>2 DEF ReconcileOne
    <2>2. f \in Workflows BY <1>0 DEF WorkerState
    <2>3. row[f] \in Row /\ worker[w].snap[f] \in Row BY <1>0, <2>2 DEF TypeOK, WorkerState
    <2>4. row' \in [Workflows -> Row] BY <2>1, <2>3, ReconciledType, PutRow DEF TypeOK
    <2>5. [worker[w] EXCEPT !.ids = @ \ {f}] \in WorkerState BY <1>0 DEF WorkerState
    <2>6. QED BY <1>2, <2>1, <2>4, <2>5, PutWorker DEF TypeOK, ReconcileOne
  <1>3. QED BY <1>1, <1>2 DEF Reconcile

LEMMA TickType == ASSUME TypeOK, Tick PROVE TypeOK'
  <1>1. \A t \in Int : Elapse(t) \in Int BY DEF Elapse
  <1>2. ASSUME NEW r \in Row
        PROVE  [r EXCEPT !.lease = Elapse(@), !.retry = Elapse(@)] \in Row
    BY <1>1 DEF Row
  <1>3. row' \in [Workflows -> Row] BY <1>2 DEF TypeOK, Tick
  <1>4. ASSUME NEW s \in WorkerState PROVE [s EXCEPT !.age = @ + 1] \in WorkerState
    BY DEF WorkerState
  <1>5. worker' \in [Workers -> WorkerState] BY <1>4 DEF TypeOK, Tick
  <1>6. QED BY <1>3, <1>5 DEF TypeOK, Tick

LEMMA RequestType ==
    ASSUME TypeOK, NEW q \in Requests, RequestStep(q)
    PROVE  TypeOK'
  <1> DEFINE f == request[q].f
             seen == request[q].seen
  <1>1. (f \in Workflows => row[f] \in Row) /\ seen \in Row BY DEF TypeOK
  <1>2. CASE \E g \in Workflows : \/ ReadRetry(q, g) \/ ReadForce(q, g) \/ ReadAttach(q, g)
                                  \/ ReadSubmit(q, g) \/ ReadReconcile(q, g)
    BY <1>2, ArriveType DEF ReadRetry, ReadForce, ReadAttach, ReadSubmit, ReadReconcile
  <1>3. CASE WriteRetry(q) BY <1>1, <1>3, RequeuedType, AnswerType DEF WriteRetry
  <1>4. CASE WriteForce(q)
    <2>1. f \in Workflows =>
            [Requeued(row[f]) EXCEPT !.attempts = 0, !.result = "none",
                                     !.steps = AbsentRow.steps] \in Row
      <3>1. AbsentRow.steps \in [Prepare..Confirm -> StepStatus] BY AbsentRowType DEF Row
      <3>2. QED BY <1>1, <3>1, RequeuedType, Names DEF Row
    <2>2. QED BY <1>1, <1>4, <2>1, RequeuedType, AnswerType DEF WriteForce
  <1>5. f \in Workflows =>
          /\ Requeued(row[f]) \in Row
          /\ StepsReopened(row[f].steps) \in [Prepare..Confirm -> StepStatus]
    BY <1>1, RequeuedType, StepsReopenedType
  <1>6. seen.requeues \in Nat BY <1>1 DEF Row
  <1>7. f \in Workflows =>
          [Requeued(row[f]) EXCEPT !.art = TRUE, !.requeues = seen.requeues,
                                   !.steps = StepsReopened(row[f].steps)] \in Row
    BY <1>5, <1>6 DEF Row
  <1>8. CASE WriteAttach(q) BY <1>7, <1>8, AnswerType DEF WriteAttach
  <1>9. CASE WriteSubmit(q)
    <2>1. f \in Workflows => [row[f] EXCEPT !.art = TRUE, !.requeues = seen.requeues] \in Row
      BY <1>1, <1>6 DEF Row
    <2>2. QED BY <1>7, <1>9, <2>1, AnswerType DEF WriteSubmit
  <1>10. CASE WriteReconcile(q)
    BY <1>1, <1>10, ReconciledType, AnswerType DEF WriteReconcile
  <1>11. QED BY <1>2, <1>3, <1>4, <1>8, <1>9, <1>10 DEF RequestStep

LEMMA TypeStep == ASSUME TypeOK, [Next]_vars PROVE TypeOK'
  <1>1. CASE \E f \in Workflows : CreateWorkflow(f)
    <2>1. \A art \in BOOLEAN : [AbsentRow EXCEPT !.status = "pending", !.art = art] \in Row
      BY AbsentRowType, Names DEF Row
    <2>2. row' \in [Workflows -> Row] BY <1>1, <2>1, PutRow DEF TypeOK, CreateWorkflow
    <2>3. QED BY <1>1, <2>2 DEF TypeOK, CreateWorkflow
  <1>2. ASSUME NEW w \in Workers, WorkerStep(w) PROVE TypeOK'
    BY <1>2, ClaimType, ExecuteStepType DEF WorkerStep
  <1>3. ASSUME NEW w \in Workers, Crash(w) \/ Restart(w) PROVE TypeOK'
    <2>1. [Idle EXCEPT !.pc = "down"] \in WorkerState BY IdleType, Names DEF WorkerState
    <2>2. worker' \in [Workers -> WorkerState]
      BY <1>3, <2>1, IdleType, PutWorker DEF TypeOK, Crash, Restart
    <2>3. QED BY <1>3, <2>2 DEF TypeOK, Crash, Restart
  <1>4. CASE Tick BY <1>4, TickType
  <1>5. ASSUME NEW w \in Workers, Reconcile(w) PROVE TypeOK' BY <1>5, ReconcileType
  <1>6. ASSUME NEW q \in Requests, RequestStep(q) PROVE TypeOK' BY <1>6, RequestType
  <1>7. CASE UNCHANGED vars BY <1>7 DEF TypeOK, vars
  <1>8. QED BY <1>1, <1>2, <1>3, <1>4, <1>5, <1>6, <1>7 DEF Next, QueueNext

LEMMA TypeInit == Init => TypeOK
  <1> SUFFICES ASSUME Init PROVE TypeOK OBVIOUS
  <1>1. NoRequest \in [pc: {"new", "read", "done"},
                       kind: {"retry", "force", "attach", "submit", "reconcile"},
                       f: Workflows \cup {NoOne}, seen: Row]
    BY AbsentRowType DEF NoRequest
  <1>2. QED BY <1>1, AbsentRowType, IdleType DEF Init, TypeOK

\* The rows and the processes keep their types, whatever workers, reconcilers and
\* requests do.
THEOREM TypeCorrect == Spec => []TypeOK
  BY TypeInit, TypeStep, PTL DEF Spec

\* The queue alone is the whole system without reconcilers and requests.
LEMMA QueueSteps == QueueSpec => Spec
  <1>1. [QueueNext]_vars => [Next]_vars BY DEF Next
  <1>2. QED BY <1>1, PTL DEF QueueSpec, Spec

-----------------------------------------------------------------------------
(* No row is stranded *)

LEMMA RecoverableRows ==
    ASSUME NEW r \in Row, Recoverable(r)
    PROVE  /\ Recoverable(Requeued(r))
           /\ \A seen \in Row : Recoverable(Reconciled(r, seen))
           /\ \A status \in {"succeeded", "cancelled", "pending"} : \A result, attempts, retry :
                 Recoverable(Closed(r, status, result, attempts, retry))
           /\ \A result, attempts : \A d \in 1..BackoffTicks :
                 Recoverable(Closed(r, "failed", result, attempts, d))
  BY Constants DEF Recoverable, Requeued, Reconciled, Closed, Row

\* Replacing one row by a recoverable one keeps all rows recoverable.
LEMMA PutRecoverable ==
    ASSUME TypeOK, NoStrandedRow, NEW f, NEW r,
           f \in Workflows => Recoverable(r), row' = [row EXCEPT ![f] = r]
    PROVE  NoStrandedRow'
  BY DEF TypeOK, NoStrandedRow

LEMMA StrandedLastWrite ==
    ASSUME TypeOK, NoStrandedRow, NEW w \in Workers, NEW pc, NEW newRows,
           worker[w].cur \in Workflows => \A r \in newRows : Recoverable(r),
           LastWrite(w, pc, newRows)
    PROVE  NoStrandedRow'
  <1>1. CASE UNCHANGED row BY <1>1 DEF NoStrandedRow
  <1>2. CASE \E r \in newRows : row' = [row EXCEPT ![worker[w].cur] = r]
    BY <1>2, PutRecoverable
  <1>3. QED BY <1>1, <1>2 DEF LastWrite

LEMMA StrandedExecute ==
    ASSUME TypeOK, NoStrandedRow, NEW w \in Workers, ExecuteStep(w)
    PROVE  NoStrandedRow'
  <1> DEFINE f == worker[w].cur
             r == row[f]
  <1>1. f \in Workflows => r \in Row /\ Recoverable(r) BY DEF TypeOK, NoStrandedRow
  <1>2. \/ UNCHANGED row
        \/ MarkSucceeded(w) \/ MarkFailed(w) \/ MarkDeferred(w)
        \/ \E s : row' = [row EXCEPT ![f] = [r EXCEPT !.steps[worker[w].step] = s]]
        \/ \E res : row' = [row EXCEPT ![f] = [r EXCEPT !.result = res]]
        \/ row' = [row EXCEPT ![f] = [r EXCEPT !.lease = LeaseTicks]] /\ Holds(w, f)
    BY DEF ExecuteStep, RefreshBefore, RefreshAfter, RefreshLock, MarkStepRunning, RunPrepare,
           RunSubmit, RunDeferred, RunFailed, RunConfirm, WriteDraft, MarkStepSucceeded,
           MarkStepWaiting, MarkStepFailed, WriteStep
  <1>3. CASE UNCHANGED row BY <1>3 DEF NoStrandedRow
  <1>4. CASE MarkSucceeded(w)
    BY <1>1, <1>4, RecoverableRows, StrandedLastWrite DEF MarkSucceeded
  <1>5. CASE MarkFailed(w)
    <2>1. f \in Workflows =>
            /\ \A x \in {Closed(r, "failed", r.result, r.attempts + 1, d) : d \in 1..BackoffTicks} :
                  Recoverable(x)
            /\ Recoverable(Closed(r, "cancelled", r.result, r.attempts + 1, Off))
      BY <1>1, RecoverableRows
    <2>2. QED BY <1>5, <2>1, StrandedLastWrite DEF MarkFailed
  <1>6. CASE MarkDeferred(w)
    BY <1>1, <1>6, RecoverableRows, StrandedLastWrite DEF MarkDeferred
  <1>7. CASE \E s : row' = [row EXCEPT ![f] = [r EXCEPT !.steps[worker[w].step] = s]]
    <2>1. PICK s : row' = [row EXCEPT ![f] = [r EXCEPT !.steps[worker[w].step] = s]] BY <1>7
    <2>2. f \in Workflows => Recoverable([r EXCEPT !.steps[worker[w].step] = s])
      BY <1>1 DEF Recoverable, Row
    <2>3. QED BY <2>1, <2>2, PutRecoverable
  <1>8. CASE \E res : row' = [row EXCEPT ![f] = [r EXCEPT !.result = res]]
    <2>1. PICK res : row' = [row EXCEPT ![f] = [r EXCEPT !.result = res]] BY <1>8
    <2>2. f \in Workflows => Recoverable([r EXCEPT !.result = res])
      BY <1>1 DEF Recoverable, Row
    <2>3. QED BY <2>1, <2>2, PutRecoverable
  <1>9. CASE row' = [row EXCEPT ![f] = [r EXCEPT !.lease = LeaseTicks]] /\ Holds(w, f)
    <2>1. f \in Workflows => Recoverable([r EXCEPT !.lease = LeaseTicks])
      BY <1>1, <1>9, Constants DEF Recoverable, Row, Holds
    <2>2. QED BY <1>9, <2>1, PutRecoverable
  <1>10. QED BY <1>2, <1>3, <1>4, <1>5, <1>6, <1>7, <1>8, <1>9

LEMMA StrandedRequest ==
    ASSUME TypeOK, NoStrandedRow, NEW q \in Requests, RequestStep(q)
    PROVE  NoStrandedRow'
  <1> DEFINE f == request[q].f
             seen == request[q].seen
             r == row[f]
  <1>1. f \in Workflows => r \in Row /\ Recoverable(r) BY DEF TypeOK, NoStrandedRow
  <1>2. seen \in Row BY DEF TypeOK
  <1>3. ASSUME NEW x, f \in Workflows => Recoverable(x), row' = [row EXCEPT ![f] = x]
        PROVE  NoStrandedRow'
    BY <1>3, PutRecoverable
  <1>4. CASE UNCHANGED row BY <1>4 DEF NoStrandedRow
  <1>5. f \in Workflows =>
          \A a, n, s : /\ Recoverable([Requeued(r) EXCEPT !.art = a, !.requeues = n, !.steps = s])
                       /\ Recoverable([Requeued(r) EXCEPT !.attempts = a, !.result = n, !.steps = s])
                       /\ Recoverable([r EXCEPT !.art = a, !.requeues = n])
    BY <1>1 DEF Recoverable, Requeued, Row
  <1>6. f \in Workflows => Recoverable(Requeued(r)) /\ Recoverable(Reconciled(r, seen))
    BY <1>1, <1>2, RecoverableRows
  <1>7. CASE WriteRetry(q) BY <1>3, <1>6, <1>7 DEF WriteRetry, Answer
  <1>8. CASE WriteForce(q) BY <1>3, <1>5, <1>6, <1>8 DEF WriteForce, Answer
  <1>9. CASE WriteAttach(q) BY <1>3, <1>5, <1>9 DEF WriteAttach, Answer
  <1>10. CASE WriteSubmit(q) BY <1>3, <1>5, <1>10 DEF WriteSubmit, Answer
  <1>11. CASE WriteReconcile(q) BY <1>3, <1>6, <1>11 DEF WriteReconcile, Answer
  <1>12. QED BY <1>4, <1>7, <1>8, <1>9, <1>10, <1>11
             DEF RequestStep, ReadRetry, ReadForce, ReadAttach, ReadSubmit, ReadReconcile, Arrive

LEMMA StrandedStep == ASSUME TypeOK, NoStrandedRow, [Next]_vars PROVE NoStrandedRow'
  <1>1. CASE UNCHANGED row BY <1>1 DEF NoStrandedRow
  <1>2. CASE \E f \in Workflows : CreateWorkflow(f)
    <2>1. \A art : Recoverable([AbsentRow EXCEPT !.status = "pending", !.art = art])
      BY DEF Recoverable, AbsentRow
    <2>2. QED BY <1>2, <2>1, PutRecoverable DEF CreateWorkflow
  <1>3. ASSUME NEW w \in Workers, ClaimOne(w) PROVE NoStrandedRow'
    <2>1. worker[w].age \in Nat /\ worker[w].ids \subseteq Workflows BY DEF TypeOK, WorkerState
    <2>2. PICK f \in worker[w].ids :
            \/ row' = [row EXCEPT ![f] = [row[f] EXCEPT !.status = "running", !.owner = w,
                                                       !.lease = LeaseAfter(worker[w].age)]]
            \/ UNCHANGED row
      BY <1>3 DEF ClaimOne
    <2>3. row[f] \in Row /\ LeaseAfter(worker[w].age) >= 0 /\ w # NoOne
      BY <2>1, LeaseAfterType, QueueAssumption DEF TypeOK
    <2>4. Recoverable([row[f] EXCEPT !.status = "running", !.owner = w,
                                     !.lease = LeaseAfter(worker[w].age)])
      BY <2>3 DEF Recoverable, Row
    <2>5. QED BY <1>1, <2>2, <2>4, PutRecoverable
  <1>4. ASSUME NEW w \in Workers, ExecuteStep(w) PROVE NoStrandedRow' BY <1>4, StrandedExecute
  <1>5. CASE Tick
    <2>1. ASSUME NEW r \in Row, Recoverable(r)
          PROVE  Recoverable([r EXCEPT !.lease = Elapse(@), !.retry = Elapse(@)])
      BY <2>1 DEF Recoverable, Row, Elapse, Off
    <2>2. QED BY <1>5, <2>1 DEF Tick, NoStrandedRow, TypeOK
  <1>6. ASSUME NEW w \in Workers, ReconcileOne(w) PROVE NoStrandedRow'
    <2>1. PICK f \in worker[w].ids :
            row' = [row EXCEPT ![f] = Reconciled(row[f], worker[w].snap[f])]
      BY <1>6 DEF ReconcileOne
    <2>2. f \in Workflows /\ row[f] \in Row /\ worker[w].snap[f] \in Row
      BY DEF TypeOK, WorkerState
    <2>3. QED BY <2>1, <2>2, RecoverableRows, PutRecoverable DEF NoStrandedRow
  <1>7. ASSUME NEW q \in Requests, RequestStep(q) PROVE NoStrandedRow' BY <1>7, StrandedRequest
  <1>8. QED BY <1>1, <1>2, <1>3, <1>4, <1>5, <1>6, <1>7
            DEF Next, QueueNext, WorkerStep, Claim, ClaimScan, LoadClaimed, PickNext, EndBatch,
                Crash, Restart, Reconcile, ReconcileScan, vars

\* Whatever the interleaving of workers, reconcilers and requests, every row that has
\* not ended can be claimed now or when its lease or retry time runs out.
THEOREM NeverStranded == Spec => []NoStrandedRow
  <1>1. Init => NoStrandedRow BY DEF Init, NoStrandedRow, NoRows, AbsentRow, Recoverable
  <1>2. TypeOK /\ NoStrandedRow /\ [Next]_vars => NoStrandedRow' BY StrandedStep
  <1>3. QED BY <1>1, <1>2, TypeCorrect, PTL DEF Spec

-----------------------------------------------------------------------------
(* Steps are exclusive when a step is shorter than the lease *)

\* A worker in a step owns its row, and its lease has lost no more than the time
\* since the refresh before the step.
Secured(w) ==
    /\ worker[w].pc \in Stepping \cup {"begin"} => worker[w].cur \in Workflows
    /\ worker[w].pc \in InStep =>
        /\ Holds(w, worker[w].cur)
        /\ worker[w].age <= StepTicks
        /\ row[worker[w].cur].lease + worker[w].age >= LeaseTicks

LeaseInv == \A w \in Workers : Secured(w)

LEMMA StepNames ==
    /\ \A pc : pc \in InStep <=>
          pc \in {"mark", "run", "draft", "ran", "stepok", "stepwait", "stepfail", "defer", "fail"}
    /\ InStep \subseteq Stepping
    /\ Stepping = InStep \cup {"finish"}
    /\ "pick" \notin Stepping \cup {"begin"}
    /\ InStep \subseteq Working
    /\ \A n : StepPc(n) \notin InStep
  BY DEF InStep, Stepping, Working, StepPc

\* A worker that does not move stays secured if its row keeps its owner and lease.
LEMMA SecuredKept ==
    ASSUME NEW v \in Workers, Secured(v), worker'[v] = worker[v],
           worker[v].pc \in InStep =>
             /\ row'[worker[v].cur].status = row[worker[v].cur].status
             /\ row'[worker[v].cur].owner = row[worker[v].cur].owner
             /\ row'[worker[v].cur].lease = row[worker[v].cur].lease
    PROVE  Secured(v)'
  BY DEF Secured, Holds

LEMMA OthersMove ==
    ASSUME TypeOK, NEW w \in Workers, NEW s, Become(w, s)
    PROVE  worker'[w] = s /\ \A v \in Workers : v # w => worker'[v] = worker[v]
  BY DEF TypeOK, Become

LEMMA LeftPicks ==
    ASSUME TypeOK, NEW w \in Workers, Become(w, Left(worker[w]))
    PROVE  worker'[w].pc = "pick"
  <1>1. worker'[w] = Left(worker[w]) BY OthersMove
  <1>2. worker[w] \in WorkerState BY DEF TypeOK
  <1>3. QED BY <1>1, <1>2 DEF Left, WorkerState

\* Only w can change a row that w holds, so the other workers stay secured.
LEMMA HolderMoves ==
    ASSUME TypeOK, LeaseInv, NEW w \in Workers, NEW v \in Workers, v # w,
           NEW f, NEW r, worker'[v] = worker[v],
           row' = row \/ (row' = [row EXCEPT ![f] = r] /\ (Holds(w, f) \/ (f \in Workflows => Due(row[f])))),
           StepTicks < LeaseTicks
    PROVE  Secured(v)'
  <1> SUFFICES ASSUME worker[v].pc \in InStep
               PROVE  row'[worker[v].cur] = row[worker[v].cur]
    BY SecuredKept DEF LeaseInv
  <1> DEFINE g == worker[v].cur
  <1>1. /\ g \in Workflows /\ Holds(v, g) /\ worker[v].age <= StepTicks
        /\ row[g].lease + worker[v].age >= LeaseTicks
    BY StepNames DEF LeaseInv, Secured
  <1>2. row[g] \in Row /\ worker[v].age \in Nat BY <1>1 DEF TypeOK, WorkerState
  <1>3. row[g].lease \in Int BY <1>2 DEF Row
  <1>4. row[g].lease > 0 BY <1>1, <1>2, <1>3, QueueAssumption
  <1>5. ~Due(row[g]) BY <1>1, <1>4 DEF Due, Holds
  <1>6. ~Holds(w, g) BY <1>1 DEF Holds
  <1>7. CASE row' = row BY <1>7
  <1>8. CASE /\ row' = [row EXCEPT ![f] = r]
             /\ Holds(w, f) \/ (f \in Workflows => Due(row[f]))
    <2>1. f # g BY <1>1, <1>5, <1>6, <1>8
    <2>2. QED BY <1>1, <1>8, <2>1 DEF TypeOK
  <1>9. QED BY <1>7, <1>8

LEMMA LeaseExecute ==
    ASSUME TypeOK, LeaseInv, StepTicks < LeaseTicks, NEW w \in Workers, ExecuteStep(w)
    PROVE  LeaseInv'
  <1> DEFINE f == worker[w].cur
             r == row[f]
  <1>1. worker[w] \in WorkerState /\ worker[w].age \in Nat BY DEF TypeOK, WorkerState
  <1>2. PICK s, x : Become(w, s) /\ (row' = row \/ (row' = [row EXCEPT ![f] = x] /\ Holds(w, f)))
    <2>1. CASE RefreshBefore(w) \/ RefreshAfter(w)
      BY <2>1 DEF RefreshBefore, RefreshAfter, RefreshLock
    <2>2. CASE RunPrepare(w) \/ RunSubmit(w) \/ RunDeferred(w) \/ RunFailed(w) \/ RunConfirm(w)
      BY <2>2 DEF RunPrepare, RunSubmit, RunDeferred, RunFailed, RunConfirm
    <2>3. CASE WriteDraft(w) BY <2>3 DEF WriteDraft
    <2>4. CASE MarkStepRunning(w) \/ MarkStepSucceeded(w) \/ MarkStepWaiting(w) \/ MarkStepFailed(w)
      <3>1. worker[w].pc \in InStep
        BY <2>4, StepNames DEF MarkStepRunning, MarkStepSucceeded, MarkStepWaiting, MarkStepFailed, At
      <3>2. Holds(w, f) BY <3>1 DEF LeaseInv, Secured
      <3>3. QED BY <2>4, <3>2
                DEF MarkStepRunning, MarkStepSucceeded, MarkStepWaiting, MarkStepFailed, WriteStep
    <2>5. CASE MarkSucceeded(w) \/ MarkFailed(w) \/ MarkDeferred(w)
      BY <2>5 DEF MarkSucceeded, MarkFailed, MarkDeferred, LastWrite
    <2>6. QED BY <2>1, <2>2, <2>3, <2>4, <2>5 DEF ExecuteStep
  <1>3. ASSUME NEW v \in Workers, v # w PROVE Secured(v)'
    BY <1>2, <1>3, OthersMove, HolderMoves
  <1>4. Secured(w)'
    <2>1. CASE RefreshBefore(w) \/ RefreshAfter(w)
      <3>1. PICK to : \/ /\ Holds(w, f) /\ row[f].lease > 0
                        /\ row' = [row EXCEPT ![f] = [row[f] EXCEPT !.lease = LeaseTicks]]
                        /\ Become(w, [worker[w] EXCEPT !.pc = to, !.age = 0])
                     \/ Become(w, Left(worker[w]))
        BY <2>1 DEF RefreshBefore, RefreshAfter, RefreshLock
      <3>2. CASE Become(w, Left(worker[w]))
        <4>1. worker'[w].pc = "pick" BY <3>2, LeftPicks
        <4>2. QED BY <4>1, StepNames DEF Secured
      <3>3. CASE /\ Holds(w, f)
                 /\ row' = [row EXCEPT ![f] = [row[f] EXCEPT !.lease = LeaseTicks]]
                 /\ Become(w, [worker[w] EXCEPT !.pc = to, !.age = 0])
        <4>1. worker'[w] = [worker[w] EXCEPT !.pc = to, !.age = 0] BY <3>3, OthersMove
        <4>2. worker'[w].cur = f /\ worker'[w].age = 0 BY <1>1, <4>1 DEF WorkerState
        <4>3. f \in Workflows
          BY <2>1, StepNames DEF RefreshBefore, RefreshAfter, RefreshLock, At, LeaseInv, Secured
        <4>4. row[f] \in Row BY <4>3 DEF TypeOK
        <4>5. row'[f] = [row[f] EXCEPT !.lease = LeaseTicks] BY <3>3, <4>3 DEF TypeOK
        <4>6. QED BY <3>3, <4>2, <4>3, <4>4, <4>5, QueueAssumption DEF Secured, Holds, Row
      <3>4. QED BY <3>1, <3>2, <3>3
    <2>2. CASE /\ worker[w].pc \in InStep
               /\ worker'[w].cur = f /\ worker'[w].age = worker[w].age
               /\ row[f] \in Row => /\ row'[f].status = row[f].status
                                   /\ row'[f].owner = row[f].owner
                                   /\ row'[f].lease = row[f].lease
      <3>1. f \in Workflows BY <2>2, StepNames DEF LeaseInv, Secured
      <3>2. row[f] \in Row BY <3>1 DEF TypeOK
      <3>3. QED BY <2>2, <3>1, <3>2 DEF LeaseInv, Secured, Holds
    <2>3. CASE RunPrepare(w) \/ RunSubmit(w) \/ RunDeferred(w) \/ RunFailed(w) \/ RunConfirm(w)
      <3>1. worker[w].pc = "run" /\ row' = row
        BY <2>3 DEF RunPrepare, RunSubmit, RunDeferred, RunFailed, RunConfirm, At
      <3>2. worker'[w].cur = f /\ worker'[w].age = worker[w].age
        <4>1. PICK pc, res, b :
                 \/ Become(w, [worker[w] EXCEPT !.pc = pc])
                 \/ Become(w, [worker[w] EXCEPT !.pc = pc, !.res = res])
                 \/ Become(w, [worker[w] EXCEPT !.pc = pc, !.retryable = b])
          <5>1. CASE RunPrepare(w) BY <5>1 DEF RunPrepare
          <5>2. CASE RunSubmit(w) BY <5>2 DEF RunSubmit
          <5>3. CASE RunDeferred(w) BY <5>3 DEF RunDeferred
          <5>4. CASE RunFailed(w) BY <5>4 DEF RunFailed
          <5>5. CASE RunConfirm(w) BY <5>5 DEF RunConfirm
          <5>6. QED BY <2>3, <5>1, <5>2, <5>3, <5>4, <5>5
        <4>2. \/ worker'[w] = [worker[w] EXCEPT !.pc = pc]
              \/ worker'[w] = [worker[w] EXCEPT !.pc = pc, !.res = res]
              \/ worker'[w] = [worker[w] EXCEPT !.pc = pc, !.retryable = b]
          BY <4>1, OthersMove
        <4>3. QED BY <1>1, <4>2 DEF WorkerState
      <3>3. QED BY <2>2, <3>1, <3>2, StepNames
    <2>4. CASE MarkStepRunning(w) \/ MarkStepWaiting(w) \/ MarkStepFailed(w) \/ MarkStepSucceeded(w)
      <3>1. /\ worker[w].pc \in InStep
            /\ \E u : row' = [row EXCEPT ![f] = [row[f] EXCEPT !.steps[worker[w].step] = u]]
        BY <2>4, StepNames
           DEF MarkStepRunning, MarkStepSucceeded, MarkStepWaiting, MarkStepFailed, At, WriteStep
      <3>2. worker'[w].cur = f /\ worker'[w].age = worker[w].age
        <4>1. PICK pc, n : \/ Become(w, [worker[w] EXCEPT !.pc = pc])
                          \/ Become(w, [worker[w] EXCEPT !.pc = pc, !.step = n])
          <5>1. CASE MarkStepRunning(w) BY <5>1 DEF MarkStepRunning
          <5>2. CASE MarkStepWaiting(w) BY <5>2 DEF MarkStepWaiting
          <5>3. CASE MarkStepFailed(w) BY <5>3 DEF MarkStepFailed
          <5>4. CASE MarkStepSucceeded(w) BY <5>4 DEF MarkStepSucceeded
          <5>5. QED BY <2>4, <5>1, <5>2, <5>3, <5>4
        <4>2. \/ worker'[w] = [worker[w] EXCEPT !.pc = pc]
              \/ worker'[w] = [worker[w] EXCEPT !.pc = pc, !.step = n]
          BY <4>1, OthersMove
        <4>3. QED BY <1>1, <4>2 DEF WorkerState
      <3>3. f \in Workflows BY <3>1, StepNames DEF LeaseInv, Secured
      <3>4. row[f] \in Row => /\ row'[f].status = row[f].status
                            /\ row'[f].owner = row[f].owner
                            /\ row'[f].lease = row[f].lease
        BY <3>1, <3>3 DEF TypeOK, Row
      <3>5. QED BY <2>2, <3>1, <3>2, <3>4
    <2>5. CASE WriteDraft(w)
      <3>1. CASE Become(w, Left(worker[w]))
        <4>1. worker'[w].pc = "pick" BY <3>1, LeftPicks
        <4>2. QED BY <4>1, StepNames DEF Secured
      <3>2. CASE /\ row' = [row EXCEPT ![f] = [row[f] EXCEPT !.result = worker[w].res]]
                 /\ Become(w, [worker[w] EXCEPT !.pc = "ran"])
        <4>1. worker[w].pc \in InStep BY <2>5, StepNames DEF WriteDraft, At
        <4>2. f \in Workflows BY <4>1, StepNames DEF LeaseInv, Secured
        <4>3. worker'[w].cur = f /\ worker'[w].age = worker[w].age
          BY <1>1, <3>2, OthersMove DEF WorkerState
        <4>4. row[f] \in Row => /\ row'[f].status = row[f].status
                              /\ row'[f].owner = row[f].owner
                              /\ row'[f].lease = row[f].lease
          BY <3>2, <4>2 DEF TypeOK, Row
        <4>5. QED BY <2>2, <4>1, <4>3, <4>4
      <3>3. QED BY <2>5, <3>1, <3>2 DEF WriteDraft
    <2>6. CASE MarkSucceeded(w) \/ MarkFailed(w) \/ MarkDeferred(w)
      <3>1. Become(w, Left(worker[w]))
        BY <2>6 DEF MarkSucceeded, MarkFailed, MarkDeferred, LastWrite
      <3>2. worker'[w].pc = "pick" BY <3>1, LeftPicks
      <3>3. QED BY <3>2, StepNames DEF Secured
    <2>7. QED BY <2>1, <2>3, <2>4, <2>5, <2>6 DEF ExecuteStep
  <1>5. QED BY <1>3, <1>4 DEF LeaseInv

\* Between two steps a worker is at none of the counters that need a row.
LEMMA Outside ==
    \A pc \in {"idle", "down", "reconcile", "claim", "pick"} :
        pc \notin InStep /\ pc \notin Stepping \cup {"begin"}
  BY DEF InStep, Stepping

LEMMA LeaseClaim ==
    ASSUME TypeOK, LeaseInv, StepTicks < LeaseTicks, NEW w \in Workers, Claim(w)
    PROVE  LeaseInv'
  <1>1. worker[w] \in WorkerState BY DEF TypeOK
  <1>2. PICK s, f, x : /\ Become(w, s)
                       /\ row' = row \/ (row' = [row EXCEPT ![f] = x] /\ Due(row[f]))
                       /\ s.pc \notin InStep
                       /\ s.pc \in Stepping \cup {"begin"} => s.cur \in Workflows
    <2>1. CASE ClaimScan(w)
      <3>1. \A ids : [worker[w] EXCEPT !.pc = "claim", !.age = 0, !.snap = NoRows,
                                       !.ids = ids].pc = "claim"
        BY <1>1 DEF WorkerState
      <3>2. QED BY <2>1, <3>1, Outside DEF ClaimScan
    <2>2. CASE ClaimOne(w)
      <3>1. worker[w].pc = "claim" BY <2>2 DEF ClaimOne, At
      <3>2. \A a, b : [worker[w] EXCEPT !.mine = a, !.ids = b].pc = "claim"
        BY <1>1, <3>1 DEF WorkerState
      <3>3. \A b : [worker[w] EXCEPT !.ids = b].pc = "claim" BY <1>1, <3>1 DEF WorkerState
      <3>4. PICK f \in worker[w].ids :
              \/ /\ Due(row[f])
                 /\ \E x : row' = [row EXCEPT ![f] = x]
                 /\ \E a, b : Become(w, [worker[w] EXCEPT !.mine = a, !.ids = b])
              \/ (\E b : Become(w, [worker[w] EXCEPT !.ids = b])) /\ row' = row
        BY <2>2 DEF ClaimOne
      <3>5. QED BY <3>2, <3>3, <3>4, Outside
    <2>3. CASE LoadClaimed(w)
      <3>1. [worker[w] EXCEPT !.pc = "pick", !.snap = row].pc = "pick" BY <1>1 DEF WorkerState
      <3>2. QED BY <2>3, <3>1, Outside DEF LoadClaimed
    <2>4. CASE PickNext(w)
      <3>1. PICK g \in worker[w].mine, n \in Prepare..Finished :
              \E a, b : Become(w, [worker[w] EXCEPT !.pc = StepPc(n), !.cur = g, !.mine = a,
                                     !.step = n, !.res = b])
        BY <2>4 DEF PickNext
      <3>2. g \in Workflows BY <1>1 DEF WorkerState
      <3>3. \A mine, res :
              LET s == [worker[w] EXCEPT !.pc = StepPc(n), !.cur = g, !.mine = mine,
                                         !.step = n, !.res = res]
              IN  s.pc = StepPc(n) /\ s.cur = g
        BY <1>1 DEF WorkerState
      <3>4. PICK a, b : Become(w, [worker[w] EXCEPT !.pc = StepPc(n), !.cur = g, !.mine = a,
                                     !.step = n, !.res = b])
        BY <3>1
      <3>5. row' = row BY <2>4 DEF PickNext
      <3>6. QED
        <4> DEFINE s == [worker[w] EXCEPT !.pc = StepPc(n), !.cur = g, !.mine = a,
                                          !.step = n, !.res = b]
        <4>1. s.pc = StepPc(n) /\ s.cur = g BY <3>3
        <4>2. s.pc \notin InStep /\ s.cur \in Workflows BY <3>2, <4>1, StepNames
        <4>3. QED BY <3>4, <3>5, <4>2
    <2>5. CASE EndBatch(w) BY <2>5 DEF EndBatch, Idle, Stepping, InStep
    <2>6. QED BY <2>1, <2>2, <2>3, <2>4, <2>5 DEF Claim
  <1>3. ASSUME NEW v \in Workers, v # w PROVE Secured(v)'
    BY <1>2, <1>3, OthersMove, HolderMoves
  <1>4. Secured(w)' BY <1>2, OthersMove DEF Secured
  <1>5. QED BY <1>3, <1>4 DEF LeaseInv

LEMMA LeaseTick ==
    ASSUME TypeOK, LeaseInv, StepTicks < LeaseTicks, Tick
    PROVE  LeaseInv'
  <1> SUFFICES ASSUME NEW v \in Workers PROVE Secured(v)' BY DEF LeaseInv
  <1> DEFINE f == worker[v].cur
  <1>1. worker[v] \in WorkerState /\ worker[v].age \in Nat BY DEF TypeOK, WorkerState
  <1>2. worker'[v].pc = worker[v].pc /\ worker'[v].cur = f
    BY <1>1 DEF Tick, TypeOK, WorkerState
  <1>3. CASE worker[v].pc \notin InStep BY <1>2, <1>3 DEF Secured, LeaseInv
  <1>4. CASE worker[v].pc \in InStep
    <2>1. /\ f \in Workflows /\ Holds(v, f)
          /\ worker[v].age <= StepTicks /\ row[f].lease + worker[v].age >= LeaseTicks
      BY <1>4, StepNames DEF Secured, LeaseInv
    <2>2. row[f] \in Row /\ row[f].lease \in Int BY <2>1 DEF TypeOK, Row
    <2>3. worker'[v].age = worker[v].age + 1
      BY <1>1, <1>4, StepNames DEF Tick, TypeOK, WorkerState
    <2>4. worker[v].age < StepTicks BY <1>4, StepNames DEF Tick, MayLast
    <2>5. row'[f].lease = Elapse(row[f].lease) /\ row'[f].status = row[f].status
          /\ row'[f].owner = row[f].owner
      BY <2>1, <2>2 DEF Tick, Row
    <2>6. row[f].lease > 0 BY <1>1, <2>1, <2>2, QueueAssumption
    <2>7. row'[f].lease = row[f].lease - 1 BY <2>2, <2>5, <2>6 DEF Elapse
    <2>8. QED BY <1>1, <1>2, <2>1, <2>2, <2>3, <2>4, <2>5, <2>7, QueueAssumption
              DEF Secured, Holds
  <1>5. QED BY <1>3, <1>4

LEMMA LeaseStep ==
    ASSUME TypeOK, LeaseInv, StepTicks < LeaseTicks, [QueueNext]_vars
    PROVE  LeaseInv'
  <1>1. CASE \E f \in Workflows : CreateWorkflow(f)
    <2>1. PICK f \in Workflows : CreateWorkflow(f) BY <1>1
    <2>2. PICK r : row' = [row EXCEPT ![f] = r] BY <2>1 DEF CreateWorkflow
    <2>3. SUFFICES ASSUME NEW v \in Workers, worker[v].pc \in InStep
                   PROVE  row'[worker[v].cur] = row[worker[v].cur]
      BY <2>1, SecuredKept DEF LeaseInv, CreateWorkflow
    <2>4. worker[v].cur \in Workflows /\ Holds(v, worker[v].cur)
      BY <2>3, StepNames DEF LeaseInv, Secured
    <2>5. QED BY <2>1, <2>2, <2>4 DEF TypeOK, CreateWorkflow, Holds
  <1>2. ASSUME NEW w \in Workers, Crash(w) \/ Restart(w) PROVE LeaseInv'
    <2>1. /\ row' = row
          /\ Become(w, [Idle EXCEPT !.pc = "down"]) \/ Become(w, Idle)
      BY <1>2 DEF Crash, Restart
    <2>2. worker'[w].pc \in {"idle", "down"} BY <2>1, OthersMove DEF Idle
    <2>3. Secured(w)' BY <2>2 DEF Secured, InStep, Stepping
    <2>4. \A v \in Workers : v # w => Secured(v)' BY <2>1, OthersMove, SecuredKept DEF LeaseInv
    <2>5. QED BY <2>3, <2>4 DEF LeaseInv
  <1>3. CASE UNCHANGED vars BY <1>3 DEF vars, LeaseInv, Secured, Holds
  <1>4. QED BY <1>1, <1>2, <1>3, LeaseClaim, LeaseExecute, LeaseTick DEF QueueNext, WorkerStep

LEMMA LeaseAlways == ASSUME StepTicks < LeaseTicks PROVE QueueSpec => []LeaseInv
  <1>1. Init => LeaseInv BY DEF Init, LeaseInv, Secured, Idle, InStep, Stepping
  <1>2. TypeOK /\ LeaseInv /\ [QueueNext]_vars => LeaseInv' BY LeaseStep
  <1>3. QED BY <1>1, <1>2, TypeCorrect, QueueSteps, PTL DEF QueueSpec

\* When a step is shorter than the lease, the queue never lets two workers be in a
\* step of the same workflow.
THEOREM StepsExclusive == ASSUME StepTicks < LeaseTicks PROVE QueueSpec => []Exclusive
  <1>1. LeaseInv => Exclusive
    BY QueueAssumption DEF LeaseInv, Secured, Exclusive, Executing, Holds
  <1>2. QED BY <1>1, LeaseAlways, PTL
=============================================================================
