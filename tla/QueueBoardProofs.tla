-------------------------- MODULE QueueBoardProofs --------------------------
(***************************************************************************)
(* The workflow queue implements the board of JobBoard, for any number of  *)
(* workflows, workers and requests, and what a finished row says of its    *)
(* steps.                                                                  *)
(*                                                                         *)
(* A worker decides by the copies of rows that it read, so that a workflow *)
(* is done only after its service has run is a fact about three places:    *)
(* the rows, the copies, and how far a worker is with a workflow (Past).   *)
(***************************************************************************)
EXTENDS WorkflowQueueProofs

-----------------------------------------------------------------------------
(* Nothing is done before its service has run *)

\* The service of the workflow that a worker is at has run.
Past(s) == s.step > Submit \/ (s.step = Submit /\ s.pc \in {"draft", "ran", "stepok"})

Justified(performed, rows, s) ==
    /\ \A f \in Workflows : s.snap[f].steps[Submit] = "succeeded" => performed[f]
    /\ \A f \in s.mine : rows[f].status # "absent"
    /\ s.pc \in Stepping \cup {"begin"} =>
          /\ s.cur \in Workflows /\ rows[s.cur].status # "absent"
          /\ Past(s) => performed[s.cur]
    /\ s.pc = "finish" => s.step = Finished

RowsJustified(performed, rows) ==
    \A f \in Workflows : rows[f].steps[Submit] = "succeeded" => performed[f]

BoardInv ==
    /\ RowsJustified(ran, row)
    /\ \A w \in Workers : Justified(ran, row, worker[w])


\* A row that is there stays, and a service that has run has run.
Lasting(performed, after, rows, new) ==
    \A f \in Workflows :
        /\ performed[f] => after[f]
        /\ rows[f].status # "absent" => new[f].status # "absent"

LEMMA JustifiedLasts ==
    ASSUME NEW s \in WorkerState, NEW performed, NEW after, NEW rows, NEW new,
           Lasting(performed, after, rows, new), Justified(performed, rows, s)
    PROVE  Justified(after, new, s)
  BY DEF Lasting, Justified, WorkerState

LEMMA WorkerMoves ==
    ASSUME TypeOK, BoardInv, NEW w \in Workers, NEW s, Become(w, s),
           Lasting(ran, ran', row, row'), RowsJustified(ran', row'), Justified(ran', row', s)
    PROVE  BoardInv'
  <1> SUFFICES ASSUME NEW v \in Workers PROVE Justified(ran', row', worker'[v])
    BY DEF BoardInv
  <1>1. CASE v = w BY <1>1, OthersMove
  <1>2. CASE v # w
    <2>1. worker'[v] = worker[v] /\ worker[v] \in WorkerState BY <1>2, OthersMove DEF TypeOK
    <2>2. QED BY <2>1, JustifiedLasts DEF BoardInv
  <1>3. QED BY <1>1, <1>2

LEMMA NobodyMoves ==
    ASSUME TypeOK, BoardInv, UNCHANGED worker,
           Lasting(ran, ran', row, row'), RowsJustified(ran', row')
    PROVE  BoardInv'
  <1> SUFFICES ASSUME NEW v \in Workers PROVE Justified(ran', row', worker'[v])
    BY DEF BoardInv
  <1>1. worker'[v] = worker[v] /\ worker[v] \in WorkerState BY DEF TypeOK
  <1>2. QED BY <1>1, JustifiedLasts DEF BoardInv

-----------------------------------------------------------------------------
(* Changes of a row, and what a client sees of them *)

Ended == {"succeeded", "cancelled"}

\* How the queue changes the status of a row.
Moves(from, to, performed) ==
    \/ to = from
    \/ from \notin Ended /\ to \in {"pending", "running", "failed"}
    \/ from = "running" /\ (to = "cancelled" \/ (to = "succeeded" /\ performed))

BoardStep == [Board!Next]_(Board!boardVars)
BoardFinalStep == [Board!FinalNext]_(Board!boardVars)

LEMMA Outcomes ==
    /\ \A f \in {"pending", "running", "failed"} : OutcomeOf(f) = "open"
    /\ OutcomeOf("absent") = "none" /\ OutcomeOf("succeeded") = "done" /\ OutcomeOf("cancelled") = "dead"
  BY DEF OutcomeOf

\* Nothing changes that the board shows.
LEMMA BoardStutters ==
    ASSUME \A f \in Workflows : row'[f].status = row[f].status, ran' = ran
    PROVE  BoardFinalStep
  BY DEF BoardFinalStep, Board!boardVars

\* A change of one row is a turn of its job.
LEMMA BoardTurns ==
    ASSUME TypeOK, NEW f \in Workflows, NEW r, row' = [row EXCEPT ![f] = r], ran' = ran
    PROVE  Board!Turn(f, OutcomeOf(row[f].status), OutcomeOf(r.status))
  <1> DEFINE outcome == [g \in Workflows |-> OutcomeOf(row[g].status)]
             later == [g \in Workflows |-> OutcomeOf(row'[g].status)]
  <1>1. \A g \in Workflows : row'[g] = IF g = f THEN r ELSE row[g] BY DEF TypeOK
  <1>2. later = [outcome EXCEPT ![f] = OutcomeOf(r.status)]
    <2>1. \A g \in Workflows : later[g] = IF g = f THEN OutcomeOf(r.status) ELSE outcome[g] BY <1>1
    <2>2. QED BY <2>1
  <1>3. outcome' = later OBVIOUS
  <1>4. QED BY <1>2, <1>3 DEF Board!Turn

LEMMA FinalMoves ==
    ASSUME TypeOK, NEW f \in Workflows, NEW r, row' = [row EXCEPT ![f] = r], ran' = ran,
           Moves(row[f].status, r.status, ran[f])
    PROVE  BoardFinalStep
  <1> DEFINE from == row[f].status
             to == r.status
  <1>0. from \in Status BY DEF TypeOK, Row
  <1>1. CASE to = from
    <2>1. \A g \in Workflows : row'[g].status = row[g].status BY <1>1 DEF TypeOK
    <2>2. QED BY <2>1, BoardStutters
  <1>2. CASE from = "absent" /\ to \in {"pending", "running", "failed"}
    <2>1. Board!Turn(f, "none", "open") BY <1>2, BoardTurns, Outcomes
    <2>2. QED BY <2>1 DEF BoardFinalStep, Board!FinalNext, Board!Post
  <1>3. CASE from \in {"pending", "running", "failed"} /\ to \in {"pending", "running", "failed"}
    <2>1. Board!Turn(f, "open", "open") BY <1>3, BoardTurns, Outcomes
    <2>2. \A g \in Workflows : OutcomeOf(row'[g].status) = OutcomeOf(row[g].status)
      BY <1>3, Outcomes DEF TypeOK
    <2>3. QED BY <2>2 DEF BoardFinalStep, Board!boardVars
  <1>4. CASE from = "running" /\ to = "cancelled"
    <2>1. Board!Turn(f, "open", "dead") BY <1>4, BoardTurns, Outcomes
    <2>2. QED BY <2>1 DEF BoardFinalStep, Board!FinalNext, Board!GiveUp
  <1>5. CASE from = "running" /\ to = "succeeded" /\ ran[f]
    <2>1. Board!Turn(f, "open", "done") BY <1>5, BoardTurns, Outcomes
    <2>2. QED BY <1>5, <2>1 DEF BoardFinalStep, Board!FinalNext, Board!Complete
  <1>6. QED BY <1>0, <1>1, <1>2, <1>3, <1>4, <1>5 DEF Moves, Ended, Status

\* Someone outside the queue may also open a job that ended.
LEMMA OutsideMoves ==
    ASSUME TypeOK, NEW f \in Workflows, NEW r, row' = [row EXCEPT ![f] = r], ran' = ran,
           r.status \in {"pending", row[f].status}
    PROVE  BoardStep
  <1>1. CASE row[f].status \notin Ended \/ r.status = row[f].status
    <2>1. BoardFinalStep BY <1>1, FinalMoves DEF Moves
    <2>2. QED BY <2>1 DEF BoardFinalStep, BoardStep, Board!Next
  <1>2. CASE row[f].status = "succeeded" /\ r.status = "pending"
    <2>1. Board!Turn(f, "done", "open") BY <1>2, BoardTurns, Outcomes
    <2>2. QED BY <2>1 DEF BoardStep, Board!Next, Board!Reopen
  <1>3. CASE row[f].status = "cancelled" /\ r.status = "pending"
    <2>1. Board!Turn(f, "dead", "open") BY <1>3, BoardTurns, Outcomes
    <2>2. QED BY <2>1 DEF BoardStep, Board!Next, Board!Reopen
  <1>4. QED BY <1>1, <1>2, <1>3 DEF Ended

\* A row keeps what justifies it.
LEMMA PutJustified ==
    ASSUME TypeOK, RowsJustified(ran, row), NEW f, NEW r, row' = [row EXCEPT ![f] = r], ran' = ran,
           f \in Workflows => r.status # "absent" \/ r.status = row[f].status,
           f \in Workflows => (r.steps[Submit] = "succeeded" => ran[f])
    PROVE  Lasting(ran, ran', row, row') /\ RowsJustified(ran', row')
  BY DEF TypeOK, Lasting, RowsJustified

LEMMA NothingWritten ==
    ASSUME UNCHANGED <<row, ran>>, RowsJustified(ran, row)
    PROVE  Lasting(ran, ran', row, row') /\ RowsJustified(ran', row') /\ BoardFinalStep
  BY BoardStutters DEF Lasting, RowsJustified

-----------------------------------------------------------------------------
(* The steps of a worker *)

LEMMA Numbers == Prepare = 1 /\ Submit = 2 /\ Confirm = 3 /\ Finished = 4
  BY DEF Prepare, Submit, Confirm, Finished

LEMMA Holding ==
    ASSUME TypeOK, BoardInv, NEW w \in Workers
    PROVE  /\ worker[w] \in WorkerState /\ Justified(ran, row, worker[w])
           /\ worker[w].pc \in Stepping \cup {"begin"} =>
                 worker[w].cur \in Workflows /\ row[worker[w].cur] \in Row
  BY DEF TypeOK, BoardInv, Justified

\* A worker that leaves its workflow.
LEMMA LeftJustified ==
    ASSUME NEW performed, NEW rows, NEW s \in WorkerState, Justified(performed, rows, s)
    PROVE  Justified(performed, rows, Left(s))
  <1>1. Left(s).pc = "pick" /\ Left(s).snap = s.snap /\ Left(s).mine = s.mine
    BY DEF Left, WorkerState
  <1>2. QED BY <1>1, StepNames DEF Justified

\* A worker that stays at its workflow and its step.
LEMMA StaysJustified ==
    ASSUME NEW performed, NEW rows, NEW s, NEW t, Justified(performed, rows, s),
           s.pc \in Stepping \cup {"begin"}, t.pc # "finish",
           t.snap = s.snap /\ t.mine = s.mine /\ t.cur = s.cur /\ t.step = s.step,
           t.pc \in {"draft", "ran", "stepok"} =>
              s.pc \in {"draft", "ran", "stepok"} \/ s.step # Submit
    PROVE  Justified(performed, rows, t)
  BY DEF Justified, Past

\* A step that touches no row.
LEMMA MovesAlone ==
    ASSUME TypeOK, BoardInv, NEW w \in Workers, NEW s, Become(w, s), UNCHANGED <<row, ran>>,
           Justified(ran, row, s)
    PROVE  BoardInv' /\ BoardFinalStep
  <1>1. Lasting(ran, ran', row, row') /\ RowsJustified(ran', row') /\ BoardFinalStep
    BY NothingWritten DEF BoardInv
  <1>2. QED BY <1>1, WorkerMoves

\* A step that writes the row of a workflow.
LEMMA MovesAndWrites ==
    ASSUME TypeOK, BoardInv, NEW w \in Workers, NEW s, Become(w, s), Justified(ran, row, s),
           NEW f \in Workflows, NEW r, row' = [row EXCEPT ![f] = r], ran' = ran,
           s \in WorkerState, Moves(row[f].status, r.status, ran[f]),
           r.status # "absent" \/ r.status = row[f].status,
           r.steps[Submit] = "succeeded" => ran[f]
    PROVE  BoardInv' /\ BoardFinalStep
  <1>1. Lasting(ran, ran', row, row') /\ RowsJustified(ran', row')
    BY PutJustified DEF BoardInv
  <1>2. Justified(ran', row', s) BY <1>1, JustifiedLasts
  <1>3. QED BY <1>1, <1>2, WorkerMoves, FinalMoves

LEMMA RefreshBoard ==
    ASSUME TypeOK, BoardInv, NEW w \in Workers, NEW from, NEW to, RefreshLock(w, from, to),
           <<from, to>> \in {<<"begin", "mark">>, <<"ran", "stepok">>}
    PROVE  BoardInv' /\ BoardFinalStep
  <1> DEFINE s == worker[w]
             f == s.cur
             t == [s EXCEPT !.pc = to, !.age = 0]
             r == [row[f] EXCEPT !.lease = LeaseTicks]
  <1>1. s \in WorkerState /\ Justified(ran, row, s) /\ s.pc = from /\ from \in Stepping \cup {"begin"}
    BY Holding, StepNames DEF RefreshLock, At
  <1>2. f \in Workflows /\ row[f] \in Row BY <1>1, Holding
  <1>3. CASE Become(w, Left(s)) /\ UNCHANGED row
    BY <1>1, <1>3, LeftJustified, MovesAlone DEF RefreshLock
  <1>4. CASE Become(w, t) /\ row' = [row EXCEPT ![f] = r]
    <2>1. /\ t.snap = s.snap /\ t.mine = s.mine /\ t.cur = s.cur /\ t.step = s.step /\ t.pc = to
          /\ t \in WorkerState
      BY <1>1, Names DEF WorkerState
    <2>2. Justified(ran, row, t)
      <3>1. to # "finish" /\ (to = "stepok" => s.pc = "ran") /\ to \in {"mark", "stepok"} BY <1>1
      <3> HIDE DEF s, t
      <3>2. QED BY <1>1, <2>1, <3>1, StaysJustified
    <2>3. r.status = row[f].status /\ r.steps = row[f].steps BY <1>2 DEF Row
    <2>4. r.steps[Submit] = "succeeded" => ran[f] BY <1>2, <2>3 DEF BoardInv, RowsJustified
    <2>5. Moves(row[f].status, r.status, ran[f]) BY <2>3 DEF Moves
    <2>6. ran' = ran BY DEF RefreshLock
    <2> HIDE DEF s, f, t, r
    <2>7. QED BY <1>2, <1>4, <2>1, <2>2, <2>3, <2>4, <2>5, <2>6, MovesAndWrites
  <1>5. QED BY <1>3, <1>4 DEF RefreshLock

\* updateStepWithEvent, and on to the next counter.
LEMMA WriteStepBoard ==
    ASSUME TypeOK, BoardInv, NEW w \in Workers, NEW status, WriteStep(w, status), ran' = ran,
           worker[w].pc \in Stepping, NEW t \in WorkerState, Become(w, t), Justified(ran, row, t),
           status = "succeeded" /\ worker[w].step = Submit => ran[worker[w].cur]
    PROVE  BoardInv' /\ BoardFinalStep
  <1> DEFINE s == worker[w]
             f == s.cur
             r == [row[f] EXCEPT !.steps[s.step] = status]
  <1>1. s \in WorkerState /\ f \in Workflows /\ row[f] \in Row BY Holding
  <1>2. row' = [row EXCEPT ![f] = r] BY DEF WriteStep
  <1>3. r.status = row[f].status BY <1>1 DEF Row
  <1>4. r.steps[Submit] = "succeeded" => ran[f]
    <2>1. r.steps = [row[f].steps EXCEPT ![s.step] = status] BY <1>1 DEF Row
    <2>2. row[f].steps \in [Prepare..Confirm -> StepStatus] /\ Submit \in Prepare..Confirm
      BY <1>1, Names DEF Row
    <2>3. row[f].steps[Submit] = "succeeded" => ran[f] BY <1>1 DEF BoardInv, RowsJustified
    <2>4. CASE s.step = Submit BY <2>1, <2>2, <2>4
    <2>5. CASE s.step # Submit BY <2>1, <2>2, <2>3, <2>5
    <2>6. QED BY <2>4, <2>5
  <1>5. Moves(row[f].status, r.status, ran[f]) BY <1>3 DEF Moves
  <1> HIDE DEF s, f, r
  <1>6. QED BY <1>1, <1>2, <1>3, <1>4, <1>5, MovesAndWrites

LEMMA LastWriteBoard ==
    ASSUME TypeOK, BoardInv, NEW w \in Workers, NEW pc, NEW newRows, LastWrite(w, pc, newRows),
           pc \in Stepping,
           \A r \in newRows :
              /\ r.steps = row[worker[w].cur].steps
              /\ r.status \in {"pending", "failed", "cancelled"}
                 \/ (r.status = "succeeded" /\ ran[worker[w].cur])
    PROVE  BoardInv' /\ BoardFinalStep
  <1> DEFINE s == worker[w]
             f == s.cur
  <1>1. s \in WorkerState /\ Justified(ran, row, s) /\ f \in Workflows /\ row[f] \in Row
    BY Holding DEF LastWrite, At
  <1>2. Become(w, Left(s)) /\ Justified(ran, row, Left(s)) /\ Left(s) \in WorkerState /\ ran' = ran
    BY <1>1, LeftJustified, LeftType DEF LastWrite
  <1>3. CASE UNCHANGED row BY <1>2, <1>3, MovesAlone
  <1>4. CASE Holds(w, f) /\ \E r \in newRows : row' = [row EXCEPT ![f] = r]
    <2>1. PICK r \in newRows : row' = [row EXCEPT ![f] = r] BY <1>4
    <2>2. row[f].status = "running" BY <1>4 DEF Holds
    <2>3. Moves(row[f].status, r.status, ran[f]) /\ r.status # "absent" BY <2>2 DEF Moves, Ended
    <2>4. r.steps[Submit] = "succeeded" => ran[f] BY <1>1 DEF BoardInv, RowsJustified
    <2> HIDE DEF s, f
    <2>5. QED BY <1>1, <1>2, <2>1, <2>3, <2>4, MovesAndWrites
  <1>5. QED BY <1>3, <1>4 DEF LastWrite

LEMMA ExecuteBoard ==
    ASSUME TypeOK, BoardInv, NEW w \in Workers, ExecuteStep(w)
    PROVE  BoardInv' /\ BoardFinalStep
  <1> DEFINE s == worker[w]
             f == s.cur
  <1>1. s \in WorkerState /\ Justified(ran, row, s) BY Holding
  <1>2. s.pc \in Stepping => f \in Workflows /\ row[f] \in Row BY Holding
  <1>3. ASSUME NEW pc \in Pc PROVE LET t == [s EXCEPT !.pc = pc] IN
            t \in WorkerState /\ t.pc = pc /\ t.snap = s.snap /\ t.mine = s.mine /\ t.cur = s.cur /\ t.step = s.step
    BY <1>1 DEF WorkerState
  <1>4. CASE RefreshBefore(w) \/ RefreshAfter(w)
    BY <1>4, RefreshBoard DEF RefreshBefore, RefreshAfter
  \* Marking a step as running, waiting or failed.
  <1>5. ASSUME NEW from \in Stepping, NEW status, NEW pc \in {"run", "defer", "fail"},
               At(w, from), WriteStep(w, status), Become(w, [s EXCEPT !.pc = pc]), ran' = ran,
               status # "succeeded"
        PROVE  BoardInv' /\ BoardFinalStep
    <2> DEFINE t == [s EXCEPT !.pc = pc]
    <2>1. t \in WorkerState /\ t.pc = pc /\ t.snap = s.snap /\ t.mine = s.mine /\ t.cur = s.cur /\ t.step = s.step
      BY <1>3, Names
    <2>2. s.pc \in Stepping BY <1>5 DEF At
    <2> HIDE DEF t
    <2>3. Justified(ran, row, t) BY <1>1, <2>1, <2>2, StaysJustified
    <2>4. QED BY <1>5, <2>1, <2>2, <2>3, WriteStepBoard DEF t
  <1>6. CASE MarkStepRunning(w) BY <1>5, <1>6, StepNames DEF MarkStepRunning
  <1>7. CASE MarkStepWaiting(w) BY <1>5, <1>7, StepNames DEF MarkStepWaiting
  <1>8. CASE MarkStepFailed(w) BY <1>5, <1>8, StepNames DEF MarkStepFailed
  <1>9. CASE MarkStepSucceeded(w)
    <2>1. PICK n \in Prepare..Finished :
              /\ IsNextStep(s.snap[f].steps, s.step + 1, n)
              /\ Become(w, [s EXCEPT !.pc = StepPc(n), !.step = n])
      BY <1>9 DEF MarkStepSucceeded
    <2> DEFINE t == [s EXCEPT !.pc = StepPc(n), !.step = n]
    <2>2. StepPc(n) \in Pc BY Names DEF StepPc
    <2>3. t \in WorkerState /\ t.pc = StepPc(n) /\ t.snap = s.snap /\ t.mine = s.mine /\ t.cur = s.cur /\ t.step = n
      BY <1>1, <2>2 DEF WorkerState
    <2>4. s.pc = "stepok" /\ s.pc \in Stepping /\ s.step \in Prepare..Finished
      BY <1>1, <1>9, StepNames DEF MarkStepSucceeded, At, WorkerState
    <2>5. f \in Workflows BY <1>2, <2>4
    <2>6. s.step >= Submit => ran[f] BY <1>1, <2>4, Numbers DEF Justified, Past
    <2>7. n > Submit => ran[f]
      <3>1. CASE s.step >= Submit BY <2>6, <3>1
      <3>2. CASE s.step < Submit
        <4>1. s.step + 1 = Submit BY <2>4, <3>2, Numbers
        <4>2. n > Submit => s.snap[f].steps[Submit] = "succeeded"
          BY <2>1, <4>1, Numbers DEF IsNextStep
        <4>3. QED BY <1>1, <2>5, <4>2 DEF Justified
      <3>3. QED BY <2>4, <3>1, <3>2, Numbers
    <2>8. n = Finished <=> StepPc(n) = "finish" BY DEF StepPc
    <2>9. StepPc(n) \in {"begin", "finish"} BY DEF StepPc
    <2> HIDE DEF t
    <2>10. Justified(ran, row, t)
      <3>1. t.pc \in Stepping \cup {"begin"} BY <2>3, <2>9, StepNames
      <3>2. s.pc \in Stepping \cup {"begin"} BY <2>4
      <3>3. Past(t) => ran[t.cur] BY <2>3, <2>7, <2>9 DEF Past
      <3>4. t.pc = "finish" => t.step = Finished BY <2>3, <2>8
      <3>5. QED BY <1>1, <2>3, <3>1, <3>2, <3>3, <3>4 DEF Justified
    <2>11. WriteStep(w, "succeeded") /\ ran' = ran BY <1>9 DEF MarkStepSucceeded
    <2>12. s.step = Submit => ran[f] BY <2>6, Numbers
    <2>13. QED BY <2>1, <2>3, <2>4, <2>10, <2>11, <2>12, WriteStepBoard DEF t
  \* A service, or a parser, that changes nothing the board shows.
  <1>10. ASSUME NEW pc \in Pc \ {"finish"}, NEW t \in WorkerState, Become(w, t), At(w, "run"),
                t.pc = pc, t.snap = s.snap, t.mine = s.mine, t.cur = s.cur, t.step = s.step,
                UNCHANGED <<row, ran>>, pc \in {"draft", "ran", "stepok"} => s.step # Submit
         PROVE  BoardInv' /\ BoardFinalStep
    <2>1. s.pc \in Stepping BY <1>10, StepNames DEF At
    <2>2. Justified(ran, row, t) BY <1>1, <1>10, <2>1, StaysJustified
    <2>3. QED BY <1>10, <2>2, MovesAlone
  <1>11. CASE RunPrepare(w)
    <2> DEFINE t == [s EXCEPT !.pc = "ran"]
    <2>1. t \in WorkerState /\ t.pc = "ran" /\ t.snap = s.snap /\ t.mine = s.mine /\ t.cur = s.cur /\ t.step = s.step
      BY <1>3, Names
    <2>2. Become(w, t) /\ At(w, "run") /\ UNCHANGED <<row, ran>> /\ s.step # Submit
      BY <1>11, Numbers DEF RunPrepare
    <2> HIDE DEF t
    <2>3. QED BY <1>10, <2>1, <2>2, Names
  <1>12. CASE RunDeferred(w)
    <2> DEFINE t == [s EXCEPT !.pc = "stepwait"]
    <2>1. /\ t \in WorkerState /\ t.pc = "stepwait" /\ t.snap = s.snap /\ t.mine = s.mine
          /\ t.cur = s.cur /\ t.step = s.step
      BY <1>3, Names
    <2>2. Become(w, t) /\ At(w, "run") /\ UNCHANGED <<row, ran>> BY <1>12 DEF RunDeferred
    <2> HIDE DEF t
    <2>3. QED BY <1>10, <2>1, <2>2, Names
  <1>13. CASE RunFailed(w)
    <2>1. PICK b \in BOOLEAN : Become(w, [s EXCEPT !.pc = "stepfail", !.retryable = b]) BY <1>13 DEF RunFailed
    <2> DEFINE t == [s EXCEPT !.pc = "stepfail", !.retryable = b]
    <2>2. /\ t \in WorkerState /\ t.pc = "stepfail" /\ t.snap = s.snap /\ t.mine = s.mine
          /\ t.cur = s.cur /\ t.step = s.step
      BY <1>1, Names DEF WorkerState
    <2>3. Become(w, t) /\ At(w, "run") /\ UNCHANGED <<row, ran>> BY <1>13, <2>1 DEF RunFailed
    <2> HIDE DEF t
    <2>4. QED BY <1>10, <2>2, <2>3, Names
  <1>14. CASE RunConfirm(w)
    <2>1. PICK t \in {[s EXCEPT !.pc = "draft", !.res = "confirmed"], [s EXCEPT !.pc = "ran"]} : Become(w, t)
      BY <1>14 DEF RunConfirm
    <2>2. /\ t \in WorkerState /\ t.pc \in {"draft", "ran"} /\ t.snap = s.snap /\ t.mine = s.mine
          /\ t.cur = s.cur /\ t.step = s.step
      BY <1>1, Names DEF WorkerState
    <2>3. At(w, "run") /\ UNCHANGED <<row, ran>> /\ s.step # Submit BY <1>14, Numbers DEF RunConfirm
    <2>4. QED BY <1>10, <2>1, <2>2, <2>3, Names
  <1>15. CASE RunSubmit(w)
    <2> DEFINE t == [s EXCEPT !.pc = "draft", !.res = "submitted"]
    <2>1. /\ t \in WorkerState /\ t.pc = "draft" /\ t.snap = s.snap /\ t.mine = s.mine
          /\ t.cur = s.cur /\ t.step = s.step
      BY <1>1, Names DEF WorkerState
    <2>2. Become(w, t) /\ s.pc = "run" /\ row' = row /\ ran' = [ran EXCEPT ![f] = TRUE]
      BY <1>15 DEF RunSubmit, At
    <2>3. f \in Workflows /\ row[f].status # "absent" BY <1>1, <2>2, StepNames DEF Justified
    <2>4. ran \in [Workflows -> BOOLEAN] BY DEF TypeOK
    <2>5. ran'[f] = TRUE /\ \A g \in Workflows : ran[g] => ran'[g] BY <2>2, <2>3, <2>4
    <2>6. Lasting(ran, ran', row, row') /\ RowsJustified(ran', row')
      BY <2>2, <2>5 DEF Lasting, RowsJustified, BoardInv
    <2> HIDE DEF t
    <2>7. Justified(ran', row', t)
      <3>1. s.pc \in Stepping BY <2>2, StepNames
      <3>2. \A g \in Workflows : t.snap[g].steps[Submit] = "succeeded" => ran'[g]
        BY <1>1, <2>1, <2>5 DEF Justified
      <3>3. QED BY <1>1, <2>1, <2>2, <2>3, <2>5, <3>1, <3>2 DEF Justified
    <2>8. BoardInv' BY <2>2, <2>6, <2>7, WorkerMoves DEF t
    <2>9. BoardFinalStep
      <3>1. [g \in Workflows |-> OutcomeOf(row[g].status)][f] # "none"
        <4>1. OutcomeOf(row[f].status) # "none" BY <2>3, <1>2, <2>2, StepNames DEF OutcomeOf, Row, Status
        <4>2. QED BY <2>3, <4>1
      <3>2. Board!Perform(f) BY <2>2, <3>1 DEF Board!Perform
      <3>3. QED BY <2>3, <3>2 DEF BoardFinalStep, Board!FinalNext
    <2>10. QED BY <2>8, <2>9
  <1>16. CASE WriteDraft(w)
    <2> DEFINE t == [s EXCEPT !.pc = "ran"]
               r == [row[f] EXCEPT !.result = s.res]
    <2>1. t \in WorkerState /\ t.pc = "ran" /\ t.snap = s.snap /\ t.mine = s.mine /\ t.cur = s.cur /\ t.step = s.step
      BY <1>3, Names
    <2>2. s.pc = "draft" /\ s.pc \in Stepping /\ ran' = ran BY <1>16, StepNames DEF WriteDraft, At
    <2>3. CASE Become(w, Left(s)) /\ UNCHANGED row BY <1>1, <2>2, <2>3, LeftJustified, MovesAlone
    <2>4. CASE Become(w, t) /\ row' = [row EXCEPT ![f] = r]
      <3>1. f \in Workflows /\ row[f] \in Row BY <1>2, <2>2
      <3>2. r.status = row[f].status /\ r.steps = row[f].steps BY <3>1 DEF Row
      <3>3. r.steps[Submit] = "succeeded" => ran[f] BY <3>1, <3>2 DEF BoardInv, RowsJustified
      <3> HIDE DEF t, r, s, f
      <3>4. Justified(ran, row, t) BY <1>1, <2>1, <2>2, StaysJustified
      <3>5. Moves(row[f].status, r.status, ran[f]) BY <3>2 DEF Moves
      <3>6. QED BY <2>1, <2>2, <2>4, <3>1, <3>2, <3>3, <3>4, <3>5, MovesAndWrites
    <2>5. QED BY <1>16, <2>3, <2>4 DEF WriteDraft
  \* The last write of an execution.
  <1>17. ASSUME NEW r \in Row, NEW status, NEW result, NEW attempts, NEW retry
         PROVE  /\ Closed(r, status, result, attempts, retry).steps = r.steps
                /\ Closed(r, status, result, attempts, retry).status = status
    BY DEF Closed, Row
  <1>18. CASE MarkSucceeded(w)
    <2>1. s.pc = "finish" /\ s.pc \in Stepping BY <1>18, StepNames DEF MarkSucceeded, LastWrite, At
    <2>2. f \in Workflows /\ row[f] \in Row BY <1>2, <2>1
    <2>3. ran[f] BY <1>1, <2>1, Numbers DEF Justified, Past
    <2>4. QED BY <1>17, <1>18, <2>1, <2>2, <2>3, LastWriteBoard, StepNames DEF MarkSucceeded
  <1>19. CASE MarkFailed(w)
    <2>1. s.pc = "fail" /\ s.pc \in Stepping BY <1>19, StepNames DEF MarkFailed, LastWrite, At
    <2>2. f \in Workflows /\ row[f] \in Row BY <1>2, <2>1
    <2>3. QED BY <1>17, <1>19, <2>1, <2>2, LastWriteBoard, StepNames DEF MarkFailed
  <1>20. CASE MarkDeferred(w)
    <2>1. s.pc = "defer" /\ s.pc \in Stepping BY <1>20, StepNames DEF MarkDeferred, LastWrite, At
    <2>2. f \in Workflows /\ row[f] \in Row BY <1>2, <2>1
    <2>3. QED BY <1>17, <1>20, <2>1, <2>2, LastWriteBoard, StepNames DEF MarkDeferred
  <1>21. QED BY <1>4, <1>6, <1>7, <1>8, <1>9, <1>11, <1>12, <1>13, <1>14, <1>15, <1>16, <1>18, <1>19, <1>20
             DEF ExecuteStep

LEMMA ClaimBoard ==
    ASSUME TypeOK, BoardInv, NEW w \in Workers, Claim(w)
    PROVE  BoardInv' /\ BoardFinalStep
  <1> DEFINE s == worker[w]
  <1>1. s \in WorkerState /\ Justified(ran, row, s) BY Holding
  <1>2. RowsJustified(ran, row) BY DEF BoardInv
  <1>3. CASE ClaimScan(w)
    <2> DEFINE t == [s EXCEPT !.pc = "claim", !.age = 0, !.snap = NoRows, !.ids = Candidates]
    <2>1. t.pc = "claim" /\ t.mine = s.mine /\ t.snap = NoRows BY <1>1 DEF WorkerState
    <2>2. Become(w, t) /\ UNCHANGED <<row, ran>> BY <1>3 DEF ClaimScan
    <2> HIDE DEF t
    <2>3. Justified(ran, row, t)
      BY <1>1, <2>1, Outside, Numbers DEF Justified, NoRows, AbsentRow
    <2>4. QED BY <2>2, <2>3, MovesAlone
  <1>4. CASE ClaimOne(w)
    <2>0. s.pc = "claim" BY <1>4 DEF ClaimOne, At
    <2>1. PICK f \in s.ids :
            \/ /\ Due(row[f])
               /\ row' = [row EXCEPT ![f] = [row[f] EXCEPT !.status = "running", !.owner = w,
                                                  !.lease = LeaseAfter(s.age)]]
               /\ Become(w, [s EXCEPT !.mine = @ \cup {f},
                    !.ids = IF Cardinality(s.mine) + 1 >= BatchLimit THEN {} ELSE @ \ {f}])
            \/ /\ Become(w, [s EXCEPT !.ids = @ \ {f}])
               /\ UNCHANGED row
      BY <1>4 DEF ClaimOne
    <2>2. f \in Workflows /\ row[f] \in Row /\ ran' = ran BY <1>1, <1>4 DEF WorkerState, TypeOK, ClaimOne
    <2>3. CASE Become(w, [s EXCEPT !.ids = @ \ {f}]) /\ UNCHANGED row
      <3> DEFINE t == [s EXCEPT !.ids = @ \ {f}]
      <3>1. t.pc = "claim" /\ t.mine = s.mine /\ t.snap = s.snap BY <1>1, <2>0 DEF WorkerState
      <3> HIDE DEF t
      <3>2. Justified(ran, row, t) BY <1>1, <3>1, Outside DEF Justified
      <3>3. QED BY <2>2, <2>3, <3>2, MovesAlone DEF t
    <2>4. CASE Due(row[f]) /\ \E ids : /\ row' = [row EXCEPT ![f] = [row[f] EXCEPT !.status = "running", !.owner = w,
                                                                    !.lease = LeaseAfter(s.age)]]
                                       /\ Become(w, [s EXCEPT !.mine = @ \cup {f}, !.ids = ids])
      <3>1. PICK ids : Become(w, [s EXCEPT !.mine = @ \cup {f}, !.ids = ids]) BY <2>4
      <3> DEFINE t == [s EXCEPT !.mine = @ \cup {f}, !.ids = ids]
                 r == [row[f] EXCEPT !.status = "running", !.owner = w, !.lease = LeaseAfter(s.age)]
      <3>2. t.pc = "claim" /\ t.mine = s.mine \cup {f} /\ t.snap = s.snap BY <1>1, <2>0 DEF WorkerState
      <3>3. r.status = "running" /\ r.steps = row[f].steps BY <2>2 DEF Row
      <3>4. row' = [row EXCEPT ![f] = r] /\ Become(w, t) BY <2>4, <3>1
      <3> HIDE DEF t, r
      <3>5. Lasting(ran, ran', row, row') /\ RowsJustified(ran', row')
        BY <1>2, <2>2, <3>3, <3>4, PutJustified DEF RowsJustified
      <3>6. row'[f].status = "running" BY <2>2, <3>3, <3>4 DEF TypeOK
      <3>7. Justified(ran', row', s) BY <1>1, <3>5, JustifiedLasts
      <3>8. Justified(ran', row', t) BY <3>2, <3>6, <3>7, Outside DEF Justified
      <3>9. Moves(row[f].status, r.status, ran[f]) BY <2>4, <3>3 DEF Moves, Due, Ended
      <3>10. QED BY <2>2, <3>4, <3>5, <3>8, <3>9, WorkerMoves, FinalMoves
    <2>5. QED BY <2>1, <2>3, <2>4
  <1>5. CASE LoadClaimed(w)
    <2> DEFINE t == [s EXCEPT !.pc = "pick", !.snap = row]
    <2>1. t.pc = "pick" /\ t.mine = s.mine /\ t.snap = row BY <1>1 DEF WorkerState
    <2>2. Become(w, t) /\ UNCHANGED <<row, ran>> BY <1>5 DEF LoadClaimed
    <2> HIDE DEF t
    <2>3. Justified(ran, row, t) BY <1>1, <1>2, <2>1, Outside DEF Justified, RowsJustified
    <2>4. QED BY <2>2, <2>3, MovesAlone
  <1>6. CASE PickNext(w)
    <2>1. PICK f \in s.mine, n \in Prepare..Finished :
            /\ IsNextStep(s.snap[f].steps, Prepare, n)
            /\ Become(w, [s EXCEPT !.pc = StepPc(n), !.cur = f, !.mine = @ \ {f},
                                   !.step = n, !.res = s.snap[f].result])
      BY <1>6 DEF PickNext
    <2> DEFINE t == [s EXCEPT !.pc = StepPc(n), !.cur = f, !.mine = @ \ {f}, !.step = n, !.res = s.snap[f].result]
    <2>2. t.pc = StepPc(n) /\ t.mine = s.mine \ {f} /\ t.snap = s.snap /\ t.cur = f /\ t.step = n
      BY <1>1 DEF WorkerState
    <2>3. f \in Workflows /\ row[f].status # "absent" BY <1>1 DEF WorkerState, Justified
    <2>4. n > Submit => s.snap[f].steps[Submit] = "succeeded" BY <2>1, Numbers DEF IsNextStep
    <2>5. n > Submit => ran[f] BY <1>1, <2>3, <2>4 DEF Justified
    <2>6. (StepPc(n) = "finish" <=> n = Finished) /\ StepPc(n) \in {"begin", "finish"} BY DEF StepPc
    <2>7. UNCHANGED <<row, ran>> BY <1>6 DEF PickNext
    <2> HIDE DEF t
    <2>8. Past(t) => ran[t.cur] BY <2>2, <2>5, <2>6 DEF Past
    <2>9. Justified(ran, row, t) BY <1>1, <2>2, <2>3, <2>6, <2>8 DEF Justified
    <2>10. QED BY <2>1, <2>7, <2>9, MovesAlone DEF t
  <1>7. CASE EndBatch(w)
    <2>1. Justified(ran, row, Idle)
      BY Outside, Numbers DEF Justified, Idle, NoRows, AbsentRow
    <2>2. QED BY <1>7, <2>1, MovesAlone DEF EndBatch
  <1>8. QED BY <1>3, <1>4, <1>5, <1>6, <1>7 DEF Claim

\* The queue alone, with crashes and time, never opens a job that ended.
LEMMA QueueBoard ==
    ASSUME TypeOK, BoardInv, [QueueNext]_vars
    PROVE  BoardInv' /\ BoardFinalStep
  <1>1. ASSUME NEW f \in Workflows, CreateWorkflow(f) PROVE BoardInv' /\ BoardFinalStep
    <2>1. PICK art \in BOOLEAN : row' = [row EXCEPT ![f] = [AbsentRow EXCEPT !.status = "pending", !.art = art]]
      BY <1>1 DEF CreateWorkflow
    <2> DEFINE r == [AbsentRow EXCEPT !.status = "pending", !.art = art]
    <2>2. r.status = "pending" /\ r.steps[Submit] = "pending" BY Numbers DEF AbsentRow
    <2>3. row' = [row EXCEPT ![f] = r] /\ UNCHANGED <<worker, ran>> /\ row[f].status = "absent"
      BY <1>1, <2>1 DEF CreateWorkflow
    <2> HIDE DEF r
    <2>4. Lasting(ran, ran', row, row') /\ RowsJustified(ran', row')
      BY <2>2, <2>3, PutJustified DEF BoardInv
    <2>5. Moves(row[f].status, r.status, ran[f]) BY <2>2, <2>3 DEF Moves, Ended
    <2>6. QED BY <2>3, <2>4, <2>5, NobodyMoves, FinalMoves
  <1>2. ASSUME NEW w \in Workers, WorkerStep(w) PROVE BoardInv' /\ BoardFinalStep
    BY <1>2, ClaimBoard, ExecuteBoard DEF WorkerStep
  <1>3. ASSUME NEW w \in Workers, Crash(w) \/ Restart(w) PROVE BoardInv' /\ BoardFinalStep
    <2>1. PICK t \in {Idle, [Idle EXCEPT !.pc = "down"]} : Become(w, t) /\ UNCHANGED <<row, ran>>
      BY <1>3 DEF Crash, Restart
    <2>2. Justified(ran, row, t) BY Outside, Numbers DEF Justified, Idle, NoRows, AbsentRow
    <2>3. QED BY <2>1, <2>2, MovesAlone
  <1>4. CASE Tick
    <2>1. \A f \in Workflows : row'[f].status = row[f].status /\ row'[f].steps = row[f].steps
      BY <1>4 DEF Tick, TypeOK, Row
    <2>2. ran' = ran BY <1>4 DEF Tick
    <2>3. Lasting(ran, ran', row, row') /\ RowsJustified(ran', row')
      BY <2>1, <2>2 DEF Lasting, RowsJustified, BoardInv
    <2>4. ASSUME NEW w \in Workers PROVE Justified(ran', row', worker'[w])
      <3>1. worker[w] \in WorkerState /\ Justified(ran, row, worker[w]) BY Holding
      <3>2. Justified(ran', row', worker[w]) BY <2>3, <3>1, JustifiedLasts
      <3>3. worker'[w] = IF worker[w].pc \in Working THEN [worker[w] EXCEPT !.age = @ + 1] ELSE worker[w]
        BY <1>4 DEF Tick
      <3>4. /\ worker'[w].pc = worker[w].pc /\ worker'[w].mine = worker[w].mine
            /\ worker'[w].snap = worker[w].snap /\ worker'[w].cur = worker[w].cur
            /\ worker'[w].step = worker[w].step
        BY <3>1, <3>3 DEF WorkerState
      <3>5. QED BY <3>2, <3>4 DEF Justified, Past
    <2>5. QED BY <2>1, <2>2, <2>3, <2>4, BoardStutters DEF BoardInv
  <1>5. CASE UNCHANGED vars
    <2>1. UNCHANGED <<row, ran, worker>> BY <1>5 DEF vars
    <2>2. QED BY <2>1, NothingWritten, NobodyMoves DEF BoardInv
  <1>6. QED BY <1>1, <1>2, <1>3, <1>4, <1>5 DEF QueueNext

-----------------------------------------------------------------------------
(* The reconciler and the requests *)

\* Whatever they write, they open the row or leave its status alone, and no step of
\* theirs says that the service has run.
Reopens(r, x) ==
    /\ x.status \in {"pending", r.status}
    /\ x.steps[Submit] \in {"pending", r.steps[Submit]}

LEMMA RowsReopen ==
    ASSUME NEW r \in Row
    PROVE  /\ Reopens(r, Requeued(r))
           /\ \A seen : Reopens(r, Reconciled(r, seen))
           /\ \A a, n : /\ Reopens(r, [Requeued(r) EXCEPT !.art = a, !.requeues = n, !.steps = StepsReopened(r.steps)])
                        /\ Reopens(r, [Requeued(r) EXCEPT !.attempts = a, !.result = n, !.steps = AbsentRow.steps])
                        /\ Reopens(r, [r EXCEPT !.art = a, !.requeues = n])
  <1>1. StepsReopened(r.steps)[Submit] = "pending" /\ AbsentRow.steps[Submit] = "pending"
    BY Numbers DEF StepsReopened, AbsentRow, Row
  <1>2. QED BY <1>1 DEF Reopens, Requeued, Reconciled, Row

LEMMA PutReopened ==
    ASSUME TypeOK, BoardInv, NEW f \in Workflows, NEW r, Reopens(row[f], r),
           row' = [row EXCEPT ![f] = r], ran' = ran
    PROVE  Lasting(ran, ran', row, row') /\ RowsJustified(ran', row') /\ BoardStep
  <1>1. r.steps[Submit] = "succeeded" => ran[f] BY DEF Reopens, BoardInv, RowsJustified
  <1>2. r.status # "absent" \/ r.status = row[f].status BY DEF Reopens
  <1>3. QED BY <1>1, <1>2, PutJustified, OutsideMoves DEF Reopens, BoardInv

LEMMA RequestBoard ==
    ASSUME TypeOK, BoardInv, NEW q \in Requests, RequestStep(q)
    PROVE  BoardInv' /\ BoardStep
  <1> DEFINE f == request[q].f
             r == row[f]
  <1>1. f \in Workflows => r \in Row BY DEF TypeOK
  <1>2. CASE \E g \in Workflows : \/ ReadRetry(q, g) \/ ReadForce(q, g) \/ ReadAttach(q, g)
                                  \/ ReadSubmit(q, g) \/ ReadReconcile(q, g)
    <2>1. UNCHANGED <<row, ran, worker>>
      BY <1>2 DEF ReadRetry, ReadForce, ReadAttach, ReadSubmit, ReadReconcile, Arrive
    <2>2. QED BY <2>1, NothingWritten, NobodyMoves DEF BoardInv, BoardFinalStep, BoardStep, Board!Next
  <1>3. ASSUME NEW kind, NEW x, Answer(q, kind, x), f \in Workflows => Reopens(r, x)
        PROVE  BoardInv' /\ BoardStep
    <2>1. row' = [row EXCEPT ![f] = x] /\ UNCHANGED <<worker, ran>> BY <1>3 DEF Answer
    <2>2. CASE f \in Workflows BY <1>3, <2>1, <2>2, PutReopened, NobodyMoves
    <2>3. CASE f \notin Workflows
      <3>1. UNCHANGED <<row, ran, worker>> BY <2>1, <2>3 DEF TypeOK
      <3>2. QED BY <3>1, NothingWritten, NobodyMoves DEF BoardInv, BoardFinalStep, BoardStep, Board!Next
    <2>4. QED BY <2>2, <2>3
  <1>4. CASE WriteRetry(q) BY <1>1, <1>3, <1>4, RowsReopen DEF WriteRetry
  <1>5. CASE WriteForce(q) BY <1>1, <1>3, <1>5, RowsReopen DEF WriteForce
  <1>6. CASE WriteAttach(q) BY <1>1, <1>3, <1>6, RowsReopen DEF WriteAttach
  <1>7. CASE WriteSubmit(q) BY <1>1, <1>3, <1>7, RowsReopen DEF WriteSubmit
  <1>8. CASE WriteReconcile(q) BY <1>1, <1>3, <1>8, RowsReopen DEF WriteReconcile
  <1>9. QED BY <1>2, <1>4, <1>5, <1>6, <1>7, <1>8 DEF RequestStep

LEMMA ReconcileBoard ==
    ASSUME TypeOK, BoardInv, NEW w \in Workers, Reconcile(w)
    PROVE  BoardInv' /\ BoardStep
  <1> DEFINE s == worker[w]
  <1>1. s \in WorkerState /\ Justified(ran, row, s) BY Holding
  <1>2. CASE ReconcileScan(w)
    <2> DEFINE t == [s EXCEPT !.pc = "reconcile", !.snap = row,
                              !.ids = {f \in Workflows : Reconcilable(f, row[f])}]
    <2>1. t.pc = "reconcile" /\ t.mine = s.mine /\ t.snap = row BY <1>1 DEF WorkerState
    <2>2. Become(w, t) /\ UNCHANGED <<row, ran>> BY <1>2 DEF ReconcileScan
    <2> HIDE DEF t
    <2>3. Justified(ran, row, t) BY <1>1, <2>1, Outside DEF Justified, RowsJustified, BoardInv
    <2>4. QED BY <2>2, <2>3, MovesAlone DEF BoardFinalStep, BoardStep, Board!Next
  <1>3. CASE ReconcileOne(w)
    <2>1. PICK f \in s.ids : /\ row' = [row EXCEPT ![f] = Reconciled(row[f], s.snap[f])]
                             /\ Become(w, [s EXCEPT !.ids = @ \ {f}])
      BY <1>3 DEF ReconcileOne
    <2> DEFINE t == [s EXCEPT !.ids = @ \ {f}]
    <2>2. t.pc = s.pc /\ t.mine = s.mine /\ t.snap = s.snap /\ t \in WorkerState BY <1>1 DEF WorkerState
    <2>3. s.pc = "reconcile" /\ ran' = ran BY <1>3 DEF ReconcileOne, At
    <2>4. f \in Workflows /\ row[f] \in Row BY <1>1 DEF WorkerState, TypeOK
    <2>5. Reopens(row[f], Reconciled(row[f], s.snap[f])) BY <2>4, RowsReopen
    <2>6. Become(w, t) BY <2>1
    <2> HIDE DEF t
    <2>7. Justified(ran, row, t) BY <1>1, <2>2, <2>3, Outside DEF Justified
    <2>8. Lasting(ran, ran', row, row') /\ RowsJustified(ran', row') /\ BoardStep
      BY <2>1, <2>3, <2>4, <2>5, PutReopened
    <2>9. Justified(ran', row', t) BY <2>2, <2>7, <2>8, JustifiedLasts
    <2>10. QED BY <2>6, <2>8, <2>9, WorkerMoves
  <1>4. QED BY <1>2, <1>3 DEF Reconcile

LEMMA BoardNext ==
    ASSUME TypeOK, BoardInv, [Next]_vars
    PROVE  BoardInv' /\ BoardStep
  <1>1. CASE [QueueNext]_vars
    BY <1>1, QueueBoard DEF BoardFinalStep, BoardStep, Board!Next
  <1>2. QED BY <1>1, ReconcileBoard, RequestBoard DEF Next

LEMMA BoardInit == Init => BoardInv /\ Board!Init
  <1> SUFFICES ASSUME Init PROVE BoardInv /\ Board!Init OBVIOUS
  <1>1. RowsJustified(ran, row) BY Numbers DEF Init, RowsJustified, NoRows, AbsentRow
  <1>2. Justified(ran, row, Idle) BY Outside, Numbers DEF Justified, Idle, NoRows, AbsentRow
  <1>3. \A f \in Workflows : row[f].status = "absent" BY DEF Init, NoRows, AbsentRow
  <1>4. QED BY <1>1, <1>2, <1>3, Outcomes DEF BoardInv, Init, Board!Init

-----------------------------------------------------------------------------
(* The theorems *)

\* Workers, leases, stale copies, crashes, the reconciler and the requests together
\* implement the board: a workflow is posted before it is open, its service is performed
\* only after that, and it is succeeded only after its submit service has returned.
THEOREM ImplementsBoard == Spec => RefinesJobBoard
  <1>1. TypeOK /\ BoardInv /\ [Next]_vars => BoardInv' BY BoardNext
  <1>2. TypeOK /\ BoardInv /\ [Next]_vars => [Board!Next]_(Board!boardVars) BY BoardNext DEF BoardStep
  <1>3. Init => TypeOK /\ BoardInv /\ Board!Init BY TypeInit, BoardInit
  <1>4. TypeOK /\ [Next]_vars => TypeOK' BY TypeStep
  <1>5. QED BY <1>1, <1>2, <1>3, <1>4, PTL DEF Spec, RefinesJobBoard, Board!Spec

\* Without the reconciler and the requests, a workflow that succeeded or was cancelled stays
\* so, even while workers whose lease ran out are still busy with it: every last write is
\* guarded by the lock.
THEOREM ImplementsFinalBoard == QueueSpec => RefinesFinalBoard
  <1>1. TypeOK /\ BoardInv /\ [QueueNext]_vars => BoardInv' BY QueueBoard
  <1>2. TypeOK /\ BoardInv /\ [QueueNext]_vars => [Board!FinalNext]_(Board!boardVars)
    BY QueueBoard DEF BoardFinalStep
  <1>3. Init => TypeOK /\ BoardInv /\ Board!Init BY TypeInit, BoardInit
  <1>4. TypeOK /\ [QueueNext]_vars => TypeOK' BY TypeStep DEF Next
  <1>5. QED BY <1>1, <1>2, <1>3, <1>4, PTL DEF QueueSpec, RefinesFinalBoard, Board!FinalSpec

-----------------------------------------------------------------------------
(* The timeline of a workflow that succeeded *)

Keeps(rows, w, f) == rows[f].status = "running" /\ rows[f].owner = w

\* As long as w holds a row, no one else writes its steps, and w writes those of the
\* workflow it executes, one after the other.
Timely(rows, w, s) ==
    s.pc \in {"pick", "begin"} \cup Stepping =>
        /\ \A f \in s.mine : Keeps(rows, w, f) => rows[f].steps = s.snap[f].steps
        /\ s.pc # "pick" =>
              /\ s.cur \notin s.mine
              /\ s.pc = "finish" => s.step = Finished
              /\ Keeps(rows, w, s.cur) => \A m \in Prepare..Confirm :
                    /\ m < s.step => rows[s.cur].steps[m] = "succeeded"
                    /\ m > s.step => rows[s.cur].steps[m] = s.snap[s.cur].steps[m]

\* The facts about steps that the lemmas below hand on.
MayWrite(f, r) == row' = row \/ row' = [row EXCEPT ![f] = r]

AllDone(steps) == \A m \in Prepare..Confirm : steps[m] = "succeeded"

SameBut(steps, old, n) == \A m \in Prepare..Confirm : m # n => steps[m] = old[m]

DoneUpTo(steps, snap, n) ==
    \A m \in Prepare..Confirm : /\ m < n => steps[m] = "succeeded"
                                /\ m > n => steps[m] = snap[m]

TimelineInv == TimelineAgrees /\ \A w \in Workers : Timely(row, w, worker[w])

\* What a worker holds of the workflows it has at hand stays as it is.
LEMMA TimelyLasts ==
    ASSUME NEW rows, NEW new, NEW w, NEW s \in WorkerState, Timely(rows, w, s),
           s.pc \in Stepping \cup {"begin"} => s.cur \in Workflows,
           \A f \in Workflows : Keeps(new, w, f) => Keeps(rows, w, f) /\ new[f].steps = rows[f].steps
    PROVE  Timely(new, w, s)
  BY DEF Timely, WorkerState

\* v does not hold the row that is written, neither before nor after.
LEMMA OthersTimely ==
    ASSUME TypeOK, LeaseInv, TimelineInv, NEW v \in Workers, worker'[v] = worker[v],
           NEW f, NEW r, MayWrite(f, r), row' # row => r.owner # v
    PROVE  Timely(row', v, worker'[v])
  <1>1. worker[v] \in WorkerState BY DEF TypeOK
  <1>2. worker[v].pc \in Stepping \cup {"begin"} => worker[v].cur \in Workflows
    BY DEF LeaseInv, Secured
  <1>3. \A g \in Workflows : Keeps(row', v, g) => Keeps(row, v, g) /\ row'[g].steps = row[g].steps
    BY DEF Keeps, TypeOK, MayWrite
  <1>4. QED BY <1>1, <1>2, <1>3, TimelyLasts DEF TimelineInv

\* w moves to s, and writes at most a row that no one else holds.
LEMMA TimelineMoves ==
    ASSUME TypeOK, LeaseInv, TimelineInv, NEW w \in Workers, NEW s, Become(w, s),
           Timely(row', w, s),
           NEW f, NEW r, MayWrite(f, r),
           row' # row => /\ r.owner \in {w, NoOne}
                         /\ r.status = "succeeded" => AllDone(r.steps)
    PROVE  TimelineInv'
  <1>1. ASSUME NEW v \in Workers PROVE Timely(row', v, worker'[v])
    <2>1. CASE v = w BY <2>1, OthersMove
    <2>2. CASE v # w
      <3>1. worker'[v] = worker[v] BY <2>2, OthersMove
      <3>2. row' # row => r.owner # v BY <2>2, QueueAssumption
      <3>3. QED BY <3>1, <3>2, OthersTimely
    <2>3. QED BY <2>1, <2>2
  <1>2. TimelineAgrees' BY DEF TimelineInv, TimelineAgrees, TypeOK, AllDone, MayWrite
  <1>3. QED BY <1>1, <1>2 DEF TimelineInv

\* What is left of a worker that leaves its workflow, or writes its row.
LEMMA MineTimely ==
    ASSUME NEW w \in Workers, TypeOK, LeaseInv, TimelineInv, worker[w].pc \in Stepping \cup {"begin"},
           NEW r, MayWrite(worker[w].cur, r)
    PROVE  \A f \in worker[w].mine : Keeps(row', w, f) => row'[f].steps = worker[w].snap[f].steps
  <1> DEFINE s == worker[w]
  <1>1. s \in WorkerState /\ s.cur \in Workflows BY DEF TypeOK, LeaseInv, Secured
  <1>2. /\ \A f \in s.mine : Keeps(row, w, f) => row[f].steps = s.snap[f].steps
        /\ s.cur \notin s.mine
    BY StepNames DEF TimelineInv, Timely
  <1> HIDE DEF s
  <1>3. ASSUME NEW f \in s.mine PROVE row'[f] = row[f]
    <2>1. f \in Workflows /\ f # s.cur BY <1>1, <1>2 DEF WorkerState
    <2>2. QED BY <2>1 DEF TypeOK, s, MayWrite
  <1>4. \A f \in s.mine : Keeps(row', w, f) => row'[f].steps = s.snap[f].steps
    BY <1>2, <1>3 DEF Keeps
  <1>5. QED BY <1>4 DEF s

LEMMA LeftTimely ==
    ASSUME NEW w \in Workers, TypeOK, LeaseInv, TimelineInv, worker[w].pc \in Stepping \cup {"begin"},
           Become(w, Left(worker[w])),
           NEW r, MayWrite(worker[w].cur, r),
           row' # row => /\ r.owner = NoOne
                         /\ r.status = "succeeded" => AllDone(r.steps)
    PROVE  TimelineInv'
  <1> DEFINE s == worker[w]
             t == Left(s)
             f == s.cur
  <1>1. t.pc = "pick" /\ t.snap = s.snap /\ t.mine = s.mine
    BY DEF Left, WorkerState, TypeOK
  <1>2. \A g \in s.mine : Keeps(row', w, g) => row'[g].steps = s.snap[g].steps BY MineTimely
  <1>3. Become(w, t) OBVIOUS
  <1>4. MayWrite(f, r) OBVIOUS
  <1> HIDE DEF s, t, f
  <1>5. Timely(row', w, t) BY <1>1, <1>2, StepNames DEF Timely
  <1>6. QED BY <1>3, <1>4, <1>5, TimelineMoves

\* A worker that stays at its workflow; it writes at most its step, or another column.
LEMMA StaysTimely ==
    ASSUME NEW w \in Workers, TypeOK, LeaseInv, TimelineInv, NEW t, Become(w, t),
           worker[w].pc \in Stepping \cup {"begin"}, t.pc \in {"begin"} \cup Stepping,
           t.snap = worker[w].snap /\ t.mine = worker[w].mine /\ t.cur = worker[w].cur,
           NEW r, MayWrite(worker[w].cur, r), row' # row => Holds(w, worker[w].cur),
           row' # row => r.owner = w /\ r.status = "running",
           t.pc = "finish" => t.step = Finished,
           Holds(w, worker[w].cur) => DoneUpTo(row'[t.cur].steps, t.snap[t.cur].steps, t.step)
    PROVE  TimelineInv'
  <1> DEFINE s == worker[w]
             f == s.cur
  <1>1. s \in WorkerState /\ f \in Workflows BY DEF TypeOK, LeaseInv, Secured
  <1>2. f \notin s.mine BY StepNames DEF TimelineInv, Timely
  <1>3. \A g \in s.mine : Keeps(row', w, g) => row'[g].steps = s.snap[g].steps BY MineTimely
  <1>4. Keeps(row', w, f) => Holds(w, f) BY <1>1 DEF Keeps, Holds, TypeOK, MayWrite
  <1>5. t.snap = s.snap /\ t.mine = s.mine /\ t.cur = f OBVIOUS
  <1>6. Holds(w, f) => \A m \in Prepare..Confirm :
              /\ m < t.step => row'[t.cur].steps[m] = "succeeded"
              /\ m > t.step => row'[t.cur].steps[m] = t.snap[t.cur].steps[m]
    BY DEF DoneUpTo
  <1>7. MayWrite(f, r) OBVIOUS
  <1> HIDE DEF s, f
  <1>8. Timely(row', w, t) BY <1>2, <1>3, <1>4, <1>5, <1>6, StepNames DEF Timely
  <1>9. QED BY <1>7, <1>8, TimelineMoves

\* What w knows of the steps of the row it executes.
LEMMA StepsKnown ==
    ASSUME TypeOK, LeaseInv, TimelineInv, NEW w \in Workers, worker[w].pc \in Stepping \cup {"begin"}
    PROVE  /\ worker[w] \in WorkerState /\ worker[w].cur \in Workflows /\ row[worker[w].cur] \in Row
           /\ worker[w].pc \in InStep => Holds(w, worker[w].cur)
           /\ worker[w].pc = "finish" => worker[w].step = Finished
           /\ Holds(w, worker[w].cur) => \A m \in Prepare..Confirm :
                 /\ m < worker[w].step => row[worker[w].cur].steps[m] = "succeeded"
                 /\ m > worker[w].step => row[worker[w].cur].steps[m] = worker[w].snap[worker[w].cur].steps[m]
  <1>1. worker[w].cur \in Workflows /\ (worker[w].pc \in InStep => Holds(w, worker[w].cur))
    BY DEF LeaseInv, Secured
  <1>2. QED BY <1>1, StepNames DEF TypeOK, TimelineInv, Timely, Keeps, Holds

\* A row whose steps stay as they are, while w goes from one counter to another.
LEMMA GoesOnTimely ==
    ASSUME TypeOK, LeaseInv, TimelineInv, NEW w \in Workers, NEW t, Become(w, t),
           worker[w].pc \in Stepping \cup {"begin"}, t.pc \in InStep,
           t.snap = worker[w].snap /\ t.mine = worker[w].mine /\ t.cur = worker[w].cur,
           t.step = worker[w].step,
           NEW r, MayWrite(worker[w].cur, r), row' # row => Holds(w, worker[w].cur),
           r.owner = row[worker[w].cur].owner /\ r.status = row[worker[w].cur].status,
           SameBut(r.steps, row[worker[w].cur].steps, t.step)
    PROVE  TimelineInv'
  <1> DEFINE s == worker[w]
             f == s.cur
  <1>1. f \in Workflows BY StepsKnown
  <1>2. ASSUME NEW m \in Prepare..Confirm, m # t.step PROVE row'[f].steps[m] = row[f].steps[m]
    BY <1>1, <1>2 DEF TypeOK, SameBut, MayWrite
  <1>3. ASSUME Holds(w, f), NEW m \in Prepare..Confirm
        PROVE  /\ m < t.step => row'[f].steps[m] = "succeeded"
               /\ m > t.step => row'[f].steps[m] = s.snap[f].steps[m]
    <2>1. s.step \in Int /\ m \in Int BY StepsKnown, Numbers DEF WorkerState
    <2>2. /\ m < s.step => row[f].steps[m] = "succeeded"
          /\ m > s.step => row[f].steps[m] = s.snap[f].steps[m]
      BY <1>3, StepsKnown
    <2>3. m # t.step => row'[f].steps[m] = row[f].steps[m] BY <1>2
    <2>4. t.step = s.step OBVIOUS
    <2> HIDE DEF s, f
    <2>5. QED BY <2>1, <2>2, <2>3, <2>4
  <1>4. row' # row => r.owner = w /\ r.status = "running" BY DEF Holds
  <1>5. t.pc # "finish" /\ t.pc \in Stepping BY StepNames
  <1>6. Holds(w, f) => DoneUpTo(row'[t.cur].steps, t.snap[t.cur].steps, t.step)
    BY <1>3 DEF DoneUpTo
  <1>7. QED BY <1>4, <1>5, <1>6, StaysTimely

LEMMA ExecuteTimely ==
    ASSUME TypeOK, LeaseInv, TimelineInv, NEW w \in Workers, ExecuteStep(w)
    PROVE  TimelineInv'
  <1> DEFINE s == worker[w]
             f == s.cur
  <1>1. s \in WorkerState BY DEF TypeOK
  <1>2. s.pc \in Stepping \cup {"begin"} => f \in Workflows /\ row[f] \in Row BY StepsKnown
  <1>3. CASE RefreshBefore(w) \/ RefreshAfter(w)
    <2>1. PICK to \in {"mark", "stepok"} :
             \/ /\ Holds(w, f) /\ row' = [row EXCEPT ![f] = [row[f] EXCEPT !.lease = LeaseTicks]]
                /\ Become(w, [s EXCEPT !.pc = to, !.age = 0])
             \/ Become(w, Left(s)) /\ UNCHANGED row
      BY <1>3 DEF RefreshBefore, RefreshAfter, RefreshLock
    <2>2. s.pc \in Stepping \cup {"begin"} BY <1>3, StepNames DEF RefreshBefore, RefreshAfter, RefreshLock, At
    <2>3. CASE Become(w, Left(s)) /\ UNCHANGED row
      <3>1. MayWrite(f, row[f]) BY <2>3 DEF MayWrite
      <3>2. QED BY <2>2, <2>3, <3>1, LeftTimely
    <2>4. CASE /\ Holds(w, f) /\ row' = [row EXCEPT ![f] = [row[f] EXCEPT !.lease = LeaseTicks]]
               /\ Become(w, [s EXCEPT !.pc = to, !.age = 0])
      <3> DEFINE t == [s EXCEPT !.pc = to, !.age = 0]
                 r == [row[f] EXCEPT !.lease = LeaseTicks]
      <3>1. t.pc = to /\ t.snap = s.snap /\ t.mine = s.mine /\ t.cur = s.cur /\ t.step = s.step
        BY <1>1 DEF WorkerState
      <3>2. r.owner = row[f].owner /\ r.status = row[f].status /\ SameBut(r.steps, row[f].steps, t.step)
        BY <1>2, <2>2 DEF Row, SameBut
      <3>3. Become(w, t) /\ MayWrite(f, r) /\ Holds(w, f) /\ t.pc \in InStep
        BY <2>4, <3>1, StepNames DEF MayWrite
      <3> HIDE DEF t, r
      <3>4. QED BY <2>2, <3>1, <3>2, <3>3, GoesOnTimely
    <2>5. QED BY <2>1, <2>3, <2>4
  <1>4. CASE RunPrepare(w) \/ RunSubmit(w) \/ RunDeferred(w) \/ RunFailed(w) \/ RunConfirm(w)
    <2>0. PICK pc \in {"ran", "draft", "stepwait", "stepfail"} : \E res, b :
                 \/ Become(w, [s EXCEPT !.pc = pc])
                 \/ Become(w, [s EXCEPT !.pc = pc, !.res = res])
                 \/ Become(w, [s EXCEPT !.pc = pc, !.retryable = b])
      <3>1. CASE RunPrepare(w) BY <3>1 DEF RunPrepare
      <3>2. CASE RunSubmit(w) BY <3>2 DEF RunSubmit
      <3>3. CASE RunDeferred(w) BY <3>3 DEF RunDeferred
      <3>4. CASE RunFailed(w) BY <3>4 DEF RunFailed
      <3>5. CASE RunConfirm(w) BY <3>5 DEF RunConfirm
      <3>6. QED BY <1>4, <3>1, <3>2, <3>3, <3>4, <3>5
    <2>1. PICK res, b : \/ Become(w, [s EXCEPT !.pc = pc])
                        \/ Become(w, [s EXCEPT !.pc = pc, !.res = res])
                        \/ Become(w, [s EXCEPT !.pc = pc, !.retryable = b])
      BY <2>0
    <2> DEFINE Like(t) == t.pc = pc /\ t.snap = s.snap /\ t.mine = s.mine /\ t.cur = s.cur /\ t.step = s.step
    <2>2. /\ Like([s EXCEPT !.pc = pc]) /\ Like([s EXCEPT !.pc = pc, !.res = res])
          /\ Like([s EXCEPT !.pc = pc, !.retryable = b])
      BY <1>1 DEF WorkerState
    <2> HIDE DEF Like
    <2>3. PICK t : Become(w, t) /\ Like(t) BY <2>1, <2>2
    <2>4. /\ Become(w, t) /\ t.pc = pc /\ t.snap = s.snap /\ t.mine = s.mine
          /\ t.cur = s.cur /\ t.step = s.step
      BY <2>3 DEF Like
    <2>5. s.pc \in Stepping /\ row' = row
      BY <1>4, StepNames DEF RunPrepare, RunSubmit, RunDeferred, RunFailed, RunConfirm, At
    <2>6. t.pc \in InStep BY <2>1, <2>4, StepNames
    <2>7. SameBut(row[f].steps, row[f].steps, t.step) /\ MayWrite(f, row[f])
      BY <2>5 DEF SameBut, MayWrite
    <2>8. QED BY <2>4, <2>5, <2>6, <2>7, GoesOnTimely
  <1>5. CASE WriteDraft(w)
    <2>1. s.pc \in Stepping BY <1>5, StepNames DEF WriteDraft, At
    <2>2. CASE Become(w, Left(s)) /\ UNCHANGED row
      <3>1. MayWrite(f, row[f]) BY <2>2 DEF MayWrite
      <3>2. QED BY <2>1, <2>2, <3>1, LeftTimely
    <2>3. CASE /\ Holds(w, f) /\ row' = [row EXCEPT ![f] = [row[f] EXCEPT !.result = s.res]]
               /\ Become(w, [s EXCEPT !.pc = "ran"])
      <3> DEFINE t == [s EXCEPT !.pc = "ran"]
                 r == [row[f] EXCEPT !.result = s.res]
      <3>1. t.pc = "ran" /\ t.snap = s.snap /\ t.mine = s.mine /\ t.cur = s.cur /\ t.step = s.step
        BY <1>1 DEF WorkerState
      <3>2. r.owner = row[f].owner /\ r.status = row[f].status /\ SameBut(r.steps, row[f].steps, t.step)
        BY <1>2, <2>1 DEF Row, SameBut
      <3>3. Become(w, t) /\ MayWrite(f, r) /\ Holds(w, f) /\ t.pc \in InStep
        BY <2>3, <3>1, StepNames DEF MayWrite
      <3> HIDE DEF t, r
      <3>4. QED BY <2>1, <3>1, <3>2, <3>3, GoesOnTimely
    <2>4. QED BY <1>5, <2>2, <2>3 DEF WriteDraft
  \* A row whose step is written.
  <1>6. ASSUME NEW status, WriteStep(w, status), s.pc \in InStep
        PROVE  LET r == [row[f] EXCEPT !.steps[s.step] = status] IN
               /\ row' = [row EXCEPT ![f] = r] /\ Holds(w, f)
               /\ r.owner = row[f].owner /\ r.status = row[f].status
               /\ \A m \in Prepare..Confirm : /\ m # s.step => r.steps[m] = row[f].steps[m]
                                              /\ m = s.step => r.steps[m] = status
    <2>1. row[f] \in Row /\ Holds(w, f) BY <1>2, <1>6, StepsKnown, StepNames
    <2>2. QED BY <1>6, <2>1 DEF WriteStep, Row
  <1>7. CASE MarkStepRunning(w) \/ MarkStepWaiting(w) \/ MarkStepFailed(w)
    <2>1. PICK pc, status : pc \in {"run", "defer", "fail"} /\ Become(w, [s EXCEPT !.pc = pc]) /\ WriteStep(w, status)
      BY <1>7 DEF MarkStepRunning, MarkStepWaiting, MarkStepFailed
    <2> DEFINE t == [s EXCEPT !.pc = pc]
               r == [row[f] EXCEPT !.steps[s.step] = status]
    <2>2. t.pc = pc /\ t.snap = s.snap /\ t.mine = s.mine /\ t.cur = s.cur /\ t.step = s.step
      BY <1>1 DEF WorkerState
    <2>3. s.pc \in InStep BY <1>7, StepNames DEF MarkStepRunning, MarkStepWaiting, MarkStepFailed, At
    <2>4. /\ row' = [row EXCEPT ![f] = r] /\ Holds(w, f) /\ r.owner = row[f].owner /\ r.status = row[f].status
          /\ \A m \in Prepare..Confirm : m # s.step => r.steps[m] = row[f].steps[m]
      BY <1>6, <2>1, <2>3
    <2>5. Become(w, t) /\ t.pc \in InStep /\ s.pc \in Stepping BY <2>1, <2>2, <2>3, StepNames
    <2>6. SameBut(r.steps, row[f].steps, t.step) BY <2>2, <2>4 DEF SameBut
    <2>7. MayWrite(f, r) /\ Holds(w, f) /\ r.owner = row[f].owner /\ r.status = row[f].status
      BY <2>4 DEF MayWrite
    <2> HIDE DEF t, r
    <2>8. QED BY <2>2, <2>5, <2>6, <2>7, GoesOnTimely
  <1>8. CASE MarkStepSucceeded(w)
    <2>1. PICK n \in Prepare..Finished :
              /\ IsNextStep(s.snap[f].steps, s.step + 1, n)
              /\ Become(w, [s EXCEPT !.pc = StepPc(n), !.step = n])
      BY <1>8 DEF MarkStepSucceeded
    <2> DEFINE t == [s EXCEPT !.pc = StepPc(n), !.step = n]
               r == [row[f] EXCEPT !.steps[s.step] = "succeeded"]
    <2>2. t.pc = StepPc(n) /\ t.snap = s.snap /\ t.mine = s.mine /\ t.cur = s.cur /\ t.step = n
      BY <1>1 DEF WorkerState
    <2>3. s.pc \in InStep BY <1>8, StepNames DEF MarkStepSucceeded, At
    <2>4. /\ row' = [row EXCEPT ![f] = r] /\ Holds(w, f) /\ r.owner = row[f].owner /\ r.status = row[f].status
          /\ \A m \in Prepare..Confirm : /\ m # s.step => r.steps[m] = row[f].steps[m]
                                         /\ m = s.step => r.steps[m] = "succeeded"
      BY <1>6, <1>8, <2>3 DEF MarkStepSucceeded
    <2>5. f \in Workflows BY <1>2, <2>3, StepNames
    <2>6. ASSUME NEW m \in Prepare..Confirm
          PROVE  /\ m < n => row'[f].steps[m] = "succeeded"
                 /\ m > n => row'[f].steps[m] = s.snap[f].steps[m]
      <3>1. s.step \in Int /\ m \in Int /\ n \in Int BY <1>1, Numbers DEF WorkerState
      <3>2. /\ m < s.step => row[f].steps[m] = "succeeded"
            /\ m > s.step => row[f].steps[m] = s.snap[f].steps[m]
        BY <2>3, <2>4, StepsKnown, StepNames
      <3>3. row'[f] = r BY <2>4, <2>5 DEF TypeOK
      <3>4. n >= s.step + 1 /\ (m >= s.step + 1 /\ m < n => s.snap[f].steps[m] = "succeeded")
        BY <2>1, <3>1 DEF IsNextStep
      <3> HIDE DEF r, s, f
      <3>5. QED BY <2>4, <3>1, <3>2, <3>3, <3>4
    <2>7. (StepPc(n) = "finish" => n = Finished) /\ StepPc(n) \in {"begin", "finish"} BY DEF StepPc
    <2>8. row' # row => r.owner = w /\ r.status = "running" BY <2>4 DEF Holds
    <2>9. Become(w, t) /\ t.pc \in {"begin"} \cup Stepping /\ s.pc \in Stepping
      BY <2>1, <2>2, <2>3, <2>7, StepNames
    <2>10. Holds(w, f) => DoneUpTo(row'[t.cur].steps, t.snap[t.cur].steps, t.step)
      BY <2>2, <2>6 DEF DoneUpTo
    <2>11. t.pc = "finish" => t.step = Finished BY <2>2, <2>7
    <2>12. MayWrite(f, r) /\ Holds(w, f) BY <2>4 DEF MayWrite
    <2> HIDE DEF t, r
    <2>13. QED BY <2>2, <2>12, <2>8, <2>9, <2>10, <2>11, StaysTimely
  \* The last write of an execution.
  <1>9. ASSUME NEW r \in Row, NEW status, NEW result, NEW attempts, NEW retry
        PROVE  LET x == Closed(r, status, result, attempts, retry) IN
               x.steps = r.steps /\ x.status = status /\ x.owner = NoOne
    BY <1>9 DEF Closed, Row
  <1>10. ASSUME NEW pc \in Stepping, NEW newRows, LastWrite(w, pc, newRows),
                Holds(w, f) =>
                    \A x \in newRows : x.owner = NoOne /\ (x.status = "succeeded" => AllDone(x.steps))
         PROVE  TimelineInv'
    <2>1. s.pc \in Stepping /\ Become(w, Left(s)) BY <1>10 DEF LastWrite, At
    <2>2. CASE UNCHANGED row
      <3>1. MayWrite(f, row[f]) BY <2>2 DEF MayWrite
      <3>2. QED BY <2>1, <2>2, <3>1, LeftTimely
    <2>3. CASE Holds(w, f) /\ \E x \in newRows : row' = [row EXCEPT ![f] = x]
      <3>1. PICK x \in newRows : row' = [row EXCEPT ![f] = x] BY <2>3
      <3>2. x.owner = NoOne /\ (x.status = "succeeded" => AllDone(x.steps)) BY <1>10, <2>3
      <3>3. s.pc \in Stepping \cup {"begin"} /\ MayWrite(f, x) BY <2>1, <3>1 DEF MayWrite
      <3>4. Become(w, Left(worker[w])) /\ worker[w].pc \in Stepping \cup {"begin"} /\ MayWrite(worker[w].cur, x)
        BY <2>1, <3>3
      <3> HIDE DEF s, f
      <3>5. QED BY <3>2, <3>4, LeftTimely
    <2>4. QED BY <1>10, <2>2, <2>3 DEF LastWrite
  <1>11. CASE MarkSucceeded(w)
    <2>1. s.pc = "finish" BY <1>11 DEF MarkSucceeded, LastWrite, At
    <2>2. s.step = Finished /\ row[f] \in Row BY <1>2, <2>1, StepsKnown, StepNames
    <2>3. Holds(w, f) => AllDone(row[f].steps)
      BY <2>1, <2>2, StepsKnown, StepNames, Numbers DEF AllDone
    <2> DEFINE x == Closed(row[f], "succeeded", s.res, row[f].attempts, Off)
    <2>4. x.steps = row[f].steps /\ x.owner = NoOne BY <1>9, <2>2
    <2>5. LastWrite(w, "finish", {x}) BY <1>11 DEF MarkSucceeded
    <2> HIDE DEF x, s, f
    <2>6. QED BY <1>10, <2>3, <2>4, <2>5, StepNames
  <1>12. CASE MarkFailed(w)
    <2>1. s.pc = "fail" BY <1>12 DEF MarkFailed, LastWrite, At
    <2>2. row[f] \in Row BY <1>2, <2>1, StepNames
    <2>3. PICK newRows : /\ LastWrite(w, "fail", newRows)
                         /\ \A x \in newRows : \E status, result, attempts, retry :
                                status \in {"failed", "cancelled"} /\ x = Closed(row[f], status, result, attempts, retry)
      BY <1>12 DEF MarkFailed
    <2>4. \A x \in newRows : x.owner = NoOne /\ x.status # "succeeded" BY <1>9, <2>2, <2>3
    <2> HIDE DEF s, f
    <2>5. QED BY <1>10, <2>3, <2>4, StepNames
  <1>13. CASE MarkDeferred(w)
    <2>1. s.pc = "defer" BY <1>13 DEF MarkDeferred, LastWrite, At
    <2>2. row[f] \in Row BY <1>2, <2>1, StepNames
    <2>3. PICK newRows : /\ LastWrite(w, "defer", newRows)
                         /\ \A x \in newRows : \E result, attempts, retry :
                                x = Closed(row[f], "pending", result, attempts, retry)
      BY <1>13 DEF MarkDeferred
    <2>4. \A x \in newRows : x.owner = NoOne /\ x.status # "succeeded" BY <1>9, <2>2, <2>3
    <2> HIDE DEF s, f
    <2>5. QED BY <1>10, <2>3, <2>4, StepNames
  <1>14. QED BY <1>3, <1>4, <1>5, <1>7, <1>8, <1>11, <1>12, <1>13 DEF ExecuteStep

LEMMA ClaimTimely ==
    ASSUME TypeOK, LeaseInv, TimelineInv, NEW w \in Workers, Claim(w)
    PROVE  TimelineInv'
  <1> DEFINE s == worker[w]
  <1>1. s \in WorkerState BY DEF TypeOK
  <1>2. ASSUME NEW t, Become(w, t), t.pc \in {"idle", "claim"}, row' = row PROVE TimelineInv'
    <2>1. Timely(row', w, t) BY <1>2, Outside DEF Timely
    <2>2. MayWrite(w, NoOne) BY <1>2 DEF MayWrite
    <2>3. QED BY <1>2, <2>1, <2>2, TimelineMoves
  <1>3. CASE ClaimScan(w)
    <2>1. [s EXCEPT !.pc = "claim", !.age = 0, !.snap = NoRows, !.ids = Candidates].pc = "claim"
      BY <1>1 DEF WorkerState
    <2>2. QED BY <1>2, <1>3, <2>1 DEF ClaimScan
  <1>4. CASE ClaimOne(w)
    <2>1. PICK f \in s.ids :
            \/ /\ row' = [row EXCEPT ![f] = [row[f] EXCEPT !.status = "running", !.owner = w,
                                                  !.lease = LeaseAfter(s.age)]]
               /\ \E ids : Become(w, [s EXCEPT !.mine = @ \cup {f}, !.ids = ids])
            \/ Become(w, [s EXCEPT !.ids = @ \ {f}]) /\ UNCHANGED row
      BY <1>4 DEF ClaimOne
    <2>2. s.pc = "claim" /\ f \in Workflows /\ row[f] \in Row BY <1>1, <1>4 DEF WorkerState, TypeOK, ClaimOne, At
    <2> DEFINE r == [row[f] EXCEPT !.status = "running", !.owner = w, !.lease = LeaseAfter(s.age)]
    <2>3. r.owner = w /\ r.status = "running" BY <2>2 DEF Row
    <2>4. PICK t : t.pc = "claim" /\ Become(w, t) BY <1>1, <2>1, <2>2 DEF WorkerState
    <2>5. MayWrite(f, r) BY <2>1 DEF MayWrite
    <2> HIDE DEF r
    <2>6. Timely(row', w, t) BY <2>4, Outside DEF Timely
    <2>7. QED BY <2>3, <2>4, <2>5, <2>6, TimelineMoves
  <1>5. CASE LoadClaimed(w)
    <2> DEFINE t == [s EXCEPT !.pc = "pick", !.snap = row]
    <2>1. t.pc = "pick" /\ t.snap = row BY <1>1 DEF WorkerState
    <2>2. Become(w, t) /\ row' = row BY <1>5 DEF LoadClaimed
    <2> HIDE DEF t
    <2>3. Timely(row', w, t) BY <2>1, <2>2, Outside DEF Timely
    <2>4. MayWrite(w, NoOne) BY <2>2 DEF MayWrite
    <2>5. QED BY <2>2, <2>3, <2>4, TimelineMoves
  <1>6. CASE PickNext(w)
    <2>1. PICK f \in s.mine, n \in Prepare..Finished :
            /\ IsNextStep(s.snap[f].steps, Prepare, n)
            /\ Become(w, [s EXCEPT !.pc = StepPc(n), !.cur = f, !.mine = @ \ {f},
                                   !.step = n, !.res = s.snap[f].result])
      BY <1>6 DEF PickNext
    <2> DEFINE t == [s EXCEPT !.pc = StepPc(n), !.cur = f, !.mine = @ \ {f}, !.step = n, !.res = s.snap[f].result]
    <2>2. t.pc = StepPc(n) /\ t.mine = s.mine \ {f} /\ t.snap = s.snap /\ t.cur = f /\ t.step = n
      BY <1>1 DEF WorkerState
    <2>3. row' = row /\ Become(w, t) /\ s.pc = "pick" BY <1>6, <2>1 DEF PickNext, At
    <2>4. \A g \in s.mine : Keeps(row, w, g) => row[g].steps = s.snap[g].steps
      BY <2>3 DEF TimelineInv, Timely
    <2>5. (StepPc(n) = "finish" => n = Finished) BY DEF StepPc
    <2>6. \A m \in Prepare..Confirm : m < n => s.snap[f].steps[m] = "succeeded"
      BY <2>1, Numbers DEF IsNextStep
    <2> HIDE DEF t
    <2>7. Timely(row', w, t) BY <2>2, <2>3, <2>4, <2>5, <2>6 DEF Timely
    <2>8. MayWrite(w, NoOne) BY <2>3 DEF MayWrite
    <2>9. QED BY <2>3, <2>7, <2>8, TimelineMoves
  <1>7. CASE EndBatch(w) BY <1>2, <1>7 DEF EndBatch, Idle
  <1>8. QED BY <1>3, <1>4, <1>5, <1>6, <1>7 DEF Claim

LEMMA QueueTimely ==
    ASSUME TypeOK, LeaseInv, TimelineInv, [QueueNext]_vars
    PROVE  TimelineInv'
  <1>1. ASSUME NEW f \in Workflows, CreateWorkflow(f) PROVE TimelineInv'
    <2>1. PICK art \in BOOLEAN : row' = [row EXCEPT ![f] = [AbsentRow EXCEPT !.status = "pending", !.art = art]]
      BY <1>1 DEF CreateWorkflow
    <2> DEFINE r == [AbsentRow EXCEPT !.status = "pending", !.art = art]
    <2>2. r.status = "pending" /\ r.owner = NoOne BY DEF AbsentRow
    <2>3. row' = [row EXCEPT ![f] = r] /\ MayWrite(f, r) /\ worker' = worker
      BY <1>1, <2>1 DEF CreateWorkflow, MayWrite
    <2> HIDE DEF r
    <2>4. ASSUME NEW v \in Workers PROVE Timely(row', v, worker'[v])
      BY <2>2, <2>3, OthersTimely, QueueAssumption
    <2>5. TimelineAgrees' BY <2>2, <2>3 DEF TimelineInv, TimelineAgrees, TypeOK
    <2>6. QED BY <2>4, <2>5 DEF TimelineInv
  <1>2. ASSUME NEW w \in Workers, WorkerStep(w) PROVE TimelineInv'
    BY <1>2, ClaimTimely, ExecuteTimely DEF WorkerStep
  <1>3. ASSUME NEW w \in Workers, Crash(w) \/ Restart(w) PROVE TimelineInv'
    <2>1. PICK t \in {Idle, [Idle EXCEPT !.pc = "down"]} : Become(w, t) /\ row' = row
      BY <1>3 DEF Crash, Restart
    <2>2. Timely(row', w, t) BY Outside DEF Timely, Idle
    <2>3. MayWrite(w, NoOne) BY <2>1 DEF MayWrite
    <2>4. QED BY <2>1, <2>2, <2>3, TimelineMoves
  <1>4. CASE Tick
    <2>1. \A f \in Workflows : /\ row'[f].status = row[f].status /\ row'[f].steps = row[f].steps
                               /\ row'[f].owner = row[f].owner
      BY <1>4 DEF Tick, TypeOK, Row
    <2>2. ASSUME NEW w \in Workers PROVE Timely(row', w, worker'[w])
      <3>1. worker[w] \in WorkerState /\ Timely(row, w, worker[w]) BY DEF TypeOK, TimelineInv
      <3>2. worker[w].pc \in Stepping \cup {"begin"} => worker[w].cur \in Workflows
        BY DEF LeaseInv, Secured
      <3>3. Timely(row', w, worker[w]) BY <2>1, <3>1, <3>2, TimelyLasts DEF Keeps
      <3>4. worker'[w] = IF worker[w].pc \in Working THEN [worker[w] EXCEPT !.age = @ + 1] ELSE worker[w]
        BY <1>4 DEF Tick
      <3>5. /\ worker'[w].pc = worker[w].pc /\ worker'[w].mine = worker[w].mine
            /\ worker'[w].snap = worker[w].snap /\ worker'[w].cur = worker[w].cur
            /\ worker'[w].step = worker[w].step
        BY <3>1, <3>4 DEF WorkerState
      <3>6. QED BY <3>3, <3>5 DEF Timely
    <2>3. QED BY <2>1, <2>2 DEF TimelineInv, TimelineAgrees
  <1>5. CASE UNCHANGED vars BY <1>5 DEF vars, TimelineInv, TimelineAgrees
  <1>6. QED BY <1>1, <1>2, <1>3, <1>4, <1>5 DEF QueueNext

\* When a step is shorter than the lease, the steps of a succeeded workflow all say
\* succeeded, although updateStepWithEvent writes them without looking at the lock.
THEOREM TimelineComplete == ASSUME StepTicks < LeaseTicks PROVE QueueSpec => []TimelineAgrees
  <1>1. Init => TimelineInv
    BY Outside DEF Init, TimelineInv, TimelineAgrees, Timely, Idle, NoRows, AbsentRow
  <1>2. TypeOK /\ LeaseInv /\ TimelineInv /\ [QueueNext]_vars => TimelineInv' BY QueueTimely
  <1>3. TimelineInv => TimelineAgrees BY DEF TimelineInv
  <1>4. QED BY <1>1, <1>2, <1>3, TypeCorrect, QueueSteps, LeaseAlways, PTL DEF QueueSpec
=============================================================================
