----------------------------- MODULE AdminPage -----------------------------
(***************************************************************************)
(* The page of an administrator, and what it starts: the script that       *)
(* creates a lottery on headB and registers it, the registry of active     *)
(* lotteries, the reconciliation of a lottery that is not registered, and  *)
(* the operations that are workflows.  Every desk is a browser of its own. *)
(***************************************************************************)
EXTENDS LotteryLedger, Sequences

CONSTANTS
    Desks,
    Operations,     \* draw, and those of api/admin/heads/open
    Retries,        \* LOTTERY_REGISTRATION_RETRIES
    MaxCreates,     \* bound: creations
    MaxOrders,      \* bound: operations that are asked for
    MaxFaults       \* bound: reloads, timeouts and requests that fail

ASSUME AdminAssumption ==
    /\ Retries \in Nat /\ MaxCreates \in Nat /\ MaxOrders \in Nat /\ MaxFaults \in Nat
    /\ IsFiniteSet(Desks) /\ Desks \cap Nat = {}
    /\ None \notin Desks \cup Nat
    /\ "none" \notin Operations

VARIABLES
    desk,       \* what each desk has of a lottery that is not registered, and what it waits for
    maker,      \* the scripts that create a lottery, one for each creation
    asks,       \* the requests to register a lottery that the server is at
    registry,   \* the rows of active lotteries; nothing in the code ends one
    order,      \* the requests for an operation
    jobs,       \* the workflows of operations
    creates, orders,            \* how many there were
    faults, unheard, dropped, misheard, overlaps, rushed   \* history

adminVars == <<desk, maker, asks, registry, order, jobs, creates, orders,
               faults, unheard, dropped, misheard, overlaps, rushed>>

Makers == 1..MaxCreates
Orders == 1..MaxOrders
NoLot == -1

AdminInit(outputs) ==
    /\ HeadInit(outputs)
    /\ desk = [d \in Desks |-> [record |-> NoLot, result |-> NoLot, creating |-> 0, reconciling |-> FALSE]]
    /\ maker = [m \in Makers |-> [pc |-> "idle", lot |-> NoLot, tx |-> 0, tries |-> 0]]
    /\ asks = {} /\ registry = <<>>
    /\ order = [r \in Orders |-> [pc |-> "idle", op |-> "none", desk |-> None]] /\ jobs = <<>>
    /\ creates = 0 /\ orders = 0
    /\ faults = 0 /\ unheard = 0 /\ dropped = 0 /\ misheard = 0 /\ overlaps = 0 /\ rushed = 0

Registered == {registry[i] : i \in DOMAIN registry}

\* Something goes wrong, as often as the bound has it.
Fault == faults < MaxFaults /\ faults' = faults + 1

-----------------------------------------------------------------------------
(* The creation of a lottery *)

Drawing(d) == \E r \in Orders : order[r].desk = d /\ order[r].op = "draw"

ClickCreate(d) ==
    /\ desk[d].creating = 0 /\ ~desk[d].reconciling /\ ~Drawing(d)
    /\ creates < MaxCreates /\ creates' = creates + 1
    /\ desk' = [desk EXCEPT ![d].creating = creates + 1, ![d].result = NoLot]
    /\ maker' = [maker EXCEPT ![creates + 1].pc = "mint"]
    /\ UNCHANGED <<headVars, asks, registry, order, jobs, orders, faults, unheard, dropped, misheard, overlaps, rushed>>

\* Mutation of Settle: a lottery that is not registered is not kept.
SettleForgets(m, needs) ==
    /\ maker' = [maker EXCEPT ![m].pc = "done"]
    /\ desk' = [d \in Desks |-> IF desk[d].creating = m THEN [desk[d] EXCEPT !.creating = 0] ELSE desk[d]]
    /\ UNCHANGED dropped

\* The script ends, and the page that waits for it has its result: a lottery that has to be
\* reconciled, nothing to reconcile, or an error, which leaves the record alone.
Settle(m, needs) ==
    /\ maker' = [maker EXCEPT ![m].pc = "done"]
    /\ desk' = [d \in Desks |->
          IF desk[d].creating # m THEN desk[d]
          ELSE [desk[d] EXCEPT !.creating = 0, !.record = needs, !.result = needs]]
    /\ dropped' = dropped + Cardinality({d \in Desks : desk[d].creating = m /\ desk[d].record \notin {NoLot, needs} \cup Registered})

Abort(m) ==
    /\ maker' = [maker EXCEPT ![m].pc = "done"]
    /\ desk' = [d \in Desks |-> IF desk[d].creating # m THEN desk[d] ELSE [desk[d] EXCEPT !.creating = 0]]

\* Mutation of SendMint: the script registers without an answer.
SendMintUnawaited(m) ==
    /\ maker[m].pc = "mint"
    /\ \E seed \in At(snapshot, "coin"), closes \in CloseTimes :
          /\ closes > now + MintWindow
          /\ MintFrom(seed, closes)
          /\ maker' = [maker EXCEPT ![m] = [@ EXCEPT !.pc = "register", !.lot = TokenOf(seed), !.tx = sent + 1]]
    /\ UNCHANGED <<desk, asks, registry, order, jobs, creates, orders, faults, unheard, dropped, misheard, overlaps, rushed>>

\* The seed is the wallet's first output; the lottery has to close after the window.
SendMint(m) ==
    /\ maker[m].pc = "mint"
    /\ \E seed \in At(snapshot, "coin"), closes \in CloseTimes :
          /\ closes > now + MintWindow
          /\ MintFrom(seed, closes)
          /\ maker' = [maker EXCEPT ![m] = [@ EXCEPT !.pc = "await", !.lot = TokenOf(seed), !.tx = sent + 1]]
    /\ UNCHANGED <<desk, asks, registry, order, jobs, creates, orders, faults, unheard, dropped, misheard, overlaps, rushed>>

RefuseMint(m) ==
    /\ maker[m].pc = "mint"
    /\ \E closes \in CloseTimes : closes <= now + MintWindow
    /\ Abort(m)
    /\ UNCHANGED <<headVars, asks, registry, order, jobs, creates, orders, faults, unheard, dropped, misheard, overlaps, rushed>>

\* headB answers, and every script that waits takes the answer for its own.
HearMint(t) ==
    LET hear == {m \in Makers : maker[m].pc = "await"} IN
    /\ Judge(t)
    /\ maker' = [m \in Makers |-> IF m \in hear THEN [maker[m] EXCEPT !.pc = IF Accepts(t) THEN "register" ELSE "done"]
                                  ELSE maker[m]]
    /\ desk' = [d \in Desks |-> IF desk[d].creating \in hear /\ ~Accepts(t) THEN [desk[d] EXCEPT !.creating = 0] ELSE desk[d]]
    /\ misheard' = misheard + Cardinality({m \in hear : maker[m].tx # t.id})
    /\ UNCHANGED <<asks, registry, order, jobs, creates, orders, faults, unheard, dropped, overlaps, rushed>>

\* runTsx kills the script after three minutes.
KillScript(m) ==
    /\ maker[m].pc \notin {"idle", "done"}
    /\ Fault /\ Abort(m) /\ unheard' = unheard + 1
    /\ UNCHANGED <<headVars, asks, registry, order, jobs, creates, orders, dropped, misheard, overlaps, rushed>>

-----------------------------------------------------------------------------
(* The registry *)

\* An attempt has failed: there is another one, or the lottery has to be reconciled.
Retry(m) ==
    IF maker[m].tries < Retries
    THEN /\ maker' = [maker EXCEPT ![m].pc = "register", ![m].tries = @ + 1]
         /\ UNCHANGED <<desk, dropped>>
    ELSE Settle(m, maker[m].lot)

\* registerLotteryWithRetries: a request is made, or fails on its way.
Register(m) ==
    /\ maker[m].pc = "register"
    /\ \/ /\ asks' = asks \cup {[from |-> m, lot |-> maker[m].lot, pc |-> "count"]}
          /\ maker' = [maker EXCEPT ![m].pc = "waiting"]
          /\ UNCHANGED <<desk, faults, dropped>>
       \/ Fault /\ Retry(m) /\ UNCHANGED asks
    /\ UNCHANGED <<headVars, registry, order, jobs, creates, orders, unheard, misheard, overlaps, rushed>>

\* A lottery that a desk may reconcile: the last result, if it has one, or else the record.
Shown(d) == IF desk[d].result # NoLot THEN desk[d].result ELSE desk[d].record

ClickReconcile(d) ==
    /\ Shown(d) # NoLot /\ ~desk[d].reconciling
    /\ asks' = asks \cup {[from |-> d, lot |-> Shown(d), pc |-> "count"]}
    /\ desk' = [desk EXCEPT ![d].reconciling = TRUE]
    /\ orders < MaxOrders /\ orders' = orders + 1
    /\ UNCHANGED <<headVars, maker, registry, order, jobs, creates, faults, unheard, dropped, misheard, overlaps, rushed>>

\* Mutation of Told: a reconciliation leaves the record where it is.
ToldKeeps(q, ok) ==
    CASE q.from \in Makers /\ maker[q.from].pc = "waiting" -> IF ok THEN Settle(q.from, NoLot) ELSE Retry(q.from)
      [] q.from \in Desks -> desk' = [desk EXCEPT ![q.from].reconciling = FALSE] /\ UNCHANGED <<maker, dropped>>
      [] OTHER -> UNCHANGED <<desk, maker, dropped>>

\* The answer of a registration, to whoever still waits for it.
Told(q, ok) ==
    CASE q.from \in Makers /\ maker[q.from].pc = "waiting" -> IF ok THEN Settle(q.from, NoLot) ELSE Retry(q.from)
      [] q.from \in Desks /\ ok ->
            /\ desk' = [desk EXCEPT ![q.from].reconciling = FALSE, ![q.from].record = NoLot]
            /\ dropped' = IF desk[q.from].record \in {NoLot, q.lot} \cup Registered THEN dropped ELSE dropped + 1
            /\ UNCHANGED maker
      [] q.from \in Desks /\ ~ok -> desk' = [desk EXCEPT ![q.from].reconciling = FALSE] /\ UNCHANGED <<maker, dropped>>
      [] OTHER -> UNCHANGED <<desk, maker, dropped>>

\* Mutation of CountActive: another active lottery does not matter.
CountNothing(q) ==
    /\ q.pc = "count"
    /\ asks' = (asks \ {q}) \cup {[q EXCEPT !.pc = "insert"]}
    /\ UNCHANGED <<headVars, desk, maker, registry, order, jobs, creates, orders, faults, unheard, dropped, misheard, overlaps, rushed>>

\* registerActiveLotteryForHead counts the active lotteries of all heads ...
CountActive(q) ==
    /\ q.pc = "count"
    /\ IF registry = <<>>
       THEN /\ asks' = (asks \ {q}) \cup {[q EXCEPT !.pc = "insert"]}
            /\ overlaps' = IF \E p \in asks : p.pc = "insert" THEN overlaps + 1 ELSE overlaps
            /\ UNCHANGED <<desk, maker, dropped>>
       ELSE asks' = asks \ {q} /\ Told(q, FALSE) /\ UNCHANGED overlaps
    /\ UNCHANGED <<headVars, registry, order, jobs, creates, orders, faults, unheard, misheard, rushed>>

\* ... and inserts one if there was none.
Insert(q) ==
    /\ q.pc = "insert"
    /\ registry' = Append(registry, q.lot)
    /\ asks' = asks \ {q}
    /\ Told(q, TRUE)
    /\ UNCHANGED <<headVars, order, jobs, creates, orders, faults, unheard, misheard, overlaps, rushed>>

\* The answer does not come: the script tries again, and the page has an error.
LoseAnswer(q) ==
    /\ Fault /\ unheard' = unheard + 1
    /\ CASE q.from \in Makers /\ maker[q.from].pc = "waiting" -> Retry(q.from)
         [] q.from \in Desks -> desk' = [desk EXCEPT ![q.from].reconciling = FALSE] /\ UNCHANGED <<maker, dropped>>
         [] OTHER -> FALSE
    /\ asks' = (asks \ {q}) \cup {[q EXCEPT !.from = None]}
    /\ UNCHANGED <<headVars, registry, order, jobs, creates, orders, misheard, overlaps, rushed>>

\* The page is reloaded: it has the record, and no mutation.
ReloadDesk(d) ==
    /\ Fault /\ unheard' = unheard + 1
    /\ desk' = [desk EXCEPT ![d] = [record |-> @.record, result |-> NoLot, creating |-> 0, reconciling |-> FALSE]]
    /\ asks' = {IF q.from = d THEN [q EXCEPT !.from = None] ELSE q : q \in asks}
    /\ order' = [r \in Orders |-> IF order[r].desk = d THEN [order[r] EXCEPT !.desk = None] ELSE order[r]]
    /\ UNCHANGED <<headVars, maker, registry, jobs, creates, orders, dropped, misheard, overlaps, rushed>>

-----------------------------------------------------------------------------
(* The operations that are workflows *)

InFlight(op) == {j \in DOMAIN jobs : jobs[j].op = op /\ jobs[j].status \in {"pending", "running"}}

\* A winner is drawn for an active lottery, and not while another mutation of it is pending.
Order(d, op) ==
    /\ IF op = "draw" THEN registry # <<>> /\ desk[d].creating = 0 /\ ~desk[d].reconciling /\ ~Drawing(d)
       ELSE ~\E r \in Orders : order[r].desk = d /\ order[r].op # "draw"
    /\ orders < MaxOrders /\ orders' = orders + 1
    /\ order' = [order EXCEPT ![orders + 1] = [pc |-> "look", op |-> op, desk |-> d]]
    /\ UNCHANGED <<headVars, desk, maker, asks, registry, jobs, creates, faults, unheard, dropped, misheard, overlaps, rushed>>

Answered(r) == order' = [order EXCEPT ![r] = [pc |-> "idle", op |-> "none", desk |-> None]]

\* Mutation of Look: nobody looks for a workflow in flight.
LookAway(r) ==
    /\ order[r].pc = "look"
    /\ order' = [order EXCEPT ![r].pc = "create"]
    /\ UNCHANGED <<headVars, desk, maker, asks, registry, jobs, creates, orders, faults, unheard, dropped, misheard, overlaps, rushed>>

\* The route looks for a workflow in flight of the operation ...
Look(r) ==
    /\ order[r].pc = "look"
    /\ IF InFlight(order[r].op) # {}
       THEN Answered(r) /\ UNCHANGED rushed
       ELSE /\ order' = [order EXCEPT ![r].pc = "create"]
            /\ rushed' = IF \E p \in Orders : order[p].pc = "create" /\ order[p].op = order[r].op THEN rushed + 1 ELSE rushed
    /\ UNCHANGED <<headVars, desk, maker, asks, registry, jobs, creates, orders, faults, unheard, dropped, misheard, overlaps>>

\* ... and creates one if there is none.
CreateJob(r) ==
    /\ order[r].pc = "create"
    /\ jobs' = Append(jobs, [op |-> order[r].op, status |-> "pending", again |-> FALSE])
    /\ Answered(r)
    /\ UNCHANGED <<headVars, desk, maker, asks, registry, creates, orders, faults, unheard, dropped, misheard, overlaps, rushed>>

\* What the worker makes of a workflow: a failed one comes back, once here.
JobStep(j) ==
    LET next == CASE jobs[j].status = "pending" -> {"running"}
                  [] jobs[j].status = "running" -> {"ended"} \cup (IF jobs[j].again THEN {} ELSE {"failed"})
                  [] jobs[j].status = "failed" -> {"running"}
                  [] OTHER -> {}
    IN  /\ \E status \in next : jobs' = [jobs EXCEPT ![j].status = status, ![j].again = @ \/ status = "failed"]
        /\ UNCHANGED <<headVars, desk, maker, asks, registry, order, creates, orders, faults, unheard, dropped, misheard, overlaps, rushed>>

DeskStep(d) ==
    \/ ClickCreate(d) \/ ClickReconcile(d) \/ ReloadDesk(d)
    \/ \E op \in Operations : Order(d, op)

ScriptRun(m) == SendMint(m) \/ RefuseMint(m) \/ KillScript(m) \/ Register(m)

AdminNext ==
    \/ \E d \in Desks : DeskStep(d)
    \/ \E m \in Makers : ScriptRun(m)
    \/ \E t \in pool : HearMint(t)
    \/ \E q \in asks : CountActive(q) \/ Insert(q) \/ LoseAnswer(q)
    \/ \E r \in Orders : Look(r) \/ CreateJob(r)
    \/ \E j \in DOMAIN jobs : JobStep(j)
    \/ Confirm("headB") /\ UNCHANGED adminVars

-----------------------------------------------------------------------------
(* Properties *)

\* Each of these is the shape of its variable; what waits is waited for.
AdminTypeOK ==
    /\ \A m \in Makers : maker[m].tx \in 0..sent /\ maker[m].tries \in 0..Retries
    /\ \A q \in asks : q.lot # NoLot /\ (q.from \in Desks => desk[q.from].reconciling)
    /\ \A d \in Desks : desk[d].creating # 0 => maker[desk[d].creating].pc \notin {"idle", "done"}
    /\ \A r \in Orders : (order[r].pc = "idle") = (order[r].op = "none")
    /\ DOMAIN jobs \subseteq Orders

\* Tickets are sold, and winners drawn, for one lottery: there is never a second active one,
\* unless two registrations counted before either of them inserted.
OneActiveLottery == Len(registry) <= 1 + overlaps

\* A prize that has been locked can be found: a lottery on the head that is not registered
\* is on its way to be, or shown at a desk, unless its record was dropped by a later result,
\* or an answer was lost or taken for another's.
OrphanHasCause ==
    LET known == {maker[m].lot : m \in {n \in Makers : maker[n].pc \notin {"idle", "done"}}}
                 \cup {Shown(d) : d \in Desks} \cup {q.lot : q \in asks} \cup Registered
    IN  Cardinality({l \in At(utxo, "lottery") : l.lot \notin known}) <= unheard + dropped + misheard

\* What is registered is on the head, unless a script took another's answer for its own.
RegisteredExists == Cardinality({l \in Registered : ~\E o \in At(utxo, "lottery") : o.lot = l}) <= misheard

\* No record of a registered lottery stays at a desk, where it would be reconciled over and
\* over, unless an answer was lost or taken for another's.
RecordsAreOpen == unheard + misheard = 0 => \A d \in Desks : desk[d].record = NoLot \/ desk[d].record \notin Registered

\* One workflow of an operation at a time, unless two requests looked before either created,
\* or one that had failed came back.
OneJobPerOperation ==
    \A op \in Operations :
        Cardinality(InFlight(op)) <= 1 + rushed + Cardinality({j \in DOMAIN jobs : jobs[j].again})
=============================================================================
