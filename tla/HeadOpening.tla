---------------------------- MODULE HeadOpening ----------------------------
(***************************************************************************)
(* scripts/hydra-open-heads.ts: how heads A, B and C are opened on the     *)
(* first layer.  A run of the script asks a hydra-node to post Init,       *)
(* then has each participant commit an output, and waits for the head to   *)
(* open.  The nodes see the first layer with a lag of their own, answers   *)
(* are lost, runs break off and are run again, and runs for different      *)
(* heads compete for the outputs of Ida, who is in all of them.            *)
(***************************************************************************)
EXTENDS Integers, FiniteSets, Sequences

CONSTANTS
    Cases,              \* the operations that are run, and the sizes held at first
    MIN_COMMIT_LOVELACE,
    COMMIT_RETRIES,
    MaxInits,           \* bound: the Inits posted for a head
    MaxTroubles         \* bound: lost answers, timeouts of Init and runs that break off

ASSUME OpeningAssumption ==
    /\ MIN_COMMIT_LOVELACE \in Nat \ {0}
    /\ COMMIT_RETRIES \in Nat /\ MaxInits \in Nat /\ MaxTroubles \in Nat

VARIABLES
    case,       \* one of Cases
    coins,      \* the first layer: the outputs of each participant
    chain,      \* the first layer: the heads
    seen,       \* the status each hydra-node knows
    run,        \* the script, a run at a time for each operation
    inits,      \* the Inits posted for each head
    troubles    \* how many of MaxTroubles there were

layer1 == <<case, coins, chain, inits>>
vars == <<layer1, seen, run, troubles>>

-----------------------------------------------------------------------------
(* Heads, participants and outputs *)

\* The participants of a head; openHead's coordinator is the first.
Participants ==
    [A |-> <<"alice", "ida">>, B |-> <<"bob", "ida", "jon">>, C |-> <<"charlie", "ida">>]

Heads == DOMAIN Participants
Operations ==
    {"open_heads_ab", "open_head_a", "open_head_b", "commit_head_c_charlie", "commit_head_c_admin"}
Names == {"alice", "bob", "ida", "jon", "charlie"}
Members(h) == {Participants[h][k] : k \in DOMAIN Participants[h]}
Coordinator(h) == Participants[h][1]

HeadsOf(op) ==
    CASE op = "open_heads_ab" -> <<"A", "B">>
      [] op = "open_head_a" -> <<"A">>
      [] op = "open_head_b" -> <<"B">>
      [] OTHER -> <<"C">>

Targets(op) == {HeadsOf(op)[i] : i \in DOMAIN HeadsOf(op)}

\* Head C is not opened as a whole: each of its participants commits on its own.
IsPartial(op) == op \in {"commit_head_c_charlie", "commit_head_c_admin"}
Committer(op) == IF op = "commit_head_c_charlie" THEN "charlie" ELSE "ida"

\* A case is some operations and the sizes of the outputs that each participant holds.
ASSUME CasesAssumption ==
    \A c \in Cases :
        /\ c.operations \subseteq Operations
        /\ \A name \in Names : c.held[name] \subseteq Nat /\ IsFiniteSet(c.held[name])

\* An output has a size, and a version that the change of a fuel output counts up.
None == [size |-> 0, version |-> 0]
Eligible(name) == {o \in coins[name] : o.size >= MIN_COMMIT_LOVELACE}
Nth(outputs, n) == CHOOSE o \in outputs : Cardinality({x \in outputs : x.size < o.size}) = n - 1

\* The smallest output that is large enough, if there is another one for the fuel.
pickCommitUtxo(name) ==
    IF Cardinality(Eligible(name)) >= 2 THEN Nth(Eligible(name), 1) ELSE None

\* Mutation of idaCommitB: another output is demanded for the fuel.
idaCommitBKeepsTwo ==
    IF Cardinality(Eligible("ida")) >= 3 THEN Nth(Eligible("ida"), 2) ELSE None

\* The second run of open_heads_ab may find that the fuel is what is left for B.
idaCommitB ==
    IF Cardinality(Eligible("ida")) >= 2 THEN Nth(Eligible("ida"), 2) ELSE None

\* What a run is going to commit, picked for all its heads before the first of them.
Picked(op) ==
    [h \in Targets(op) |-> [name \in Members(h) |->
        IF op = "open_heads_ab" /\ h = "B" /\ name = "ida" THEN idaCommitB ELSE pickCommitUtxo(name)]]

\* The node pays with the largest of its other outputs, and gets it back.
Fuel(outputs) == Nth(outputs, Cardinality(outputs))
Burnt(outputs) == (outputs \ {Fuel(outputs)}) \cup {[Fuel(outputs) EXCEPT !.version = @ + 1]}

-----------------------------------------------------------------------------
(* The first layer and the hydra-nodes *)

\* All nodes see the first Init; another one makes a head that they ignore.
PostInit(h, name) ==
    /\ coins[name] # {}
    /\ inits[h] < MaxInits
    /\ inits' = [inits EXCEPT ![h] = @ + 1]
    /\ coins' = [coins EXCEPT ![name] = Burnt(@)]
    /\ chain' = [chain EXCEPT ![h].status = IF @ = "Idle" THEN "Initial" ELSE @]
    /\ UNCHANGED case

\* A commit is drafted by a node that knows the head, and accepted once.
CanCommit(h, name, o) ==
    /\ seen[h][name] = "Initial"
    /\ chain[h].status = "Initial"
    /\ name \notin chain[h].committed
    /\ o # None => o \in coins[name]
    /\ coins[name] \ {o} # {}

PostCommit(h, name, o) ==
    /\ CanCommit(h, name, o)
    /\ coins' = [coins EXCEPT ![name] = Burnt(@ \ {o})]
    /\ chain' = [chain EXCEPT ![h].committed = @ \cup {name},
                              ![h].empty = IF o = None THEN @ \cup {name} ELSE @]
    /\ UNCHANGED <<case, inits>>

\* One of the nodes collects the commits, which opens the head.
Collect(h) ==
    /\ chain[h].status = "Initial"
    /\ chain[h].committed = Members(h)
    /\ chain' = [chain EXCEPT ![h].status = "Open"]
    /\ UNCHANGED <<case, coins, inits, seen, run, troubles>>

\* A node learns of the Init, and later that the head is open.
Observe(h, name) ==
    /\ seen[h][name] # chain[h].status
    /\ seen' = [seen EXCEPT ![h][name] = IF @ = "Idle" THEN "Initial" ELSE "Open"]
    /\ UNCHANGED <<layer1, run, troubles>>

-----------------------------------------------------------------------------
(* The script *)

Resting == [pc |-> "idle", try |-> 1, head |-> 1, next |-> 1, attempt |-> 0,
            picks |-> <<>>]

Init ==
    /\ case \in Cases
    /\ coins = [name \in Names |-> {[size |-> s, version |-> 0] : s \in case.held[name]}]
    /\ chain = [h \in Heads |-> [status |-> "Idle", committed |-> {}, empty |-> {}]]
    /\ seen = [h \in Heads |-> [name \in Members(h) |-> "Idle"]]
    /\ run = [op \in Operations |-> Resting]
    /\ inits = [h \in Heads |-> 0]
    /\ troubles = 0

At(op, pc) == run[op].pc = pc
Target(op) == HeadsOf(op)[run[op].head]
Party(op) == IF IsPartial(op) THEN Committer(op) ELSE Participants[Target(op)][run[op].next]
\* The node that a run asks for Init.
Node(op) == IF IsPartial(op) THEN Committer(op) ELSE Coordinator(Target(op))
Known(op, name) == seen[Target(op)][name]
Pick(op) == run[op].picks[Target(op)][Party(op)]
Trouble == troubles < MaxTroubles /\ troubles' = troubles + 1

\* A refresh of l1-utxos.json and the reading of it: the picks of this try.
Started(op, try) == [Resting EXCEPT !.pc = "enter", !.try = try, !.picks = Picked(op)]

\* Whatever is thrown: runOnceWithRefreshRetry refreshes and tries once more.
Thrown(op) ==
    IF run[op].try = 1 THEN Started(op, 2) ELSE [Resting EXCEPT !.pc = "failed"]

\* The script is started, or started again as long as a head of it is not open.
Start(op) ==
    /\ op \in case.operations
    /\ run[op].pc \in {"idle", "failed", "done"}
    /\ \E h \in Targets(op) : chain[h].status # "Open"
    /\ run' = [run EXCEPT ![op] = Started(op, 1)]
    /\ UNCHANGED <<layer1, seen, troubles>>

\* openHead was through with a head.
HeadDone(op) ==
    IF run[op].head < Len(HeadsOf(op))
    THEN [run[op] EXCEPT !.pc = "enter", !.head = @ + 1, !.next = 1, !.attempt = 0]
    ELSE [Resting EXCEPT !.pc = "done"]

\* Mutation of PartyDone: the last participant is passed.
PartyDoneTooFar(op) ==
    IF run[op].next <= Len(Participants[Target(op)])
    THEN [run[op] EXCEPT !.pc = "check", !.next = @ + 1, !.attempt = 0]
    ELSE [run[op] EXCEPT !.pc = "open", !.attempt = 0]

\* On to the next participant of the head, or to the wait for it to open.
PartyDone(op) ==
    IF run[op].next < Len(Participants[Target(op)])
    THEN [run[op] EXCEPT !.pc = "check", !.next = @ + 1, !.attempt = 0]
    ELSE [run[op] EXCEPT !.pc = "open", !.attempt = 0]

\* Mutation of SnapshotReady: it is enough that the coordinator can commit.
CoordinatorReady(op) == run[op].picks[Target(op)][Coordinator(Target(op))] # None

\* assertCommitSnapshotReadyForInit, which only openHead calls.
SnapshotReady(op) ==
    IsPartial(op) \/ \A name \in Members(Target(op)) : run[op].picks[Target(op)][name] # None

\* initIfNeeded on a node that has not seen an Init: it posts one.
AskInit(op) ==
    /\ At(op, "enter")
    /\ Known(op, Node(op)) = "Idle"
    /\ IF SnapshotReady(op)
       THEN PostInit(Target(op), Node(op)) /\ run' = [run EXCEPT ![op].pc = "initing"]
       ELSE UNCHANGED layer1 /\ run' = [run EXCEPT ![op] = Thrown(op)]
    /\ UNCHANGED <<seen, troubles>>

\* The node knows the head: from the greeting, or as HeadIsInitializing arrives.
Initialised(op) ==
    /\ run[op].pc \in {"enter", "initing"}
    /\ Known(op, Node(op)) = "Initial"
    /\ run' = [run EXCEPT ![op].pc = IF IsPartial(op) THEN "commit" ELSE "check"]
    /\ UNCHANGED <<layer1, seen, troubles>>

\* The head was open already.
AlreadyOpen(op) ==
    /\ run[op].pc \in {"enter", "initing"}
    /\ Known(op, Node(op)) = "Open"
    /\ run' = [run EXCEPT ![op] = HeadDone(op)]
    /\ UNCHANGED <<layer1, seen, troubles>>

\* HeadIsInitializing did not come within a minute.
InitTimeout(op) ==
    /\ At(op, "initing")
    /\ Known(op, Node(op)) = "Idle"
    /\ Trouble
    /\ run' = [run EXCEPT ![op] = Thrown(op)]
    /\ UNCHANGED <<layer1, seen>>

\* The coordinator may have reported the participant's commit since the run listens,
\* or not: earlier reports are not repeated (history=no).
MayBeHeard(op) == Party(op) \in chain[Target(op)].committed

\* safeCommitParticipant before the commit: nothing is sent to a node that has not seen
\* the Init which the coordinator has.
Check(op) ==
    /\ At(op, "check")
    /\ \/ /\ MayBeHeard(op) \/ Known(op, Party(op)) = "Open"
          /\ run' = [run EXCEPT ![op] = PartyDone(op)]
       \/ /\ Known(op, Party(op)) = "Idle"
          /\ run' = [run EXCEPT ![op] = Thrown(op)]
       \/ /\ Known(op, Party(op)) = "Initial"
          /\ run' = [run EXCEPT ![op].pc = "commit"]
    /\ UNCHANGED <<layer1, seen, troubles>>

\* A commit went through.  The wait for its report ends after 30 seconds as well; on
\* head C the counterpart is watched as long, and the run is a success either way.
Committed(op) == IF IsPartial(op) THEN [Resting EXCEPT !.pc = "done"] ELSE PartyDone(op)

\* On head C a participant without an output to spare commits nothing, not even an
\* empty commit; on the others the commit is empty then.
NothingToCommit(op) ==
    /\ At(op, "commit")
    /\ IsPartial(op)
    /\ Pick(op) = None
    /\ run' = [run EXCEPT ![op] = Committed(op)]
    /\ UNCHANGED <<layer1, seen, troubles>>

Sends(op) == At(op, "commit") /\ (IsPartial(op) => Pick(op) # None)

Commit(op) ==
    /\ Sends(op)
    /\ PostCommit(Target(op), Party(op), Pick(op))
    /\ run' = [run EXCEPT ![op] = Committed(op)]
    /\ UNCHANGED <<seen, troubles>>

\* After the last attempt openHead goes on if the node or the coordinator knows the head,
\* which it does by then; head C's run throws.
GivenUp(op) == IF IsPartial(op) THEN Thrown(op) ELSE PartyDone(op)

\* commitParticipant drafts and submits again after any error.
Retried(op) ==
    IF run[op].attempt < COMMIT_RETRIES THEN [run[op] EXCEPT !.attempt = @ + 1] ELSE GivenUp(op)

Refused(op) == Sends(op) /\ ~CanCommit(Target(op), Party(op), Pick(op))

\* The node or the first layer refuses: committed before, or an output that is spent.
CommitRefused(op) ==
    /\ Refused(op)
    /\ run' = [run EXCEPT ![op] = Retried(op)]
    /\ UNCHANGED <<layer1, seen, troubles>>

\* The last refusal was NoFuelUTXOFound, which head C's run takes for a commit of before;
\* it may as well be an output that went to another head.
NoFuelUTXOFound(op) ==
    /\ Refused(op)
    /\ IsPartial(op)
    /\ run[op].attempt = COMMIT_RETRIES
    /\ run' = [run EXCEPT ![op] = Committed(op)]
    /\ UNCHANGED <<layer1, seen, troubles>>

\* The commit is on the chain, but the answer of submitToL1 is lost.
CommitAnswerLost(op) ==
    /\ Sends(op)
    /\ Trouble
    /\ PostCommit(Target(op), Party(op), Pick(op))
    /\ run' = [run EXCEPT ![op] = Retried(op)]
    /\ UNCHANGED seen

\* Mutation of Opened: a head that is initialised is as good as an open one.
OpenedPartly(op) ==
    /\ At(op, "open")
    /\ Known(op, Node(op)) \in {"Initial", "Open"}
    /\ run' = [run EXCEPT ![op] = HeadDone(op)]
    /\ UNCHANGED <<layer1, seen, troubles>>

\* The coordinator knows that the head is open.
Opened(op) ==
    /\ At(op, "open")
    /\ Known(op, Node(op)) = "Open"
    /\ run' = [run EXCEPT ![op] = HeadDone(op)]
    /\ UNCHANGED <<layer1, seen, troubles>>

\* A peer is still idle, or HeadIsOpen did not come in time.
NotOpened(op) ==
    /\ At(op, "open")
    /\ Known(op, Node(op)) # "Open"
    /\ run' = [run EXCEPT ![op] = Thrown(op)]
    /\ UNCHANGED <<layer1, seen, troubles>>

\* A node cannot be reached, a query fails, or the run is killed.
Break(op) ==
    /\ run[op].pc \notin {"idle", "failed", "done"}
    /\ Trouble
    /\ \E r \in {Thrown(op), [Resting EXCEPT !.pc = "failed"]} : run' = [run EXCEPT ![op] = r]
    /\ UNCHANGED <<layer1, seen>>

Script(op) ==
    \/ Start(op) \/ AskInit(op) \/ Initialised(op) \/ AlreadyOpen(op) \/ Check(op)
    \/ NothingToCommit(op) \/ Commit(op) \/ CommitRefused(op) \/ NoFuelUTXOFound(op)
    \/ Opened(op) \/ NotOpened(op)

Faults(op) == InitTimeout(op) \/ CommitAnswerLost(op) \/ Break(op)

Nodes ==
    \E h \in Heads : Collect(h) \/ \E name \in Members(h) : Observe(h, name)

Next == Nodes \/ \E op \in Operations : Script(op) \/ Faults(op)

\* A run goes on, and is run again until its heads are open; nodes follow the chain.
Spec == Init /\ [][Next]_vars /\ WF_vars(Nodes) /\ \A op \in Operations : WF_vars(Script(op))

-----------------------------------------------------------------------------
(* Properties *)

Statuses == {"Idle", "Initial", "Open"}

\* The script's states, and what nodes know is never ahead of the chain.
TypeOK ==
    /\ \A op \in Operations :
        /\ run[op].pc \in {"idle", "enter", "initing", "check", "commit", "open", "done", "failed"}
        /\ run[op].head \in DOMAIN HeadsOf(op)
        /\ run[op].next \in DOMAIN Participants[Target(op)]
        /\ run[op].attempt \in 0..COMMIT_RETRIES
    /\ \A h \in Heads :
        /\ chain[h].status \in Statuses
        /\ chain[h].empty \subseteq chain[h].committed
        /\ \A name \in Members(h) :
            /\ seen[h][name] = "Open" => chain[h].status = "Open"
            /\ chain[h].status = "Idle" => seen[h][name] = "Idle"

\* Ida holds an output for each head and one for the fuel, all large enough.
Ample == Cardinality({s \in case.held["ida"] : s >= MIN_COMMIT_LOVELACE}) >
             Cardinality(UNION {Targets(op) : op \in case.operations})

\* A run that reports success for heads A and B has them open: an error of a commit is
\* passed over only because the run waits for the coordinator's HeadIsOpen in the end.
SuccessIsOpen ==
    \A op \in Operations : At(op, "done") /\ ~IsPartial(op) =>
        \A h \in Targets(op) : chain[h].status = "Open"

\* No participant commits nothing although everyone could: with an output for each head
\* and one for the fuel, no order of runs, retries and stale picks for Ida's three heads
\* ends in an empty commit.
NoEmptyCommit == Ample => \A h \in Heads : chain[h].empty = {}

\* A head A or B that was initialised opens in the end, whatever went wrong between
\* and whatever Ida had left: the script can be run again at any point.
InitOpens == \A h \in {"A", "B"} : chain[h].status = "Initial" ~> chain[h].status = "Open"
=============================================================================
