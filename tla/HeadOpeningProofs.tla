------------------------- MODULE HeadOpeningProofs -------------------------
(***************************************************************************)
(* A run for heads A and B that reports success has opened them, and with  *)
(* an output for each head nobody ever commits nothing, whatever else the  *)
(* participants hold and however often answers are lost and runs break     *)
(* off or compete.                                                         *)
(*                                                                         *)
(* The run relies on what a node tells it, so the invariant adds that no   *)
(* node is ahead of the chain (NodesBehind), and that the heads a run has  *)
(* left behind are open (RunsOK).  An open head stays open (OpenStays).    *)
(*                                                                         *)
(* Commits rely on outputs picked before others were spent.  CommitsInv    *)
(* counts what Ida has lost against what she has committed (IdaInv), and   *)
(* says what a pick is worth until its participant commits (PicksInv).     *)
(***************************************************************************)
EXTENDS HeadOpening, FiniteSetTheorems, TLAPS

IsOpen(c, h) == c[h].status = "Open"

ChainOK ==
    /\ DOMAIN chain = Heads
    /\ \A h \in Heads : DOMAIN chain[h] = {"status", "committed", "empty"} /\ chain[h].status \in Statuses

NodesBehind ==
    /\ DOMAIN seen = Heads
    /\ \A h \in Heads :
        /\ DOMAIN seen[h] = Members(h)
        /\ \A name \in Members(h) :
            /\ seen[h][name] \in Statuses
            /\ seen[h][name] = "Open" => IsOpen(chain, h)
            /\ chain[h].status = "Idle" => seen[h][name] = "Idle"

Fields == {"pc", "try", "head", "next", "attempt", "picks"}

\* A run r of op has opened, in c, the heads before the one it is at; all when it is done.
Passed(c, op, r) ==
    ~IsPartial(op) =>
        /\ r.head \in DOMAIN HeadsOf(op)
        /\ \A i \in DOMAIN HeadsOf(op) : i < r.head \/ r.pc = "done" => IsOpen(c, HeadsOf(op)[i])

RunOK(c, op, r) == DOMAIN r = Fields /\ Passed(c, op, r)

RunsOK == DOMAIN run = Operations /\ \A op \in Operations : RunOK(chain, op, run[op])

IInv == ChainOK /\ NodesBehind /\ RunsOK

\* What a step may do to the chain.
OpenStays == \A h \in Heads : IsOpen(chain, h) => IsOpen(chain', h)

-----------------------------------------------------------------------------
(* The heads of an operation *)

LEMMA Names3 == Heads = {"A", "B", "C"}
BY DEF Heads, Participants

LEMMA Coordinates == \A h \in Heads : Coordinator(h) \in Members(h)
BY Names3 DEF Coordinator, Members, Participants

\* An operation has one head or two, which are heads, and begins with the first.
LEMMA HeadsListed ==
    ASSUME NEW op \in Operations
    PROVE  /\ DOMAIN HeadsOf(op) = 1..Len(HeadsOf(op))
           /\ Len(HeadsOf(op)) \in {1, 2}
           /\ \A i \in DOMAIN HeadsOf(op) : HeadsOf(op)[i] \in Heads
<1>1. CASE op = "open_heads_ab"
  <2>1. HeadsOf(op) = <<"A", "B">>
    BY <1>1 DEF HeadsOf
  <2> QED
    BY <2>1, Names3
<1>2. CASE op # "open_heads_ab"
  <2>1. PICK h \in Heads : HeadsOf(op) = <<h>>
    BY <1>2, Names3 DEF HeadsOf, Operations
  <2> QED
    BY <2>1
<1> QED
  BY <1>1, <1>2

-----------------------------------------------------------------------------
(* Runs *)

\* A run that begins at its first head has passed none.
LEMMA FirstHead ==
    ASSUME NEW op \in Operations, NEW c, NEW r, DOMAIN r = Fields, r.head = 1, r.pc # "done"
    PROVE  RunOK(c, op, r)
BY HeadsListed DEF RunOK, Passed

LEMMA StartedOK ==
    ASSUME NEW op \in Operations, NEW try
    PROVE  RunOK(chain, op, Started(op, try))
<1>1. /\ DOMAIN Started(op, try) = Fields
      /\ Started(op, try).head = 1
      /\ Started(op, try).pc = "enter"
  BY DEF Started, Resting, Fields
<1> QED
  BY <1>1, FirstHead

LEMMA FailedOK ==
    ASSUME NEW op \in Operations
    PROVE  RunOK(chain, op, [Resting EXCEPT !.pc = "failed"])
<1>1. /\ DOMAIN [Resting EXCEPT !.pc = "failed"] = Fields
      /\ [Resting EXCEPT !.pc = "failed"].head = 1
      /\ [Resting EXCEPT !.pc = "failed"].pc = "failed"
  BY DEF Resting, Fields
<1> QED
  BY <1>1, FirstHead

LEMMA ThrownOK ==
    ASSUME NEW op \in Operations
    PROVE  RunOK(chain, op, Thrown(op))
BY StartedOK, FailedOK DEF Thrown

\* A run that only moves on with its head, and not to the end, is as good as before.
LEMMA SameHead ==
    ASSUME NEW op \in Operations, RunsOK, NEW r,
           DOMAIN r = Fields, r.head = run[op].head, r.pc # "done"
    PROVE  RunOK(chain, op, r)
BY DEF RunsOK, RunOK, Passed

LEMMA MovedOK ==
    ASSUME NEW op \in Operations, RunsOK, NEW pc, pc # "done"
    PROVE  RunOK(chain, op, [run[op] EXCEPT !.pc = pc])
<1>1. DOMAIN run[op] = Fields
  BY DEF RunsOK, RunOK
<1>2. /\ DOMAIN [run[op] EXCEPT !.pc = pc] = Fields
      /\ [run[op] EXCEPT !.pc = pc].head = run[op].head
      /\ [run[op] EXCEPT !.pc = pc].pc = pc
  BY <1>1 DEF Fields
<1> QED
  BY <1>2, SameHead

LEMMA PartyDoneOK ==
    ASSUME NEW op \in Operations, RunsOK
    PROVE  RunOK(chain, op, PartyDone(op))
<1>1. DOMAIN run[op] = Fields
  BY DEF RunsOK, RunOK
<1>2. /\ DOMAIN PartyDone(op) = Fields
      /\ PartyDone(op).head = run[op].head
      /\ PartyDone(op).pc \in {"check", "open"}
  BY <1>1 DEF PartyDone, Fields
<1> QED
  BY <1>2, SameHead

LEMMA CommittedOK ==
    ASSUME NEW op \in Operations, RunsOK
    PROVE  RunOK(chain, op, Committed(op))
<1>1. CASE IsPartial(op)
  <2>1. DOMAIN [Resting EXCEPT !.pc = "done"] = Fields
    BY DEF Resting, Fields
  <2> QED
    BY <1>1, <2>1 DEF Committed, RunOK, Passed
<1>2. CASE ~IsPartial(op)
  BY <1>2, PartyDoneOK DEF Committed
<1> QED
  BY <1>1, <1>2

LEMMA RetriedOK ==
    ASSUME NEW op \in Operations, RunsOK, At(op, "commit")
    PROVE  RunOK(chain, op, Retried(op))
<1>1. DOMAIN run[op] = Fields
  BY DEF RunsOK, RunOK
<1>2. CASE run[op].attempt < COMMIT_RETRIES
  <2>1. /\ DOMAIN Retried(op) = Fields
        /\ Retried(op).head = run[op].head
        /\ Retried(op).pc = "commit"
    BY <1>1, <1>2 DEF Retried, At, Fields
  <2> QED
    BY <2>1, SameHead
<1>3. CASE ~(run[op].attempt < COMMIT_RETRIES)
  BY <1>3, ThrownOK, PartyDoneOK DEF Retried, GivenUp
<1> QED
  BY <1>2, <1>3

\* openHead leaves a head only when the coordinator has seen it open.
LEMMA HeadDoneOK ==
    ASSUME NEW op \in Operations, IInv, Known(op, Node(op)) = "Open"
    PROVE  RunOK(chain, op, HeadDone(op))
<1>1. DOMAIN run[op] = Fields /\ Passed(chain, op, run[op])
  BY DEF IInv, RunsOK, RunOK
<1>2. DOMAIN HeadDone(op) = Fields
  BY <1>1 DEF HeadDone, Resting, Fields
<1>3. CASE IsPartial(op)
  BY <1>2, <1>3 DEF RunOK, Passed
<1>4. CASE ~IsPartial(op)
  <2>1. run[op].head \in DOMAIN HeadsOf(op) /\ Target(op) \in Heads
    BY <1>1, <1>4, HeadsListed DEF Passed, Target
  <2>2. IsOpen(chain, Target(op))
    BY <2>1, <1>4, Coordinates DEF IInv, NodesBehind, Known, Node
  <2>3. \A i \in DOMAIN HeadsOf(op) : i <= run[op].head => IsOpen(chain, HeadsOf(op)[i])
    BY <1>1, <1>4, <2>1, <2>2, HeadsListed DEF Passed, Target
  <2>4. CASE run[op].head < Len(HeadsOf(op))
    <3>1. HeadDone(op).head = run[op].head + 1 /\ HeadDone(op).pc = "enter"
      BY <1>1, <2>4 DEF HeadDone, Fields
    <3> QED
      BY <1>2, <2>1, <2>3, <2>4, <3>1, HeadsListed DEF RunOK, Passed
  <2>5. CASE ~(run[op].head < Len(HeadsOf(op)))
    <3>1. HeadDone(op).head = 1 /\ HeadDone(op).pc = "done"
      BY <2>5 DEF HeadDone, Resting
    <3> QED
      BY <1>2, <2>1, <2>3, <2>5, <3>1, HeadsListed DEF RunOK, Passed
  <2> QED
    BY <2>4, <2>5
<1> QED
  BY <1>3, <1>4

-----------------------------------------------------------------------------
(* Steps *)

\* Runs are as good in a later chain, and so is the one that moved.
LEMMA RunKept ==
    ASSUME NEW op \in Operations, NEW r, RunsOK, OpenStays,
           RunOK(chain, op, r), run' = [run EXCEPT ![op] = r]
    PROVE  RunsOK'
<1>1. ASSUME NEW o \in Operations, NEW q, RunOK(chain, o, q)
      PROVE  RunOK(chain', o, q)
  BY <1>1, HeadsListed DEF RunOK, Passed, OpenStays
<1>2. DOMAIN run = Operations /\ \A o \in Operations : RunOK(chain, o, run[o])
  BY DEF RunsOK
<1>3. \A o \in Operations : run'[o] = IF o = op THEN r ELSE run[o]
  BY <1>2
<1>4. DOMAIN run' = Operations
  BY <1>2
<1>5. \A o \in Operations : RunOK(chain', o, run'[o])
  BY <1>1, <1>2, <1>3
<1> QED
  BY <1>4, <1>5 DEF RunsOK

\* What the chain does to the nodes' knowledge of it.
ChainMoves == ChainOK' /\ OpenStays /\ \A h \in Heads : chain[h].status # "Idle" => chain'[h].status # "Idle"

LEMMA SameChain ==
    ASSUME ChainOK, chain' = chain
    PROVE  ChainMoves
BY DEF ChainMoves, ChainOK, OpenStays, IsOpen

LEMMA SeenKept ==
    ASSUME NodesBehind, ChainMoves, seen' = seen
    PROVE  NodesBehind'
BY DEF NodesBehind, ChainMoves, OpenStays, IsOpen

LEMMA InitMoves ==
    ASSUME NEW h, NEW name, ChainOK, PostInit(h, name)
    PROVE  ChainMoves
BY DEF PostInit, ChainMoves, ChainOK, OpenStays, IsOpen, Statuses

LEMMA CommitMoves ==
    ASSUME NEW h, NEW name, NEW o, ChainOK, PostCommit(h, name, o)
    PROVE  ChainMoves
BY DEF PostCommit, ChainMoves, ChainOK, OpenStays, IsOpen

\* A step of the script, which no node notices.
LEMMA ScriptStep ==
    ASSUME NEW op \in Operations, NEW r, IInv, ChainMoves, seen' = seen,
           RunOK(chain, op, r), run' = [run EXCEPT ![op] = r]
    PROVE  IInv'
BY SeenKept, RunKept DEF IInv, ChainMoves

\* The script moves on without the first layer.
LEMMA ScriptAlone ==
    ASSUME NEW op \in Operations, NEW r, IInv, layer1' = layer1, seen' = seen,
           RunOK(chain, op, r), run' = [run EXCEPT ![op] = r]
    PROVE  IInv'
BY SameChain, ScriptStep DEF IInv, layer1

\* The same, for steps that only change the run's pc.
LEMMA PcStep ==
    ASSUME NEW op \in Operations, NEW pc, pc # "done", IInv, ChainMoves, seen' = seen,
           run' = [run EXCEPT ![op].pc = pc]
    PROVE  IInv'
<1>1. RunOK(chain, op, [run[op] EXCEPT !.pc = pc])
  BY MovedOK DEF IInv
<1>2. run' = [run EXCEPT ![op] = [run[op] EXCEPT !.pc = pc]]
  OBVIOUS
<1> QED
  BY <1>1, <1>2, ScriptStep

LEMMA AskInitStep ==
    ASSUME NEW op \in Operations, IInv, AskInit(op)
    PROVE  IInv'
<1>1. CASE SnapshotReady(op)
  <2>1. /\ PostInit(Target(op), Node(op))
        /\ run' = [run EXCEPT ![op].pc = "initing"]
        /\ seen' = seen
    BY <1>1 DEF AskInit
  <2>2. ChainMoves
    BY <2>1, InitMoves DEF IInv
  <2> QED
    BY <2>1, <2>2, PcStep
<1>2. CASE ~SnapshotReady(op)
  BY <1>2, ThrownOK, ScriptAlone DEF AskInit
<1> QED
  BY <1>1, <1>2

LEMMA InitialisedStep ==
    ASSUME NEW op \in Operations, IInv, Initialised(op)
    PROVE  IInv'
<1>1. ChainMoves /\ seen' = seen
  BY SameChain DEF Initialised, layer1, IInv
<1>2. PICK pc \in {"commit", "check"} : run' = [run EXCEPT ![op].pc = pc]
  BY DEF Initialised
<1> QED
  BY <1>1, <1>2, PcStep

LEMMA CheckStep ==
    ASSUME NEW op \in Operations, IInv, Check(op)
    PROVE  IInv'
<1>1. layer1' = layer1 /\ seen' = seen
  BY DEF Check
<1>2. CASE run' = [run EXCEPT ![op] = PartyDone(op)]
  BY <1>1, <1>2, PartyDoneOK, ScriptAlone DEF IInv
<1>3. CASE run' = [run EXCEPT ![op] = Thrown(op)]
  BY <1>1, <1>3, ThrownOK, ScriptAlone
<1>4. CASE run' = [run EXCEPT ![op].pc = "commit"]
  BY <1>1, <1>4, PcStep, SameChain DEF IInv, layer1
<1> QED
  BY <1>2, <1>3, <1>4 DEF Check

LEMMA CommitStep ==
    ASSUME NEW op \in Operations, IInv, Commit(op) \/ CommitAnswerLost(op)
    PROVE  IInv'
<1>1. ChainMoves /\ seen' = seen
  BY CommitMoves DEF Commit, CommitAnswerLost, IInv
<1>2. CASE Commit(op)
  BY <1>1, <1>2, CommittedOK, ScriptStep DEF Commit, IInv
<1>3. CASE CommitAnswerLost(op)
  BY <1>1, <1>3, RetriedOK, ScriptStep DEF CommitAnswerLost, Sends, IInv
<1> QED
  BY <1>2, <1>3

LEMMA BreakStep ==
    ASSUME NEW op \in Operations, IInv, Break(op)
    PROVE  IInv'
BY ThrownOK, FailedOK, ScriptAlone DEF Break

\* Every other step of a run leaves the first layer alone.
LEMMA ScriptKeeps ==
    ASSUME NEW op \in Operations, IInv, Script(op) \/ Faults(op)
    PROVE  IInv'
<1>1. CASE Start(op)
  BY <1>1, StartedOK, ScriptAlone DEF Start
<1>2. CASE AlreadyOpen(op)
  BY <1>2, HeadDoneOK, ScriptAlone DEF AlreadyOpen
<1>3. CASE InitTimeout(op)
  BY <1>3, ThrownOK, ScriptAlone DEF InitTimeout
<1>4. CASE NothingToCommit(op) \/ NoFuelUTXOFound(op)
  BY <1>4, CommittedOK, ScriptAlone DEF NothingToCommit, NoFuelUTXOFound, IInv
<1>5. CASE CommitRefused(op)
  BY <1>5, RetriedOK, ScriptAlone DEF CommitRefused, Refused, Sends, IInv
<1>6. CASE Opened(op)
  BY <1>6, HeadDoneOK, ScriptAlone DEF Opened
<1>7. CASE NotOpened(op)
  BY <1>7, ThrownOK, ScriptAlone DEF NotOpened
<1> QED
  BY <1>1, <1>2, <1>3, <1>4, <1>5, <1>6, <1>7, AskInitStep, InitialisedStep, CheckStep,
     CommitStep, BreakStep DEF Script, Faults

\* A head is opened, which no run and no node relies on not to happen.
LEMMA CollectStep ==
    ASSUME NEW h \in Heads, IInv, Collect(h)
    PROVE  IInv'
<1>1. ChainMoves
  BY DEF Collect, ChainMoves, ChainOK, OpenStays, IsOpen, Statuses, IInv
<1>2. NodesBehind'
  BY <1>1, SeenKept DEF Collect, IInv
<1>3. RunsOK'
  <2>1. ASSUME NEW o \in Operations, RunOK(chain, o, run[o])
        PROVE  RunOK(chain', o, run[o])
    BY <1>1, <2>1, HeadsListed DEF RunOK, Passed, ChainMoves, OpenStays
  <2> QED
    BY <2>1 DEF RunsOK, IInv, Collect
<1> QED
  BY <1>1, <1>2, <1>3 DEF IInv, ChainMoves

\* A node is told what the chain is, or of the Init that comes before the opening.
LEMMA ObserveStep ==
    ASSUME NEW h \in Heads, NEW name \in Members(h), IInv, Observe(h, name)
    PROVE  IInv'
<1>1. PICK s : s = (IF seen[h][name] = "Idle" THEN "Initial" ELSE "Open")
               /\ seen' = [seen EXCEPT ![h][name] = s]
  BY DEF Observe
<1>2. chain' = chain /\ run' = run
  BY DEF Observe, layer1
<1>3. /\ s \in Statuses
      /\ s = "Open" => IsOpen(chain, h)
      /\ chain[h].status # "Idle"
  BY <1>1 DEF Observe, IInv, NodesBehind, ChainOK, IsOpen, Statuses
<1>4. NodesBehind'
  BY <1>1, <1>2, <1>3 DEF IInv, NodesBehind, IsOpen
<1> QED
  BY <1>2, <1>4 DEF IInv, ChainOK, RunsOK

LEMMA InitOK == Init => IInv
<1> SUFFICES ASSUME Init PROVE IInv
  OBVIOUS
<1>1. ChainOK
  BY DEF Init, ChainOK, Statuses
<1>2. NodesBehind
  BY DEF Init, NodesBehind, Statuses
<1>3. ASSUME NEW op \in Operations PROVE RunOK(chain, op, Resting)
  BY FirstHead DEF Resting, Fields
<1>4. RunsOK
  BY <1>3 DEF Init, RunsOK
<1> QED
  BY <1>1, <1>2, <1>4 DEF IInv

LEMMA NextOK == IInv /\ [Next]_vars => IInv'
<1> SUFFICES ASSUME IInv, [Next]_vars PROVE IInv'
  OBVIOUS
<1>1. CASE Nodes
  BY <1>1, CollectStep, ObserveStep DEF Nodes
<1>2. CASE \E op \in Operations : Script(op) \/ Faults(op)
  BY <1>2, ScriptKeeps
<1>3. CASE UNCHANGED vars
  BY <1>3 DEF vars, layer1, IInv, ChainOK, NodesBehind, RunsOK
<1> QED
  BY <1>1, <1>2, <1>3 DEF Next

\* A run that reports success has passed all its heads.
LEMMA DoneIsOpen == IInv => SuccessIsOpen
BY DEF IInv, RunsOK, RunOK, Passed, SuccessIsOpen, At, Targets, IsOpen

\* An errored commit, a lost answer or a rival run never makes a run for heads A and B
\* report success while one of its heads is not open on the first layer.
THEOREM SuccessOpens == Spec => []SuccessIsOpen
BY InitOK, NextOK, DoneIsOpen, PTL DEF Spec

-----------------------------------------------------------------------------
(* Purses: what a participant holds on the first layer *)

Distinct(outputs) == \A o, q \in outputs : o.size = q.size => o = q
Purse(outputs, held) == outputs \subseteq [size: held, version: Nat] /\ Distinct(outputs)

\* The sizes that can be committed, which paying a fee does not change.
Large(outputs) == {s \in Nat : s >= MIN_COMMIT_LOVELACE /\ \E o \in outputs : o.size = s}
Rich(outputs) == \E s, t \in Large(outputs) : s # t

LEMMA PurseFinite ==
    ASSUME NEW outputs, NEW held, IsFiniteSet(held), Purse(outputs, held)
    PROVE  IsFiniteSet(outputs)
<1> DEFINE size == [o \in outputs |-> o.size]
<1>1. size \in Injection(outputs, held)
  BY DEF Purse, Distinct, Injection, IsInjective
<1> QED
  BY <1>1, FS_Injection

\* As the sizes are distinct, each rank is that of an output.
LEMMA NthThere ==
    ASSUME NEW outputs, IsFiniteSet(outputs), Distinct(outputs), \A o \in outputs : o.size \in Nat,
           NEW n \in 1..Cardinality(outputs)
    PROVE  Nth(outputs, n) \in outputs
<1> DEFINE Smaller(o) == {x \in outputs : x.size < o.size}
           rank == [o \in outputs |-> Cardinality(Smaller(o))]
           ranks == 0..(Cardinality(outputs) - 1)
<1>1. Cardinality(outputs) \in Nat
  BY FS_CardinalityType
<1>2. IsFiniteSet(ranks) /\ Cardinality(ranks) = Cardinality(outputs)
  <2>1. PICK first \in Int, last \in Int : first = 0 /\ last = Cardinality(outputs) - 1
    BY <1>1
  <2>2. IsFiniteSet(first..last) /\ Cardinality(first..last) = IF first > last THEN 0 ELSE last - first + 1
    BY FS_Interval
  <2> QED
    BY <1>1, <2>1, <2>2
<1>3. ASSUME NEW o \in outputs
      PROVE  IsFiniteSet(Smaller(o)) /\ Cardinality(Smaller(o)) \in ranks
  <2>1. Smaller(o) \subseteq outputs /\ o \notin Smaller(o)
    OBVIOUS
  <2>2. /\ IsFiniteSet(Smaller(o))
        /\ Cardinality(Smaller(o)) <= Cardinality(outputs)
        /\ Cardinality(outputs) # Cardinality(Smaller(o))
    BY <2>1, FS_Subset
  <2>3. Cardinality(Smaller(o)) \in Nat
    BY <2>2, FS_CardinalityType
  <2> QED
    BY <1>1, <2>2, <2>3
<1>4. ASSUME NEW o \in outputs, NEW q \in outputs, o.size < q.size
      PROVE  Cardinality(Smaller(o)) # Cardinality(Smaller(q))
  <2>1. Smaller(o) \subseteq Smaller(q) /\ o \in Smaller(q) /\ o \notin Smaller(o)
    BY <1>4
  <2> QED
    BY <1>3, <2>1, FS_Subset
<1>5. rank \in Injection(outputs, ranks)
  <2>1. rank \in [outputs -> ranks]
    BY <1>3
  <2>2. ASSUME NEW o \in outputs, NEW q \in outputs, o # q
        PROVE  rank[o] # rank[q]
    <3>1. o.size < q.size \/ q.size < o.size
      BY <2>2 DEF Distinct
    <3> QED
      BY <1>4, <3>1
  <2> QED
    BY <2>1, <2>2 DEF Injection, IsInjective
<1>6. rank \in Surjection(outputs, ranks)
  BY <1>2, <1>5, FS_Injection
<1>7. n - 1 \in ranks
  BY <1>1
<1>8. PICK o \in outputs : rank[o] = n - 1
  BY <1>6, <1>7 DEF Surjection
<1> QED
  BY <1>8 DEF Nth

LEMMA BurntKeeps ==
    ASSUME NEW outputs, NEW held, IsFiniteSet(held), held \subseteq Nat, Purse(outputs, held), outputs # {}
    PROVE  Purse(Burnt(outputs), held) /\ Large(Burnt(outputs)) = Large(outputs)
<1>1. IsFiniteSet(outputs)
  BY PurseFinite
<1>2. Cardinality(outputs) \in Nat /\ Cardinality(outputs) # 0
  BY <1>1, FS_CardinalityType, FS_EmptySet
<1>3. Fuel(outputs) \in outputs
  <2>1. \A o \in outputs : o.size \in Nat
    BY DEF Purse
  <2> QED
    BY <1>1, <1>2, <2>1, NthThere DEF Fuel, Purse
<1>4. PICK f : f = Fuel(outputs)
  OBVIOUS
<1>5. PICK b : b = [f EXCEPT !.version = @ + 1]
  OBVIOUS
<1>6. /\ f \in outputs /\ f \in [size: held, version: Nat]
      /\ b \in [size: held, version: Nat] /\ b.size = f.size
  BY <1>3, <1>4, <1>5 DEF Purse
<1>7. Burnt(outputs) = (outputs \ {f}) \cup {b}
  BY <1>4, <1>5 DEF Burnt
<1>8. Purse(Burnt(outputs), held)
  BY <1>6, <1>7 DEF Purse, Distinct
<1>9. Large(Burnt(outputs)) = Large(outputs)
  BY <1>6, <1>7 DEF Large
<1> QED
  BY <1>8, <1>9

\* Whoever is rich has an output to commit, and another one.
LEMMA RichPicks ==
    ASSUME NEW name \in Names, NEW held, IsFiniteSet(held), held \subseteq Nat, Purse(coins[name], held)
    PROVE  /\ Rich(coins[name]) => Nth(Eligible(name), 1) # None /\ Nth(Eligible(name), 2) # None
           /\ Rich(coins[name]) <=> Cardinality(Eligible(name)) >= 2
<1> DEFINE large == Eligible(name)
<1>1. /\ large \subseteq coins[name] /\ Distinct(large)
      /\ \A o \in large : o.size \in Nat /\ o.size >= MIN_COMMIT_LOVELACE
  BY DEF Eligible, Purse, Distinct
<1>2. IsFiniteSet(large)
  BY <1>1, PurseFinite, FS_Subset
<1>3. Cardinality(large) \in Nat
  BY <1>2, FS_CardinalityType
<1>4. ASSUME Rich(coins[name]) PROVE Cardinality(large) >= 2
  <2>1. PICK o \in large, q \in large : o # q
    BY <1>4 DEF Rich, Large, Eligible
  <2>2. PICK one : one = {o}
    OBVIOUS
  <2>3. IsFiniteSet(one) /\ Cardinality(one) = 1 /\ q \notin one
    BY <2>1, <2>2, FS_Singleton
  <2>4. Cardinality(one \cup {q}) = 2
    <3>1. Cardinality(one \cup {q}) = IF q \in one THEN Cardinality(one) ELSE Cardinality(one) + 1
      BY <2>3, FS_AddElement
    <3> QED
      BY <2>3, <3>1
  <2>5. one \cup {q} \subseteq large
    BY <2>1, <2>2
  <2> QED
    BY <1>2, <1>3, <2>4, <2>5, FS_Subset
<1>5. ASSUME ~Rich(coins[name]) PROVE ~(Cardinality(large) >= 2)
  <2>1. \A o, q \in large : o = q
    BY <1>1, <1>5 DEF Rich, Large, Distinct
  <2>2. CASE large = {}
    BY <2>2, FS_EmptySet
  <2>3. CASE large # {}
    <3>1. PICK o \in large : large = {o}
      BY <2>1, <2>3
    <3>2. Cardinality(large) = 1
      BY <3>1, FS_Singleton
    <3> QED
      BY <3>2
  <2> QED
    BY <2>2, <2>3
<1>6. ASSUME NEW n \in {1, 2}, Rich(coins[name]) PROVE Nth(large, n) # None
  <2>1. n \in 1..Cardinality(large)
    BY <1>3, <1>4, <1>6
  <2>2. Nth(large, n) \in large
    BY <1>1, <1>2, <2>1, NthThere
  <2> QED
    BY <1>1, <2>2, OpeningAssumption DEF None
<1> QED
  BY <1>3, <1>4, <1>5, <1>6

-----------------------------------------------------------------------------
(* Types *)

Rest == {"idle", "failed", "done"}
Pcs == Rest \cup {"enter", "initing", "check", "commit", "open"}

RunTyped(op, r) ==
    /\ r.pc \in Pcs
    /\ r.head \in DOMAIN HeadsOf(op)
    /\ r.next \in DOMAIN Participants[HeadsOf(op)[r.head]]
    /\ r.attempt \in 0..COMMIT_RETRIES
    /\ r.pc \notin Rest => op \in case.operations

TypesInv ==
    /\ \A op \in Operations : RunTyped(op, run[op])
    /\ \A h \in Heads : chain[h].committed \subseteq Members(h) /\ chain[h].empty \subseteq chain[h].committed

\* What a step makes of a run: it keeps its picks, has picked, or has ended.
Turn(op, r) ==
    /\ RunTyped(op, r)
    /\ \/ r.pc \in Rest
       \/ run[op].pc \notin Rest /\ r.picks = run[op].picks
       \/ op \in case.operations /\ r.picks = Picked(op)

LEMMA PartiesListed ==
    ASSUME NEW h \in Heads
    PROVE  /\ DOMAIN Participants[h] = 1..Len(Participants[h])
           /\ Len(Participants[h]) \in {2, 3}
           /\ Members(h) \subseteq Names
           /\ "ida" \in Members(h)
BY Names3 DEF Participants, Members, Names

\* A run is at a head of its operation, and at a participant of it.
LEMMA RunIsAt ==
    ASSUME NEW op \in Operations, RunTyped(op, run[op])
    PROVE  /\ Target(op) \in Targets(op) /\ Target(op) \in Heads
           /\ Party(op) \in Members(Target(op)) /\ Party(op) \in Names
           /\ IsPartial(op) <=> Target(op) = "C"
<1>1. Target(op) \in Targets(op) /\ Target(op) \in Heads
  BY HeadsListed DEF RunTyped, Target, Targets
<1>2. CASE IsPartial(op)
  <2>1. HeadsOf(op) = <<"C">> /\ Target(op) = "C"
    BY <1>2 DEF IsPartial, HeadsOf, Target, RunTyped
  <2>2. Party(op) \in {"charlie", "ida"}
    BY <1>2 DEF Party, Committer
  <2>3. "charlie" \in Members("C") /\ "ida" \in Members("C")
    BY DEF Members, Participants
  <2> QED
    BY <1>1, <1>2, <2>1, <2>2, <2>3 DEF Names
<1>3. CASE ~IsPartial(op)
  <2>1. op \in {"open_heads_ab", "open_head_a", "open_head_b"}
    BY <1>3 DEF IsPartial, Operations
  <2>2. Target(op) \in {"A", "B"}
    <3>1. CASE op = "open_heads_ab"
      <4>1. HeadsOf(op) = <<"A", "B">>
        BY <3>1 DEF HeadsOf
      <4> QED BY <4>1 DEF Target, RunTyped
    <3>2. CASE op = "open_head_a"
      <4>1. HeadsOf(op) = <<"A">>
        BY <3>2 DEF HeadsOf
      <4> QED BY <4>1 DEF Target, RunTyped
    <3>3. CASE op = "open_head_b"
      <4>1. HeadsOf(op) = <<"B">>
        BY <3>3 DEF HeadsOf
      <4> QED BY <4>1 DEF Target, RunTyped
    <3> QED
      BY <2>1, <3>1, <3>2, <3>3
  <2>3. Party(op) \in Members(Target(op))
    BY <1>3 DEF Party, Members, RunTyped, Target
  <2> QED
    BY <1>1, <1>3, <2>2, <2>3, PartiesListed
<1> QED
  BY <1>2, <1>3

LEMMA RestTurns ==
    ASSUME NEW op \in Operations, NEW pc \in Rest
    PROVE  Turn(op, [Resting EXCEPT !.pc = pc])
<1>1. PICK r : r = [Resting EXCEPT !.pc = pc]
  OBVIOUS
<1>2. r.pc = pc /\ r.head = 1 /\ r.next = 1 /\ r.attempt = 0
  BY <1>1 DEF Resting
<1>3. 1 \in DOMAIN HeadsOf(op) /\ HeadsOf(op)[1] \in Heads
  BY HeadsListed
<1>4. 1 \in DOMAIN Participants[HeadsOf(op)[1]]
  BY <1>3, PartiesListed
<1> QED
  BY <1>1, <1>2, <1>3, <1>4, OpeningAssumption DEF Turn, RunTyped, Pcs

LEMMA StartedTurns ==
    ASSUME NEW op \in Operations, op \in case.operations, NEW try
    PROVE  Turn(op, Started(op, try))
<1>1. PICK r : r = Started(op, try)
  OBVIOUS
<1>2. r.pc = "enter" /\ r.head = 1 /\ r.next = 1 /\ r.attempt = 0 /\ r.picks = Picked(op)
  BY <1>1 DEF Started, Resting
<1>3. 1 \in DOMAIN HeadsOf(op) /\ HeadsOf(op)[1] \in Heads
  BY HeadsListed
<1>4. 1 \in DOMAIN Participants[HeadsOf(op)[1]]
  BY <1>3, PartiesListed
<1> QED
  BY <1>1, <1>2, <1>3, <1>4, OpeningAssumption DEF Turn, RunTyped, Pcs, Rest

\* A run that is going on.
Going(op) == op \in Operations /\ TypesInv /\ DOMAIN run[op] = Fields /\ run[op].pc \notin Rest

LEMMA ThrownTurns ==
    ASSUME NEW op, Going(op)
    PROVE  Turn(op, Thrown(op))
<1>1. op \in case.operations
  BY DEF Going, TypesInv, RunTyped
<1> QED
  BY <1>1, RestTurns, StartedTurns DEF Going, Thrown, Rest

LEMMA PcTurns ==
    ASSUME NEW op, Going(op), NEW pc \in Pcs \ Rest
    PROVE  Turn(op, [run[op] EXCEPT !.pc = pc])
BY DEF Going, TypesInv, RunTyped, Turn, Fields

LEMMA HeadDoneTurns ==
    ASSUME NEW op, Going(op)
    PROVE  Turn(op, HeadDone(op))
<1>1. CASE run[op].head < Len(HeadsOf(op))
  <2>1. PICK r : r = HeadDone(op)
    OBVIOUS
  <2>2. /\ r.pc = "enter" /\ r.head = run[op].head + 1 /\ r.next = 1 /\ r.attempt = 0
        /\ r.picks = run[op].picks
    BY <1>1, <2>1 DEF HeadDone, Going, Fields
  <2>3. RunTyped(op, run[op]) /\ op \in Operations
    BY DEF Going, TypesInv
  <2>4. r.head \in DOMAIN HeadsOf(op) /\ HeadsOf(op)[r.head] \in Heads
    BY <1>1, <2>2, <2>3, HeadsListed DEF RunTyped
  <2>5. r.next \in DOMAIN Participants[HeadsOf(op)[r.head]]
    BY <2>2, <2>4, PartiesListed
  <2> QED
    BY <2>1, <2>2, <2>3, <2>4, <2>5, OpeningAssumption DEF Turn, RunTyped, Going, Pcs, Rest
<1>2. CASE ~(run[op].head < Len(HeadsOf(op)))
  BY <1>2, RestTurns DEF HeadDone, Going, Rest
<1> QED
  BY <1>1, <1>2

LEMMA PartyDoneTurns ==
    ASSUME NEW op, Going(op)
    PROVE  Turn(op, PartyDone(op))
<1>1. PICK r : r = PartyDone(op)
  OBVIOUS
<1>2. RunTyped(op, run[op]) /\ op \in Operations
  BY DEF Going, TypesInv
<1>3. /\ r.pc \in {"check", "open"} /\ r.head = run[op].head /\ r.attempt = 0 /\ r.picks = run[op].picks
      /\ r.next = IF run[op].next < Len(Participants[Target(op)]) THEN run[op].next + 1 ELSE run[op].next
  BY <1>1 DEF PartyDone, Going, Fields
<1>4. Target(op) \in Heads /\ Target(op) = HeadsOf(op)[run[op].head]
  BY <1>2, RunIsAt DEF Target
<1>5. r.next \in DOMAIN Participants[HeadsOf(op)[r.head]]
  BY <1>2, <1>3, <1>4, PartiesListed DEF RunTyped
<1> QED
  BY <1>1, <1>2, <1>3, <1>5, OpeningAssumption DEF Turn, RunTyped, Going, Pcs, Rest

LEMMA CommittedTurns ==
    ASSUME NEW op, Going(op)
    PROVE  Turn(op, Committed(op))
BY RestTurns, PartyDoneTurns DEF Committed, Going, Rest

LEMMA RetriedTurns ==
    ASSUME NEW op, Going(op)
    PROVE  Turn(op, Retried(op))
<1>1. CASE run[op].attempt < COMMIT_RETRIES
  <2>1. PICK r : r = [run[op] EXCEPT !.attempt = @ + 1]
    OBVIOUS
  <2>2. /\ r.pc = run[op].pc /\ r.head = run[op].head /\ r.next = run[op].next
        /\ r.attempt = run[op].attempt + 1 /\ r.picks = run[op].picks
    BY <2>1 DEF Going, Fields
  <2>3. RunTyped(op, run[op])
    BY DEF Going, TypesInv
  <2>4. r.attempt \in 0..COMMIT_RETRIES
    BY <1>1, <2>2, <2>3, OpeningAssumption DEF RunTyped
  <2>5. Turn(op, r)
    BY <2>2, <2>3, <2>4 DEF Turn, RunTyped, Going
  <2> QED
    BY <1>1, <2>1, <2>5 DEF Retried
<1>2. CASE ~(run[op].attempt < COMMIT_RETRIES)
  BY <1>2, ThrownTurns, PartyDoneTurns DEF Retried, GivenUp
<1> QED
  BY <1>1, <1>2

\* Every step of the script is a turn of its run.
LEMMA ScriptTurns ==
    ASSUME NEW op \in Operations, IInv, TypesInv, Script(op) \/ Faults(op)
    PROVE  \E r : Turn(op, r) /\ run' = [run EXCEPT ![op] = r]
<1>1. DOMAIN run[op] = Fields /\ TypesInv
  BY DEF IInv, RunsOK, RunOK
<1>2. ASSUME NEW pc \in Pcs \ Rest, Going(op), run' = [run EXCEPT ![op].pc = pc]
      PROVE  \E r : Turn(op, r) /\ run' = [run EXCEPT ![op] = r]
  <2>1. run' = [run EXCEPT ![op] = [run[op] EXCEPT !.pc = pc]]
    BY <1>2
  <2> QED
    BY <1>2, <2>1, PcTurns
<1>3. CASE Start(op)
  BY <1>3, StartedTurns DEF Start
<1>4. CASE AskInit(op)
  <2>1. Going(op)
    BY <1>1, <1>4 DEF AskInit, At, Going, Rest
  <2> QED
    BY <1>2, <1>4, <2>1, ThrownTurns DEF AskInit, Pcs, Rest
<1>5. CASE Initialised(op)
  <2>1. Going(op)
    BY <1>1, <1>5 DEF Initialised, Going, Rest
  <2>2. PICK pc \in Pcs \ Rest : run' = [run EXCEPT ![op].pc = pc]
    BY <1>5 DEF Initialised, Pcs, Rest
  <2> QED
    BY <1>2, <2>1, <2>2
<1>6. CASE AlreadyOpen(op)
  BY <1>1, <1>6, HeadDoneTurns DEF AlreadyOpen, Going, Rest
<1>7. CASE Check(op)
  <2>1. Going(op)
    BY <1>1, <1>7 DEF Check, At, Going, Rest
  <2> QED
    BY <1>2, <1>7, <2>1, PartyDoneTurns, ThrownTurns DEF Check, Pcs, Rest
<1>8. CASE NothingToCommit(op)
  BY <1>1, <1>8, CommittedTurns DEF NothingToCommit, At, Going, Rest
<1>9. CASE Commit(op)
  BY <1>1, <1>9, CommittedTurns DEF Commit, Sends, At, Going, Rest
<1>10. CASE CommitRefused(op)
  BY <1>1, <1>10, RetriedTurns DEF CommitRefused, Refused, Sends, At, Going, Rest
<1>11. CASE NoFuelUTXOFound(op)
  BY <1>1, <1>11, CommittedTurns DEF NoFuelUTXOFound, Refused, Sends, At, Going, Rest
<1>12. CASE Opened(op)
  BY <1>1, <1>12, HeadDoneTurns DEF Opened, At, Going, Rest
<1>13. CASE NotOpened(op)
  BY <1>1, <1>13, ThrownTurns DEF NotOpened, At, Going, Rest
<1>14. CASE InitTimeout(op)
  BY <1>1, <1>14, ThrownTurns DEF InitTimeout, At, Going, Rest
<1>15. CASE CommitAnswerLost(op)
  BY <1>1, <1>15, RetriedTurns DEF CommitAnswerLost, Sends, At, Going, Rest
<1>16. CASE Break(op)
  BY <1>1, <1>16, ThrownTurns, RestTurns DEF Break, Going, Rest
<1> QED
  BY <1>3, <1>4, <1>5, <1>6, <1>7, <1>8, <1>9, <1>10, <1>11, <1>12, <1>13, <1>14, <1>15, <1>16 DEF Script, Faults

\* What a step of the script does on the first layer.
LEMMA ScriptPosts ==
    ASSUME NEW op \in Operations, Script(op) \/ Faults(op)
    PROVE  /\ seen' = seen
           /\ \/ layer1' = layer1
              \/ At(op, "enter") /\ SnapshotReady(op) /\ PostInit(Target(op), Node(op))
              \/ Sends(op) /\ PostCommit(Target(op), Party(op), Pick(op))
<1>1. CASE Start(op) \/ Initialised(op) \/ AlreadyOpen(op) \/ Check(op) \/ NothingToCommit(op) \/ Opened(op)
  BY <1>1 DEF Start, Initialised, AlreadyOpen, Check, NothingToCommit, Opened
<1>2. CASE CommitRefused(op) \/ NoFuelUTXOFound(op) \/ NotOpened(op) \/ InitTimeout(op) \/ Break(op)
  BY <1>2 DEF CommitRefused, NoFuelUTXOFound, NotOpened, InitTimeout, Break
<1>3. CASE AskInit(op)
  BY <1>3 DEF AskInit
<1>4. CASE Commit(op) \/ CommitAnswerLost(op)
  BY <1>4 DEF Commit, CommitAnswerLost
<1> QED
  BY <1>1, <1>2, <1>3, <1>4 DEF Script, Faults

\* The other runs are as they were.
LEMMA TurnTypes ==
    ASSUME NEW op \in Operations, NEW r, IInv, TypesInv, case' = case,
           Turn(op, r), run' = [run EXCEPT ![op] = r]
    PROVE  \A o \in Operations : RunTyped(o, run[o])'
<1>1. DOMAIN run = Operations
  BY DEF IInv, RunsOK
<1> QED
  BY <1>1 DEF TypesInv, Turn, RunTyped

LEMMA ScriptTypes ==
    ASSUME NEW op \in Operations, IInv, TypesInv, Script(op) \/ Faults(op)
    PROVE  TypesInv'
<1>1. PICK r : Turn(op, r) /\ run' = [run EXCEPT ![op] = r]
  BY ScriptTurns
<1>2. case' = case
  BY ScriptPosts DEF PostInit, PostCommit, layer1
<1>3. \A o \in Operations : RunTyped(o, run[o])'
  BY <1>1, <1>2, TurnTypes
<1>4. Target(op) \in Heads /\ Party(op) \in Members(Target(op))
  BY RunIsAt DEF TypesInv
<1>5. CASE chain' = chain
  BY <1>3, <1>5 DEF TypesInv
<1>6. ASSUME PostInit(Target(op), Node(op)) PROVE TypesInv'
  <2>1. \A h \in Heads : chain'[h].committed = chain[h].committed /\ chain'[h].empty = chain[h].empty
    BY <1>6 DEF PostInit, IInv, ChainOK
  <2> QED
    BY <1>3, <2>1 DEF TypesInv
<1>7. ASSUME PostCommit(Target(op), Party(op), Pick(op)) PROVE TypesInv'
  <2>1. PICK h \in Heads : \E name \in Members(h) : h = Target(op) /\ name = Party(op)
    BY <1>4
  <2>2. PICK name \in Members(h) : h = Target(op) /\ name = Party(op)
    BY <2>1
  <2>3. \A g \in Heads \ {h} : chain'[g] = chain[g]
    BY <1>7, <2>2 DEF PostCommit, IInv, ChainOK
  <2>4. /\ chain'[h].committed = chain[h].committed \cup {name}
        /\ chain'[h].empty = chain[h].empty \/ chain'[h].empty = chain[h].empty \cup {name}
    BY <1>7, <2>2 DEF PostCommit, IInv, ChainOK
  <2> QED
    BY <1>3, <2>3, <2>4 DEF TypesInv
<1> QED
  BY <1>5, <1>6, <1>7, ScriptPosts DEF layer1

LEMMA NextTypes == IInv /\ TypesInv /\ [Next]_vars => TypesInv'
<1> SUFFICES ASSUME IInv, TypesInv, [Next]_vars PROVE TypesInv'
  OBVIOUS
<1>1. CASE Nodes
  <2>1. run' = run /\ case' = case
    BY <1>1 DEF Nodes, Collect, Observe, layer1
  <2>2. \A h \in Heads : chain'[h].committed = chain[h].committed /\ chain'[h].empty = chain[h].empty
    BY <1>1 DEF Nodes, Collect, Observe, layer1, IInv, ChainOK
  <2> QED
    BY <2>1, <2>2 DEF TypesInv, RunTyped
<1>2. CASE \E op \in Operations : Script(op) \/ Faults(op)
  BY <1>2, ScriptTypes
<1>3. CASE UNCHANGED vars
  BY <1>3 DEF vars, layer1, TypesInv, RunTyped
<1> QED
  BY <1>1, <1>2, <1>3 DEF Next

LEMMA InitTypes == Init => TypesInv
<1> SUFFICES ASSUME Init PROVE TypesInv
  OBVIOUS
<1>1. \A op \in Operations : run[op] = Resting
  BY DEF Init
<1>2. ASSUME NEW op \in Operations PROVE RunTyped(op, Resting)
  <2>1. Resting.pc = "idle" /\ Resting.head = 1 /\ Resting.next = 1 /\ Resting.attempt = 0
    BY DEF Resting
  <2>2. 1 \in DOMAIN HeadsOf(op) /\ HeadsOf(op)[1] \in Heads
    BY HeadsListed
  <2>3. 1 \in DOMAIN Participants[HeadsOf(op)[1]]
    BY <2>2, PartiesListed
  <2> QED
    BY <2>1, <2>2, <2>3, OpeningAssumption DEF RunTyped, Pcs, Rest
<1>3. \A h \in Heads : chain[h].committed = {} /\ chain[h].empty = {}
  BY DEF Init
<1> QED
  BY <1>1, <1>2, <1>3 DEF TypesInv

LEMMA TypesInvariant == Spec => [](IInv /\ TypesInv)
<1>1. Init => IInv /\ TypesInv
  BY InitOK, InitTypes
<1>2. (IInv /\ TypesInv) /\ [Next]_vars => (IInv /\ TypesInv)'
  BY NextOK, NextTypes
<1> QED
  BY <1>1, <1>2, PTL DEF Spec

\* A run is always at a head and a participant of its operation, and a node that knows of
\* a head knows no more than the first layer does, for any cases, retries and troubles.
THEOREM TypeCorrect == Spec => []TypeOK
<1>1. IInv /\ TypesInv => TypeOK
  <2> SUFFICES ASSUME IInv, TypesInv PROVE TypeOK
    OBVIOUS
  <2>1. \A op \in Operations : RunTyped(op, run[op])
    BY DEF TypesInv
  <2>2. ASSUME NEW op \in Operations
        PROVE  /\ run[op].pc \in {"idle", "enter", "initing", "check", "commit", "open", "done", "failed"}
               /\ run[op].head \in DOMAIN HeadsOf(op)
               /\ run[op].next \in DOMAIN Participants[Target(op)]
               /\ run[op].attempt \in 0..COMMIT_RETRIES
    BY <2>1 DEF RunTyped, Pcs, Rest, Target
  <2>3. ASSUME NEW h \in Heads
        PROVE  /\ chain[h].status \in Statuses
               /\ chain[h].empty \subseteq chain[h].committed
               /\ \A name \in Members(h) :
                   /\ seen[h][name] = "Open" => chain[h].status = "Open"
                   /\ chain[h].status = "Idle" => seen[h][name] = "Idle"
    BY DEF TypesInv, IInv, ChainOK, NodesBehind, IsOpen
  <2> QED
    BY <2>2, <2>3 DEF TypeOK
<1> QED
  BY <1>1, TypesInvariant, PTL

-----------------------------------------------------------------------------
(* Commits *)

Asked == UNION {Targets(op) : op \in case.operations}
IdaHeads == {h \in Heads : "ida" \in chain[h].committed}
IdaLarge == {s \in case.held["ida"] : s >= MIN_COMMIT_LOVELACE}

PursesInv ==
    /\ case \in Cases
    /\ DOMAIN coins = Names
    /\ \A name \in Names : Purse(coins[name], case.held[name])

\* Ida has lost no more of her outputs than she has committed to heads.
IdaInv ==
    /\ IdaHeads \subseteq Asked
    /\ Cardinality(IdaLarge \ Large(coins["ida"])) <= Cardinality(IdaHeads)

\* A head A or B is posted only when its other participants, who are in no other head, have
\* an output to commit.
OthersInv ==
    \A h \in {"A", "B"} : chain[h].status # "Idle" =>
        \A name \in Members(h) \ {"ida"} : name \in chain[h].committed \/ Rich(coins[name])

\* Until a participant has committed, its pick is what it would be now, as far as there
\* is one; that of Ida, who is in other heads as well, is an output.
PickOK(committed, outputs, name, pick) ==
    \/ name \in committed
    \/ IF name = "ida" THEN pick # None ELSE pick = None <=> ~Rich(outputs)

PicksOK(op, picks) ==
    \A h \in Targets(op) : \A name \in Members(h) :
        name # "ida" \/ Ample => PickOK(chain[h].committed, coins[name], name, picks[h][name])

PicksInv == \A op \in Operations : run[op].pc \notin Rest => PicksOK(op, run[op].picks)

CommitsInv == PursesInv /\ IdaInv /\ OthersInv /\ PicksInv /\ NoEmptyCommit

\* What the first layer may do to a purse and to what is committed.
Moves ==
    /\ PursesInv'
    /\ case' = case
    /\ \A h \in Heads : chain[h].committed \subseteq chain'[h].committed
    /\ \A h \in Heads : \A name \in Members(h) \ {"ida"} :
          name \in chain'[h].committed \/ (Rich(coins[name])' <=> Rich(coins[name]))

LEMMA Held ==
    ASSUME PursesInv, NEW name \in Names
    PROVE  /\ Purse(coins[name], case.held[name])
           /\ IsFiniteSet(case.held[name]) /\ case.held[name] \subseteq Nat
BY CasesAssumption DEF PursesInv

LEMMA AskedFinite == PursesInv => IsFiniteSet(Asked) /\ Asked \subseteq Heads
<1> SUFFICES ASSUME PursesInv PROVE IsFiniteSet(Asked) /\ Asked \subseteq Heads
  OBVIOUS
<1>1. Asked \subseteq Heads
  <2>1. case.operations \subseteq Operations
    BY CasesAssumption DEF PursesInv
  <2>2. \A op \in Operations : Targets(op) \subseteq Heads
    BY HeadsListed DEF Targets
  <2> QED
    BY <2>1, <2>2 DEF Asked
<1>2. IsFiniteSet(Heads)
  <2>1. PICK a, b, c : a = {"A"} /\ b = {"B"} /\ c = {"C"}
    OBVIOUS
  <2>2. IsFiniteSet(a) /\ IsFiniteSet(b) /\ IsFiniteSet(c)
    BY <2>1, FS_Singleton
  <2>3. IsFiniteSet((a \cup b) \cup c)
    BY <2>2, FS_Union
  <2>4. Heads = (a \cup b) \cup c
    BY <2>1, Names3
  <2> QED
    BY <2>3, <2>4
<1> QED
  BY <1>1, <1>2, FS_Subset

LEMMA IdaLargeFinite == PursesInv => IsFiniteSet(IdaLarge) /\ Large(coins["ida"]) \subseteq IdaLarge
<1> SUFFICES ASSUME PursesInv PROVE IsFiniteSet(IdaLarge) /\ Large(coins["ida"]) \subseteq IdaLarge
  OBVIOUS
<1>1. PICK name \in Names : name = "ida"
  BY DEF Names
<1>2. /\ Purse(coins[name], case.held[name])
      /\ IsFiniteSet(case.held[name])
  BY Held
<1>3. IdaLarge \subseteq case.held[name]
  BY <1>1 DEF IdaLarge
<1>4. IsFiniteSet(IdaLarge)
  BY <1>2, <1>3, FS_Subset
<1>5. Large(coins["ida"]) \subseteq IdaLarge
  BY <1>1, <1>2 DEF Purse, Large, IdaLarge
<1> QED
  BY <1>4, <1>5

\* As long as a head is left for which Ida was asked, she has an output for it.
LEMMA IdaRich ==
    ASSUME PursesInv, IdaInv, Ample, NEW h \in Asked, "ida" \notin chain[h].committed
    PROVE  Rich(coins["ida"])
<1>1. IsFiniteSet(Asked) /\ IsFiniteSet(IdaLarge) /\ Large(coins["ida"]) \subseteq IdaLarge
  BY AskedFinite, IdaLargeFinite
<1>2. Cardinality(Asked) \in Nat /\ Cardinality(IdaLarge) \in Nat /\ Cardinality(IdaLarge) > Cardinality(Asked)
  BY <1>1, FS_CardinalityType DEF Ample, Asked, IdaLarge
<1>3. PICK left : left = Asked \ {h}
  OBVIOUS
<1>4. IsFiniteSet(left) /\ Cardinality(left) = Cardinality(Asked) - 1
  <2>1. IsFiniteSet(Asked \ {h}) /\ Cardinality(Asked \ {h}) = IF h \in Asked THEN Cardinality(Asked) - 1 ELSE Cardinality(Asked)
    BY <1>1, FS_RemoveElement
  <2> QED
    BY <1>3, <2>1
<1>5. IdaHeads \subseteq left
  BY <1>3 DEF IdaInv, IdaHeads
<1>6. Cardinality(IdaHeads) <= Cardinality(left) /\ Cardinality(IdaHeads) \in Nat /\ Cardinality(left) \in Nat
  BY <1>4, <1>5, FS_Subset, FS_CardinalityType
<1>7. PICK large, lost : large = Large(coins["ida"]) /\ lost = IdaLarge \ large
  OBVIOUS
<1>8. /\ IsFiniteSet(large) /\ IsFiniteSet(lost)
      /\ Cardinality(large) \in Nat /\ Cardinality(lost) \in Nat
  BY <1>1, <1>7, FS_Subset, FS_CardinalityType
<1>9. Cardinality(lost) = Cardinality(IdaLarge) - Cardinality(large)
  <2>1. Cardinality(IdaLarge \ large) = Cardinality(IdaLarge) - Cardinality(IdaLarge \cap large)
    BY <1>1, FS_Difference
  <2>2. IdaLarge \cap large = large
    BY <1>1, <1>7
  <2> QED
    BY <1>7, <2>1, <2>2
<1>10. Cardinality(lost) <= Cardinality(IdaHeads)
  BY <1>7 DEF IdaInv
<1>11. Cardinality(large) >= 2
  BY <1>2, <1>4, <1>6, <1>8, <1>9, <1>10
<1>12. \E s, t \in large : s # t
  <2>1. large # {}
    BY <1>8, <1>11, FS_EmptySet
  <2>2. ASSUME NEW s, large = {s} PROVE FALSE
    <3>1. Cardinality(large) = 1
      BY <2>2, FS_Singleton
    <3> QED
      BY <1>11, <3>1
  <2>3. PICK s \in large : TRUE
    BY <2>1
  <2>4. large # {s}
    BY <2>2
  <2> QED
    BY <2>3, <2>4
<1> QED
  BY <1>7, <1>12 DEF Rich

\* What a run picks as it starts is right at that time.
LEMMA PickedOK ==
    ASSUME NEW op \in Operations, op \in case.operations, PursesInv, IdaInv
    PROVE  PicksOK(op, Picked(op))
<1> SUFFICES ASSUME NEW h \in Targets(op), NEW name \in Members(h), name # "ida" \/ Ample
             PROVE  PickOK(chain[h].committed, coins[name], name, Picked(op)[h][name])
  BY DEF PicksOK
<1>1. h \in Heads /\ name \in Names
  BY HeadsListed, PartiesListed DEF Targets
<1>2. h \in Asked
  BY DEF Asked
<1>3. /\ Rich(coins[name]) => Nth(Eligible(name), 1) # None /\ Nth(Eligible(name), 2) # None
      /\ Rich(coins[name]) <=> Cardinality(Eligible(name)) >= 2
  BY <1>1, Held, RichPicks
<1>4. Picked(op)[h][name] = IF op = "open_heads_ab" /\ h = "B" /\ name = "ida" THEN idaCommitB ELSE pickCommitUtxo(name)
  BY DEF Picked
<1>5. CASE name = "ida"
  <2>1. CASE name \in chain[h].committed
    BY <2>1 DEF PickOK
  <2>2. CASE name \notin chain[h].committed
    <3>1. Rich(coins[name])
      BY <1>2, <1>5, <2>2, IdaRich
    <3>2. Picked(op)[h][name] # None
      BY <1>3, <1>4, <1>5, <3>1 DEF idaCommitB, pickCommitUtxo
    <3> QED
      BY <1>5, <3>2 DEF PickOK
  <2> QED
    BY <2>1, <2>2
<1>6. CASE name # "ida"
  BY <1>3, <1>4, <1>6 DEF PickOK, pickCommitUtxo
<1> QED
  BY <1>5, <1>6

\* A fee changes no purse's sizes.
LEMMA InitPurse ==
    ASSUME NEW h, NEW name \in Names, PursesInv, PostInit(h, name)
    PROVE  PursesInv' /\ \A n \in Names : Large(coins'[n]) = Large(coins[n])
<1>1. /\ Purse(Burnt(coins[name]), case.held[name])
      /\ Large(Burnt(coins[name])) = Large(coins[name])
  BY Held, BurntKeeps DEF PostInit
<1>2. case' = case /\ coins' = [coins EXCEPT ![name] = Burnt(coins[name])]
  BY DEF PostInit
<1>3. \A n \in Names : coins'[n] = IF n = name THEN Burnt(coins[name]) ELSE coins[n]
  BY <1>2 DEF PursesInv
<1> QED
  BY <1>1, <1>2, <1>3 DEF PursesInv

\* A commit takes one size from the purse of its participant.
LEMMA CommitPurse ==
    ASSUME NEW h, NEW name \in Names, NEW o, PursesInv, PostCommit(h, name, o)
    PROVE  /\ PursesInv'
           /\ \A n \in Names \ {name} : coins'[n] = coins[n]
           /\ Large(coins[name]) \subseteq Large(coins'[name]) \cup {o.size}
<1>1. PICK rest : rest = coins[name] \ {o}
  OBVIOUS
<1>2. /\ Purse(coins[name], case.held[name])
      /\ IsFiniteSet(case.held[name]) /\ case.held[name] \subseteq Nat
  BY Held
<1>3. Purse(rest, case.held[name]) /\ rest # {}
  BY <1>1, <1>2 DEF Purse, Distinct, PostCommit, CanCommit
<1>4. Purse(Burnt(rest), case.held[name]) /\ Large(Burnt(rest)) = Large(rest)
  BY <1>2, <1>3, BurntKeeps
<1>5. case' = case /\ coins' = [coins EXCEPT ![name] = Burnt(rest)]
  BY <1>1 DEF PostCommit
<1>6. \A n \in Names : coins'[n] = IF n = name THEN Burnt(rest) ELSE coins[n]
  BY <1>5 DEF PursesInv
<1>7. Large(coins[name]) \subseteq Large(rest) \cup {o.size}
  BY <1>1 DEF Large
<1> QED
  BY <1>4, <1>5, <1>6, <1>7 DEF PursesInv

LEMMA InitMovesOn ==
    ASSUME NEW h \in Heads, NEW name \in Names, IInv, PursesInv, PostInit(h, name)
    PROVE  /\ Moves
           /\ \A g \in Heads : chain'[g].committed = chain[g].committed /\ chain'[g].empty = chain[g].empty
           /\ \A n \in Names : Large(coins'[n]) = Large(coins[n])
<1>1. PursesInv' /\ \A n \in Names : Large(coins'[n]) = Large(coins[n])
  BY InitPurse
<1>2. \A g \in Heads : chain'[g].committed = chain[g].committed /\ chain'[g].empty = chain[g].empty
  BY DEF PostInit, IInv, ChainOK
<1>3. case' = case
  BY DEF PostInit
<1>4. \A n \in Names : Rich(coins[n])' <=> Rich(coins[n])
  BY <1>1 DEF Rich
<1> QED
  BY <1>1, <1>2, <1>3, <1>4, PartiesListed DEF Moves

LEMMA CommitMovesOn ==
    ASSUME NEW h \in Heads, NEW name \in Members(h), NEW o, IInv, PursesInv, PostCommit(h, name, o)
    PROVE  /\ Moves
           /\ chain'[h].committed = chain[h].committed \cup {name}
           /\ chain'[h].empty = IF o = None THEN chain[h].empty \cup {name} ELSE chain[h].empty
           /\ \A g \in Heads \ {h} : chain'[g] = chain[g]
<1>1. name \in Names
  BY PartiesListed
<1>2. PursesInv' /\ \A n \in Names \ {name} : coins'[n] = coins[n]
  BY <1>1, CommitPurse
<1>3. /\ chain'[h].committed = chain[h].committed \cup {name}
      /\ chain'[h].empty = IF o = None THEN chain[h].empty \cup {name} ELSE chain[h].empty
      /\ \A g \in Heads \ {h} : chain'[g] = chain[g]
  BY DEF PostCommit, IInv, ChainOK
<1>4. case' = case
  BY DEF PostCommit
\* Only Ida is in more heads than one.
<1>5. ASSUME NEW g \in Heads, NEW n \in Members(g) \ {"ida"}
      PROVE  n \in chain'[g].committed \/ (Rich(coins[n])' <=> Rich(coins[n]))
  <2>1. CASE n = name
    <3>1. g = h
      BY <1>5, <2>1, Names3 DEF Members, Participants
    <3> QED
      BY <1>3, <2>1, <3>1
  <2>2. CASE n # name
    <3>1. coins'[n] = coins[n]
      BY <1>2, <1>5, <2>2, PartiesListed
    <3> QED
      BY <3>1 DEF Rich
  <2> QED
    BY <2>1, <2>2
<1>6. \A g \in Heads : chain[g].committed \subseteq chain'[g].committed
  BY <1>3
<1> QED
  BY <1>2, <1>3, <1>4, <1>5, <1>6 DEF Moves

\* A pick that was right stays right.
LEMMA PicksLast ==
    ASSUME NEW op \in Operations, NEW picks, Moves, PicksOK(op, picks)
    PROVE  \A h \in Targets(op) : \A name \in Members(h) :
               name # "ida" \/ Ample' => PickOK(chain'[h].committed, coins'[name], name, picks[h][name])
<1> SUFFICES ASSUME NEW h \in Targets(op), NEW name \in Members(h), name # "ida" \/ Ample'
             PROVE  PickOK(chain'[h].committed, coins'[name], name, picks[h][name])
  OBVIOUS
<1>1. h \in Heads
  BY HeadsListed DEF Targets
<1>2. Ample' <=> Ample
  BY DEF Ample, Moves
<1>3. PickOK(chain[h].committed, coins[name], name, picks[h][name])
  BY <1>2 DEF PicksOK
<1>4. chain[h].committed \subseteq chain'[h].committed
  BY <1>1 DEF Moves
<1>5. name # "ida" => name \in chain'[h].committed \/ (Rich(coins'[name]) <=> Rich(coins[name]))
  BY <1>1 DEF Moves, Rich
<1> QED
  BY <1>3, <1>4, <1>5 DEF PickOK

LEMMA PicksMove ==
    ASSUME Moves, PicksInv, run' = run
    PROVE  PicksInv'
<1> SUFFICES ASSUME NEW op \in Operations, run[op].pc \notin Rest PROVE PicksOK(op, run[op].picks)'
  BY DEF PicksInv
<1>1. PicksOK(op, run[op].picks)
  BY DEF PicksInv
<1>2. \A h \in Targets(op) : \A name \in Members(h) :
          name # "ida" \/ Ample' => PickOK(chain'[h].committed, coins'[name], name, run[op].picks[h][name])
  BY <1>1, PicksLast
<1> QED
  BY <1>2 DEF PicksOK

LEMMA PicksTurn ==
    ASSUME NEW op \in Operations, NEW r, IInv, PursesInv, IdaInv, PicksInv, Moves,
           Turn(op, r), run' = [run EXCEPT ![op] = r]
    PROVE  PicksInv'
<1> SUFFICES ASSUME NEW p \in Operations, run'[p].pc \notin Rest PROVE PicksOK(p, run[p].picks)'
  BY DEF PicksInv
<1>1. run'[p] = IF p = op THEN r ELSE run[p]
  BY DEF IInv, RunsOK
<1>2. PicksOK(p, run'[p].picks)
  <2>1. CASE p = op
    <3>1. CASE run[op].pc \notin Rest /\ r.picks = run[op].picks
      BY <1>1, <2>1, <3>1 DEF PicksInv
    <3>2. CASE op \in case.operations /\ r.picks = Picked(op)
      BY <1>1, <2>1, <3>2, PickedOK
    <3> QED
      BY <1>1, <2>1, <3>1, <3>2 DEF Turn
  <2>2. CASE p # op
    BY <1>1, <2>2 DEF PicksInv
  <2> QED
    BY <2>1, <2>2
<1>3. PICK picks : picks = run'[p].picks
  OBVIOUS
<1>4. \A h \in Targets(p) : \A name \in Members(h) :
          name # "ida" \/ Ample' => PickOK(chain'[h].committed, coins'[name], name, picks[h][name])
  BY <1>2, <1>3, PicksLast
<1> QED
  BY <1>3, <1>4 DEF PicksOK

\* Where the first layer stays as it is but for the heads' status and the runs.
LEMMA StillCommits ==
    ASSUME PursesInv, IdaInv, NoEmptyCommit, case' = case, \A n \in Names : Large(coins'[n]) = Large(coins[n]),
           \A g \in Heads : chain'[g].committed = chain[g].committed /\ chain'[g].empty = chain[g].empty
    PROVE  IdaInv' /\ NoEmptyCommit'
<1>1. Asked' = Asked /\ IdaLarge' = IdaLarge /\ (Ample' <=> Ample)
  BY DEF Asked, IdaLarge, Ample
<1>2. IdaHeads' = IdaHeads
  BY DEF IdaHeads
<1>3. Large(coins["ida"])' = Large(coins["ida"])
  <2>1. Large(coins["ida"])' = Large(coins'["ida"])
    BY DEF Large
  <2>2. "ida" \in Names
    BY DEF Names
  <2> QED
    BY <2>1, <2>2
<1> QED
  BY <1>1, <1>2, <1>3 DEF IdaInv, NoEmptyCommit

LEMMA CommitCounts ==
    ASSUME NEW h \in Asked, NEW name \in Members(h), NEW o, IInv, PursesInv, IdaInv, PostCommit(h, name, o)
    PROVE  IdaInv'
<1>1. h \in Heads /\ name \in Names
  BY AskedFinite, PartiesListed
<1>2. /\ case' = case
      /\ chain'[h].committed = chain[h].committed \cup {name}
      /\ \A g \in Heads \ {h} : chain'[g] = chain[g]
  BY <1>1, CommitMovesOn DEF Moves
<1>3. Asked' = Asked /\ IdaLarge' = IdaLarge
  BY <1>2 DEF Asked, IdaLarge
<1>4. PICK large, larger : large = Large(coins["ida"]) /\ larger = Large(coins'["ida"])
  OBVIOUS
<1>5. Large(coins["ida"])' = larger
  BY <1>4 DEF Large
<1>6. CASE name # "ida"
  <2>1. IdaHeads' = IdaHeads
    BY <1>1, <1>2, <1>6 DEF IdaHeads
  <2>2. larger = large
    BY <1>1, <1>4, <1>6, CommitPurse DEF Names
  <2> QED
    BY <1>3, <1>4, <1>5, <2>1, <2>2 DEF IdaInv
<1>7. CASE name = "ida"
  <2>1. h \notin IdaHeads
    BY <1>7 DEF IdaHeads, PostCommit, CanCommit
  <2>2. IdaHeads' = IdaHeads \cup {h}
    BY <1>1, <1>2, <1>7 DEF IdaHeads
  <2>3. IsFiniteSet(IdaHeads) /\ Cardinality(IdaHeads) \in Nat
    BY AskedFinite, FS_Subset, FS_CardinalityType DEF IdaInv
  <2>4. Cardinality(IdaHeads') = Cardinality(IdaHeads) + 1
    <3>1. PICK heads : heads = IdaHeads
      OBVIOUS
    <3>2. Cardinality(heads \cup {h}) = IF h \in heads THEN Cardinality(heads) ELSE Cardinality(heads) + 1
      BY <2>3, <3>1, FS_AddElement
    <3> QED
      BY <2>1, <2>2, <3>1, <3>2
  <2>5. large \subseteq larger \cup {o.size}
    BY <1>1, <1>4, <1>7, CommitPurse
  <2>6. PICK lost, size : lost = IdaLarge \ large /\ size = o.size
    OBVIOUS
  <2>7. IsFiniteSet(lost) /\ Cardinality(lost) \in Nat
    BY <2>6, IdaLargeFinite, FS_Subset, FS_CardinalityType
  <2>8. PICK more : more = lost \cup {size}
    OBVIOUS
  <2>9. IsFiniteSet(more) /\ Cardinality(more) \in Nat /\ Cardinality(more) <= Cardinality(lost) + 1
    <3>1. IsFiniteSet(lost \cup {size})
          /\ Cardinality(lost \cup {size}) = IF size \in lost THEN Cardinality(lost) ELSE Cardinality(lost) + 1
      BY <2>7, FS_AddElement
    <3>2. IsFiniteSet(more) /\ Cardinality(more) <= Cardinality(lost) + 1
      BY <2>7, <2>8, <3>1
    <3> QED
      BY <3>2, FS_CardinalityType
  <2>10. IdaLarge \ larger \subseteq more
    BY <2>5, <2>6, <2>8
  <2>11. Cardinality(IdaLarge \ larger) <= Cardinality(more) /\ Cardinality(IdaLarge \ larger) \in Nat
    BY <2>9, <2>10, FS_Subset, FS_CardinalityType
  <2>12. Cardinality(lost) <= Cardinality(IdaHeads)
    BY <1>4, <2>6 DEF IdaInv
  <2>13. Cardinality(IdaLarge \ larger) <= Cardinality(IdaHeads')
    BY <2>3, <2>4, <2>7, <2>9, <2>11, <2>12
  <2>14. IdaHeads' \subseteq Asked
    BY <2>2 DEF IdaInv
  <2> QED
    BY <1>3, <1>5, <2>13, <2>14 DEF IdaInv
<1> QED
  BY <1>6, <1>7

\* An Init of head A or B is posted by a run that has something to commit for everyone.
LEMMA InitCovers ==
    ASSUME NEW op \in Operations, IInv, TypesInv, CommitsInv, At(op, "enter"), SnapshotReady(op),
           PostInit(Target(op), Node(op))
    PROVE  OthersInv'
<1> SUFFICES ASSUME NEW h \in {"A", "B"}, chain'[h].status # "Idle", NEW name \in Members(h) \ {"ida"}
             PROVE  name \in chain'[h].committed \/ Rich(coins[name])'
  BY DEF OthersInv
<1>1. /\ Target(op) \in Targets(op) /\ Target(op) \in Heads /\ h \in Heads
      /\ IsPartial(op) <=> Target(op) = "C"
  BY RunIsAt, Names3 DEF TypesInv
<1>2. Node(op) \in Names
  BY <1>1, PartiesListed, Coordinates DEF Node, Committer, Names
<1>3. Moves
  BY <1>1, <1>2, InitMovesOn DEF CommitsInv
<1>4. name \in chain[h].committed \/ Rich(coins[name])
  <2>1. CASE h = Target(op)
    <3>1. ~IsPartial(op)
      BY <1>1, <2>1
    <3>2. run[op].picks[h][name] # None
      BY <2>1, <3>1 DEF SnapshotReady
    <3>3. PicksOK(op, run[op].picks)
      BY DEF CommitsInv, PicksInv, At, Rest
    <3>4. PickOK(chain[h].committed, coins[name], name, run[op].picks[h][name])
      BY <1>1, <2>1, <3>3 DEF PicksOK
    <3> QED
      BY <3>2, <3>4 DEF PickOK
  <2>2. CASE h # Target(op)
    <3>1. chain'[h] = chain[h]
      BY <1>1, <2>2 DEF PostInit, IInv, ChainOK
    <3> QED
      BY <3>1 DEF CommitsInv, OthersInv
  <2> QED
    BY <2>1, <2>2
<1> QED
  BY <1>1, <1>3, <1>4 DEF Moves

\* A head that is no more idle than before.
LEMMA OthersKept ==
    ASSUME OthersInv, Moves, \A h \in Heads : chain'[h].status # "Idle" => chain[h].status # "Idle"
    PROVE  OthersInv'
BY Names3 DEF OthersInv, Moves

\* Where nothing is committed though there was something, the pick was not that of a
\* participant who had not committed yet.
LEMMA CommitsSomething ==
    ASSUME NEW op \in Operations, IInv, TypesInv, CommitsInv, Sends(op), Ample,
           PostCommit(Target(op), Party(op), Pick(op))
    PROVE  Pick(op) # None
<1>1. PICK h \in Heads : h = Target(op)
  BY RunIsAt DEF TypesInv
<1>2. PICK name \in Members(h) : name = Party(op)
  BY <1>1, RunIsAt DEF TypesInv
<1>3. CASE IsPartial(op)
  BY <1>3 DEF Sends
<1>4. CASE ~IsPartial(op)
  <2>1. h \in {"A", "B"} /\ h \in Targets(op)
    BY <1>1, <1>4, RunIsAt, Names3 DEF TypesInv
  <2>2. chain[h].status = "Initial" /\ name \notin chain[h].committed
    BY <1>1, <1>2 DEF PostCommit, CanCommit
  <2>3. PicksOK(op, run[op].picks)
    BY DEF CommitsInv, PicksInv, Sends, At, Rest
  <2>4. PickOK(chain[h].committed, coins[name], name, Pick(op))
    BY <1>1, <1>2, <2>1, <2>3 DEF PicksOK, Pick
  <2>5. name # "ida" => Rich(coins[name])
    BY <2>1, <2>2 DEF CommitsInv, OthersInv
  <2> QED
    BY <2>2, <2>4, <2>5 DEF PickOK
<1> QED
  BY <1>3, <1>4

LEMMA ScriptCommits ==
    ASSUME NEW op \in Operations, IInv, TypesInv, CommitsInv, Script(op) \/ Faults(op)
    PROVE  CommitsInv'
<1>1. PursesInv /\ IdaInv /\ OthersInv /\ PicksInv /\ NoEmptyCommit
  BY DEF CommitsInv
<1>2. PICK r : Turn(op, r) /\ run' = [run EXCEPT ![op] = r]
  BY ScriptTurns
<1>3. Moves => PicksInv'
  BY <1>1, <1>2, PicksTurn
<1>4. PICK h \in Heads : h = Target(op)
  BY RunIsAt DEF TypesInv
<1>5. CASE layer1' = layer1
  <2>1. case' = case /\ coins' = coins /\ chain' = chain
    BY <1>5 DEF layer1
  <2>2. Moves
    BY <1>1, <2>1 DEF Moves, PursesInv
  <2>3. OthersInv'
    BY <1>1, <2>1, <2>2, OthersKept
  <2>4. IdaInv' /\ NoEmptyCommit'
    BY <1>1, <2>1, StillCommits
  <2> QED
    BY <1>3, <2>2, <2>3, <2>4 DEF CommitsInv, Moves
<1>6. ASSUME At(op, "enter"), SnapshotReady(op), PostInit(Target(op), Node(op)) PROVE CommitsInv'
  <2>1. Node(op) \in Names
    BY <1>4, PartiesListed, Coordinates DEF Node, Committer, Names
  <2>2. /\ Moves
        /\ \A g \in Heads : chain'[g].committed = chain[g].committed /\ chain'[g].empty = chain[g].empty
        /\ \A n \in Names : Large(coins'[n]) = Large(coins[n])
    BY <1>1, <1>4, <1>6, <2>1, InitMovesOn
  <2>3. IdaInv' /\ NoEmptyCommit'
    BY <1>1, <2>2, StillCommits DEF Moves
  <2>4. OthersInv'
    BY <1>6, InitCovers
  <2> QED
    BY <1>3, <2>2, <2>3, <2>4 DEF CommitsInv, Moves
<1>7. ASSUME Sends(op), PostCommit(Target(op), Party(op), Pick(op)) PROVE CommitsInv'
  <2>1. PICK name \in Members(h) : name = Party(op)
    BY <1>4, RunIsAt DEF TypesInv
  <2>2. PICK o : o = Pick(op)
    OBVIOUS
  <2>3. PostCommit(h, name, o)
    BY <1>4, <1>7, <2>1, <2>2
  <2>4. /\ Moves
        /\ chain'[h].empty = IF o = None THEN chain[h].empty \cup {name} ELSE chain[h].empty
        /\ \A g \in Heads \ {h} : chain'[g] = chain[g]
    BY <1>1, <2>3, CommitMovesOn
  <2>5. h \in Asked
    <3>1. op \in case.operations
      BY <1>7 DEF TypesInv, RunTyped, Sends, At, Rest
    <3> QED
      BY <1>4, <3>1, RunIsAt DEF TypesInv, Asked
  <2>6. IdaInv'
    BY <1>1, <2>3, <2>5, CommitCounts
  <2>7. chain'[h].status = chain[h].status
    BY <2>3 DEF PostCommit, IInv, ChainOK
  <2>8. OthersInv'
    BY <1>1, <2>4, <2>7, OthersKept
  <2>9. NoEmptyCommit'
    <3>1. Ample' <=> Ample
      BY <2>4 DEF Ample, Moves
    <3>2. Ample => o # None
      BY <1>7, <2>2, CommitsSomething
    <3> QED
      BY <1>1, <2>4, <3>1, <3>2 DEF NoEmptyCommit
  <2> QED
    BY <1>3, <2>4, <2>6, <2>8, <2>9 DEF CommitsInv, Moves
<1> QED
  BY <1>5, <1>6, <1>7, ScriptPosts

LEMMA NextCommits == IInv /\ TypesInv /\ CommitsInv /\ [Next]_vars => CommitsInv'
<1> SUFFICES ASSUME IInv, TypesInv, CommitsInv, [Next]_vars PROVE CommitsInv'
  OBVIOUS
<1>1. PursesInv /\ IdaInv /\ OthersInv /\ PicksInv /\ NoEmptyCommit
  BY DEF CommitsInv
<1>2. CASE Nodes \/ UNCHANGED vars
  <2>1. case' = case /\ coins' = coins /\ run' = run
    BY <1>2 DEF Nodes, Collect, Observe, layer1, vars
  <2>2. \A g \in Heads : /\ chain'[g].committed = chain[g].committed /\ chain'[g].empty = chain[g].empty
                         /\ chain'[g].status # "Idle" => chain[g].status # "Idle"
    BY <1>2 DEF Nodes, Collect, Observe, layer1, vars, IInv, ChainOK
  <2>3. Moves
    BY <1>1, <2>1, <2>2 DEF Moves, PursesInv
  <2>4. IdaInv' /\ NoEmptyCommit'
    BY <1>1, <2>1, <2>2, StillCommits
  <2>5. OthersInv'
    BY <1>1, <2>2, <2>3, OthersKept
  <2>6. PicksInv'
    BY <1>1, <2>1, <2>3, PicksMove
  <2> QED
    BY <2>3, <2>4, <2>5, <2>6 DEF CommitsInv, Moves
<1>3. CASE \E op \in Operations : Script(op) \/ Faults(op)
  BY <1>3, ScriptCommits
<1> QED
  BY <1>2, <1>3 DEF Next

LEMMA InitCommits == Init => CommitsInv
<1> SUFFICES ASSUME Init PROVE CommitsInv
  OBVIOUS
<1>1. \A h \in Heads : chain[h] = [status |-> "Idle", committed |-> {}, empty |-> {}]
  BY DEF Init
<1>2. \A name \in Names : coins[name] = {[size |-> s, version |-> 0] : s \in case.held[name]}
  BY DEF Init
<1>3. PursesInv
  <2>1. ASSUME NEW name \in Names PROVE Purse(coins[name], case.held[name])
    BY <1>2 DEF Purse, Distinct
  <2> QED
    BY <2>1 DEF Init, PursesInv
<1>4. IdaInv
  <2>1. IdaHeads = {}
    BY <1>1 DEF IdaHeads
  <2>2. "ida" \in Names
    BY DEF Names
  <2>3. case.held["ida"] \subseteq Nat
    BY <1>3, <2>2, Held
  <2>4. ASSUME NEW s \in IdaLarge PROVE s \in Large(coins["ida"])
    <3>1. PICK o : o = [size |-> s, version |-> 0]
      OBVIOUS
    <3>2. o \in coins["ida"] /\ o.size = s
      BY <1>2, <2>2, <3>1 DEF IdaLarge
    <3> QED
      BY <2>3, <3>2 DEF IdaLarge, Large
  <2>5. IdaLarge \ Large(coins["ida"]) = {}
    BY <2>4
  <2> QED
    BY <2>1, <2>5, FS_EmptySet DEF IdaInv
<1>5. OthersInv /\ NoEmptyCommit
  BY <1>1, Names3 DEF OthersInv, NoEmptyCommit
<1>6. PicksInv
  BY DEF Init, PicksInv, Resting, Rest
<1> QED
  BY <1>3, <1>4, <1>5, <1>6 DEF CommitsInv

\* With an output for each head and one for the fuel, no order of runs, retries, stale
\* picks and lost answers makes a participant commit nothing.
THEOREM NobodyCommitsNothing == Spec => []NoEmptyCommit
<1>1. Init => CommitsInv
  BY InitCommits
<1>2. (IInv /\ TypesInv) /\ CommitsInv /\ [Next]_vars => CommitsInv'
  BY NextCommits
<1>3. CommitsInv => NoEmptyCommit
  BY DEF CommitsInv
<1> QED
  BY <1>1, <1>2, <1>3, TypesInvariant, PTL DEF Spec

=============================================================================
