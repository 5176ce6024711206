-------------------------- MODULE PathPaymentProofs --------------------------
(***************************************************************************)
(* What the payment client promises to the intermediaries and to the page, *)
(* for any topology of paths, any number of payments and hashes, and any   *)
(* number of retries, lost answers, resets and reloads.                    *)
(*                                                                         *)
(* The heads keep HeadsInv and LockedInv: what becomes of an HTLC.  The    *)
(* loops keep LoopsInv: whose transaction is whose.  The cardinalities of  *)
(* the properties are compared by way of the loops, each of which stands   *)
(* for one lock and one claim of each step of its path.                    *)
(***************************************************************************)
EXTENDS PathPayment, FiniteSetTheorems, SequenceTheorems, TLAPS

-----------------------------------------------------------------------------
(* Outputs and transactions *)

\* The lifetime is that of a step of the path, the first of which is the payer's and the
\* last the payee's.
Lifetime(o) ==
    \E i \in 1..3 : /\ o.timeout = o.at + calculateStepTimeout(i)
                    /\ o.from \in Intermediaries => i # 1
                    /\ o.to \in Intermediaries => i # 3

HtlcOK(o) ==
    /\ o.kind = "htlc" /\ o.hash \in Hashes
    /\ o.from \in People /\ o.to \in People /\ o.from # o.to /\ o.pays = o.to
    /\ o.at \in 0..MaxNow /\ o.timeout \in Nat /\ Lifetime(o)

OutputOK(o) == o.tx \in Int /\ o.tx <= sent /\ (o.kind = "coin" \/ (HtlcOK(o) /\ o.tx \in 1..sent))

\* A lock spends a coin.  A claim and a refund spend an HTLC that was in a head.
IsLock(t) == (\A o \in t.spends : o.kind = "coin") /\ \E m \in t.makes : t.makes = {m} /\ HtlcOK(m) /\ m.tx = t.id
IsSpend(t, o) ==
    /\ t.spends = {o} /\ o \in locked
    /\ \E m \in t.makes : /\ t.makes = {m} /\ m.kind = "coin" /\ m.tx = t.id
              /\ \/ m.owner = o.to
                 \/ m.owner = o.from /\ t.from \in Int /\ t.from > o.timeout /\ o.from \notin Intermediaries

TxOK(t) == t.id \in 1..sent /\ (IsLock(t) \/ \E o \in t.spends : IsSpend(t, o))

HeadsInv ==
    /\ sent \in 0..MaxTxs /\ now \in 0..MaxNow
    /\ \A o \in utxo \cup snapshot : OutputOK(o)
    /\ \A t \in pool : TxOK(t)
    /\ \A t, u \in pool : t.id = u.id => t = u
    /\ \A o \in utxo \cup snapshot \cup locked : \A t \in pool : o.tx # t.id
    /\ \A o \in utxo \cup snapshot : IsHtlc(o) => o \in locked

\* An HTLC ends by a claim, or by a refund that nobody asks for on behalf of an intermediary.
LockedInv ==
    /\ \A o \in locked : HtlcOK(o) /\ o.tx \in 1..sent
    /\ \A o, q \in locked : o.tx = q.tx => o = q
    /\ claimed \subseteq locked /\ claimed \cap utxo = {}
    /\ \A o \in locked : o \in utxo \cup claimed \/ (o.from \notin Intermediaries /\ now > o.timeout)

-----------------------------------------------------------------------------
(* Loops *)

Pcs == {"idle", "lock", "sent", "await", "settle", "cover", "watch", "collect", "done", "failed", "gone"}

LoopState == [pc: Pcs, path: Seq(Steps), hash: Hashes \cup {"none"}, preimage: BOOLEAN,
              step: 1..3, retry: 0..MAX_RETRIES, tx: Nat, collect: SUBSET (1..3)]

LoopTyped(k) ==
    /\ k \in LoopState /\ k.tx \in 0..sent
    /\ k.pc = "idle" => k.tx = 0 /\ k.hash = "none" /\ k.path = <<>>
    /\ k.pc # "idle" => IsPath(k.path) /\ k.step <= Len(k.path) /\ k.hash \in Hashes
    /\ k.pc = "settle" => k.step < Len(k.path)
    /\ k.pc = "cover" => k.step > 1
    /\ k.pc \in {"sent", "await", "settle", "watch"} => k.tx # 0
    /\ k.pc \in {"watch", "collect", "done"} => k.step = Len(k.path)
    /\ k.pc = "watch" => k.preimage
    /\ k.collect # {} => k.pc = "collect" /\ k.preimage /\ k.collect \subseteq intermediarySteps(k.path)

Owned(k) == k.pc \in {"sent", "await", "settle", "watch"}

\* What the transaction of a loop makes is an HTLC, and for its step.
IsFor(o, step, hash) == o.from = step.from /\ o.to = step.to /\ o.hash = hash /\ o.head = step.head
Made(id) == {o \in utxo \cup snapshot \cup locked : o.tx = id} \cup UNION {t.makes : t \in {u \in pool : u.id = id}}

LoopMade(k) ==
    k.tx # 0 => \A o \in Made(k.tx) : IsHtlc(o) /\ (Owned(k) => IsFor(o, k.path[k.step], k.hash))

\* The last HTLC, while it is watched, and after that.
LoopPaid(k) ==
    /\ k.pc = "watch" => \E o \in locked : /\ o.tx = k.tx /\ IsFor(o, Last(k.path), k.hash)
                                           /\ o \in snapshot \/ o \notin utxo
    /\ k.pc = "collect" => \E o \in claimed : o.tx = k.tx /\ o.hash = k.hash /\ o.to \notin Intermediaries

LoopsInv ==
    /\ DOMAIN loop = Payments
    /\ \A p \in Payments : LoopTyped(loop[p]) /\ LoopMade(loop[p]) /\ LoopPaid(loop[p])
    /\ \A p, q \in Payments : loop[p].tx = loop[q].tx /\ loop[p].tx # 0 => p = q

PageInv ==
    /\ shown \in [on : BOOLEAN, busy : BOOLEAN, recorded : SUBSET (1..3)]
    /\ shown.busy => shown.on
    /\ pairs \in [Hashes -> {"none", "fresh", "used"}]
    /\ doubts \in Nat /\ troubles \in Nat

-----------------------------------------------------------------------------
(* Counting *)

Past(k, i) == i < k.step \/ (i = k.step /\ k.pc \in {"settle", "watch", "collect", "done"})

\* The loops that have completed one of these steps, and the HTLCs of them that no loop is
\* still waiting for.
Completed(hash, steps) ==
    {p \in Payments : loop[p].hash = hash /\ \E i \in DOMAIN loop[p].path : loop[p].path[i] \in steps /\ Past(loop[p], i)}

WaitedFor(o) == \E p \in Payments : loop[p].pc \in {"sent", "await"} /\ loop[p].tx = o.tx
LockedFor(hash, steps) == {o \in locked : o.hash = hash /\ \E s \in steps : o.from = s.from /\ o.to = s.to}
AtRest(hash, steps) == {o \in LockedFor(hash, steps) : ~WaitedFor(o)}

StepSets == {{s} : s \in Steps} \cup {{s \in Steps : s.to = x} : x \in Intermediaries}

CompletedInv ==
    \A hash \in Hashes, steps \in StepSets :
        Cardinality(Completed(hash, steps)) <= Cardinality(AtRest(hash, steps))

\* The locks of an intermediary, made or on their way, and the loops that each of them is for.
Relays(hash, x) ==
    {id \in 1..sent : \/ \E o \in locked : o.tx = id /\ o.hash = hash /\ o.from = x
                      \/ \E t \in pool : t.id = id /\ \E o \in t.makes : IsHtlc(o) /\ o.hash = hash /\ o.from = x}

Relaying(hash, x) ==
    {p \in Payments : loop[p].hash = hash /\ \E i \in DOMAIN loop[p].path : /\ loop[p].path[i].from = x
                                            /\ \/ i < loop[p].step
                                               \/ i = loop[p].step /\ loop[p].pc \notin {"lock", "cover"} /\ loop[p].tx \in Relays(hash, x)}

RelaysInv ==
    \A hash \in Hashes, x \in Intermediaries :
        Cardinality(Relays(hash, x)) <= Cardinality(Relaying(hash, x)) + doubts

\* The claims for an intermediary, on their way or made, and the loops that sent them.
Claiming(hash, x) ==
    {t \in pool : \E o \in t.spends, m \in t.makes : IsHtlc(o) /\ o.hash = hash /\ o.to = x /\ m.kind = "coin" /\ m.owner = x}

Collecting(hash, x) ==
    {p \in Payments : /\ loop[p].hash = hash /\ loop[p].pc \in {"collect", "gone"}
                      /\ \E i \in DOMAIN loop[p].path : loop[p].path[i].to = x /\ i \notin loop[p].collect
                      /\ \E o \in claimed : o.tx = loop[p].tx /\ o.hash = hash /\ o.to \notin Intermediaries}

ClaimsInv ==
    \A hash \in Hashes, x \in Intermediaries :
        Cardinality(To(Of(claimed, hash), x)) + Cardinality(Claiming(hash, x)) <= Cardinality(Collecting(hash, x))

IInv == HeadsInv /\ LockedInv /\ LoopsInv /\ PageInv /\ CompletedInv /\ RelaysInv /\ ClaimsInv

-----------------------------------------------------------------------------
(* Paths and lifetimes *)

\* The paths of lib/topologies.ts are paths in the sense of the assumption, whichever of
\* the three topologies is selected.
THEOREM TopologiesHavePaths == \A r \in twoHeads \cup singlePath \cup hubAndSpoke : IsPath(r.path)
<1>1. ASSUME NEW u \in PaymentUsers, NEW v \in PaymentUsers, NEW x \in Intermediaries,
             NEW h \in {"a", "b", "c"}, NEW k \in {"a", "b", "c"}
      PROVE  IsPath(<<Step(u, x, h), Step(x, v, k)>>)
  BY DEF IsPath, Steps, Step, People, PaymentUsers, Intermediaries
<1>2. ASSUME NEW u \in PaymentUsers, NEW v \in PaymentUsers, NEW x \in Intermediaries, NEW y \in Intermediaries, x # y,
             NEW h \in {"a", "b", "c"}, NEW k \in {"a", "b", "c"}, NEW l \in {"a", "b", "c"}
      PROVE  IsPath(<<Step(u, x, h), Step(x, y, k), Step(y, v, l)>>)
  BY <1>2 DEF IsPath, Steps, Step, People, PaymentUsers, Intermediaries
<1>3. ASSUME NEW r \in twoHeads PROVE IsPath(r.path)
  <2>1. IsPath(<<Step("alice", "ida", "a"), Step("ida", "bob", "b")>>)
        /\ IsPath(<<Step("bob", "ida", "b"), Step("ida", "alice", "a")>>)
    BY <1>1 DEF PaymentUsers, Intermediaries
  <2> QED BY <2>1 DEF twoHeads, Route
<1>4. ASSUME NEW r \in singlePath PROVE IsPath(r.path)
  <2>1. IsPath(<<Step("bob", "jon", "b"), Step("jon", "charlie", "c")>>)
        /\ IsPath(<<Step("charlie", "jon", "c"), Step("jon", "bob", "b")>>)
    BY <1>1 DEF PaymentUsers, Intermediaries
  <2>2. IsPath(<<Step("alice", "ida", "a"), Step("ida", "jon", "b"), Step("jon", "charlie", "c")>>)
        /\ IsPath(<<Step("charlie", "jon", "c"), Step("jon", "ida", "b"), Step("ida", "alice", "a")>>)
    BY <1>2 DEF PaymentUsers, Intermediaries
  <2> QED BY <1>3, <2>1, <2>2 DEF singlePath, Route
<1>5. ASSUME NEW r \in hubAndSpoke PROVE IsPath(r.path)
  <2> DEFINE spoke == [alice |-> "a", bob |-> "b", charlie |-> "c"]
  <2>1. PICK u \in PaymentUsers \X PaymentUsers :
               r = Route(u[1], u[2], <<Step(u[1], "ida", spoke[u[1]]), Step("ida", u[2], spoke[u[2]])>>)
    BY DEF hubAndSpoke
  <2>2. spoke[u[1]] \in {"a", "b", "c"} /\ spoke[u[2]] \in {"a", "b", "c"} /\ u[1] \in PaymentUsers /\ u[2] \in PaymentUsers
    BY DEF PaymentUsers
  <2>3. r.path = <<Step(u[1], "ida", spoke[u[1]]), Step("ida", u[2], spoke[u[2]])>>
    BY <2>1 DEF Route
  <2>4. "ida" \in Intermediaries
    BY DEF Intermediaries
  <2> HIDE DEF spoke
  <2> QED BY <1>1, <2>2, <2>3, <2>4
<1> QED BY <1>3, <1>4, <1>5

LEMMA Sizes ==
    /\ MAX_RETRIES \in Nat /\ ClaimMargin \in Nat /\ MaxTroubles \in Nat /\ MaxTxs \in Nat /\ MaxNow \in Nat
    /\ BaseTimeout \in Nat /\ Instants \subseteq 0..MaxNow /\ IsFiniteSet(Payments)
    /\ \A r \in Topology : IsPath(r.path)
    /\ \A c \in Coins : c.kind = "coin" /\ c.tx \in Int /\ c.tx <= 0
BY PathAssumption, HeadAssumption

LEMMA PathFacts ==
    ASSUME NEW path, IsPath(path)
    PROVE  /\ Len(path) \in 2..3 /\ DOMAIN path = 1..Len(path) /\ Last(path) = path[Len(path)]
           /\ \A i \in 1..Len(path) :
                 /\ path[i] \in Steps /\ path[i].from # path[i].to
                 /\ path[i].from \in Intermediaries => i # 1 /\ path[i - 1].to = path[i].from
                 /\ path[i].to \in Intermediaries => i < Len(path)
           /\ \A i, j \in 1..Len(path) : path[i].from = path[j].from /\ path[i].from \in Intermediaries => i = j
           /\ \A i, j \in 1..Len(path) : path[i].to = path[j].to => i = j
<1>1. /\ path \in Seq(Steps) /\ Len(path) \in 2..3
      /\ path[1].from \notin Intermediaries /\ path[Len(path)].to \notin Intermediaries
      /\ \A i \in 1..(Len(path) - 1) : path[i].to \in Intermediaries /\ path[i].to = path[i + 1].from
      /\ \A i, j \in 1..Len(path) : path[i].to = path[j].to => i = j
  BY DEF IsPath
<1>2. DOMAIN path = 1..Len(path) /\ Last(path) = path[Len(path)]
  BY <1>1 DEF Last
<1>3. ASSUME NEW i \in 1..Len(path), i # 1
      PROVE  i - 1 \in 1..(Len(path) - 1) /\ path[i - 1].to = path[i].from /\ path[i].from \in Intermediaries
  <2>1. i - 1 \in 1..(Len(path) - 1) /\ (i - 1) + 1 = i
    BY <1>1, <1>3
  <2> QED BY <1>1, <2>1
<1>4. ASSUME NEW i \in 1..Len(path)
      PROVE  /\ path[i] \in Steps /\ path[i].from # path[i].to
             /\ path[i].from \in Intermediaries => i # 1 /\ path[i - 1].to = path[i].from
             /\ path[i].to \in Intermediaries => i < Len(path)
  <2>1. path[i] \in Steps
    BY <1>1
  <2>2. path[i].from # path[i].to
    <3>1. CASE i = 1
      <4>1. 1 \in 1..(Len(path) - 1)
        BY <1>1
      <4> QED BY <1>1, <3>1, <4>1
    <3>2. CASE i # 1
      <4>1. i - 1 \in 1..Len(path) /\ path[i - 1].to = path[i].from /\ i - 1 # i
        BY <1>1, <1>3, <3>2
      <4> QED BY <1>1, <4>1
    <3> QED BY <3>1, <3>2
  <2>3. path[i].to \in Intermediaries => i < Len(path)
    BY <1>1
  <2> QED BY <1>1, <1>3, <2>1, <2>2, <2>3
<1>5. ASSUME NEW i \in 1..Len(path), NEW j \in 1..Len(path), path[i].from = path[j].from, path[i].from \in Intermediaries
      PROVE  i = j
  <2>1. i - 1 \in 1..Len(path) /\ j - 1 \in 1..Len(path) /\ path[i - 1].to = path[j - 1].to
    BY <1>1, <1>3, <1>4, <1>5
  <2>2. i - 1 = j - 1
    BY <1>1, <2>1
  <2> QED BY <2>2
<1> QED BY <1>1, <1>2, <1>4, <1>5

LEMMA Lifetimes ==
    /\ \A i \in 1..3 : calculateStepTimeout(i) \in Nat
    /\ calculateStepTimeout(2) <= calculateStepTimeout(1)
    /\ calculateStepTimeout(3) <= calculateStepTimeout(2)
<1> SUFFICES ASSUME NEW b \in Nat, b = BaseTimeout
             PROVE  /\ \A i \in 1..3 : calculateStepTimeout(i) \in Nat
                    /\ calculateStepTimeout(2) <= calculateStepTimeout(1)
                    /\ calculateStepTimeout(3) <= calculateStepTimeout(2)
  BY Sizes
<1>1. calculateStepTimeout(1) = b
  <2>1. calculateStepTimeout(1) = ((b * 1 * 100 + 1 \div 2) \div 1) \div 100
    BY DEF calculateStepTimeout
  <2>2. ((b * 1 * 100 + 1 \div 2) \div 1) \div 100 = b
    OBVIOUS
  <2> QED BY <2>1, <2>2
<1>2. calculateStepTimeout(2) = ((b * 9500 + 50) \div 100) \div 100
  <2>1. calculateStepTimeout(2) = ((b * 95 * 100 + 100 \div 2) \div 100) \div 100
    BY DEF calculateStepTimeout
  <2>2. b * 95 * 100 + 100 \div 2 = b * 9500 + 50
    OBVIOUS
  <2> QED BY <2>1, <2>2
<1>3. calculateStepTimeout(3) = ((b * 902500 + 5000) \div 10000) \div 100
  <2>1. calculateStepTimeout(3) = ((b * 9025 * 100 + 10000 \div 2) \div 10000) \div 100
    BY DEF calculateStepTimeout
  <2>2. b * 9025 * 100 + 10000 \div 2 = b * 902500 + 5000
    OBVIOUS
  <2> QED BY <2>1, <2>2
<1>4. /\ ((b * 9500 + 50) \div 100) \div 100 \in Nat
      /\ ((b * 902500 + 5000) \div 10000) \div 100 \in Nat
      /\ ((b * 9500 + 50) \div 100) \div 100 <= b
  OBVIOUS
<1>5. ((b * 902500 + 5000) \div 10000) \div 100 <= ((b * 9500 + 50) \div 100) \div 100
  OBVIOUS
<1>6. \A i \in 1..3 : calculateStepTimeout(i) \in Nat
  <2>1. \A i \in 1..3 : i = 1 \/ i = 2 \/ i = 3
    OBVIOUS
  <2> QED BY <1>1, <1>2, <1>3, <1>4, <2>1
<1> QED BY <1>1, <1>2, <1>3, <1>4, <1>5, <1>6

\* An HTLC that one of the routes makes.
LEMMA NewHtlc ==
    ASSUME NEW path, IsPath(path), NEW i \in 1..Len(path), NEW hash \in Hashes, now \in 0..MaxNow, NEW id \in Nat
    PROVE  \E o : /\ o = [HtlcOutput(path, i, hash) EXCEPT !.tx = id]
                  /\ HtlcOK(o) /\ o.tx = id /\ IsFor(o, path[i], hash)
<1> DEFINE o == [HtlcOutput(path, i, hash) EXCEPT !.tx = id]
<1>1. /\ o.kind = "htlc" /\ o.hash = hash /\ o.from = path[i].from /\ o.to = path[i].to /\ o.head = path[i].head
      /\ o.pays = desiredOutput(path, i) /\ o.at = now /\ o.timeout = now + calculateStepTimeout(i) /\ o.tx = id
  BY DEF HtlcOutput
<1>2. desiredOutput(path, i) = path[i].to
  BY PathFacts DEF desiredOutput
<1>3. i \in 1..3 /\ path[i].from \in People /\ path[i].to \in People /\ path[i].from # path[i].to
  BY PathFacts DEF Steps
<1>4. Lifetime(o)
  <2>1. (o.from \in Intermediaries => i # 1) /\ (o.to \in Intermediaries => i # 3)
    BY <1>1, <1>3, PathFacts
  <2> HIDE DEF o
  <2> QED BY <1>1, <1>3, <2>1 DEF Lifetime
<1>5. o.timeout \in Nat
  <2> HIDE DEF o
  <2>1. calculateStepTimeout(i) \in Nat
    BY <1>3, Lifetimes
  <2>2. now \in Nat
    BY Sizes
  <2>3. now + calculateStepTimeout(i) \in Nat
    <3>1. \A m, n \in Nat : m + n \in Nat
      OBVIOUS
    <3> QED BY <2>1, <2>2, <3>1
  <2> QED BY <1>1, <2>3
<1> HIDE DEF o
<1>6. HtlcOK(o)
  BY <1>1, <1>2, <1>3, <1>4, <1>5 DEF HtlcOK
<1> QED BY <1>1, <1>6 DEF IsFor, o

-----------------------------------------------------------------------------
(* Heads *)

\* What a step of the heads may do to the HTLCs that the loops know of.
Calm ==
    /\ sent' \in Nat /\ sent <= sent'
    /\ \A id \in 1..sent : Made(id)' \subseteq Made(id)
    /\ locked \subseteq locked' /\ claimed \subseteq claimed'
    /\ \A o \in locked : o \in snapshot \/ o \notin utxo => o \in snapshot' \/ o \notin utxo'

LEMMA SendKeeps ==
    ASSUME HeadsInv, LockedInv, UNCHANGED historyVars,
           NEW head, NEW spends, NEW reads, NEW makes, NEW from, NEW upto,
           Send(head, spends, reads, makes, from, upto),
           NEW t, t = Tx(sent + 1, head, spends, reads, makes, from, upto),
           IsLock(t) \/ \E o \in t.spends : IsSpend(t, o)
    PROVE  HeadsInv' /\ LockedInv' /\ Calm
<1>1. /\ sent \in Nat /\ sent + 1 \in 0..MaxTxs /\ sent' = sent + 1
      /\ pool' = pool \cup {t} /\ UNCHANGED <<utxo, snapshot, now, locked, claimed>>
  BY Sizes DEF HeadsInv, Send, historyVars
<1>2. t.id = sent + 1
  BY DEF Tx
<1>3. ASSUME NEW o \in utxo \cup snapshot PROVE OutputOK(o)' /\ o.tx # t.id
  <2>1. OutputOK(o)
    BY DEF HeadsInv
  <2> QED BY <1>1, <1>2, <2>1 DEF OutputOK
<1>4. ASSUME NEW o \in utxo \cup snapshot \cup locked PROVE o.tx # t.id
  BY <1>1, <1>2, <1>3 DEF LockedInv
<1>5. ASSUME NEW u \in pool PROVE TxOK(u)' /\ u.id # t.id
  BY <1>1, <1>2 DEF HeadsInv, TxOK, IsSpend
<1>6. TxOK(t)'
  BY <1>1, <1>2 DEF TxOK, IsSpend
<1>7. HeadsInv'
  <2>1. \A u, v \in pool' : u.id = v.id => u = v
    BY <1>1, <1>5 DEF HeadsInv
  <2>2. \A u \in pool' : TxOK(u)'
    BY <1>1, <1>5, <1>6
  <2>3. \A o \in utxo' \cup snapshot' \cup locked' : \A u \in pool' : o.tx # u.id
    BY <1>1, <1>4 DEF HeadsInv
  <2>4. sent' \in 0..MaxTxs /\ now' \in 0..MaxNow
    BY <1>1 DEF HeadsInv
  <2>5. \A o \in utxo' \cup snapshot' : OutputOK(o)' /\ (IsHtlc(o) => o \in locked')
    BY <1>1, <1>3 DEF HeadsInv
  <2> QED BY <2>1, <2>2, <2>3, <2>4, <2>5 DEF HeadsInv
<1>8. LockedInv'
  BY <1>1 DEF LockedInv
<1>9. ASSUME NEW id \in 1..sent PROVE Made(id)' \subseteq Made(id)
  <2>1. \A u \in pool' : u.id = id => u \in pool
    BY <1>1, <1>2
  <2> QED BY <1>1, <2>1 DEF Made
<1> QED BY <1>1, <1>7, <1>8, <1>9 DEF Calm

Sent(t, spends) ==
    /\ pool' = pool \cup {t} /\ t.id = sent + 1 /\ sent' = sent + 1 /\ t \notin pool
    /\ t.spends = spends /\ UNCHANGED <<utxo, snapshot, now>>

\* A lock that is sent, for step i of a path.
LocksFor(t, step, hash) == \E o : t.makes = {o} /\ HtlcOK(o) /\ o.tx = t.id /\ IsFor(o, step, hash)

LEMMA LockSent ==
    ASSUME HeadsInv, LockedInv, UNCHANGED historyVars,
           NEW path, IsPath(path), NEW i \in 1..Len(path), NEW step, step = path[i], NEW hash \in Hashes,
           NEW head, NEW c \in snapshot, c.kind = "coin", NEW spends, spends = {c},
           NEW makes, makes = {HtlcOutput(path, i, hash)}, NEW reads, NEW from, NEW upto,
           Send(head, spends, reads, makes, from, upto)
    PROVE  /\ HeadsInv' /\ LockedInv' /\ Calm
           /\ \E t : Sent(t, spends) /\ LocksFor(t, step, hash)
<1>1. PICK id \in Nat : id = sent + 1
  BY DEF HeadsInv
<1>2. PICK t : t = Tx(id, head, spends, reads, makes, from, upto)
  OBVIOUS
<1>3. PICK o : o = [HtlcOutput(path, i, hash) EXCEPT !.tx = id] /\ HtlcOK(o) /\ o.tx = id /\ IsFor(o, path[i], hash)
  BY <1>1, NewHtlc DEF HeadsInv
<1>4. t.id = id /\ t.spends = {c} /\ t.makes = {o}
  BY <1>2, <1>3 DEF Tx
<1>5. IsLock(t)
  BY <1>3, <1>4 DEF IsLock
<1>6. HeadsInv' /\ LockedInv' /\ Calm
  BY <1>1, <1>2, <1>5, SendKeeps
<1>7. pool' = pool \cup {t} /\ sent' = sent + 1 /\ UNCHANGED <<utxo, snapshot, now>>
  BY <1>1, <1>2 DEF Send
<1>8. t \notin pool
  BY <1>1, <1>4 DEF HeadsInv, TxOK
<1>9. LocksFor(t, step, hash)
  BY <1>3, <1>4 DEF LocksFor
<1>10. Sent(t, spends)
  BY <1>1, <1>4, <1>7, <1>8 DEF Sent
<1> QED BY <1>6, <1>9, <1>10

\* A claim or a refund that is sent.
Pays(t, owner) == \E m : t.makes = {m} /\ m.kind = "coin" /\ m.owner = owner /\ m.tx = t.id

LEMMA SpendSent ==
    ASSUME HeadsInv, LockedInv, UNCHANGED historyVars,
           NEW o \in snapshot, IsHtlc(o), NEW where, NEW head, NEW owner, NEW reads, NEW from, NEW upto,
           NEW spends, spends = {o}, NEW makes, makes = {Coin(head, owner)},
           Send(where, spends, reads, makes, from, upto),
           owner = o.to \/ (owner = o.from /\ from \in Int /\ from > o.timeout /\ o.from \notin Intermediaries)
    PROVE  /\ HeadsInv' /\ LockedInv' /\ Calm
           /\ \E t : Sent(t, spends) /\ Pays(t, owner)
<1>1. PICK id \in Nat : id = sent + 1
  BY DEF HeadsInv
<1>2. PICK t : t = Tx(id, where, spends, reads, makes, from, upto)
  OBVIOUS
<1>3. PICK m : m = [Coin(head, owner) EXCEPT !.tx = id]
  OBVIOUS
<1>4. m.kind = "coin" /\ m.owner = owner /\ m.tx = id
  BY <1>3 DEF Coin
<1>5. t.id = id /\ t.spends = {o} /\ t.makes = {m} /\ t.from = from
  BY <1>2, <1>3 DEF Tx
<1>6. IsSpend(t, o)
  BY <1>4, <1>5 DEF IsSpend, HeadsInv
<1>7. HeadsInv' /\ LockedInv' /\ Calm
  BY <1>1, <1>2, <1>5, <1>6, SendKeeps
<1>8. pool' = pool \cup {t} /\ sent' = sent + 1 /\ UNCHANGED <<utxo, snapshot, now>>
  BY <1>1, <1>2 DEF Send
<1>9. t \notin pool
  BY <1>1, <1>5 DEF HeadsInv, TxOK
<1>10. Sent(t, spends)
  BY <1>1, <1>5, <1>8, <1>9 DEF Sent
<1>11. Pays(t, owner)
  BY <1>4, <1>5 DEF Pays
<1> QED BY <1>7, <1>10, <1>11

\* What a transaction does that the head accepts.
LEMMA Accepted ==
    ASSUME HeadsInv, LockedInv, NEW t \in pool, Answer(t), Valid(t)
    PROVE  \/ /\ IsLock(t) /\ UNCHANGED claimed
              /\ \E m : /\ t.makes = {m} /\ HtlcOK(m) /\ m.tx = t.id /\ locked' = locked \cup {m}
                        /\ utxo' = (utxo \ t.spends) \cup {m}
                        /\ \A o \in utxo : IsHtlc(o) => o \in utxo'
           \/ \E o \in locked : /\ IsSpend(t, o) /\ t.spends = {o} /\ o \in utxo /\ o \notin claimed
                                /\ \E m : /\ t.makes = {m} /\ m.kind = "coin" /\ m.tx = t.id /\ utxo' = (utxo \ {o}) \cup {m}
                                          /\ \/ m.owner = o.to /\ claimed' = claimed \cup {o}
                                             \/ /\ m.owner = o.from /\ claimed' = claimed
                                                /\ o.from \notin Intermediaries /\ now > o.timeout
                                /\ locked' = locked
<1>1. /\ utxo' = (utxo \ t.spends) \cup t.makes /\ t.spends \subseteq utxo /\ t.from <= now
      /\ locked' = locked \cup {o \in utxo' \ utxo : IsHtlc(o)}
      /\ claimed' = claimed \cup {o \in utxo \ utxo' : IsHtlc(o) /\ \E n \in utxo' \ utxo : n.owner = o.pays}
  BY DEF Answer, Decide, Valid
<1>2. TxOK(t) /\ \A o \in utxo : o.tx # t.id
  BY DEF HeadsInv
<1>3. CASE IsLock(t)
  <2>1. PICK m : t.makes = {m} /\ HtlcOK(m) /\ m.tx = t.id
    BY <1>3 DEF IsLock
  <2>2. m \notin utxo /\ IsHtlc(m)
    BY <1>2, <2>1 DEF HtlcOK, IsHtlc
  <2>3. \A o \in t.spends : ~IsHtlc(o)
    BY <1>3 DEF IsLock, IsHtlc
  <2>4. utxo' = (utxo \ t.spends) \cup {m} /\ utxo' \ utxo = {m}
    BY <1>1, <2>1, <2>2
  <2>5. locked' = locked \cup {m}
    BY <1>1, <2>2, <2>4
  <2>6. \A o \in utxo \ utxo' : ~IsHtlc(o)
    BY <2>3, <2>4
  <2>7. claimed' = claimed
    BY <1>1, <2>6
  <2>8. \A o \in utxo : IsHtlc(o) => o \in utxo'
    BY <2>6
  <2> QED BY <1>3, <2>1, <2>4, <2>5, <2>7, <2>8
<1>4. ASSUME NEW o, IsSpend(t, o)
      PROVE  \E x \in locked : /\ IsSpend(t, x) /\ t.spends = {x} /\ x \in utxo /\ x \notin claimed
                               /\ \E m : /\ t.makes = {m} /\ m.kind = "coin" /\ m.tx = t.id /\ utxo' = (utxo \ {x}) \cup {m}
                                         /\ \/ m.owner = x.to /\ claimed' = claimed \cup {x}
                                            \/ /\ m.owner = x.from /\ claimed' = claimed
                                               /\ x.from \notin Intermediaries /\ now > x.timeout
                               /\ locked' = locked
  <2>1. t.spends = {o} /\ o \in locked /\ o \in utxo /\ HtlcOK(o) /\ o \notin claimed
    BY <1>1, <1>4 DEF IsSpend, LockedInv
  <2>2. PICK m : /\ t.makes = {m} /\ m.kind = "coin" /\ m.tx = t.id
                 /\ \/ m.owner = o.to
                    \/ m.owner = o.from /\ t.from \in Int /\ t.from > o.timeout /\ o.from \notin Intermediaries
    BY <1>4 DEF IsSpend
  <2>3. m \notin utxo /\ ~IsHtlc(m) /\ m # o
    BY <1>2, <2>1, <2>2 DEF IsHtlc
  <2>4. utxo' = (utxo \ {o}) \cup {m} /\ utxo' \ utxo = {m} /\ utxo \ utxo' = {o}
    BY <1>1, <2>1, <2>2, <2>3
  <2>5. locked' = locked
    BY <1>1, <2>3, <2>4
  <2>6. IsHtlc(o) /\ o.pays = o.to /\ o.from # o.to /\ o.timeout \in Nat
    BY <2>1 DEF HtlcOK, IsHtlc
  <2>7. CASE m.owner = o.to
    <3>1. claimed' = claimed \cup {o}
      BY <1>1, <2>4, <2>6, <2>7
    <3> QED BY <1>4, <2>1, <2>2, <2>4, <2>5, <2>7, <3>1
  <2>8. CASE m.owner # o.to
    <3>1. claimed' = claimed
      BY <1>1, <2>4, <2>6, <2>8
    <3>2. m.owner = o.from /\ o.from \notin Intermediaries /\ t.from > o.timeout /\ t.from \in Int
      BY <2>2, <2>8
    <3>3. now > o.timeout
      BY <1>1, <2>6, <3>2, Sizes DEF HeadsInv
    <3> QED BY <1>4, <2>1, <2>2, <2>4, <2>5, <3>1, <3>2, <3>3
  <2> QED BY <2>7, <2>8
<1> QED BY <1>2, <1>3, <1>4 DEF TxOK

\* What a decision changes of the outputs.
Ending(t) ==
    /\ utxo' \subseteq utxo \cup t.makes /\ locked' \subseteq locked \cup t.makes
    /\ locked \subseteq locked' /\ claimed \subseteq claimed'
    /\ claimed' \subseteq locked' /\ claimed' \cap utxo' = {}
    /\ \A o \in utxo' : IsHtlc(o) => o \in locked'
    /\ \A o \in locked' : HtlcOK(o) /\ (o \in utxo' \cup claimed' \/ (o.from \notin Intermediaries /\ now > o.timeout))

LEMMA Decided ==
    ASSUME HeadsInv, LockedInv, NEW t \in pool, Answer(t)
    PROVE  Ending(t)
<1>1. /\ ~Valid(t) => utxo' = utxo
      /\ locked' = locked \cup {o \in utxo' \ utxo : IsHtlc(o)}
      /\ claimed' = claimed \cup {o \in utxo \ utxo' : IsHtlc(o) /\ \E n \in utxo' \ utxo : n.owner = o.pays}
  BY DEF Answer, Decide
<1>2. /\ claimed \subseteq locked /\ claimed \cap utxo = {}
      /\ \A o \in utxo : IsHtlc(o) => o \in locked
      /\ \A o \in locked : HtlcOK(o) /\ (o \in utxo \cup claimed \/ (o.from \notin Intermediaries /\ now > o.timeout))
      /\ \A o \in locked : o.tx # t.id
  BY DEF LockedInv, HeadsInv
<1>3. CASE ~Valid(t)
  <2>1. utxo' = utxo /\ locked' = locked /\ claimed' = claimed
    BY <1>1, <1>3
  <2> QED BY <1>2, <2>1 DEF Ending
<1>4. ASSUME UNCHANGED claimed, NEW m, t.makes = {m}, HtlcOK(m), m.tx = t.id, locked' = locked \cup {m},
             utxo' = (utxo \ t.spends) \cup {m}, \A o \in utxo : IsHtlc(o) => o \in utxo'
      PROVE  Ending(t)
  <2>1. m \notin locked /\ m \in utxo'
    BY <1>2, <1>4
  <2>2. \A o \in locked : o \in utxo => o \in utxo'
    BY <1>2, <1>4 DEF HtlcOK, IsHtlc
  <2>3. claimed' \subseteq locked' /\ claimed' \cap utxo' = {}
    BY <1>2, <1>4, <2>1
  <2>4. \A q \in utxo' : IsHtlc(q) => q \in locked'
    BY <1>2, <1>4
  <2>5. \A q \in locked' : HtlcOK(q) /\ (q \in utxo' \cup claimed' \/ (q.from \notin Intermediaries /\ now > q.timeout))
    BY <1>2, <1>4, <2>1, <2>2
  <2>6. utxo' \subseteq utxo \cup t.makes /\ locked' \subseteq locked \cup t.makes /\ locked \subseteq locked' /\ claimed \subseteq claimed'
    BY <1>4
  <2> QED BY <2>3, <2>4, <2>5, <2>6 DEF Ending
<1>5. ASSUME NEW o \in locked, o \in utxo, o \notin claimed, NEW m, t.makes = {m}, m.kind = "coin", m.tx = t.id,
             utxo' = (utxo \ {o}) \cup {m}, locked' = locked,
             \/ claimed' = claimed \cup {o}
             \/ claimed' = claimed /\ o.from \notin Intermediaries /\ now > o.timeout
      PROVE  Ending(t)
  <2>1. m \notin locked /\ ~IsHtlc(m)
    BY <1>2, <1>5 DEF IsHtlc
  <2>2. \A q \in locked : q \in utxo => q = o \/ q \in utxo'
    BY <1>5
  <2>3. claimed' \subseteq locked' /\ claimed' \cap utxo' = {}
    BY <1>2, <1>5, <2>1
  <2>4. \A q \in utxo' : IsHtlc(q) => q \in locked'
    BY <1>2, <1>5, <2>1
  <2>5. \A q \in locked' : HtlcOK(q) /\ (q \in utxo' \cup claimed' \/ (q.from \notin Intermediaries /\ now > q.timeout))
    BY <1>2, <1>5, <2>1, <2>2
  <2>6. utxo' \subseteq utxo \cup t.makes /\ locked' \subseteq locked \cup t.makes /\ locked \subseteq locked' /\ claimed \subseteq claimed'
    BY <1>5
  <2> QED BY <2>3, <2>4, <2>5, <2>6 DEF Ending
<1>6. CASE Valid(t)
  <2> USE Accepted
  <2> QED BY <1>4, <1>5, <1>6
<1> QED BY <1>3, <1>6

\* The heads keep their invariants when they decide a transaction.
LEMMA DecideKeeps ==
    ASSUME HeadsInv, LockedInv, NEW t \in pool, Answer(t)
    PROVE  HeadsInv' /\ LockedInv' /\ Calm
<1>1. pool' = pool \ {t} /\ UNCHANGED <<snapshot, sent, now>>
  BY DEF Answer, Decide
<1>2. Ending(t)
  BY Decided
<1>3. /\ sent \in Nat /\ now \in Nat /\ t.id \in 1..sent
      /\ \A o \in utxo \cup snapshot \cup locked : o.tx # t.id
      /\ \A u \in pool : u.id = t.id => u = t
  BY Sizes DEF HeadsInv, TxOK
<1>4. \A o \in t.makes : o.tx = t.id /\ (\A q \in t.makes : q = o) /\ (o.kind = "coin" \/ HtlcOK(o))
  BY DEF HeadsInv, TxOK, IsLock, IsSpend
<1>5. LockedInv'
  <2>1. ASSUME NEW o \in locked' PROVE HtlcOK(o) /\ o.tx \in 1..sent
    BY <1>2, <1>3, <1>4 DEF Ending, LockedInv
  <2>2. ASSUME NEW o \in locked', NEW q \in locked', o.tx = q.tx PROVE o = q
    BY <1>2, <1>3, <1>4, <2>2 DEF Ending, LockedInv
  <2> QED BY <1>1, <1>2, <2>1, <2>2 DEF Ending, LockedInv
<1>6. HeadsInv'
  <2>1. ASSUME NEW u \in pool' PROVE TxOK(u)'
    BY <1>1, <1>2 DEF Ending, HeadsInv, TxOK, IsSpend
  <2>2. ASSUME NEW o \in utxo' \cup snapshot' PROVE OutputOK(o)'
    <3>1. OutputOK(o)
      BY <1>1, <1>2, <1>3, <1>4 DEF Ending, HeadsInv, OutputOK
    <3> QED BY <1>1, <3>1 DEF OutputOK
  <2>3. ASSUME NEW o \in utxo' \cup snapshot' \cup locked', NEW u \in pool' PROVE o.tx # u.id
    BY <1>1, <1>2, <1>3, <1>4 DEF Ending, HeadsInv
  <2>4. \A u, v \in pool' : u.id = v.id => u = v
    BY <1>1 DEF HeadsInv
  <2>5. \A o \in utxo' \cup snapshot' : IsHtlc(o) => o \in locked'
    BY <1>1, <1>2 DEF Ending, HeadsInv
  <2> QED BY <1>1, <2>1, <2>2, <2>3, <2>4, <2>5 DEF HeadsInv
<1>7. ASSUME NEW id \in 1..sent PROVE Made(id)' \subseteq Made(id)
  <2> SUFFICES ASSUME NEW o \in Made(id)' PROVE o \in Made(id)
    OBVIOUS
  <2>1. CASE o \in t.makes
    BY <1>1, <1>2, <1>3, <1>4, <2>1 DEF Ending, Made
  <2>2. CASE o \notin t.makes
    BY <1>1, <1>2, <2>2 DEF Ending, Made
  <2> QED BY <2>1, <2>2
<1>8. \A o \in locked : o \in snapshot \/ o \notin utxo => o \in snapshot' \/ o \notin utxo'
  BY <1>1, <1>2, <1>3, <1>4 DEF Ending
<1> QED BY <1>1, <1>2, <1>3, <1>5, <1>6, <1>7, <1>8 DEF Ending, Calm

LEMMA ConfirmKeeps ==
    ASSUME HeadsInv, LockedInv, NEW head, Confirm(head), UNCHANGED historyVars
    PROVE  HeadsInv' /\ LockedInv' /\ Calm
<1>1. /\ UNCHANGED <<utxo, pool, sent, now, locked, claimed>> /\ sent \in Nat
      /\ snapshot' \subseteq snapshot \cup utxo
      /\ \A o \in utxo \cap snapshot : o \in snapshot'
  BY DEF Confirm, historyVars, HeadsInv
<1>2. LockedInv'
  BY <1>1 DEF LockedInv
<1>3. HeadsInv'
  <2>1. ASSUME NEW u \in pool PROVE TxOK(u)'
    BY <1>1 DEF HeadsInv, TxOK, IsSpend
  <2>2. ASSUME NEW o \in utxo \cup snapshot PROVE OutputOK(o)'
    BY <1>1 DEF HeadsInv, OutputOK
  <2> QED BY <1>1, <2>1, <2>2 DEF HeadsInv
<1>4. ASSUME NEW id PROVE Made(id)' \subseteq Made(id)
  BY <1>1 DEF Made
<1> QED BY <1>1, <1>2, <1>3, <1>4 DEF Calm

LEMMA WaitKeeps ==
    ASSUME HeadsInv, LockedInv, Wait
    PROVE  HeadsInv' /\ LockedInv' /\ Calm
<1>1. UNCHANGED <<utxo, snapshot, pool, sent, locked, claimed>> /\ sent \in Nat
  BY DEF Wait, historyVars, HeadsInv
<1>2. now' \in 0..MaxNow /\ now' > now
  BY Sizes DEF Wait
<1>3. LockedInv'
  <2>1. ASSUME NEW o \in locked, now > o.timeout PROVE now' > o.timeout
    BY <1>2, <2>1, Sizes DEF HeadsInv, LockedInv, HtlcOK
  <2> QED BY <1>1, <2>1 DEF LockedInv
<1>4. HeadsInv'
  <2>1. ASSUME NEW u \in pool PROVE TxOK(u)'
    BY <1>1 DEF HeadsInv, TxOK, IsSpend
  <2>2. ASSUME NEW o \in utxo \cup snapshot PROVE OutputOK(o)'
    BY <1>1 DEF HeadsInv, OutputOK
  <2> QED BY <1>1, <1>2, <2>1, <2>2 DEF HeadsInv
<1>5. ASSUME NEW id PROVE Made(id)' \subseteq Made(id)
  BY <1>1 DEF Made
<1> QED BY <1>1, <1>3, <1>4, <1>5 DEF Calm

LEMMA StillKeeps ==
    ASSUME HeadsInv, LockedInv, UNCHANGED <<headVars, historyVars>>
    PROVE  HeadsInv' /\ LockedInv' /\ Calm
<1>1. UNCHANGED <<utxo, snapshot, pool, sent, now, locked, claimed>> /\ sent \in Nat
  BY DEF headVars, historyVars, HeadsInv
<1>2. LockedInv'
  BY <1>1 DEF LockedInv
<1>3. HeadsInv'
  <2>1. ASSUME NEW u \in pool PROVE TxOK(u)'
    BY <1>1 DEF HeadsInv, TxOK, IsSpend
  <2>2. ASSUME NEW o \in utxo \cup snapshot PROVE OutputOK(o)'
    BY <1>1 DEF HeadsInv, OutputOK
  <2> QED BY <1>1, <2>1, <2>2 DEF HeadsInv
<1>4. ASSUME NEW id PROVE Made(id)' \subseteq Made(id)
  BY <1>1 DEF Made
<1> QED BY <1>1, <1>2, <1>3, <1>4 DEF Calm

-----------------------------------------------------------------------------
(* Counting *)

LEMMA OfTransactions ==
    ASSUME NEW n \in Nat, NEW S, \A o \in S : o.tx \in 1..n, \A o, q \in S : o.tx = q.tx => o = q
    PROVE  IsFiniteSet(S)
<1> DEFINE f == [o \in S |-> o.tx]
<1>1. f \in Injection(S, 1..n)
  BY DEF Injection, IsInjective
<1> QED BY <1>1, FS_Interval, FS_Injection

LEMMA LockedFinite == (HeadsInv /\ LockedInv => IsFiniteSet(locked)) /\ (HeadsInv' /\ LockedInv' => IsFiniteSet(locked'))
<1>1. HeadsInv /\ LockedInv => IsFiniteSet(locked)
  BY OfTransactions DEF HeadsInv, LockedInv
<1>2. HeadsInv' /\ LockedInv' => IsFiniteSet(locked')
  BY OfTransactions DEF HeadsInv, LockedInv
<1> QED BY <1>1, <1>2

LEMMA PoolFinite ==
    ASSUME HeadsInv
    PROVE  IsFiniteSet(pool) /\ IsFiniteSet(1..sent) /\ sent \in Nat
<1>1. IsFiniteSet(1..sent)
  BY FS_Interval DEF HeadsInv
<1> DEFINE f == [t \in pool |-> t.id]
<1>2. f \in Injection(pool, 1..sent)
  BY DEF Injection, IsInjective, HeadsInv, TxOK
<1> QED BY <1>1, <1>2, FS_Injection DEF HeadsInv

LEMMA Smaller ==
    ASSUME NEW T, IsFiniteSet(T), NEW S, S \subseteq T
    PROVE  IsFiniteSet(S) /\ Cardinality(S) <= Cardinality(T) /\ Cardinality(S) \in Nat /\ Cardinality(T) \in Nat
BY FS_Subset, FS_CardinalityType

LEMMA OneMore ==
    ASSUME NEW T, IsFiniteSet(T), NEW S, NEW x \in T, x \notin S, S \subseteq T
    PROVE  Cardinality(S) + 1 <= Cardinality(T)
<1>1. IsFiniteSet(S)
  BY FS_Subset
<1>2. IsFiniteSet(S \cup {x}) /\ Cardinality(S \cup {x}) = Cardinality(S) + 1
  BY <1>1, FS_AddElement
<1>3. Cardinality(S \cup {x}) <= Cardinality(T)
  BY FS_Subset
<1> QED BY <1>2, <1>3

LEMMA Together ==
    ASSUME NEW S, IsFiniteSet(S), NEW N, IsFiniteSet(N), NEW T, T \subseteq S \cup N
    PROVE  Cardinality(T) <= Cardinality(S) + Cardinality(N)
<1>1. /\ IsFiniteSet(S \cup N)
      /\ Cardinality(S \cup N) = Cardinality(S) + Cardinality(N) - Cardinality(S \cap N)
  BY FS_Union
<1>2. Cardinality(S) \in Nat /\ Cardinality(N) \in Nat /\ Cardinality(S \cap N) \in Nat
  BY FS_CardinalityType, FS_Intersection
<1>3. Cardinality(T) <= Cardinality(S \cup N) /\ Cardinality(T) \in Nat
  BY <1>1, Smaller
<1> QED BY <1>1, <1>2, <1>3

\* What a step may do to a loop and leave the counts as they are.
NoNewWait(k, m) == m.pc \in {"sent", "await"} => m.tx > sent \/ (k.pc \in {"sent", "await"} /\ k.tx = m.tx)

NoNewPast(k, m) ==
    /\ NoNewWait(k, m)
    /\ \A i \in DOMAIN m.path : Past(m, i) => k.hash = m.hash /\ k.path = m.path /\ Past(k, i)

KeepsRelays(k, m) ==
    \A i \in DOMAIN k.path :
        /\ i < k.step => i < m.step /\ m.hash = k.hash /\ m.path = k.path
        /\ i = k.step /\ k.pc \notin {"lock", "cover"} =>
              /\ m.hash = k.hash /\ m.path = k.path
              /\ i < m.step \/ (i = m.step /\ m.pc \notin {"lock", "cover"} /\ m.tx = k.tx)

KeepsClaims(k, m) ==
    k.pc \in {"collect", "gone"} =>
        /\ m.pc \in {"collect", "gone"} /\ m.collect \subseteq k.collect
        /\ m.hash = k.hash /\ m.path = k.path /\ m.tx = k.tx

LEMMA AtRestGrows ==
    ASSUME HeadsInv, LockedInv, Calm, \A p \in Payments : NoNewWait(loop[p], loop'[p]), NEW hash, NEW steps
    PROVE  AtRest(hash, steps) \subseteq AtRest(hash, steps)'
<1>1. ASSUME NEW o \in locked, WaitedFor(o)' PROVE WaitedFor(o)
  <2>1. PICK p \in Payments : loop'[p].pc \in {"sent", "await"} /\ loop'[p].tx = o.tx
    BY <1>1 DEF WaitedFor
  <2>2. o.tx \in 1..sent /\ sent \in Nat
    BY DEF LockedInv, HeadsInv
  <2>3. loop[p].pc \in {"sent", "await"} /\ loop[p].tx = o.tx
    BY <2>1, <2>2 DEF NoNewWait
  <2> QED BY <2>3 DEF WaitedFor
<1>2. LockedFor(hash, steps) \subseteq LockedFor(hash, steps)' /\ LockedFor(hash, steps) \subseteq locked
  BY DEF LockedFor, Calm
<1> QED BY <1>1, <1>2 DEF AtRest

LEMMA CompletedKept ==
    ASSUME HeadsInv, LockedInv, HeadsInv', LockedInv', Calm, CompletedInv,
           \A p \in Payments : NoNewPast(loop[p], loop'[p])
    PROVE  CompletedInv'
<1> SUFFICES ASSUME NEW hash \in Hashes, NEW steps \in StepSets
             PROVE  Cardinality(Completed(hash, steps)') <= Cardinality(AtRest(hash, steps)')
  BY DEF CompletedInv
<1>1. Completed(hash, steps)' \subseteq Completed(hash, steps)
  <2> SUFFICES ASSUME NEW p \in Completed(hash, steps)' PROVE p \in Completed(hash, steps)
    OBVIOUS
  <2>1. PICK i \in DOMAIN loop'[p].path : loop'[p].path[i] \in steps /\ Past(loop'[p], i)
    BY DEF Completed
  <2>2. p \in Payments /\ loop'[p].hash = hash
    BY DEF Completed
  <2>3. loop[p].hash = hash /\ loop[p].path = loop'[p].path /\ Past(loop[p], i)
    BY <2>1, <2>2 DEF NoNewPast
  <2> QED BY <2>1, <2>2, <2>3 DEF Completed
<1>2. IsFiniteSet(Completed(hash, steps)) /\ IsFiniteSet(AtRest(hash, steps)')
  <2>1. Completed(hash, steps) \subseteq Payments
    BY DEF Completed
  <2>2. AtRest(hash, steps)' \subseteq locked' /\ IsFiniteSet(locked')
    BY LockedFinite DEF AtRest, LockedFor
  <2> QED BY <2>1, <2>2, Sizes, FS_Subset
<1>3. AtRest(hash, steps) \subseteq AtRest(hash, steps)'
  BY AtRestGrows DEF NoNewPast
<1>4. Cardinality(Completed(hash, steps)) <= Cardinality(AtRest(hash, steps))
  BY DEF CompletedInv
<1>5. /\ Cardinality(Completed(hash, steps)') <= Cardinality(Completed(hash, steps))
      /\ Cardinality(Completed(hash, steps)') \in Nat /\ Cardinality(Completed(hash, steps)) \in Nat
  BY <1>1, <1>2, Smaller
<1>6. /\ Cardinality(AtRest(hash, steps)) <= Cardinality(AtRest(hash, steps)')
      /\ Cardinality(AtRest(hash, steps)) \in Nat /\ Cardinality(AtRest(hash, steps)') \in Nat
  BY <1>2, <1>3, Smaller
<1> QED BY <1>4, <1>5, <1>6

LEMMA RelayingGrows ==
    ASSUME NEW p \in Payments, KeepsRelays(loop[p], loop'[p]),
           NEW hash, NEW x, Relays(hash, x) \subseteq Relays(hash, x)', p \in Relaying(hash, x)
    PROVE  p \in Relaying(hash, x)'
<1>1. loop[p].hash = hash
  BY DEF Relaying
<1>2. PICK i \in DOMAIN loop[p].path :
            /\ loop[p].path[i].from = x
            /\ \/ i < loop[p].step
               \/ i = loop[p].step /\ loop[p].pc \notin {"lock", "cover"} /\ loop[p].tx \in Relays(hash, x)
  BY DEF Relaying
<1>3. CASE i < loop[p].step
  <2>1. i < loop'[p].step /\ loop'[p].hash = hash /\ loop'[p].path = loop[p].path
    BY <1>1, <1>3 DEF KeepsRelays
  <2> QED BY <1>2, <2>1 DEF Relaying
<1>4. CASE i = loop[p].step /\ loop[p].pc \notin {"lock", "cover"} /\ loop[p].tx \in Relays(hash, x)
  <2>1. /\ loop'[p].hash = hash /\ loop'[p].path = loop[p].path
        /\ i < loop'[p].step \/ (i = loop'[p].step /\ loop'[p].pc \notin {"lock", "cover"} /\ loop'[p].tx = loop[p].tx)
    BY <1>1, <1>4 DEF KeepsRelays
  <2>2. loop'[p].tx = loop[p].tx => loop'[p].tx \in Relays(hash, x)'
    BY <1>4
  <2> QED BY <1>2, <2>1, <2>2 DEF Relaying
<1> QED BY <1>2, <1>3, <1>4

LEMMA RelaysKept ==
    ASSUME HeadsInv, HeadsInv', PageInv, PageInv', doubts <= doubts', RelaysInv,
           \A p \in Payments : KeepsRelays(loop[p], loop'[p]),
           \A hash \in Hashes, x \in Intermediaries : Relays(hash, x)' = Relays(hash, x)
    PROVE  RelaysInv'
<1> SUFFICES ASSUME NEW hash \in Hashes, NEW x \in Intermediaries
             PROVE  Cardinality(Relays(hash, x)') <= Cardinality(Relaying(hash, x)') + doubts'
  BY DEF RelaysInv
<1>1. Cardinality(Relays(hash, x)) <= Cardinality(Relaying(hash, x)) + doubts
  BY DEF RelaysInv
<1>2. Relaying(hash, x) \subseteq Relaying(hash, x)'
  <2> SUFFICES ASSUME NEW p \in Relaying(hash, x) PROVE p \in Relaying(hash, x)'
    OBVIOUS
  <2>1. p \in Payments
    BY DEF Relaying
  <2> QED BY <2>1, RelayingGrows
<1>3. Relaying(hash, x)' \subseteq Payments
  BY DEF Relaying
<1>4. IsFiniteSet(Relaying(hash, x)')
  BY <1>3, Sizes, FS_Subset
<1>5. /\ Cardinality(Relaying(hash, x)) <= Cardinality(Relaying(hash, x)')
      /\ Cardinality(Relaying(hash, x)) \in Nat /\ Cardinality(Relaying(hash, x)') \in Nat
  BY <1>2, <1>4, Smaller
<1>6. Cardinality(Relays(hash, x)) \in Nat
  <2>1. Relays(hash, x) \subseteq 1..sent
    BY DEF Relays
  <2> QED BY <2>1, PoolFinite, FS_Subset, FS_CardinalityType
<1>7. doubts \in Nat /\ doubts' \in Nat
  BY DEF PageInv
<1> QED BY <1>1, <1>5, <1>6, <1>7

LEMMA CollectingGrows ==
    ASSUME \A p \in Payments : KeepsClaims(loop[p], loop'[p]), claimed \subseteq claimed', NEW hash, NEW x
    PROVE  Collecting(hash, x) \subseteq Collecting(hash, x)' /\ IsFiniteSet(Collecting(hash, x)')
<1>1. ASSUME NEW p \in Collecting(hash, x) PROVE p \in Collecting(hash, x)'
  <2>1. p \in Payments /\ loop[p].hash = hash /\ loop[p].pc \in {"collect", "gone"}
    BY DEF Collecting
  <2>2. PICK i \in DOMAIN loop[p].path : loop[p].path[i].to = x /\ i \notin loop[p].collect
    BY DEF Collecting
  <2>3. PICK o \in claimed : o.tx = loop[p].tx /\ o.hash = hash /\ o.to \notin Intermediaries
    BY DEF Collecting
  <2>4. /\ loop'[p].pc \in {"collect", "gone"} /\ loop'[p].collect \subseteq loop[p].collect
        /\ loop'[p].hash = hash /\ loop'[p].path = loop[p].path /\ loop'[p].tx = loop[p].tx
    BY <2>1 DEF KeepsClaims
  <2>5. o \in claimed' /\ o.tx = loop'[p].tx /\ i \in DOMAIN loop'[p].path /\ i \notin loop'[p].collect /\ loop'[p].path[i].to = x
    BY <2>2, <2>3, <2>4
  <2> QED BY <2>1, <2>3, <2>4, <2>5 DEF Collecting
<1>2. Collecting(hash, x)' \subseteq Payments
  BY DEF Collecting
<1> QED BY <1>1, <1>2, Sizes, FS_Subset

LEMMA ClaimCounts ==
    ASSUME HeadsInv, LockedInv, NEW hash, NEW x
    PROVE  /\ IsFiniteSet(To(Of(claimed, hash), x)) /\ IsFiniteSet(Claiming(hash, x)) /\ IsFiniteSet(Collecting(hash, x))
           /\ Cardinality(To(Of(claimed, hash), x)) \in Nat /\ Cardinality(Claiming(hash, x)) \in Nat
           /\ Cardinality(Collecting(hash, x)) \in Nat
<1>1. To(Of(claimed, hash), x) \subseteq locked /\ Claiming(hash, x) \subseteq pool /\ Collecting(hash, x) \subseteq Payments
  BY DEF To, Of, Claiming, Collecting, LockedInv
<1>2. IsFiniteSet(locked) /\ IsFiniteSet(pool) /\ IsFiniteSet(Payments)
  BY LockedFinite, PoolFinite, Sizes
<1> QED BY <1>1, <1>2, FS_Subset, FS_CardinalityType

LEMMA ClaimsHold ==
    ASSUME HeadsInv, LockedInv, ClaimsInv, claimed \subseteq claimed',
           \A p \in Payments : KeepsClaims(loop[p], loop'[p]),
           NEW hash \in Hashes, NEW x \in Intermediaries, Claiming(hash, x)' \subseteq Claiming(hash, x),
           \A o \in claimed' \ claimed : ~(o.hash = hash /\ o.to = x)
    PROVE  Cardinality(To(Of(claimed, hash), x)') + Cardinality(Claiming(hash, x)') <= Cardinality(Collecting(hash, x)')
<1>1. Cardinality(To(Of(claimed, hash), x)) + Cardinality(Claiming(hash, x)) <= Cardinality(Collecting(hash, x))
  BY DEF ClaimsInv
<1>2. To(Of(claimed, hash), x)' = To(Of(claimed, hash), x)
  BY DEF To, Of
<1>3. /\ Cardinality(Claiming(hash, x)') <= Cardinality(Claiming(hash, x)) /\ Cardinality(Claiming(hash, x)') \in Nat
      /\ Cardinality(Claiming(hash, x)) \in Nat /\ Cardinality(To(Of(claimed, hash), x)) \in Nat
  BY ClaimCounts, Smaller
<1>4. Collecting(hash, x) \subseteq Collecting(hash, x)' /\ IsFiniteSet(Collecting(hash, x)')
  BY CollectingGrows
<1>5. /\ Cardinality(Collecting(hash, x)) <= Cardinality(Collecting(hash, x)')
      /\ Cardinality(Collecting(hash, x)) \in Nat /\ Cardinality(Collecting(hash, x)') \in Nat
  BY <1>4, Smaller
<1> QED BY <1>1, <1>2, <1>3, <1>5

LEMMA ClaimsKept ==
    ASSUME HeadsInv, LockedInv, ClaimsInv, claimed' = claimed,
           \A p \in Payments : KeepsClaims(loop[p], loop'[p]),
           NEW hash \in Hashes, NEW x \in Intermediaries, Claiming(hash, x)' \subseteq Claiming(hash, x)
    PROVE  Cardinality(To(Of(claimed, hash), x)') + Cardinality(Claiming(hash, x)') <= Cardinality(Collecting(hash, x)')
BY ClaimsHold

-----------------------------------------------------------------------------
(* Loops *)

\* A loop that stands still while the heads move.
LEMMA LoopStays ==
    ASSUME HeadsInv, Calm, NEW k, LoopTyped(k), LoopMade(k), LoopPaid(k)
    PROVE  LoopTyped(k)' /\ LoopMade(k)' /\ LoopPaid(k)'
<1>1. sent \in Nat /\ sent' \in Nat /\ sent <= sent' /\ k.tx \in 0..sent
  BY DEF HeadsInv, Calm, LoopTyped
<1>2. LoopTyped(k)'
  BY <1>1 DEF LoopTyped
<1>3. LoopMade(k)'
  <2>1. k.tx # 0 => Made(k.tx)' \subseteq Made(k.tx)
    BY <1>1 DEF Calm
  <2> QED BY <2>1 DEF LoopMade
<1>4. LoopPaid(k)'
  BY DEF LoopPaid, Calm
<1> QED BY <1>2, <1>3, <1>4

LEMMA StillLoop ==
    ASSUME NEW k, LoopTyped(k)
    PROVE  NoNewPast(k, k) /\ KeepsRelays(k, k) /\ KeepsClaims(k, k)
BY DEF NoNewPast, NoNewWait, KeepsRelays, KeepsClaims

\* The steps of a loop that change where it is, and how often it tried, and no more.
Turns(k, m) ==
    /\ m \in LoopState /\ m.path = k.path /\ m.hash = k.hash /\ m.preimage = k.preimage
    /\ m.step = k.step /\ m.tx = k.tx /\ m.collect = k.collect
    /\ \/ k.pc \in {"lock", "sent", "await", "settle", "cover"} /\ m.pc \in {"lock", "failed"}
       \/ k.pc = "sent" /\ m.pc = "await"
       \/ k.pc = "await" /\ m.pc = "settle" /\ k.step < Len(k.path)
       \/ k.pc = "await" /\ m.pc = "done" /\ k.step = Len(k.path)
       \/ k.pc = "watch" /\ m.pc = "done"

LEMMA LoopTurns ==
    ASSUME HeadsInv, Calm, NEW k, LoopTyped(k), LoopMade(k), LoopPaid(k), NEW m, Turns(k, m)
    PROVE  /\ LoopTyped(m)' /\ LoopMade(m)' /\ LoopPaid(m)'
           /\ KeepsClaims(k, m)
           /\ m.pc # "lock" \/ k.pc \in {"lock", "cover"} => KeepsRelays(k, m)
           /\ k.pc # "await" \/ m.pc \in {"lock", "failed"} => NoNewPast(k, m)
<1>1. LoopTyped(k)' /\ LoopMade(k)' /\ LoopPaid(k)'
  BY LoopStays
<1>2. LoopTyped(m)'
  BY <1>1 DEF LoopTyped, Turns
<1>3. Owned(m) => Owned(k)
  BY DEF Owned, Turns
<1>4. LoopMade(m)'
  BY <1>1, <1>3 DEF LoopMade, Turns
<1>5. LoopPaid(m)'
  BY DEF LoopPaid, Turns
<1>6. KeepsClaims(k, m)
  BY DEF KeepsClaims, Turns
<1>7. m.pc # "lock" \/ k.pc \in {"lock", "cover"} => KeepsRelays(k, m)
  BY DEF KeepsRelays, Turns
<1>8. k.pc # "await" \/ m.pc \in {"lock", "failed"} => NoNewPast(k, m)
  BY DEF NoNewPast, NoNewWait, Turns, Past
<1> QED BY <1>2, <1>4, <1>5, <1>6, <1>7, <1>8

LEMMA Retry ==
    ASSUME NEW k, LoopTyped(k), k.pc \in {"lock", "sent", "await"}
    PROVE  Turns(k, Retried(k))
<1>1. k \in LoopState /\ k.retry \in 0..MAX_RETRIES /\ MAX_RETRIES \in Nat
  BY Sizes DEF LoopTyped, LoopState
<1>2. CASE k.retry < MAX_RETRIES
  <2>1. PICK m : m = [k EXCEPT !.pc = "lock", !.retry = @ + 1]
    OBVIOUS
  <2>4. k.retry + 1 \in 0..MAX_RETRIES
    BY <1>1, <1>2
  <2>5. PICK r : r = k.retry + 1
    OBVIOUS
  <2>2. m \in LoopState /\ m.pc = "lock"
    BY <1>1, <2>1, <2>4, <2>5 DEF LoopState, Pcs
  <2>3. Turns(k, m)
    BY <1>1, <2>1, <2>2 DEF Turns, LoopState
  <2> QED BY <1>2, <2>1, <2>3 DEF Retried
<1>3. CASE ~(k.retry < MAX_RETRIES)
  <2>1. PICK m : m = [k EXCEPT !.pc = "failed"]
    OBVIOUS
  <2>2. m \in LoopState /\ m.pc = "failed"
    BY <1>1, <2>1 DEF LoopState, Pcs
  <2>3. Turns(k, m)
    BY <1>1, <2>1, <2>2 DEF Turns, LoopState
  <2> QED BY <1>3, <2>1, <2>3 DEF Retried
<1> QED BY <1>2, <1>3

LEMMA Goes ==
    ASSUME NEW k, LoopTyped(k), NEW pc,
           \/ k.pc \in {"settle", "cover"} /\ pc = "failed"
           \/ k.pc = "cover" /\ pc = "lock"
           \/ k.pc = "sent" /\ pc = "await"
           \/ k.pc = "await" /\ pc = "settle" /\ k.step < Len(k.path)
           \/ k.pc = "await" /\ pc = "done" /\ k.step = Len(k.path)
           \/ k.pc = "watch" /\ pc = "done"
    PROVE  Turns(k, [k EXCEPT !.pc = pc])
<1>1. PICK m : m = [k EXCEPT !.pc = pc]
  OBVIOUS
<1>2. k \in LoopState /\ m \in LoopState /\ m.pc = pc
  BY <1>1 DEF LoopTyped, LoopState, Pcs
<1>3. Turns(k, m)
  BY <1>1, <1>2 DEF Turns, LoopState
<1> QED BY <1>1, <1>3

\* A step of one loop, and of several.
LEMMA LoopsMove ==
    ASSUME HeadsInv, LoopsInv, Calm, DOMAIN loop' = Payments,
           \A p \in Payments : loop'[p] = loop[p] \/ (LoopTyped(loop[p])' /\ LoopMade(loop[p])' /\ LoopPaid(loop[p])'),
           \/ \A p \in Payments : loop'[p].tx = loop[p].tx
           \/ \E p \in Payments : loop'[p].tx > sent /\ \A q \in Payments : q # p => loop'[q].tx = loop[q].tx
    PROVE  LoopsInv'
<1>1. ASSUME NEW p \in Payments PROVE LoopTyped(loop[p])' /\ LoopMade(loop[p])' /\ LoopPaid(loop[p])'
  <2>1. CASE loop'[p] = loop[p]
    <3>1. PICK k : k = loop[p]
      OBVIOUS
    <3>2. LoopTyped(k) /\ LoopMade(k) /\ LoopPaid(k)
      BY <3>1 DEF LoopsInv
    <3>3. LoopTyped(k)' /\ LoopMade(k)' /\ LoopPaid(k)'
      BY <3>2, LoopStays
    <3>4. loop'[p] = k
      BY <2>1, <3>1
    <3>5. LoopTyped(loop[p])'
      BY <3>3, <3>4 DEF LoopTyped
    <3>6. LoopMade(loop[p])'
      BY <3>3, <3>4 DEF LoopMade
    <3>7. LoopPaid(loop[p])'
      BY <3>3, <3>4 DEF LoopPaid
    <3> QED BY <3>5, <3>6, <3>7
  <2> QED BY <2>1
<1>2. ASSUME NEW p \in Payments PROVE loop[p].tx \in 0..sent
  BY DEF LoopsInv, LoopTyped
<1>3. ASSUME NEW p \in Payments, NEW q \in Payments, loop'[p].tx = loop'[q].tx, loop'[p].tx # 0 PROVE p = q
  <2>1. CASE \A r \in Payments : loop'[r].tx = loop[r].tx
    BY <1>3, <2>1 DEF LoopsInv
  <2>2. CASE \E r \in Payments : loop'[r].tx > sent /\ \A s \in Payments : s # r => loop'[s].tx = loop[s].tx
    <3>1. PICK r \in Payments : loop'[r].tx > sent /\ \A s \in Payments : s # r => loop'[s].tx = loop[s].tx
      BY <2>2
    <3>2. \A s \in Payments : s # r => ~(loop'[s].tx > sent)
      BY <1>2, <3>1 DEF HeadsInv
    <3>3. CASE p = r \/ q = r
      BY <1>3, <3>1, <3>2, <3>3
    <3>4. CASE p # r /\ q # r
      BY <1>3, <3>1, <3>4 DEF LoopsInv
    <3> QED BY <3>3, <3>4
  <2> QED BY <2>1, <2>2
<1> QED BY <1>1, <1>3 DEF LoopsInv

-----------------------------------------------------------------------------
(* Steps that leave the counts as they are *)

LEMMA RelaysSame ==
    ASSUME HeadsInv, LockedInv, sent' \in Nat, sent <= sent', locked' = locked, pool \subseteq pool',
           \A u \in pool' : u \in pool \/ \A o \in u.makes : ~IsHtlc(o), NEW hash, NEW x
    PROVE  Relays(hash, x)' = Relays(hash, x)
<1>1. sent \in Nat /\ \A id \in 1..sent : id \in 1..sent'
  BY DEF HeadsInv
<1>2. Relays(hash, x) \subseteq Relays(hash, x)'
  BY <1>1 DEF Relays
<1>3. Relays(hash, x)' \subseteq Relays(hash, x)
  <2> SUFFICES ASSUME NEW id \in Relays(hash, x)' PROVE id \in Relays(hash, x)
    OBVIOUS
  <2>1. CASE \E o \in locked : o.tx = id /\ o.hash = hash /\ o.from = x
    <3>1. id \in 1..sent
      BY <2>1 DEF LockedInv
    <3> QED BY <2>1, <3>1 DEF Relays
  <2>2. CASE \E t \in pool : t.id = id /\ \E o \in t.makes : IsHtlc(o) /\ o.hash = hash /\ o.from = x
    <3>1. id \in 1..sent
      BY <2>2 DEF HeadsInv, TxOK
    <3> QED BY <2>2, <3>1 DEF Relays
  <2> QED BY <2>1, <2>2 DEF Relays
<1> QED BY <1>2, <1>3

LEMMA Ordinary ==
    ASSUME IInv, HeadsInv', LockedInv', Calm, LoopsInv', PageInv', doubts' = doubts, claimed' = claimed,
           \A p \in Payments : NoNewPast(loop[p], loop'[p]) /\ KeepsRelays(loop[p], loop'[p]) /\ KeepsClaims(loop[p], loop'[p]),
           \A hash \in Hashes, x \in Intermediaries :
               Relays(hash, x)' = Relays(hash, x) /\ Claiming(hash, x)' \subseteq Claiming(hash, x)
    PROVE  IInv'
<1>1. HeadsInv /\ LockedInv /\ PageInv /\ CompletedInv /\ RelaysInv /\ ClaimsInv
  BY DEF IInv
<1>2. doubts <= doubts'
  BY DEF IInv, PageInv
<1>3. CompletedInv'
  BY <1>1, CompletedKept
<1>4. RelaysInv'
  BY <1>1, <1>2, RelaysKept
<1>5. ClaimsInv'
  BY <1>1, ClaimsKept DEF ClaimsInv
<1> QED BY <1>3, <1>4, <1>5 DEF IInv

LEMMA OrdinaryStill ==
    ASSUME IInv, HeadsInv', LockedInv', Calm, LoopsInv', PageInv', UNCHANGED <<pool, sent, locked, claimed, doubts>>,
           \A p \in Payments : NoNewPast(loop[p], loop'[p]) /\ KeepsRelays(loop[p], loop'[p]) /\ KeepsClaims(loop[p], loop'[p])
    PROVE  IInv'
<1>1. sent' \in Nat /\ sent <= sent'
  BY DEF IInv, HeadsInv
<1>2. \A hash \in Hashes, x \in Intermediaries : Relays(hash, x)' = Relays(hash, x)
  BY <1>1, RelaysSame DEF IInv
<1>3. \A hash \in Hashes, x \in Intermediaries : Claiming(hash, x)' \subseteq Claiming(hash, x)
  BY DEF Claiming
<1> QED BY <1>2, <1>3, Ordinary

\* The heads or the page move, and the loops do not.
LEMMA LoopsStill ==
    ASSUME HeadsInv, LoopsInv, Calm, UNCHANGED loop
    PROVE  /\ LoopsInv'
           /\ \A p \in Payments : NoNewPast(loop[p], loop'[p]) /\ KeepsRelays(loop[p], loop'[p]) /\ KeepsClaims(loop[p], loop'[p])
<1>1. DOMAIN loop' = Payments /\ (\A p \in Payments : loop'[p] = loop[p]) /\ \A p \in Payments : LoopTyped(loop[p])
  BY DEF LoopsInv
<1>2. LoopsInv'
  BY <1>1, LoopsMove
<1>3. ASSUME NEW p \in Payments
      PROVE  NoNewPast(loop[p], loop'[p]) /\ KeepsRelays(loop[p], loop'[p]) /\ KeepsClaims(loop[p], loop'[p])
  <2>1. loop'[p] = loop[p]
    BY <1>1
  <2> QED BY <1>1, <2>1, StillLoop DEF NoNewPast, NoNewWait, KeepsRelays, KeepsClaims
<1> QED BY <1>2, <1>3

\* One loop moves, and the heads may.
LEMMA OneLoop ==
    ASSUME HeadsInv, LoopsInv, Calm, NEW p \in Payments, NEW m, loop' = [loop EXCEPT ![p] = m],
           LoopTyped(m)', LoopMade(m)', LoopPaid(m)', m.tx = loop[p].tx \/ m.tx > sent
    PROVE  /\ LoopsInv' /\ loop'[p] = m /\ \A q \in Payments \ {p} : loop'[q] = loop[q]
           /\ \A q \in Payments \ {p} : NoNewPast(loop[q], loop'[q]) /\ KeepsRelays(loop[q], loop'[q]) /\ KeepsClaims(loop[q], loop'[q])
<1>1. DOMAIN loop' = Payments /\ loop'[p] = m /\ \A q \in Payments \ {p} : loop'[q] = loop[q]
  BY DEF LoopsInv
<1>2. LoopTyped(loop[p])' /\ LoopMade(loop[p])' /\ LoopPaid(loop[p])'
  <2>1. LoopTyped(loop[p])'
    BY <1>1 DEF LoopTyped
  <2>2. LoopMade(loop[p])'
    BY <1>1 DEF LoopMade
  <2>3. LoopPaid(loop[p])'
    BY <1>1 DEF LoopPaid
  <2> QED BY <2>1, <2>2, <2>3
<1>3. \/ \A q \in Payments : loop'[q].tx = loop[q].tx
      \/ \E r \in Payments : loop'[r].tx > sent /\ \A q \in Payments : q # r => loop'[q].tx = loop[q].tx
  BY <1>1
<1>4. LoopsInv'
  <2>1. \A q \in Payments : loop'[q] = loop[q] \/ (LoopTyped(loop[q])' /\ LoopMade(loop[q])' /\ LoopPaid(loop[q])')
    BY <1>1, <1>2
  <2> QED BY <1>1, <1>3, <2>1, LoopsMove
<1>5. ASSUME NEW q \in Payments \ {p}
      PROVE  NoNewPast(loop[q], loop'[q]) /\ KeepsRelays(loop[q], loop'[q]) /\ KeepsClaims(loop[q], loop'[q])
  <2>1. loop'[q] = loop[q] /\ LoopTyped(loop[q])
    BY <1>1 DEF LoopsInv
  <2> QED BY <2>1, StillLoop DEF NoNewPast, NoNewWait, KeepsRelays, KeepsClaims
<1> QED BY <1>1, <1>4, <1>5

-----------------------------------------------------------------------------
(* The steps of the page that send nothing *)

LEMMA StillTurn ==
    ASSUME IInv, UNCHANGED <<headVars, historyVars, doubts>>, PageInv',
           NEW p \in Payments, NEW m, loop' = [loop EXCEPT ![p] = m], Turns(loop[p], m),
           loop[p].pc # "await", m.pc # "lock" \/ loop[p].pc \in {"lock", "cover"}
    PROVE  IInv'
<1>1. HeadsInv /\ LockedInv /\ LoopsInv /\ HeadsInv' /\ LockedInv' /\ Calm
  BY StillKeeps DEF IInv
<1>2. PICK k : k = loop[p]
  OBVIOUS
<1>3. LoopTyped(k) /\ LoopMade(k) /\ LoopPaid(k) /\ Turns(k, m)
  BY <1>1, <1>2 DEF LoopsInv
<1>4. /\ LoopTyped(m)' /\ LoopMade(m)' /\ LoopPaid(m)'
      /\ KeepsClaims(k, m) /\ KeepsRelays(k, m) /\ NoNewPast(k, m) /\ m.tx = k.tx
  <2>1. m.tx = k.tx
    BY <1>3 DEF Turns
  <2> QED BY <1>1, <1>2, <1>3, <2>1, LoopTurns
<1>5. /\ LoopsInv' /\ loop'[p] = m
      /\ \A q \in Payments \ {p} : NoNewPast(loop[q], loop'[q]) /\ KeepsRelays(loop[q], loop'[q]) /\ KeepsClaims(loop[q], loop'[q])
  BY <1>1, <1>2, <1>4, OneLoop
<1>6. NoNewPast(loop[p], loop'[p]) /\ KeepsRelays(loop[p], loop'[p]) /\ KeepsClaims(loop[p], loop'[p])
  BY <1>2, <1>4, <1>5 DEF NoNewPast, NoNewWait, KeepsRelays, KeepsClaims
<1>7. UNCHANGED <<pool, sent, locked, claimed, doubts>>
  BY DEF headVars, historyVars
<1> QED BY <1>1, <1>5, <1>6, <1>7, OrdinaryStill

LEMMA PageKept ==
    ASSUME PageInv, pairs' \in [Hashes -> {"none", "fresh", "used"}], doubts' \in Nat, troubles' \in Nat,
           shown' \in {shown, NotBusy, Cleared, [on |-> TRUE, busy |-> TRUE, recorded |-> {}]}
    PROVE  PageInv'
<1>1. shown \in [on : BOOLEAN, busy : BOOLEAN, recorded : SUBSET (1..3)] /\ (shown.busy => shown.on)
  BY DEF PageInv
<1>2. ASSUME NEW s \in {shown, NotBusy, Cleared, [on |-> TRUE, busy |-> TRUE, recorded |-> {}]}
      PROVE  s \in [on : BOOLEAN, busy : BOOLEAN, recorded : SUBSET (1..3)] /\ (s.busy => s.on)
  <2>1. CASE s = NotBusy
    <3>1. s.on = shown.on /\ s.busy = FALSE /\ s \in [on : BOOLEAN, busy : BOOLEAN, recorded : SUBSET (1..3)]
      BY <1>1, <2>1 DEF NotBusy
    <3> QED BY <3>1
  <2>2. CASE s = Cleared
    BY <2>2 DEF Cleared
  <2>3. CASE s = [on |-> TRUE, busy |-> TRUE, recorded |-> {}]
    BY <2>3
  <2> QED BY <1>1, <2>1, <2>2, <2>3
<1>3. shown' \in [on : BOOLEAN, busy : BOOLEAN, recorded : SUBSET (1..3)] /\ (shown'.busy => shown'.on)
  BY <1>2
<1> QED BY <1>3 DEF PageInv

LEMMA LockFailsKeeps == ASSUME IInv, NEW p \in Payments, LockFails(p) PROVE IInv'
<1>1. /\ loop[p].pc = "lock" /\ loop' = [loop EXCEPT ![p] = Retried(loop[p])]
      /\ UNCHANGED <<headVars, historyVars, pairs, troubles, doubts>> /\ shown' \in {shown, NotBusy}
  BY DEF LockFails, At
<1>2. LoopTyped(loop[p])
  BY DEF IInv, LoopsInv
<1>3. PICK k : k = loop[p]
  OBVIOUS
<1>4. Turns(k, Retried(k))
  BY <1>1, <1>2, <1>3, Retry
<1>5. PageInv'
  BY <1>1, PageKept DEF IInv, PageInv
<1> QED BY <1>1, <1>3, <1>4, <1>5, StillTurn

LEMMA GotoKeeps ==
    ASSUME IInv, NEW p \in Payments, NEW pc, Goto(p, pc), UNCHANGED <<headVars, historyVars, pairs, troubles, doubts>>,
           shown' \in {shown, NotBusy},
           \/ loop[p].pc \in {"settle", "cover"} /\ pc = "failed"
           \/ loop[p].pc = "cover" /\ pc = "lock"
           \/ loop[p].pc = "watch" /\ pc = "done"
    PROVE  IInv'
<1>1. PICK k : k = loop[p]
  OBVIOUS
<1>2. PICK m : m = [k EXCEPT !.pc = pc]
  OBVIOUS
<1>3. loop' = [loop EXCEPT ![p] = m]
  BY <1>1, <1>2 DEF Goto
<1>4. LoopTyped(k)
  BY <1>1 DEF IInv, LoopsInv
<1>5. Turns(k, m) /\ m.pc = pc
  BY <1>1, <1>2, <1>4, Goes DEF LoopTyped, LoopState
<1>6. PageInv'
  BY PageKept DEF IInv, PageInv
<1> QED BY <1>1, <1>3, <1>5, <1>6, StillTurn

LEMMA CoveredKeeps == ASSUME IInv, NEW p \in Payments, Covered(p) PROVE IInv'
BY GotoKeeps DEF Covered, At

LEMMA NotConfirmedKeeps == ASSUME IInv, NEW p \in Payments, NotConfirmed(p) PROVE IInv'
BY GotoKeeps DEF NotConfirmed, At, Fail

LEMMA WatchEndsKeeps == ASSUME IInv, NEW p \in Payments, WatchEnds(p) PROVE IInv'
BY GotoKeeps DEF WatchEnds, At

LEMMA GenerateKeeps == ASSUME IInv, NEW h \in Hashes, Generate(h) PROVE IInv'
<1>1. UNCHANGED <<headVars, historyVars, loop, shown, troubles, doubts>> /\ pairs' = [pairs EXCEPT ![h] = "fresh"]
  BY DEF Generate
<1>2. HeadsInv /\ LockedInv /\ LoopsInv /\ HeadsInv' /\ LockedInv' /\ Calm
  BY <1>1, StillKeeps DEF IInv
<1>3. PageInv'
  BY <1>1, PageKept DEF IInv, PageInv
<1>4. UNCHANGED <<pool, sent, locked, claimed, doubts>>
  BY <1>1 DEF headVars, historyVars
<1> QED BY <1>1, <1>2, <1>3, <1>4, LoopsStill, OrdinaryStill

LEMMA ResetPaymentKeeps == ASSUME IInv, ResetPayment PROVE IInv'
<1>1. UNCHANGED <<headVars, historyVars, loop, pairs, doubts>> /\ shown' = Cleared /\ troubles' = troubles + 1
  BY DEF ResetPayment, Trouble
<1>2. HeadsInv /\ LockedInv /\ LoopsInv /\ HeadsInv' /\ LockedInv' /\ Calm
  BY <1>1, StillKeeps DEF IInv
<1>3. PageInv'
  BY <1>1, PageKept DEF IInv, PageInv
<1>4. UNCHANGED <<pool, sent, locked, claimed, doubts>>
  BY <1>1 DEF headVars, historyVars
<1> QED BY <1>1, <1>2, <1>3, <1>4, LoopsStill, OrdinaryStill

LEMMA ConfirmStep ==
    ASSUME IInv, NEW head, Confirm(head), UNCHANGED <<pageVars, troubles, doubts, historyVars>>
    PROVE  IInv'
<1>1. UNCHANGED <<historyVars, loop, shown, pairs, troubles, doubts, pool, sent, locked, claimed>>
  BY DEF Confirm, pageVars, historyVars
<1>2. HeadsInv /\ LockedInv /\ LoopsInv /\ HeadsInv' /\ LockedInv' /\ Calm
  BY <1>1, ConfirmKeeps DEF IInv
<1>3. PageInv'
  BY <1>1, PageKept DEF IInv, PageInv
<1> QED BY <1>1, <1>2, <1>3, LoopsStill, OrdinaryStill

LEMMA WaitStep == ASSUME IInv, Wait PROVE IInv'
<1>1. UNCHANGED <<historyVars, loop, shown, pairs, troubles, doubts, pool, sent, locked, claimed>>
  BY DEF Wait, pageVars, historyVars
<1>2. HeadsInv /\ LockedInv /\ LoopsInv /\ HeadsInv' /\ LockedInv' /\ Calm
  BY <1>1, WaitKeeps DEF IInv
<1>3. PageInv'
  BY <1>1, PageKept DEF IInv, PageInv
<1> QED BY <1>1, <1>2, <1>3, LoopsStill, OrdinaryStill

LEMMA ReloadKeeps == ASSUME IInv, Reload PROVE IInv'
<1>1. UNCHANGED <<headVars, historyVars, doubts>> /\ shown' = Cleared /\ troubles' = troubles + 1
  BY DEF Reload, Trouble
<1>7. loop' = [p \in Payments |-> IF loop[p].pc = "idle" THEN Idle ELSE [loop[p] EXCEPT !.pc = "gone", !.collect = {}]]
  BY DEF Reload, At
<1>2. HeadsInv /\ LockedInv /\ LoopsInv /\ HeadsInv' /\ LockedInv' /\ Calm
  BY <1>1, StillKeeps DEF IInv
<1>3. PageInv'
  <2>1. pairs' \in [Hashes -> {"none", "fresh", "used"}]
    BY DEF Reload
  <2>2. PageInv /\ doubts' \in Nat /\ troubles' \in Nat /\ shown' = Cleared
    BY <1>1 DEF IInv, PageInv
  <2> QED BY <2>1, <2>2, PageKept
<1>4. UNCHANGED <<pool, sent, locked, claimed, doubts>>
  BY <1>1 DEF headVars, historyVars
<1>5. ASSUME NEW p \in Payments
      PROVE  /\ LoopTyped(loop[p])' /\ LoopMade(loop[p])' /\ LoopPaid(loop[p])' /\ loop'[p].tx = loop[p].tx
             /\ NoNewPast(loop[p], loop'[p]) /\ KeepsRelays(loop[p], loop'[p]) /\ KeepsClaims(loop[p], loop'[p])
  <2>1. PICK k : k = loop[p]
    OBVIOUS
  <2>2. PICK m : m = [k EXCEPT !.pc = "gone", !.collect = {}]
    OBVIOUS
  <2>3. LoopTyped(k) /\ LoopMade(k) /\ LoopPaid(k)
    BY <1>2, <2>1 DEF LoopsInv
  <2>4. LoopTyped(k)' /\ LoopMade(k)' /\ LoopPaid(k)' /\ k \in LoopState
    BY <1>2, <2>3, LoopStays DEF LoopTyped
  <2>5. CASE k.pc = "idle"
    <3>1. loop'[p] = Idle
      BY <1>7, <2>1, <2>5
    <3>2. Idle \in LoopState /\ Idle.pc = "idle" /\ Idle.tx = 0 /\ Idle.path = <<>> /\ Idle.hash = "none" /\ Idle.collect = {}
      BY Sizes DEF Idle, LoopState, Pcs
    <3>3. LoopTyped(loop[p])'
      BY <1>2, <3>1, <3>2 DEF LoopTyped, Calm
    <3>4. LoopMade(loop[p])' /\ LoopPaid(loop[p])'
      BY <3>1, <3>2 DEF LoopMade, LoopPaid
    <3>5. loop[p].tx = 0 /\ loop[p].path = <<>> /\ loop[p].pc = "idle"
      BY <2>1, <2>3, <2>5 DEF LoopTyped
    <3>6. DOMAIN <<>> = {}
      OBVIOUS
    <3>7. NoNewPast(loop[p], loop'[p]) /\ KeepsRelays(loop[p], loop'[p]) /\ KeepsClaims(loop[p], loop'[p])
      BY <3>1, <3>2, <3>5, <3>6 DEF NoNewPast, NoNewWait, KeepsRelays, KeepsClaims
    <3> QED BY <3>1, <3>2, <3>3, <3>4, <3>5, <3>7
  <2>6. CASE k.pc # "idle"
    <3>1. loop'[p] = m
      BY <1>7, <2>1, <2>2, <2>6
    <3>2. /\ m \in LoopState /\ m.pc = "gone" /\ m.collect = {} /\ m.tx = k.tx /\ m.path = k.path /\ m.hash = k.hash
          /\ m.step = k.step
      BY <2>2, <2>4 DEF LoopState, Pcs
    <3>3. LoopTyped(m)'
      BY <2>4, <2>6, <3>2 DEF LoopTyped
    <3>4. LoopMade(m)' /\ LoopPaid(m)'
      BY <2>4, <3>2 DEF LoopMade, LoopPaid, Owned
    <3>5. NoNewPast(k, m) /\ KeepsRelays(k, m) /\ KeepsClaims(k, m)
      BY <3>2 DEF NoNewPast, NoNewWait, KeepsRelays, KeepsClaims, Past
    <3>6. LoopTyped(loop[p])' /\ LoopMade(loop[p])' /\ LoopPaid(loop[p])'
      BY <3>1, <3>3, <3>4 DEF LoopTyped, LoopMade, LoopPaid
    <3> QED BY <2>1, <3>1, <3>2, <3>5, <3>6 DEF NoNewPast, NoNewWait, KeepsRelays, KeepsClaims
  <2> QED BY <2>5, <2>6
<1>6. LoopsInv'
  <2>1. DOMAIN loop' = Payments
    BY <1>7
  <2> QED BY <1>2, <1>5, <2>1, LoopsMove
<1> QED BY <1>2, <1>3, <1>4, <1>5, <1>6, OrdinaryStill

LEMMA SubmitKeeps ==
    ASSUME IInv, NEW p \in Payments, NEW path, IsPath(path), NEW h \in Hashes, Submit(p, path, h)
    PROVE  IInv'
<1>1. /\ loop[p].pc = "idle" /\ UNCHANGED <<headVars, historyVars, troubles, doubts>>
      /\ shown' = [on |-> TRUE, busy |-> TRUE, recorded |-> {}]
      /\ pairs' = markAsUsed(h)
      /\ loop' = [loop EXCEPT ![p] = [Idle EXCEPT !.pc = "lock", !.path = path, !.hash = h, !.preimage = pairs[h] # "none"]]
  BY DEF Submit, At
<1>2. HeadsInv /\ LockedInv /\ LoopsInv /\ HeadsInv' /\ LockedInv' /\ Calm
  BY <1>1, StillKeeps DEF IInv
<1>3. PageInv'
  <2>1. pairs' \in [Hashes -> {"none", "fresh", "used"}]
    BY <1>1 DEF markAsUsed, IInv, PageInv
  <2>2. PageInv /\ doubts' \in Nat /\ troubles' \in Nat
    BY <1>1 DEF IInv, PageInv
  <2> QED BY <1>1, <2>1, <2>2, PageKept
<1>4. PICK g \in BOOLEAN : g = (pairs[h] # "none")
  OBVIOUS
<1>5. PICK m : m = [Idle EXCEPT !.pc = "lock", !.path = path, !.hash = h, !.preimage = g]
  OBVIOUS
<1>6. /\ m \in LoopState /\ m.pc = "lock" /\ m.tx = 0 /\ m.path = path /\ m.hash = h /\ m.step = 1 /\ m.collect = {}
  <2>1. path \in Seq(Steps)
    BY DEF IsPath
  <2>2. 0 \in 0..MAX_RETRIES
    BY Sizes
  <2>3. m = [pc |-> "lock", path |-> path, hash |-> h, preimage |-> g, step |-> 1, retry |-> 0, tx |-> 0, collect |-> {}]
    BY <1>5 DEF Idle
  <2>4. m \in LoopState
    BY <2>1, <2>2, <2>3 DEF LoopState, Pcs
  <2> QED BY <2>3, <2>4
<1>7. LoopTyped(m)' /\ LoopMade(m)' /\ LoopPaid(m)'
  <2>1. LoopTyped(m)'
    <3>1. Len(path) \in 2..3 /\ sent' \in Nat
      BY <1>2, PathFacts DEF Calm
    <3>2. m.tx \in 0..sent' /\ m.step <= Len(m.path)
      <4>1. \A n \in 2..3 : 1 <= n
        OBVIOUS
      <4>2. \A n \in Nat : 0 \in 0..n
        OBVIOUS
      <4>3. m.tx \in 0..sent'
        BY <1>6, <3>1, <4>2
      <4>4. m.step <= Len(m.path)
        BY <1>6, <3>1, <4>1
      <4> QED BY <4>3, <4>4
    <3> QED BY <1>6, <3>2 DEF LoopTyped
  <2> QED BY <1>6, <2>1 DEF LoopMade, LoopPaid
<1>8. loop' = [loop EXCEPT ![p] = m]
  BY <1>1, <1>4, <1>5
<1>9. loop[p].tx = 0 /\ loop[p].path = <<>> /\ loop[p].pc = "idle"
  BY <1>1, <1>2 DEF LoopsInv, LoopTyped
<1>10. /\ LoopsInv' /\ loop'[p] = m
       /\ \A q \in Payments \ {p} : NoNewPast(loop[q], loop'[q]) /\ KeepsRelays(loop[q], loop'[q]) /\ KeepsClaims(loop[q], loop'[q])
  BY <1>2, <1>6, <1>7, <1>8, <1>9, OneLoop
<1>11. NoNewPast(loop[p], loop'[p]) /\ KeepsRelays(loop[p], loop'[p]) /\ KeepsClaims(loop[p], loop'[p])
  <2>1. \A i \in DOMAIN path : ~Past(m, i)
    BY <1>6, PathFacts DEF Past
  <2>2. DOMAIN <<>> = {}
    OBVIOUS
  <2>3. NoNewPast(loop[p], m)
    BY <1>6, <2>1 DEF NoNewPast, NoNewWait
  <2> QED BY <1>9, <1>10, <2>2, <2>3 DEF KeepsRelays, KeepsClaims
<1>12. UNCHANGED <<pool, sent, locked, claimed, doubts>>
  BY <1>1 DEF headVars, historyVars
<1> QED BY <1>2, <1>3, <1>10, <1>11, <1>12, OrdinaryStill

LEMMA SettledKeeps == ASSUME IInv, NEW p \in Payments, Settled(p) PROVE IInv'
<1>1. loop[p].pc = "settle" /\ UNCHANGED <<headVars, historyVars, pairs, troubles, doubts>>
  BY DEF Settled, At
<1>2. CASE Fail(p)
  BY <1>1, <1>2, GotoKeeps DEF Fail
<1>3. ASSUME NEW pc \in {"cover", "lock"}, UNCHANGED shown,
             loop' = [loop EXCEPT ![p].pc = pc, ![p].step = @ + 1, ![p].retry = 0]
      PROVE  IInv'
  <2>1. HeadsInv /\ LockedInv /\ LoopsInv /\ HeadsInv' /\ LockedInv' /\ Calm
    BY <1>1, StillKeeps DEF IInv
  <2>2. PageInv'
    BY <1>1, <1>3, PageKept DEF IInv, PageInv
  <2>3. PICK k : k = loop[p]
    OBVIOUS
  <2>4. LoopTyped(k)' /\ LoopMade(k)' /\ LoopPaid(k)' /\ k \in LoopState /\ LoopTyped(k) /\ k.pc = "settle"
    BY <1>1, <2>1, <2>3, LoopStays DEF LoopTyped, LoopsInv
  <2>5. k.step \in 1..3 /\ k.step < Len(k.path) /\ Len(k.path) \in 2..3 /\ k.collect = {}
    BY <2>4, PathFacts DEF LoopTyped, LoopState
  <2>6. PICK n \in 1..3 : n = k.step + 1
    <3>1. \A i \in 1..3, n \in 2..3 : i < n => i + 1 \in 1..3
      OBVIOUS
    <3>2. k.step + 1 \in 1..3
      BY <2>5, <3>1
    <3> QED BY <3>2
  <2>7. PICK m : m = [k EXCEPT !.pc = pc, !.step = n, !.retry = 0]
    OBVIOUS
  <2>8. /\ m \in LoopState /\ m.pc = pc /\ m.step = n /\ m.tx = k.tx /\ m.path = k.path /\ m.hash = k.hash /\ m.collect = {}
    <3>1. 0 \in 0..MAX_RETRIES
      BY Sizes
    <3> QED BY <2>4, <2>5, <2>7, <3>1 DEF LoopState, Pcs
  <2>9. loop' = [loop EXCEPT ![p] = m]
    BY <1>3, <2>3, <2>6, <2>7
  <2>10. LoopTyped(m)'
    BY <2>4, <2>5, <2>6, <2>8 DEF LoopTyped
  <2>11. LoopMade(m)' /\ LoopPaid(m)'
    BY <2>4, <2>8 DEF LoopMade, LoopPaid, Owned
  <2>12. /\ LoopsInv' /\ loop'[p] = m
         /\ \A q \in Payments \ {p} : NoNewPast(loop[q], loop'[q]) /\ KeepsRelays(loop[q], loop'[q]) /\ KeepsClaims(loop[q], loop'[q])
    BY <2>1, <2>3, <2>8, <2>9, <2>10, <2>11, OneLoop
  <2>13. NoNewPast(k, m) /\ KeepsRelays(k, m) /\ KeepsClaims(k, m)
    <3>1. DOMAIN k.path = 1..Len(k.path)
      BY <2>4, PathFacts DEF LoopTyped
    <3>2. NoNewPast(k, m)
      BY <2>4, <2>5, <2>6, <2>8, <3>1 DEF NoNewPast, NoNewWait, Past
    <3>3. KeepsRelays(k, m)
      BY <2>4, <2>5, <2>6, <2>8, <3>1 DEF KeepsRelays
    <3> QED BY <2>4, <3>2, <3>3 DEF KeepsClaims
  <2>14. NoNewPast(loop[p], loop'[p]) /\ KeepsRelays(loop[p], loop'[p]) /\ KeepsClaims(loop[p], loop'[p])
    BY <2>3, <2>12, <2>13 DEF NoNewPast, NoNewWait, KeepsRelays, KeepsClaims
  <2>15. UNCHANGED <<pool, sent, locked, claimed, doubts>>
    BY <1>1 DEF headVars, historyVars
  <2> QED BY <2>1, <2>2, <2>12, <2>14, <2>15, OrdinaryStill
<1>4. CASE ~Fail(p)
  <2>1. PICK pc \in {"cover", "lock"} :
              UNCHANGED shown /\ loop' = [loop EXCEPT ![p].pc = pc, ![p].step = @ + 1, ![p].retry = 0]
    BY <1>4 DEF Settled
  <2> QED BY <1>3, <2>1
<1> QED BY <1>2, <1>4

LEMMA LastStep ==
    ASSUME NEW path, IsPath(path)
    PROVE  /\ Last(path) = path[Len(path)] /\ Len(path) \in DOMAIN path
           /\ Last(path).from \in Intermediaries /\ Last(path).to \notin Intermediaries
           /\ intermediarySteps(path) \subseteq 1..3
<1>1. Len(path) \in 2..3 /\ path \in Seq(Steps) /\ path[Len(path)].to \notin Intermediaries
      /\ \A i \in 1..(Len(path) - 1) : path[i].to \in Intermediaries /\ path[i].to = path[i + 1].from
  BY DEF IsPath
<1>2. PICK n \in 2..3 : n = Len(path)
  BY <1>1
<1>3. n - 1 \in 1..(n - 1) /\ (n - 1) + 1 = n /\ n \in 1..n
  OBVIOUS
<1>4. path[n].from \in Intermediaries
  BY <1>1, <1>2, <1>3
<1>5. Last(path) = path[n] /\ DOMAIN path = 1..n
  BY <1>1, <1>2, PathFacts
<1>6. intermediarySteps(path) \subseteq 1..3
  BY <1>5 DEF intermediarySteps
<1> QED BY <1>1, <1>2, <1>3, <1>4, <1>5, <1>6

\* The last HTLC was seen, or had gone before; if it has gone now, it was claimed, as no
\* one asks for a refund on behalf of the intermediary who locked it.
LEMMA VanishedKeeps == ASSUME IInv, NEW p \in Payments, Vanished(p) PROVE IInv'
<1>1. /\ loop[p].pc = "watch" /\ Matching(Last(loop[p].path), loop[p].hash) = {}
      /\ loop' = [loop EXCEPT ![p].pc = "collect", ![p].collect = intermediarySteps(loop[p].path)]
      /\ UNCHANGED <<headVars, historyVars, shown, pairs, troubles, doubts>>
  BY DEF Vanished, At
<1>2. HeadsInv /\ LockedInv /\ LoopsInv /\ HeadsInv' /\ LockedInv' /\ Calm
  BY <1>1, StillKeeps DEF IInv
<1>3. PageInv'
  BY <1>1, PageKept DEF IInv, PageInv
<1>4. PICK k : k = loop[p]
  OBVIOUS
<1>5. /\ LoopTyped(k) /\ LoopMade(k) /\ LoopPaid(k) /\ LoopTyped(k)' /\ LoopMade(k)' /\ LoopPaid(k)'
      /\ k.pc = "watch" /\ k \in LoopState /\ IsPath(k.path) /\ k.step = Len(k.path) /\ k.preimage
  BY <1>1, <1>2, <1>4, LoopStays DEF LoopTyped, LoopsInv
<1>6. PICK c : c = intermediarySteps(k.path)
  OBVIOUS
<1>7. PICK m : m = [k EXCEPT !.pc = "collect", !.collect = c]
  OBVIOUS
<1>8. /\ m \in LoopState /\ m.pc = "collect" /\ m.step = k.step /\ m.tx = k.tx /\ m.path = k.path /\ m.hash = k.hash
      /\ m.collect = c /\ m.preimage = k.preimage
  <2>1. c \in SUBSET (1..3)
    BY <1>5, <1>6, LastStep
  <2> QED BY <1>5, <1>7, <2>1 DEF LoopState, Pcs
<1>9. loop' = [loop EXCEPT ![p] = m]
  BY <1>1, <1>4, <1>6, <1>7
<1>10. \E o \in claimed : o.tx = k.tx /\ o.hash = k.hash /\ o.to \notin Intermediaries
  <2>1. PICK o \in locked : o.tx = k.tx /\ IsFor(o, Last(k.path), k.hash) /\ (o \in snapshot \/ o \notin utxo)
    BY <1>5 DEF LoopPaid
  <2>2. IsHtlc(o)
    BY <1>2 DEF LockedInv, HtlcOK, IsHtlc
  <2>3. o \notin snapshot
    BY <1>1, <1>4, <2>1, <2>2 DEF Matching, IsFor
  <2>4. o.from \in Intermediaries /\ o.to \notin Intermediaries /\ o.hash = k.hash
    BY <1>5, <2>1, LastStep DEF IsFor
  <2>5. o \in claimed
    BY <1>2, <2>1, <2>3, <2>4 DEF LockedInv
  <2> QED BY <2>1, <2>4, <2>5
<1>11. LoopTyped(m)' /\ LoopMade(m)' /\ LoopPaid(m)'
  <2>1. LoopTyped(m)'
    BY <1>5, <1>6, <1>8 DEF LoopTyped
  <2>2. LoopMade(m)'
    BY <1>5, <1>8 DEF LoopMade, Owned
  <2>3. LoopPaid(m)'
    BY <1>2, <1>8, <1>10 DEF LoopPaid, Calm
  <2> QED BY <2>1, <2>2, <2>3
<1>12. /\ LoopsInv' /\ loop'[p] = m
       /\ \A q \in Payments \ {p} : NoNewPast(loop[q], loop'[q]) /\ KeepsRelays(loop[q], loop'[q]) /\ KeepsClaims(loop[q], loop'[q])
  BY <1>2, <1>4, <1>8, <1>9, <1>11, OneLoop
<1>13. NoNewPast(k, m) /\ KeepsRelays(k, m) /\ KeepsClaims(k, m)
  BY <1>5, <1>8 DEF NoNewPast, NoNewWait, KeepsRelays, KeepsClaims, Past
<1>14. NoNewPast(loop[p], loop'[p]) /\ KeepsRelays(loop[p], loop'[p]) /\ KeepsClaims(loop[p], loop'[p])
  BY <1>4, <1>12, <1>13 DEF NoNewPast, NoNewWait, KeepsRelays, KeepsClaims
<1>15. UNCHANGED <<pool, sent, locked, claimed, doubts>>
  BY <1>1 DEF headVars, historyVars
<1> QED BY <1>2, <1>3, <1>12, <1>14, <1>15, OrdinaryStill

\* The loop gives up its transaction: if that is a lock, it is one more in doubt.
LEMMA AnswerLostKeeps == ASSUME IInv, NEW p \in Payments, AnswerLost(p) PROVE IInv'
<1>1. /\ loop[p].pc \in {"sent", "await"} /\ loop' = [loop EXCEPT ![p] = Retried(loop[p])]
      /\ UNCHANGED <<headVars, historyVars, pairs>> /\ shown' \in {shown, NotBusy}
      /\ troubles' = troubles + 1 /\ doubts' = doubts + 1
  BY DEF AnswerLost, Trouble
<1>2. HeadsInv /\ LockedInv /\ LoopsInv /\ HeadsInv' /\ LockedInv' /\ Calm
  BY <1>1, StillKeeps DEF IInv
<1>3. PageInv' /\ doubts \in Nat
  BY <1>1, PageKept DEF IInv, PageInv
<1>4. PICK k : k = loop[p]
  OBVIOUS
<1>5. LoopTyped(k) /\ LoopMade(k) /\ LoopPaid(k) /\ k.pc \in {"sent", "await"}
  BY <1>1, <1>2, <1>4 DEF LoopsInv
<1>6. PICK m : m = Retried(k)
  OBVIOUS
<1>7. Turns(k, m)
  BY <1>5, <1>6, Retry
<1>8. m.pc \in {"lock", "failed"}
  BY <1>5, <1>6 DEF Retried, LoopTyped, LoopState
<1>9. LoopTyped(m)' /\ LoopMade(m)' /\ LoopPaid(m)' /\ KeepsClaims(k, m) /\ NoNewPast(k, m) /\ m.tx = k.tx
  <2>1. m.tx = k.tx
    BY <1>7 DEF Turns
  <2> QED BY <1>2, <1>5, <1>7, <1>8, <2>1, LoopTurns
<1>10. loop' = [loop EXCEPT ![p] = m]
  BY <1>1, <1>4, <1>6
<1>11. /\ LoopsInv' /\ loop'[p] = m
       /\ \A q \in Payments \ {p} : NoNewPast(loop[q], loop'[q]) /\ KeepsRelays(loop[q], loop'[q]) /\ KeepsClaims(loop[q], loop'[q])
  BY <1>2, <1>4, <1>9, <1>10, OneLoop
<1>12. NoNewPast(loop[p], loop'[p]) /\ KeepsClaims(loop[p], loop'[p])
  BY <1>4, <1>9, <1>11 DEF NoNewPast, NoNewWait, KeepsClaims
<1>13. UNCHANGED <<pool, sent, locked, claimed>> /\ sent \in Nat
  BY <1>1, <1>2 DEF headVars, historyVars, HeadsInv
<1>14. CompletedInv'
  BY <1>2, <1>11, <1>12, CompletedKept DEF IInv
<1>15. ClaimsInv'
  <2>1. \A hash \in Hashes, x \in Intermediaries : Claiming(hash, x)' \subseteq Claiming(hash, x)
    BY <1>13 DEF Claiming
  <2>2. \A q \in Payments : KeepsClaims(loop[q], loop'[q])
    BY <1>11, <1>12
  <2>3. ClaimsInv
    BY DEF IInv
  <2> QED BY <1>2, <1>13, <2>1, <2>2, <2>3, ClaimsKept DEF ClaimsInv
<1>16. RelaysInv'
  <2> SUFFICES ASSUME NEW hash \in Hashes, NEW x \in Intermediaries
               PROVE  Cardinality(Relays(hash, x)') <= Cardinality(Relaying(hash, x)') + doubts'
    BY DEF RelaysInv
  <2>1. Cardinality(Relays(hash, x)) <= Cardinality(Relaying(hash, x)) + doubts
    BY DEF IInv, RelaysInv
  <2>2. Relays(hash, x)' = Relays(hash, x)
    BY <1>2, <1>13, RelaysSame
  <2>3. Relaying(hash, x) \subseteq Relaying(hash, x)' \cup {p}
    <3> SUFFICES ASSUME NEW q \in Relaying(hash, x), q # p PROVE q \in Relaying(hash, x)'
      OBVIOUS
    <3>1. q \in Payments
      BY DEF Relaying
    <3> QED BY <1>11, <2>2, <3>1, RelayingGrows
  <2>4. IsFiniteSet(Relaying(hash, x)') /\ IsFiniteSet({p}) /\ Cardinality({p}) = 1
    <3>1. Relaying(hash, x)' \subseteq Payments
      BY DEF Relaying
    <3> QED BY <3>1, Sizes, FS_Subset, FS_Singleton
  <2>5. Cardinality(Relaying(hash, x)) <= Cardinality(Relaying(hash, x)') + 1
    BY <2>3, <2>4, Together
  <2>6. Cardinality(Relaying(hash, x)') \in Nat /\ Cardinality(Relaying(hash, x)) \in Nat /\ Cardinality(Relays(hash, x)) \in Nat
    <3>1. Relaying(hash, x) \subseteq Payments /\ Relays(hash, x) \subseteq 1..sent
      BY DEF Relaying, Relays
    <3> QED BY <1>2, <2>4, <3>1, Sizes, PoolFinite, FS_Subset, FS_CardinalityType
  <2> QED BY <1>1, <1>3, <2>1, <2>2, <2>5, <2>6
<1> QED BY <1>2, <1>3, <1>11, <1>14, <1>15, <1>16 DEF IInv

-----------------------------------------------------------------------------
(* The steps that send *)

\* A lock is the only one of its loop, for that step.
LEMMA LockKeeps == ASSUME IInv, NEW p \in Payments, Lock(p) PROVE IInv'
<1>1. HeadsInv /\ LockedInv /\ LoopsInv /\ RelaysInv /\ ClaimsInv /\ CompletedInv /\ PageInv
  BY DEF IInv
<1>2. PICK k : k = loop[p]
  OBVIOUS
<1>3. /\ LoopTyped(k) /\ LoopMade(k) /\ LoopPaid(k) /\ k.pc = "lock" /\ k \in LoopState /\ IsPath(k.path) /\ k.hash \in Hashes
      /\ k.step \in 1..Len(k.path) /\ DOMAIN k.path = 1..Len(k.path)
  <2>1. LoopTyped(k) /\ LoopMade(k) /\ LoopPaid(k) /\ k.pc = "lock"
    BY <1>1, <1>2 DEF Lock, At, LoopsInv
  <2>2. k \in LoopState /\ IsPath(k.path) /\ k.hash \in Hashes /\ k.step \in 1..3 /\ k.step <= Len(k.path)
    BY <2>1 DEF LoopTyped, LoopState
  <2>3. Len(k.path) \in 2..3 /\ DOMAIN k.path = 1..Len(k.path)
    BY <2>2, PathFacts
  <2> QED BY <2>1, <2>2, <2>3
<1>4. PICK c \in snapshot : /\ c.kind = "coin"
                            /\ Send(Current(p).head, {c}, {}, {HtlcOutput(loop[p].path, loop[p].step, loop[p].hash)}, 0, Always)
  BY DEF Lock, Wallet
<1>5. /\ loop' = [loop EXCEPT ![p].pc = "sent", ![p].tx = sent'] /\ UNCHANGED <<shown, pairs, troubles, doubts, historyVars>>
  BY DEF Lock
<1>6. PICK head : head = Current(p).head
  OBVIOUS
<1>7. PICK path : path = k.path
  OBVIOUS
<1>8. PICK i \in 1..Len(path) : i = k.step
  BY <1>3, <1>7
<1>9. PICK hash \in Hashes : hash = k.hash
  BY <1>3
<1>10. Send(head, {c}, {}, {HtlcOutput(path, i, hash)}, 0, Always)
  BY <1>2, <1>4, <1>6, <1>7, <1>8, <1>9
<1>29. PICK step : step = path[i]
  OBVIOUS
<1>11. UNCHANGED historyVars /\ IsPath(path)
  BY <1>3, <1>5, <1>7
<1>12. /\ HeadsInv' /\ LockedInv' /\ Calm
       /\ \E t : Sent(t, {c}) /\ LocksFor(t, step, hash)
  <2>1. HeadsInv /\ LockedInv /\ c.kind = "coin"
    BY <1>1, <1>4
  <2>2. PICK spends : spends = {c}
    OBVIOUS
  <2>3. PICK reads : reads = {}
    OBVIOUS
  <2>4. PICK makes : makes = {HtlcOutput(path, i, hash)}
    OBVIOUS
  <2>5. PICK from : from = 0
    OBVIOUS
  <2>6. PICK upto : upto = Always
    OBVIOUS
  <2>7. Send(head, spends, reads, makes, from, upto)
    BY <1>10, <2>2, <2>3, <2>4, <2>5, <2>6
  <2>8. /\ HeadsInv' /\ LockedInv' /\ Calm
        /\ \E t : Sent(t, spends) /\ LocksFor(t, step, hash)
    BY <1>11, <1>29, <2>1, <2>2, <2>4, <2>7, LockSent
  <2> QED BY <2>2, <2>8
<1>13. PICK t : /\ pool' = pool \cup {t} /\ t.id = sent + 1 /\ sent' = sent + 1 /\ t \notin pool
                /\ t.spends = {c} /\ UNCHANGED <<utxo, snapshot, now>>
                /\ LocksFor(t, step, hash)
  BY <1>12 DEF Sent
<1>14. PICK o : t.makes = {o} /\ HtlcOK(o) /\ o.tx = t.id /\ IsFor(o, path[i], hash)
  BY <1>13, <1>29 DEF LocksFor
<1>15. PICK id \in Nat : id = sent + 1
  BY <1>1 DEF HeadsInv
<1>16. PICK m : m = [k EXCEPT !.pc = "sent", !.tx = id]
  OBVIOUS
<1>17. /\ m \in LoopState /\ m.pc = "sent" /\ m.step = i /\ m.tx = id /\ m.path = path /\ m.hash = hash
       /\ m.collect = k.collect /\ m.preimage = k.preimage
  BY <1>3, <1>7, <1>8, <1>9, <1>15, <1>16 DEF LoopState, Pcs
<1>18. loop' = [loop EXCEPT ![p] = m]
  BY <1>2, <1>5, <1>13, <1>15, <1>16
<1>19. sent \in Nat /\ id > sent /\ id # 0 /\ id \in 0..sent' /\ UNCHANGED <<locked, claimed>>
  BY <1>1, <1>5, <1>13, <1>15 DEF HeadsInv, historyVars
<1>20. LoopTyped(m)' /\ LoopMade(m)' /\ LoopPaid(m)'
  <2>1. LoopTyped(m)'
    BY <1>3, <1>7, <1>8, <1>9, <1>17, <1>19 DEF LoopTyped
  <2>2. ASSUME NEW q \in Made(id)' PROVE q = o
    <3>1. \A y \in utxo \cup snapshot \cup locked : y.tx # id
      BY <1>1, <1>19 DEF HeadsInv, OutputOK, LockedInv
    <3>2. \A u \in pool : u.id # id
      BY <1>1, <1>19 DEF HeadsInv, TxOK
    <3> QED BY <1>13, <1>14, <1>15, <1>19, <3>1, <3>2 DEF Made
  <2>3. IsHtlc(o) /\ IsFor(o, m.path[m.step], m.hash)
    BY <1>14, <1>17 DEF IsHtlc, HtlcOK
  <2>4. LoopMade(m)'
    BY <1>17, <2>2, <2>3 DEF LoopMade
  <2> QED BY <1>17, <2>1, <2>4 DEF LoopPaid
<1>21. /\ LoopsInv' /\ loop'[p] = m
       /\ \A q \in Payments \ {p} : NoNewPast(loop[q], loop'[q]) /\ KeepsRelays(loop[q], loop'[q]) /\ KeepsClaims(loop[q], loop'[q])
  BY <1>1, <1>12, <1>17, <1>18, <1>19, <1>20, OneLoop
<1>22. NoNewPast(k, m) /\ KeepsRelays(k, m) /\ KeepsClaims(k, m)
  BY <1>3, <1>7, <1>8, <1>9, <1>17, <1>19 DEF NoNewPast, NoNewWait, KeepsRelays, KeepsClaims, Past
<1>23. NoNewPast(loop[p], loop'[p]) /\ KeepsRelays(loop[p], loop'[p]) /\ KeepsClaims(loop[p], loop'[p])
  BY <1>2, <1>21, <1>22 DEF NoNewPast, NoNewWait, KeepsRelays, KeepsClaims
<1>24. \A q \in Payments : NoNewPast(loop[q], loop'[q]) /\ KeepsRelays(loop[q], loop'[q]) /\ KeepsClaims(loop[q], loop'[q])
  BY <1>21, <1>23
<1>25. PageInv'
  BY <1>1, <1>5, PageKept DEF PageInv
<1>26. CompletedInv'
  BY <1>1, <1>12, <1>24, CompletedKept
<1>27. ClaimsInv'
  <2>1. ASSUME NEW h \in Hashes, NEW x \in Intermediaries PROVE Claiming(h, x)' \subseteq Claiming(h, x)
    BY <1>4, <1>13 DEF Claiming, IsHtlc
  <2> QED BY <1>1, <1>19, <1>24, <2>1, ClaimsKept DEF ClaimsInv
<1>28. RelaysInv'
  <2> SUFFICES ASSUME NEW h \in Hashes, NEW x \in Intermediaries
               PROVE  Cardinality(Relays(h, x)') <= Cardinality(Relaying(h, x)') + doubts'
    BY DEF RelaysInv
  <2>1. Cardinality(Relays(h, x)) <= Cardinality(Relaying(h, x)) + doubts
    BY <1>1 DEF RelaysInv
  <2>2. Relays(h, x) \subseteq Relays(h, x)'
    BY <1>13, <1>19 DEF Relays
  <2>3. Relaying(h, x) \subseteq Relaying(h, x)'
    <3> SUFFICES ASSUME NEW q \in Relaying(h, x) PROVE q \in Relaying(h, x)'
      OBVIOUS
    <3>1. q \in Payments
      BY DEF Relaying
    <3> QED BY <1>24, <2>2, <3>1, RelayingGrows
  <2>4. Relays(h, x)' \subseteq Relays(h, x) \cup {id}
    <3> SUFFICES ASSUME NEW n \in Relays(h, x)', n # id PROVE n \in Relays(h, x)
      OBVIOUS
    <3>1. n \in 1..sent
      BY <1>13, <1>15, <1>19 DEF Relays
    <3>2. (\E y \in locked : y.tx = n /\ y.hash = h /\ y.from = x)
          \/ (\E u \in pool : u.id = n /\ \E y \in u.makes : IsHtlc(y) /\ y.hash = h /\ y.from = x)
      BY <1>13, <1>15, <1>19 DEF Relays
    <3> QED BY <3>1, <3>2 DEF Relays
  <2>5. IsFiniteSet(Relaying(h, x)') /\ IsFiniteSet(Relaying(h, x)) /\ IsFiniteSet(Relays(h, x))
    <3>1. Relaying(h, x)' \subseteq Payments /\ Relaying(h, x) \subseteq Payments /\ Relays(h, x) \subseteq 1..sent
      BY DEF Relaying, Relays
    <3> QED BY <1>1, <3>1, Sizes, PoolFinite, FS_Subset
  <2>6. /\ Cardinality(Relaying(h, x)) <= Cardinality(Relaying(h, x)')
        /\ Cardinality(Relaying(h, x)) \in Nat /\ Cardinality(Relaying(h, x)') \in Nat
        /\ Cardinality(Relays(h, x)) \in Nat
    BY <2>3, <2>5, Smaller
  <2>7. doubts \in Nat /\ doubts' = doubts
    BY <1>1, <1>5 DEF PageInv
  <2>8. CASE id \notin Relays(h, x)'
    <3>1. Relays(h, x)' = Relays(h, x)
      BY <2>2, <2>4, <2>8
    <3> QED BY <2>1, <2>6, <2>7, <3>1
  <2>9. CASE id \in Relays(h, x)'
    <3>1. o.hash = h /\ o.from = x
      <4>1. \A y \in locked : y.tx # id
        BY <1>1, <1>19 DEF LockedInv
      <4>2. \A u \in pool : u.id # id
        BY <1>1, <1>19 DEF HeadsInv, TxOK
      <4> QED BY <1>13, <1>14, <1>19, <2>9, <4>1, <4>2 DEF Relays
    <3>2. hash = h /\ path[i].from = x
      BY <1>14, <3>1 DEF IsFor
    <3>3. p \notin Relaying(h, x)
      <4>1. SUFFICES ASSUME NEW j \in DOMAIN k.path, k.path[j].from = x, j < k.step PROVE FALSE
        BY <1>2, <1>3 DEF Relaying
      <4>2. j = i
        BY <1>3, <1>7, <3>2, <4>1, PathFacts
      <4> QED BY <1>3, <1>8, <4>1, <4>2
    <3>4. p \in Relaying(h, x)'
      <4>1. loop'[p].hash = h /\ i \in DOMAIN loop'[p].path /\ loop'[p].path[i].from = x
            /\ i = loop'[p].step /\ loop'[p].pc \notin {"lock", "cover"} /\ loop'[p].tx \in Relays(h, x)'
        BY <1>3, <1>7, <1>17, <1>21, <2>9, <3>2
      <4> QED BY <4>1 DEF Relaying
    <3>5. Cardinality(Relaying(h, x)) + 1 <= Cardinality(Relaying(h, x)')
      BY <2>3, <2>5, <3>3, <3>4, OneMore
    <3>6. Cardinality(Relays(h, x)') <= Cardinality(Relays(h, x)) + 1 /\ Cardinality(Relays(h, x)') \in Nat
      <4>1. IsFiniteSet({id}) /\ Cardinality({id}) = 1
        BY FS_Singleton
      <4>2. Cardinality(Relays(h, x)') <= Cardinality(Relays(h, x)) + 1
        BY <2>4, <2>5, <4>1, Together
      <4>3. IsFiniteSet(Relays(h, x)')
        BY <2>4, <2>5, FS_AddElement, FS_Subset
      <4> QED BY <4>2, <4>3, FS_CardinalityType
    <3> QED BY <2>1, <2>6, <2>7, <3>5, <3>6
  <2> QED BY <2>8, <2>9
<1> QED BY <1>12, <1>21, <1>25, <1>26, <1>27, <1>28 DEF IInv

\* A step that is completed: its loop found its transaction, whose HTLC is at rest from now on.
LEMMA AwaitedKeeps == ASSUME IInv, NEW p \in Payments, Awaited(p) PROVE IInv'
<1>1. PICK k : k = loop[p]
  OBVIOUS
<1>2. PICK last \in BOOLEAN : last = (k.step = Len(k.path))
  OBVIOUS
<1>3. PICK m : m = IF last THEN Finished(k) ELSE [k EXCEPT !.pc = "settle"]
  OBVIOUS
<1>4. /\ k.pc = "await" /\ loop' = [loop EXCEPT ![p] = m] /\ UNCHANGED <<headVars, historyVars, pairs, troubles, doubts>>
      /\ \E o \in locked : o.tx = k.tx /\ (o \in snapshot \/ o \notin utxo)
  BY <1>1, <1>2, <1>3 DEF Awaited, Found, At
<1>5. HeadsInv /\ LockedInv /\ LoopsInv /\ HeadsInv' /\ LockedInv' /\ Calm /\ CompletedInv /\ RelaysInv /\ ClaimsInv /\ PageInv
  BY <1>4, StillKeeps DEF IInv
<1>6. /\ LoopTyped(k) /\ LoopMade(k) /\ k \in LoopState /\ IsPath(k.path) /\ k.hash \in Hashes /\ k.tx # 0
      /\ LoopTyped(k)' /\ LoopMade(k)' /\ k.step \in 1..Len(k.path) /\ k.collect = {}
  <2>1. LoopTyped(k) /\ LoopMade(k) /\ LoopPaid(k)
    BY <1>1, <1>5 DEF LoopsInv
  <2>2. LoopTyped(k)' /\ LoopMade(k)'
    BY <1>5, <2>1, LoopStays
  <2>3. k \in LoopState /\ IsPath(k.path) /\ k.hash \in Hashes /\ k.tx # 0 /\ k.step \in 1..3 /\ k.step <= Len(k.path) /\ k.collect = {}
    BY <1>4, <2>1 DEF LoopTyped, LoopState
  <2>4. Len(k.path) \in 2..3
    BY <2>3, PathFacts
  <2> QED BY <2>1, <2>2, <2>3, <2>4
<1>7. PICK o \in locked : o.tx = k.tx /\ (o \in snapshot \/ o \notin utxo)
  BY <1>4
<1>8. o \in locked /\ IsFor(o, k.path[k.step], k.hash)
  <2>1. o \in Made(k.tx)
    BY <1>7 DEF Made
  <2>2. IsHtlc(o) /\ IsFor(o, k.path[k.step], k.hash)
    BY <1>4, <1>6, <2>1 DEF LoopMade, Owned
  <2> QED BY <1>7, <2>2
<1>9. /\ m \in LoopState /\ m.step = k.step /\ m.tx = k.tx /\ m.path = k.path /\ m.hash = k.hash /\ m.collect = {} /\ m.preimage = k.preimage
      /\ \/ m.pc = "settle" /\ ~last
         \/ m.pc = "watch" /\ last /\ k.preimage
         \/ m.pc = "done" /\ last
  <2>1. PICK pc \in {"settle", "watch", "done"} :
              /\ m = [k EXCEPT !.pc = pc]
              /\ (pc = "settle" /\ ~last) \/ (pc = "watch" /\ last /\ k.preimage) \/ (pc = "done" /\ last)
    BY <1>3 DEF Finished
  <2>2. m \in LoopState /\ m.pc = pc
    BY <1>6, <2>1 DEF LoopState, Pcs
  <2> QED BY <1>6, <2>1, <2>2 DEF LoopState
<1>10. LoopTyped(m)' /\ LoopMade(m)' /\ LoopPaid(m)'
  <2>1. Len(k.path) \in 2..3
    BY <1>6, PathFacts
  <2>2. ~last => k.step < Len(k.path)
    <3>1. \A n \in 2..3 : \A i \in 1..n : i # n => i < n
      OBVIOUS
    <3> QED BY <1>2, <1>6, <2>1, <3>1
  <2>3. LoopTyped(m)'
    BY <1>2, <1>4, <1>6, <1>9, <2>1, <2>2 DEF LoopTyped
  <2>4. LoopMade(m)'
    BY <1>4, <1>6, <1>9 DEF LoopMade, Owned
  <2>5. last => Last(k.path) = k.path[k.step]
    BY <1>2, <1>6, LastStep
  <2>6. UNCHANGED <<snapshot, locked, utxo>>
    BY <1>4 DEF headVars, historyVars
  <2>7. LoopPaid(m)'
    BY <1>7, <1>8, <1>9, <2>5, <2>6 DEF LoopPaid
  <2> QED BY <2>3, <2>4, <2>7
<1>11. /\ LoopsInv' /\ loop'[p] = m /\ \A q \in Payments \ {p} : loop'[q] = loop[q]
       /\ \A q \in Payments \ {p} : NoNewPast(loop[q], loop'[q]) /\ KeepsRelays(loop[q], loop'[q]) /\ KeepsClaims(loop[q], loop'[q])
  BY <1>1, <1>4, <1>5, <1>9, <1>10, OneLoop
<1>12. NoNewWait(k, m) /\ KeepsRelays(k, m) /\ KeepsClaims(k, m)
  BY <1>4, <1>6, <1>9 DEF NoNewWait, KeepsRelays, KeepsClaims
<1>13. \A q \in Payments : NoNewWait(loop[q], loop'[q]) /\ KeepsRelays(loop[q], loop'[q]) /\ KeepsClaims(loop[q], loop'[q])
  <2>1. NoNewWait(loop[p], loop'[p]) /\ KeepsRelays(loop[p], loop'[p]) /\ KeepsClaims(loop[p], loop'[p])
    BY <1>1, <1>11, <1>12 DEF NoNewWait, KeepsRelays, KeepsClaims
  <2> QED BY <1>11, <2>1 DEF NoNewPast
<1>14. UNCHANGED <<pool, sent, locked, claimed, doubts>> /\ sent \in Nat /\ sent' \in Nat /\ sent <= sent'
  BY <1>4, <1>5 DEF headVars, historyVars, HeadsInv
<1>15. PageInv'
  <2>1. shown' = [shown EXCEPT !.recorded = @ \cup (IF shown.on THEN {k.step} ELSE {}), !.busy = @ /\ ~last]
    BY <1>1, <1>2 DEF Awaited
  <2>2. k.step \in 1..3 /\ shown \in [on : BOOLEAN, busy : BOOLEAN, recorded : SUBSET (1..3)] /\ (shown.busy => shown.on)
    BY <1>5, <1>6 DEF PageInv, LoopState
  <2>3. PICK r \in SUBSET (1..3) : r = shown.recorded \cup (IF shown.on THEN {k.step} ELSE {})
    BY <2>2
  <2>4. PICK b \in BOOLEAN : b = (shown.busy /\ ~last)
    OBVIOUS
  <2>5. shown' = [shown EXCEPT !.recorded = r, !.busy = b]
    BY <2>1, <2>3, <2>4
  <2>6. shown' \in [on : BOOLEAN, busy : BOOLEAN, recorded : SUBSET (1..3)] /\ shown'.busy = b /\ shown'.on = shown.on
    BY <2>2, <2>5
  <2>7. shown'.busy => shown'.on
    BY <2>2, <2>4, <2>6
  <2>8. UNCHANGED <<pairs, doubts, troubles>>
    BY <1>4
  <2> QED BY <1>5, <2>6, <2>7, <2>8 DEF PageInv
<1>16. ClaimsInv'
  <2>1. \A hash \in Hashes, x \in Intermediaries : Claiming(hash, x)' \subseteq Claiming(hash, x)
    BY <1>14 DEF Claiming
  <2> QED BY <1>5, <1>13, <1>14, <2>1, ClaimsKept DEF ClaimsInv
<1>17. RelaysInv'
  <2>1. \A hash \in Hashes, x \in Intermediaries : Relays(hash, x)' = Relays(hash, x)
    BY <1>5, <1>14, RelaysSame
  <2>2. doubts <= doubts'
    BY <1>5, <1>14 DEF PageInv
  <2> QED BY <1>5, <1>13, <1>15, <2>1, <2>2, RelaysKept
<1>18. CompletedInv'
  <2> SUFFICES ASSUME NEW hash \in Hashes, NEW steps \in StepSets
               PROVE  Cardinality(Completed(hash, steps)') <= Cardinality(AtRest(hash, steps)')
    BY DEF CompletedInv
  <2>1. Cardinality(Completed(hash, steps)) <= Cardinality(AtRest(hash, steps))
    BY <1>5 DEF CompletedInv
  <2>2. AtRest(hash, steps) \subseteq AtRest(hash, steps)'
    BY <1>5, <1>13, AtRestGrows
  <2>3. Completed(hash, steps)' \subseteq Completed(hash, steps) \cup {p}
    <3> SUFFICES ASSUME NEW q \in Completed(hash, steps)', q # p PROVE q \in Completed(hash, steps)
      OBVIOUS
    <3>1. q \in Payments /\ loop'[q] = loop[q]
      BY <1>11 DEF Completed
    <3> QED BY <3>1 DEF Completed
  <2>4. IsFiniteSet(Completed(hash, steps)) /\ IsFiniteSet(Completed(hash, steps)') /\ IsFiniteSet(AtRest(hash, steps)')
    <3>1. Completed(hash, steps) \subseteq Payments /\ Completed(hash, steps)' \subseteq Payments
      BY DEF Completed
    <3>2. AtRest(hash, steps)' \subseteq locked' /\ IsFiniteSet(locked')
      BY <1>5, LockedFinite DEF AtRest, LockedFor
    <3> QED BY <3>1, <3>2, Sizes, FS_Subset
  <2>5. /\ Cardinality(AtRest(hash, steps)) <= Cardinality(AtRest(hash, steps)')
        /\ Cardinality(AtRest(hash, steps)) \in Nat /\ Cardinality(AtRest(hash, steps)') \in Nat
    BY <2>2, <2>4, Smaller
  <2>6. Cardinality(Completed(hash, steps)) \in Nat /\ Cardinality(Completed(hash, steps)') \in Nat
    BY <2>4, FS_CardinalityType
  <2>7. CASE k.hash = hash /\ k.path[k.step] \in steps
    <3>1. Cardinality(Completed(hash, steps)') <= Cardinality(Completed(hash, steps)) + 1
      <4>1. IsFiniteSet({p}) /\ Cardinality({p}) = 1
        BY FS_Singleton
      <4> QED BY <2>3, <2>4, <4>1, Together
    <3>2. o \notin AtRest(hash, steps)
      BY <1>1, <1>4, <1>7 DEF AtRest, WaitedFor
    <3>3. ~WaitedFor(o)'
      <4> SUFFICES ASSUME NEW q \in Payments, loop'[q].pc \in {"sent", "await"}, loop'[q].tx = o.tx PROVE FALSE
        BY DEF WaitedFor
      <4>1. q # p
        BY <1>9, <1>11
      <4>2. loop[q].tx = loop[p].tx /\ loop[q].tx # 0
        BY <1>1, <1>6, <1>7, <1>11, <4>1
      <4> QED BY <1>5, <4>1, <4>2 DEF LoopsInv
    <3>4. o \in AtRest(hash, steps)'
      BY <1>8, <1>14, <2>7, <3>3 DEF AtRest, LockedFor, IsFor
    <3>5. Cardinality(AtRest(hash, steps)) + 1 <= Cardinality(AtRest(hash, steps)')
      BY <2>2, <2>4, <3>2, <3>4, OneMore
    <3> QED BY <2>1, <2>5, <2>6, <3>1, <3>5
  <2>8. CASE ~(k.hash = hash /\ k.path[k.step] \in steps)
    <3>1. p \in Completed(hash, steps)' => p \in Completed(hash, steps)
      <4> SUFFICES ASSUME m.hash = hash, NEW i \in DOMAIN m.path, m.path[i] \in steps, Past(m, i) PROVE p \in Completed(hash, steps)
        BY <1>11 DEF Completed
      <4>1. i # k.step /\ k.hash = hash
        BY <1>9, <2>8
      <4>2. Past(k, i)
        BY <1>9, <4>1 DEF Past
      <4> QED BY <1>1, <1>9, <4>1, <4>2 DEF Completed
    <3>2. Completed(hash, steps)' \subseteq Completed(hash, steps)
      BY <2>3, <3>1
    <3>3. Cardinality(Completed(hash, steps)') <= Cardinality(Completed(hash, steps))
      BY <2>4, <3>2, Smaller
    <3> QED BY <2>1, <2>5, <2>6, <3>3
  <2> QED BY <2>7, <2>8
<1> QED BY <1>5, <1>11, <1>15, <1>16, <1>17, <1>18 DEF IInv

-----------------------------------------------------------------------------
(* Claims and refunds *)

LEMMA ClaimSent ==
    ASSUME HeadsInv, LockedInv, UNCHANGED historyVars, NEW o \in snapshot, IsHtlc(o), NEW claimer, Claim(o, claimer)
    PROVE  /\ HeadsInv' /\ LockedInv' /\ Calm
           /\ \E t : Sent(t, {o}) /\ Pays(t, o.to)
<1>1. o.pays = o.to
  BY DEF HeadsInv, OutputOK, IsHtlc, HtlcOK
<1>2. PICK c : Send(o.head, {o}, {c}, {Coin(o.head, o.pays)}, 0, o.timeout - ClaimMargin)
  BY DEF Claim
<1>3. PICK where : where = o.head
  OBVIOUS
<1>4. PICK owner : owner = o.to
  OBVIOUS
<1>5. PICK reads : reads = {c}
  OBVIOUS
<1>6. PICK spends : spends = {o}
  OBVIOUS
<1>7. PICK makes : makes = {Coin(where, owner)}
  OBVIOUS
<1>8. PICK from : from = 0
  OBVIOUS
<1>9. PICK upto : upto = o.timeout - ClaimMargin
  OBVIOUS
<1>10. Send(where, spends, reads, makes, from, upto)
  BY <1>1, <1>2, <1>3, <1>4, <1>5, <1>6, <1>7, <1>8, <1>9
<1>11. /\ HeadsInv' /\ LockedInv' /\ Calm
       /\ \E t : Sent(t, spends) /\ Pays(t, owner)
  BY <1>4, <1>6, <1>7, <1>10, SpendSent
<1> QED BY <1>4, <1>6, <1>11

LEMMA RefundSent ==
    ASSUME HeadsInv, LockedInv, UNCHANGED historyVars, NEW o \in snapshot, IsHtlc(o),
           o.from \notin Intermediaries, Refund(o, o.from)
    PROVE  /\ HeadsInv' /\ LockedInv' /\ Calm
           /\ \E t : Sent(t, {o}) /\ Pays(t, o.from)
<1>1. now \in Int /\ now > o.timeout
  BY Sizes DEF Refund, HeadsInv
<1>2. PICK c : Send(o.head, {o}, {c}, {Coin(o.head, o.from)}, now, Always)
  BY DEF Refund
<1>3. PICK where : where = o.head
  OBVIOUS
<1>4. PICK owner : owner = o.from
  OBVIOUS
<1>5. PICK reads : reads = {c}
  OBVIOUS
<1>6. PICK spends : spends = {o}
  OBVIOUS
<1>7. PICK makes : makes = {Coin(where, owner)}
  OBVIOUS
<1>8. PICK from \in Int : from = now
  BY <1>1
<1>9. PICK upto : upto = Always
  OBVIOUS
<1>10. Send(where, spends, reads, makes, from, upto)
  BY <1>2, <1>3, <1>4, <1>5, <1>6, <1>7, <1>8, <1>9
<1>11. owner = o.from /\ from \in Int /\ from > o.timeout /\ o.from \notin Intermediaries
  BY <1>1, <1>4, <1>8
<1>12. /\ HeadsInv' /\ LockedInv' /\ Calm
       /\ \E t : Sent(t, spends) /\ Pays(t, owner)
  BY <1>6, <1>7, <1>10, <1>11, SpendSent
<1> QED BY <1>4, <1>6, <1>12

\* What such a transaction means to the counts.
LEMMA SpendCounts ==
    ASSUME HeadsInv, LockedInv, UNCHANGED historyVars, NEW o, NEW t, Sent(t, {o}), NEW owner, Pays(t, owner), NEW hash, NEW x
    PROVE  /\ Relays(hash, x)' = Relays(hash, x)
           /\ Claiming(hash, x) \subseteq Claiming(hash, x)' /\ Claiming(hash, x)' \subseteq Claiming(hash, x) \cup {t}
           /\ t \in Claiming(hash, x)' => o.hash = hash /\ o.to = x /\ owner = x
<1>1. /\ pool' = pool \cup {t} /\ sent' = sent + 1 /\ sent \in Nat /\ t.spends = {o} /\ locked' = locked
  BY DEF Sent, HeadsInv, historyVars
<1>2. PICK m : t.makes = {m} /\ m.kind = "coin" /\ m.owner = owner
  BY DEF Pays
<1>3. \A u \in pool' : u \in pool \/ \A y \in u.makes : ~IsHtlc(y)
  BY <1>1, <1>2 DEF IsHtlc
<1>4. sent' \in Nat /\ sent <= sent' /\ pool \subseteq pool'
  BY <1>1
<1>5. Relays(hash, x)' = Relays(hash, x)
  BY <1>1, <1>3, <1>4, RelaysSame
<1>6. Claiming(hash, x) \subseteq Claiming(hash, x)' /\ Claiming(hash, x)' \subseteq Claiming(hash, x) \cup {t}
  BY <1>1 DEF Claiming
<1>7. t \in Claiming(hash, x)' => o.hash = hash /\ o.to = x /\ owner = x
  BY <1>1, <1>2 DEF Claiming
<1> QED BY <1>5, <1>6, <1>7

\* The buttons are for no HTLC of an intermediary's.
LEMMA PeopleSpend ==
    ASSUME IInv, HeadsInv', LockedInv', Calm, UNCHANGED <<pageVars, troubles, doubts, historyVars>>,
           NEW o, NEW t, Sent(t, {o}), NEW owner, owner \notin Intermediaries, Pays(t, owner)
    PROVE  IInv'
<1>1. HeadsInv /\ LockedInv /\ LoopsInv /\ PageInv
  BY DEF IInv
<1>2. UNCHANGED <<loop, shown, pairs, troubles, doubts, historyVars>> /\ claimed' = claimed
  BY DEF pageVars, historyVars
<1>3. PageInv'
  BY <1>1, <1>2, PageKept DEF PageInv
<1>4. ASSUME NEW hash \in Hashes, NEW x \in Intermediaries
      PROVE  Relays(hash, x)' = Relays(hash, x) /\ Claiming(hash, x)' \subseteq Claiming(hash, x)
  <2>1. /\ Relays(hash, x)' = Relays(hash, x) /\ Claiming(hash, x)' \subseteq Claiming(hash, x) \cup {t}
        /\ t \in Claiming(hash, x)' => owner = x
    BY <1>1, <1>2, SpendCounts
  <2> QED BY <2>1
<1>5. /\ LoopsInv'
      /\ \A p \in Payments : NoNewPast(loop[p], loop'[p]) /\ KeepsRelays(loop[p], loop'[p]) /\ KeepsClaims(loop[p], loop'[p])
  BY <1>1, <1>2, LoopsStill
<1> QED BY <1>2, <1>3, <1>4, <1>5, Ordinary

LEMMA UserClaimKeeps == ASSUME IInv, NEW o \in snapshot, UserClaim(o) PROVE IInv'
<1>1. /\ IsHtlc(o) /\ o.to \notin Intermediaries /\ UNCHANGED <<pageVars, troubles, doubts, historyVars>>
      /\ HeadsInv /\ LockedInv
  BY DEF UserClaim, showClaimButton, PaymentUsers, Intermediaries, IInv
<1>2. PICK claimer : claimer = o.to
  OBVIOUS
<1>3. Claim(o, claimer)
  BY <1>2 DEF UserClaim
<1>4. /\ HeadsInv' /\ LockedInv' /\ Calm
      /\ \E t : Sent(t, {o}) /\ Pays(t, claimer)
  BY <1>1, <1>2, <1>3, ClaimSent
<1> QED BY <1>1, <1>2, <1>4, PeopleSpend

LEMMA UserRefundKeeps == ASSUME IInv, NEW o \in snapshot, UserRefund(o) PROVE IInv'
<1>1. /\ IsHtlc(o) /\ o.from \notin Intermediaries /\ UNCHANGED <<pageVars, troubles, doubts, historyVars>>
      /\ HeadsInv /\ LockedInv /\ Refund(o, o.from)
  BY DEF UserRefund, showRefundButton, PaymentUsers, Intermediaries, IInv
<1>2. PICK owner : owner = o.from
  OBVIOUS
<1>3. /\ HeadsInv' /\ LockedInv' /\ Calm
      /\ \E t : Sent(t, {o}) /\ Pays(t, owner)
  BY <1>1, <1>2, RefundSent
<1> QED BY <1>1, <1>2, <1>3, PeopleSpend

\* An intermediary collects once for a loop, and only for one whose payment arrived.
LEMMA CollectKeeps == ASSUME IInv, NEW p \in Payments, NEW i \in 1..3, Collect(p, i) PROVE IInv'
<1>1. HeadsInv /\ LockedInv /\ LoopsInv /\ PageInv /\ CompletedInv /\ RelaysInv /\ ClaimsInv
  BY DEF IInv
<1>2. PICK k : k = loop[p]
  OBVIOUS
<1>3. PICK step : step = k.path[i]
  OBVIOUS
<1>4. PICK m : m = [k EXCEPT !.collect = @ \ {i}]
  OBVIOUS
<1>5. /\ i \in k.collect /\ loop' = [loop EXCEPT ![p] = m] /\ UNCHANGED <<shown, pairs, troubles, doubts, historyVars>>
      /\ UNCHANGED headVars \/ \E o \in Matching(step, k.hash) : Claim(o, step.to)
  BY <1>2, <1>3, <1>4 DEF Collect
<1>6. /\ LoopTyped(k) /\ LoopMade(k) /\ LoopPaid(k) /\ k \in LoopState /\ IsPath(k.path) /\ k.hash \in Hashes
      /\ k.pc = "collect" /\ k.preimage /\ k.collect \subseteq intermediarySteps(k.path)
  <2>1. LoopTyped(k) /\ LoopMade(k) /\ LoopPaid(k)
    BY <1>1, <1>2 DEF LoopsInv
  <2>2. k.pc = "collect" /\ k.preimage /\ k.collect \subseteq intermediarySteps(k.path)
    BY <1>5, <2>1 DEF LoopTyped
  <2> QED BY <2>1, <2>2 DEF LoopTyped
<1>7. /\ m \in LoopState /\ m.pc = "collect" /\ m.step = k.step /\ m.tx = k.tx /\ m.path = k.path /\ m.hash = k.hash
      /\ m.collect = k.collect \ {i} /\ m.preimage = k.preimage
  <2>1. PICK c \in SUBSET (1..3) : c = k.collect \ {i}
    BY <1>6 DEF LoopState
  <2>2. m = [k EXCEPT !.collect = c]
    BY <1>4, <2>1
  <2> QED BY <1>6, <2>1, <2>2 DEF LoopState
<1>8. NoNewPast(k, m) /\ KeepsRelays(k, m) /\ KeepsClaims(k, m)
  BY <1>6, <1>7 DEF NoNewPast, NoNewWait, KeepsRelays, KeepsClaims, Past
<1>9. ASSUME HeadsInv', LockedInv', Calm
      PROVE  /\ LoopsInv' /\ PageInv' /\ loop'[p] = m
             /\ \A q \in Payments : NoNewPast(loop[q], loop'[q]) /\ KeepsRelays(loop[q], loop'[q]) /\ KeepsClaims(loop[q], loop'[q])
  <2>1. LoopTyped(k)' /\ LoopMade(k)' /\ LoopPaid(k)'
    BY <1>1, <1>6, <1>9, LoopStays
  <2>2. LoopTyped(m)'
    BY <1>6, <1>7, <2>1 DEF LoopTyped
  <2>3. LoopMade(m)'
    BY <1>6, <1>7, <2>1 DEF LoopMade, Owned
  <2>4. LoopPaid(m)'
    BY <1>6, <1>7, <2>1 DEF LoopPaid
  <2>5. /\ LoopsInv' /\ loop'[p] = m
        /\ \A q \in Payments \ {p} : NoNewPast(loop[q], loop'[q]) /\ KeepsRelays(loop[q], loop'[q]) /\ KeepsClaims(loop[q], loop'[q])
    BY <1>1, <1>2, <1>5, <1>7, <1>9, <2>2, <2>3, <2>4, OneLoop
  <2>6. NoNewPast(loop[p], loop'[p]) /\ KeepsRelays(loop[p], loop'[p]) /\ KeepsClaims(loop[p], loop'[p])
    BY <1>2, <1>8, <2>5 DEF NoNewPast, NoNewWait, KeepsRelays, KeepsClaims
  <2>7. PageInv'
    BY <1>1, <1>5, PageKept DEF PageInv
  <2> QED BY <2>5, <2>6, <2>7
<1>10. CASE UNCHANGED headVars
  <2>1. HeadsInv' /\ LockedInv' /\ Calm
    BY <1>1, <1>5, <1>10, StillKeeps
  <2>2. UNCHANGED <<pool, sent, locked, claimed, doubts>>
    BY <1>5, <1>10 DEF headVars, historyVars
  <2> QED BY <1>9, <2>1, <2>2, OrdinaryStill
<1>11. ASSUME NEW o \in Matching(step, k.hash), Claim(o, step.to) PROVE IInv'
  <2>1. PICK x : x = step.to
    OBVIOUS
  <2>2. o \in snapshot /\ IsHtlc(o) /\ o.hash = k.hash /\ o.to = x /\ Claim(o, x)
    BY <1>11, <2>1 DEF Matching
  <2>3. UNCHANGED historyVars
    BY <1>5
  <2>4. /\ HeadsInv' /\ LockedInv' /\ Calm
        /\ \E t : Sent(t, {o}) /\ Pays(t, o.to)
    BY <1>1, <2>2, <2>3, ClaimSent
  <2>5. PICK t : Sent(t, {o}) /\ Pays(t, x)
    BY <2>2, <2>4
  <2>6. /\ LoopsInv' /\ PageInv' /\ loop'[p] = m
        /\ \A q \in Payments : NoNewPast(loop[q], loop'[q]) /\ KeepsRelays(loop[q], loop'[q]) /\ KeepsClaims(loop[q], loop'[q])
    BY <1>9, <2>4
  <2>7. CompletedInv'
    BY <1>1, <2>4, <2>6, CompletedKept
  <2>8. RelaysInv'
    <3>1. \A hash \in Hashes, y \in Intermediaries : Relays(hash, y)' = Relays(hash, y)
      BY <1>1, <2>3, <2>5, SpendCounts
    <3>2. doubts <= doubts'
      BY <1>1, <1>5 DEF PageInv
    <3> QED BY <1>1, <2>4, <2>6, <3>1, <3>2, RelaysKept
  <2>9. claimed' = claimed
    BY <2>3 DEF historyVars
  <2>10. ClaimsInv'
    <3> SUFFICES ASSUME NEW hash \in Hashes, NEW y \in Intermediaries
                 PROVE  Cardinality(To(Of(claimed, hash), y)') + Cardinality(Claiming(hash, y)') <= Cardinality(Collecting(hash, y)')
      BY DEF ClaimsInv
    <3>1. /\ Claiming(hash, y)' \subseteq Claiming(hash, y) \cup {t}
          /\ t \in Claiming(hash, y)' => o.hash = hash /\ x = y
      BY <1>1, <2>3, <2>5, SpendCounts
    <3>2. CASE ~(o.hash = hash /\ x = y)
      <4>1. Claiming(hash, y)' \subseteq Claiming(hash, y)
        BY <3>1, <3>2
      <4> QED BY <1>1, <2>6, <2>9, <4>1, ClaimsKept
    <3>3. CASE o.hash = hash /\ x = y
      <4>1. Cardinality(To(Of(claimed, hash), y)) + Cardinality(Claiming(hash, y)) <= Cardinality(Collecting(hash, y))
        BY <1>1 DEF ClaimsInv
      <4>2. /\ IsFiniteSet(Claiming(hash, y)) /\ Cardinality(Claiming(hash, y)) \in Nat
            /\ Cardinality(Collecting(hash, y)) \in Nat /\ Cardinality(To(Of(claimed, hash), y)) \in Nat
        BY <1>1, ClaimCounts
      <4>3. To(Of(claimed, hash), y)' = To(Of(claimed, hash), y)
        BY <2>9 DEF To, Of
      <4>4. IsFiniteSet({t}) /\ Cardinality({t}) = 1
        BY FS_Singleton
      <4>5. Cardinality(Claiming(hash, y)') <= Cardinality(Claiming(hash, y)) + 1
        BY <3>1, <4>2, <4>4, Together
      <4>6. Cardinality(Claiming(hash, y)') \in Nat
        <5>1. IsFiniteSet(Claiming(hash, y)')
          BY <3>1, <4>2, FS_AddElement, FS_Subset
        <5> QED BY <5>1, FS_CardinalityType
      <4>7. Collecting(hash, y) \subseteq Collecting(hash, y)' /\ IsFiniteSet(Collecting(hash, y)')
        BY <2>6, <2>9, CollectingGrows
      <4>8. p \notin Collecting(hash, y)
        <5> SUFFICES ASSUME NEW j \in DOMAIN k.path, k.path[j].to = y, j \notin k.collect PROVE FALSE
          BY <1>2 DEF Collecting
        <5>1. i \in DOMAIN k.path /\ k.path[i].to = y
          BY <1>3, <1>5, <1>6, <2>1, <3>3 DEF intermediarySteps
        <5>2. i = j
          BY <1>6, <5>1, PathFacts
        <5> QED BY <1>5, <5>2
      <4>9. p \in Collecting(hash, y)'
        <5>1. loop'[p].hash = hash /\ loop'[p].pc = "collect" /\ loop'[p].tx = k.tx /\ loop'[p].path = k.path /\ i \notin loop'[p].collect
          BY <1>7, <2>2, <2>6, <3>3
        <5>2. i \in DOMAIN k.path /\ k.path[i].to = y
          BY <1>3, <1>5, <1>6, <2>1, <3>3 DEF intermediarySteps
        <5>3. \E q \in claimed : q.tx = k.tx /\ q.hash = hash /\ q.to \notin Intermediaries
          BY <1>6, <2>2, <3>3 DEF LoopPaid
        <5> QED BY <2>9, <5>1, <5>2, <5>3 DEF Collecting
      <4>10. Cardinality(Collecting(hash, y)) + 1 <= Cardinality(Collecting(hash, y)') /\ Cardinality(Collecting(hash, y)') \in Nat
        BY <4>7, <4>8, <4>9, OneMore, FS_CardinalityType
      <4> QED BY <4>1, <4>2, <4>3, <4>5, <4>6, <4>10
    <3> QED BY <3>2, <3>3
  <2> QED BY <2>4, <2>6, <2>7, <2>8, <2>10 DEF IInv
<1> QED BY <1>5, <1>10, <1>11

-----------------------------------------------------------------------------
(* Answers *)

\* What the loops make of an answer.
LEMMA LoopsHear ==
    ASSUME IInv, NEW t \in pool, Answer(t), HeadsInv', LockedInv', Calm
    PROVE  /\ LoopsInv'
           /\ \A p \in Payments : /\ NoNewPast(loop[p], loop'[p]) /\ KeepsClaims(loop[p], loop'[p])
                                  /\ Valid(t) \/ ~Hears(p, t) => KeepsRelays(loop[p], loop'[p])
                                  /\ loop'[p] = loop[p] \/ Turns(loop[p], loop'[p])
                                  /\ ~Hears(p, t) => loop'[p] = loop[p]
<1>1. HeadsInv /\ LockedInv /\ LoopsInv
  BY DEF IInv
<1>2. loop' = [p \in Payments |->
                   IF ~Hears(p, t) THEN loop[p]
                   ELSE IF Valid(t) THEN [loop[p] EXCEPT !.pc = "await"] ELSE Retried(loop[p])]
  BY DEF Answer
<1>3. DOMAIN loop' = Payments
  BY <1>2
<1>4. ASSUME NEW p \in Payments
      PROVE  /\ NoNewPast(loop[p], loop'[p]) /\ KeepsClaims(loop[p], loop'[p])
             /\ Valid(t) \/ ~Hears(p, t) => KeepsRelays(loop[p], loop'[p])
             /\ loop'[p] = loop[p] \/ Turns(loop[p], loop'[p])
             /\ ~Hears(p, t) => loop'[p] = loop[p]
             /\ loop'[p] = loop[p] \/ (LoopTyped(loop[p])' /\ LoopMade(loop[p])' /\ LoopPaid(loop[p])')
             /\ loop'[p].tx = loop[p].tx
  <2>1. PICK k : k = loop[p]
    OBVIOUS
  <2>2. LoopTyped(k) /\ LoopMade(k) /\ LoopPaid(k)
    BY <1>1, <2>1 DEF LoopsInv
  <2>3. CASE ~Hears(p, t)
    <3>1. loop'[p] = loop[p]
      BY <1>2, <2>3
    <3> QED BY <2>1, <2>2, <2>3, <3>1, StillLoop DEF NoNewPast, NoNewWait, KeepsRelays, KeepsClaims
  <2>4. CASE Hears(p, t)
    <3>1. PICK m : m = IF Valid(t) THEN [k EXCEPT !.pc = "await"] ELSE Retried(k)
      OBVIOUS
    <3>2. loop'[p] = m
      BY <1>2, <2>1, <2>4, <3>1
    <3>3. k.pc = "sent"
      BY <2>1, <2>4 DEF Hears, At
    <3>4. Turns(k, m)
      BY <2>2, <3>1, <3>3, Retry, Goes
    <3>5. m.tx = k.tx /\ (Valid(t) => m.pc = "await")
      BY <2>2, <3>1, <3>4 DEF Turns, LoopTyped, LoopState
    <3>6. /\ LoopTyped(m)' /\ LoopMade(m)' /\ LoopPaid(m)'
          /\ KeepsClaims(k, m) /\ NoNewPast(k, m) /\ (Valid(t) => KeepsRelays(k, m))
      BY <1>1, <2>2, <3>3, <3>4, <3>5, LoopTurns
    <3>7. LoopTyped(loop[p])' /\ LoopMade(loop[p])' /\ LoopPaid(loop[p])'
      BY <3>2, <3>6 DEF LoopTyped, LoopMade, LoopPaid
    <3>8. NoNewPast(loop[p], loop'[p]) /\ KeepsClaims(loop[p], loop'[p]) /\ (Valid(t) => KeepsRelays(loop[p], loop'[p]))
      BY <2>1, <3>2, <3>6 DEF NoNewPast, NoNewWait, KeepsRelays, KeepsClaims
    <3> QED BY <2>1, <2>4, <3>2, <3>4, <3>5, <3>7, <3>8
  <2> QED BY <2>3, <2>4
<1>5. LoopsInv'
  <2>1. \A p \in Payments : loop'[p] = loop[p] \/ (LoopTyped(loop[p])' /\ LoopMade(loop[p])' /\ LoopPaid(loop[p])')
    BY <1>4
  <2>2. \A p \in Payments : loop'[p].tx = loop[p].tx
    BY <1>4
  <2> QED BY <1>1, <1>3, <2>1, <2>2, LoopsMove
<1> QED BY <1>4, <1>5

\* A claim that the head accepts moves from those on their way to those made.
LEMMA AnswerClaims ==
    ASSUME IInv, NEW t \in pool, Answer(t), \A p \in Payments : KeepsClaims(loop[p], loop'[p])
    PROVE  ClaimsInv'
<1>1. HeadsInv /\ LockedInv /\ ClaimsInv
  BY DEF IInv
<1>2. pool' = pool \ {t}
  BY DEF Answer, Decide
<1> SUFFICES ASSUME NEW hash \in Hashes, NEW x \in Intermediaries
             PROVE  Cardinality(To(Of(claimed, hash), x)') + Cardinality(Claiming(hash, x)') <= Cardinality(Collecting(hash, x)')
  BY DEF ClaimsInv
<1>3. Claiming(hash, x)' = Claiming(hash, x) \ {t}
  BY <1>2 DEF Claiming
<1>4. CASE claimed' = claimed
  BY <1>1, <1>3, <1>4, ClaimsKept
<1>5. ASSUME NEW o \in locked, t.spends = {o}, NEW m, t.makes = {m}, m.kind = "coin", m.owner = o.to, claimed' = claimed \cup {o}
      PROVE  Cardinality(To(Of(claimed, hash), x)') + Cardinality(Claiming(hash, x)') <= Cardinality(Collecting(hash, x)')
  <2>1. IsHtlc(o)
    BY <1>1 DEF LockedInv, HtlcOK, IsHtlc
  <2>2. CASE ~(o.hash = hash /\ o.to = x)
    <3>1. claimed \subseteq claimed' /\ \A q \in claimed' \ claimed : ~(q.hash = hash /\ q.to = x)
      BY <1>5, <2>2
    <3> QED BY <1>1, <1>3, <3>1, ClaimsHold
  <2>3. CASE o.hash = hash /\ o.to = x
    <3>1. Cardinality(To(Of(claimed, hash), x)) + Cardinality(Claiming(hash, x)) <= Cardinality(Collecting(hash, x))
      BY <1>1 DEF ClaimsInv
    <3>2. /\ IsFiniteSet(To(Of(claimed, hash), x)) /\ IsFiniteSet(Claiming(hash, x))
          /\ Cardinality(To(Of(claimed, hash), x)) \in Nat /\ Cardinality(Claiming(hash, x)) \in Nat
          /\ Cardinality(Collecting(hash, x)) \in Nat
      BY <1>1, ClaimCounts
    <3>3. t \in Claiming(hash, x)
      BY <1>5, <2>1, <2>3 DEF Claiming
    <3>4. Cardinality(Claiming(hash, x)') + 1 <= Cardinality(Claiming(hash, x))
      BY <1>3, <3>2, <3>3, OneMore
    <3>5. To(Of(claimed, hash), x)' \subseteq To(Of(claimed, hash), x) \cup {o}
      BY <1>5 DEF To, Of
    <3>6. IsFiniteSet({o}) /\ Cardinality({o}) = 1
      BY FS_Singleton
    <3>7. Cardinality(To(Of(claimed, hash), x)') <= Cardinality(To(Of(claimed, hash), x)) + 1
      BY <3>2, <3>5, <3>6, Together
    <3>8. Cardinality(To(Of(claimed, hash), x)') \in Nat /\ Cardinality(Claiming(hash, x)') \in Nat
      <4>1. IsFiniteSet(To(Of(claimed, hash), x)') /\ IsFiniteSet(Claiming(hash, x)')
        BY <1>3, <3>2, <3>5, FS_AddElement, FS_Subset
      <4> QED BY <4>1, FS_CardinalityType
    <3>9. claimed \subseteq claimed'
      BY <1>5
    <3>10. /\ Cardinality(Collecting(hash, x)) <= Cardinality(Collecting(hash, x)')
           /\ Cardinality(Collecting(hash, x)') \in Nat
      BY <3>9, CollectingGrows, Smaller
    <3> QED BY <3>1, <3>2, <3>4, <3>7, <3>8, <3>10
  <2> QED BY <2>2, <2>3
<1>6. CASE Valid(t)
  BY <1>1, <1>4, <1>5, <1>6, Accepted
<1>7. CASE ~Valid(t)
  <2>1. claimed' = claimed
    BY <1>7 DEF Answer, Decide
  <2> QED BY <1>4, <2>1
<1> QED BY <1>6, <1>7

\* A lock that the head refuses is given up by its loop, and each of the others that take
\* the refusal for theirs is counted as a doubt.
LEMMA AnswerRelays ==
    ASSUME IInv, NEW t \in pool, Answer(t), HeadsInv', PageInv',
           \A p \in Payments : /\ Valid(t) \/ ~Hears(p, t) => KeepsRelays(loop[p], loop'[p])
                               /\ loop'[p] = loop[p] \/ Turns(loop[p], loop'[p])
                               /\ ~Hears(p, t) => loop'[p] = loop[p]
    PROVE  RelaysInv'
<1>1. HeadsInv /\ LockedInv /\ PageInv /\ RelaysInv /\ LoopsInv
  BY DEF IInv
<1>2. /\ pool' = pool \ {t} /\ sent' = sent /\ locked \subseteq locked'
      /\ doubts' = doubts + IF Valid(t) THEN 0 ELSE Cardinality({p \in Payments : Hears(p, t) /\ loop[p].tx # t.id})
  BY DEF Answer, Decide
<1>3. /\ \A o \in locked : o.tx # t.id
      /\ \A u \in pool : u.id = t.id => u = t
      /\ t.id \in 1..sent
  BY <1>1 DEF HeadsInv, TxOK
<1>4. CASE Valid(t)
  <2>1. ASSUME NEW hash, NEW x PROVE Relays(hash, x)' = Relays(hash, x)
    <3>1. ASSUME NEW m, t.makes = {m}, HtlcOK(m), m.tx = t.id, locked' = locked \cup {m}
          PROVE  Relays(hash, x)' = Relays(hash, x)
      <4>1. IsHtlc(m)
        BY <3>1 DEF HtlcOK, IsHtlc
      <4> QED BY <1>2, <1>3, <3>1, <4>1 DEF Relays
    <3>2. ASSUME NEW m, t.makes = {m}, m.kind = "coin", locked' = locked
          PROVE  Relays(hash, x)' = Relays(hash, x)
      <4>1. ~IsHtlc(m)
        BY <3>2 DEF IsHtlc
      <4> QED BY <1>2, <1>3, <3>2, <4>1 DEF Relays
    <3> QED BY <1>1, <1>4, <3>1, <3>2, Accepted
  <2>2. \A p \in Payments : KeepsRelays(loop[p], loop'[p])
    BY <1>4
  <2>3. doubts <= doubts'
    BY <1>1, <1>2, <1>4 DEF PageInv
  <2> QED BY <1>1, <2>1, <2>2, <2>3, RelaysKept
<1>5. CASE ~Valid(t)
  <2> SUFFICES ASSUME NEW hash \in Hashes, NEW x \in Intermediaries
               PROVE  Cardinality(Relays(hash, x)') <= Cardinality(Relaying(hash, x)') + doubts'
    BY DEF RelaysInv
  <2>1. Cardinality(Relays(hash, x)) <= Cardinality(Relaying(hash, x)) + doubts
    BY <1>1 DEF RelaysInv
  <2>2. PICK D : D = {p \in Payments : Hears(p, t) /\ loop[p].tx # t.id}
    OBVIOUS
  <2>3. doubts' = doubts + Cardinality(D) /\ doubts \in Nat
    BY <1>1, <1>2, <1>5, <2>2 DEF PageInv
  <2>4. locked' = locked
    BY <1>5 DEF Answer, Decide
  <2>5. Relays(hash, x)' = Relays(hash, x) \ {t.id}
    BY <1>2, <1>3, <2>4 DEF Relays
  <2>6. ASSUME NEW q \in Relaying(hash, x), q \notin D, loop[q].tx # t.id \/ t.id \notin Relays(hash, x)
        PROVE  q \in Relaying(hash, x)'
    <3>1. q \in Payments /\ loop[q].hash = hash
      BY DEF Relaying
    <3>2. PICK i \in DOMAIN loop[q].path :
                /\ loop[q].path[i].from = x
                /\ \/ i < loop[q].step
                   \/ i = loop[q].step /\ loop[q].pc \notin {"lock", "cover"} /\ loop[q].tx \in Relays(hash, x)
      BY DEF Relaying
    <3>3. CASE i < loop[q].step
      <4>1. loop'[q].hash = hash /\ loop'[q].path = loop[q].path /\ loop'[q].step = loop[q].step
        BY <3>1 DEF Turns
      <4> QED BY <3>1, <3>2, <3>3, <4>1 DEF Relaying
    <3>4. CASE i = loop[q].step /\ loop[q].pc \notin {"lock", "cover"} /\ loop[q].tx \in Relays(hash, x)
      <4>1. loop[q].tx # t.id
        BY <2>6, <3>4
      <4>2. ~Hears(q, t)
        BY <2>2, <2>6, <3>1, <4>1
      <4>3. loop'[q] = loop[q]
        BY <3>1, <4>2
      <4>4. loop'[q].tx \in Relays(hash, x)'
        BY <2>5, <3>4, <4>1, <4>3
      <4> QED BY <3>1, <3>2, <3>4, <4>3, <4>4 DEF Relaying
    <3> QED BY <3>2, <3>3, <3>4
  <2>7. IsFiniteSet(D) /\ IsFiniteSet(Relaying(hash, x)) /\ IsFiniteSet(Relaying(hash, x)') /\ IsFiniteSet(Relays(hash, x))
    <3>1. D \subseteq Payments /\ Relaying(hash, x)' \subseteq Payments /\ Relaying(hash, x) \subseteq Payments
          /\ Relays(hash, x) \subseteq 1..sent
      BY <2>2 DEF Relaying, Relays
    <3> QED BY <1>1, <3>1, Sizes, PoolFinite, FS_Subset
  <2>8. /\ Cardinality(D) \in Nat /\ Cardinality(Relaying(hash, x)) \in Nat /\ Cardinality(Relaying(hash, x)') \in Nat
        /\ Cardinality(Relays(hash, x)) \in Nat
    BY <2>7, FS_CardinalityType
  <2>9. CASE t.id \notin Relays(hash, x)
    <3>1. Relays(hash, x)' = Relays(hash, x)
      BY <2>5, <2>9
    <3>2. Relaying(hash, x) \subseteq Relaying(hash, x)' \cup D
      BY <2>6, <2>9
    <3>3. Cardinality(Relaying(hash, x)) <= Cardinality(Relaying(hash, x)') + Cardinality(D)
      BY <2>7, <3>2, Together
    <3> QED BY <2>1, <2>3, <2>8, <3>1, <3>3
  <2>10. CASE t.id \in Relays(hash, x)
    <3>1. PICK q : \A p \in Payments : loop[p].tx = t.id => p = q
      <4>1. t.id # 0
        BY <1>3
      <4>2. \A p, r \in Payments : loop[p].tx = t.id /\ loop[r].tx = t.id => p = r
        BY <1>1, <4>1 DEF LoopsInv
      <4> QED BY <4>2
    <3>2. Relaying(hash, x) \subseteq (Relaying(hash, x)' \cup D) \cup {q}
      <4> SUFFICES ASSUME NEW p \in Relaying(hash, x), p \notin D, p # q PROVE p \in Relaying(hash, x)'
        OBVIOUS
      <4>1. p \in Payments
        BY DEF Relaying
      <4> QED BY <2>6, <3>1, <4>1
    <3>3. /\ IsFiniteSet(Relaying(hash, x)' \cup D)
          /\ Cardinality(Relaying(hash, x)' \cup D) <= Cardinality(Relaying(hash, x)') + Cardinality(D)
          /\ Cardinality(Relaying(hash, x)' \cup D) \in Nat
      BY <2>7, Together, FS_Union, FS_CardinalityType
    <3>4. IsFiniteSet({q}) /\ Cardinality({q}) = 1
      BY FS_Singleton
    <3>5. Cardinality(Relaying(hash, x)) <= Cardinality(Relaying(hash, x)' \cup D) + 1
      BY <3>2, <3>3, <3>4, Together
    <3>6. Cardinality(Relays(hash, x)') + 1 <= Cardinality(Relays(hash, x)) /\ Cardinality(Relays(hash, x)') \in Nat
      <4>1. Cardinality(Relays(hash, x)') + 1 <= Cardinality(Relays(hash, x))
        BY <2>5, <2>7, <2>10, OneMore
      <4>2. IsFiniteSet(Relays(hash, x)')
        BY <2>5, <2>7, FS_Subset
      <4> QED BY <4>1, <4>2, FS_CardinalityType
    <3> QED BY <2>1, <2>3, <2>8, <3>3, <3>5, <3>6
  <2> QED BY <2>9, <2>10
<1> QED BY <1>4, <1>5

LEMMA AnswerKeeps == ASSUME IInv, NEW t \in pool, Answer(t) PROVE IInv'
<1>1. HeadsInv /\ LockedInv /\ CompletedInv /\ PageInv /\ HeadsInv' /\ LockedInv' /\ Calm
  BY DecideKeeps DEF IInv
<1>2. /\ LoopsInv'
      /\ \A p \in Payments : /\ NoNewPast(loop[p], loop'[p]) /\ KeepsClaims(loop[p], loop'[p])
                             /\ Valid(t) \/ ~Hears(p, t) => KeepsRelays(loop[p], loop'[p])
                             /\ loop'[p] = loop[p] \/ Turns(loop[p], loop'[p])
                             /\ ~Hears(p, t) => loop'[p] = loop[p]
  BY <1>1, LoopsHear
<1>3. PageInv'
  <2>1. UNCHANGED <<pairs, troubles>> /\ shown' \in {shown, NotBusy}
    BY DEF Answer
  <2>2. PICK D : D = {p \in Payments : Hears(p, t) /\ loop[p].tx # t.id}
    OBVIOUS
  <2>3. doubts' = doubts + IF Valid(t) THEN 0 ELSE Cardinality(D)
    BY <2>2 DEF Answer
  <2>4. Cardinality(D) \in Nat
    BY <2>2, Sizes, FS_Subset, FS_CardinalityType
  <2>5. doubts' \in Nat
    BY <1>1, <2>3, <2>4 DEF PageInv
  <2>6. pairs' \in [Hashes -> {"none", "fresh", "used"}] /\ troubles' \in Nat
    BY <1>1, <2>1 DEF PageInv
  <2> QED BY <1>1, <2>1, <2>5, <2>6, PageKept
<1>4. CompletedInv'
  BY <1>1, <1>2, CompletedKept
<1>5. RelaysInv'
  BY <1>1, <1>2, <1>3, AnswerRelays
<1>6. ClaimsInv'
  BY <1>2, AnswerClaims
<1> QED BY <1>1, <1>2, <1>3, <1>4, <1>5, <1>6 DEF IInv

-----------------------------------------------------------------------------
(* The inductive invariant *)

LEMMA InitHolds == Init => IInv
<1> SUFFICES ASSUME Init PROVE IInv
  OBVIOUS
<1>1. /\ utxo = Coins /\ snapshot = Coins /\ pool = {} /\ sent = 0 /\ now = 0
      /\ loop = [p \in Payments |-> Idle] /\ shown = Cleared /\ pairs = [h \in Hashes |-> "none"]
      /\ troubles = 0 /\ doubts = 0 /\ locked = {} /\ claimed = {}
  BY DEF Init, HeadInit, PathInit
<1>2. \A c \in Coins : c.kind = "coin" /\ c.tx \in Int /\ c.tx <= 0
  BY Sizes
<1>3. HeadsInv
  <2>1. \A o \in utxo \cup snapshot : OutputOK(o) /\ ~IsHtlc(o)
    BY <1>1, <1>2 DEF OutputOK, IsHtlc
  <2>2. sent \in 0..MaxTxs /\ now \in 0..MaxNow
    BY <1>1, Sizes
  <2> QED BY <1>1, <2>1, <2>2 DEF HeadsInv
<1>4. LockedInv
  BY <1>1 DEF LockedInv
<1>5. ASSUME NEW p \in Payments PROVE loop[p] = Idle
  BY <1>1
<1>6. Idle \in LoopState /\ Idle.pc = "idle" /\ Idle.tx = 0 /\ Idle.path = <<>> /\ Idle.hash = "none" /\ Idle.collect = {}
  BY Sizes DEF Idle, LoopState, Pcs
<1>7. LoopsInv
  <2>1. LoopTyped(Idle)
    BY <1>1, <1>6 DEF LoopTyped
  <2>2. LoopMade(Idle) /\ LoopPaid(Idle)
    BY <1>6 DEF LoopMade, LoopPaid
  <2>3. DOMAIN loop = Payments
    BY <1>1
  <2> QED BY <1>5, <1>6, <2>1, <2>2, <2>3 DEF LoopsInv
<1>8. PageInv
  <2>1. shown \in [on : BOOLEAN, busy : BOOLEAN, recorded : SUBSET (1..3)] /\ ~shown.busy
    BY <1>1 DEF Cleared
  <2>2. pairs \in [Hashes -> {"none", "fresh", "used"}]
    BY <1>1
  <2>3. doubts \in Nat /\ troubles \in Nat
    BY <1>1
  <2> QED BY <2>1, <2>2, <2>3 DEF PageInv
<1>9. DOMAIN <<>> = {} /\ Cardinality({}) = 0
  BY FS_EmptySet
<1>10. CompletedInv
  <2> SUFFICES ASSUME NEW hash \in Hashes, NEW steps \in StepSets
               PROVE  Cardinality(Completed(hash, steps)) <= Cardinality(AtRest(hash, steps))
    BY DEF CompletedInv
  <2>1. Completed(hash, steps) = {}
    BY <1>5, <1>6, <1>9 DEF Completed
  <2>2. AtRest(hash, steps) = {}
    BY <1>1 DEF AtRest, LockedFor
  <2> QED BY <1>9, <2>1, <2>2
<1>11. RelaysInv
  <2> SUFFICES ASSUME NEW hash \in Hashes, NEW x \in Intermediaries
               PROVE  Cardinality(Relays(hash, x)) <= Cardinality(Relaying(hash, x)) + doubts
    BY DEF RelaysInv
  <2>1. Relaying(hash, x) = {}
    BY <1>5, <1>6, <1>9 DEF Relaying
  <2>2. Relays(hash, x) = {}
    BY <1>1 DEF Relays
  <2> QED BY <1>1, <1>9, <2>1, <2>2
<1>12. ClaimsInv
  <2> SUFFICES ASSUME NEW hash \in Hashes, NEW x \in Intermediaries
               PROVE  Cardinality(To(Of(claimed, hash), x)) + Cardinality(Claiming(hash, x)) <= Cardinality(Collecting(hash, x))
    BY DEF ClaimsInv
  <2>1. Claiming(hash, x) = {} /\ To(Of(claimed, hash), x) = {} /\ Collecting(hash, x) = {}
    BY <1>1 DEF Claiming, To, Of, Collecting
  <2> QED BY <1>9, <2>1
<1> QED BY <1>3, <1>4, <1>7, <1>8, <1>10, <1>11, <1>12 DEF IInv

LEMMA PayHolds == ASSUME IInv, NEW p \in Payments, Pay(p) PROVE IInv'
<1>1. CASE \E h \in Hashes, user \in PaymentUsers, head \in Heads :
               \E path \in findPaymentPath(Topology, user, head) : Submit(p, path, h)
  <2>1. PICK h \in Hashes, user \in PaymentUsers, head \in Heads :
               \E path \in findPaymentPath(Topology, user, head) : Submit(p, path, h)
    BY <1>1
  <2>2. PICK path \in findPaymentPath(Topology, user, head) : Submit(p, path, h)
    BY <2>1
  <2>3. IsPath(path)
    BY Sizes DEF findPaymentPath
  <2> QED BY <2>2, <2>3, SubmitKeeps
<1>2. CASE Lock(p)
  BY <1>2, LockKeeps
<1>3. CASE LockFails(p)
  BY <1>3, LockFailsKeeps
<1>4. CASE AnswerLost(p)
  BY <1>4, AnswerLostKeeps
<1>5. CASE Awaited(p)
  BY <1>5, AwaitedKeeps
<1>6. CASE Settled(p)
  BY <1>6, SettledKeeps
<1>7. CASE Covered(p)
  BY <1>7, CoveredKeeps
<1>8. CASE NotConfirmed(p)
  BY <1>8, NotConfirmedKeeps
<1>9. CASE Vanished(p)
  BY <1>9, VanishedKeeps
<1>10. CASE WatchEnds(p)
  BY <1>10, WatchEndsKeeps
<1>11. ASSUME NEW i \in 1..3, Collect(p, i) PROVE IInv'
  BY <1>11, CollectKeeps
<1> QED BY <1>1, <1>2, <1>3, <1>4, <1>5, <1>6, <1>7, <1>8, <1>9, <1>10, <1>11 DEF Pay

LEMMA NextHolds == IInv /\ [Next]_vars => IInv'
<1> SUFFICES ASSUME IInv, [Next]_vars PROVE IInv'
  OBVIOUS
<1>1. ASSUME NEW p \in Payments, Pay(p) PROVE IInv'
  BY <1>1, PayHolds
<1>2. ASSUME NEW h \in Hashes, Generate(h) PROVE IInv'
  BY <1>2, GenerateKeeps
<1>3. CASE ResetPayment
  BY <1>3, ResetPaymentKeeps
<1>4. CASE Reload
  BY <1>4, ReloadKeeps
<1>5. ASSUME NEW t \in pool, Answer(t) PROVE IInv'
  BY <1>5, AnswerKeeps
<1>6. ASSUME NEW o \in snapshot, UserClaim(o) PROVE IInv'
  BY <1>6, UserClaimKeeps
<1>7. ASSUME NEW o \in snapshot, UserRefund(o) PROVE IInv'
  BY <1>7, UserRefundKeeps
<1>8. ASSUME NEW head \in Heads, Confirm(head), UNCHANGED <<pageVars, troubles, doubts, historyVars>> PROVE IInv'
  BY <1>8, ConfirmStep
<1>9. CASE Wait
  BY <1>9, WaitStep
<1>10. CASE UNCHANGED vars
  <2>1. UNCHANGED <<headVars, historyVars, loop, shown, pairs, troubles, doubts, pool, sent, locked, claimed>>
    BY <1>10 DEF vars, headVars, historyVars
  <2>2. HeadsInv /\ LockedInv /\ LoopsInv /\ HeadsInv' /\ LockedInv' /\ Calm
    BY <2>1, StillKeeps DEF IInv
  <2>3. PageInv'
    BY <2>1, PageKept DEF IInv, PageInv
  <2> QED BY <2>1, <2>2, <2>3, LoopsStill, OrdinaryStill
<1> QED BY <1>1, <1>2, <1>3, <1>4, <1>5, <1>6, <1>7, <1>8, <1>9, <1>10 DEF Next

LEMMA Invariance == Spec => []IInv
BY InitHolds, NextHolds, PTL DEF Spec

-----------------------------------------------------------------------------
(* The properties *)

\* A loop that posted has a transaction, and one that collects has the preimage.
THEOREM PathTypeCorrect == Spec => []TypeOK
<1>1. IInv => TypeOK
  <2> SUFFICES ASSUME IInv PROVE TypeOK
    OBVIOUS
  <2>1. ASSUME NEW p \in Payments
        PROVE  /\ loop[p].pc \in {"idle", "lock", "sent", "await", "settle", "cover", "watch",
                                  "collect", "done", "failed", "gone"}
               /\ loop[p].pc \in {"sent", "await", "settle", "watch"} => loop[p].tx \in 1..sent
               /\ loop[p].collect # {} => loop[p].preimage
               /\ loop[p].retry \in 0..MAX_RETRIES
    <3>1. PICK k : k = loop[p]
      OBVIOUS
    <3>2. LoopTyped(k) /\ sent \in Nat
      BY <3>1 DEF IInv, LoopsInv, HeadsInv
    <3>3. k.pc \in Pcs /\ k.retry \in 0..MAX_RETRIES /\ k.tx \in 0..sent
      BY <3>2 DEF LoopTyped, LoopState
    <3>4. k.pc \in {"sent", "await", "settle", "watch"} => k.tx # 0
      BY <3>2 DEF LoopTyped
    <3>5. k.collect # {} => k.preimage
      BY <3>2 DEF LoopTyped
    <3>6. \A n \in 0..sent : n # 0 => n \in 1..sent
      BY <3>2
    <3> QED BY <3>1, <3>3, <3>4, <3>5, <3>6 DEF Pcs
  <2>2. /\ shown \in [on : BOOLEAN, busy : BOOLEAN, recorded : SUBSET (1..3)]
        /\ shown.busy => shown.on
        /\ pairs \in [Hashes -> {"none", "fresh", "used"}]
        /\ claimed \subseteq locked
    BY DEF IInv, PageInv, LockedInv
  <2> QED BY <2>1, <2>2 DEF TypeOK
<1> QED BY <1>1, Invariance, PTL

\* No payment that did not arrive is collected for: each claim for an intermediary stands
\* for another loop, whose last HTLC the payee has claimed.
THEOREM CollectedOnlyAfterPaid == Spec => []CollectedAfterPaid
<1>1. IInv => CollectedAfterPaid
  <2> SUFFICES ASSUME IInv, NEW h \in Hashes, NEW x \in Intermediaries
               PROVE  Cardinality(To(Of(claimed, h), x)) <= Cardinality({o \in Of(claimed, h) : o.to \notin Intermediaries})
    BY DEF CollectedAfterPaid
  <2>1. HeadsInv /\ LockedInv /\ LoopsInv /\ ClaimsInv
    BY DEF IInv
  <2>2. PICK paid : paid = {o \in Of(claimed, h) : o.to \notin Intermediaries}
    OBVIOUS
  <2>3. PICK who : who = Collecting(h, x)
    OBVIOUS
  <2>4. IsFiniteSet(paid)
    <3>1. paid \subseteq locked
      BY <2>1, <2>2 DEF Of, LockedInv
    <3> QED BY <2>1, <3>1, LockedFinite, FS_Subset
  <2>5. ASSUME NEW p \in who PROVE p \in Payments /\ \E o \in paid : o.tx = loop[p].tx
    BY <2>2, <2>3 DEF Collecting, Of
  <2>6. ASSUME NEW p \in who, NEW q \in who, NEW o \in paid, o.tx = loop[p].tx, o.tx = loop[q].tx PROVE p = q
    <3>1. o.tx # 0
      BY <2>1, <2>2 DEF Of, LockedInv
    <3> QED BY <2>1, <2>5, <2>6, <3>1 DEF LoopsInv
  <2>7. Cardinality(who) <= Cardinality(paid)
    <3> DEFINE f == [p \in who |-> CHOOSE o \in paid : o.tx = loop[p].tx]
    <3>1. ASSUME NEW p \in who PROVE f[p] \in paid /\ f[p].tx = loop[p].tx
      BY <2>5
    <3>2. f \in [who -> paid]
      BY <3>1
    <3>3. DOMAIN f = who
      OBVIOUS
    <3> HIDE DEF f
    <3>4. ASSUME NEW p \in who, NEW q \in who, f[p] = f[q] PROVE p = q
      BY <2>6, <3>1, <3>4
    <3>5. f \in Injection(who, paid)
      BY <3>2, <3>3, <3>4 DEF Injection, IsInjective
    <3> QED BY <2>4, <3>5, FS_Injection
  <2>8. Cardinality(To(Of(claimed, h), x)) + Cardinality(Claiming(h, x)) <= Cardinality(who)
    BY <2>1, <2>3 DEF ClaimsInv
  <2>9. Cardinality(To(Of(claimed, h), x)) \in Nat /\ Cardinality(Claiming(h, x)) \in Nat /\ Cardinality(who) \in Nat
    BY <2>1, <2>3, ClaimCounts
  <2>10. Cardinality(paid) \in Nat
    BY <2>4, FS_CardinalityType
  <2>11. Cardinality(To(Of(claimed, h), x)) <= Cardinality(paid)
    BY <2>7, <2>8, <2>9, <2>10
  <2> QED BY <2>2, <2>11
<1> QED BY <1>1, Invariance, PTL

\* What an intermediary locks is for a loop that completed the step before, whose HTLC is
\* at rest, or for one that took the lock for failed.
THEOREM RelaysAreCovered == Spec => []RelayCovered
<1>1. IInv => RelayCovered
  <2> SUFFICES ASSUME IInv, NEW h \in Hashes, NEW x \in Intermediaries
               PROVE  Cardinality(From(Of(locked, h), x)) <= Cardinality(To(Of(locked, h), x)) + doubts
    BY DEF RelayCovered
  <2>1. HeadsInv /\ LockedInv /\ LoopsInv /\ RelaysInv /\ CompletedInv /\ PageInv
    BY DEF IInv
  <2>2. PICK steps : steps = {s \in Steps : s.to = x}
    OBVIOUS
  <2>3. steps \in StepSets
    BY <2>2 DEF StepSets
  <2>4. IsFiniteSet(locked) /\ IsFiniteSet(1..sent)
    BY <2>1, LockedFinite, PoolFinite
  <2>5. IsFiniteSet(Relays(h, x)) /\ IsFiniteSet(Relaying(h, x)) /\ IsFiniteSet(Completed(h, steps))
        /\ IsFiniteSet(AtRest(h, steps)) /\ IsFiniteSet(To(Of(locked, h), x)) /\ IsFiniteSet(From(Of(locked, h), x))
    <3>1. /\ Relays(h, x) \subseteq 1..sent /\ Relaying(h, x) \subseteq Payments /\ Completed(h, steps) \subseteq Payments
          /\ AtRest(h, steps) \subseteq locked /\ To(Of(locked, h), x) \subseteq locked /\ From(Of(locked, h), x) \subseteq locked
      BY DEF Relays, Relaying, Completed, AtRest, LockedFor, To, From, Of
    <3> QED BY <2>4, <3>1, Sizes, FS_Subset
  <2>6. Cardinality(From(Of(locked, h), x)) <= Cardinality(Relays(h, x))
    <3> DEFINE f == [o \in From(Of(locked, h), x) |-> o.tx]
    <3>1. ASSUME NEW o \in From(Of(locked, h), x) PROVE o \in locked /\ o.tx \in Relays(h, x)
      BY <2>1 DEF From, Of, Relays, LockedInv
    <3>2. f \in Injection(From(Of(locked, h), x), Relays(h, x))
      BY <2>1, <3>1 DEF Injection, IsInjective, LockedInv
    <3> QED BY <2>5, <3>2, FS_Injection
  <2>7. Relaying(h, x) \subseteq Completed(h, steps)
    <3> SUFFICES ASSUME NEW p \in Relaying(h, x) PROVE p \in Completed(h, steps)
      OBVIOUS
    <3>1. PICK k : k = loop[p]
      OBVIOUS
    <3>2. p \in Payments /\ k.hash = h /\ LoopTyped(k)
      BY <2>1, <3>1 DEF Relaying, LoopsInv
    <3>3. PICK i \in DOMAIN k.path : k.path[i].from = x /\ (i < k.step \/ i = k.step)
      BY <3>1 DEF Relaying
    <3>4. IsPath(k.path) /\ k.step \in 1..3
      <4>1. k.path # <<>>
        BY <3>3
      <4> QED BY <3>2, <4>1 DEF LoopTyped, LoopState
    <3>5. i \in 1..Len(k.path) /\ Len(k.path) \in 2..3 /\ DOMAIN k.path = 1..Len(k.path) /\ i # 1 /\ k.path[i - 1].to = x
      BY <3>3, <3>4, PathFacts
    <3>6. i - 1 \in 1..Len(k.path) /\ i - 1 < k.step
      BY <3>3, <3>4, <3>5
    <3>7. k.path[i - 1] \in steps
      BY <2>2, <3>4, <3>5, <3>6, PathFacts
    <3>8. Past(k, i - 1)
      BY <3>6 DEF Past
    <3> QED BY <3>1, <3>2, <3>5, <3>6, <3>7, <3>8 DEF Completed
  <2>8. AtRest(h, steps) \subseteq To(Of(locked, h), x)
    BY <2>2 DEF AtRest, LockedFor, To, Of
  <2>9. Cardinality(Relays(h, x)) <= Cardinality(Relaying(h, x)) + doubts /\ doubts \in Nat
    BY <2>1 DEF RelaysInv, PageInv
  <2>10. Cardinality(Relaying(h, x)) <= Cardinality(Completed(h, steps))
    BY <2>5, <2>7, Smaller
  <2>11. Cardinality(Completed(h, steps)) <= Cardinality(AtRest(h, steps))
    BY <2>1, <2>3 DEF CompletedInv
  <2>12. Cardinality(AtRest(h, steps)) <= Cardinality(To(Of(locked, h), x))
    BY <2>5, <2>8, Smaller
  <2>13. /\ Cardinality(Relays(h, x)) \in Nat /\ Cardinality(Relaying(h, x)) \in Nat /\ Cardinality(Completed(h, steps)) \in Nat
         /\ Cardinality(AtRest(h, steps)) \in Nat /\ Cardinality(To(Of(locked, h), x)) \in Nat
         /\ Cardinality(From(Of(locked, h), x)) \in Nat
    BY <2>5, FS_CardinalityType
  <2> QED BY <2>6, <2>9, <2>10, <2>11, <2>12, <2>13
<1> QED BY <1>1, Invariance, PTL

\* As many HTLCs of a step have been at rest in a head as payments have completed it.
THEOREM CompletedAreLocked == Spec => []CompletedIsLocked
<1>1. IInv => CompletedIsLocked
  <2> SUFFICES ASSUME IInv, NEW p \in Payments, loop[p].pc \in {"watch", "collect", "done"},
                      NEW i \in DOMAIN loop[p].path
               PROVE  Cardinality(From(To(Of(locked, loop[p].hash), loop[p].path[i].to), loop[p].path[i].from)) >=
                      Cardinality({q \in Payments : /\ loop[q].pc \in {"watch", "collect", "done"}
                                                    /\ loop[q].hash = loop[p].hash
                                                    /\ loop[q].path = loop[p].path})
    BY DEF CompletedIsLocked
  <2>1. HeadsInv /\ LockedInv /\ LoopsInv /\ CompletedInv
    BY DEF IInv
  <2>2. PICK k : k = loop[p]
    OBVIOUS
  <2>3. LoopTyped(k) /\ IsPath(k.path) /\ k.hash \in Hashes /\ i \in DOMAIN k.path /\ k.path[i] \in Steps
    <3>1. LoopTyped(k) /\ IsPath(k.path) /\ k.hash \in Hashes /\ i \in DOMAIN k.path
      BY <2>1, <2>2 DEF LoopsInv, LoopTyped
    <3> QED BY <3>1, PathFacts
  <2>4. PICK step \in Steps : step = k.path[i]
    BY <2>3
  <2>5. PICK steps : steps = {step}
    OBVIOUS
  <2>6. steps \in StepSets
    BY <2>4, <2>5 DEF StepSets
  <2>7. PICK done : done = {q \in Payments : /\ loop[q].pc \in {"watch", "collect", "done"}
                                             /\ loop[q].hash = loop[p].hash
                                             /\ loop[q].path = loop[p].path}
    OBVIOUS
  <2>8. PICK made : made = From(To(Of(locked, k.hash), step.to), step.from)
    OBVIOUS
  <2>9. done \subseteq Completed(k.hash, steps)
    <3> SUFFICES ASSUME NEW q \in done PROVE q \in Completed(k.hash, steps)
      OBVIOUS
    <3>1. q \in Payments /\ loop[q].pc \in {"watch", "collect", "done"} /\ loop[q].hash = k.hash /\ loop[q].path = k.path
      BY <2>2, <2>7
    <3>2. loop[q].step = Len(k.path)
      BY <2>1, <3>1 DEF LoopsInv, LoopTyped
    <3>3. i \in 1..Len(k.path) /\ Len(k.path) \in 2..3
      BY <2>3, PathFacts
    <3>4. i < loop[q].step \/ i = loop[q].step
      BY <3>2, <3>3
    <3>5. Past(loop[q], i)
      BY <3>1, <3>4 DEF Past
    <3> QED BY <2>3, <2>4, <2>5, <3>1, <3>5 DEF Completed
  <2>10. AtRest(k.hash, steps) \subseteq made
    BY <2>5, <2>8 DEF AtRest, LockedFor, From, To, Of
  <2>11. IsFiniteSet(Completed(k.hash, steps)) /\ IsFiniteSet(made)
    <3>1. Completed(k.hash, steps) \subseteq Payments /\ made \subseteq locked
      BY <2>8 DEF Completed, From, To, Of
    <3> QED BY <2>1, <3>1, Sizes, LockedFinite, FS_Subset
  <2>12. Cardinality(Completed(k.hash, steps)) <= Cardinality(AtRest(k.hash, steps))
    BY <2>1, <2>3, <2>6 DEF CompletedInv
  <2>13. Cardinality(done) <= Cardinality(Completed(k.hash, steps)) /\ Cardinality(done) \in Nat
         /\ Cardinality(Completed(k.hash, steps)) \in Nat
    BY <2>9, <2>11, Smaller
  <2>14. Cardinality(AtRest(k.hash, steps)) <= Cardinality(made) /\ Cardinality(made) \in Nat
         /\ Cardinality(AtRest(k.hash, steps)) \in Nat
    BY <2>10, <2>11, Smaller
  <2>15. Cardinality(made) >= Cardinality(done)
    BY <2>12, <2>13, <2>14
  <2> QED BY <2>2, <2>4, <2>7, <2>8, <2>15
<1> QED BY <1>1, Invariance, PTL

\* The lifetimes fall along a path, and no one refunds while an HTLC can be claimed, so the
\* cover of the same minute outlives the relay, for every timeout of the form.
THEOREM CoversOutlive == Spec => []CoverOutlives
<1>1. IInv => CoverOutlives
  <2> SUFFICES ASSUME IInv, NEW o \in utxo, IsHtlc(o), o.from \in Intermediaries, now <= o.timeout - ClaimMargin,
                      NEW i \in locked, i.hash = o.hash, i.to = o.from, i.tx < o.tx, i.at = o.at
               PROVE  i \in claimed \/ (i \in utxo /\ now <= i.timeout - ClaimMargin)
    BY DEF CoverOutlives
  <2>1. HeadsInv /\ LockedInv
    BY DEF IInv
  <2>2. HtlcOK(o) /\ HtlcOK(i)
    BY <2>1 DEF HeadsInv, LockedInv
  <2>3. PICK a \in 1..3 : i.timeout = i.at + calculateStepTimeout(a) /\ a # 3
    BY <2>2 DEF HtlcOK, Lifetime
  <2>4. PICK b \in 1..3 : o.timeout = o.at + calculateStepTimeout(b) /\ b # 1
    BY <2>2 DEF HtlcOK, Lifetime
  <2>5. calculateStepTimeout(b) <= calculateStepTimeout(a)
        /\ calculateStepTimeout(a) \in Nat /\ calculateStepTimeout(b) \in Nat
    <3>1. (a = 1 \/ a = 2) /\ (b = 2 \/ b = 3)
      BY <2>3, <2>4
    <3>2. /\ calculateStepTimeout(1) \in Nat /\ calculateStepTimeout(2) \in Nat /\ calculateStepTimeout(3) \in Nat
          /\ calculateStepTimeout(2) <= calculateStepTimeout(1) /\ calculateStepTimeout(3) <= calculateStepTimeout(2)
      BY Lifetimes
    <3> QED BY <3>1, <3>2
  <2>6. o.timeout <= i.timeout /\ i.timeout \in Nat /\ o.timeout \in Nat
    BY <2>2, <2>3, <2>4, <2>5 DEF HtlcOK
  <2>7. now \in Nat /\ ClaimMargin \in Nat
    BY <2>1, Sizes DEF HeadsInv
  <2>8. now <= i.timeout - ClaimMargin /\ ~(now > i.timeout)
    BY <2>6, <2>7
  <2>9. i \in utxo \cup claimed
    BY <2>1, <2>8 DEF LockedInv
  <2> QED BY <2>8, <2>9
<1> QED BY <1>1, Invariance, PTL
=============================================================================
