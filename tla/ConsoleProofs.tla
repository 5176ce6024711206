--------------------------- MODULE ConsoleProofs ---------------------------
(***************************************************************************)
(* What the pages of a user and of an administrator promise, for any       *)
(* number of tabs, desks, clicks, reloads, lost answers and workflows.     *)
(*                                                                         *)
(* The two views never run together, so the invariant is that of the view  *)
(* which is shown, and of the other one that it has not moved.             *)
(***************************************************************************)
EXTENDS Console, FiniteSetTheorems, SequenceTheorems, TLAPS

-----------------------------------------------------------------------------
(* The page of a user: outputs and transactions *)

PageOutput == [head: Heads, kind: {"alice", "wallet", "funds", "lock"}, print: Prints \cup {0}, tx: Nat]

Moved(o) == o.kind \in {"funds", "lock"}

\* Each transaction moves one output, and is the only one with its id.
PageTx(x) ==
    /\ x.id \in 1..sent
    /\ x.makes \subseteq PageOutput
    /\ \A o \in x.makes : o.tx = x.id
    /\ \A o, q \in x.makes : Moved(o) /\ Moved(q) => o = q

PageHeads ==
    /\ sent \in 0..MaxTxs /\ now \in 0..MaxNow
    /\ utxo \subseteq PageOutput /\ snapshot \subseteq PageOutput
    /\ \A x \in pool : PageTx(x)
    /\ \A x, y \in pool : x.id = y.id => x = y
    /\ \A o \in utxo : Moved(o) => o.tx \in 1..sent /\ \A x \in pool : x.id # o.tx
    /\ \A o, q \in utxo : Moved(o) /\ Moved(q) /\ o.tx = q.tx => o = q

-----------------------------------------------------------------------------
(* Its mutations, keys and workflows *)

RunState == [pc: RunPcs, print: Prints \cup {0}, key: Nat, draft: PageOutput, tx: Nat,
             tab: Tabs \cup {NoTab}, open: BOOLEAN]
Flow == [print: Prints, key: Nat, source: Nat, status: {"pending", "failed", "succeeded", "cancelled"}, tries: Nat]

PageTypes ==
    /\ tab \in [Tabs -> [form: Amounts, hash: 0..MaxClicks, watch: Nat, wallet: BOOLEAN]]
    /\ run \in [Runs -> RunState]
    /\ intents \in [Prints -> [key: Nat, flow: Nat]]
    /\ flows \in Seq(Flow)
    /\ headRow \in [Heads -> BOOLEAN] /\ up \in [Heads -> BOOLEAN]
    /\ clicks \in 0..MaxClicks /\ keys \in Nat /\ losses \in Nat /\ excused \in Nat
    /\ \A t \in Tabs : tab[t].watch \in 0..Len(flows) /\ tab[t].hash <= clicks
    /\ \A p \in Prints : intents[p].flow \in 0..Len(flows)

\* What the server has of a purchase.
Posted(print) == \E f \in DOMAIN flows : flows[f].print = print
Stored(print, key) == \E f \in DOMAIN flows : flows[f].print = print /\ flows[f].key = key

Sent(r) == r.pc \in {"await", "attach", "report"} \/ (r.pc = "post" /\ ~IsBuy(r.print))

RunOK(c, r) ==
    /\ c > clicks => r.pc = "idle"
    /\ r.pc = "idle" => r.key = 0
    /\ r.pc # "idle" => r.print \in Prints /\ (IsBuy(r.print) => r.print = c) /\ r.key \in 1..keys
    /\ r.draft.kind \in {"alice", "wallet"}
    /\ IF Sent(r) THEN r.tx \in 1..sent ELSE r.tx = 0
    /\ r.pc = "attach" => IsBuy(r.print) /\ view = "user"
    /\ r.pc = "report" => IsBuy(r.print)
    /\ r.pc \in {"send", "await", "attach", "report"} /\ IsBuy(r.print) => Stored(r.print, r.key)
    /\ r.open \/ r.pc \in {"idle", "await", "attach"}

RunsInv ==
    /\ \A c \in Runs : RunOK(c, run[c])
    /\ \A c, d \in Runs : run[c].tx = run[d].tx /\ run[c].tx # 0 => c = d

\* Each key is about one thing, wherever it is: in an intent, a mutation or a workflow.
KeyUses ==
    {<<intents[p].key, p>> : p \in {p \in Prints : intents[p].key # 0}}
    \cup {<<run[c].key, run[c].print>> : c \in {c \in Runs : run[c].pc # "idle"}}
    \cup {<<flows[f].key, flows[f].print>> : f \in DOMAIN flows}

KeysInv ==
    /\ \A u \in KeyUses : u[1] \in 1..keys
    /\ \A u, v \in KeyUses : u[1] = v[1] => u[2] = v[2]
    /\ \A p \in Prints : IsBuy(p) /\ intents[p].key # 0 => p <= clicks

\* The workflow of a purchase has its key, and no transaction but its own.
FlowOK(w) ==
    IsBuy(w.print) =>
        /\ w.print <= clicks
        /\ run[w.print].pc # "idle" => w.key = run[w.print].key /\ w.source \in {0, run[w.print].tx}

FlowsInv ==
    /\ \A f \in DOMAIN flows : FlowOK(flows[f])
    /\ \A f, g \in DOMAIN flows : flows[f].key = flows[g].key => f = g
    /\ OneRowPerPurchase

LocksInv ==
    /\ \A o \in utxo : o.kind = "lock" => Posted(o.print)
    /\ \A x \in pool : \A o \in x.makes : o.kind = "lock" => Posted(o.print)

-----------------------------------------------------------------------------
(* Transactions of a page that no one will record any more *)

Live(k) == (\E x \in pool : x.id = k) \/ \E o \in utxo : Moved(o) /\ o.tx = k
Recorded(k) == \E f \in DOMAIN flows : flows[f].source = k

\* The mutation, or the server for it, still has to record the transaction k.
WillRecord(r, k) ==
    r.tx = k /\ Sent(r) /\ (r.open \/ (IsBuy(r.print) /\ view = "user"))

LostTxs == {k \in 1..sent : Live(k) /\ ~Recorded(k) /\ \A c \in Runs : ~WillRecord(run[c], k)}

LostInv == Cardinality(LostTxs) <= losses + excused

PageInv == PageHeads /\ PageTypes /\ RunsInv /\ KeysInv /\ FlowsInv /\ LocksInv /\ LostInv

-----------------------------------------------------------------------------
(* The desks: outputs, scripts and requests *)

AdminKinds(outputs) == outputs \subseteq Output /\ \A o \in outputs : o.kind \in {"coin", "lottery"}

AdminTx(t) ==
    /\ t.id \in 1..sent
    /\ t.redeemer = "Mint"
    /\ \A o \in t.spends : o.kind = "coin"
    /\ AdminKinds(t.spends) /\ AdminKinds(t.makes)
    /\ \A o \in t.makes : o.tx = t.id
    /\ \A o, q \in t.makes : o.kind = q.kind => o = q
    /\ \E m \in Makers : maker[m].tx = t.id

AdminHeads ==
    /\ sent \in 0..MaxTxs /\ now \in 0..MaxNow
    /\ AdminKinds(utxo) /\ AdminKinds(snapshot)
    /\ \A o \in snapshot : o.tx \in 0..sent
    /\ \A t \in pool : AdminTx(t)
    /\ \A t, u \in pool : t.id = u.id => t = u
    /\ \A o \in utxo : o.tx \in 0..sent /\ \A t \in pool : t.id # o.tx
    /\ \A o, q \in utxo : o.kind = q.kind /\ o.tx = q.tx => o = q

\* Two lotteries are not minted from one coin: each is numbered after a coin that is spent.
Spent(lot) ==
    /\ lot \in 1..(sent + 1)
    /\ \A o \in utxo : o.kind = "coin" => TokenOf(o) # lot
    /\ \A t \in pool : t.id + 1 # lot

LotteriesInv ==
    /\ \A o \in utxo : o.kind = "lottery" => Spent(o.lot) /\ o.tx # 0 /\ \E m \in Makers : maker[m].tx = o.tx
    /\ \A o, q \in utxo : o.kind = "lottery" /\ q.kind = "lottery" /\ o.lot = q.lot => o = q

MakerState == [pc: {"idle", "mint", "await", "register", "waiting", "done"}, lot: Int, tx: Nat, tries: 0..Retries]
DeskState == [record: Int, result: Int, creating: 0..MaxCreates, reconciling: BOOLEAN]
Ask == [from: Makers \cup Desks \cup {None}, lot: Int, pc: {"count", "insert"}]
OrderState == [pc: {"idle", "look", "create"}, op: Operations \cup {"none"}, desk: Desks \cup {None}]
Job == [op: Operations, status: {"pending", "running", "failed", "ended"}, again: BOOLEAN]

AdminTypes ==
    /\ desk \in [Desks -> DeskState]
    /\ maker \in [Makers -> MakerState]
    /\ asks \subseteq Ask /\ IsFiniteSet(asks)
    /\ registry \in Seq(Int)
    /\ order \in [Orders -> OrderState]
    /\ jobs \in Seq(Job)
    /\ creates \in 0..MaxCreates /\ orders \in 0..MaxOrders
    /\ unheard \in Nat /\ dropped \in Nat /\ misheard \in Nat /\ overlaps \in Nat /\ rushed \in Nat

-----------------------------------------------------------------------------
(* Operations and registrations *)

Fresh(op) == {j \in DOMAIN jobs : jobs[j].op = op /\ ~jobs[j].again /\ jobs[j].status \in {"pending", "running"}}
Creating(op) == {r \in Orders : order[r].pc = "create" /\ order[r].op = op}
Busy == {r \in Orders : order[r].pc # "idle"}

OrdersInv ==
    /\ \A r \in Orders : (r > orders => order[r].pc = "idle") /\ ((order[r].pc = "idle") = (order[r].op = "none"))
    /\ Cardinality(Busy) + Len(jobs) <= orders
    /\ \A j \in DOMAIN jobs : jobs[j].status = "failed" => jobs[j].again
    /\ \A op \in Operations : Cardinality(Fresh(op)) + Cardinality(Creating(op)) <= 1 + rushed

Inserting == {q \in asks : q.pc = "insert"}

RegistryInv == Len(registry) + Cardinality(Inserting) <= 1 + overlaps /\ NoLot \notin Registered

-----------------------------------------------------------------------------
(* Creations *)

Running(m) == maker[m].pc \notin {"idle", "done"}
Active(m) == maker[m].pc \in {"register", "waiting"}

MakersInv ==
    /\ \A m \in Makers :
          /\ m > creates => maker[m].pc = "idle"
          /\ maker[m].pc \in {"idle", "mint"} => maker[m].tx = 0
          /\ maker[m].pc \in {"await", "register", "waiting"} => maker[m].tx # 0
          /\ maker[m].tx \in 0..sent
          /\ maker[m].tx # 0 => maker[m].lot \in 1..sent
    /\ \A m, n \in Makers : maker[m].tx = maker[n].tx /\ maker[m].tx # 0 => m = n
    /\ \A m \in Makers : \A t \in pool : t.id = maker[m].tx =>
          /\ \A o \in t.makes : o.kind = "lottery" => o.lot = maker[m].lot
          /\ \E o \in t.makes : o.kind = "lottery"
          /\ \E o \in t.spends : TokenOf(o) = maker[m].lot
    /\ \A m \in Makers : \A o \in utxo : o.kind = "lottery" /\ o.tx = maker[m].tx => o.lot = maker[m].lot

DesksInv ==
    /\ \A d \in Desks :
          /\ desk[d].creating # 0 => Running(desk[d].creating)
          /\ desk[d].result = NoLot \/ desk[d].record \in {NoLot, desk[d].result}
    /\ \A d, e \in Desks : desk[d].creating = desk[e].creating /\ desk[d].creating # 0 => d = e

AsksInv ==
    /\ \A q \in asks :
          /\ q.lot # NoLot
          /\ q.from \in Desks => desk[q.from].reconciling
          /\ q.from \in Makers => maker[q.from].tx # 0 /\ maker[q.from].lot = q.lot
    /\ \A p, q \in asks : p.from = q.from /\ p.from \in Desks => p = q

\* The lotteries that are not on the head although someone has them: a script that took
\* another's answer for its own had them first.
InHand ==
    Registered \cup {q.lot : q \in asks} \cup {desk[d].record : d \in Desks} \cup {desk[d].result : d \in Desks}
    \cup {maker[m].lot : m \in {n \in Makers : Active(n)}}

Missing == {l \in InHand : l # NoLot /\ ~\E o \in utxo : o.kind = "lottery" /\ o.lot = l}

MissingInv == IsFiniteSet(Missing) /\ Cardinality(Missing) <= misheard

-----------------------------------------------------------------------------
(* Lotteries that no one has in hand *)

AtDesk(m) == \E d \in Desks : desk[d].creating = m

InPool(m) == \E t \in pool : t.id = maker[m].tx
Minted(m) == \E o \in utxo : o.kind = "lottery" /\ o.tx = maker[m].tx
Kept(lot) == lot \in Registered \/ \E d \in Desks : desk[d].record = lot

\* No desk will hear of what the script m mints, or has minted.
Orphaned(m) ==
    \/ maker[m].pc = "mint" /\ ~AtDesk(m)
    \/ InPool(m) /\ ~(maker[m].pc = "await" /\ AtDesk(m))
    \/ Minted(m) /\ ~(Running(m) /\ AtDesk(m)) /\ ~Kept(maker[m].lot)

Orphans == {m \in Makers : Orphaned(m)}

OrphansInv == Cardinality(Orphans) <= unheard + dropped + misheard

-----------------------------------------------------------------------------
(* Records of registered lotteries *)

\* Without lost or mistaken answers, a lottery is at one place: at its script, at a desk,
\* or in the registry.
Undisturbed ==
    /\ \A m \in Makers : Active(m) =>
          /\ Spent(maker[m].lot) /\ ~InPool(m)
          /\ \A n \in Makers : Active(n) /\ maker[n].lot = maker[m].lot => n = m
          /\ maker[m].lot \notin Registered
          /\ \A d \in Desks : desk[d].record # maker[m].lot /\ desk[d].result # maker[m].lot
          /\ \A q \in asks : q.lot = maker[m].lot => q.from = m
    /\ \A q \in asks : q.from \in Makers => maker[q.from].pc = "waiting"
    /\ \A p, q \in asks : p.from = q.from => p = q
    /\ \A q \in asks : q.from # None /\ Spent(q.lot)
    /\ \A l \in Registered : Spent(l)
    /\ \A d \in Desks :
          /\ desk[d].result # NoLot => Spent(desk[d].result)
          /\ desk[d].record # NoLot =>
                /\ Spent(desk[d].record) /\ desk[d].record \notin Registered
                /\ \A q \in asks : q.lot = desk[d].record => q.from = d
                /\ \A e \in Desks \ {d} : desk[e].record # desk[d].record /\ desk[e].result # desk[d].record

RecordsInv == unheard + misheard = 0 => Undisturbed

AdminInv ==
    /\ AdminHeads /\ LotteriesInv /\ AdminTypes /\ OrdersInv /\ RegistryInv
    /\ MakersInv /\ DesksInv /\ AsksInv /\ MissingInv /\ OrphansInv /\ RecordsInv

-----------------------------------------------------------------------------
(* The view that is not shown *)

PageIdle ==
    /\ PageTypeOK /\ flows = <<>> /\ losses = 0 /\ excused = 0
    /\ \A c \in Runs : RunAt(c, "idle") /\ run[c].tx = 0

AdminIdle ==
    /\ AdminTypeOK /\ registry = <<>> /\ jobs = <<>>
    /\ \A d \in Desks : desk[d].record = NoLot
    /\ \A m \in Makers : maker[m].tx = 0
    /\ unheard = 0 /\ dropped = 0 /\ misheard = 0 /\ overlaps = 0 /\ rushed = 0

IInv ==
    /\ view \in {"user", "charlie", "admin"}
    /\ view # "admin" => PageInv /\ AdminIdle
    /\ view = "admin" => AdminInv /\ PageIdle

-----------------------------------------------------------------------------
(* Counting *)

LEMMA CountGrows ==
    ASSUME NEW S, NEW T, NEW N, IsFiniteSet(S), IsFiniteSet(N), T \subseteq S \cup N
    PROVE  IsFiniteSet(T) /\ Cardinality(T) <= Cardinality(S) + Cardinality(N)
           /\ Cardinality(T) \in Nat /\ Cardinality(S) \in Nat /\ Cardinality(N) \in Nat
  <1>1. /\ IsFiniteSet(S \cup N)
        /\ Cardinality(S \cup N) = Cardinality(S) + Cardinality(N) - Cardinality(S \cap N)
    BY FS_Union
  <1>2. IsFiniteSet(S \cap N) BY FS_Intersection
  <1>3. Cardinality(S) \in Nat /\ Cardinality(N) \in Nat /\ Cardinality(S \cap N) \in Nat
    BY <1>2, FS_CardinalityType
  <1>4. T \in SUBSET (S \cup N) OBVIOUS
  <1>5. IsFiniteSet(T) /\ Cardinality(T) <= Cardinality(S \cup N) BY <1>1, <1>4, FS_Subset
  <1>6. Cardinality(T) \in Nat BY <1>5, FS_CardinalityType
  <1>7. QED BY <1>1, <1>3, <1>5, <1>6

\* T is counted by D, each member of which stands for at most one member of T.
LEMMA CountedBy ==
    ASSUME NEW D, IsFiniteSet(D), NEW T, NEW f, \A y \in T : \E x \in D : f[x] = y
    PROVE  IsFiniteSet(T) /\ Cardinality(T) <= Cardinality(D)
  <1> DEFINE E == {x \in D : f[x] \in T}
             g == [x \in E |-> f[x]]
  <1>1. IsFiniteSet(E) /\ Cardinality(E) <= Cardinality(D) BY FS_Subset
  <1>2. g \in Surjection(E, T) BY DEF Surjection
  <1>3. IsFiniteSet(T) /\ Cardinality(T) <= Cardinality(E) BY <1>1, <1>2, FS_Surjection
  <1>4. Cardinality(D) \in Nat /\ Cardinality(E) \in Nat /\ Cardinality(T) \in Nat
    BY <1>1, <1>3, FS_CardinalityType
  <1>5. QED BY <1>1, <1>3, <1>4

LEMMA NoneOrOne ==
    /\ IsFiniteSet({}) /\ Cardinality({}) = 0
    /\ \A x : IsFiniteSet({x}) /\ Cardinality({x}) = 1
  BY FS_EmptySet, FS_Singleton

\* A workflow or a job that is written, and one that is new.
LEMMA SeqWrites ==
    ASSUME NEW S, NEW s \in Seq(S), NEW i \in DOMAIN s, NEW e \in S
    PROVE  /\ [s EXCEPT ![i] = e] \in Seq(S)
           /\ Len([s EXCEPT ![i] = e]) = Len(s)
           /\ DOMAIN [s EXCEPT ![i] = e] = DOMAIN s
           /\ DOMAIN s = 1..Len(s)
           /\ \A j \in DOMAIN s : [s EXCEPT ![i] = e][j] = IF j = i THEN e ELSE s[j]
  <1>1. DOMAIN s = 1..Len(s) BY LenProperties
  <1>2. QED BY <1>1, ExceptSeq

LEMMA SeqAppends ==
    ASSUME NEW S, NEW s \in Seq(S), NEW e \in S
    PROVE  /\ Append(s, e) \in Seq(S)
           /\ Len(Append(s, e)) = Len(s) + 1
           /\ Len(s) \in Nat
           /\ DOMAIN s = 1..Len(s)
           /\ DOMAIN Append(s, e) = 1..(Len(s) + 1)
           /\ \A j \in DOMAIN s : Append(s, e)[j] = s[j]
           /\ Append(s, e)[Len(s) + 1] = e
  <1>1. DOMAIN s = 1..Len(s) /\ Len(s) \in Nat BY LenProperties
  <1>2. /\ Append(s, e) \in Seq(S) /\ Len(Append(s, e)) = Len(s) + 1
        /\ \A j \in 1..Len(s) : Append(s, e)[j] = s[j]
        /\ Append(s, e)[Len(s) + 1] = e
    BY AppendProperties
  <1>3. DOMAIN Append(s, e) = 1..Len(Append(s, e)) BY <1>2, LenProperties
  <1>4. QED BY <1>1, <1>2, <1>3

-----------------------------------------------------------------------------
(* The heads of a page *)

LEMMA PageNames ==
    /\ {"headA", "headB", "headC"} \subseteq Heads
    /\ Amounts \cap Nat = {}
    /\ MaxClicks \in Nat
    /\ FirstAmount \in Amounts
    /\ \A p \in Prints : (p \in Amounts /\ ~IsBuy(p)) \/ (p \in 1..MaxClicks /\ IsBuy(p))
    /\ 0 \notin Prints
    /\ Source \in {"headA", "headC"}
  BY PageAssumption DEF FirstAmount, Prints, IsBuy, Source

LEMMA MadeFields ==
    ASSUME NEW head \in Heads, NEW kind \in {"alice", "wallet", "funds", "lock"}, NEW print \in Prints \cup {0}
    PROVE  Made(head, kind, print) \in PageOutput /\ Made(head, kind, print).kind = kind
           /\ Made(head, kind, print).print = print
  BY DEF Made, PageOutput

\* What a transaction of a page makes: change, and what it is for.
ChangeAnd(makes, o, made, id) ==
    \A x \in makes : x = [[o EXCEPT !.tx = 0] EXCEPT !.tx = id] \/ x = [made EXCEPT !.tx = id]

LEMMA PageMakes ==
    ASSUME NEW id \in Nat, NEW o \in PageOutput, ~Moved(o), NEW made \in PageOutput,
           NEW makes, ChangeAnd(makes, o, made, id)
    PROVE  /\ makes \subseteq PageOutput
           /\ \A x \in makes : x.tx = id
           /\ \A x \in makes : Moved(x) => x = [made EXCEPT !.tx = id]
           /\ \A x \in makes : x.kind = "lock" => made.kind = "lock" /\ x.print = made.print
  <1> DEFINE c == [[o EXCEPT !.tx = 0] EXCEPT !.tx = id]
             m == [made EXCEPT !.tx = id]
  <1>1. \A x \in makes : x = c \/ x = m BY DEF ChangeAnd
  <1>2. c \in PageOutput /\ c.kind = o.kind /\ c.tx = id BY DEF PageOutput
  <1>3. m \in PageOutput /\ m.kind = made.kind /\ m.print = made.print /\ m.tx = id BY DEF PageOutput
  <1> HIDE DEF c
  <1>4. o.kind # "lock" BY DEF Moved
  <1>5. QED BY <1>1, <1>2, <1>3, <1>4 DEF Moved

LEMMA PageSends ==
    ASSUME PageHeads, NEW o \in PageOutput, ~Moved(o), NEW made \in PageOutput,
           NEW head, Send(head, {o}, {}, {[o EXCEPT !.tx = 0], made}, 0, Always)
    PROVE  /\ PageHeads'
           /\ sent' = sent + 1 /\ sent \in Nat /\ utxo' = utxo
           /\ \E x : /\ pool' = pool \cup {x} /\ x.id = sent + 1
                     /\ \A y \in x.makes : y.kind = "lock" => made.kind = "lock" /\ y.print = made.print
  <1>1. PICK x : x = Tx(sent + 1, head, {o}, {}, {[o EXCEPT !.tx = 0], made}, 0, Always) OBVIOUS
  <1>2. x.id = sent + 1 /\ x.makes = {[y EXCEPT !.tx = sent + 1] : y \in {[o EXCEPT !.tx = 0], made}}
    BY <1>1 DEF Tx
  <1>3. pool' = pool \cup {x} /\ sent' = sent + 1 /\ sent < MaxTxs /\ UNCHANGED <<utxo, snapshot, now>>
    BY <1>1 DEF Send
  <1>4. sent \in Nat /\ MaxTxs \in Nat BY HeadAssumption DEF PageHeads
  <1>5. PICK id : id = sent + 1 OBVIOUS
  <1>6. /\ x.makes \subseteq PageOutput
        /\ \A y \in x.makes : y.tx = id
        /\ \A y \in x.makes : Moved(y) => y = [made EXCEPT !.tx = id]
        /\ \A y \in x.makes : y.kind = "lock" => made.kind = "lock" /\ y.print = made.print
    <2> DEFINE makes == x.makes
    <2>1. ChangeAnd(makes, o, made, id) BY <1>2, <1>5 DEF ChangeAnd
    <2>2. id \in Nat BY <1>4, <1>5
    <2> HIDE DEF makes
    <2>3. /\ makes \subseteq PageOutput
          /\ \A y \in makes : y.tx = id
          /\ \A y \in makes : Moved(y) => y = [made EXCEPT !.tx = id]
          /\ \A y \in makes : y.kind = "lock" => made.kind = "lock" /\ y.print = made.print
      BY <2>1, <2>2, PageMakes
    <2>4. QED BY <2>3 DEF makes
  <1>7. PageTx(x)' BY <1>2, <1>3, <1>4, <1>5, <1>6 DEF PageTx
  <1>8. \A y \in pool : PageTx(y)' /\ y.id < id BY <1>3, <1>4, <1>5 DEF PageHeads, PageTx
  <1>9. /\ \A y \in pool' : PageTx(y)'
        /\ \A y, z \in pool' : y.id = z.id => y = z
    BY <1>2, <1>3, <1>4, <1>5, <1>7, <1>8 DEF PageHeads, PageTx
  <1>10. \A y \in utxo : Moved(y) => y.tx \in 1..sent' /\ \A z \in pool' : z.id # y.tx
    BY <1>2, <1>3, <1>4, <1>5 DEF PageHeads
  <1>11. PageHeads' BY <1>3, <1>4, <1>9, <1>10 DEF PageHeads
  <1>12. QED BY <1>2, <1>3, <1>4, <1>5, <1>6, <1>11

LEMMA PageDecides ==
    ASSUME PageHeads, NEW x \in pool, Decide(x)
    PROVE  /\ PageHeads'
           /\ pool' = pool \ {x} /\ sent' = sent /\ snapshot' = snapshot
           /\ \A o \in utxo' : o \in utxo \/ o \in x.makes
           /\ ~Valid(x) => utxo' = utxo
  <1>1. pool' = pool \ {x} /\ UNCHANGED <<snapshot, sent, now>> BY DEF Decide
  <1>2. \A o \in utxo' : o \in utxo \/ o \in x.makes BY DEF Decide
  <1>3. PageTx(x) BY DEF PageHeads
  <1>4. \A y \in pool' : PageTx(y)' BY <1>1 DEF PageHeads, PageTx
  <1>5. utxo' \subseteq PageOutput BY <1>2, <1>3 DEF PageHeads, PageTx
  <1>6. \A o \in utxo' : Moved(o) => o.tx \in 1..sent /\ \A y \in pool' : y.id # o.tx
    BY <1>1, <1>2, <1>3 DEF PageHeads, PageTx
  <1>7. \A o, q \in utxo' : Moved(o) /\ Moved(q) /\ o.tx = q.tx => o = q
    BY <1>2, <1>3 DEF PageHeads, PageTx
  <1>8. PageHeads' BY <1>1, <1>4, <1>5, <1>6, <1>7 DEF PageHeads
  <1>9. QED BY <1>1, <1>2, <1>8 DEF Decide

-----------------------------------------------------------------------------
(* What every step of a page keeps *)

SameFlow(w, old) == w.print = old.print /\ w.key = old.key

Onward ==
    /\ view' = view /\ clicks <= clicks' /\ keys <= keys' /\ sent <= sent'
    /\ \A f \in DOMAIN flows : f \in DOMAIN flows' /\ SameFlow(flows'[f], flows[f])

LEMMA PageNumbers ==
    ASSUME PageHeads, PageTypes
    PROVE  /\ sent \in Nat /\ clicks \in Nat /\ keys \in Nat /\ losses \in Nat /\ excused \in Nat
           /\ Runs \subseteq Nat \ {0} /\ IsFiniteSet(Runs) /\ MaxClicks \in Nat
           /\ \A c \in Runs : run[c] \in RunState /\ run[c].tx \in Nat /\ run[c].key \in Nat
           /\ \A f \in DOMAIN flows : flows[f] \in Flow
           /\ DOMAIN flows = 1..Len(flows) /\ Len(flows) \in Nat
  <1>1. MaxClicks \in Nat /\ MaxTxs \in Nat BY PageAssumption, HeadAssumption
  <1>2. Runs \subseteq Nat \ {0} /\ IsFiniteSet(Runs) BY <1>1, FS_Interval DEF Runs
  <1>3. \A c \in Runs : run[c] \in RunState /\ run[c].tx \in Nat /\ run[c].key \in Nat
    BY DEF PageTypes, RunState
  <1>4. DOMAIN flows = 1..Len(flows) /\ Len(flows) \in Nat BY LenProperties DEF PageTypes
  <1>5. \A f \in DOMAIN flows : flows[f] \in Flow BY <1>4, ElementOfSeq DEF PageTypes
  <1>6. QED BY <1>1, <1>2, <1>3, <1>4, <1>5 DEF PageHeads, PageTypes

LEMMA RunLasts ==
    ASSUME PageHeads, PageTypes, PageHeads', PageTypes', Onward, NEW c \in Runs, NEW r \in RunState, RunOK(c, r)
    PROVE  RunOK(c, r)'
  <1>1. sent \in Nat /\ clicks \in Nat /\ keys \in Nat /\ c \in Nat BY PageNumbers
  <1>2. sent' \in Nat /\ clicks' \in Nat /\ keys' \in Nat
    BY PageAssumption, HeadAssumption DEF PageHeads, PageTypes
  <1>3. \A p, k : Stored(p, k) => Stored(p, k)' BY DEF Stored, Onward, SameFlow
  <1>4. r.tx \in Nat /\ r.key \in Nat BY DEF RunState
  <1>5. QED BY <1>1, <1>2, <1>3, <1>4 DEF RunOK, Onward, Sent, IsBuy

\* A mutation stays as it is, or becomes what it may be; at most one has a new transaction.
LEMMA RunsMove ==
    ASSUME PageHeads, PageTypes, PageHeads', PageTypes', RunsInv, Onward,
           \A c \in Runs : run'[c] = run[c] \/ RunOK(c, run[c])',
           \A c \in Runs : run'[c].tx \in {run[c].tx, 0, sent + 1},
           \A c, d \in Runs : run'[c].tx = sent + 1 /\ run'[d].tx = sent + 1 => c = d
    PROVE  RunsInv'
  <1>1. ASSUME NEW c \in Runs PROVE RunOK(c, run[c])'
    <2>1. CASE run'[c] = run[c]
      <3>1. PICK r : r = run[c] OBVIOUS
      <3>2. r \in RunState /\ RunOK(c, r) BY <3>1, PageNumbers DEF RunsInv
      <3>3. RunOK(c, r)' BY <3>2, RunLasts
      <3>4. QED BY <2>1, <3>1, <3>3
    <2>2. QED BY <2>1
  <1>2. \A c \in Runs : run[c].tx \in 0..sent BY PageNumbers DEF RunsInv, RunOK
  <1>3. \A c, d \in Runs : run'[c].tx = run'[d].tx /\ run'[c].tx # 0 => c = d
    BY <1>2, PageNumbers DEF RunsInv
  <1>4. QED BY <1>1, <1>3 DEF RunsInv

LEMMA RunsStay ==
    ASSUME PageHeads, PageTypes, PageHeads', PageTypes', RunsInv, Onward, run' = run
    PROVE  RunsInv'
  <1>1. \A c \in Runs : run[c].tx \in 0..sent /\ run[c].tx \in Nat BY PageNumbers DEF RunsInv, RunOK
  <1>2. \A c \in Runs : run'[c].tx # sent + 1 BY <1>1, PageNumbers
  <1>3. QED BY <1>2, RunsMove

\* What a mutation becomes, except for a new one.
Follows(new, old) ==
    new.pc # "idle" =>
        /\ old.pc # "idle" /\ new.key = old.key /\ new.print = old.print /\ old.tx \in {0, new.tx}

RunsFollow == \A c \in Runs : c > clicks \/ Follows(run'[c], run[c])

KeyIs(k, p, fresh) == <<k, p>> \in KeyUses \/ (keys' = keys + 1 /\ k = keys + 1 /\ p = fresh)

LEMMA KeysLast ==
    ASSUME PageHeads, PageTypes, RunsInv, KeysInv, keys' \in {keys, keys + 1}, NEW fresh,
           RunsFollow,
           \A p \in Prints : intents'[p].key # 0 => KeyIs(intents'[p].key, p, fresh),
           \A c \in Runs : c > clicks /\ run'[c].pc # "idle" => KeyIs(run'[c].key, run'[c].print, fresh),
           \A f \in DOMAIN flows' : KeyIs(flows'[f].key, flows'[f].print, fresh),
           \A p \in Prints : IsBuy(p) /\ intents'[p].key # 0 => p <= clicks'
    PROVE  KeysInv'
  <1>1. \A c \in Runs : run'[c].pc # "idle" => KeyIs(run'[c].key, run'[c].print, fresh)
    BY DEF RunsFollow, Follows, KeyIs, KeyUses
  <1>2. ASSUME NEW u \in KeyUses' PROVE KeyIs(u[1], u[2], fresh)
    <2>1. \/ \E p \in Prints : intents'[p].key # 0 /\ u = <<intents'[p].key, p>>
          \/ \E c \in Runs : run'[c].pc # "idle" /\ u = <<run'[c].key, run'[c].print>>
          \/ \E f \in DOMAIN flows' : u = <<flows'[f].key, flows'[f].print>>
      BY <1>2 DEF KeyUses
    <2>2. QED BY <1>1, <2>1
  <1>3. keys \in Nat BY PageNumbers
  <1>4. \A k, p : <<k, p>> \in KeyUses => k \in 1..keys BY DEF KeysInv
  <1>5. \A k, p, q : <<k, p>> \in KeyUses /\ <<k, q>> \in KeyUses => p = q BY DEF KeysInv
  <1>6. \A k, p : KeyIs(k, p, fresh) => k \in 1..keys' BY <1>3, <1>4 DEF KeyIs
  <1>7. \A k, p, q : KeyIs(k, p, fresh) /\ KeyIs(k, q, fresh) => p = q BY <1>3, <1>4, <1>5 DEF KeyIs
  <1>8. (\A p \in Prints : IsBuy(p) /\ intents[p].key # 0 => p <= clicks)' BY DEF IsBuy
  <1>9. QED BY <1>2, <1>6, <1>7, <1>8 DEF KeysInv

\* Nothing is written to a workflow but its status and tries.
FlowsKept ==
    /\ DOMAIN flows' = DOMAIN flows
    /\ \A f \in DOMAIN flows : SameFlow(flows'[f], flows[f]) /\ flows'[f].source = flows[f].source

LEMMA FlowLasts ==
    ASSUME PageHeads, PageTypes, RunsInv, Onward, clicks' \in Nat, RunsFollow, NEW w \in Flow, FlowOK(w)
    PROVE  FlowOK(w)'
  <1>1. CASE ~IsBuy(w.print) BY <1>1 DEF FlowOK, IsBuy
  <1>2. CASE IsBuy(w.print)
    <2>1. w.print \in Runs /\ w.print <= clicks BY <1>2, PageNames DEF FlowOK, Flow, Runs
    <2>2. clicks \in Nat /\ w.print \in Nat BY <2>1, PageNumbers
    <2>3. Follows(run'[w.print], run[w.print]) BY <2>1, <2>2 DEF RunsFollow
    <2>4. w.print <= clicks' BY <2>1, <2>2 DEF Onward
    <2>5. run[w.print].pc # "idle" => w.key = run[w.print].key /\ w.source \in {0, run[w.print].tx}
      BY <1>2 DEF FlowOK
    <2>6. run'[w.print].pc # "idle" => w.key = run'[w.print].key /\ w.source \in {0, run'[w.print].tx}
      BY <2>3, <2>5 DEF Follows
    <2>7. QED BY <2>4, <2>6 DEF FlowOK, IsBuy
  <1>3. QED BY <1>1, <1>2

LEMMA FlowsLast ==
    ASSUME PageHeads, PageTypes, PageTypes', RunsInv, Onward, RunsFollow, FlowsInv, FlowsKept
    PROVE  FlowsInv'
  <1>1. clicks' \in Nat BY PageAssumption DEF PageTypes
  <1>2. ASSUME NEW f \in DOMAIN flows' PROVE FlowOK(flows[f])'
    <2>1. PICK w : w = flows[f] OBVIOUS
    <2>2. f \in DOMAIN flows /\ w \in Flow /\ FlowOK(w) BY <1>2, <2>1, PageNumbers DEF FlowsInv, FlowsKept
    <2>3. FlowOK(w)' BY <1>1, <2>2, FlowLasts
    <2>4. PICK x : x = flows'[f] OBVIOUS
    <2>5. x.print = w.print /\ x.key = w.key /\ x.source = w.source
      BY <2>1, <2>2, <2>4 DEF FlowsKept, SameFlow
    <2>6. FlowOK(x)' BY <2>3, <2>5 DEF FlowOK, IsBuy
    <2>7. QED BY <2>4, <2>6
  <1>3. \A f \in DOMAIN flows' : f \in DOMAIN flows /\ flows'[f].print = flows[f].print /\ flows'[f].key = flows[f].key
    BY DEF FlowsKept, SameFlow
  <1>4. (\A f, g \in DOMAIN flows : flows[f].key = flows[g].key => f = g)' BY <1>3 DEF FlowsInv
  <1>5. OneRowPerPurchase' BY <1>3 DEF FlowsInv, OneRowPerPurchase, IsBuy
  <1>6. QED BY <1>2, <1>4, <1>5 DEF FlowsInv

LEMMA LocksLast ==
    ASSUME LocksInv, Onward,
           \A o \in utxo' : o \in utxo \/ \E x \in pool : o \in x.makes,
           \A x \in pool' : x \in pool \/ \A o \in x.makes : o.kind = "lock" => Posted(o.print)
    PROVE  LocksInv'
  <1>1. \A p : Posted(p) => Posted(p)' BY DEF Posted, Onward, SameFlow
  <1>2. \A o \in utxo' : o.kind = "lock" => Posted(o.print)' BY <1>1 DEF LocksInv
  <1>3. \A x \in pool' : \A o \in x.makes : o.kind = "lock" => Posted(o.print)' BY <1>1 DEF LocksInv
  <1>4. QED BY <1>2, <1>3 DEF LocksInv

\* The transactions of N are lost, and counted.
LEMMA LostMoves ==
    ASSUME PageHeads, PageTypes, PageHeads', PageTypes', LostInv,
           NEW N, IsFiniteSet(N), Cardinality(N) + losses + excused <= losses' + excused',
           \A k \in 1..sent' : Live(k)' => (k \in 1..sent /\ Live(k)) \/ \E c \in Runs : WillRecord(run[c], k)',
           \A k \in 1..sent : Recorded(k) => Recorded(k)',
           \A k \in 1..sent : \A c \in Runs : WillRecord(run[c], k) =>
               \/ \E d \in Runs : WillRecord(run[d], k)'
               \/ Recorded(k)' \/ ~Live(k)' \/ k \in N
    PROVE  LostInv'
  <1>1. LostTxs' \subseteq LostTxs \cup N
    <2>1. SUFFICES ASSUME NEW k \in LostTxs', k \notin N PROVE k \in LostTxs OBVIOUS
    <2>2. k \in 1..sent' /\ Live(k)' /\ ~Recorded(k)' /\ \A c \in Runs : ~WillRecord(run[c], k)' BY <2>1 DEF LostTxs
    <2>3. k \in 1..sent /\ Live(k) BY <2>2
    <2>4. QED BY <2>1, <2>2, <2>3 DEF LostTxs
  <1>2. IsFiniteSet(LostTxs)
    <2>1. IsFiniteSet(1..sent) BY PageNumbers, FS_Interval
    <2>2. LostTxs \in SUBSET (1..sent) BY DEF LostTxs
    <2>3. QED BY <2>1, <2>2, FS_Subset
  <1>3. /\ Cardinality(LostTxs') <= Cardinality(LostTxs) + Cardinality(N)
        /\ Cardinality(LostTxs') \in Nat /\ Cardinality(LostTxs) \in Nat /\ Cardinality(N) \in Nat
    <2> HIDE DEF LostTxs
    <2>1. QED BY <1>1, <1>2, CountGrows
  <1>4. losses \in Nat /\ excused \in Nat /\ losses' \in Nat /\ excused' \in Nat BY DEF PageTypes
  <1>5. QED BY <1>3, <1>4 DEF LostInv

\* Nothing is lost.
LEMMA LostStays ==
    ASSUME PageHeads, PageTypes, PageHeads', PageTypes', LostInv, losses + excused <= losses' + excused',
           \A k \in 1..sent' : Live(k)' => (k \in 1..sent /\ Live(k)) \/ \E c \in Runs : WillRecord(run[c], k)',
           \A k \in 1..sent : Recorded(k) => Recorded(k)',
           \A k \in 1..sent : \A c \in Runs : WillRecord(run[c], k) =>
               (\E d \in Runs : WillRecord(run[d], k)') \/ Recorded(k)' \/ ~Live(k)'
    PROVE  LostInv'
  <1>1. losses \in Nat /\ excused \in Nat BY PageNumbers
  <1>2. PICK N : N = {} OBVIOUS
  <1>3. IsFiniteSet(N) /\ Cardinality(N) + losses + excused <= losses' + excused' BY <1>1, <1>2, NoneOrOne
  <1>4. QED BY <1>3, LostMoves

LEMMA KeysStay ==
    ASSUME PageHeads, PageTypes, RunsInv, KeysInv, UNCHANGED <<intents, keys, clicks>>, RunsFollow,
           \A c \in Runs : c > clicks => run'[c].pc = "idle",
           \A f \in DOMAIN flows' : <<flows'[f].key, flows'[f].print>> \in KeyUses
    PROVE  KeysInv'
  <1>1. PICK fresh : fresh = 0 OBVIOUS
  <1>2. \A p \in Prints : intents'[p].key # 0 => KeyIs(intents'[p].key, p, fresh) BY DEF KeyIs, KeyUses
  <1>3. \A c \in Runs : c > clicks /\ run'[c].pc # "idle" => KeyIs(run'[c].key, run'[c].print, fresh) OBVIOUS
  <1>4. \A f \in DOMAIN flows' : KeyIs(flows'[f].key, flows'[f].print, fresh) BY DEF KeyIs
  <1>5. \A p \in Prints : IsBuy(p) /\ intents'[p].key # 0 => p <= clicks' BY DEF KeysInv
  <1>6. QED BY <1>2, <1>3, <1>4, <1>5, KeysLast

\* The mutations are left alone, and the workflows but for their status.
LEMMA Aside ==
    ASSUME PageInv, PageHeads', PageTypes', KeysInv', FlowsKept,
           UNCHANGED <<view, utxo, pool, sent, run, clicks>>, keys' \in {keys, keys + 1},
           losses + excused <= losses' + excused'
    PROVE  PageInv'
  <1> USE DEF PageInv
  <1>1. Onward BY PageNumbers DEF Onward, FlowsKept
  <1>2. RunsFollow BY DEF RunsFollow, Follows
  <1>3. RunsInv' BY <1>1, RunsStay
  <1>4. FlowsInv' BY <1>1, <1>2, FlowsLast
  <1>5. LocksInv' BY <1>1, LocksLast
  <1>6. \A k : Live(k)' = Live(k) BY DEF Live, Moved
  <1>7. \A k : Recorded(k)' = Recorded(k) BY DEF Recorded, FlowsKept
  <1>8. \A c \in Runs : \A k : WillRecord(run[c], k)' = WillRecord(run[c], k) BY DEF WillRecord, Sent, IsBuy
  <1>9. LostInv' BY <1>6, <1>7, <1>8, LostStays
  <1>10. QED BY <1>3, <1>4, <1>5, <1>9

LEMMA NothingWritten ==
    ASSUME PageInv, UNCHANGED <<view, utxo, pool, sent, run, flows, clicks, keys, intents, losses, excused>>,
           PageHeads', PageTypes'
    PROVE  PageInv'
  <1> USE DEF PageInv
  <1>1. RunsFollow BY DEF RunsFollow, Follows
  <1>2. \A c \in Runs : c > clicks => run'[c].pc = "idle" BY DEF RunsInv, RunOK
  <1>3. \A f \in DOMAIN flows' : <<flows'[f].key, flows'[f].print>> \in KeyUses BY DEF KeyUses
  <1>4. KeysInv' BY <1>1, <1>2, <1>3, KeysStay
  <1>5. FlowsKept BY DEF FlowsKept, SameFlow
  <1>6. losses + excused <= losses' + excused' BY PageNumbers
  <1>7. QED BY <1>4, <1>5, <1>6, Aside

LEMMA SameHeads ==
    ASSUME PageHeads, UNCHANGED headVars
    PROVE  PageHeads'
  BY DEF PageHeads, PageTx, headVars

LEMMA QuietPage ==
    ASSUME PageInv, UNCHANGED view,
           \/ \E t \in Tabs : Session(t) \/ Disconnect(t)
           \/ \E h \in Heads : Heartbeat(h) \/ Toggle(h) \/ (Confirm(h) /\ UNCHANGED pageVars)
           \/ Associate
    PROVE  PageInv'
  <1> USE DEF PageInv
  <1>1. CASE \E t \in Tabs : Session(t) \/ Disconnect(t)
    <2>1. PICK t \in Tabs : Session(t) \/ Disconnect(t) BY <1>1
    <2>2. UNCHANGED <<headVars, run, storage, flows, clicks, losses, excused>>
          /\ headRow' = headRow /\ up' = up
          /\ (tab' = [tab EXCEPT ![t].wallet = TRUE] \/ tab' = [tab EXCEPT ![t].wallet = FALSE])
      BY <2>1 DEF Session, Disconnect
    <2>3. tab' \in [Tabs -> [form: Amounts, hash: 0..MaxClicks, watch: Nat, wallet: BOOLEAN]]
          /\ \A u \in Tabs : tab'[u].watch = tab[u].watch /\ tab'[u].hash = tab[u].hash
      <3>1. CASE tab' = [tab EXCEPT ![t].wallet = TRUE] BY <3>1 DEF PageTypes
      <3>2. CASE tab' = [tab EXCEPT ![t].wallet = FALSE] BY <3>2 DEF PageTypes
      <3>3. QED BY <2>2, <3>1, <3>2
    <2>4. PageTypes' BY <2>2, <2>3 DEF PageTypes, storage
    <2>5. PageHeads' BY <2>2, SameHeads
    <2>6. QED BY <2>2, <2>4, <2>5, NothingWritten DEF storage, headVars
  <1>2. CASE \E h \in Heads : Heartbeat(h) \/ Toggle(h)
    <2>1. PICK h \in Heads : Heartbeat(h) \/ Toggle(h) BY <1>2
    <2>2. UNCHANGED <<headVars, tab, run, storage, flows, clicks, losses, excused>>
          /\ headRow' \in [Heads -> BOOLEAN] /\ up' \in [Heads -> BOOLEAN]
      BY <2>1 DEF Heartbeat, Toggle, PageTypes
    <2>3. PageTypes' BY <2>2 DEF PageTypes, storage
    <2>4. PageHeads' BY <2>2, SameHeads
    <2>5. QED BY <2>2, <2>3, <2>4, NothingWritten DEF storage, headVars
  <1>3. CASE Associate
    <2>2. UNCHANGED <<headVars, tab, run, storage, flows, clicks, losses, excused, up>>
          /\ headRow' = [h \in Heads |-> h # "headC" /\ up[h]]
      BY <1>3 DEF Associate
    <2>1. \A h \in Heads : (h # "headC" /\ up[h]) \in BOOLEAN OBVIOUS
    <2>3. headRow' \in [Heads -> BOOLEAN] BY <2>1, <2>2, Zenon
    <2>4. PageTypes' BY <2>2, <2>3 DEF PageTypes, storage
    <2>5. PageHeads' BY <2>2, SameHeads
    <2>6. QED BY <2>2, <2>4, <2>5, NothingWritten DEF storage, headVars
  <1>4. CASE \E h \in Heads : Confirm(h) /\ UNCHANGED pageVars
    <2>1. PICK h \in Heads : Confirm(h) /\ UNCHANGED pageVars BY <1>4
    <2>2. UNCHANGED <<utxo, pool, sent, now>> /\ snapshot' \subseteq snapshot \cup utxo
      BY <2>1 DEF Confirm
    <2>3. PageHeads' BY <2>2 DEF PageHeads, PageTx
    <2>4. PageTypes' BY <2>1 DEF PageTypes, pageVars
    <2>5. QED BY <2>1, <2>2, <2>3, <2>4, NothingWritten DEF pageVars
  <1>5. QED BY <1>1, <1>2, <1>3, <1>4

-----------------------------------------------------------------------------
(* Intents *)

LEMMA Intends ==
    ASSUME PageInv, UNCHANGED <<view, headVars, run, pairs, flows, headRow, up, clicks, losses, excused>>,
           NEW fresh,
           keys' \in {keys, keys + 1},
           tab' \in [Tabs -> [form: Amounts, hash: 0..MaxClicks, watch: Nat, wallet: BOOLEAN]],
           \A t \in Tabs : tab'[t].watch = tab[t].watch /\ tab'[t].hash = tab[t].hash,
           intents' \in [Prints -> [key: Nat, flow: Nat]],
           \A p \in Prints : intents'[p].flow \in {0, intents[p].flow},
           \A p \in Prints : \/ intents'[p].key \in {0, intents[p].key}
                             \/ p = fresh /\ keys' = keys + 1 /\ intents'[p].key = keys + 1,
           fresh \in Prints /\ IsBuy(fresh) => fresh <= clicks
    PROVE  PageInv'
  <1> USE DEF PageInv
  <1>1. PageHeads' BY SameHeads
  <1>2. keys' \in Nat /\ Len(flows) \in Nat BY PageNumbers
  <1>3. PageTypes'
    <2>1. \A t \in Tabs : tab'[t].watch \in 0..Len(flows) /\ tab'[t].hash <= clicks BY DEF PageTypes
    <2>2. \A p \in Prints : intents'[p].flow \in 0..Len(flows)
      <3>1. \A p \in Prints : intents[p].flow \in 0..Len(flows) BY DEF PageTypes
      <3>2. 0 \in 0..Len(flows) BY <1>2
      <3> HIDE DEF PageInv
      <3>3. QED BY <3>1, <3>2
    <2>3. QED BY <1>2, <2>1, <2>2 DEF PageTypes
  <1>4. RunsFollow BY DEF RunsFollow, Follows
  <1>5. \A p \in Prints : intents'[p].key # 0 => KeyIs(intents'[p].key, p, fresh) BY DEF KeyIs, KeyUses
  <1>6. \A c \in Runs : c > clicks /\ run'[c].pc # "idle" => KeyIs(run'[c].key, run'[c].print, fresh)
    BY DEF KeyIs, KeyUses
  <1>7. \A f \in DOMAIN flows' : KeyIs(flows'[f].key, flows'[f].print, fresh) BY DEF KeyIs, KeyUses
  <1>8. \A p \in Prints : IsBuy(p) /\ intents'[p].key # 0 => p <= clicks' BY DEF KeysInv
  <1>9. KeysInv' BY <1>4, <1>5, <1>6, <1>7, <1>8, KeysLast
  <1>10. FlowsKept BY DEF FlowsKept, SameFlow
  <1>11. losses + excused <= losses' + excused' BY PageNumbers
  <1>12. QED BY <1>1, <1>3, <1>9, <1>10, <1>11, Aside DEF headVars

\* What getOrCreate does to the intents.
LEMMA Creates ==
    ASSUME PageHeads, PageTypes, NEW p \in Prints, GetOrCreate(p)
    PROVE  /\ keys' \in {keys, keys + 1} /\ keys' \in Nat
           /\ intents' \in [Prints -> [key: Nat, flow: Nat]]
           /\ \A q \in Prints : intents'[q].flow = intents[q].flow
           /\ \A q \in Prints : \/ intents'[q].key = intents[q].key
                                \/ q = p /\ keys' = keys + 1 /\ intents'[q].key = keys + 1
           /\ KeyOf(p) \in Nat \ {0}
           /\ intents'[p].key = KeyOf(p)
  <1>1. keys \in Nat BY PageNumbers
  <1>2. intents \in [Prints -> [key: Nat, flow: Nat]] BY DEF PageTypes
  <1>3. CASE intents[p].key # 0 BY <1>1, <1>2, <1>3 DEF GetOrCreate, KeyOf
  <1>4. CASE intents[p].key = 0
    <2>1. intents' = [intents EXCEPT ![p].key = keys + 1] /\ keys' = keys + 1 BY <1>4 DEF GetOrCreate
    <2>2. QED BY <1>1, <1>2, <1>4, <2>1 DEF KeyOf
  <1>5. QED BY <1>3, <1>4

LEMMA TypeKeeps ==
    ASSUME PageInv, UNCHANGED view, NEW t \in Tabs, NEW a \in Amounts, Type(t, a)
    PROVE  PageInv'
  <1>1. a \in Prints /\ ~IsBuy(a) BY PageNames DEF Prints, IsBuy
  <1>2. tab' = [tab EXCEPT ![t].form = a] /\ GetOrCreate(a)
        /\ UNCHANGED <<headVars, run, pairs, flows, headRow, up, clicks, losses, excused, toggles>>
    BY DEF Type
  <1>3. tab' \in [Tabs -> [form: Amounts, hash: 0..MaxClicks, watch: Nat, wallet: BOOLEAN]]
        /\ \A u \in Tabs : tab'[u].watch = tab[u].watch /\ tab'[u].hash = tab[u].hash
    BY <1>2 DEF PageInv, PageTypes
  <1>4. PageHeads /\ PageTypes BY DEF PageInv
  <1>5. /\ keys' \in {keys, keys + 1}
        /\ intents' \in [Prints -> [key: Nat, flow: Nat]]
        /\ \A q \in Prints : intents'[q].flow = intents[q].flow
        /\ \A q \in Prints : \/ intents'[q].key = intents[q].key
                             \/ q = a /\ keys' = keys + 1 /\ intents'[q].key = keys + 1
    BY <1>1, <1>2, <1>4, Creates
  <1>6. QED BY <1>1, <1>2, <1>3, <1>5, Intends

LEMMA ExpireKeeps ==
    ASSUME PageInv, UNCHANGED view, NEW p \in Prints, Expire(p)
    PROVE  PageInv'
  <1>1. intents' = [intents EXCEPT ![p] = NoIntent]
        /\ UNCHANGED <<headVars, tab, run, pairs, flows, headRow, up, clicks, keys, losses, excused>>
    BY DEF Expire
  <1>2. NoIntent \in [key: Nat, flow: Nat] /\ NoIntent.key = 0 /\ NoIntent.flow = 0 BY DEF NoIntent
  <1>3. intents \in [Prints -> [key: Nat, flow: Nat]] BY DEF PageInv, PageTypes
  <1>4. \A q \in Prints : intents'[q] = IF q = p THEN NoIntent ELSE intents[q] BY <1>1, <1>3
  <1>5. intents' \in [Prints -> [key: Nat, flow: Nat]] BY <1>1, <1>2, <1>3
  <1>6. PICK fresh : fresh \notin Prints BY PageNames
  <1>7. tab' \in [Tabs -> [form: Amounts, hash: 0..MaxClicks, watch: Nat, wallet: BOOLEAN]]
        /\ \A u \in Tabs : tab'[u].watch = tab[u].watch /\ tab'[u].hash = tab[u].hash
    BY <1>1 DEF PageInv, PageTypes
  <1>8. QED BY <1>1, <1>2, <1>4, <1>5, <1>6, <1>7, Intends

LEMMA PollKeeps ==
    ASSUME PageInv, UNCHANGED view, NEW t \in Tabs, Poll(t)
    PROVE  PageInv'
  <1>1. PICK f : f = tab[t].watch OBVIOUS
  <1>2. PICK shown : shown = IF IsBuy(flows[f].print) THEN tab[t].hash ELSE tab[t].form OBVIOUS
  <1>3. Retire(f, shown) /\ UNCHANGED <<headVars, tab, run, pairs, flows, headRow, up, clicks, losses, excused, toggles>>
    BY <1>1, <1>2 DEF Poll
  <1>4. PICK of : /\ intents' = [p \in Prints |-> CASE p = shown -> [key |-> keys + 1, flow |-> 0]
                                                   [] p \in of \ {shown} -> NoIntent
                                                   [] OTHER -> intents[p]]
                  /\ keys' = keys + 1
    BY <1>3 DEF Retire
  <1>5. NoIntent \in [key: Nat, flow: Nat] /\ NoIntent.key = 0 /\ NoIntent.flow = 0 BY DEF NoIntent
  <1>6. intents \in [Prints -> [key: Nat, flow: Nat]] /\ keys \in Nat BY DEF PageInv, PageTypes
  <1>7. \A p \in Prints : intents'[p] = CASE p = shown -> [key |-> keys + 1, flow |-> 0]
                                          [] p \in of \ {shown} -> NoIntent
                                          [] OTHER -> intents[p]
    BY <1>4
  <1>8. \A p \in Prints : \/ p = shown /\ intents'[p] = [key |-> keys + 1, flow |-> 0]
                          \/ intents'[p] = NoIntent
                          \/ intents'[p] = intents[p]
    BY <1>7
  <1>9. intents' \in [Prints -> [key: Nat, flow: Nat]]
    <2>1. \A p \in Prints : intents'[p] \in [key: Nat, flow: Nat] BY <1>5, <1>6, <1>8
    <2>2. intents' = [p \in Prints |-> intents'[p]] BY <1>4
    <2>3. QED BY <2>1, <2>2
  <1>10. \A p \in Prints : intents'[p].flow \in {0, intents[p].flow} BY <1>5, <1>8
  <1>11. \A p \in Prints : \/ intents'[p].key \in {0, intents[p].key}
                           \/ p = shown /\ keys' = keys + 1 /\ intents'[p].key = keys + 1
    BY <1>4, <1>5, <1>8
  <1>12. shown \in Prints /\ IsBuy(shown) => shown <= clicks
    BY <1>2, PageNames DEF PageInv, PageTypes, IsBuy
  <1>13. tab' \in [Tabs -> [form: Amounts, hash: 0..MaxClicks, watch: Nat, wallet: BOOLEAN]]
        /\ \A u \in Tabs : tab'[u].watch = tab[u].watch /\ tab'[u].hash = tab[u].hash
    BY <1>3 DEF PageInv, PageTypes
  <1>14. keys' \in {keys, keys + 1} BY <1>4
  <1>15. QED BY <1>3, <1>9, <1>10, <1>11, <1>12, <1>13, <1>14, Intends

-----------------------------------------------------------------------------
(* Mutations that move alone *)

LEMMA StillIs ==
    /\ Still \in RunState
    /\ Still.pc = "idle" /\ Still.tx = 0 /\ Still.key = 0 /\ Still.print = 0 /\ ~Still.open
    /\ Still.draft.kind = "alice"
    /\ \A c \in Runs : MaxClicks \in Nat => RunOK(c, Still)
  <1>1. Alice \in PageOutput /\ Alice.kind = "alice" BY PageNames, MadeFields DEF Alice
  <1>2. /\ Still.pc = "idle" /\ Still.tx = 0 /\ Still.key = 0 /\ Still.print = 0 /\ Still.open = FALSE
        /\ Still.draft = Alice /\ Still.tab = NoTab
    BY DEF Still
  <1>3. Still \in RunState BY <1>1 DEF Still, RunState, RunPcs
  <1>4. ASSUME NEW r, r = Still, NEW c \in Runs PROVE RunOK(c, r)
    BY <1>1, <1>2, <1>4 DEF RunOK, Sent
  <1>5. QED BY <1>1, <1>2, <1>3, <1>4

\* The chain of c goes on, or ends.
LEMMA ThenRun ==
    ASSUME PageTypes, NEW c \in Runs, NEW pc \in RunPcs, Then(c, pc)
    PROVE  /\ run' \in [Runs -> RunState]
           /\ \A d \in Runs \ {c} : run'[d] = run[d]
           /\ \/ run'[c] = Still
              \/ run[c].open /\ pc # "idle" /\ run'[c] = [run[c] EXCEPT !.pc = pc]
  <1>1. run \in [Runs -> RunState] BY DEF PageTypes
  <1>2. PICK r : r = IF run[c].open /\ pc # "idle" THEN [run[c] EXCEPT !.pc = pc] ELSE Still OBVIOUS
  <1>3. r \in RunState BY <1>1, <1>2, StillIs DEF RunState
  <1>4. run' = [run EXCEPT ![c] = r] BY <1>2 DEF Then
  <1>5. QED BY <1>1, <1>2, <1>3, <1>4

LEMMA RunsAlone ==
    ASSUME PageInv, PageHeads', PageTypes', UNCHANGED <<view, utxo, pool, sent, flows, clicks, keys, intents>>,
           \A c \in Runs : \/ run'[c] = run[c]
                           \/ RunOK(c, run[c])' /\ run'[c].tx \in {run[c].tx, 0} /\ Follows(run'[c], run[c]),
           NEW N, IsFiniteSet(N), Cardinality(N) + losses + excused <= losses' + excused',
           \A c \in Runs : \A k \in 1..sent : WillRecord(run[c], k) => WillRecord(run[c], k)' \/ k \in N
    PROVE  PageInv'
  <1> USE DEF PageInv
  <1>1. Onward BY PageNumbers DEF Onward, SameFlow
  <1>2. RunsFollow BY DEF RunsFollow, Follows
  <1>3. \A c \in Runs : run[c].tx \in 0..sent BY PageNumbers DEF RunsInv, RunOK
  <1>4. RunsInv'
    <2>1. \A c \in Runs : run'[c] = run[c] \/ RunOK(c, run[c])' OBVIOUS
    <2>2. \A c \in Runs : run'[c].tx \in {run[c].tx, 0, sent + 1} /\ run'[c].tx # sent + 1 BY <1>3, PageNumbers
    <2>3. QED BY <1>1, <2>1, <2>2, RunsMove
  <1>5. KeysInv'
    <2>1. \A c \in Runs : c > clicks => run'[c].pc = "idle" BY <1>4 DEF RunsInv, RunOK
    <2>2. \A f \in DOMAIN flows' : <<flows'[f].key, flows'[f].print>> \in KeyUses BY DEF KeyUses
    <2>3. QED BY <1>2, <2>1, <2>2, KeysStay
  <1>6. FlowsKept BY DEF FlowsKept, SameFlow
  <1>7. FlowsInv' BY <1>1, <1>2, <1>6, FlowsLast
  <1>8. LocksInv' BY <1>1, LocksLast
  <1>9. LostInv'
    <2>1. \A k \in 1..sent' : Live(k)' => (k \in 1..sent /\ Live(k)) \/ \E c \in Runs : WillRecord(run[c], k)'
      BY DEF Live, Moved
    <2>2. \A k \in 1..sent : Recorded(k) => Recorded(k)' BY DEF Recorded
    <2>3. \A k \in 1..sent : \A c \in Runs : WillRecord(run[c], k) =>
               \/ \E d \in Runs : WillRecord(run[d], k)'
               \/ Recorded(k)' \/ ~Live(k)' \/ k \in N
      OBVIOUS
    <2>4. QED BY <2>1, <2>2, <2>3, LostMoves
  <1>10. QED BY <1>4, <1>5, <1>7, <1>8, <1>9

\* What an ended mutation leaves behind: at most the transaction that it had.
LEMMA RunEnds ==
    ASSUME PageInv, NEW c \in Runs, Then(c, "idle"),
           UNCHANGED <<view, headVars, tab, flows, headRow, up, clicks, storage>>,
           losses' \in Nat, excused' \in Nat,
           NEW n \in Nat, losses' + excused' = losses + excused + n, Sent(run[c]) => n # 0
    PROVE  PageInv'
  <1>1. PageHeads /\ PageTypes BY DEF PageInv
  <1>2. PageHeads' BY <1>1, SameHeads
  <1>3. "idle" \in RunPcs BY DEF RunPcs
  <1>4. /\ run' \in [Runs -> RunState]
        /\ \A d \in Runs \ {c} : run'[d] = run[d]
        /\ run'[c] = Still
    BY <1>1, <1>3, ThenRun
  <1>5. PageTypes' BY <1>1, <1>4 DEF PageTypes, storage
  <1>6. PICK N : N = IF Sent(run[c]) THEN {run[c].tx} ELSE {} OBVIOUS
  <1>7. losses \in Nat /\ excused \in Nat BY <1>1, PageNumbers
  <1>8. IsFiniteSet(N) /\ Cardinality(N) + losses + excused <= losses' + excused'
    <2>1. IsFiniteSet(N) /\ Cardinality(N) \in 0..n
      <3>1. CASE Sent(run[c])
        <4>1. PICK k : k = run[c].tx OBVIOUS
        <4>2. N = {k} BY <1>6, <3>1, <4>1
        <4>3. n # 0 BY <3>1
        <4>4. IsFiniteSet(N) /\ Cardinality(N) = 1 BY <4>2, NoneOrOne
        <4>5. QED BY <4>3, <4>4
      <3>2. CASE ~Sent(run[c])
        <4>1. N = {} BY <1>6, <3>2
        <4>2. QED BY <4>1, NoneOrOne
      <3>3. QED BY <3>1, <3>2
    <2>2. Cardinality(N) + losses + excused <= losses + excused + n BY <1>7, <2>1
    <2>3. QED BY <2>1, <2>2
  <1>9. \A k \in 1..sent : WillRecord(run[c], k) => k \in N BY <1>6 DEF WillRecord
  <1>10. \A d \in Runs \ {c} : \A k : WillRecord(run[d], k) => WillRecord(run[d], k)'
    BY <1>4 DEF WillRecord, Sent, IsBuy
  <1>11. RunOK(c, run[c])' /\ run'[c].tx = 0 /\ Follows(run'[c], run[c])
    <2>1. PICK r : r = Still OBVIOUS
    <2>2. r.pc = "idle" /\ r.tx = 0 /\ r.key = 0 /\ r.print = 0 /\ ~r.open /\ r.draft.kind = "alice"
      BY <2>1, StillIs
    <2>3. RunOK(c, r)' BY <2>2 DEF RunOK, Sent
    <2>4. QED BY <1>4, <2>1, <2>2, <2>3 DEF Follows
  <1>12. \A d \in Runs : \/ run'[d] = run[d]
                         \/ RunOK(d, run[d])' /\ run'[d].tx \in {run[d].tx, 0} /\ Follows(run'[d], run[d])
    BY <1>4, <1>11
  <1>13. \A d \in Runs : \A k \in 1..sent : WillRecord(run[d], k) => WillRecord(run[d], k)' \/ k \in N
    BY <1>9, <1>10
  <1>14. QED BY <1>2, <1>5, <1>8, <1>12, <1>13, RunsAlone DEF headVars, storage

LEMMA RunsOnly ==
    ASSUME PageInv, UNCHANGED view, NEW c \in Runs,
           Prepare(c) \/ PrepareFails(c) \/ GiveUp(c) \/ Refuse(c)
    PROVE  PageInv'
  <1>1. PageHeads /\ PageTypes BY DEF PageInv
  <1>2. losses \in Nat /\ excused \in Nat BY <1>1, PageNumbers
  <1>3. CASE PrepareFails(c)
    <2>1. Then(c, "idle") /\ run[c].pc = "prepare"
          /\ UNCHANGED <<headVars, tab, storage, flows, headRow, up, clicks, losses, excused>>
      BY <1>3 DEF PrepareFails, Errors, RunAt
    <2>2. ~Sent(run[c]) BY <2>1 DEF Sent
    <2>3. PICK n : n = 0 OBVIOUS
    <2>4. n \in Nat /\ losses' + excused' = losses + excused + n /\ losses' \in Nat /\ excused' \in Nat BY <1>2, <2>1, <2>3
    <2>5. QED BY <2>1, <2>2, <2>4, RunEnds
  <1>4. CASE GiveUp(c)
    <2>1. Then(c, "idle") /\ losses' = losses + 1 /\ excused' = excused
          /\ UNCHANGED <<headVars, tab, storage, flows, headRow, up, clicks>>
      BY <1>4 DEF GiveUp, Errors
    <2>2. PICK n : n = 1 OBVIOUS
    <2>3. n \in Nat /\ n # 0 /\ losses' + excused' = losses + excused + n /\ losses' \in Nat /\ excused' \in Nat
      BY <1>2, <2>1, <2>2
    <2>4. QED BY <2>1, <2>3, RunEnds
  <1>5. CASE Refuse(c)
    <2>1. Then(c, "idle") /\ excused' = excused + 1 /\ losses' = losses
          /\ UNCHANGED <<headVars, tab, storage, flows, headRow, up, clicks>>
      BY <1>5 DEF Refuse, Errors
    <2>2. PICK n : n = 1 OBVIOUS
    <2>3. n \in Nat /\ n # 0 /\ losses' + excused' = losses + excused + n /\ losses' \in Nat /\ excused' \in Nat
      BY <1>2, <2>1, <2>2
    <2>4. QED BY <2>1, <2>3, RunEnds
  <1>6. CASE Prepare(c)
    <2>1. PICK o \in snapshot :
              /\ o.kind \in {"alice", "wallet"}
              /\ run' = [run EXCEPT ![c].pc = IF IsBuy(run[c].print) THEN "post" ELSE "send", ![c].draft = o]
      BY <1>6 DEF Prepare, Inputs
    <2>2. run[c].pc = "prepare" /\ UNCHANGED <<headVars, tab, storage, flows, headRow, up, clicks, losses, excused>>
      BY <1>6 DEF Prepare, RunAt
    <2>3. PICK old : old = run[c] OBVIOUS
    <2>4. old \in RunState /\ RunOK(c, old) BY <1>1, <2>3, PageNumbers DEF PageInv, RunsInv
    <2>5. PICK pc : pc = IF IsBuy(old.print) THEN "post" ELSE "send" OBVIOUS
    <2>6. PICK new : new = [old EXCEPT !.pc = pc, !.draft = o] OBVIOUS
    <2>7. o \in PageOutput BY <1>1, <2>1 DEF PageHeads
    <2>8. /\ new \in RunState
          /\ new.pc = pc /\ new.draft = o /\ new.print = old.print /\ new.key = old.key /\ new.tx = old.tx
          /\ new.tab = old.tab /\ new.open = old.open
      BY <2>4, <2>5, <2>6, <2>7 DEF RunState, RunPcs
    <2>9. run' = [run EXCEPT ![c] = new] BY <2>1, <2>3, <2>5, <2>6
    <2>10. run' \in [Runs -> RunState] /\ run'[c] = new /\ \A d \in Runs \ {c} : run'[d] = run[d]
      BY <1>1, <2>8, <2>9 DEF PageTypes
    <2>11. PageTypes' BY <1>1, <2>2, <2>10 DEF PageTypes, storage
    <2>12. PageHeads' BY <1>1, <2>2, SameHeads
    <2>13. RunOK(c, new)
      <3>1. ~Sent(new) /\ ~Sent(old) BY <2>2, <2>3, <2>5, <2>8 DEF Sent
      <3>2. old.open /\ old.tx = 0 /\ c <= clicks
        BY <2>2, <2>3, <2>4, <3>1, <1>1, PageNumbers DEF RunOK
      <3>3. new.pc = "send" => ~IsBuy(new.print) BY <2>5, <2>8
      <3>4. QED BY <1>1, <2>1, <2>2, <2>3, <2>4, <2>5, <2>8, <3>1, <3>2, <3>3, PageNumbers DEF RunOK
    <2>14. RunOK(c, new)'
      <3>1. UNCHANGED <<clicks, keys, sent, flows, view>> BY <2>2 DEF storage, headVars
      <3>2. QED BY <2>13, <3>1 DEF RunOK, Sent, Stored, IsBuy
    <2>15. Follows(new, old) BY <2>2, <2>3, <2>4, <2>8 DEF Follows, RunState
    <2>16. \A d \in Runs : \/ run'[d] = run[d]
                           \/ RunOK(d, run[d])' /\ run'[d].tx \in {run[d].tx, 0} /\ Follows(run'[d], run[d])
      BY <2>3, <2>8, <2>10, <2>14, <2>15
    <2>17. \A d \in Runs : \A k \in 1..sent : WillRecord(run[d], k) => WillRecord(run[d], k)'
      <3>1. \A k : ~WillRecord(run[c], k) BY <2>2 DEF WillRecord, Sent
      <3>2. QED BY <2>10, <3>1 DEF WillRecord, Sent, IsBuy
    <2>18. PICK N : N = {} OBVIOUS
    <2>19. IsFiniteSet(N) /\ Cardinality(N) = 0 BY <2>18, NoneOrOne
    <2>20. Cardinality(N) + losses + excused <= losses' + excused' BY <1>2, <2>2, <2>19
    <2>21. QED BY <2>2, <2>11, <2>12, <2>16, <2>17, <2>19, <2>20, RunsAlone DEF headVars, storage
  <1>7. QED BY <1>3, <1>4, <1>5, <1>6

LEMMA ReloadKeeps ==
    ASSUME PageInv, UNCHANGED view, NEW t \in Tabs, Reload(t)
    PROVE  PageInv'
  <1> DEFINE Cut == {c \in Runs : run[c].open /\ run[c].tab = t}
             N == {run[c].tx : c \in Cut}
  <1>1. PageHeads /\ PageTypes BY DEF PageInv
  <1>2. /\ run' = [c \in Runs |-> CASE c \in Cut /\ run[c].pc \in {"await", "attach"} -> [run[c] EXCEPT !.open = FALSE]
                                    [] c \in Cut /\ run[c].pc \notin {"await", "attach"} -> Still
                                    [] OTHER -> run[c]]
        /\ tab' = [tab EXCEPT ![t].wallet = FALSE, ![t].hash = 0]
        /\ losses' = losses + Cardinality(Cut)
        /\ UNCHANGED <<headVars, storage, flows, headRow, up, clicks, excused>>
    BY DEF Reload
  <1>3. losses \in Nat /\ excused \in Nat /\ IsFiniteSet(Runs) BY <1>1, PageNumbers
  <1>4. IsFiniteSet(Cut) /\ Cardinality(Cut) \in Nat
    <2>1. Cut \in SUBSET Runs OBVIOUS
    <2>2. QED BY <1>3, <2>1, FS_Subset, FS_CardinalityType
  <1>5. IsFiniteSet(N) /\ Cardinality(N) <= Cardinality(Cut) /\ Cardinality(N) \in Nat
    <2> DEFINE f == [c \in Cut |-> run[c].tx]
    <2>1. \A y \in N : \E c \in Cut : f[c] = y OBVIOUS
    <2> HIDE DEF f, N, Cut
    <2>2. QED BY <1>4, <2>1, CountedBy, FS_CardinalityType
  <1>6. losses' \in Nat /\ Cardinality(N) + losses + excused <= losses' + excused'
    <2> HIDE DEF N, Cut
    <2>1. losses' + excused' = losses + Cardinality(Cut) + excused /\ losses' \in Nat BY <1>2, <1>3, <1>4
    <2>2. Cardinality(N) + losses + excused <= losses + Cardinality(Cut) + excused BY <1>3, <1>4, <1>5
    <2>3. QED BY <2>1, <2>2
  <1>7. \A c \in Runs : \/ run'[c] = run[c] /\ c \notin Cut
                        \/ c \in Cut /\ run'[c] = Still
                        \/ /\ c \in Cut /\ run[c].pc \in {"await", "attach"}
                           /\ run'[c] = [run[c] EXCEPT !.open = FALSE]
    BY <1>2
  <1> HIDE DEF N
  <1>8. \A c \in Runs : run[c] \in RunState /\ RunOK(c, run[c])
    BY <1>1, PageNumbers DEF PageInv, RunsInv
  <1>9. ASSUME NEW c \in Runs PROVE run'[c] \in RunState
    <2>1. PICK old : old = run[c] OBVIOUS
    <2>2. old \in RunState BY <1>8, <2>1
    <2>3. [old EXCEPT !.open = FALSE] \in RunState BY <2>2 DEF RunState
    <2>4. run'[c] \in {old, Still, [old EXCEPT !.open = FALSE]} BY <1>7, <2>1
    <2>5. QED BY <2>2, <2>3, <2>4, StillIs
  <1>10. PageTypes'
    <2>1. run' \in [Runs -> RunState]
      <3>1. run' = [c \in Runs |-> run'[c]] BY <1>2
      <3>2. QED BY <1>9, <3>1
    <2>2. tab' \in [Tabs -> [form: Amounts, hash: 0..MaxClicks, watch: Nat, wallet: BOOLEAN]]
          /\ \A u \in Tabs : tab'[u].watch = tab[u].watch /\ tab'[u].hash \in {0, tab[u].hash}
      <3>1. PICK cleared : cleared = [tab[t] EXCEPT !.wallet = FALSE, !.hash = 0] OBVIOUS
      <3>2. tab[t] \in [form: Amounts, hash: 0..MaxClicks, watch: Nat, wallet: BOOLEAN] BY <1>1 DEF PageTypes
      <3>3. cleared \in [form: Amounts, hash: 0..MaxClicks, watch: Nat, wallet: BOOLEAN]
            /\ cleared.watch = tab[t].watch /\ cleared.hash = 0
        <4>1. 0 \in 0..MaxClicks /\ FALSE \in BOOLEAN BY PageNames
        <4>2. PICK none : none = 0 OBVIOUS
        <4>3. none \in 0..MaxClicks /\ cleared = [tab[t] EXCEPT !.wallet = FALSE, !.hash = none] BY <3>1, <4>1, <4>2
        <4>4. QED BY <3>2, <4>2, <4>3
      <3>4. tab' = [tab EXCEPT ![t] = cleared] BY <1>2, <3>1
      <3>5. QED BY <1>1, <3>3, <3>4 DEF PageTypes
    <2>3. \A u \in Tabs : tab'[u].watch \in 0..Len(flows) /\ tab'[u].hash <= clicks
      BY <1>1, <2>2, PageNumbers DEF PageTypes
    <2>4. QED BY <1>1, <1>2, <1>6, <2>1, <2>2, <2>3 DEF PageTypes, storage
  <1>11. PageHeads' BY <1>1, <1>2, SameHeads
  <1>12. ASSUME NEW c \in Runs, run'[c] # run[c]
         PROVE  RunOK(c, run[c])' /\ run'[c].tx \in {run[c].tx, 0} /\ Follows(run'[c], run[c])
    <2>1. CASE run'[c] = Still
      <3>1. PICK r : r = Still OBVIOUS
      <3>2. r.pc = "idle" /\ r.tx = 0 /\ r.key = 0 /\ r.print = 0 /\ ~r.open /\ r.draft.kind = "alice"
        BY <3>1, StillIs
      <3>3. RunOK(c, r)' BY <3>2 DEF RunOK, Sent
      <3>4. QED BY <2>1, <3>1, <3>2, <3>3 DEF Follows
    <2>2. CASE run[c].pc \in {"await", "attach"} /\ run'[c] = [run[c] EXCEPT !.open = FALSE]
      <3>1. PICK old : old = run[c] OBVIOUS
      <3>2. PICK new : new = [old EXCEPT !.open = FALSE] OBVIOUS
      <3>3. old \in RunState /\ RunOK(c, old) BY <1>8, <3>1
      <3>4. /\ new.pc = old.pc /\ new.draft = old.draft /\ new.print = old.print /\ new.key = old.key
            /\ new.tx = old.tx /\ new.open = FALSE
        BY <3>2, <3>3 DEF RunState
      <3>5. RunOK(c, new) BY <2>2, <3>1, <3>3, <3>4 DEF RunOK, Sent
      <3>6. UNCHANGED <<clicks, keys, sent, flows, view>> BY <1>2 DEF storage, headVars
      <3>7. RunOK(c, new)' BY <3>5, <3>6 DEF RunOK, Sent, Stored, IsBuy
      <3>8. Follows(new, old) BY <2>2, <3>1, <3>4 DEF Follows
      <3>9. QED BY <2>2, <3>1, <3>2, <3>4, <3>7, <3>8
    <2>3. QED BY <1>7, <1>12, <2>1, <2>2
  <1>13. ASSUME NEW c \in Runs, NEW k \in 1..sent, WillRecord(run[c], k) PROVE WillRecord(run[c], k)' \/ k \in N
    <2>1. CASE c \notin Cut BY <1>7, <1>13, <2>1 DEF WillRecord, Sent, IsBuy
    <2>2. CASE c \in Cut BY <1>13, <2>2 DEF N, WillRecord
    <2>3. QED BY <2>1, <2>2
  <1>14. QED BY <1>2, <1>5, <1>6, <1>10, <1>11, <1>12, <1>13, RunsAlone DEF headVars, storage

-----------------------------------------------------------------------------
(* A mutation is started *)

LEMMA ClickStarts ==
    ASSUME PageInv, UNCHANGED view, NEW t \in Tabs, NEW print \in Prints, NEW first \in {"prepare", "post"},
           first = "post" => IsBuy(print), IsBuy(print) => print = clicks + 1,
           Click(t, print, first),
           tab' \in [Tabs -> [form: Amounts, hash: 0..MaxClicks, watch: Nat, wallet: BOOLEAN]],
           \A u \in Tabs : tab'[u].watch = tab[u].watch /\ tab'[u].hash <= clicks'
    PROVE  PageInv'
  <1>1. PageHeads /\ PageTypes /\ RunsInv /\ KeysInv /\ FlowsInv /\ LocksInv /\ LostInv BY DEF PageInv
  <1>2. PICK c, key : c = clicks + 1 /\ key = KeyOf(print) OBVIOUS
  <1>3. PICK new : new = [Still EXCEPT !.pc = first, !.print = print, !.key = key, !.tab = t, !.open = TRUE]
    OBVIOUS
  <1>4. /\ clicks < MaxClicks /\ clicks' = c
        /\ run' = [run EXCEPT ![c] = new]
        /\ GetOrCreate(print)
        /\ UNCHANGED <<headVars, flows, headRow, up, losses, excused>>
    BY <1>2, <1>3 DEF Click
  <1>5. c \in Runs /\ clicks \in Nat /\ keys \in Nat BY <1>1, <1>2, <1>4, PageNumbers DEF Runs
  <1>6. /\ keys' \in {keys, keys + 1} /\ keys' \in Nat
        /\ intents' \in [Prints -> [key: Nat, flow: Nat]]
        /\ \A q \in Prints : intents'[q].flow = intents[q].flow
        /\ \A q \in Prints : \/ intents'[q].key = intents[q].key
                             \/ q = print /\ keys' = keys + 1 /\ intents'[q].key = keys + 1
        /\ key \in Nat \ {0} /\ intents'[print].key = key
    BY <1>1, <1>2, <1>4, Creates
  <1>7. \A q \in Prints : intents'[q].key # 0 => KeyIs(intents'[q].key, q, print)
    BY <1>6 DEF KeyIs, KeyUses
  <1>8. KeyIs(key, print, print) BY <1>6, <1>7
  <1>9. key \in 1..keys' BY <1>1, <1>5, <1>6, <1>8 DEF KeyIs, KeysInv
  <1>10. /\ new \in RunState
         /\ new.pc = first /\ new.print = print /\ new.key = key /\ new.open = TRUE
         /\ new.tx = 0 /\ new.draft.kind = "alice"
    BY <1>3, <1>6, StillIs DEF RunState, RunPcs
  <1>11. run' \in [Runs -> RunState] /\ run'[c] = new /\ \A d \in Runs \ {c} : run'[d] = run[d]
    BY <1>1, <1>4, <1>5, <1>10 DEF PageTypes
  <1>12. PageTypes'
    <2>1. clicks' \in 0..MaxClicks BY <1>2, <1>4, <1>5, PageNames
    <2>2. \A u \in Tabs : tab'[u].watch \in 0..Len(flows) BY <1>1 DEF PageTypes
    <2>3. \A p \in Prints : intents'[p].flow \in 0..Len(flows) BY <1>1, <1>6 DEF PageTypes
    <2>4. QED BY <1>1, <1>4, <1>6, <1>11, <2>1, <2>2, <2>3 DEF PageTypes
  <1>13. PageHeads' BY <1>1, <1>4, SameHeads
  <1>14. Onward BY <1>1, <1>2, <1>4, <1>5, <1>6, PageNumbers DEF Onward, SameFlow, headVars
  <1>15. run[c].pc = "idle" BY <1>1, <1>2, <1>5 DEF RunsInv, RunOK
  <1>16. RunOK(c, new)'
    <2>1. ~Sent(new) BY <1>10 DEF Sent
    <2>2. (IsBuy(print) => print = c) BY <1>2
    <2>3. ~(c > clicks') BY <1>2, <1>4, <1>5
    <2>4. QED BY <1>9, <1>10, <2>1, <2>2, <2>3 DEF RunOK, Sent, IsBuy
  <1>17. \A d \in Runs : run[d].tx \in 0..sent BY <1>1, PageNumbers DEF RunsInv, RunOK
  <1>18. RunsInv'
    <2>1. \A d \in Runs : run'[d] = run[d] \/ RunOK(d, run[d])' BY <1>11, <1>16
    <2>2. \A d \in Runs : run'[d].tx \in {run[d].tx, 0} BY <1>10, <1>11
    <2>3. \A d \in Runs : run'[d].tx \in {run[d].tx, 0, sent + 1} /\ run'[d].tx # sent + 1
      BY <1>1, <1>17, <2>2, PageNumbers
    <2>4. QED BY <1>1, <1>12, <1>13, <1>14, <2>1, <2>3, RunsMove
  <1>19. RunsFollow BY <1>2, <1>5, <1>11, PageNumbers DEF RunsFollow, Follows, Runs
  <1>20. KeysInv'
    <2>1. \A d \in Runs : d > clicks /\ run'[d].pc # "idle" => KeyIs(run'[d].key, run'[d].print, print)
      BY <1>1, <1>8, <1>10, <1>11 DEF RunsInv, RunOK
    <2>2. \A f \in DOMAIN flows' : KeyIs(flows'[f].key, flows'[f].print, print) BY <1>4 DEF KeyIs, KeyUses
    <2>3. \A p \in Prints : IsBuy(p) /\ intents'[p].key # 0 => p <= clicks'
      <3>1. \A p \in Prints : IsBuy(p) /\ intents[p].key # 0 => p <= clicks BY <1>1 DEF KeysInv
      <3>2. \A p \in Prints : IsBuy(p) => p \in Nat BY PageNames
      <3>3. QED BY <1>2, <1>4, <1>5, <1>6, <3>1, <3>2
    <2>4. QED BY <1>1, <1>6, <1>7, <1>19, <2>1, <2>2, <2>3, KeysLast
  <1>21. FlowsKept BY <1>4 DEF FlowsKept, SameFlow
  <1>22. FlowsInv' BY <1>1, <1>12, <1>14, <1>19, <1>21, FlowsLast
  <1>23. LocksInv' BY <1>1, <1>4, <1>14, LocksLast DEF headVars
  <1>24. LostInv'
    <2>1. \A k \in 1..sent' : Live(k)' => (k \in 1..sent /\ Live(k)) BY <1>4 DEF Live, Moved, headVars
    <2>2. \A k \in 1..sent : Recorded(k) => Recorded(k)' BY <1>4 DEF Recorded
    <2>3. \A k \in 1..sent : \A d \in Runs : WillRecord(run[d], k) => WillRecord(run[d], k)'
      BY <1>11, <1>15 DEF WillRecord, Sent, IsBuy
    <2>4. losses + excused <= losses' + excused' BY <1>1, <1>4, PageNumbers
    <2>5. QED BY <1>1, <1>12, <1>13, <2>1, <2>2, <2>3, <2>4, LostStays
  <1>25. QED BY <1>12, <1>13, <1>18, <1>20, <1>22, <1>23, <1>24 DEF PageInv

LEMMA ClickKeeps ==
    ASSUME PageInv, UNCHANGED view, NEW t \in Tabs, ClickFunds(t) \/ ClickBuy(t)
    PROVE  PageInv'
  <1>1. PageHeads /\ PageTypes BY DEF PageInv
  <1>2. clicks \in Nat BY <1>1, PageNumbers
  <1>3. CASE ClickFunds(t)
    <2>1. PICK print : print = tab[t].form OBVIOUS
    <2>2. print \in Prints /\ ~IsBuy(print) BY <1>1, <2>1 DEF PageTypes, Prints, IsBuy
    <2>3. Click(t, print, "prepare") /\ tab' = tab BY <1>3, <2>1 DEF ClickFunds
    <2>4. clicks' = clicks + 1 BY <2>3 DEF Click
    <2>5. tab' \in [Tabs -> [form: Amounts, hash: 0..MaxClicks, watch: Nat, wallet: BOOLEAN]]
          /\ \A u \in Tabs : tab'[u].watch = tab[u].watch /\ tab'[u].hash <= clicks'
      BY <1>1, <1>2, <2>3, <2>4 DEF PageTypes
    <2>6. PICK first : first = "prepare" OBVIOUS
    <2>7. QED BY <2>2, <2>3, <2>5, <2>6, ClickStarts
  <1>4. CASE ClickBuy(t)
    <2>1. PICK print, first : print = clicks + 1 /\ first = IF view = "user" THEN "prepare" ELSE "post" OBVIOUS
    <2>2. Click(t, print, first) /\ tab' = [tab EXCEPT ![t].hash = print] BY <1>4, <2>1 DEF ClickBuy
    <2>3. clicks < MaxClicks /\ clicks' = print BY <2>1, <2>2 DEF Click
    <2>4. print \in 1..MaxClicks BY <1>2, <2>1, <2>3, PageNames
    <2>5. print \in Prints /\ IsBuy(print) BY <2>4, PageNames DEF Prints, IsBuy
    <2>6. tab' \in [Tabs -> [form: Amounts, hash: 0..MaxClicks, watch: Nat, wallet: BOOLEAN]]
          /\ \A u \in Tabs : tab'[u].watch = tab[u].watch /\ tab'[u].hash \in {tab[u].hash, print}
      <3>1. PICK shows : shows = [tab[t] EXCEPT !.hash = print] OBVIOUS
      <3>2. tab[t] \in [form: Amounts, hash: 0..MaxClicks, watch: Nat, wallet: BOOLEAN] BY <1>1 DEF PageTypes
      <3>3. print \in 0..MaxClicks BY <2>4
      <3>4. shows \in [form: Amounts, hash: 0..MaxClicks, watch: Nat, wallet: BOOLEAN]
            /\ shows.watch = tab[t].watch /\ shows.hash = print
        BY <3>1, <3>2, <3>3
      <3>5. tab' = [tab EXCEPT ![t] = shows] BY <2>2, <3>1
      <3>6. QED BY <1>1, <3>4, <3>5 DEF PageTypes
    <2>7. \A u \in Tabs : tab'[u].hash <= clicks'
      <3>1. \A u \in Tabs : tab[u].hash <= clicks /\ tab[u].hash \in Nat BY <1>1, PageNames DEF PageTypes
      <3>2. \A u \in Tabs : tab[u].hash <= print /\ print <= print BY <1>2, <2>1, <3>1
      <3>3. QED BY <2>3, <2>6, <3>2
    <2>8. first \in {"prepare", "post"} BY <2>1
    <2>9. QED BY <2>1, <2>2, <2>5, <2>6, <2>7, <2>8, ClickStarts
  <1>5. QED BY <1>3, <1>4

-----------------------------------------------------------------------------
(* A transaction is sent *)

LEMMA SendKeeps ==
    ASSUME PageInv, UNCHANGED view, NEW c \in Runs, run[c].pc = "send",
           NEW o \in PageOutput, ~Moved(o), NEW made \in PageOutput, made.kind = "lock" => Posted(made.print),
           SendFrom(c, o, made)
    PROVE  PageInv'
  <1>1. PageHeads /\ PageTypes /\ RunsInv /\ KeysInv /\ FlowsInv /\ LocksInv /\ LostInv BY DEF PageInv
  <1>2. /\ Send(o.head, {o}, {}, {[o EXCEPT !.tx = 0], made}, 0, Always)
        /\ UNCHANGED <<tab, storage, flows, headRow, up, clicks, losses, excused>>
    BY DEF SendFrom
  <1>3. /\ PageHeads'
        /\ sent' = sent + 1 /\ sent \in Nat /\ utxo' = utxo
        /\ \E x : /\ pool' = pool \cup {x} /\ x.id = sent + 1
                  /\ \A y \in x.makes : y.kind = "lock" => made.kind = "lock" /\ y.print = made.print
    <2>1. PICK head : head = o.head OBVIOUS
    <2>2. Send(head, {o}, {}, {[o EXCEPT !.tx = 0], made}, 0, Always) BY <1>2, <2>1
    <2>3. QED BY <1>1, <2>2, PageSends
  <1>4. PICK x : /\ pool' = pool \cup {x} /\ x.id = sent + 1
                 /\ \A y \in x.makes : y.kind = "lock" => made.kind = "lock" /\ y.print = made.print
    BY <1>3
  <1>5. PICK old : old = run[c] OBVIOUS
  <1>6. PICK new : new = [old EXCEPT !.pc = "await", !.tx = sent + 1] OBVIOUS
  <1>7. old \in RunState /\ RunOK(c, old) /\ old.pc = "send" BY <1>1, <1>5, PageNumbers DEF RunsInv
  <1>8. /\ new \in RunState
        /\ new.pc = "await" /\ new.tx = sent + 1
        /\ new.print = old.print /\ new.key = old.key /\ new.open = old.open /\ new.draft = old.draft
    <2>1. PICK id : id = sent + 1 OBVIOUS
    <2>2. id \in Nat /\ "await" \in RunPcs BY <1>3, <2>1 DEF RunPcs
    <2>3. new = [old EXCEPT !.pc = "await", !.tx = id] BY <1>6, <2>1
    <2>4. QED BY <1>7, <2>1, <2>2, <2>3 DEF RunState
  <1>9. run' = [run EXCEPT ![c] = new] BY <1>5, <1>6 DEF SendFrom
  <1>10. run' \in [Runs -> RunState] /\ run'[c] = new /\ \A d \in Runs \ {c} : run'[d] = run[d]
    BY <1>1, <1>8, <1>9 DEF PageTypes
  <1>11. PageTypes' BY <1>1, <1>2, <1>10 DEF PageTypes, storage
  <1>12. Onward BY <1>1, <1>2, <1>3, PageNumbers DEF Onward, SameFlow, storage
  <1>13. old.tx = 0 /\ old.open BY <1>7 DEF RunOK, Sent
  <1>14. RunOK(c, new)'
    <2>1. Sent(new) BY <1>8 DEF Sent
    <2>2. new.tx \in 1..sent' BY <1>3, <1>8
    <2>3. UNCHANGED <<clicks, keys, flows, view>> BY <1>2 DEF storage
    <2>4. RunOK(c, old)' BY <1>1, <1>3, <1>7, <1>11, <1>12, RunLasts
    <2>5. QED BY <1>7, <1>8, <1>13, <2>1, <2>2, <2>4 DEF RunOK, Sent, IsBuy
  <1>15. \A d \in Runs : run[d].tx \in 0..sent BY <1>1, PageNumbers DEF RunsInv, RunOK
  <1>16. RunsInv'
    <2>1. \A d \in Runs : run'[d] = run[d] \/ RunOK(d, run[d])' BY <1>10, <1>14
    <2>2. \A d \in Runs : run'[d].tx \in {run[d].tx, 0, sent + 1} BY <1>8, <1>10
    <2>3. \A d \in Runs : run'[d].tx = sent + 1 => d = c BY <1>3, <1>10, <1>15
    <2>4. QED BY <1>1, <1>3, <1>11, <1>12, <2>1, <2>2, <2>3, RunsMove
  <1>17. RunsFollow BY <1>5, <1>7, <1>8, <1>10, <1>13 DEF RunsFollow, Follows
  <1>18. KeysInv'
    <2>1. \A d \in Runs : d > clicks => run'[d].pc = "idle" BY <1>2, <1>16 DEF RunsInv, RunOK
    <2>2. \A f \in DOMAIN flows' : <<flows'[f].key, flows'[f].print>> \in KeyUses BY <1>2 DEF KeyUses
    <2>3. QED BY <1>1, <1>2, <1>17, <2>1, <2>2, KeysStay DEF storage
  <1>19. FlowsKept BY <1>2 DEF FlowsKept, SameFlow
  <1>20. FlowsInv' BY <1>1, <1>11, <1>12, <1>17, <1>19, FlowsLast
  <1>21. LocksInv'
    <2>1. \A y \in pool' : y \in pool \/ \A q \in y.makes : q.kind = "lock" => Posted(q.print) BY <1>4
    <2>2. QED BY <1>1, <1>3, <1>12, <2>1, LocksLast
  <1>22. LostInv'
    <2>1. ASSUME NEW k \in 1..sent', Live(k)'
          PROVE  (k \in 1..sent /\ Live(k)) \/ \E d \in Runs : WillRecord(run[d], k)'
      <3>1. CASE k = sent + 1 BY <1>8, <1>10, <1>13, <3>1 DEF WillRecord, Sent
      <3>2. CASE k # sent + 1 BY <1>3, <1>4, <2>1, <3>2 DEF Live, Moved
      <3>3. QED BY <3>1, <3>2
    <2>2. \A k \in 1..sent : Recorded(k) => Recorded(k)' BY <1>2 DEF Recorded
    <2>3. \A k \in 1..sent : \A d \in Runs : WillRecord(run[d], k) => WillRecord(run[d], k)'
      <3>1. ~\E k : WillRecord(run[c], k) BY <1>5, <1>7 DEF WillRecord, Sent
      <3>2. QED BY <1>10, <3>1 DEF WillRecord, Sent, IsBuy
    <2>4. losses + excused <= losses' + excused' BY <1>1, <1>2, PageNumbers
    <2>5. QED BY <1>1, <1>3, <1>11, <2>1, <2>2, <2>3, <2>4, LostStays
  <1>23. QED BY <1>3, <1>11, <1>16, <1>18, <1>20, <1>21, <1>22 DEF PageInv

LEMMA SendsKeep ==
    ASSUME PageInv, UNCHANGED view, NEW c \in Runs, SendTransfer(c) \/ SendLock(c)
    PROVE  PageInv'
  <1>1. PageHeads /\ PageTypes /\ RunsInv BY DEF PageInv
  <1>2. PICK print : print = run[c].print OBVIOUS
  <1>3. run[c].pc = "send" BY DEF SendTransfer, SendLock, RunAt
  <1>4. /\ run[c] \in RunState /\ print \in Prints
        /\ run[c].draft \in PageOutput /\ run[c].draft.kind \in {"alice", "wallet"}
        /\ IsBuy(print) => Posted(print)
    BY <1>1, <1>2, <1>3, PageNumbers DEF RunsInv, RunOK, RunState, Stored, Posted
  <1>5. CASE SendTransfer(c)
    <2>1. PICK o : o = run[c].draft OBVIOUS
    <2>2. PICK made : made = Made("headA", "funds", print) OBVIOUS
    <2>3. SendFrom(c, o, made) BY <1>2, <1>5, <2>1, <2>2 DEF SendTransfer
    <2>4. made \in PageOutput /\ made.kind = "funds" BY <1>4, <2>2, PageNames, MadeFields
    <2>5. o \in PageOutput /\ ~Moved(o) BY <1>4, <2>1 DEF Moved
    <2>6. QED BY <1>3, <2>3, <2>4, <2>5, SendKeeps
  <1>6. CASE SendLock(c)
    <2>1. PICK o, made : /\ o = run[c].draft \/ o \in Inputs("wallet")
                         /\ made = Made(Source, "lock", print)
                         /\ SendFrom(c, o, made)
      BY <1>2, <1>6 DEF SendLock
    <2>2. IsBuy(print) BY <1>2, <1>6 DEF SendLock
    <2>3. PICK head : head = Source OBVIOUS
    <2>4. head \in Heads /\ made = Made(head, "lock", print) BY <2>1, <2>3, PageNames
    <2>5. made \in PageOutput /\ made.print = print BY <1>4, <2>4, MadeFields
    <2>6. o \in PageOutput /\ ~Moved(o) BY <1>1, <1>4, <2>1 DEF Moved, Inputs, PageHeads
    <2>7. QED BY <1>3, <1>4, <2>1, <2>2, <2>5, <2>6, SendKeeps
  <1>7. QED BY <1>5, <1>6

-----------------------------------------------------------------------------
(* A head answers *)

\* What a mutation that has its answer does next.
LEMMA AnswerFollows ==
    ASSUME PageInv, NEW c \in Runs, run[c].pc = "await", AfterSend(c) # "idle",
           NEW new, new = [run[c] EXCEPT !.pc = AfterSend(c)]
    PROVE  /\ new \in RunState /\ RunOK(c, new) /\ Follows(new, run[c])
           /\ new.tx = run[c].tx
           /\ \A k : WillRecord(run[c], k) => WillRecord(new, k)
  <1>1. PICK old, pc : old = run[c] /\ pc = AfterSend(c) OBVIOUS
  <1>2. old \in RunState /\ RunOK(c, old) /\ old.pc = "await"
    BY <1>1, PageNumbers DEF PageInv, RunsInv
  <1>3. /\ IsBuy(old.print) /\ view = "user" => pc = "attach"
        /\ ~(IsBuy(old.print) /\ view = "user") => old.open /\ pc = IF IsBuy(old.print) THEN "report" ELSE "post"
    BY <1>1, <1>2 DEF AfterSend, RunState
  <1>4. pc \in {"attach", "report", "post"} BY <1>3
  <1>5. /\ new \in RunState
        /\ new.pc = pc /\ new.tx = old.tx /\ new.print = old.print /\ new.key = old.key
        /\ new.open = old.open /\ new.draft = old.draft
    BY <1>1, <1>2, <1>4 DEF RunState, RunPcs
  <1>6. Sent(old) /\ Sent(new) BY <1>2, <1>3, <1>5 DEF Sent
  <1>7. RunOK(c, new) BY <1>2, <1>3, <1>4, <1>5, <1>6 DEF RunOK
  <1>8. Follows(new, old) BY <1>2, <1>5 DEF Follows
  <1>9. \A k : WillRecord(old, k) => WillRecord(new, k) BY <1>5, <1>6 DEF WillRecord
  <1>10. QED BY <1>1, <1>5, <1>7, <1>8, <1>9

LEMMA AnswerKeeps ==
    ASSUME PageInv, UNCHANGED view, NEW x \in pool, PageAnswer(x)
    PROVE  PageInv'
  <1> DEFINE Mistaken == {c \in Hears(x.head) : run[c].tx # x.id}
             N == {run[c].tx : c \in Mistaken}
  <1>1. PageHeads /\ PageTypes /\ RunsInv /\ KeysInv /\ FlowsInv /\ LocksInv /\ LostInv BY DEF PageInv
  <1>2. /\ Decide(x)
        /\ run' = [c \in Runs |->
              CASE c \notin Hears(x.head) -> run[c]
                [] c \in Hears(x.head) /\ Valid(x) /\ AfterSend(c) # "idle" -> [run[c] EXCEPT !.pc = AfterSend(c)]
                [] OTHER -> Still]
        /\ excused' = excused + Cardinality(Mistaken)
        /\ UNCHANGED <<tab, storage, flows, headRow, up, clicks, losses>>
    BY DEF PageAnswer
  <1>3. /\ PageHeads'
        /\ pool' = pool \ {x} /\ sent' = sent
        /\ \A o \in utxo' : o \in utxo \/ o \in x.makes
        /\ ~Valid(x) => utxo' = utxo
    BY <1>1, <1>2, PageDecides
  <1>4. \A c \in Hears(x.head) : c \in Runs /\ run[c].pc = "await" BY DEF Hears, RunAt
  <1>5. ASSUME NEW c \in Runs
        PROVE  \/ run'[c] = run[c] /\ c \notin Hears(x.head)
               \/ c \in Hears(x.head) /\ run'[c] = Still /\ ~(Valid(x) /\ AfterSend(c) # "idle")
               \/ /\ c \in Hears(x.head) /\ run'[c] = [run[c] EXCEPT !.pc = AfterSend(c)]
                  /\ Valid(x) /\ AfterSend(c) # "idle"
    BY <1>2
  <1>6. losses \in Nat /\ excused \in Nat /\ sent \in Nat /\ IsFiniteSet(Runs)
        /\ \A c \in Runs : run[c] \in RunState /\ RunOK(c, run[c])
    BY <1>1, PageNumbers DEF RunsInv
  <1>7. IsFiniteSet(Mistaken) /\ Cardinality(Mistaken) \in Nat
    <2>1. Mistaken \in SUBSET Runs BY <1>4
    <2>2. QED BY <1>6, <2>1, FS_Subset, FS_CardinalityType
  <1>8. IsFiniteSet(N) /\ Cardinality(N) <= Cardinality(Mistaken) /\ Cardinality(N) \in Nat
    <2> DEFINE f == [c \in Mistaken |-> run[c].tx]
    <2>1. \A y \in N : \E c \in Mistaken : f[c] = y OBVIOUS
    <2> HIDE DEF f, N, Mistaken
    <2>2. QED BY <1>7, <2>1, CountedBy, FS_CardinalityType
  <1>9. excused' \in Nat /\ Cardinality(N) + losses + excused <= losses' + excused'
        /\ losses + excused <= losses' + excused'
    <2> HIDE DEF N, Mistaken
    <2>1. losses' + excused' = losses + (excused + Cardinality(Mistaken)) /\ excused' \in Nat BY <1>2, <1>6, <1>7
    <2>2. Cardinality(N) + losses + excused <= losses + (excused + Cardinality(Mistaken))
          /\ losses + excused <= losses + (excused + Cardinality(Mistaken))
      BY <1>6, <1>7, <1>8
    <2>3. QED BY <2>1, <2>2
  <1>10. \A k : ~Valid(x) /\ k = x.id => ~Live(k)'
    <2>1. \A y \in pool' : y.id # x.id BY <1>1, <1>3 DEF PageHeads
    <2>2. \A o \in utxo : Moved(o) => o.tx # x.id BY <1>1 DEF PageHeads
    <2>3. QED BY <1>3, <2>1, <2>2 DEF Live, Moved
  <1>11. \A k \in Nat : Live(k)' => Live(k)
    <2>1. \A o \in x.makes : o.tx = x.id BY <1>1 DEF PageHeads, PageTx
    <2>2. QED BY <1>3, <2>1 DEF Live, Moved
  <1>12. ASSUME NEW c \in Runs, run'[c] # run[c]
         PROVE  /\ run'[c] \in RunState /\ RunOK(c, run[c])' /\ run'[c].tx \in {run[c].tx, 0}
                /\ Follows(run'[c], run[c])
    <2>1. UNCHANGED <<clicks, keys, sent, flows, view>> BY <1>2, <1>3 DEF storage
    <2>2. CASE run'[c] = Still
      <3>1. PICK r : r = Still OBVIOUS
      <3>2. r.pc = "idle" /\ r.tx = 0 /\ r.key = 0 /\ r.print = 0 /\ ~r.open /\ r.draft.kind = "alice"
        BY <3>1, StillIs
      <3>3. RunOK(c, r)' BY <3>2 DEF RunOK, Sent
      <3>4. QED BY <2>2, <3>1, <3>2, <3>3, StillIs DEF Follows
    <2>3. CASE /\ c \in Hears(x.head) /\ run'[c] = [run[c] EXCEPT !.pc = AfterSend(c)]
               /\ AfterSend(c) # "idle"
      <3>1. PICK new : new = [run[c] EXCEPT !.pc = AfterSend(c)] OBVIOUS
      <3>2. new \in RunState /\ RunOK(c, new) /\ Follows(new, run[c]) /\ new.tx = run[c].tx
        BY <1>4, <2>3, <3>1, AnswerFollows
      <3>3. RunOK(c, new)' BY <2>1, <3>2 DEF RunOK, Sent, Stored, IsBuy
      <3>4. QED BY <2>3, <3>1, <3>2, <3>3
    <2>4. QED BY <1>5, <1>12, <2>2, <2>3
  <1>13. PageTypes'
    <2>1. \A c \in Runs : run'[c] \in RunState BY <1>6, <1>12
    <2>2. run' = [c \in Runs |-> run'[c]] BY <1>2
    <2>3. run' \in [Runs -> RunState] BY <2>1, <2>2
    <2>4. QED BY <1>1, <1>2, <1>9, <2>3 DEF PageTypes, storage
  <1>14. Onward BY <1>1, <1>2, <1>3, PageNumbers DEF Onward, SameFlow, storage
  <1>15. RunsFollow BY <1>12 DEF RunsFollow, Follows
  <1>16. RunsInv'
    <2>1. \A c \in Runs : run[c].tx \in 0..sent BY <1>6 DEF RunOK
    <2>2. \A c \in Runs : run'[c] = run[c] \/ RunOK(c, run[c])' BY <1>12
    <2>3. \A c \in Runs : run'[c].tx \in {run[c].tx, 0} BY <1>12
    <2>4. \A c \in Runs : run'[c].tx \in {run[c].tx, 0, sent + 1} /\ run'[c].tx # sent + 1 BY <1>6, <2>1, <2>3
    <2>5. QED BY <1>1, <1>3, <1>13, <1>14, <2>2, <2>4, RunsMove
  <1>17. KeysInv'
    <2>1. \A d \in Runs : d > clicks => run'[d].pc = "idle" BY <1>2, <1>16 DEF RunsInv, RunOK
    <2>2. \A f \in DOMAIN flows' : <<flows'[f].key, flows'[f].print>> \in KeyUses BY <1>2 DEF KeyUses
    <2>3. QED BY <1>1, <1>2, <1>15, <2>1, <2>2, KeysStay DEF storage
  <1>18. FlowsKept BY <1>2 DEF FlowsKept, SameFlow
  <1>19. FlowsInv' BY <1>1, <1>13, <1>14, <1>15, <1>18, FlowsLast
  <1>20. LocksInv' BY <1>1, <1>3, <1>14, LocksLast
  <1> HIDE DEF N
  <1>21. LostInv'
    <2>1. \A k \in 1..sent' : Live(k)' => (k \in 1..sent /\ Live(k)) \/ \E c \in Runs : WillRecord(run[c], k)'
      BY <1>3, <1>11
    <2>2. \A k \in 1..sent : Recorded(k) => Recorded(k)' BY <1>2 DEF Recorded
    <2>3. ASSUME NEW k \in 1..sent, NEW c \in Runs, WillRecord(run[c], k)
          PROVE  \/ \E d \in Runs : WillRecord(run[d], k)'
                 \/ Recorded(k)' \/ ~Live(k)' \/ k \in N
      <3>1. run[c].tx = k BY <2>3 DEF WillRecord
      <3>2. CASE c \notin Hears(x.head) BY <1>5, <2>3, <3>2 DEF WillRecord, Sent, IsBuy
      <3>3. CASE c \in Hears(x.head) /\ k # x.id BY <3>1, <3>3 DEF N
      <3>4. CASE c \in Hears(x.head) /\ k = x.id /\ Valid(x) /\ AfterSend(c) # "idle"
        <4>1. PICK new : new = [run[c] EXCEPT !.pc = AfterSend(c)] OBVIOUS
        <4>2. WillRecord(new, k) BY <1>4, <2>3, <3>4, <4>1, AnswerFollows
        <4>3. run'[c] = new BY <1>5, <3>4, <4>1
        <4>4. WillRecord(new, k)' BY <4>2 DEF WillRecord, Sent, IsBuy
        <4>5. QED BY <4>3, <4>4
      <3>5. CASE k = x.id /\ ~Valid(x) BY <1>10, <3>5
      <3>6. AfterSend(c) # "idle"
        <4>1. run[c].open \in BOOLEAN BY <1>6 DEF RunState
        <4>2. run[c].open \/ (IsBuy(run[c].print) /\ view = "user") BY <2>3 DEF WillRecord
        <4>3. CASE IsBuy(run[c].print) /\ view = "user" BY <4>3 DEF AfterSend
        <4>4. CASE ~(IsBuy(run[c].print) /\ view = "user") /\ IsBuy(run[c].print) BY <4>2, <4>4 DEF AfterSend
        <4>5. CASE ~IsBuy(run[c].print) BY <4>2, <4>5 DEF AfterSend
        <4>6. QED BY <4>3, <4>4, <4>5
      <3>7. QED BY <3>2, <3>3, <3>4, <3>5, <3>6
    <2>4. QED BY <1>1, <1>3, <1>8, <1>9, <1>13, <2>1, <2>2, <2>3, LostMoves
  <1>22. QED BY <1>3, <1>13, <1>16, <1>17, <1>19, <1>20, <1>21 DEF PageInv

-----------------------------------------------------------------------------
(* Workflows *)

\* What a mutation that has the key and the print of a workflow writes to it.
Written(c, source, id) ==
    \/ WithKey(run[c].key) = {} /\ id = Len(flows) + 1 /\ flows' = Append(flows, NewFlow(c, source))
    \/ id \in WithKey(run[c].key) /\ IsBuy(run[c].print) /\ flows' = Attached(id, source)
    \/ id \in WithKey(run[c].key) /\ ~IsBuy(run[c].print) /\ flows' = flows

\* It is the workflow of the key, old or new, and its transaction is the one of the mutation.
Holds(c, source, id) ==
    /\ flows' \in Seq(Flow)
    /\ id \in DOMAIN flows'
    /\ \A f \in DOMAIN flows : f \in DOMAIN flows' /\ SameFlow(flows'[f], flows[f])
    /\ \A f \in DOMAIN flows' \ {id} : f \in DOMAIN flows /\ flows'[f] = flows[f]
    /\ flows'[id].print = run[c].print /\ flows'[id].key = run[c].key
    /\ id \in DOMAIN flows \/ WithKey(run[c].key) = {}
    /\ id \in DOMAIN flows => flows'[id].source \in {flows[id].source, source}
    /\ id \notin DOMAIN flows => flows'[id].source = source
    /\ IsBuy(run[c].print) => (flows'[id].source = source \/ source = 0)

LEMMA WrittenHolds ==
    ASSUME PageHeads, PageTypes, RunsInv, KeysInv, NEW c \in Runs, run[c].pc # "idle", NEW source \in Nat,
           NEW id, Written(c, source, id)
    PROVE  Holds(c, source, id) /\ DOMAIN flows' = 1..Len(flows') /\ Len(flows') \in Nat /\ Len(flows) <= Len(flows')
  <1>1. /\ run[c] \in RunState /\ run[c].print \in Prints
        /\ flows \in Seq(Flow) /\ DOMAIN flows = 1..Len(flows) /\ Len(flows) \in Nat
        /\ \A f \in DOMAIN flows : flows[f] \in Flow
    BY PageNumbers DEF PageTypes, RunsInv, RunOK
  <1>2. \A f \in WithKey(run[c].key) : f \in DOMAIN flows /\ flows[f].key = run[c].key /\ flows[f].print = run[c].print
    <2>1. ASSUME NEW f \in DOMAIN flows, flows[f].key = run[c].key PROVE flows[f].print = run[c].print
      <3>1. <<flows[f].key, flows[f].print>> \in KeyUses BY DEF KeyUses
      <3>2. <<run[c].key, run[c].print>> \in KeyUses BY DEF KeyUses
      <3>3. QED BY <2>1, <3>1, <3>2 DEF KeysInv
    <2>2. QED BY <2>1 DEF WithKey
  <1>3. CASE WithKey(run[c].key) = {} /\ id = Len(flows) + 1 /\ flows' = Append(flows, NewFlow(c, source))
    <2>1. PICK w : w = NewFlow(c, source) OBVIOUS
    <2>2. w \in Flow /\ w.print = run[c].print /\ w.key = run[c].key /\ w.source = source
      BY <1>1, <2>1 DEF NewFlow, Flow, RunState
    <2>3. flows' = Append(flows, w) BY <1>3, <2>1
    <2>4. /\ flows' \in Seq(Flow) /\ Len(flows') = Len(flows) + 1 /\ DOMAIN flows' = 1..(Len(flows) + 1)
          /\ \A f \in DOMAIN flows : flows'[f] = flows[f]
          /\ flows'[Len(flows) + 1] = w
      BY <1>1, <2>2, <2>3, SeqAppends
    <2>5. id \notin DOMAIN flows /\ id \in DOMAIN flows' /\ flows'[id] = w BY <1>1, <1>3, <2>4
    <2>6. \A f \in DOMAIN flows' \ {id} : f \in DOMAIN flows BY <1>1, <1>3, <2>4
    <2>7. \A f \in DOMAIN flows : f \in DOMAIN flows' BY <1>1, <2>4
    <2>8. QED BY <1>1, <1>3, <2>2, <2>4, <2>5, <2>6, <2>7 DEF Holds, SameFlow
  <1>4. CASE id \in WithKey(run[c].key) /\ flows' = flows /\ (IsBuy(run[c].print) => source \in {0, flows[id].source})
    BY <1>1, <1>2, <1>4 DEF Holds, SameFlow
  <1>5. CASE /\ id \in WithKey(run[c].key)
             /\ flows' = [flows EXCEPT ![id].source = source, ![id].status = "pending"]
    <2>1. id \in DOMAIN flows /\ flows[id] \in Flow BY <1>1, <1>2, <1>5
    <2>2. PICK w : w = [flows[id] EXCEPT !.source = source, !.status = "pending"] OBVIOUS
    <2>3. w \in Flow /\ w.print = flows[id].print /\ w.key = flows[id].key /\ w.source = source
      BY <2>1, <2>2 DEF Flow
    <2>4. flows' = [flows EXCEPT ![id] = w] BY <1>5, <2>2
    <2>5. /\ flows' \in Seq(Flow) /\ Len(flows') = Len(flows) /\ DOMAIN flows' = DOMAIN flows
          /\ \A f \in DOMAIN flows : flows'[f] = IF f = id THEN w ELSE flows[f]
      BY <1>1, <2>1, <2>3, <2>4, SeqWrites
    <2>6. QED BY <1>1, <1>2, <1>5, <2>1, <2>3, <2>5 DEF Holds, SameFlow
  <1>6. QED BY <1>3, <1>4, <1>5 DEF Written, Attached

LEMMA HoldsFlows ==
    ASSUME PageHeads, PageTypes, RunsInv, FlowsInv, PageTypes', Onward, RunsFollow, clicks' = clicks,
           NEW c \in Runs, run[c].pc # "idle", NEW source \in {0, run[c].tx}, NEW id, Holds(c, source, id),
           run'[c].pc = "idle" \/ run'[c].tx = run[c].tx
    PROVE  FlowsInv'
  <1>1. run[c].print \in Prints /\ (IsBuy(run[c].print) => run[c].print = c) /\ c <= clicks /\ clicks \in Nat
    BY PageNumbers DEF RunsInv, RunOK
  <1>2. PICK w : w = flows'[id] OBVIOUS
  <1>3. w.print = run[c].print /\ w.key = run[c].key BY <1>2 DEF Holds
  <1>4. \A f \in DOMAIN flows : flows[f] \in Flow BY PageNumbers
  <1>5. IsBuy(run[c].print) => w.source \in {0, run[c].tx}
    <2>1. CASE id \in DOMAIN flows
      <3>1. w.source \in {flows[id].source, source} BY <1>2, <2>1 DEF Holds
      <3>2. SameFlow(w, flows[id]) BY <1>2, <2>1 DEF Holds
      <3>3. FlowOK(flows[id]) BY <2>1 DEF FlowsInv
      <3>4. IsBuy(run[c].print) => flows[id].source \in {0, run[c].tx} BY <1>1, <1>3, <3>2, <3>3 DEF FlowOK, SameFlow
      <3>5. QED BY <3>1, <3>4
    <2>2. CASE id \notin DOMAIN flows BY <1>2, <2>2 DEF Holds
    <2>3. QED BY <2>1, <2>2
  <1>6. FlowOK(w)'
    <2>1. CASE ~IsBuy(w.print) BY <2>1 DEF FlowOK, IsBuy
    <2>2. CASE IsBuy(w.print)
      <3>1. w.print = c BY <1>1, <1>3, <2>2
      <3>2. w.print <= clicks' BY <1>1, <3>1
      <3>3. run'[c].pc # "idle" => w.key = run'[c].key /\ w.source \in {0, run'[c].tx}
        BY <1>1, <1>3, <1>5, <2>2, PageNumbers DEF RunsFollow, Follows
      <3>4. QED BY <3>1, <3>2, <3>3 DEF FlowOK, IsBuy
    <2>3. QED BY <2>1, <2>2
  <1>7. ASSUME NEW f \in DOMAIN flows' PROVE FlowOK(flows[f])'
    <2>1. CASE f = id BY <1>2, <1>6, <2>1
    <2>2. CASE f # id
      <3>1. PICK v : v = flows[f] OBVIOUS
      <3>2. f \in DOMAIN flows /\ flows'[f] = v BY <1>7, <2>2, <3>1 DEF Holds
      <3>3. v \in Flow /\ FlowOK(v) BY <1>4, <3>1, <3>2 DEF FlowsInv
      <3>4. clicks' \in Nat BY <1>1
      <3>5. FlowOK(v)' BY <3>3, <3>4, FlowLasts
      <3>6. QED BY <3>2, <3>5
    <2>3. QED BY <2>1, <2>2
  <1>8. \A f \in DOMAIN flows' \ {id} :
            f \in DOMAIN flows /\ flows'[f].key = flows[f].key /\ flows'[f].print = flows[f].print
    BY DEF Holds
  <1>9. ASSUME NEW f \in DOMAIN flows' \ {id}
        PROVE  flows'[f].key # flows'[id].key /\ (IsBuy(flows'[f].print) => flows'[f].print # flows'[id].print)
    <2>1. f \in DOMAIN flows /\ FlowOK(flows[f]) BY <1>8 DEF FlowsInv
    <2>2. IsBuy(flows[f].print) /\ flows[f].print = run[c].print => flows[f].key = run[c].key
      BY <1>1, <2>1 DEF FlowOK
    <2>3. flows[f].key # run[c].key
      <3>1. CASE id \in DOMAIN flows
        <4>1. flows[id].key = run[c].key BY <3>1 DEF Holds, SameFlow
        <4>2. QED BY <2>1, <3>1, <4>1 DEF FlowsInv
      <3>2. CASE id \notin DOMAIN flows BY <2>1, <3>2 DEF Holds, WithKey
      <3>3. QED BY <3>1, <3>2
    <2>4. QED BY <1>2, <1>3, <1>8, <2>2, <2>3
  <1>10. (\A f, g \in DOMAIN flows : flows[f].key = flows[g].key => f = g)' BY <1>8, <1>9 DEF FlowsInv
  <1>11. OneRowPerPurchase' BY <1>8, <1>9 DEF FlowsInv, OneRowPerPurchase, IsBuy
  <1>12. QED BY <1>7, <1>10, <1>11 DEF FlowsInv

\* A mutation writes to its workflow and goes on, and has its transaction recorded there.
LEMMA WriteKeeps ==
    ASSUME PageInv, UNCHANGED <<view, headVars, headRow, up, clicks, keys>>,
           NEW c \in Runs, run[c].pc # "idle", NEW source \in {0, run[c].tx}, NEW id, Written(c, source, id),
           NEW next \in {"idle", "send", "report"}, Then(c, next),
           next # "idle" => IsBuy(run[c].print),
           next = "send" => ~Sent(run[c]), next = "report" => Sent(run[c]),
           tab' \in [Tabs -> [form: Amounts, hash: 0..MaxClicks, watch: Nat, wallet: BOOLEAN]],
           \A t \in Tabs : tab'[t].watch \in {tab[t].watch, id} /\ tab'[t].hash = tab[t].hash,
           intents' \in [Prints -> [key: Nat, flow: Nat]],
           \A p \in Prints : intents'[p].key = intents[p].key /\ intents'[p].flow \in {intents[p].flow, id},
           losses' \in Nat, excused' \in Nat,
           NEW n \in Nat, losses' + excused' = losses + excused + n,
           Sent(run[c]) => source = run[c].tx /\ (n # 0 \/ IsBuy(run[c].print) \/ id \notin DOMAIN flows)
    PROVE  PageInv'
  <1>1. PageHeads /\ PageTypes /\ RunsInv /\ KeysInv /\ FlowsInv /\ LocksInv /\ LostInv BY DEF PageInv
  <1>2. PICK old : old = run[c] OBVIOUS
  <1>3. /\ old \in RunState /\ RunOK(c, old) /\ losses \in Nat /\ excused \in Nat /\ clicks \in Nat /\ keys \in Nat
        /\ sent \in Nat /\ Len(flows) \in Nat /\ source \in Nat /\ old.print \in Prints
    <2>0. /\ losses \in Nat /\ excused \in Nat /\ clicks \in Nat /\ keys \in Nat /\ sent \in Nat /\ Len(flows) \in Nat
          /\ \A d \in Runs : run[d] \in RunState /\ run[d].tx \in Nat
      BY ONLY <1>1, PageNumbers
    <2>1. /\ losses \in Nat /\ excused \in Nat /\ clicks \in Nat /\ keys \in Nat
          /\ sent \in Nat /\ Len(flows) \in Nat /\ source \in Nat /\ old \in RunState
      <3>1. run[c].tx \in Nat /\ old \in RunState BY <1>2, <2>0
      <3>2. source \in Nat BY <3>1
      <3>3. QED BY <2>0, <3>1, <3>2
    <2>2. RunOK(c, old) BY <1>1, <1>2 DEF RunsInv
    <2>3. old.print \in Prints BY <1>2, <2>2 DEF RunOK
    <2>4. QED BY <2>1, <2>2, <2>3
  <1>4. /\ Holds(c, source, id) /\ DOMAIN flows' = 1..Len(flows') /\ Len(flows') \in Nat
        /\ Len(flows) <= Len(flows')
    BY <1>1, <1>3, WrittenHolds
  <1>5. /\ run' \in [Runs -> RunState]
        /\ \A d \in Runs \ {c} : run'[d] = run[d]
        /\ \/ run'[c] = Still
           \/ old.open /\ next # "idle" /\ run'[c] = [old EXCEPT !.pc = next]
    BY <1>1, <1>2, ThenRun DEF RunPcs
  <1>6. PageHeads' BY <1>1, SameHeads
  <1>7. PageTypes'
    <2>1. id \in 0..Len(flows') BY <1>4 DEF Holds
    <2>2. \A k \in 0..Len(flows) : k \in 0..Len(flows') BY <1>3, <1>4
    <2>3. \A t \in Tabs : tab'[t].watch \in 0..Len(flows') /\ tab'[t].hash <= clicks
      BY <1>1, <2>1, <2>2 DEF PageTypes
    <2>4. \A p \in Prints : intents'[p].flow \in 0..Len(flows') BY <1>1, <2>1, <2>2 DEF PageTypes
    <2>5. QED BY <1>1, <1>4, <1>5, <2>3, <2>4 DEF PageTypes, Holds
  <1>8. Onward BY <1>3, <1>4 DEF Onward, Holds, headVars
  <1>9. next # "idle" /\ run'[c] = [old EXCEPT !.pc = next] =>
            /\ run'[c].pc = next /\ run'[c].tx = old.tx /\ run'[c].print = old.print /\ run'[c].key = old.key
            /\ run'[c].open = old.open /\ run'[c].draft = old.draft
    BY <1>3 DEF RunState
  <1>10. RunsFollow
    <2>1. Follows(run'[c], run[c]) BY <1>2, <1>5, <1>9, StillIs DEF Follows
    <2>2. QED BY <1>5, <2>1 DEF RunsFollow, Follows
  <1>11. RunOK(c, run[c])'
    <2>1. CASE run'[c] = Still
      <3>1. PICK r : r = Still OBVIOUS
      <3>2. r.pc = "idle" /\ r.tx = 0 /\ r.key = 0 /\ r.print = 0 /\ ~r.open /\ r.draft.kind = "alice"
        BY <3>1, StillIs
      <3>3. RunOK(c, r)' BY <3>2 DEF RunOK, Sent
      <3>4. QED BY <2>1, <3>1, <3>3
    <2>2. CASE old.open /\ next # "idle" /\ run'[c] = [old EXCEPT !.pc = next]
      <3>1. PICK new : new = run'[c] OBVIOUS
      <3>2. /\ new.pc = next /\ new.tx = old.tx /\ new.print = old.print /\ new.key = old.key
            /\ new.open = old.open /\ new.draft = old.draft
        BY <1>9, <2>2, <3>1
      <3>3. Stored(new.print, new.key)' BY <1>2, <1>4, <3>2 DEF Stored, Holds
      <3>4. IsBuy(old.print) BY <1>2, <2>2
      <3>5. RunOK(c, old)' BY <1>1, <1>3, <1>6, <1>7, <1>8, RunLasts
      <3>6. Sent(new) = Sent(old)
        <4>1. CASE next = "send" BY <1>2, <3>2, <4>1 DEF Sent
        <4>2. CASE next = "report" BY <1>2, <3>2, <4>2 DEF Sent
        <4>3. QED BY <2>2, <4>1, <4>2
      <3>7. old.pc # "idle" /\ new.pc \in {"send", "report"} BY <1>2, <2>2, <3>2
      <3>8. RunOK(c, new)' BY <2>2, <3>2, <3>3, <3>4, <3>5, <3>6, <3>7 DEF RunOK, IsBuy, Sent
      <3>9. QED BY <3>1, <3>8
    <2>3. QED BY <1>5, <2>1, <2>2
  <1>12. run'[c].pc = "idle" \/ run'[c].tx = run[c].tx BY <1>2, <1>5, <1>9, StillIs
  <1>13. \A d \in Runs : run'[d].tx \in {run[d].tx, 0} BY <1>2, <1>5, <1>9, StillIs
  <1>14. RunsInv'
    <2>1. \A d \in Runs : run[d].tx \in 0..sent
      <3>1. \A d \in Runs : RunOK(d, run[d]) BY <1>1 DEF RunsInv
      <3>2. QED BY <1>3, <3>1 DEF RunOK
    <2>2. \A d \in Runs : run'[d].tx \in {run[d].tx, 0, sent + 1} /\ run'[d].tx # sent + 1
      BY <1>3, <1>13, <2>1
    <2>3. \A d \in Runs : run'[d] = run[d] \/ RunOK(d, run[d])' BY <1>5, <1>11
    <2>4. QED BY <1>1, <1>6, <1>7, <1>8, <2>2, <2>3, RunsMove
  <1>15. FlowsInv' BY <1>1, <1>4, <1>7, <1>8, <1>10, <1>12, HoldsFlows
  <1>16. KeysInv'
    <2>1. PICK fresh : fresh = 0 OBVIOUS
    <2>2. \A p \in Prints : intents'[p].key # 0 => KeyIs(intents'[p].key, p, fresh) BY DEF KeyIs, KeyUses
    <2>3. \A d \in Runs : d > clicks /\ run'[d].pc # "idle" => KeyIs(run'[d].key, run'[d].print, fresh)
      BY <1>14 DEF RunsInv, RunOK
    <2>4. \A f \in DOMAIN flows' : KeyIs(flows'[f].key, flows'[f].print, fresh)
      <3>1. <<run[c].key, run[c].print>> \in KeyUses BY DEF KeyUses
      <3>2. \A f \in DOMAIN flows : <<flows[f].key, flows[f].print>> \in KeyUses BY DEF KeyUses
      <3>3. \A f \in DOMAIN flows' : \/ flows'[f].key = run[c].key /\ flows'[f].print = run[c].print
                                     \/ f \in DOMAIN flows /\ flows'[f] = flows[f]
        BY <1>4 DEF Holds
      <3>4. QED BY <3>1, <3>2, <3>3 DEF KeyIs
    <2>5. \A p \in Prints : IsBuy(p) /\ intents'[p].key # 0 => p <= clicks' BY <1>1 DEF KeysInv
    <2>6. keys' \in {keys, keys + 1} OBVIOUS
    <2>7. QED BY <1>1, <1>10, <2>2, <2>3, <2>4, <2>5, <2>6, KeysLast
  <1>17. LocksInv' BY <1>1, <1>8, LocksLast DEF headVars
  <1>18. \A k \in 1..sent : Recorded(k) => Recorded(k)'
    <2>1. ASSUME NEW k \in 1..sent, NEW f \in DOMAIN flows, flows[f].source = k PROVE Recorded(k)'
      <3>1. CASE f # id BY <1>4, <2>1, <3>1 DEF Recorded, Holds
      <3>2. CASE f = id
        <4>1. flows'[id].source \in {k, source} BY <1>4, <2>1, <3>2 DEF Holds
        <4>2. CASE ~IsBuy(run[c].print)
          <5>1. flows' = flows BY <2>1, <3>2, <4>2, <1>1, PageNumbers DEF Written
          <5>2. QED BY <2>1, <5>1 DEF Recorded
        <4>3. CASE IsBuy(run[c].print)
          <5>1. FlowOK(flows[id]) /\ flows[id].print = run[c].print
            BY <1>1, <1>4, <2>1, <3>2 DEF FlowsInv, Holds, SameFlow
          <5>2. run[c].print = c BY <1>2, <1>3, <4>3 DEF RunOK
          <5>3. k = run[c].tx BY <2>1, <3>2, <4>3, <5>1, <5>2 DEF FlowOK
          <5>4. flows'[id].source = k
            <6>1. CASE source = 0
              <7>1. flows' = flows BY <1>1, <2>1, <3>2, <4>3, <6>1, PageNumbers DEF Written, Attached
              <7>2. QED BY <2>1, <3>2, <7>1
            <6>2. CASE source = k BY <4>1, <6>2
            <6>3. QED BY <5>3, <6>1, <6>2
          <5>5. QED BY <1>4, <5>4 DEF Recorded, Holds
        <4>4. QED BY <4>2, <4>3
      <3>3. QED BY <3>1, <3>2
    <2>2. QED BY <2>1 DEF Recorded
  <1>19. LostInv'
    <2>1. PICK N : N = IF n = 0 THEN {} ELSE {run[c].tx} OBVIOUS
    <2>2. IsFiniteSet(N) /\ Cardinality(N) \in 0..n
      <3>1. CASE n = 0
        <4>1. N = {} BY <2>1, <3>1
        <4>2. QED BY <3>1, <4>1, NoneOrOne
      <3>2. CASE n # 0
        <4>1. PICK k : k = run[c].tx OBVIOUS
        <4>2. N = {k} BY <2>1, <3>2, <4>1
        <4>3. IsFiniteSet(N) /\ Cardinality(N) = 1 BY <4>2, NoneOrOne
        <4>4. QED BY <3>2, <4>3
      <3>3. QED BY <3>1, <3>2
    <2>3. Cardinality(N) + losses + excused <= losses + excused + n BY <1>3, <2>2
    <2>4. \A k \in 1..sent' : Live(k)' => (k \in 1..sent /\ Live(k)) \/ \E d \in Runs : WillRecord(run[d], k)'
      BY DEF Live, Moved, headVars
    <2>5. ASSUME NEW k \in 1..sent, NEW d \in Runs, WillRecord(run[d], k)
          PROVE  \/ \E e \in Runs : WillRecord(run[e], k)'
                 \/ Recorded(k)' \/ ~Live(k)' \/ k \in N
      <3>1. CASE d # c BY <1>5, <2>5, <3>1 DEF WillRecord, Sent, IsBuy
      <3>2. CASE d = c
        <4>1. k = run[c].tx /\ Sent(run[c]) /\ source = k BY <2>5, <3>2 DEF WillRecord
        <4>2. CASE n # 0 BY <2>1, <4>1, <4>2
        <4>3. CASE IsBuy(run[c].print) \/ id \notin DOMAIN flows
          <5>1. source # 0 BY <4>1
          <5>2. flows'[id].source = source BY <1>4, <4>3, <5>1 DEF Holds
          <5>3. QED BY <1>4, <4>1, <5>2 DEF Recorded, Holds
        <4>4. QED BY <4>1, <4>2, <4>3
      <3>3. QED BY <3>1, <3>2
    <2>6. Cardinality(N) + losses + excused <= losses' + excused' BY <2>3
    <2>7. QED BY <1>1, <1>6, <1>7, <1>18, <2>2, <2>4, <2>5, <2>6, LostMoves
  <1>20. QED BY <1>6, <1>7, <1>14, <1>15, <1>16, <1>17, <1>19 DEF PageInv

LEMMA PostKeeps ==
    ASSUME PageInv, UNCHANGED view, NEW c \in Runs, PostFunds(c) \/ PostPurchase(c) \/ Report(c)
    PROVE  PageInv'
  <1>1. PageHeads /\ PageTypes /\ RunsInv BY DEF PageInv
  <1>2. PICK source, next :
            /\ Post(c, source, next)
            /\ source \in {0, run[c].tx} /\ next \in {"idle", "send"}
            /\ next # "idle" => IsBuy(run[c].print) /\ ~Sent(run[c])
            /\ Sent(run[c]) => source = run[c].tx
            /\ run[c].pc # "idle"
    <2>1. CASE PostFunds(c)
      <3>1. PICK source, next : source = run[c].tx /\ next = "idle" OBVIOUS
      <3>2. QED BY <2>1, <3>1 DEF PostFunds, RunAt
    <2>2. CASE PostPurchase(c)
      <3>1. PICK source, next : source = 0 /\ next = "send" OBVIOUS
      <3>2. QED BY <2>2, <3>1 DEF PostPurchase, RunAt, Sent
    <2>3. CASE Report(c)
      <3>1. PICK source, next : source = run[c].tx /\ next = "idle" OBVIOUS
      <3>2. QED BY <2>3, <3>1 DEF Report, RunAt
    <2>4. QED BY <2>1, <2>2, <2>3
  <1>3. PICK print, existing : print = run[c].print /\ existing = WithKey(run[c].key) OBVIOUS
  <1>4. PICK id : id = IF existing = {} THEN Len(flows) + 1 ELSE CHOOSE f \in existing : TRUE OBVIOUS
  <1>5. /\ flows' = CASE existing = {} -> Append(flows, NewFlow(c, source))
                      [] existing # {} /\ IsBuy(print) -> Attached(id, source)
                      [] OTHER -> flows
        /\ tab' = [tab EXCEPT ![run[c].tab].watch = id]
        /\ intents' = Bound(print, id)
        /\ excused' = IF existing # {} /\ ~IsBuy(print) THEN excused + 1 ELSE excused
        /\ Then(c, next)
        /\ UNCHANGED <<headVars, pairs, headRow, up, clicks, keys, losses>>
    BY <1>2, <1>3, <1>4 DEF Post
  <1>6. existing # {} => id \in existing BY <1>4
  <1>7. Written(c, source, id) BY <1>3, <1>4, <1>5, <1>6 DEF Written
  <1>8. /\ losses \in Nat /\ excused \in Nat /\ Len(flows) \in Nat /\ DOMAIN flows = 1..Len(flows)
        /\ run[c] \in RunState /\ print \in Prints
    BY <1>1, <1>2, <1>3, PageNumbers DEF RunsInv, RunOK
  <1>9. id \in Nat BY <1>3, <1>4, <1>6, <1>8 DEF WithKey
  <1>10. /\ tab' \in [Tabs -> [form: Amounts, hash: 0..MaxClicks, watch: Nat, wallet: BOOLEAN]]
         /\ \A t \in Tabs : tab'[t].watch \in {tab[t].watch, id} /\ tab'[t].hash = tab[t].hash
    <2>1. PICK t : t = run[c].tab OBVIOUS
    <2>2. tab' = [tab EXCEPT ![t].watch = id] BY <1>5, <2>1
    <2>3. tab \in [Tabs -> [form: Amounts, hash: 0..MaxClicks, watch: Nat, wallet: BOOLEAN]]
      BY <1>1 DEF PageTypes
    <2>4. QED BY <1>9, <2>2, <2>3
  <1>11. /\ intents' \in [Prints -> [key: Nat, flow: Nat]]
         /\ \A p \in Prints : intents'[p].key = intents[p].key /\ intents'[p].flow \in {intents[p].flow, id}
    <2>1. intents \in [Prints -> [key: Nat, flow: Nat]] BY <1>1 DEF PageTypes
    <2>2. intents' = intents \/ intents' = [intents EXCEPT ![print].flow = id] BY <1>5 DEF Bound
    <2>3. CASE intents' = intents BY <2>1, <2>3
    <2>4. CASE intents' = [intents EXCEPT ![print].flow = id] BY <1>9, <2>1, <2>4
    <2>5. QED BY <2>2, <2>3, <2>4
  <1>12. PICK n : n = IF existing # {} /\ ~IsBuy(print) THEN 1 ELSE 0 OBVIOUS
  <1>13. n \in Nat /\ losses' + excused' = losses + excused + n /\ losses' \in Nat /\ excused' \in Nat
    BY <1>5, <1>8, <1>12
  <1>14. n # 0 \/ IsBuy(run[c].print) \/ id \notin DOMAIN flows BY <1>3, <1>4, <1>8, <1>12
  <1>15. UNCHANGED <<view, headVars, headRow, up, clicks, keys>> BY <1>5
  <1>16. next \in {"idle", "send", "report"} /\ (next # "idle" => IsBuy(run[c].print))
         /\ (next = "send" => ~Sent(run[c])) /\ (next = "report" => Sent(run[c]))
    BY <1>2
  <1>17. Sent(run[c]) => source = run[c].tx /\ (n # 0 \/ IsBuy(run[c].print) \/ id \notin DOMAIN flows)
    BY <1>2, <1>14
  <1>18. QED BY <1>2, <1>5, <1>7, <1>10, <1>11, <1>13, <1>15, <1>16, <1>17, WriteKeeps

LEMMA AttachKeeps ==
    ASSUME PageInv, UNCHANGED view, NEW c \in Runs, Attach(c)
    PROVE  PageInv'
  <1>1. PageHeads /\ PageTypes /\ RunsInv BY DEF PageInv
  <1>2. PICK of : of = WithKey(run[c].key) OBVIOUS
  <1>3. PICK id : id = CHOOSE f \in of : TRUE OBVIOUS
  <1>4. PICK source : source = run[c].tx OBVIOUS
  <1>5. /\ run[c].pc = "attach" /\ Then(c, "report")
        /\ flows' = IF of = {} THEN flows ELSE Attached(id, source)
        /\ UNCHANGED <<headVars, tab, storage, headRow, up, clicks, losses, excused>>
    BY <1>2, <1>3, <1>4 DEF Attach, RunAt
  <1>6. RunOK(c, run[c]) /\ Sent(run[c]) BY <1>1, <1>5 DEF RunsInv, Sent
  <1>7. IsBuy(run[c].print) /\ of # {} BY <1>2, <1>5, <1>6 DEF RunOK, Stored, WithKey
  <1>8. Written(c, source, id) BY <1>2, <1>3, <1>5, <1>7 DEF Written
  <1>9. losses \in Nat /\ excused \in Nat BY <1>1, PageNumbers
  <1>10. PICK n, next : n = 0 /\ next = "report" OBVIOUS
  <1>11. n \in Nat /\ losses' + excused' = losses + excused + n /\ losses' \in Nat /\ excused' \in Nat
    BY <1>5, <1>9, <1>10
  <1>12. /\ tab' \in [Tabs -> [form: Amounts, hash: 0..MaxClicks, watch: Nat, wallet: BOOLEAN]]
         /\ \A t \in Tabs : tab'[t].watch \in {tab[t].watch, id} /\ tab'[t].hash = tab[t].hash
    BY <1>1, <1>5 DEF PageTypes
  <1>13. /\ intents' \in [Prints -> [key: Nat, flow: Nat]]
         /\ \A p \in Prints : intents'[p].key = intents[p].key /\ intents'[p].flow \in {intents[p].flow, id}
    BY <1>1, <1>5 DEF PageTypes, storage
  <1>14. UNCHANGED <<view, headVars, headRow, up, clicks, keys>> BY <1>5 DEF storage
  <1>15. next \in {"idle", "send", "report"} /\ Then(c, next) /\ next # "send" BY <1>5, <1>10
  <1>16. run[c].pc # "idle" BY <1>5
  <1>17. QED BY <1>4, <1>6, <1>7, <1>8, <1>11, <1>12, <1>13, <1>14, <1>15, <1>16, WriteKeeps

LEMMA WorkKeeps ==
    ASSUME PageInv, UNCHANGED view, NEW f \in DOMAIN flows, Work(f)
    PROVE  PageInv'
  <1>1. PageHeads /\ PageTypes /\ RunsInv /\ KeysInv BY DEF PageInv
  <1>2. PICK w : w = flows[f] OBVIOUS
  <1>3. PICK new :
            /\ flows' = [flows EXCEPT ![f] = new]
            /\ new = [w EXCEPT !.status = "succeeded"]
               \/ new = [w EXCEPT !.tries = @ + 1, !.status = IF w.tries + 1 < FlowAttempts THEN "failed" ELSE "cancelled"]
    BY <1>2 DEF Work
  <1>4. w \in Flow /\ flows \in Seq(Flow) BY <1>1, <1>2, PageNumbers DEF PageTypes
  <1>5. new \in Flow /\ SameFlow(new, w) /\ new.source = w.source
    <2>1. CASE new = [w EXCEPT !.status = "succeeded"] BY <1>4, <2>1 DEF Flow, SameFlow
    <2>2. CASE new = [w EXCEPT !.tries = @ + 1, !.status = IF w.tries + 1 < FlowAttempts THEN "failed" ELSE "cancelled"]
      <3>1. PICK tries, status : /\ tries = w.tries + 1
                                 /\ status = IF w.tries + 1 < FlowAttempts THEN "failed" ELSE "cancelled"
        OBVIOUS
      <3>2. tries \in Nat /\ status \in {"failed", "cancelled"} BY <1>4, <3>1 DEF Flow
      <3>3. new = [w EXCEPT !.tries = tries, !.status = status] BY <2>2, <3>1
      <3>4. QED BY <1>4, <3>2, <3>3 DEF Flow, SameFlow
    <2>3. QED BY <1>3, <2>1, <2>2
  <1>6. /\ flows' \in Seq(Flow) /\ Len(flows') = Len(flows) /\ DOMAIN flows' = DOMAIN flows
        /\ \A g \in DOMAIN flows : flows'[g] = IF g = f THEN new ELSE flows[g]
    BY <1>3, <1>4, <1>5, SeqWrites
  <1>7. UNCHANGED <<headVars, tab, run, storage, up, clicks, losses, excused>> BY DEF Work
  <1>8. headRow' \in [Heads -> BOOLEAN]
    <2>1. headRow \in [Heads -> BOOLEAN] BY <1>1 DEF PageTypes
    <2>2. PICK open \in BOOLEAN : headRow' = [headRow EXCEPT !["headA"] = open] \/ headRow' = headRow
      <3>1. PICK open : open = (headRow["headA"] \/ ~IsBuy(flows[f].print)) OBVIOUS
      <3>2. open \in BOOLEAN BY <3>1
      <3>3. QED BY <3>1, <3>2 DEF Work
    <2>3. QED BY <2>1, <2>2
  <1>9. FlowsKept BY <1>2, <1>5, <1>6 DEF FlowsKept, SameFlow
  <1>10. PageTypes' BY <1>1, <1>6, <1>7, <1>8 DEF PageTypes, storage
  <1>11. PageHeads' BY <1>1, <1>7, SameHeads
  <1>12. KeysInv'
    <2>1. RunsFollow BY <1>7 DEF RunsFollow, Follows
    <2>2. \A c \in Runs : c > clicks => run'[c].pc = "idle" BY <1>1, <1>7 DEF RunsInv, RunOK
    <2>3. \A g \in DOMAIN flows' : <<flows'[g].key, flows'[g].print>> \in KeyUses
      BY <1>9 DEF FlowsKept, SameFlow, KeyUses
    <2>4. QED BY <1>1, <1>7, <2>1, <2>2, <2>3, KeysStay DEF storage
  <1>13. losses + excused <= losses' + excused' /\ keys' \in {keys, keys + 1} BY <1>1, <1>7, PageNumbers DEF storage
  <1>14. QED BY <1>7, <1>9, <1>10, <1>11, <1>12, <1>13, Aside DEF headVars

-----------------------------------------------------------------------------
(* The page as a whole *)

LEMMA PageKeeps ==
    ASSUME PageInv, UNCHANGED view, PageNext
    PROVE  PageInv'
  <1>1. CASE \E t \in Tabs : TabStep(t)
    <2>1. PICK t \in Tabs : TabStep(t) BY <1>1
    <2>2. CASE \E a \in Amounts : Type(t, a) BY <2>2, TypeKeeps
    <2>3. CASE Restore(t) \/ Connect(t) \/ Disconnect(t) BY <2>3, QuietPage DEF Restore, Connect
    <2>4. CASE ClickFunds(t) \/ ClickBuy(t) BY <2>4, ClickKeeps
    <2>5. CASE Reload(t) BY <2>5, ReloadKeeps
    <2>6. CASE Poll(t) BY <2>6, PollKeeps
    <2>7. QED BY <2>1, <2>2, <2>3, <2>4, <2>5, <2>6 DEF TabStep
  <1>2. CASE \E c \in Runs : RunStep(c)
    <2>1. PICK c \in Runs : RunStep(c) BY <1>2
    <2>2. CASE Prepare(c) \/ PrepareFails(c) \/ GiveUp(c) \/ Refuse(c) BY <2>2, RunsOnly
    <2>3. CASE SendTransfer(c) \/ SendLock(c) BY <2>3, SendsKeep
    <2>4. CASE PostFunds(c) \/ PostPurchase(c) \/ Report(c) BY <2>4, PostKeeps
    <2>5. CASE Attach(c) BY <2>5, AttachKeeps
    <2>6. QED BY <2>1, <2>2, <2>3, <2>4, <2>5 DEF RunStep
  <1>3. CASE \E x \in pool : PageAnswer(x) BY <1>3, AnswerKeeps
  <1>4. CASE \E f \in DOMAIN flows : Work(f) BY <1>4, WorkKeeps
  <1>5. CASE \E h \in Heads : Heartbeat(h) \/ Toggle(h) BY <1>5, QuietPage
  <1>6. CASE Associate BY <1>6, QuietPage
  <1>7. CASE \E p \in Prints : Expire(p) BY <1>7, ExpireKeeps
  <1>8. CASE \E h \in Heads : Confirm(h) /\ UNCHANGED pageVars BY <1>8, QuietPage
  <1>9. QED BY <1>1, <1>2, <1>3, <1>4, <1>5, <1>6, <1>7, <1>8 DEF PageNext

LEMMA PageStarts ==
    ASSUME PageInit({Alice, Wallet})
    PROVE  PageInv
  <1>1. /\ utxo = {Alice, Wallet} /\ snapshot = {Alice, Wallet} /\ pool = {} /\ sent = 0 /\ now = 0
        /\ tab = [t \in Tabs |-> [form |-> FirstAmount, hash |-> 0, watch |-> 0, wallet |-> FALSE]]
        /\ run = [r \in Runs |-> Still]
        /\ intents = [p \in Prints |-> IF p = FirstAmount THEN [NoIntent EXCEPT !.key = 1] ELSE NoIntent]
        /\ flows = <<>>
        /\ headRow = [h \in Heads |-> TRUE] /\ up = [h \in Heads |-> TRUE]
        /\ clicks = 0 /\ keys = 1 /\ losses = 0 /\ excused = 0
    BY DEF PageInit, HeadInit
  <1>2. DOMAIN flows = {} /\ Len(flows) = 0 /\ flows \in Seq(Flow) BY <1>1
  <1>3. Alice \in PageOutput /\ ~Moved(Alice) /\ Wallet \in PageOutput /\ ~Moved(Wallet)
    <2>1. Alice \in PageOutput /\ Alice.kind = "alice" BY PageNames, MadeFields DEF Alice
    <2>2. PICK head : head = Source OBVIOUS
    <2>3. Wallet = Made(head, "wallet", 0) /\ head \in Heads BY <2>2, PageNames DEF Wallet
    <2>4. Wallet \in PageOutput /\ Wallet.kind = "wallet" BY <2>3, MadeFields
    <2>5. QED BY <2>1, <2>4 DEF Moved
  <1>4. PageHeads BY <1>1, <1>3, HeadAssumption DEF PageHeads
  <1>5. \A p \in Prints : intents[p] \in [key: Nat, flow: Nat] /\ intents[p].flow = 0
                          /\ intents[p].key \in {0, 1} /\ (intents[p].key = 1 => p = FirstAmount)
    <2>1. NoIntent = [key |-> 0, flow |-> 0] BY DEF NoIntent
    <2>2. \A p \in Prints : intents[p] = IF p = FirstAmount THEN [key |-> 1, flow |-> 0] ELSE [key |-> 0, flow |-> 0]
      BY <1>1, <2>1
    <2>3. QED BY <2>2
  <1>6. PageTypes
    <2>1. tab \in [Tabs -> [form: Amounts, hash: 0..MaxClicks, watch: Nat, wallet: BOOLEAN]]
      BY <1>1, PageNames
    <2>2. run \in [Runs -> RunState] BY <1>1, StillIs
    <2>3. intents \in [Prints -> [key: Nat, flow: Nat]]
      <3>1. intents = [p \in Prints |-> intents[p]] BY <1>1
      <3>2. QED BY <1>5, <3>1
    <2>4. headRow \in [Heads -> BOOLEAN] /\ up \in [Heads -> BOOLEAN] BY <1>1
    <2>5. \A t \in Tabs : tab[t].watch \in 0..Len(flows) /\ tab[t].hash <= clicks BY <1>1, <1>2
    <2>6. \A p \in Prints : intents[p].flow \in 0..Len(flows) BY <1>2, <1>5
    <2>7. QED BY <1>1, <1>2, <2>1, <2>2, <2>3, <2>4, <2>5, <2>6, PageNames DEF PageTypes
  <1>7. \A c \in Runs : run[c] = Still /\ RunOK(c, run[c]) /\ run[c].tx = 0 /\ run[c].pc = "idle"
    BY <1>1, StillIs, PageNames
  <1>8. RunsInv BY <1>7 DEF RunsInv
  <1>9. KeysInv
    <2>1. ASSUME NEW u \in KeyUses PROVE u[1] = 1 /\ u[2] = FirstAmount
      <3>1. \/ \E p \in Prints : intents[p].key # 0 /\ u = <<intents[p].key, p>>
            \/ \E c \in Runs : run[c].pc # "idle" /\ u = <<run[c].key, run[c].print>>
            \/ \E f \in DOMAIN flows : u = <<flows[f].key, flows[f].print>>
        BY <2>1 DEF KeyUses
      <3>2. QED BY <1>2, <1>5, <1>7, <3>1
    <2>2. \A p \in Prints : IsBuy(p) /\ intents[p].key # 0 => p <= clicks
      BY <1>5, PageNames DEF IsBuy
    <2>3. QED BY <1>1, <2>1, <2>2 DEF KeysInv
  <1>10. FlowsInv BY <1>2 DEF FlowsInv, OneRowPerPurchase
  <1>11. LocksInv BY <1>1, <1>3 DEF LocksInv, Moved
  <1>12. LostInv
    <2>1. LostTxs = {} BY <1>1 DEF LostTxs
    <2>2. QED BY <1>1, <2>1, NoneOrOne DEF LostInv
  <1>13. QED BY <1>4, <1>6, <1>8, <1>9, <1>10, <1>11, <1>12 DEF PageInv

LEMMA PageTyped == PageInv => PageTypeOK
  <1> SUFFICES ASSUME PageInv PROVE PageTypeOK OBVIOUS
  <1>1. PageHeads /\ PageTypes /\ RunsInv /\ KeysInv /\ FlowsInv BY DEF PageInv
  <1>2. keys \in Nat /\ sent \in Nat BY <1>1, PageNumbers
  <1>3. ASSUME NEW c \in Runs
        PROVE  /\ run[c].pc \in RunPcs /\ run[c].key \in 0..keys /\ run[c].tx \in 0..sent
               /\ RunAt(c, "idle") \/ run[c].key # 0
    <2>1. run[c] \in RunState /\ RunOK(c, run[c]) BY <1>1, PageNumbers DEF RunsInv
    <2>2. run[c].tx \in 0..sent BY <1>2, <2>1 DEF RunOK
    <2>3. run[c].key \in 0..keys /\ (run[c].pc = "idle" \/ run[c].key # 0) BY <1>2, <2>1 DEF RunOK
    <2>4. QED BY <2>1, <2>2, <2>3 DEF RunAt, RunState
  <1>4. \A p \in Prints : intents[p].key \in 0..keys
    <2>1. \A p \in Prints : intents[p].key # 0 => <<intents[p].key, p>> \in KeyUses BY DEF KeyUses
    <2>2. \A p \in Prints : intents[p].key # 0 => intents[p].key \in 1..keys BY <1>1, <2>1 DEF KeysInv
    <2>3. QED BY <1>2, <2>2
  <1>5. \A t \in Tabs : tab[t].watch \in 0..Len(flows) /\ tab[t].form \in Amounts BY <1>1 DEF PageTypes
  <1>6. \A p \in Prints : intents[p].flow \in 0..Len(flows) BY <1>1 DEF PageTypes
  <1>7. headRow \in [Heads -> BOOLEAN] /\ up \in [Heads -> BOOLEAN] BY <1>1 DEF PageTypes
  <1>8. \A f, g \in DOMAIN flows : flows[f].key = flows[g].key => f = g BY <1>1 DEF FlowsInv
  <1>9. QED BY <1>3, <1>4, <1>5, <1>6, <1>7, <1>8 DEF PageTypeOK

LEMMA PageCounts == PageInv => UnrecordedHasCause
  <1> SUFFICES ASSUME PageInv PROVE UnrecordedHasCause OBVIOUS
  <1> DEFINE U == {o \in OfKind("funds") \cup OfKind("lock") : ~OnRecord(o)}
             Ongoing == {c \in Runs : ~RunAt(c, "idle")}
             A == {o \in U : o.tx \in LostTxs}
             B == {o \in U : o.tx \notin LostTxs}
  <1>1. PageHeads /\ PageTypes /\ LostInv BY DEF PageInv
  <1>2. losses \in Nat /\ excused \in Nat /\ IsFiniteSet(Runs) /\ sent \in Nat BY <1>1, PageNumbers
  <1>3. \A o \in U : o \in utxo /\ Moved(o) /\ ~Recorded(o.tx) BY DEF OfKind, Moved, OnRecord, Recorded
  <1>4. \A o, q \in U : o.tx = q.tx => o = q BY <1>1, <1>3 DEF PageHeads
  <1>5. IsFiniteSet(LostTxs) /\ Cardinality(LostTxs) \in Nat
    <2>1. LostTxs \in SUBSET (1..sent) /\ IsFiniteSet(1..sent) BY <1>2, FS_Interval DEF LostTxs
    <2>2. QED BY <2>1, FS_Subset, FS_CardinalityType
  <1>6. IsFiniteSet(Ongoing) /\ Cardinality(Ongoing) \in Nat
    <2>1. Ongoing \in SUBSET Runs OBVIOUS
    <2>2. QED BY <1>2, <2>1, FS_Subset, FS_CardinalityType
  <1>7. IsFiniteSet(A) /\ Cardinality(A) <= Cardinality(LostTxs)
    <2> DEFINE f == [k \in LostTxs |-> CHOOSE o \in U : o.tx = k]
    <2>1. \A y \in A : \E k \in LostTxs : f[k] = y
      <3>1. SUFFICES ASSUME NEW y \in A PROVE f[y.tx] = y BY DEF A
      <3>2. y \in U /\ y.tx \in LostTxs OBVIOUS
      <3> HIDE DEF U
      <3>3. QED BY <1>4, <3>2
    <2> HIDE DEF A, f
    <2>2. QED BY <1>5, <2>1, CountedBy
  <1>8. IsFiniteSet(B) /\ Cardinality(B) <= Cardinality(Ongoing)
    <2> DEFINE f == [c \in Ongoing |-> CHOOSE o \in U : o.tx = run[c].tx]
    <2>1. \A y \in B : \E c \in Ongoing : f[c] = y
      <3>1. SUFFICES ASSUME NEW y \in B PROVE \E c \in Ongoing : f[c] = y OBVIOUS
      <3>2. y \in U /\ y.tx \notin LostTxs OBVIOUS
      <3>3. y.tx \in 1..sent /\ Live(y.tx) /\ ~Recorded(y.tx) BY <1>1, <1>3, <3>2 DEF PageHeads, Live
      <3>4. PICK c \in Runs : WillRecord(run[c], y.tx) BY <3>2, <3>3 DEF LostTxs
      <3>5. run[c].tx = y.tx /\ run[c].pc # "idle" BY <3>4 DEF WillRecord, Sent
      <3>6. c \in Ongoing BY <3>5 DEF RunAt
      <3> HIDE DEF U, Ongoing
      <3>7. (CHOOSE o \in U : o.tx = run[c].tx) = y BY <1>4, <3>2, <3>5
      <3>8. QED BY <3>6, <3>7
    <2> HIDE DEF B, Ongoing, f
    <2>2. QED BY <1>6, <2>1, CountedBy
  <1>9. U \subseteq A \cup B OBVIOUS
  <1> HIDE DEF A, B, U, Ongoing
  <1>10. /\ Cardinality(U) <= Cardinality(A) + Cardinality(B)
         /\ Cardinality(U) \in Nat /\ Cardinality(A) \in Nat /\ Cardinality(B) \in Nat
    BY <1>7, <1>8, <1>9, CountGrows
  <1>11. Cardinality(LostTxs) <= losses + excused BY <1>1 DEF LostInv
  <1>12. Cardinality(U) <= losses + excused + Cardinality(Ongoing)
    BY <1>2, <1>5, <1>6, <1>7, <1>8, <1>10, <1>11
  <1>13. QED BY <1>12 DEF UnrecordedHasCause, U, Ongoing

LEMMA PagePromises == PageInv => PreimageFirst /\ OneRowPerPurchase
  BY DEF PageInv, LocksInv, FlowsInv, PreimageFirst, OfKind, Posted

-----------------------------------------------------------------------------
(* The operations of the desks *)

LEMMA AdminNumbers ==
    ASSUME AdminTypes
    PROVE  /\ MaxCreates \in Nat /\ MaxOrders \in Nat /\ Retries \in Nat
           /\ creates \in Nat /\ orders \in Nat /\ creates <= MaxCreates /\ orders <= MaxOrders
           /\ unheard \in Nat /\ dropped \in Nat /\ misheard \in Nat /\ overlaps \in Nat /\ rushed \in Nat
           /\ IsFiniteSet(Makers) /\ Makers \subseteq Nat \ {0}
           /\ IsFiniteSet(Orders) /\ Orders \subseteq Nat \ {0}
           /\ \A m \in Makers : maker[m] \in MakerState
           /\ \A d \in Desks : desk[d] \in DeskState
           /\ \A r \in Orders : order[r] \in OrderState
           /\ DOMAIN jobs = 1..Len(jobs) /\ Len(jobs) \in Nat /\ \A j \in DOMAIN jobs : jobs[j] \in Job
           /\ DOMAIN registry = 1..Len(registry) /\ Len(registry) \in Nat
  <1>1. MaxCreates \in Nat /\ MaxOrders \in Nat /\ Retries \in Nat BY AdminAssumption
  <1>2. IsFiniteSet(Makers) /\ Makers \subseteq Nat \ {0} BY <1>1, FS_Interval DEF Makers
  <1>3. IsFiniteSet(Orders) /\ Orders \subseteq Nat \ {0} BY <1>1, FS_Interval DEF Orders
  <1>4. DOMAIN jobs = 1..Len(jobs) /\ Len(jobs) \in Nat BY LenProperties DEF AdminTypes
  <1>5. DOMAIN registry = 1..Len(registry) /\ Len(registry) \in Nat BY LenProperties DEF AdminTypes
  <1>6. \A j \in DOMAIN jobs : jobs[j] \in Job BY <1>4, ElementOfSeq DEF AdminTypes
  <1>7. QED BY <1>1, <1>2, <1>3, <1>4, <1>5, <1>6 DEF AdminTypes

LEMMA OrdersFinite ==
    ASSUME AdminTypes
    PROVE  /\ IsFiniteSet(Busy) /\ Cardinality(Busy) \in Nat
           /\ \A op : IsFiniteSet(Fresh(op)) /\ Cardinality(Fresh(op)) \in Nat
           /\ \A op : IsFiniteSet(Creating(op)) /\ Cardinality(Creating(op)) \in Nat
  <1>1. IsFiniteSet(Orders) /\ IsFiniteSet(DOMAIN jobs) BY AdminNumbers, FS_Interval
  <1>2. Busy \in SUBSET Orders BY DEF Busy
  <1>3. \A op : Fresh(op) \in SUBSET (DOMAIN jobs) BY DEF Fresh
  <1>4. \A op : Creating(op) \in SUBSET Orders BY DEF Creating
  <1>5. QED BY <1>1, <1>2, <1>3, <1>4, FS_Subset, FS_CardinalityType

LEMMA OrdersStay ==
    ASSUME AdminTypes, OrdersInv, jobs' = jobs, rushed' = rushed, orders' \in {orders, orders + 1},
           \A r \in Orders : order'[r].pc = order[r].pc /\ order'[r].op = order[r].op
    PROVE  OrdersInv'
  <1>1. Busy' = Busy BY DEF Busy
  <1>2. \A op : Fresh(op)' = Fresh(op) BY DEF Fresh
  <1>3. \A op : Creating(op)' = Creating(op) BY DEF Creating
  <1>4. Cardinality(Busy) \in Nat /\ orders \in Nat /\ Len(jobs) \in Nat /\ Orders \subseteq Nat
    BY AdminNumbers, OrdersFinite
  <1>5. Cardinality(Busy') + Len(jobs') <= orders' BY <1>1, <1>4 DEF OrdersInv
  <1>6. \A r \in Orders : r > orders' => r > orders BY <1>4
  <1>7. \A op \in Operations : Cardinality(Fresh(op)') + Cardinality(Creating(op)') <= 1 + rushed'
    BY <1>2, <1>3 DEF OrdersInv
  <1>8. QED BY <1>5, <1>6, <1>7 DEF OrdersInv

LEMMA OrderKeeps ==
    ASSUME AdminTypes, OrdersInv, NEW d \in Desks, NEW op \in Operations, Order(d, op)
    PROVE  OrdersInv' /\ order' \in [Orders -> OrderState] /\ orders' \in 0..MaxOrders
  <1>1. PICK r, new : r = orders + 1 /\ new = [pc |-> "look", op |-> op, desk |-> d] OBVIOUS
  <1>2. orders < MaxOrders /\ orders' = r /\ order' = [order EXCEPT ![r] = new] /\ UNCHANGED <<jobs, rushed>>
    BY <1>1 DEF Order
  <1>3. orders \in Nat /\ Len(jobs) \in Nat /\ MaxOrders \in Nat /\ Orders \subseteq Nat BY AdminNumbers
  <1>4. new \in OrderState /\ new.pc = "look" /\ new.op = op BY <1>1 DEF OrderState
  <1>5. r \in Orders BY <1>1, <1>2, <1>3 DEF Orders
  <1>6. order' \in [Orders -> OrderState] /\ order'[r] = new /\ \A p \in Orders \ {r} : order'[p] = order[p]
    BY <1>2, <1>4, <1>5 DEF AdminTypes
  <1>7. Busy' \subseteq Busy \cup {r} BY <1>6 DEF Busy
  <1>8. Cardinality(Busy') <= Cardinality(Busy) + 1 /\ Cardinality(Busy') \in Nat /\ Cardinality(Busy) \in Nat
    BY <1>7, OrdersFinite, NoneOrOne, CountGrows
  <1>9. Cardinality(Busy') + Len(jobs') <= orders' BY <1>1, <1>2, <1>3, <1>8 DEF OrdersInv
  <1>10. order[r].pc = "idle" BY <1>1, <1>3, <1>5 DEF OrdersInv
  <1>11. \A o : Creating(o)' = Creating(o) BY <1>4, <1>6, <1>10 DEF Creating
  <1>12. \A o : Fresh(o)' = Fresh(o) BY <1>2 DEF Fresh
  <1>13. \A o \in Operations : Cardinality(Fresh(o)') + Cardinality(Creating(o)') <= 1 + rushed'
    BY <1>2, <1>11, <1>12 DEF OrdersInv
  <1>14. \A p \in Orders : (p > orders' => order'[p].pc = "idle")
                           /\ ((order'[p].pc = "idle") = (order'[p].op = "none"))
    BY <1>1, <1>2, <1>3, <1>4, <1>6, AdminAssumption DEF OrdersInv
  <1>15. orders' \in 0..MaxOrders BY <1>1, <1>2, <1>3
  <1>16. QED BY <1>2, <1>6, <1>9, <1>13, <1>14, <1>15 DEF OrdersInv

LEMMA LookKeeps ==
    ASSUME AdminTypes, OrdersInv, NEW r \in Orders, Look(r)
    PROVE  OrdersInv' /\ order' \in [Orders -> OrderState] /\ rushed' \in Nat
  <1>1. PICK op : op = order[r].op OBVIOUS
  <1>2. /\ order[r].pc = "look" /\ UNCHANGED <<jobs, orders>>
        /\ order[r] \in OrderState /\ op \in Operations
        /\ orders \in Nat /\ Len(jobs) \in Nat /\ rushed \in Nat
    BY <1>1, AdminNumbers DEF Look, OrdersInv, OrderState
  <1>3. \A o : Fresh(o)' = Fresh(o) BY <1>2 DEF Fresh
  <1>4. /\ \A o : IsFiniteSet(Fresh(o)) /\ Cardinality(Fresh(o)) \in Nat
        /\ \A o : IsFiniteSet(Creating(o)) /\ Cardinality(Creating(o)) \in Nat
        /\ IsFiniteSet(Busy) /\ Cardinality(Busy) \in Nat
    BY OrdersFinite
  <1>5. PICK new : new \in OrderState /\ order' = [order EXCEPT ![r] = new]
                   /\ \/ new.pc = "idle" /\ new.op = "none" /\ rushed' = rushed
                      \/ /\ new.pc = "create" /\ new.op = op /\ InFlight(op) = {}
                         /\ rushed' = IF \E p \in Orders : order[p].pc = "create" /\ order[p].op = op
                                      THEN rushed + 1 ELSE rushed
    <2>1. CASE InFlight(op) # {}
      <3>1. PICK new : new = [pc |-> "idle", op |-> "none", desk |-> None] OBVIOUS
      <3>2. order' = [order EXCEPT ![r] = new] /\ rushed' = rushed BY <1>1, <2>1, <3>1 DEF Look, Answered
      <3>3. new \in OrderState /\ new.pc = "idle" /\ new.op = "none" BY <3>1 DEF OrderState
      <3>4. QED BY <3>2, <3>3
    <2>2. CASE InFlight(op) = {}
      <3>1. PICK new : new = [order[r] EXCEPT !.pc = "create"] OBVIOUS
      <3>2. order' = [order EXCEPT ![r] = new]
            /\ rushed' = IF \E p \in Orders : order[p].pc = "create" /\ order[p].op = op
                         THEN rushed + 1 ELSE rushed
        BY <1>1, <2>2, <3>1 DEF Look
      <3>3. new \in OrderState /\ new.pc = "create" /\ new.op = op BY <1>1, <1>2, <3>1 DEF OrderState
      <3>4. QED BY <2>2, <3>2, <3>3
    <2>3. QED BY <2>1, <2>2
  <1>6. order' \in [Orders -> OrderState] /\ order'[r] = new /\ \A p \in Orders \ {r} : order'[p] = order[p]
    BY <1>5 DEF AdminTypes
  <1>7. Busy' \subseteq Busy BY <1>2, <1>6 DEF Busy
  <1>8. Cardinality(Busy') <= Cardinality(Busy) /\ Cardinality(Busy') \in Nat
    <2>1. Busy' \in SUBSET Busy BY <1>7
    <2>2. QED BY <1>4, <2>1, FS_Subset, FS_CardinalityType
  <1>9. Cardinality(Busy') + Len(jobs') <= orders' BY <1>2, <1>4, <1>8 DEF OrdersInv
  <1>10. rushed' \in Nat /\ rushed <= rushed' BY <1>2, <1>5
  <1>11. ASSUME NEW o \in Operations
         PROVE  Cardinality(Fresh(o)') + Cardinality(Creating(o)') <= 1 + rushed'
    <2>1. Cardinality(Fresh(o)) + Cardinality(Creating(o)) <= 1 + rushed BY DEF OrdersInv
    <2>2. CASE Creating(o)' \subseteq Creating(o)
      <3>1. Creating(o)' \in SUBSET Creating(o) BY <2>2
      <3>2. Cardinality(Creating(o)') <= Cardinality(Creating(o)) /\ Cardinality(Creating(o)') \in Nat
        BY <1>4, <3>1, FS_Subset, FS_CardinalityType
      <3>3. QED BY <1>2, <1>3, <1>4, <1>10, <2>1, <3>2
    <2>3. CASE new.pc = "create" /\ o = op
      <3>1. Creating(o)' \subseteq Creating(o) \cup {r} BY <1>6 DEF Creating
      <3>2. Cardinality(Creating(o)') <= Cardinality(Creating(o)) + 1 /\ Cardinality(Creating(o)') \in Nat
        <4>1. PICK S, N : S = Creating(o) /\ N = {r} OBVIOUS
        <4>2. PICK T : T = Creating(o)' OBVIOUS
        <4>3. IsFiniteSet(S) /\ IsFiniteSet(N) /\ Cardinality(N) = 1 /\ T \subseteq S \cup N
          BY <1>4, <3>1, <4>1, <4>2, NoneOrOne
        <4>4. Cardinality(T) <= Cardinality(S) + 1 /\ Cardinality(T) \in Nat BY <4>3, CountGrows
        <4>5. QED BY <4>1, <4>2, <4>4
      <3>3. CASE Creating(o) = {}
        <4>1. Fresh(o) = {} BY <1>5, <2>3 DEF Fresh, InFlight
        <4>2. Cardinality(Fresh(o)) = 0 /\ Cardinality(Creating(o)) = 0 BY <3>3, <4>1, NoneOrOne
        <4>3. QED BY <1>3, <1>10, <3>2, <4>2
      <3>4. CASE Creating(o) # {}
        <4>1. rushed' = rushed + 1 BY <1>5, <2>3, <3>4 DEF Creating
        <4>2. QED BY <1>2, <1>3, <1>4, <2>1, <3>2, <4>1
      <3>5. QED BY <3>3, <3>4
    <2>4. CASE ~(new.pc = "create" /\ o = op)
      <3>1. Creating(o)' \subseteq Creating(o) BY <1>5, <1>6, <2>4 DEF Creating
      <3>2. QED BY <2>2, <3>1
    <2>5. QED BY <2>3, <2>4
  <1>12. \A p \in Orders : (p > orders' => order'[p].pc = "idle")
                           /\ ((order'[p].pc = "idle") = (order'[p].op = "none"))
    <2>1. (new.pc = "idle") = (new.op = "none") BY <1>2, <1>5, AdminAssumption
    <2>2. ~(r > orders) BY <1>2 DEF OrdersInv
    <2>3. QED BY <1>2, <1>6, <2>1, <2>2 DEF OrdersInv
  <1>13. QED BY <1>2, <1>6, <1>9, <1>10, <1>11, <1>12 DEF OrdersInv

LEMMA CreateKeeps ==
    ASSUME AdminTypes, OrdersInv, NEW r \in Orders, CreateJob(r)
    PROVE  OrdersInv' /\ order' \in [Orders -> OrderState] /\ jobs' \in Seq(Job)
  <1>1. PICK op, new, job : /\ op = order[r].op
                            /\ new = [pc |-> "idle", op |-> "none", desk |-> None]
                            /\ job = [op |-> op, status |-> "pending", again |-> FALSE]
    OBVIOUS
  <1>2. /\ order[r].pc = "create" /\ rushed' = rushed /\ orders' = orders
        /\ jobs' = Append(jobs, job) /\ order' = [order EXCEPT ![r] = new]
    BY <1>1 DEF CreateJob, Answered
  <1>3. /\ op \in Operations /\ orders \in Nat /\ Len(jobs) \in Nat /\ rushed \in Nat /\ jobs \in Seq(Job)
        /\ DOMAIN jobs = 1..Len(jobs)
    BY <1>1, <1>2, AdminNumbers DEF OrdersInv, OrderState, AdminTypes
  <1>4. /\ \A o : IsFiniteSet(Fresh(o)) /\ Cardinality(Fresh(o)) \in Nat
        /\ \A o : IsFiniteSet(Creating(o)) /\ Cardinality(Creating(o)) \in Nat
        /\ IsFiniteSet(Busy) /\ Cardinality(Busy) \in Nat
    BY OrdersFinite
  <1>5. job \in Job /\ job.op = op /\ job.status = "pending" BY <1>1, <1>3 DEF Job
  <1>6. new \in OrderState /\ new.pc = "idle" /\ new.op = "none" BY <1>1 DEF OrderState
  <1>7. order' \in [Orders -> OrderState] /\ order'[r] = new /\ \A p \in Orders \ {r} : order'[p] = order[p]
    BY <1>2, <1>6 DEF AdminTypes
  <1>8. /\ jobs' \in Seq(Job) /\ Len(jobs') = Len(jobs) + 1 /\ DOMAIN jobs' = 1..(Len(jobs) + 1)
        /\ \A j \in DOMAIN jobs : jobs'[j] = jobs[j]
        /\ jobs'[Len(jobs) + 1] = job
    BY <1>2, <1>3, <1>5, SeqAppends
  <1>9. \A j \in DOMAIN jobs' : (j \in DOMAIN jobs /\ jobs'[j] = jobs[j]) \/ (j = Len(jobs) + 1 /\ jobs'[j] = job)
    BY <1>3, <1>8
  <1>10. Cardinality(Busy') = Cardinality(Busy) - 1
    <2>1. Busy' = Busy \ {r} BY <1>6, <1>7 DEF Busy
    <2>2. r \in Busy BY <1>2 DEF Busy
    <2>3. QED BY <1>4, <2>1, <2>2, FS_RemoveElement
  <1>11. Cardinality(Busy') + Len(jobs') <= orders' BY <1>2, <1>3, <1>4, <1>8, <1>10 DEF OrdersInv
  <1>12. ASSUME NEW o \in Operations
         PROVE  Cardinality(Fresh(o)') + Cardinality(Creating(o)') <= 1 + rushed'
    <2>1. Cardinality(Fresh(o)) + Cardinality(Creating(o)) <= 1 + rushed BY DEF OrdersInv
    <2>2. CASE o = op
      <3>1. Creating(o)' = Creating(o) \ {r} BY <1>6, <1>7 DEF Creating
      <3>2. r \in Creating(o) BY <1>1, <1>2, <2>2 DEF Creating
      <3>3. Cardinality(Creating(o)') = Cardinality(Creating(o)) - 1 BY <1>4, <3>1, <3>2, FS_RemoveElement
      <3>4. PICK S, N, T : S = Fresh(o) /\ N = {Len(jobs) + 1} /\ T = Fresh(o)' OBVIOUS
      <3>5. T \subseteq S \cup N BY <1>9, <3>4 DEF Fresh
      <3>6. IsFiniteSet(S) /\ IsFiniteSet(N) /\ Cardinality(N) = 1
        <4>1. PICK i : i = Len(jobs) + 1 OBVIOUS
        <4>2. N = {i} BY <3>4, <4>1
        <4>3. QED BY <1>4, <3>4, <4>2, NoneOrOne
      <3>7. Cardinality(T) <= Cardinality(S) + 1 /\ Cardinality(T) \in Nat BY <3>5, <3>6, CountGrows
      <3>8. QED BY <1>2, <1>3, <1>4, <2>1, <3>3, <3>4, <3>7
    <2>3. CASE o # op
      <3>1. Creating(o)' = Creating(o)
        <4>1. \A p \in Orders : p \in Creating(o)' <=> p \in Creating(o) BY <1>1, <1>6, <1>7, <2>3 DEF Creating
        <4>2. QED BY <4>1 DEF Creating
      <3>2. Fresh(o)' = Fresh(o)
        <4>1. \A j \in DOMAIN jobs : j \in DOMAIN jobs' BY <1>3, <1>8
        <4>2. Fresh(o)' \subseteq Fresh(o) BY <1>5, <1>9, <2>3 DEF Fresh
        <4>3. Fresh(o) \subseteq Fresh(o)' BY <1>8, <4>1 DEF Fresh
        <4>4. QED BY <4>2, <4>3
      <3>3. QED BY <1>2, <2>1, <3>1, <3>2
    <2>4. QED BY <2>2, <2>3
  <1>13. \A p \in Orders : (p > orders' => order'[p].pc = "idle")
                           /\ ((order'[p].pc = "idle") = (order'[p].op = "none"))
    <2>1. \A p \in Orders \ {r} : (p > orders' => order'[p].pc = "idle")
                           /\ ((order'[p].pc = "idle") = (order'[p].op = "none"))
      BY <1>2, <1>7 DEF OrdersInv
    <2>2. QED BY <1>6, <1>7, <2>1
  <1>14. \A j \in DOMAIN jobs' : jobs'[j].status = "failed" => jobs'[j].again BY <1>5, <1>9 DEF OrdersInv
  <1>15. QED BY <1>7, <1>8, <1>11, <1>12, <1>13, <1>14 DEF OrdersInv

LEMMA JobKeeps ==
    ASSUME AdminTypes, OrdersInv, NEW j \in DOMAIN jobs, JobStep(j)
    PROVE  OrdersInv' /\ jobs' \in Seq(Job)
  <1>1. PICK old : old = jobs[j] OBVIOUS
  <1>2. old \in Job /\ (old.status = "failed" => old.again) /\ jobs \in Seq(Job)
        /\ orders \in Nat /\ Len(jobs) \in Nat /\ rushed \in Nat
    BY <1>1, AdminNumbers DEF OrdersInv, AdminTypes
  <1>3. UNCHANGED <<order, orders, rushed>> BY DEF JobStep
  <1>4. PICK status : /\ jobs' = [jobs EXCEPT ![j].status = status, ![j].again = @ \/ status = "failed"]
                      /\ \/ status = "running" /\ (old.status = "pending" \/ old.again)
                         \/ status \in {"ended", "failed"}
    BY <1>1, <1>2 DEF JobStep, Job
  <1>5. PICK again \in BOOLEAN : again = (old.again \/ status = "failed") OBVIOUS
  <1>6. PICK new : new = [old EXCEPT !.status = status, !.again = again] OBVIOUS
  <1>7. status \in {"running", "ended", "failed"} BY <1>4
  <1>8. new \in Job /\ new.status = status /\ new.op = old.op /\ new.again = again
    BY <1>2, <1>5, <1>6, <1>7 DEF Job
  <1>9. jobs' = [jobs EXCEPT ![j] = new] BY <1>1, <1>4, <1>5, <1>6
  <1>10. /\ jobs' \in Seq(Job) /\ Len(jobs') = Len(jobs) /\ DOMAIN jobs' = DOMAIN jobs
         /\ \A i \in DOMAIN jobs : jobs'[i] = IF i = j THEN new ELSE jobs[i]
    BY <1>2, <1>8, <1>9, SeqWrites
  <1>11. Busy' = Busy /\ \A op : Creating(op)' = Creating(op) BY <1>3 DEF Busy, Creating
  <1>12. \A op : Fresh(op)' \subseteq Fresh(op)
    <2>1. new.status \in {"pending", "running"} /\ ~new.again => old.status = "pending" /\ ~old.again
      BY <1>4, <1>5, <1>8
    <2>2. QED BY <1>1, <1>8, <1>10, <2>1 DEF Fresh
  <1>13. ASSUME NEW op \in Operations
         PROVE  Cardinality(Fresh(op)') + Cardinality(Creating(op)') <= 1 + rushed'
    <2>1. Fresh(op)' \in SUBSET Fresh(op) BY <1>12
    <2>2. Cardinality(Fresh(op)') <= Cardinality(Fresh(op)) /\ Cardinality(Fresh(op)') \in Nat
          /\ Cardinality(Fresh(op)) \in Nat /\ Cardinality(Creating(op)) \in Nat
      BY <2>1, OrdersFinite, FS_Subset, FS_CardinalityType
    <2>3. Cardinality(Fresh(op)) + Cardinality(Creating(op)) <= 1 + rushed BY DEF OrdersInv
    <2>4. QED BY <1>2, <1>3, <1>11, <2>2, <2>3
  <1>14. \A i \in DOMAIN jobs' : jobs'[i].status = "failed" => jobs'[i].again
    <2>1. new.status = "failed" => new.again BY <1>5, <1>8
    <2>2. QED BY <1>10, <2>1 DEF OrdersInv
  <1>15. Cardinality(Busy') + Len(jobs') <= orders' BY <1>3, <1>10, <1>11 DEF OrdersInv
  <1>16. QED BY <1>3, <1>10, <1>13, <1>14, <1>15 DEF OrdersInv

\* Nothing but the operations has moved.
LEMMA JobsAside ==
    ASSUME AdminInv, AdminTypes', OrdersInv',
           UNCHANGED <<headVars, desk, maker, asks, registry, creates, unheard, dropped, misheard, overlaps>>
    PROVE  AdminInv'
  <1>1. AdminHeads' BY DEF AdminInv, AdminHeads, AdminTx, AdminKinds, headVars
  <1>2. LotteriesInv' BY DEF AdminInv, LotteriesInv, Spent, headVars
  <1>3. MakersInv' BY DEF AdminInv, MakersInv, headVars
  <1>4. DesksInv' BY DEF AdminInv, DesksInv, Running
  <1>5. AsksInv' BY DEF AdminInv, AsksInv
  <1>6. RegistryInv' BY DEF AdminInv, RegistryInv, Inserting, Registered
  <1>7. MissingInv' BY DEF AdminInv, MissingInv, Missing, InHand, Active, Registered, headVars
  <1>8. OrphansInv'
    BY DEF AdminInv, OrphansInv, Orphans, Orphaned, AtDesk, InPool, Minted, Kept, Running, Registered, headVars
  <1>9. RecordsInv' BY DEF AdminInv, RecordsInv, Undisturbed, Active, InPool, Spent, Registered, headVars
  <1>10. QED BY <1>1, <1>2, <1>3, <1>4, <1>5, <1>6, <1>7, <1>8, <1>9 DEF AdminInv

LEMMA JobsKeep ==
    ASSUME AdminInv,
           \/ \E d \in Desks, op \in Operations : Order(d, op)
           \/ \E r \in Orders : Look(r) \/ CreateJob(r)
           \/ \E j \in DOMAIN jobs : JobStep(j)
    PROVE  AdminInv'
  <1>1. AdminTypes /\ OrdersInv BY DEF AdminInv
  <1>2. CASE \E d \in Desks, op \in Operations : Order(d, op)
    <2>1. PICK d \in Desks, op \in Operations : Order(d, op) BY <1>2
    <2>2. OrdersInv' /\ order' \in [Orders -> OrderState] /\ orders' \in 0..MaxOrders BY <1>1, <2>1, OrderKeeps
    <2>3. UNCHANGED <<headVars, desk, maker, asks, registry, jobs, creates, unheard, dropped, misheard, overlaps, rushed>>
      BY <2>1 DEF Order
    <2>4. AdminTypes' BY <1>1, <2>2, <2>3 DEF AdminTypes
    <2>5. QED BY <2>2, <2>3, <2>4, JobsAside
  <1>3. CASE \E r \in Orders : Look(r)
    <2>1. PICK r \in Orders : Look(r) BY <1>3
    <2>2. OrdersInv' /\ order' \in [Orders -> OrderState] /\ rushed' \in Nat BY <1>1, <2>1, LookKeeps
    <2>3. UNCHANGED <<headVars, desk, maker, asks, registry, jobs, creates, orders, unheard, dropped, misheard, overlaps>>
      BY <2>1 DEF Look
    <2>4. AdminTypes' BY <1>1, <2>2, <2>3 DEF AdminTypes
    <2>5. QED BY <2>2, <2>3, <2>4, JobsAside
  <1>4. CASE \E r \in Orders : CreateJob(r)
    <2>1. PICK r \in Orders : CreateJob(r) BY <1>4
    <2>2. OrdersInv' /\ order' \in [Orders -> OrderState] /\ jobs' \in Seq(Job) BY <1>1, <2>1, CreateKeeps
    <2>3. UNCHANGED <<headVars, desk, maker, asks, registry, creates, orders, unheard, dropped, misheard, overlaps, rushed>>
      BY <2>1 DEF CreateJob
    <2>4. AdminTypes' BY <1>1, <2>2, <2>3 DEF AdminTypes
    <2>5. QED BY <2>2, <2>3, <2>4, JobsAside
  <1>5. CASE \E j \in DOMAIN jobs : JobStep(j)
    <2>1. PICK j \in DOMAIN jobs : JobStep(j) BY <1>5
    <2>2. OrdersInv' /\ jobs' \in Seq(Job) BY <1>1, <2>1, JobKeeps
    <2>3. UNCHANGED <<headVars, desk, maker, asks, registry, order, creates, orders, unheard, dropped, misheard, overlaps, rushed>>
      BY <2>1 DEF JobStep
    <2>4. AdminTypes' BY <1>1, <2>2, <2>3 DEF AdminTypes
    <2>5. QED BY <2>2, <2>3, <2>4, JobsAside
  <1>6. QED BY <1>2, <1>3, <1>4, <1>5

-----------------------------------------------------------------------------
(* What a creation does to its script and its desk *)

\* Every script has the transaction that it had.
SameMints == \A m \in Makers : maker'[m].lot = maker[m].lot /\ maker'[m].tx = maker[m].tx

\* The script m ends, and leaves to its desk what it needs.
Ends(m) ==
    /\ maker'[m].pc = "done"
    /\ \A n \in Makers \ {m} : maker'[n] = maker[n]
    /\ \A d \in Desks : desk[d].creating # m => desk'[d] = desk[d]
    /\ \A d \in Desks : desk[d].creating = m => desk'[d].creating = 0 /\ desk'[d].reconciling = desk[d].reconciling

Leaves(m, needs) ==
    /\ \A d \in Desks : desk[d].creating = m => desk'[d].record = needs /\ desk'[d].result = needs
    /\ dropped <= dropped'
    /\ \A d \in Desks : desk[d].creating = m /\ desk[d].record \notin {NoLot, needs} \cup Registered => dropped < dropped'

LEMMA SettleEnds ==
    ASSUME AdminTypes, NEW m \in Makers, NEW needs \in Int, Settle(m, needs)
    PROVE  /\ maker' \in [Makers -> MakerState] /\ desk' \in [Desks -> DeskState] /\ dropped' \in Nat
           /\ SameMints /\ Ends(m) /\ Leaves(m, needs)
  <1> DEFINE D == {d \in Desks : desk[d].creating = m /\ desk[d].record \notin {NoLot, needs} \cup Registered}
  <1>1. /\ maker' = [maker EXCEPT ![m].pc = "done"]
        /\ desk' = [d \in Desks |->
              IF desk[d].creating # m THEN desk[d]
              ELSE [desk[d] EXCEPT !.creating = 0, !.record = needs, !.result = needs]]
        /\ dropped' = dropped + Cardinality(D)
    BY DEF Settle
  <1>2. IsFiniteSet(D) /\ Cardinality(D) \in Nat /\ (D # {} => Cardinality(D) # 0)
    <2>1. D \in SUBSET Desks OBVIOUS
    <2>2. IsFiniteSet(D) BY <2>1, AdminAssumption, FS_Subset
    <2>3. QED BY <2>2, FS_CardinalityType, FS_EmptySet
  <1>3. dropped \in Nat /\ 0 \in 0..MaxCreates BY AdminNumbers
  <1>4. maker' \in [Makers -> MakerState] /\ maker'[m].pc = "done" /\ SameMints
        /\ \A n \in Makers \ {m} : maker'[n] = maker[n]
    BY <1>1 DEF AdminTypes, MakerState, SameMints
  <1>5. ASSUME NEW d \in Desks
        PROVE  /\ desk'[d] \in DeskState
               /\ desk[d].creating # m => desk'[d] = desk[d]
               /\ desk[d].creating = m => /\ desk'[d].creating = 0 /\ desk'[d].reconciling = desk[d].reconciling
                                          /\ desk'[d].record = needs /\ desk'[d].result = needs
    <2>1. PICK old, zero : old = desk[d] /\ zero = 0 OBVIOUS
    <2>2. old \in DeskState /\ zero \in 0..MaxCreates BY <1>3, <2>1 DEF AdminTypes
    <2>3. PICK new : new = [old EXCEPT !.creating = zero, !.record = needs, !.result = needs] OBVIOUS
    <2>4. new \in DeskState /\ new.creating = zero /\ new.reconciling = old.reconciling
          /\ new.record = needs /\ new.result = needs
      BY <2>2, <2>3 DEF DeskState
    <2>5. desk'[d] = IF old.creating # m THEN old ELSE new BY <1>1, <2>1, <2>3
    <2>6. QED BY <2>1, <2>2, <2>4, <2>5
  <1>6. desk' \in [Desks -> DeskState]
    <2>1. desk' = [d \in Desks |-> desk'[d]] BY <1>1
    <2>2. QED BY <1>5, <2>1
  <1>7. dropped' \in Nat /\ dropped <= dropped' /\ (D # {} => dropped < dropped')
    <2> HIDE DEF D
    <2>1. PICK n, old : n = Cardinality(D) /\ old = dropped OBVIOUS
    <2>2. n \in Nat /\ old \in Nat /\ (D # {} => n # 0) BY <1>2, <1>3, <2>1
    <2>3. PICK new : new = old + n OBVIOUS
    <2>4. new \in Nat /\ old <= new /\ (D # {} => old < new) BY <2>2, <2>3
    <2>5. dropped' = new BY <1>1, <2>1, <2>3
    <2>6. QED BY <2>1, <2>4, <2>5
  <1>8. Leaves(m, needs) BY <1>5, <1>7 DEF Leaves
  <1>9. QED BY <1>4, <1>5, <1>6, <1>7, <1>8 DEF Ends

LEMMA AbortEnds ==
    ASSUME AdminTypes, NEW m \in Makers, Abort(m)
    PROVE  /\ maker' \in [Makers -> MakerState] /\ desk' \in [Desks -> DeskState]
           /\ SameMints /\ Ends(m)
           /\ \A d \in Desks : desk'[d].record = desk[d].record /\ desk'[d].result = desk[d].result
  <1>1. /\ maker' = [maker EXCEPT ![m].pc = "done"]
        /\ desk' = [d \in Desks |-> IF desk[d].creating # m THEN desk[d] ELSE [desk[d] EXCEPT !.creating = 0]]
    BY DEF Abort
  <1>2. 0 \in 0..MaxCreates BY AdminNumbers
  <1>3. maker' \in [Makers -> MakerState] /\ maker'[m].pc = "done" /\ SameMints
        /\ \A n \in Makers \ {m} : maker'[n] = maker[n]
    BY <1>1 DEF AdminTypes, MakerState, SameMints
  <1>4. ASSUME NEW d \in Desks
        PROVE  /\ desk'[d] \in DeskState
               /\ desk[d].creating # m => desk'[d] = desk[d]
               /\ desk[d].creating = m => desk'[d].creating = 0 /\ desk'[d].reconciling = desk[d].reconciling
               /\ desk'[d].record = desk[d].record /\ desk'[d].result = desk[d].result
    <2>1. PICK old, zero : old = desk[d] /\ zero = 0 OBVIOUS
    <2>2. old \in DeskState /\ zero \in 0..MaxCreates BY <1>2, <2>1 DEF AdminTypes
    <2>3. PICK new : new = [old EXCEPT !.creating = zero] OBVIOUS
    <2>4. new \in DeskState /\ new.creating = zero /\ new.reconciling = old.reconciling
          /\ new.record = old.record /\ new.result = old.result
      BY <2>2, <2>3 DEF DeskState
    <2>5. desk'[d] = IF old.creating # m THEN old ELSE new BY <1>1, <2>1, <2>3
    <2>6. QED BY <2>1, <2>2, <2>4, <2>5
  <1>5. desk' \in [Desks -> DeskState]
    <2>1. desk' = [d \in Desks |-> desk'[d]] BY <1>1
    <2>2. QED BY <1>4, <2>1
  <1>6. QED BY <1>3, <1>4, <1>5 DEF Ends

\* The script m goes on with another phase of its registration.
GoesOn(m, pc) ==
    /\ maker'[m].pc = pc /\ desk' = desk /\ dropped' = dropped
    /\ \A n \in Makers \ {m} : maker'[n] = maker[n]

LEMMA RetryEnds ==
    ASSUME AdminTypes, NEW m \in Makers, Retry(m)
    PROVE  /\ maker' \in [Makers -> MakerState] /\ desk' \in [Desks -> DeskState] /\ dropped' \in Nat
           /\ SameMints
           /\ GoesOn(m, "register") \/ (Ends(m) /\ Leaves(m, maker[m].lot))
  <1>0. dropped \in Nat BY AdminNumbers
  <1>1. maker[m] \in MakerState /\ Retries \in Nat BY AdminNumbers
  <1>2. CASE maker[m].tries < Retries
    <2>1. PICK tries : tries = maker[m].tries + 1 OBVIOUS
    <2>2. tries \in 0..Retries BY <1>1, <1>2, <2>1 DEF MakerState
    <2>3. PICK new : new = [maker[m] EXCEPT !.pc = "register", !.tries = tries] OBVIOUS
    <2>4. new \in MakerState /\ new.pc = "register" /\ new.lot = maker[m].lot /\ new.tx = maker[m].tx
      BY <1>1, <2>2, <2>3 DEF MakerState
    <2>5. maker' = [maker EXCEPT ![m] = new]
      <3>1. maker' = [maker EXCEPT ![m].pc = "register", ![m].tries = @ + 1]
        BY <1>2 DEF Retry
      <3>2. [maker EXCEPT ![m].pc = "register", ![m].tries = @ + 1] = [maker EXCEPT ![m] = new]
        BY <1>1, <2>1, <2>3 DEF AdminTypes, MakerState
      <3>3. QED BY <3>1, <3>2
    <2>6. desk' = desk /\ dropped' = dropped BY <1>2 DEF Retry
    <2>7. QED BY <2>4, <2>5, <2>6, <1>0 DEF AdminTypes, SameMints, GoesOn
  <1>3. CASE ~(maker[m].tries < Retries)
    <2>1. PICK lot : lot = maker[m].lot OBVIOUS
    <2>2. Settle(m, lot) /\ lot \in Int BY <1>1, <1>3, <2>1 DEF Retry, MakerState
    <2>3. QED BY <2>1, <2>2, SettleEnds
  <1>4. QED BY <1>2, <1>3

\* What was spent stays spent.
SpentStays == \A lot : Spent(lot) => Spent(lot)'

\* The heads of the desks: what is confirmed was there.
HeadsRest == UNCHANGED <<utxo, pool, sent, now>> /\ snapshot' \subseteq snapshot \cup utxo

LEMMA RestKeeps ==
    ASSUME AdminHeads, LotteriesInv, SameMints, HeadsRest
    PROVE  AdminHeads' /\ LotteriesInv' /\ SpentStays
  <1>1. AdminKinds(snapshot)' /\ \A o \in snapshot' : o.tx \in 0..sent'
    BY DEF AdminHeads, AdminKinds, HeadsRest
  <1>2. \A t \in pool' : AdminTx(t)' BY DEF AdminHeads, AdminTx, SameMints, HeadsRest
  <1>3. AdminHeads' BY <1>1, <1>2 DEF AdminHeads, HeadsRest, AdminKinds
  <1>4. SpentStays BY DEF SpentStays, Spent, HeadsRest
  <1>5. LotteriesInv' BY <1>4 DEF LotteriesInv, SameMints, SpentStays, HeadsRest
  <1>6. QED BY <1>3, <1>4, <1>5

\* A script moves on, or starts.
Moves(n) ==
    \/ maker'[n].pc = maker[n].pc
    \/ maker'[n].pc = "done" /\ maker[n].pc # "idle"
    \/ maker'[n].pc \in {"register", "waiting"} /\ maker[n].pc \in {"await", "register", "waiting"}
    \/ maker'[n].pc = "mint" /\ maker[n].pc = "idle" /\ n <= creates'

LEMMA MakersRest ==
    ASSUME AdminTypes, MakersInv, SameMints, HeadsRest, creates' \in Nat, creates <= creates',
           \A n \in Makers : Moves(n)
    PROVE  MakersInv'
  <1>1. creates \in Nat /\ Makers \subseteq Nat BY AdminNumbers
  <1>2. ASSUME NEW m \in Makers
        PROVE  /\ m > creates' => maker'[m].pc = "idle"
               /\ maker'[m].pc \in {"idle", "mint"} => maker'[m].tx = 0
               /\ maker'[m].pc \in {"await", "register", "waiting"} => maker'[m].tx # 0
               /\ maker'[m].tx \in 0..sent'
               /\ maker'[m].tx # 0 => maker'[m].lot \in 1..sent'
    <2>1. m > creates' => m > creates /\ ~(m <= creates') BY <1>1
    <2>2. QED BY <2>1 DEF MakersInv, Moves, SameMints, HeadsRest
  <1>3. \A m, n \in Makers : maker'[m].tx = maker'[n].tx /\ maker'[m].tx # 0 => m = n BY DEF MakersInv, SameMints
  <1>4. /\ \A m \in Makers : \A t \in pool' : t.id = maker'[m].tx =>
              /\ \A o \in t.makes : o.kind = "lottery" => o.lot = maker'[m].lot
              /\ \E o \in t.makes : o.kind = "lottery"
              /\ \E o \in t.spends : TokenOf(o) = maker'[m].lot
        /\ \A m \in Makers : \A o \in utxo' : o.kind = "lottery" /\ o.tx = maker'[m].tx => o.lot = maker'[m].lot
    BY DEF MakersInv, SameMints, HeadsRest
  <1>5. QED BY <1>2, <1>3, <1>4 DEF MakersInv

\* The outputs of a mint: the change, and the lottery.
MintOutputs(id, lot, closes) == {[o EXCEPT !.tx = id] : o \in {Coin, Lottery(lot, closes)}}

LEMMA MintMakes ==
    ASSUME NEW id \in Nat, NEW lot \in Nat, NEW closes \in Nat
    PROVE  \E c, l \in Output :
              /\ MintOutputs(id, lot, closes) = {c, l}
              /\ c.kind = "coin" /\ c.tx = id /\ l.kind = "lottery" /\ l.tx = id /\ l.lot = lot
  <1> DEFINE Bare(kind) == [head |-> "headB", kind |-> kind, lot |-> 0, for |-> None, until |-> 0,
                            closes |-> 0, paid |-> FALSE, nested |-> FALSE, ada |-> 0, tx |-> 0]
  <1>1. PICK p, r : p = Bare("coin") /\ r = Bare("lottery") OBVIOUS
  <1>2. p \in Output /\ r \in Output /\ p.kind = "coin" /\ r.kind = "lottery"
    BY <1>1, LotteryAssumption DEF Output, Kinds
  <1>3. PICK q : q = [r EXCEPT !.lot = lot, !.closes = closes, !.ada = Prize] OBVIOUS
  <1>4. q \in Output /\ q.kind = "lottery" /\ q.lot = lot
    <2>1. PICK q1 : q1 = [r EXCEPT !.lot = lot] OBVIOUS
    <2>2. q1 \in Output /\ q1.kind = "lottery" /\ q1.lot = lot BY <1>2, <2>1 DEF Output
    <2>3. PICK q2 : q2 = [q1 EXCEPT !.closes = closes] OBVIOUS
    <2>4. q2 \in Output /\ q2.kind = "lottery" /\ q2.lot = lot BY <2>2, <2>3 DEF Output
    <2>5. PICK q3, prize : prize = Prize /\ q3 = [q2 EXCEPT !.ada = prize] OBVIOUS
    <2>6. prize \in Int BY <2>5, LotteryAssumption
    <2>7. q3 \in Output /\ q3.kind = "lottery" /\ q3.lot = lot BY <2>4, <2>5, <2>6 DEF Output
    <2>8. q = q3 BY <1>3, <2>1, <2>3, <2>5
    <2>9. QED BY <2>7, <2>8
  <1>5. Coin = p /\ Lottery(lot, closes) = q BY <1>1, <1>3 DEF Coin, Lottery, Plain
  <1>6. PICK c, l : c = [p EXCEPT !.tx = id] /\ l = [q EXCEPT !.tx = id] OBVIOUS
  <1>7. /\ c \in Output /\ l \in Output
        /\ c.kind = "coin" /\ c.tx = id /\ l.kind = "lottery" /\ l.tx = id /\ l.lot = lot
    BY <1>2, <1>4, <1>6 DEF Output
  <1>8. MintOutputs(id, lot, closes) = {c, l} BY <1>5, <1>6 DEF MintOutputs
  <1>9. QED BY <1>7, <1>8

\* The script m has sent its mint.
Mints(m) ==
    /\ maker[m].pc = "mint" /\ maker'[m].pc = "await" /\ maker'[m].tx = sent + 1
    /\ \A n \in Makers \ {m} : maker'[n] = maker[n]
    /\ utxo' = utxo /\ snapshot' = snapshot /\ sent' = sent + 1
    /\ \A t \in pool' : t \in pool \/ t.id = sent + 1
    /\ pool \subseteq pool'

LEMMA MintSends ==
    ASSUME AdminHeads, LotteriesInv, AdminTypes, MakersInv, NEW m \in Makers, SendMint(m)
    PROVE  AdminHeads' /\ LotteriesInv' /\ MakersInv' /\ maker' \in [Makers -> MakerState] /\ SpentStays /\ Mints(m)
  <1>1. PICK seed \in At(snapshot, "coin"), closes \in CloseTimes :
              /\ MintFrom(seed, closes)
              /\ maker' = [maker EXCEPT ![m] = [@ EXCEPT !.pc = "await", !.lot = TokenOf(seed), !.tx = sent + 1]]
    BY DEF SendMint
  <1>2. maker[m].pc = "mint" /\ UNCHANGED creates BY DEF SendMint
  <1>3. PICK id, lot : id = sent + 1 /\ lot = TokenOf(seed) OBVIOUS
  <1>4. /\ seed \in Output /\ seed.kind = "coin" /\ seed \in snapshot /\ seed.tx \in 0..sent
        /\ sent \in Nat /\ MaxTxs \in Nat
    BY <1>1, HeadAssumption DEF AdminHeads, AdminKinds, At
  <1>5. id \in Nat \ {0} /\ lot \in 1..id /\ lot \in Nat /\ id = sent + 1 BY <1>3, <1>4 DEF TokenOf
  <1>6. closes \in Nat BY <1>1, LotteryAssumption
  <1>7. PICK c, l \in Output :
              /\ MintOutputs(id, lot, closes) = {c, l}
              /\ c.kind = "coin" /\ c.tx = id /\ l.kind = "lottery" /\ l.tx = id /\ l.lot = lot
    <2>1. id \in Nat /\ lot \in Nat /\ closes \in Nat BY <1>5, <1>6
    <2>2. QED BY ONLY <2>1, MintMakes
  <1>8. PICK t : t = [id |-> id, head |-> "headB", redeemer |-> "Mint", spends |-> {seed}, reads |-> {},
                      makes |-> {c, l}, from |-> 0, upto |-> now + MintWindow]
    OBVIOUS
  <1>9. /\ sent' = id /\ sent < MaxTxs /\ pool' = pool \cup {t}
        /\ UNCHANGED <<utxo, snapshot, now>>
    BY <1>1, <1>3, <1>7, <1>8 DEF MintFrom, Submit, MintOutputs
  <1>10. t.id = id /\ t.redeemer = "Mint" /\ t.spends = {seed} /\ t.makes = {c, l} BY <1>8
  <1>11. PICK new : new = [maker[m] EXCEPT !.pc = "await", !.lot = lot, !.tx = id] OBVIOUS
  <1>12. maker[m] \in MakerState BY AdminNumbers
  <1>13. new \in MakerState /\ new.pc = "await" /\ new.lot = lot /\ new.tx = id
    <2>1. PICK new1 : new1 = [maker[m] EXCEPT !.pc = "await"] OBVIOUS
    <2>2. new1 \in MakerState /\ new1.pc = "await" BY <1>12, <2>1 DEF MakerState
    <2>3. PICK new2 : new2 = [new1 EXCEPT !.lot = lot] OBVIOUS
    <2>4. new2 \in MakerState /\ new2.pc = "await" /\ new2.lot = lot BY <1>5, <2>2, <2>3 DEF MakerState
    <2>5. PICK new3 : new3 = [new2 EXCEPT !.tx = id] OBVIOUS
    <2>6. new3 \in MakerState /\ new3.pc = "await" /\ new3.lot = lot /\ new3.tx = id
      BY <1>5, <2>4, <2>5 DEF MakerState
    <2>7. new = new3 BY <1>11, <2>1, <2>3, <2>5
    <2>8. QED BY <2>6, <2>7
  <1>14. maker' = [maker EXCEPT ![m] = new] BY <1>1, <1>3, <1>11
  <1>15. /\ maker' \in [Makers -> MakerState] /\ maker'[m] = new
         /\ \A n \in Makers \ {m} : maker'[n] = maker[n]
    BY <1>13, <1>14 DEF AdminTypes
  <1>16. maker[m].tx = 0 /\ \A n \in Makers : maker[n].tx \in 0..sent BY <1>2 DEF MakersInv
  <1>17. ASSUME NEW u \in pool'
         PROVE  AdminTx(u)'
    <2>1. CASE u = t
      <3>1. t.id \in 1..sent' BY <1>5, <1>9, <1>10
      <3>2. AdminKinds(t.spends) /\ AdminKinds(t.makes) /\ \A o \in t.spends : o.kind = "coin"
        BY <1>4, <1>7, <1>10 DEF AdminKinds
      <3>3. \A o \in t.makes : o.tx = t.id BY <1>7, <1>10
      <3>4. \A o, q \in t.makes : o.kind = q.kind => o = q BY <1>7, <1>10
      <3>5. maker'[m].tx = t.id BY <1>10, <1>13, <1>15
      <3>6. AdminTx(t)' BY <1>10, <3>1, <3>2, <3>3, <3>4, <3>5 DEF AdminTx, AdminKinds
      <3>7. QED BY <2>1, <3>6
    <2>2. CASE u \in pool
      <3>1. AdminTx(u) BY <2>2 DEF AdminHeads
      <3>2. PICK n \in Makers : maker[n].tx = u.id BY <3>1 DEF AdminTx
      <3>3. n # m /\ u.id \in 1..sent' BY <1>4, <1>5, <1>9, <1>16, <3>1, <3>2 DEF AdminTx
      <3>4. maker'[n].tx = u.id BY <1>15, <3>2, <3>3
      <3>5. QED BY <3>1, <3>3, <3>4 DEF AdminTx
    <2>3. QED BY <1>9, <2>1, <2>2
  <1>18. \A u \in pool : u.id \in 1..sent /\ u.id # id BY <1>4, <1>5 DEF AdminHeads, AdminTx
  <1>19. \A u \in pool' : u \in pool \/ u = t BY <1>9
  <1>20. AdminHeads'
    <2>1. sent' \in 0..MaxTxs BY <1>4, <1>5, <1>9
    <2>2. \A u, w \in pool' : u.id = w.id => u = w BY <1>10, <1>18, <1>19 DEF AdminHeads
    <2>3. \A o \in utxo' : o.tx \in 0..sent' /\ \A u \in pool' : u.id # o.tx
      BY <1>4, <1>5, <1>9, <1>10, <1>19 DEF AdminHeads
    <2>4. \A o \in snapshot' : o.tx \in 0..sent' BY <1>4, <1>5, <1>9 DEF AdminHeads
    <2>5. AdminKinds(utxo)' /\ AdminKinds(snapshot)' /\ now' \in 0..MaxNow BY <1>9 DEF AdminHeads, AdminKinds
    <2>6. \A o, q \in utxo' : o.kind = q.kind /\ o.tx = q.tx => o = q BY <1>9 DEF AdminHeads
    <2>7. QED BY <1>17, <2>1, <2>2, <2>3, <2>4, <2>5, <2>6 DEF AdminHeads
  <1>21. ASSUME NEW k, Spent(k) PROVE Spent(k)'
    <2>1. k \in 1..(sent' + 1) BY <1>4, <1>5, <1>9, <1>21 DEF Spent
    <2>2. \A u \in pool' : u.id + 1 # k
      <3>1. id + 1 # k BY <1>4, <1>5, <1>21 DEF Spent
      <3>2. QED BY <1>10, <1>19, <1>21, <3>1 DEF Spent
    <2>3. QED BY <1>9, <1>21, <2>1, <2>2 DEF Spent
  <1>22. LotteriesInv'
    <2>1. ASSUME NEW o \in utxo', o.kind = "lottery"
          PROVE  Spent(o.lot)' /\ o.tx # 0 /\ \E n \in Makers : maker'[n].tx = o.tx
      <3>1. Spent(o.lot) /\ o.tx # 0 /\ \E n \in Makers : maker[n].tx = o.tx
        BY <1>9, <2>1 DEF LotteriesInv
      <3>2. PICK n \in Makers : maker[n].tx = o.tx BY <3>1
      <3>3. maker'[n].tx = o.tx BY <1>15, <1>16, <3>1, <3>2
      <3>4. QED BY <1>21, <3>1, <3>3
    <2>2. \A o, q \in utxo' : o.kind = "lottery" /\ q.kind = "lottery" /\ o.lot = q.lot => o = q
      BY <1>9 DEF LotteriesInv
    <2>3. QED BY <2>1, <2>2 DEF LotteriesInv
  <1>23. ASSUME NEW n \in Makers
         PROVE  /\ n > creates' => maker'[n].pc = "idle"
                /\ maker'[n].pc \in {"idle", "mint"} => maker'[n].tx = 0
                /\ maker'[n].pc \in {"await", "register", "waiting"} => maker'[n].tx # 0
                /\ maker'[n].tx \in 0..sent'
                /\ maker'[n].tx # 0 => maker'[n].lot \in 1..sent'
    <2>1. CASE n = m
      <3>1. ~(n > creates') BY <1>2, <2>1 DEF MakersInv
      <3>2. id # 0 /\ id \in 0..sent' /\ lot \in 1..sent' BY <1>5, <1>9
      <3>3. QED BY <1>13, <1>15, <2>1, <3>1, <3>2
    <2>2. CASE n # m
      <3>1. maker'[n] = maker[n] BY <1>15, <2>2
      <3>2. 0..sent \subseteq 0..sent' /\ 1..sent \subseteq 1..sent' BY <1>4, <1>5, <1>9
      <3>3. QED BY <1>2, <3>1, <3>2 DEF MakersInv
    <2>3. QED BY <2>1, <2>2
  <1>24. \A n, p \in Makers : maker'[n].tx = maker'[p].tx /\ maker'[n].tx # 0 => n = p
    <2>1. \A n \in Makers : maker[n].tx # id BY <1>4, <1>5, <1>16
    <2>2. QED BY <1>13, <1>15, <2>1 DEF MakersInv
  <1>25. ASSUME NEW n \in Makers, NEW u \in pool', u.id = maker'[n].tx
         PROVE  /\ \A o \in u.makes : o.kind = "lottery" => o.lot = maker'[n].lot
                /\ \E o \in u.makes : o.kind = "lottery"
                /\ \E o \in u.spends : TokenOf(o) = maker'[n].lot
    <2>1. CASE u = t
      <3>1. n = m
        <4>1. \A p \in Makers : maker[p].tx # id BY <1>4, <1>5, <1>16
        <4>2. QED BY <1>10, <1>15, <1>25, <2>1, <4>1
      <3>2. maker'[n].lot = lot BY <1>13, <1>15, <3>1
      <3>3. QED BY <1>3, <1>7, <1>10, <2>1, <3>2
    <2>2. CASE u \in pool
      <3>1. n # m BY <1>13, <1>15, <1>18, <1>25, <2>2
      <3>2. maker'[n] = maker[n] BY <1>15, <3>1
      <3>3. QED BY <1>25, <2>2, <3>2 DEF MakersInv
    <2>3. QED BY <1>19, <2>1, <2>2
  <1>26. \A n \in Makers : \A o \in utxo' : o.kind = "lottery" /\ o.tx = maker'[n].tx => o.lot = maker'[n].lot
    <2>1. \A o \in utxo : o.tx # id BY <1>4, <1>5 DEF AdminHeads
    <2>2. QED BY <1>9, <1>13, <1>15, <2>1 DEF MakersInv
  <1>27. MakersInv' BY <1>23, <1>24, <1>25, <1>26 DEF MakersInv
  <1>28. Mints(m) BY <1>2, <1>3, <1>9, <1>10, <1>13, <1>15 DEF Mints
  <1>29. QED BY <1>15, <1>20, <1>21, <1>22, <1>27, <1>28 DEF SpentStays

\* The head has decided t.
Judged(t) ==
    /\ pool' = pool \ {t} /\ UNCHANGED <<snapshot, sent, now>>
    /\ ~Accepts(t) => utxo' = utxo
    /\ Accepts(t) => utxo' = (utxo \ t.spends) \cup t.makes /\ t.spends \subseteq utxo

LEMMA JudgeDecides ==
    ASSUME NEW t \in pool, Judge(t), AdminTx(t)
    PROVE  /\ Judged(t)
           /\ Accepts(t) => \E l \in t.makes, seed \in t.spends : l.kind = "lottery" /\ l.lot = TokenOf(seed)
  <1>1. Accepts(t) => Valid(t) /\ Mint(t) BY DEF Accepts, Scripts, AdminTx
  <1>2. Accepts(t) => \E l \in t.makes, seed \in t.spends : l.kind = "lottery" /\ l.lot = TokenOf(seed)
    BY <1>1 DEF Mint, OwnOutput, At
  <1>3. Accepts(t) => t.spends \subseteq utxo BY <1>1 DEF Valid
  <1>4. Judged(t) BY <1>1, <1>3 DEF Judge, Decide, Judged
  <1>5. QED BY <1>2, <1>4

LEMMA JudgeKeeps ==
    ASSUME AdminHeads, LotteriesInv, NEW t \in pool, Judge(t), SameMints
    PROVE  AdminHeads' /\ LotteriesInv' /\ SpentStays /\ Judged(t)
  <1>1. /\ Judged(t)
        /\ Accepts(t) => \E l \in t.makes, seed \in t.spends : l.kind = "lottery" /\ l.lot = TokenOf(seed)
    BY JudgeDecides DEF AdminHeads
  <1>2. AdminTx(t) BY DEF AdminHeads
  <1>3. pool' = pool \ {t} /\ UNCHANGED <<snapshot, sent, now>> BY <1>1 DEF Judged
  <1>4. sent \in Nat /\ t.id \in 1..sent BY <1>2 DEF AdminHeads, AdminTx
  <1>5. \A u \in pool' : AdminTx(u)' BY <1>3 DEF AdminHeads, AdminTx, SameMints
  <1>6. \A o \in utxo' : o \in utxo \/ (Accepts(t) /\ o \in t.makes) BY <1>1 DEF Judged
  <1>7. AdminHeads'
    <2>1. AdminKinds(utxo)' BY <1>2, <1>6 DEF AdminHeads, AdminTx, AdminKinds
    <2>2. AdminKinds(snapshot)' /\ (\A o \in snapshot' : o.tx \in 0..sent') /\ sent' \in 0..MaxTxs /\ now' \in 0..MaxNow
      BY <1>3 DEF AdminHeads, AdminKinds
    <2>3. \A u, w \in pool' : u.id = w.id => u = w BY <1>3 DEF AdminHeads
    <2>4. \A u \in pool' : u.id # t.id BY <1>3 DEF AdminHeads
    <2>5. \A o \in utxo' : o.tx \in 0..sent' /\ \A u \in pool' : u.id # o.tx
      <3>1. \A o \in t.makes : o.tx = t.id BY <1>2 DEF AdminTx
      <3>2. QED BY <1>3, <1>4, <1>6, <2>4, <3>1 DEF AdminHeads
    <2>6. \A o, q \in utxo' : o.kind = q.kind /\ o.tx = q.tx => o = q
      <3>1. \A o \in utxo, q \in t.makes : o.tx # q.tx BY <1>2 DEF AdminHeads, AdminTx
      <3>2. QED BY <1>2, <1>6, <3>1 DEF AdminHeads, AdminTx
    <2>7. QED BY <1>5, <2>1, <2>2, <2>3, <2>5, <2>6 DEF AdminHeads
  <1>8. ASSUME NEW k, Spent(k) PROVE Spent(k)'
    <2>1. ASSUME NEW o \in utxo', o.kind = "coin" PROVE TokenOf(o) # k
      <3>1. CASE o \in utxo BY <1>8, <2>1, <3>1 DEF Spent
      <3>2. CASE o \in t.makes
        <4>1. TokenOf(o) = t.id + 1 BY <1>2, <3>2 DEF AdminTx, TokenOf
        <4>2. QED BY <1>8, <4>1 DEF Spent
      <3>3. QED BY <1>6, <2>1, <3>1, <3>2
    <2>2. QED BY <1>3, <1>8, <2>1 DEF Spent
  <1>9. ASSUME Accepts(t), NEW l \in t.makes, NEW seed \in t.spends, l.kind = "lottery", l.lot = TokenOf(seed)
        PROVE  Spent(l.lot)' /\ \A o \in utxo : o.kind = "lottery" => o.lot # l.lot
    <2>1. utxo' = (utxo \ t.spends) \cup t.makes /\ seed \in utxo /\ seed.kind = "coin"
      BY <1>1, <1>2, <1>9 DEF Judged, AdminTx
    <2>2. seed.tx \in 0..sent /\ l.lot = seed.tx + 1 /\ \A u \in pool : u.id # seed.tx
      BY <1>9, <2>1 DEF AdminHeads, TokenOf
    <2>3. l.lot \in 1..(sent' + 1) BY <1>3, <1>4, <2>2
    <2>4. ASSUME NEW o \in utxo', o.kind = "coin" PROVE TokenOf(o) # l.lot
      <3>1. CASE o \in utxo /\ o \notin t.spends
        <4>1. o.tx # seed.tx /\ o.tx \in 0..sent BY <1>9, <2>1, <2>4, <3>1 DEF AdminHeads
        <4>2. QED BY <1>4, <2>2, <4>1 DEF TokenOf
      <3>2. CASE o \in t.makes
        <4>1. TokenOf(o) = t.id + 1 BY <1>2, <3>2 DEF AdminTx, TokenOf
        <4>2. t.id # seed.tx BY <2>2
        <4>3. QED BY <1>4, <2>2, <4>1, <4>2
      <3>3. QED BY <2>1, <2>4, <3>1, <3>2
    <2>5. \A u \in pool' : u.id + 1 # l.lot
      <3>1. \A u \in pool : u.id \in 1..sent BY DEF AdminHeads, AdminTx
      <3>2. QED BY <1>3, <1>4, <2>2, <3>1
    <2>6. Spent(l.lot)' BY <2>3, <2>4, <2>5 DEF Spent
    <2>7. \A o \in utxo : o.kind = "lottery" => o.lot # l.lot BY <1>9, <2>1 DEF LotteriesInv, Spent
    <2>8. QED BY <2>6, <2>7
  <1>10. LotteriesInv'
    <2>1. ASSUME NEW o \in utxo', o.kind = "lottery"
          PROVE  Spent(o.lot)' /\ o.tx # 0 /\ \E m \in Makers : maker'[m].tx = o.tx
      <3>1. CASE o \in utxo BY <1>8, <2>1, <3>1 DEF LotteriesInv, SameMints
      <3>2. CASE Accepts(t) /\ o \in t.makes
        <4>1. PICK l \in t.makes, seed \in t.spends : l.kind = "lottery" /\ l.lot = TokenOf(seed) BY <1>1, <3>2
        <4>2. o = l /\ o.tx = t.id BY <1>2, <2>1, <3>2, <4>1 DEF AdminTx
        <4>3. Spent(o.lot)' BY <1>9, <3>2, <4>1, <4>2
        <4>4. QED BY <1>2, <1>4, <4>2, <4>3 DEF AdminTx, SameMints
      <3>3. QED BY <1>6, <3>1, <3>2
    <2>2. ASSUME NEW o \in utxo', NEW q \in utxo', o.kind = "lottery", q.kind = "lottery", o.lot = q.lot
          PROVE  o = q
      <3>1. CASE o \in utxo /\ q \in utxo BY <2>2, <3>1 DEF LotteriesInv
      <3>2. CASE Accepts(t) /\ (o \in t.makes \/ q \in t.makes)
        <4>1. PICK l \in t.makes, seed \in t.spends : l.kind = "lottery" /\ l.lot = TokenOf(seed) BY <1>1, <3>2
        <4>2. \A p \in t.makes : p.kind = "lottery" => p = l BY <1>2, <4>1 DEF AdminTx
        <4>3. \A p \in utxo : p.kind = "lottery" => p.lot # l.lot BY <1>9, <3>2, <4>1
        <4>4. QED BY <1>6, <2>2, <3>2, <4>2, <4>3
      <3>3. QED BY <1>6, <3>1, <3>2
    <2>3. QED BY <2>1, <2>2 DEF LotteriesInv
  <1>11. QED BY <1>1, <1>7, <1>8, <1>10 DEF SpentStays

\* The scripts that wait have heard of t.
Heard(t) ==
    /\ \A m \in Makers : maker[m].pc = "await" => maker'[m].pc = IF Accepts(t) THEN "register" ELSE "done"
    /\ \A m \in Makers : maker[m].pc # "await" => maker'[m] = maker[m]
    /\ \A d \in Desks : /\ desk'[d].record = desk[d].record /\ desk'[d].result = desk[d].result
                        /\ desk'[d].reconciling = desk[d].reconciling
                        /\ desk'[d].creating \in {0, desk[d].creating}
    /\ \A d \in Desks : desk[d].creating \in Makers /\ maker[desk[d].creating].pc = "await" /\ ~Accepts(t)
                           => desk'[d].creating = 0
    /\ \A d \in Desks : ~(desk[d].creating \in Makers /\ maker[desk[d].creating].pc = "await" /\ ~Accepts(t))
                           => desk'[d].creating = desk[d].creating

LEMMA MintHeard ==
    ASSUME AdminTypes, NEW t \in pool, HearMint(t)
    PROVE  /\ maker' \in [Makers -> MakerState] /\ desk' \in [Desks -> DeskState]
           /\ SameMints /\ Heard(t)
  <1> DEFINE hear == {m \in Makers : maker[m].pc = "await"}
  <1>1. PICK pc : pc = IF Accepts(t) THEN "register" ELSE "done" OBVIOUS
  <1>2. /\ maker' = [m \in Makers |-> IF m \in hear THEN [maker[m] EXCEPT !.pc = pc] ELSE maker[m]]
        /\ desk' = [d \in Desks |-> IF desk[d].creating \in hear /\ ~Accepts(t) THEN [desk[d] EXCEPT !.creating = 0]
                                    ELSE desk[d]]
    BY <1>1 DEF HearMint
  <1>3. 0 \in 0..MaxCreates /\ pc \in {"register", "done"} BY <1>1, AdminNumbers
  <1>4. ASSUME NEW m \in Makers
        PROVE  /\ maker'[m] \in MakerState /\ maker'[m].lot = maker[m].lot /\ maker'[m].tx = maker[m].tx
               /\ maker[m].pc = "await" => maker'[m].pc = pc
               /\ maker[m].pc # "await" => maker'[m] = maker[m]
    <2>1. PICK old : old = maker[m] OBVIOUS
    <2>2. old \in MakerState BY <2>1, AdminNumbers
    <2>3. PICK new : new = [old EXCEPT !.pc = pc] OBVIOUS
    <2>4. new \in MakerState /\ new.pc = pc /\ new.lot = old.lot /\ new.tx = old.tx
      BY <1>3, <2>2, <2>3 DEF MakerState
    <2>5. maker'[m] = IF old.pc = "await" THEN new ELSE old BY <1>2, <2>1, <2>3
    <2>6. QED BY <2>1, <2>2, <2>4, <2>5
  <1>5. ASSUME NEW d \in Desks
        PROVE  /\ desk'[d] \in DeskState
               /\ desk'[d].record = desk[d].record /\ desk'[d].result = desk[d].result
               /\ desk'[d].reconciling = desk[d].reconciling
               /\ desk[d].creating \in hear /\ ~Accepts(t) => desk'[d].creating = 0
               /\ ~(desk[d].creating \in hear /\ ~Accepts(t)) => desk'[d].creating = desk[d].creating
    <2>1. PICK old, zero : old = desk[d] /\ zero = 0 OBVIOUS
    <2>2. old \in DeskState /\ zero \in 0..MaxCreates BY <1>3, <2>1 DEF AdminTypes
    <2>3. PICK new : new = [old EXCEPT !.creating = zero] OBVIOUS
    <2>4. new \in DeskState /\ new.creating = zero /\ new.reconciling = old.reconciling
          /\ new.record = old.record /\ new.result = old.result
      BY <2>2, <2>3 DEF DeskState
    <2>5. desk'[d] = IF old.creating \in hear /\ ~Accepts(t) THEN new ELSE old BY <1>2, <2>1, <2>3
    <2>6. QED BY <2>1, <2>2, <2>4, <2>5
  <1>6. maker' \in [Makers -> MakerState]
    <2>1. maker' = [m \in Makers |-> maker'[m]] BY <1>2
    <2>2. QED BY <1>4, <2>1
  <1>7. desk' \in [Desks -> DeskState]
    <2>1. desk' = [d \in Desks |-> desk'[d]] BY <1>2
    <2>2. QED BY <1>5, <2>1
  <1>8. Heard(t) BY <1>1, <1>4, <1>5 DEF Heard
  <1>9. QED BY <1>4, <1>6, <1>7, <1>8 DEF SameMints

LEMMA HeardKeeps ==
    ASSUME AdminHeads, MakersInv, NEW t \in pool, Judged(t), SameMints, Heard(t), UNCHANGED creates
    PROVE  MakersInv'
  <1>1. pool' = pool \ {t} /\ sent' = sent /\ \A o \in utxo' : o \in utxo \/ o \in t.makes BY DEF Judged
  <1>2. ASSUME NEW m \in Makers
        PROVE  /\ m > creates' => maker'[m].pc = "idle"
               /\ maker'[m].pc \in {"idle", "mint"} => maker'[m].tx = 0
               /\ maker'[m].pc \in {"await", "register", "waiting"} => maker'[m].tx # 0
               /\ maker'[m].tx \in 0..sent'
               /\ maker'[m].tx # 0 => maker'[m].lot \in 1..sent'
    <2>1. maker'[m].pc = maker[m].pc \/ (maker'[m].pc \in {"register", "done"} /\ maker[m].pc = "await")
      BY DEF Heard
    <2>2. QED BY <1>1, <2>1 DEF MakersInv, SameMints
  <1>3. \A m, n \in Makers : maker'[m].tx = maker'[n].tx /\ maker'[m].tx # 0 => m = n BY DEF MakersInv, SameMints
  <1>4. \A m \in Makers : \A u \in pool' : u.id = maker'[m].tx =>
              /\ \A o \in u.makes : o.kind = "lottery" => o.lot = maker'[m].lot
              /\ \E o \in u.makes : o.kind = "lottery"
              /\ \E o \in u.spends : TokenOf(o) = maker'[m].lot
    BY <1>1 DEF MakersInv, SameMints
  <1>5. \A m \in Makers : \A o \in utxo' : o.kind = "lottery" /\ o.tx = maker'[m].tx => o.lot = maker'[m].lot
    <2>1. \A o \in t.makes : o.tx = t.id BY DEF AdminHeads, AdminTx
    <2>2. QED BY <1>1, <2>1 DEF MakersInv, SameMints
  <1>6. QED BY <1>2, <1>3, <1>4, <1>5 DEF MakersInv

-----------------------------------------------------------------------------
(* What stays as it was, of the desks, the requests and the lotteries *)

LEMMA DesksRest ==
    ASSUME DesksInv,
           \A d \in Desks : desk'[d].creating = desk[d].creating \/ desk'[d].creating = 0,
           \A d \in Desks : desk'[d].creating # 0 => maker'[desk[d].creating].pc \notin {"idle", "done"},
           \A d \in Desks : \/ desk'[d].record = desk[d].record /\ desk'[d].result = desk[d].result
                            \/ desk'[d].result = NoLot \/ desk'[d].record \in {NoLot, desk'[d].result}
    PROVE  DesksInv'
  <1>1. ASSUME NEW d \in Desks
        PROVE  /\ desk'[d].creating # 0 => maker'[desk'[d].creating].pc \notin {"idle", "done"}
               /\ desk'[d].result = NoLot \/ desk'[d].record \in {NoLot, desk'[d].result}
    BY DEF DesksInv
  <1>2. ASSUME NEW d \in Desks, NEW e \in Desks, desk'[d].creating = desk'[e].creating, desk'[d].creating # 0
        PROVE  d = e
    BY <1>2 DEF DesksInv
  <1>3. QED BY <1>1, <1>2 DEF DesksInv, Running

\* The requests that are left are of the same lotteries; nobody may wait for some of them.
LEMMA AsksRest ==
    ASSUME AsksInv, SameMints,
           \A q \in asks' : (\E p \in asks : p.lot = q.lot /\ p.from = q.from) \/ (q.from = None /\ q.lot # NoLot),
           \A q \in asks' : q.from \in Desks => desk'[q.from].reconciling,
           \A p, q \in asks' : p.from = q.from /\ p.from \in Desks => p = q
    PROVE  AsksInv'
  <1>1. ASSUME NEW q \in asks'
        PROVE  /\ q.lot # NoLot
               /\ q.from \in Makers => maker'[q.from].tx # 0 /\ maker'[q.from].lot = q.lot
    <2>1. CASE \E p \in asks : p.lot = q.lot /\ p.from = q.from BY <2>1 DEF AsksInv, SameMints
    <2>2. CASE q.from = None /\ q.lot # NoLot
      <3>1. None \notin Makers BY AdminAssumption DEF Makers
      <3>2. QED BY <2>2, <3>1
    <2>3. QED BY <2>1, <2>2
  <1>2. QED BY <1>1 DEF AsksInv

\* Lotteries stay on the head.
LotteriesStay == \A o \in utxo : o.kind = "lottery" => o \in utxo'

LEMMA MissingStays ==
    ASSUME MissingInv, AdminTypes, LotteriesStay, misheard' \in Nat, misheard <= misheard',
           \A l \in InHand' : l \in InHand \/ l = NoLot
    PROVE  MissingInv'
  <1>1. PICK S, T : S = Missing /\ T = Missing' OBVIOUS
  <1>2. T \in SUBSET S
    <2>1. \A l \in T : l \in InHand' /\ l # NoLot /\ ~\E o \in utxo' : o.kind = "lottery" /\ o.lot = l
      BY <1>1 DEF Missing
    <2>2. \A l \in T : l \in S BY <1>1, <2>1 DEF Missing, LotteriesStay
    <2>3. QED BY <2>2
  <1>3. IsFiniteSet(T) /\ Cardinality(T) <= Cardinality(S) /\ Cardinality(T) \in Nat /\ Cardinality(S) \in Nat
    BY <1>1, <1>2, FS_Subset, FS_CardinalityType DEF MissingInv
  <1>4. PICK k, n : k = misheard /\ n = misheard' OBVIOUS
  <1>5. k \in Nat /\ n \in Nat /\ k <= n /\ Cardinality(S) <= k BY <1>1, <1>4 DEF MissingInv, AdminTypes
  <1>6. Cardinality(T) <= n BY <1>3, <1>5
  <1>7. QED BY <1>1, <1>3, <1>4, <1>6 DEF MissingInv

\* A step orphans no more mints than it counts.
LEMMA OrphansMove ==
    ASSUME OrphansInv, AdminTypes, unheard' \in Nat, dropped' \in Nat, misheard' \in Nat,
           NEW N, IsFiniteSet(N),
           \A m \in Makers : Orphaned(m)' => Orphaned(m) \/ m \in N,
           unheard + dropped + misheard + Cardinality(N) <= unheard' + dropped' + misheard'
    PROVE  OrphansInv'
  <1>1. PICK S, T : S = Orphans /\ T = Orphans' OBVIOUS
  <1>2. IsFiniteSet(S)
    <2>1. S \in SUBSET Makers BY <1>1 DEF Orphans
    <2>2. QED BY <2>1, AdminNumbers, FS_Subset
  <1>3. T \subseteq S \cup N BY <1>1 DEF Orphans
  <1>4. Cardinality(T) <= Cardinality(S) + Cardinality(N)
        /\ Cardinality(T) \in Nat /\ Cardinality(S) \in Nat /\ Cardinality(N) \in Nat
    BY <1>2, <1>3, CountGrows
  <1>5. PICK a, b, c, x, y, z : a = unheard /\ b = dropped /\ c = misheard
                                /\ x = unheard' /\ y = dropped' /\ z = misheard'
    OBVIOUS
  <1>6. a \in Nat /\ b \in Nat /\ c \in Nat /\ x \in Nat /\ y \in Nat /\ z \in Nat
    BY <1>5 DEF AdminTypes
  <1>7. Cardinality(S) <= a + b + c BY <1>1, <1>5 DEF OrphansInv
  <1>8. a + b + c + Cardinality(N) <= x + y + z BY <1>5
  <1>9. Cardinality(T) <= x + y + z BY <1>4, <1>6, <1>7, <1>8
  <1>10. QED BY <1>1, <1>5, <1>9 DEF OrphansInv

LEMMA OrphansStay ==
    ASSUME OrphansInv, AdminTypes, unheard' = unheard, dropped' = dropped, misheard' = misheard,
           \A m \in Makers : Orphaned(m)' => Orphaned(m)
    PROVE  OrphansInv'
  <1>1. PICK N : N = {} OBVIOUS
  <1>2. IsFiniteSet(N) /\ Cardinality(N) = 0 BY <1>1, NoneOrOne
  <1>3. unheard \in Nat /\ dropped \in Nat /\ misheard \in Nat BY DEF AdminTypes
  <1>4. unheard + dropped + misheard + Cardinality(N) <= unheard' + dropped' + misheard' BY <1>2, <1>3
  <1>5. unheard' \in Nat /\ dropped' \in Nat /\ misheard' \in Nat BY <1>3
  <1>6. QED BY <1>2, <1>4, <1>5, OrphansMove

\* One answer is lost, or one record dropped, and one mint is orphaned.
LEMMA OrphansLose ==
    ASSUME OrphansInv, AdminTypes, NEW n,
           misheard' = misheard, unheard' \in Nat, dropped' \in Nat,
           unheard <= unheard', dropped <= dropped', unheard < unheard' \/ dropped < dropped',
           \A m \in Makers : Orphaned(m)' => Orphaned(m) \/ m = n
    PROVE  OrphansInv'
  <1>1. PICK N : N = {n} OBVIOUS
  <1>2. IsFiniteSet(N) /\ Cardinality(N) = 1 BY <1>1, NoneOrOne
  <1>3. PICK a, b, c, x, y : a = unheard /\ b = dropped /\ c = misheard /\ x = unheard' /\ y = dropped' OBVIOUS
  <1>4. a \in Nat /\ b \in Nat /\ c \in Nat /\ x \in Nat /\ y \in Nat BY <1>3 DEF AdminTypes
  <1>5. a <= x /\ b <= y /\ (a < x \/ b < y) BY <1>3
  <1>6. a + b + c + 1 <= x + y + c BY <1>4, <1>5
  <1>7. unheard + dropped + misheard + Cardinality(N) <= unheard' + dropped' + misheard' BY <1>2, <1>3, <1>6
  <1>8. misheard' \in Nat BY <1>3, <1>4
  <1>9. QED BY <1>1, <1>2, <1>7, <1>8, OrphansMove

\* No script starts to hold a lottery, no record or result is written, and requests are not
\* of other lotteries than before.
LEMMA UndisturbedStays ==
    ASSUME Undisturbed, SpentStays, registry' = registry,
           \A m \in Makers : Active(m)' => Active(m) /\ maker'[m].lot = maker[m].lot /\ (InPool(m)' => InPool(m)),
           \A q \in asks' : \E p \in asks : p.from = q.from /\ p.lot = q.lot,
           \A p, q \in asks' : p.from = q.from => p = q,
           \A q \in asks' : q.from \in Makers => maker'[q.from].pc = "waiting",
           \A d \in Desks : desk'[d].record \in {NoLot, desk[d].record} /\ desk'[d].result \in {NoLot, desk[d].result}
    PROVE  Undisturbed'
  <1>1. Registered' = Registered BY DEF Registered
  <1>2. ASSUME NEW m \in Makers, Active(m)'
        PROVE  /\ Spent(maker[m].lot)' /\ ~InPool(m)'
               /\ maker'[m].lot = maker[m].lot
               /\ \A n \in Makers : Active(n)' /\ maker'[n].lot = maker'[m].lot => n = m
               /\ maker'[m].lot \notin Registered'
               /\ \A q \in asks' : q.lot = maker'[m].lot => q.from = m
    <2>1. Active(m) /\ maker'[m].lot = maker[m].lot BY <1>2
    <2>2. Spent(maker[m].lot) /\ ~InPool(m) /\ maker[m].lot \notin Registered BY <2>1 DEF Undisturbed
    <2>3. PICK lot : lot = maker[m].lot OBVIOUS
    <2>4. Spent(lot)' BY <2>2, <2>3 DEF SpentStays
    <2>5. lot = maker'[m].lot BY <2>1, <2>3
    <2>6. ~InPool(m)' BY <1>2, <2>2
    <2>7. \A n \in Makers : Active(n)' /\ maker'[n].lot = maker'[m].lot => n = m
      BY <2>1 DEF Undisturbed
    <2>8. \A q \in asks' : q.lot = maker'[m].lot => q.from = m BY <2>1 DEF Undisturbed
    <2>9. QED BY <1>1, <2>1, <2>2, <2>3, <2>4, <2>5, <2>6, <2>7, <2>8 DEF Spent
  <1>3. \A m \in Makers : Active(m)' =>
           \A d \in Desks : desk'[d].record # maker'[m].lot /\ desk'[d].result # maker'[m].lot
    <2>1. ASSUME NEW m \in Makers, Active(m)', NEW d \in Desks
          PROVE  desk'[d].record # maker'[m].lot /\ desk'[d].result # maker'[m].lot
      <3>1. Active(m) /\ maker'[m].lot = maker[m].lot BY <2>1
      <3>2. desk[d].record # maker[m].lot /\ desk[d].result # maker[m].lot /\ Spent(maker[m].lot)
        BY <3>1 DEF Undisturbed
      <3>3. maker[m].lot # NoLot BY <3>2 DEF Spent, NoLot
      <3>4. QED BY <3>1, <3>2, <3>3
    <2>2. QED BY <2>1
  <1>4. \A q \in asks' : q.from # None /\ Spent(q.lot)' BY DEF Undisturbed, SpentStays
  <1>5. \A l \in Registered' : Spent(l)' BY <1>1 DEF Undisturbed, SpentStays
  <1>6. ASSUME NEW d \in Desks
        PROVE  /\ desk'[d].result # NoLot => Spent(desk[d].result)' /\ desk'[d].result = desk[d].result
               /\ desk'[d].record # NoLot =>
                     /\ Spent(desk[d].record)' /\ desk'[d].record = desk[d].record /\ desk'[d].record \notin Registered'
                     /\ \A q \in asks' : q.lot = desk'[d].record => q.from = d
                     /\ \A e \in Desks \ {d} : desk'[e].record # desk'[d].record /\ desk'[e].result # desk'[d].record
    <2>1. PICK a, b : a = desk[d].record /\ b = desk[d].result OBVIOUS
    <2>2. desk'[d].record \in {NoLot, a} /\ desk'[d].result \in {NoLot, b} BY <2>1
    <2>3. b # NoLot => Spent(b) BY <2>1 DEF Undisturbed
    <2>4. a # NoLot => /\ Spent(a) /\ a \notin Registered
                       /\ \A q \in asks : q.lot = a => q.from = d
                       /\ \A e \in Desks \ {d} : desk[e].record # a /\ desk[e].result # a
      BY <2>1 DEF Undisturbed
    <2>5. b # NoLot => Spent(b)' BY <2>3 DEF SpentStays
    <2>6. a # NoLot => Spent(a)' BY <2>4 DEF SpentStays
    <2>7. desk'[d].result # NoLot => Spent(desk[d].result)' /\ desk'[d].result = desk[d].result
      <3>1. SUFFICES ASSUME desk'[d].result # NoLot PROVE Spent(desk[d].result)' /\ desk'[d].result = desk[d].result
        OBVIOUS
      <3>2. b # NoLot /\ desk'[d].result = b BY <2>2, <3>1
      <3>3. QED BY <2>1, <2>5, <3>2 DEF Spent
    <2>8. desk'[d].record # NoLot => Spent(desk[d].record)' /\ desk'[d].record = desk[d].record
      <3>1. SUFFICES ASSUME desk'[d].record # NoLot PROVE Spent(desk[d].record)' /\ desk'[d].record = desk[d].record
        OBVIOUS
      <3>2. a # NoLot /\ desk'[d].record = a BY <2>2, <3>1
      <3>3. QED BY <2>1, <2>6, <3>2 DEF Spent
    <2>9. desk'[d].record # NoLot =>
             /\ desk'[d].record \notin Registered'
             /\ \A q \in asks' : q.lot = desk'[d].record => q.from = d
             /\ \A e \in Desks \ {d} : desk'[e].record # desk'[d].record /\ desk'[e].result # desk'[d].record
      BY <1>1, <2>2, <2>4
    <2>10. QED BY <2>7, <2>8, <2>9
  <1>7. QED BY <1>2, <1>3, <1>4, <1>5, <1>6 DEF Undisturbed

-----------------------------------------------------------------------------
(* The steps of a desk and of a script *)

\* The step leaves operations and the registry alone.
OrdersAside == UNCHANGED <<order, jobs, orders, rushed>>

LEMMA OrdersRest == ASSUME AdminTypes, OrdersInv, OrdersAside PROVE OrdersInv'
  <1>1. orders' \in {orders, orders + 1} /\ \A r \in Orders : order'[r].pc = order[r].pc /\ order'[r].op = order[r].op
    BY DEF OrdersAside
  <1>2. QED BY <1>1, OrdersStay DEF OrdersAside

LEMMA CreateClicked ==
    ASSUME AdminTypes, MakersInv, NEW d \in Desks, ClickCreate(d)
    PROVE  \E m \in Makers :
              /\ m = creates + 1 /\ creates' = m /\ m <= MaxCreates /\ maker[m].pc = "idle" /\ maker'[m].pc = "mint"
              /\ maker' \in [Makers -> MakerState] /\ desk' \in [Desks -> DeskState]
              /\ SameMints /\ \A n \in Makers \ {m} : maker'[n] = maker[n]
              /\ desk'[d].creating = m /\ desk'[d].result = NoLot /\ desk'[d].record = desk[d].record
              /\ desk'[d].reconciling = desk[d].reconciling
              /\ \A e \in Desks \ {d} : desk'[e] = desk[e]
  <1>1. PICK m : m = creates + 1 OBVIOUS
  <1>2. creates \in Nat /\ MaxCreates \in Nat /\ creates < MaxCreates BY AdminNumbers DEF ClickCreate
  <1>3. m \in Makers /\ m <= MaxCreates /\ m > creates BY <1>1, <1>2 DEF Makers
  <1>4. maker[m].pc = "idle" BY <1>3 DEF MakersInv
  <1>5. /\ creates' = m /\ maker' = [maker EXCEPT ![m].pc = "mint"]
        /\ desk' = [desk EXCEPT ![d].creating = m, ![d].result = NoLot]
    BY <1>1 DEF ClickCreate
  <1>6. maker' \in [Makers -> MakerState] /\ maker'[m].pc = "mint" /\ SameMints
        /\ \A n \in Makers \ {m} : maker'[n] = maker[n]
    BY <1>3, <1>5 DEF AdminTypes, MakerState, SameMints
  <1>7. m \in 0..MaxCreates /\ NoLot \in Int BY <1>1, <1>2, <1>3 DEF NoLot
  <1>8. /\ desk' \in [Desks -> DeskState] /\ desk'[d].creating = m /\ desk'[d].result = NoLot
        /\ desk'[d].record = desk[d].record /\ desk'[d].reconciling = desk[d].reconciling
        /\ \A e \in Desks \ {d} : desk'[e] = desk[e]
    <2>1. PICK none : none = NoLot OBVIOUS
    <2>2. PICK new1 : new1 = [desk[d] EXCEPT !.creating = m] OBVIOUS
    <2>3. desk[d] \in DeskState BY AdminNumbers
    <2>4. new1 \in DeskState /\ new1.creating = m /\ new1.record = desk[d].record
          /\ new1.reconciling = desk[d].reconciling
      BY <1>7, <2>2, <2>3 DEF DeskState
    <2>5. PICK new2 : new2 = [new1 EXCEPT !.result = none] OBVIOUS
    <2>6. new2 \in DeskState /\ new2.creating = m /\ new2.result = none /\ new2.record = desk[d].record
          /\ new2.reconciling = desk[d].reconciling
      BY <1>7, <2>1, <2>4, <2>5 DEF DeskState
    <2>7. desk' = [desk EXCEPT ![d] = new2] BY <1>5, <2>1, <2>2, <2>5 DEF AdminTypes
    <2>8. QED BY <2>1, <2>6, <2>7 DEF AdminTypes
  <1>9. QED BY <1>1, <1>3, <1>4, <1>5, <1>6, <1>8

LEMMA ClickCreateKeeps ==
    ASSUME AdminInv, NEW d \in Desks, ClickCreate(d)
    PROVE  AdminInv'
  <1>1. /\ AdminHeads /\ LotteriesInv /\ AdminTypes /\ OrdersInv /\ RegistryInv
        /\ MakersInv /\ DesksInv /\ AsksInv /\ MissingInv /\ OrphansInv /\ RecordsInv
    BY DEF AdminInv
  <1>2. /\ desk[d].creating = 0
        /\ UNCHANGED <<headVars, asks, registry, order, jobs, orders, faults, unheard, dropped, misheard, overlaps, rushed>>
    BY DEF ClickCreate
  <1>3. PICK m \in Makers :
              /\ m = creates + 1 /\ creates' = m /\ m <= MaxCreates /\ maker[m].pc = "idle" /\ maker'[m].pc = "mint"
              /\ maker' \in [Makers -> MakerState] /\ desk' \in [Desks -> DeskState]
              /\ SameMints /\ \A n \in Makers \ {m} : maker'[n] = maker[n]
              /\ desk'[d].creating = m /\ desk'[d].result = NoLot /\ desk'[d].record = desk[d].record
              /\ desk'[d].reconciling = desk[d].reconciling
              /\ \A e \in Desks \ {d} : desk'[e] = desk[e]
    BY <1>1, CreateClicked
  <1>4. m \in Nat \ {0} /\ creates \in Nat /\ MaxCreates \in Nat BY <1>1, AdminNumbers
  <1>5. HeadsRest BY <1>2 DEF HeadsRest, headVars
  <1>6. AdminHeads' /\ LotteriesInv' /\ SpentStays BY <1>1, <1>3, <1>5, RestKeeps
  <1>7. creates' \in 0..MaxCreates /\ creates <= creates' /\ creates' \in Nat BY <1>3, <1>4
  <1>8. MakersInv'
    <2>1. \A n \in Makers : Moves(n) BY <1>3, <1>4 DEF Moves
    <2>2. QED BY <1>1, <1>3, <1>5, <1>7, <2>1, MakersRest
  <1>9. AdminTypes' BY <1>1, <1>2, <1>3, <1>7 DEF AdminTypes
  <1>10. OrdersInv' BY <1>1, <1>2, OrdersRest DEF OrdersAside
  <1>11. RegistryInv' BY <1>1, <1>2 DEF RegistryInv, Inserting, Registered
  <1>12. DesksInv'
    <2>1. \A e \in Desks : desk[e].creating # m BY <1>1, <1>3, <1>4 DEF DesksInv, Running
    <2>2. ASSUME NEW e \in Desks
          PROVE  /\ desk'[e].creating # 0 => maker'[desk'[e].creating].pc \notin {"idle", "done"}
                 /\ desk'[e].result = NoLot \/ desk'[e].record \in {NoLot, desk'[e].result}
      <3>1. CASE e = d BY <1>3, <3>1
      <3>2. CASE e # d
        <4>1. desk'[e] = desk[e] BY <1>3, <3>2
        <4>2. desk[e].creating # 0 => desk[e].creating \in Makers /\ desk[e].creating # m
          <5>1. desk[e].creating \in 0..MaxCreates /\ MaxCreates \in Nat
            BY <1>1, AdminNumbers DEF DeskState
          <5>2. QED BY <2>1, <5>1 DEF Makers
        <4>3. QED BY <1>1, <1>3, <4>1, <4>2 DEF DesksInv, Running
      <3>3. QED BY <3>1, <3>2
    <2>3. \A e, f \in Desks : desk'[e].creating = desk'[f].creating /\ desk'[e].creating # 0 => e = f
      BY <1>1, <1>3, <2>1 DEF DesksInv
    <2>4. QED BY <2>2, <2>3 DEF DesksInv, Running
  <1>13. AsksInv'
    <2>1. \A e \in Desks : desk'[e].reconciling = desk[e].reconciling BY <1>3
    <2>2. asks' = asks /\ SameMints BY <1>2, <1>3
    <2>3. \A q \in asks' : q.from \in Desks => desk'[q.from].reconciling BY <1>1, <2>1, <2>2 DEF AsksInv
    <2>4. \A p, q \in asks' : p.from = q.from /\ p.from \in Desks => p = q BY <1>1, <2>2 DEF AsksInv
    <2>5. \A q \in asks' : (\E p \in asks : p.lot = q.lot /\ p.from = q.from) \/ (q.from = None /\ q.lot # NoLot)
      BY <2>2
    <2>6. QED BY <1>1, <2>2, <2>3, <2>4, <2>5, AsksRest
  <1>14. MissingInv'
    <2>1. \A l \in InHand' : l \in InHand \/ l = NoLot BY <1>2, <1>3 DEF InHand, Active, Registered
    <2>2. misheard' \in Nat /\ misheard <= misheard' BY <1>1, <1>2, AdminNumbers
    <2>3. LotteriesStay BY <1>5 DEF LotteriesStay, HeadsRest
    <2>4. QED BY <1>1, <2>1, <2>2, <2>3, MissingStays
  <1>15. OrphansInv'
    <2>1. ASSUME NEW n \in Makers, Orphaned(n)' PROVE Orphaned(n)
      <3>1. CASE n = m
        <4>1. maker[m].tx = 0 /\ maker'[m].tx = 0 BY <1>1, <1>3 DEF MakersInv, SameMints
        <4>2. AtDesk(m)' BY <1>3 DEF AtDesk
        <4>3. ~InPool(m)' BY <1>5, <1>1, <4>1 DEF InPool, AdminHeads, AdminTx, HeadsRest
        <4>4. ~Minted(m)' BY <1>1, <1>5, <4>1 DEF Minted, LotteriesInv, HeadsRest
        <4>5. QED BY <2>1, <3>1, <4>2, <4>3, <4>4 DEF Orphaned
      <3>2. CASE n # m
        <4>1. maker'[n] = maker[n] BY <1>3, <3>2
        <4>2. AtDesk(n) => AtDesk(n)'
          <5>1. n # 0 BY <1>1, AdminNumbers
          <5>2. QED BY <1>2, <1>3, <5>1 DEF AtDesk
        <4>3. InPool(n)' = InPool(n) /\ Minted(n)' = Minted(n) BY <1>5, <4>1 DEF InPool, Minted, HeadsRest
        <4>4. Kept(maker[n].lot) => Kept(maker[n].lot)' BY <1>2, <1>3, <4>1 DEF Kept, Registered
        <4>5. QED BY <2>1, <4>1, <4>2, <4>3, <4>4 DEF Orphaned, Running
      <3>3. QED BY <3>1, <3>2
    <2>2. QED BY <1>1, <1>2, <2>1, OrphansStay
  <1>16. RecordsInv'
    <2>1. SUFFICES ASSUME unheard' + misheard' = 0 PROVE Undisturbed' BY DEF RecordsInv
    <2>2. Undisturbed BY <1>1, <1>2, <2>1 DEF RecordsInv
    <2>3. ASSUME NEW n \in Makers, Active(n)'
          PROVE  Active(n) /\ maker'[n].lot = maker[n].lot /\ (InPool(n)' => InPool(n))
      <3>1. n # m BY <1>3, <2>3 DEF Active
      <3>2. maker'[n] = maker[n] BY <1>3, <3>1
      <3>3. QED BY <1>5, <2>3, <3>2 DEF Active, InPool, HeadsRest
    <2>4. \A q \in asks' : q.from \in Makers => maker'[q.from].pc = "waiting"
      <3>1. \A q \in asks : q.from \in Makers => maker[q.from].pc = "waiting" BY <2>2 DEF Undisturbed
      <3>2. QED BY <1>2, <1>3, <3>1
    <2>5. \A e \in Desks : desk'[e].record \in {NoLot, desk[e].record} /\ desk'[e].result \in {NoLot, desk[e].result}
      BY <1>3
    <2>6. \A p, q \in asks' : p.from = q.from => p = q BY <1>2, <2>2 DEF Undisturbed
    <2>7. \A q \in asks' : \E p \in asks : p.from = q.from /\ p.lot = q.lot BY <1>2
    <2>8. registry' = registry BY <1>2
    <2>9. QED BY <1>6, <2>2, <2>3, <2>4, <2>5, <2>6, <2>7, <2>8, UndisturbedStays
  <1>17. QED BY <1>6, <1>8, <1>9, <1>10, <1>11, <1>12, <1>13, <1>14, <1>15, <1>16 DEF AdminInv

LEMMA SendMintKeeps ==
    ASSUME AdminInv, NEW m \in Makers, SendMint(m)
    PROVE  AdminInv'
  <1>1. /\ AdminHeads /\ LotteriesInv /\ AdminTypes /\ OrdersInv /\ RegistryInv
        /\ MakersInv /\ DesksInv /\ AsksInv /\ MissingInv /\ OrphansInv /\ RecordsInv
    BY DEF AdminInv
  <1>2. UNCHANGED <<desk, asks, registry, order, jobs, creates, orders, faults, unheard, dropped, misheard, overlaps, rushed>>
    BY DEF SendMint
  <1>3. AdminHeads' /\ LotteriesInv' /\ MakersInv' /\ maker' \in [Makers -> MakerState] /\ SpentStays /\ Mints(m)
    BY <1>1, MintSends
  <1>4. /\ maker[m].pc = "mint" /\ maker'[m].pc = "await" /\ maker'[m].tx = sent + 1
        /\ \A n \in Makers \ {m} : maker'[n] = maker[n]
        /\ utxo' = utxo /\ \A t \in pool' : t \in pool \/ t.id = sent + 1
    BY <1>3 DEF Mints
  <1>5. sent \in Nat /\ maker[m].tx = 0 /\ \A n \in Makers : maker[n].tx \in 0..sent
    BY <1>1, <1>4, HeadAssumption DEF AdminHeads, MakersInv
  <1>6. AdminTypes' BY <1>1, <1>2, <1>3 DEF AdminTypes
  <1>7. OrdersInv' BY <1>1, <1>2, OrdersRest DEF OrdersAside
  <1>8. RegistryInv' BY <1>1, <1>2 DEF RegistryInv, Inserting, Registered
  <1>9. DesksInv'
    <2>1. \A d \in Desks : desk[d].creating # 0 => desk[d].creating \in Makers
      <3>1. \A d \in Desks : desk[d].creating \in 0..MaxCreates BY <1>1, AdminNumbers DEF DeskState
      <3>2. MaxCreates \in Nat BY <1>1, AdminNumbers
      <3>3. QED BY <3>1, <3>2 DEF Makers
    <2>2. QED BY <1>1, <1>2, <1>4, <2>1 DEF DesksInv, Running
  <1>10. AsksInv' BY <1>1, <1>2, <1>4, <1>5 DEF AsksInv
  <1>11. MissingInv'
    <2>1. \A l \in InHand' : l \in InHand \/ l = NoLot BY <1>2, <1>4 DEF InHand, Active, Registered
    <2>2. misheard' \in Nat /\ misheard <= misheard' BY <1>1, <1>2, AdminNumbers
    <2>3. LotteriesStay BY <1>4 DEF LotteriesStay
    <2>4. QED BY <1>1, <2>1, <2>2, <2>3, MissingStays
  <1>12. \A n \in Makers \ {m} : InPool(n)' => InPool(n) BY <1>4, <1>5 DEF InPool
  <1>13. OrphansInv'
    <2>1. ASSUME NEW n \in Makers, Orphaned(n)' PROVE Orphaned(n)
      <3>1. CASE n = m
        <4>1. ~Minted(m)' BY <1>1, <1>4, <1>5 DEF Minted, AdminHeads
        <4>2. AtDesk(m)' = AtDesk(m) BY <1>2 DEF AtDesk
        <4>3. ~AtDesk(m) BY <1>4, <2>1, <3>1, <4>1, <4>2 DEF Orphaned
        <4>4. QED BY <1>4, <3>1, <4>3 DEF Orphaned
      <3>2. CASE n # m
        <4>1. maker'[n] = maker[n] BY <1>4, <3>2
        <4>2. AtDesk(n)' = AtDesk(n) BY <1>2 DEF AtDesk
        <4>3. Minted(n)' = Minted(n) BY <1>4, <4>1 DEF Minted
        <4>4. Kept(maker[n].lot)' = Kept(maker[n].lot) BY <1>2, <4>1 DEF Kept, Registered
        <4>5. QED BY <1>12, <2>1, <3>2, <4>1, <4>2, <4>3, <4>4 DEF Orphaned, Running
      <3>3. QED BY <3>1, <3>2
    <2>2. QED BY <1>1, <1>2, <2>1, OrphansStay
  <1>14. RecordsInv'
    <2>1. SUFFICES ASSUME unheard' + misheard' = 0 PROVE Undisturbed' BY DEF RecordsInv
    <2>2. Undisturbed BY <1>1, <1>2, <2>1 DEF RecordsInv
    <2>3. ASSUME NEW n \in Makers, Active(n)'
          PROVE  Active(n) /\ maker'[n].lot = maker[n].lot /\ (InPool(n)' => InPool(n))
      <3>1. n # m BY <1>4, <2>3 DEF Active
      <3>2. maker'[n] = maker[n] BY <1>4, <3>1
      <3>3. QED BY <1>12, <2>3, <3>1, <3>2 DEF Active
    <2>4. \A q \in asks' : q.from \in Makers => maker'[q.from].pc = "waiting"
      <3>1. \A q \in asks : q.from \in Makers => maker[q.from].pc = "waiting" BY <2>2 DEF Undisturbed
      <3>2. QED BY <1>2, <1>4, <3>1
    <2>5. \A e \in Desks : desk'[e].record \in {NoLot, desk[e].record} /\ desk'[e].result \in {NoLot, desk[e].result}
      BY <1>2
    <2>6. \A p, q \in asks' : p.from = q.from => p = q BY <1>2, <2>2 DEF Undisturbed
    <2>7. \A q \in asks' : \E p \in asks : p.from = q.from /\ p.lot = q.lot BY <1>2
    <2>8. registry' = registry BY <1>2
    <2>9. QED BY <1>3, <2>2, <2>3, <2>4, <2>5, <2>6, <2>7, <2>8, UndisturbedStays
  <1>15. QED BY <1>3, <1>6, <1>7, <1>8, <1>9, <1>10, <1>11, <1>13, <1>14 DEF AdminInv

\* The script of m is killed, or has nothing to mint.
LEMMA AbortKeeps ==
    ASSUME AdminInv, NEW m \in Makers, Abort(m), maker[m].pc # "idle",
           UNCHANGED <<headVars, asks, registry, order, jobs, creates, orders, dropped, misheard, overlaps, rushed>>,
           \/ unheard' = unheard /\ maker[m].pc = "mint"
           \/ unheard' = unheard + 1
    PROVE  AdminInv'
  <1>1. /\ AdminHeads /\ LotteriesInv /\ AdminTypes /\ OrdersInv /\ RegistryInv
        /\ MakersInv /\ DesksInv /\ AsksInv /\ MissingInv /\ OrphansInv /\ RecordsInv
    BY DEF AdminInv
  <1>2. /\ maker' \in [Makers -> MakerState] /\ desk' \in [Desks -> DeskState]
        /\ SameMints /\ Ends(m)
        /\ \A d \in Desks : desk'[d].record = desk[d].record /\ desk'[d].result = desk[d].result
    BY <1>1, AbortEnds
  <1>3. /\ maker'[m].pc = "done" /\ \A n \in Makers \ {m} : maker'[n] = maker[n]
        /\ \A d \in Desks : desk[d].creating # m => desk'[d] = desk[d]
        /\ \A d \in Desks : desk[d].creating = m => desk'[d].creating = 0 /\ desk'[d].reconciling = desk[d].reconciling
    BY <1>2 DEF Ends
  <1>4. unheard' \in Nat /\ unheard <= unheard' /\ unheard \in Nat /\ misheard \in Nat /\ dropped \in Nat /\ creates \in Nat
    BY <1>1, AdminNumbers
  <1>5. HeadsRest BY DEF HeadsRest, headVars
  <1>6. AdminHeads' /\ LotteriesInv' /\ SpentStays BY <1>1, <1>2, <1>5, RestKeeps
  <1>7. MakersInv'
    <2>1. \A n \in Makers : Moves(n) BY <1>3 DEF Moves
    <2>2. QED BY <1>1, <1>2, <1>4, <1>5, <2>1, MakersRest
  <1>8. AdminTypes' BY <1>1, <1>2, <1>4 DEF AdminTypes
  <1>9. OrdersInv' BY <1>1, OrdersRest DEF OrdersAside
  <1>10. RegistryInv' BY <1>1 DEF RegistryInv, Inserting, Registered
  <1>11. DesksInv'
    <2>1. \A d \in Desks : desk[d].creating # 0 => desk[d].creating \in Makers
      <3>1. \A d \in Desks : desk[d].creating \in 0..MaxCreates BY <1>1, AdminNumbers DEF DeskState
      <3>2. MaxCreates \in Nat BY <1>1, AdminNumbers
      <3>3. QED BY <3>1, <3>2 DEF Makers
    <2>2. \A d \in Desks : desk'[d].creating # 0 => maker'[desk[d].creating].pc \notin {"idle", "done"}
      BY <1>1, <1>3, <2>1 DEF DesksInv, Running
    <2>3. \A d \in Desks : desk'[d].creating = desk[d].creating \/ desk'[d].creating = 0 BY <1>3
    <2>4. QED BY <1>1, <1>2, <2>2, <2>3, DesksRest
  <1>12. AsksInv'
    <2>1. \A d \in Desks : desk'[d].reconciling = desk[d].reconciling BY <1>3
    <2>2. QED BY <1>1, <1>2, <2>1 DEF AsksInv, SameMints
  <1>13. MissingInv'
    <2>1. \A l \in InHand' : l \in InHand \/ l = NoLot BY <1>2, <1>3 DEF InHand, Active, Registered
    <2>2. misheard' \in Nat /\ misheard <= misheard' BY <1>4
    <2>3. LotteriesStay BY <1>5 DEF LotteriesStay, HeadsRest
    <2>4. QED BY <1>1, <2>1, <2>2, <2>3, MissingStays
  <1>14. ASSUME NEW n \in Makers, n # m
         PROVE  Orphaned(n)' => Orphaned(n)
    <2>1. maker'[n] = maker[n] BY <1>3, <1>14
    <2>2. AtDesk(n)' = AtDesk(n)
      <3>1. n # 0 BY <1>1, AdminNumbers
      <3>2. QED BY <1>3, <1>14, <3>1 DEF AtDesk
    <2>3. InPool(n)' = InPool(n) /\ Minted(n)' = Minted(n) BY <1>5, <2>1 DEF InPool, Minted, HeadsRest
    <2>4. Kept(maker[n].lot)' = Kept(maker[n].lot) BY <1>2, <2>1 DEF Kept, Registered
    <2>5. QED BY <2>1, <2>2, <2>3, <2>4 DEF Orphaned, Running
  <1>15. OrphansInv'
    <2>1. CASE unheard' = unheard /\ maker[m].pc = "mint"
      <3>1. maker'[m].tx = 0 BY <1>1, <1>2, <2>1 DEF MakersInv, SameMints
      <3>2. ~InPool(m)' BY <1>1, <1>5, <3>1 DEF InPool, AdminHeads, AdminTx, HeadsRest
      <3>3. ~Minted(m)' BY <1>1, <1>5, <3>1 DEF Minted, LotteriesInv, HeadsRest
      <3>4. \A n \in Makers : Orphaned(n)' => Orphaned(n) BY <1>3, <1>14, <3>2, <3>3 DEF Orphaned
      <3>5. QED BY <1>1, <2>1, <3>4, OrphansStay
    <2>2. CASE unheard' = unheard + 1
      <3>1. unheard < unheard' /\ dropped <= dropped' /\ dropped' \in Nat BY <1>4, <2>2
      <3>2. \A n \in Makers : Orphaned(n)' => Orphaned(n) \/ n = m BY <1>14
      <3>3. QED BY <1>1, <1>4, <3>1, <3>2, OrphansLose
    <2>3. QED BY <2>1, <2>2
  <1>16. RecordsInv'
    <2>1. SUFFICES ASSUME unheard' + misheard' = 0 PROVE Undisturbed' BY DEF RecordsInv
    <2>2. unheard' = unheard /\ maker[m].pc = "mint" BY <1>4, <2>1
    <2>3. Undisturbed BY <1>1, <2>1, <2>2 DEF RecordsInv
    <2>4. ASSUME NEW n \in Makers, Active(n)'
          PROVE  Active(n) /\ maker'[n].lot = maker[n].lot /\ (InPool(n)' => InPool(n))
      <3>1. n # m BY <1>3, <2>4 DEF Active
      <3>2. maker'[n] = maker[n] BY <1>3, <3>1
      <3>3. QED BY <1>5, <2>4, <3>2 DEF Active, InPool, HeadsRest
    <2>5. \A q \in asks' : q.from \in Makers => maker'[q.from].pc = "waiting"
      <3>1. \A q \in asks : q.from \in Makers => maker[q.from].pc = "waiting" BY <2>3 DEF Undisturbed
      <3>2. QED BY <1>3, <2>2, <3>1
    <2>6. \A p, q \in asks' : p.from = q.from => p = q BY <2>3 DEF Undisturbed
    <2>7. \A q \in asks' : \E p \in asks : p.from = q.from /\ p.lot = q.lot OBVIOUS
    <2>8. QED BY <1>2, <1>6, <2>3, <2>4, <2>5, <2>6, <2>7, UndisturbedStays
  <1>17. QED BY <1>6, <1>7, <1>8, <1>9, <1>10, <1>11, <1>12, <1>13, <1>15, <1>16 DEF AdminInv

\* The one script that waits for its mint hears that it is on the head.
LEMMA MintUndisturbed ==
    ASSUME AdminHeads, AdminTypes, LotteriesInv, LotteriesInv', SpentStays, MakersInv, Undisturbed,
           SameMints, NEW t \in pool, Judged(t), Accepts(t), Heard(t), UNCHANGED <<asks, registry>>,
           NEW m \in Makers, maker[m].pc = "await", maker[m].tx = t.id,
           \A n \in Makers : maker[n].pc = "await" => n = m
    PROVE  Undisturbed'
  <1>1. PICK lot : lot = maker[m].lot OBVIOUS
  <1>2. pool' = pool \ {t} /\ utxo' = (utxo \ t.spends) \cup t.makes /\ t.spends \subseteq utxo BY DEF Judged
  <1>3. ~Spent(lot)
    <2>1. PICK o \in t.spends : TokenOf(o) = lot BY <1>1 DEF MakersInv
    <2>2. o \in utxo /\ o.kind = "coin" BY <1>2, <2>1 DEF AdminHeads, AdminTx
    <2>3. QED BY <2>1, <2>2 DEF Spent
  <1>4. Spent(lot)'
    <2>1. PICK o \in t.makes : o.kind = "lottery" /\ o.lot = lot BY <1>1 DEF MakersInv
    <2>2. o \in utxo' BY <1>2, <2>1
    <2>3. Spent(o.lot)' BY <2>1, <2>2 DEF LotteriesInv
    <2>4. QED BY <2>1, <2>3
  <1>5. lot # NoLot BY <1>4 DEF Spent, NoLot
  <1>6. /\ maker'[m].pc = "register" /\ maker'[m].lot = lot /\ maker'[m].tx = t.id
        /\ \A n \in Makers \ {m} : maker'[n] = maker[n]
        /\ \A d \in Desks : desk'[d].record = desk[d].record /\ desk'[d].result = desk[d].result
    BY <1>1 DEF Heard, SameMints
  <1>7. Registered' = Registered BY DEF Registered
  <1>8. ~InPool(m)' BY <1>2, <1>6 DEF InPool, AdminHeads
  <1>9. \A n \in Makers : InPool(n)' => InPool(n) BY <1>2 DEF InPool, SameMints
  <1>10. \A n \in Makers \ {m} : Active(n)' => Active(n) /\ maker'[n].lot = maker[n].lot BY <1>6 DEF Active
  <1>11. \A n \in Makers : Active(n) => Spent(maker[n].lot) /\ maker[n].lot # lot BY <1>3 DEF Undisturbed
  <1>12. ASSUME NEW n \in Makers, Active(n)'
         PROVE  /\ Spent(maker[n].lot)' /\ ~InPool(n)'
                /\ \A p \in Makers : Active(p)' /\ maker'[p].lot = maker'[n].lot => p = n
                /\ maker'[n].lot \notin Registered'
                /\ \A d \in Desks : desk'[d].record # maker'[n].lot /\ desk'[d].result # maker'[n].lot
                /\ \A q \in asks' : q.lot = maker'[n].lot => q.from = n
    <2>1. CASE n = m
      <3>1. Spent(maker[n].lot)' BY <1>4, <1>6, <2>1 DEF Spent
      <3>2. \A p \in Makers : Active(p)' /\ maker'[p].lot = lot => p = m BY <1>10, <1>11
      <3>3. lot \notin Registered BY <1>3 DEF Undisturbed
      <3>4. \A d \in Desks : desk[d].record # lot /\ desk[d].result # lot BY <1>3, <1>5 DEF Undisturbed
      <3>5. \A q \in asks : q.lot # lot BY <1>3 DEF Undisturbed
      <3>6. QED BY <1>6, <1>7, <1>8, <2>1, <3>1, <3>2, <3>3, <3>4, <3>5
    <2>2. CASE n # m
      <3>1. Active(n) /\ maker'[n].lot = maker[n].lot BY <1>10, <1>12, <2>2
      <3>2. PICK k : k = maker[n].lot OBVIOUS
      <3>3. Spent(k) /\ ~InPool(n) /\ k \notin Registered /\ k # lot BY <1>11, <3>1, <3>2 DEF Undisturbed
      <3>4. Spent(k)' /\ k = maker'[n].lot BY <3>1, <3>2, <3>3 DEF SpentStays
      <3>5. Spent(maker[n].lot)' BY <3>4 DEF Spent
      <3>6. \A p \in Makers : Active(p)' /\ maker'[p].lot = k => p = n
        BY <1>6, <1>10, <3>1, <3>2, <3>3 DEF Undisturbed
      <3>7. \A d \in Desks : desk[d].record # k /\ desk[d].result # k BY <3>1, <3>2 DEF Undisturbed
      <3>8. \A q \in asks : q.lot = k => q.from = n BY <3>1, <3>2 DEF Undisturbed
      <3>9. QED BY <1>6, <1>7, <1>9, <3>3, <3>4, <3>5, <3>6, <3>7, <3>8
    <2>3. QED BY <2>1, <2>2
  <1>13. \A q \in asks' : q.from \in Makers => maker'[q.from].pc = "waiting"
    <2>1. \A q \in asks : q.from \in Makers => maker[q.from].pc = "waiting" BY DEF Undisturbed
    <2>2. QED BY <1>6, <2>1
  <1>14. \A p, q \in asks' : p.from = q.from => p = q BY DEF Undisturbed
  <1>15. \A q \in asks' : q.from # None /\ Spent(q.lot)' BY DEF Undisturbed, SpentStays
  <1>16. \A l \in Registered' : Spent(l)' BY <1>7 DEF Undisturbed, SpentStays
  <1>17. ASSUME NEW d \in Desks
         PROVE  /\ desk'[d].result # NoLot => Spent(desk[d].result)'
                /\ desk'[d].record # NoLot =>
                      /\ Spent(desk[d].record)' /\ desk'[d].record \notin Registered'
                      /\ \A q \in asks' : q.lot = desk'[d].record => q.from = d
                      /\ \A e \in Desks \ {d} : desk'[e].record # desk'[d].record /\ desk'[e].result # desk'[d].record
    <2>1. PICK a, b : a = desk[d].record /\ b = desk[d].result OBVIOUS
    <2>2. a = desk'[d].record /\ b = desk'[d].result BY <1>6, <2>1
    <2>3. b # NoLot => Spent(b) BY <2>1 DEF Undisturbed
    <2>4. a # NoLot => /\ Spent(a) /\ a \notin Registered
                       /\ \A q \in asks : q.lot = a => q.from = d
                       /\ \A e \in Desks \ {d} : desk[e].record # a /\ desk[e].result # a
      BY <2>1 DEF Undisturbed
    <2>5. b # NoLot => Spent(b)' BY <2>3 DEF SpentStays
    <2>6. a # NoLot => Spent(a)' BY <2>4 DEF SpentStays
    <2>7. desk'[d].result # NoLot => Spent(desk[d].result)' BY <2>2, <2>5 DEF Spent
    <2>8. desk'[d].record # NoLot => Spent(desk[d].record)' BY <2>2, <2>6 DEF Spent
    <2>9. desk'[d].record # NoLot =>
             /\ desk'[d].record \notin Registered'
             /\ \A q \in asks' : q.lot = desk'[d].record => q.from = d
             /\ \A e \in Desks \ {d} : desk'[e].record # desk'[d].record /\ desk'[e].result # desk'[d].record
      BY <1>6, <1>7, <2>2, <2>4
    <2>10. QED BY <2>7, <2>8, <2>9
  <1>18. QED BY <1>12, <1>13, <1>14, <1>15, <1>16, <1>17 DEF Undisturbed

LEMMA HearMintKeeps ==
    ASSUME AdminInv, NEW t \in pool, HearMint(t)
    PROVE  AdminInv'
  <1>1. /\ AdminHeads /\ LotteriesInv /\ AdminTypes /\ OrdersInv /\ RegistryInv
        /\ MakersInv /\ DesksInv /\ AsksInv /\ MissingInv /\ OrphansInv /\ RecordsInv
    BY DEF AdminInv
  <1>2. /\ Judge(t)
        /\ UNCHANGED <<asks, registry, order, jobs, creates, orders, faults, unheard, dropped, overlaps, rushed>>
    BY DEF HearMint
  <1>3. PICK W : W = {m \in Makers : maker[m].pc = "await" /\ maker[m].tx # t.id} OBVIOUS
  <1>4. misheard' = misheard + Cardinality(W)
    <2>1. W = {m \in {n \in Makers : maker[n].pc = "await"} : maker[m].tx # t.id} BY <1>3
    <2>2. QED BY <2>1 DEF HearMint
  <1>5. IsFiniteSet(W) /\ Cardinality(W) \in Nat
    <2>1. W \in SUBSET Makers BY <1>3
    <2>2. QED BY <1>1, <2>1, AdminNumbers, FS_Subset, FS_CardinalityType
  <1>6. misheard' \in Nat /\ misheard <= misheard' /\ (misheard' = 0 => Cardinality(W) = 0 /\ misheard = 0)
    <2>1. PICK k, n, s : k = misheard /\ n = Cardinality(W) /\ s = k + n OBVIOUS
    <2>2. k \in Nat /\ n \in Nat BY <1>1, <1>5, <2>1, AdminNumbers
    <2>3. s \in Nat /\ k <= s /\ (s = 0 => n = 0 /\ k = 0) BY <2>1, <2>2
    <2>4. misheard' = s BY <1>4, <2>1
    <2>5. QED BY <2>1, <2>3, <2>4
  <1>7. maker' \in [Makers -> MakerState] /\ desk' \in [Desks -> DeskState] /\ SameMints /\ Heard(t)
    BY <1>1, MintHeard
  <1>8. AdminHeads' /\ LotteriesInv' /\ SpentStays /\ Judged(t) BY <1>1, <1>2, <1>7, JudgeKeeps
  <1>9. MakersInv' BY <1>1, <1>2, <1>7, <1>8, HeardKeeps
  <1>10. AdminTypes' BY <1>1, <1>2, <1>6, <1>7 DEF AdminTypes
  <1>11. OrdersInv' BY <1>1, <1>2, OrdersRest DEF OrdersAside
  <1>12. RegistryInv' BY <1>1, <1>2 DEF RegistryInv, Inserting, Registered
  <1>13. AdminTx(t) /\ pool' = pool \ {t} BY <1>1, <1>8 DEF AdminHeads, Judged
  <1>14. \A o \in utxo' : o \in utxo \/ (Accepts(t) /\ o \in t.makes /\ o.tx = t.id)
    BY <1>8, <1>13 DEF Judged, AdminTx
  <1>15. LotteriesStay
    <2>1. \A o \in t.spends : o.kind # "lottery" BY <1>13 DEF AdminTx
    <2>2. QED BY <1>8, <2>1 DEF LotteriesStay, Judged
  <1>16. /\ \A m \in Makers : maker[m].pc = "await" => maker'[m].pc = IF Accepts(t) THEN "register" ELSE "done"
         /\ \A m \in Makers : maker[m].pc # "await" => maker'[m] = maker[m]
         /\ \A d \in Desks : desk'[d].record = desk[d].record /\ desk'[d].result = desk[d].result
                             /\ desk'[d].reconciling = desk[d].reconciling
         /\ \A d \in Desks : desk'[d].creating = 0 \/ desk'[d].creating = desk[d].creating
         /\ \A d \in Desks : desk[d].creating \in Makers /\ maker[desk[d].creating].pc = "await" /\ ~Accepts(t)
                               => desk'[d].creating = 0
         /\ \A d \in Desks : ~(desk[d].creating \in Makers /\ maker[desk[d].creating].pc = "await" /\ ~Accepts(t))
                               => desk'[d].creating = desk[d].creating
    BY <1>7 DEF Heard
  <1>17. Accepts(t) \in BOOLEAN BY DEF Accepts
  <1>18. \A d \in Desks : desk[d].creating # 0 => desk[d].creating \in Makers
    <2>1. \A d \in Desks : desk[d].creating \in 0..MaxCreates BY <1>1, AdminNumbers DEF DeskState
    <2>2. MaxCreates \in Nat BY <1>1, AdminNumbers
    <2>3. QED BY <2>1, <2>2 DEF Makers
  <1>19. DesksInv'
    <2>1. \A d \in Desks : desk'[d].creating # 0 => maker'[desk[d].creating].pc \notin {"idle", "done"}
      BY <1>1, <1>16, <1>17, <1>18 DEF DesksInv, Running
    <2>2. QED BY <1>1, <1>16, <2>1, DesksRest
  <1>20. AsksInv' BY <1>1, <1>2, <1>7, <1>16 DEF AsksInv, SameMints
  <1>21. \A m \in Makers : Active(m)' => Active(m) \/ (maker[m].pc = "await" /\ Accepts(t))
    BY <1>16, <1>17 DEF Active
  <1>22. MissingInv'
    <2>1. PICK f, N : f = [m \in W |-> maker[m].lot] /\ N = {f[m] : m \in W} OBVIOUS
    <2>2. IsFiniteSet(N) /\ Cardinality(N) <= Cardinality(W) BY <1>5, <2>1, CountedBy
    <2>3. PICK S, T : S = Missing /\ T = Missing' OBVIOUS
    <2>4. ASSUME NEW l \in T PROVE l \in S \cup N
      <3>1. l \in InHand' /\ l # NoLot /\ ~\E o \in utxo' : o.kind = "lottery" /\ o.lot = l
        BY <2>3, <2>4 DEF Missing
      <3>2. CASE l \in InHand
        BY <1>15, <2>3, <3>1, <3>2 DEF Missing, LotteriesStay
      <3>3. CASE \E m \in Makers : maker[m].pc = "await" /\ Accepts(t) /\ l = maker[m].lot
        <4>1. PICK m \in Makers : maker[m].pc = "await" /\ Accepts(t) /\ l = maker[m].lot BY <3>3
        <4>2. CASE maker[m].tx = t.id
          <5>1. PICK o \in t.makes : o.kind = "lottery" /\ o.lot = l BY <1>1, <4>1, <4>2 DEF MakersInv
          <5>2. o \in utxo' BY <1>8, <4>1, <5>1 DEF Judged
          <5>3. QED BY <3>1, <5>1, <5>2
        <4>3. CASE maker[m].tx # t.id
          <5>1. m \in W /\ f[m] = l BY <1>3, <2>1, <4>1, <4>3
          <5>2. QED BY <2>1, <5>1
        <4>4. QED BY <4>2, <4>3
      <3>4. l \in InHand \/ \E m \in Makers : maker[m].pc = "await" /\ Accepts(t) /\ l = maker[m].lot
        BY <1>2, <1>7, <1>16, <1>21, <3>1 DEF InHand, Registered, SameMints
      <3>5. QED BY <3>2, <3>3, <3>4
    <2>5. IsFiniteSet(T) /\ Cardinality(T) <= Cardinality(S) + Cardinality(N)
          /\ Cardinality(T) \in Nat /\ Cardinality(S) \in Nat /\ Cardinality(N) \in Nat
      <3>1. IsFiniteSet(S) /\ T \subseteq S \cup N BY <1>1, <2>3, <2>4 DEF MissingInv
      <3>2. QED BY <2>2, <3>1, CountGrows
    <2>6. PICK k, n, s : k = misheard /\ n = Cardinality(W) /\ s = k + n OBVIOUS
    <2>7. k \in Nat /\ n \in Nat /\ Cardinality(S) <= k /\ Cardinality(N) <= n
      BY <1>1, <1>5, <2>2, <2>3, <2>6, AdminNumbers DEF MissingInv
    <2>8. Cardinality(T) <= s BY <2>5, <2>6, <2>7
    <2>9. QED BY <1>4, <2>3, <2>5, <2>6, <2>8 DEF MissingInv
  <1>23. \A n \in Makers : InPool(n)' => InPool(n) BY <1>7, <1>13 DEF InPool, SameMints
  <1>24. OrphansInv'
    <2>1. ASSUME NEW n \in Makers, Orphaned(n)' PROVE Orphaned(n) \/ n \in W
      <3>1. Kept(maker[n].lot)' = Kept(maker[n].lot) BY <1>2, <1>7, <1>16 DEF Kept, Registered, SameMints
      <3>2. n # 0 /\ maker'[n].tx = maker[n].tx BY <1>1, <1>7, AdminNumbers DEF SameMints
      <3>3. CASE maker[n].pc # "await"
        <4>1. maker'[n] = maker[n] BY <1>16, <3>3
        <4>2. AtDesk(n) => AtDesk(n)' BY <1>16, <3>2, <3>3 DEF AtDesk
        <4>3. Minted(n)' => Minted(n) \/ InPool(n) BY <1>14, <4>1 DEF Minted, InPool
        <4>4. QED BY <1>23, <2>1, <3>1, <3>3, <4>1, <4>2, <4>3 DEF Orphaned, Running
      <3>4. CASE maker[n].pc = "await" /\ maker[n].tx = t.id
        <4>1. InPool(n) BY <3>4 DEF InPool
        <4>2. CASE ~AtDesk(n) BY <4>1, <4>2 DEF Orphaned
        <4>3. CASE AtDesk(n)
          <5>1. ~InPool(n)' BY <1>1, <1>13, <3>2, <3>4 DEF InPool, AdminHeads
          <5>2. CASE Accepts(t)
            <6>1. AtDesk(n)' BY <1>16, <4>3, <5>2 DEF AtDesk
            <6>2. maker'[n].pc = "register" BY <1>16, <3>4, <5>2
            <6>3. QED BY <2>1, <5>1, <6>1, <6>2 DEF Orphaned, Running
          <5>3. CASE ~Accepts(t)
            <6>1. utxo' = utxo /\ maker'[n].pc = "done" BY <1>8, <1>16, <3>4, <5>3 DEF Judged
            <6>2. ~Minted(n)' BY <1>1, <3>2, <3>4, <6>1 DEF Minted, AdminHeads
            <6>3. QED BY <2>1, <5>1, <6>1, <6>2 DEF Orphaned
          <5>4. QED BY <5>2, <5>3
        <4>4. QED BY <4>2, <4>3
      <3>5. CASE maker[n].pc = "await" /\ maker[n].tx # t.id BY <1>3, <3>5
      <3>6. QED BY <3>3, <3>4, <3>5
    <2>2. unheard + dropped + misheard + Cardinality(W) <= unheard' + dropped' + misheard'
      <3>1. PICK a, b, c, n, s : a = unheard /\ b = dropped /\ c = misheard /\ n = Cardinality(W) /\ s = c + n OBVIOUS
      <3>2. a \in Nat /\ b \in Nat /\ c \in Nat /\ n \in Nat BY <1>1, <1>5, <3>1, AdminNumbers
      <3>3. a + b + c + n <= a + b + s BY <3>1, <3>2
      <3>4. unheard' = a /\ dropped' = b /\ misheard' = s BY <1>2, <1>4, <3>1
      <3>5. QED BY <3>1, <3>3, <3>4
    <2>3. unheard' \in Nat /\ dropped' \in Nat BY <1>1, <1>2, AdminNumbers
    <2>4. QED BY <1>1, <1>5, <1>6, <2>1, <2>2, <2>3, OrphansMove
  <1>25. RecordsInv'
    <2>1. SUFFICES ASSUME unheard' + misheard' = 0 PROVE Undisturbed' BY DEF RecordsInv
    <2>2. unheard = 0 /\ misheard = 0 /\ Cardinality(W) = 0
      <3>1. PICK a, s : a = unheard /\ s = misheard' OBVIOUS
      <3>2. a \in Nat /\ s \in Nat /\ a + s = 0 BY <1>1, <1>2, <1>6, <2>1, <3>1, AdminNumbers
      <3>3. a = 0 /\ s = 0 BY <3>2
      <3>4. QED BY <1>6, <3>1, <3>3
    <2>3. Undisturbed BY <1>1, <2>2 DEF RecordsInv
    <2>4. W = {} BY <1>5, <2>2, FS_EmptySet
    <2>5. CASE \E m \in Makers : maker[m].pc = "await" /\ Accepts(t)
      <3>1. PICK m \in Makers : maker[m].pc = "await" /\ Accepts(t) BY <2>5
      <3>2. maker[m].tx = t.id /\ \A n \in Makers : maker[n].pc = "await" => n = m
        <4>1. \A n \in Makers : maker[n].pc = "await" => maker[n].tx = t.id BY <1>3, <2>4
        <4>2. t.id # 0 BY <1>1, <1>13, HeadAssumption DEF AdminTx, AdminHeads
        <4>3. QED BY <1>1, <3>1, <4>1, <4>2 DEF MakersInv
      <3>3. QED BY <1>1, <1>2, <1>7, <1>8, <2>3, <3>1, <3>2, MintUndisturbed
    <2>6. CASE ~\E m \in Makers : maker[m].pc = "await" /\ Accepts(t)
      <3>1. \A m \in Makers : Active(m)' => Active(m) /\ maker'[m].lot = maker[m].lot /\ (InPool(m)' => InPool(m))
        BY <1>7, <1>21, <1>23, <2>6 DEF SameMints
      <3>2. \A q \in asks' : q.from \in Makers => maker'[q.from].pc = "waiting"
        <4>1. \A q \in asks : q.from \in Makers => maker[q.from].pc = "waiting" BY <2>3 DEF Undisturbed
        <4>2. QED BY <1>2, <1>16, <4>1
      <3>3. \A p, q \in asks' : p.from = q.from => p = q BY <1>2, <2>3 DEF Undisturbed
      <3>4. \A q \in asks' : \E p \in asks : p.from = q.from /\ p.lot = q.lot BY <1>2
      <3>5. \A d \in Desks : desk'[d].record \in {NoLot, desk[d].record} /\ desk'[d].result \in {NoLot, desk[d].result}
        BY <1>16
      <3>6. registry' = registry BY <1>2
      <3>7. QED BY <1>8, <2>3, <3>1, <3>2, <3>3, <3>4, <3>5, <3>6, UndisturbedStays
    <2>7. QED BY <2>5, <2>6
  <1>26. QED BY <1>8, <1>9, <1>10, <1>11, <1>12, <1>19, <1>20, <1>22, <1>24, <1>25 DEF AdminInv

LEMMA NothingMoves ==
    ASSUME AdminInv, HeadsRest, UNCHANGED adminVars
    PROVE  AdminInv'
  <1>1. HeadsRest OBVIOUS
  <1>2. SameMints BY DEF SameMints, adminVars
  <1>3. AdminHeads' /\ LotteriesInv' BY <1>1, <1>2, RestKeeps DEF AdminInv
  <1>4. MakersInv' BY <1>1 DEF AdminInv, MakersInv, HeadsRest, adminVars
  <1>5. AdminTypes' BY DEF AdminInv, AdminTypes, adminVars
  <1>6. OrdersInv' BY OrdersRest DEF OrdersAside, AdminInv, adminVars
  <1>7. RegistryInv' BY DEF AdminInv, RegistryInv, Inserting, Registered, adminVars
  <1>8. DesksInv' BY DEF AdminInv, DesksInv, Running, adminVars
  <1>9. AsksInv' BY DEF AdminInv, AsksInv, adminVars
  <1>10. MissingInv' BY <1>1 DEF AdminInv, MissingInv, Missing, InHand, Active, Registered, HeadsRest, adminVars
  <1>11. OrphansInv'
    BY <1>1 DEF AdminInv, OrphansInv, Orphans, Orphaned, AtDesk, InPool, Minted, Kept, Running, Registered,
                HeadsRest, adminVars
  <1>12. RecordsInv'
    BY <1>1 DEF AdminInv, RecordsInv, Undisturbed, Active, InPool, Spent, Registered, HeadsRest, adminVars
  <1>13. QED BY <1>3, <1>4, <1>5, <1>6, <1>7, <1>8, <1>9, <1>10, <1>11, <1>12 DEF AdminInv

LEMMA ReconcileUndisturbed ==
    ASSUME AdminTypes, Undisturbed, NEW d \in Desks, NEW q, q.from = d, q.lot = Shown(d), Shown(d) # NoLot,
           UNCHANGED <<headVars, maker, registry>>, asks' = asks \cup {q},
           \A p \in asks : p.from # d,
           \A e \in Desks : desk'[e].record = desk[e].record /\ desk'[e].result = desk[e].result
    PROVE  Undisturbed'
  <1>1. d \notin Makers /\ d # None BY AdminAssumption DEF Makers
  <1>2. PICK lot : lot = Shown(d) OBVIOUS
  <1>3. Spent(lot) BY <1>2 DEF Undisturbed, Shown
  <1>4. \A k : Spent(k)' = Spent(k) BY DEF Spent, headVars
  <1>5. \A m \in Makers : Active(m) => maker[m].lot # lot BY <1>2 DEF Undisturbed, Shown
  <1>6. \A e \in Desks : desk[e].record = lot => e = d BY <1>2 DEF Undisturbed, Shown
  <1>7. Registered' = Registered BY DEF Registered
  <1>8. \A m \in Makers : (Active(m)' = Active(m)) /\ (InPool(m)' = InPool(m)) BY DEF Active, InPool, headVars
  <1>9. ASSUME NEW m \in Makers, Active(m)'
        PROVE  /\ Spent(maker[m].lot)' /\ ~InPool(m)'
               /\ \A n \in Makers : Active(n)' /\ maker'[n].lot = maker'[m].lot => n = m
               /\ maker'[m].lot \notin Registered'
               /\ \A e \in Desks : desk'[e].record # maker'[m].lot /\ desk'[e].result # maker'[m].lot
               /\ \A p \in asks' : p.lot = maker'[m].lot => p.from = m
    <2>1. Active(m) /\ maker' = maker BY <1>8, <1>9
    <2>2. PICK k : k = maker[m].lot OBVIOUS
    <2>3. Spent(k) /\ ~InPool(m) /\ k # lot BY <1>5, <2>1, <2>2 DEF Undisturbed
    <2>4. Spent(maker[m].lot)' BY <1>4, <2>1, <2>2, <2>3 DEF Spent
    <2>5. \A p \in asks' : p.lot = k => p.from = m BY <1>2, <2>1, <2>2, <2>3 DEF Undisturbed
    <2>6. QED BY <1>7, <1>8, <2>1, <2>2, <2>3, <2>4, <2>5 DEF Undisturbed
  <1>10. \A p \in asks' : p.from \in Makers => maker'[p.from].pc = "waiting" BY <1>1 DEF Undisturbed
  <1>11. \A p, r \in asks' : p.from = r.from => p = r BY DEF Undisturbed
  <1>12. \A p \in asks' : p.from # None /\ Spent(p.lot)' BY <1>1, <1>2, <1>3, <1>4 DEF Undisturbed
  <1>13. \A l \in Registered' : Spent(l)' BY <1>4, <1>7 DEF Undisturbed
  <1>14. ASSUME NEW e \in Desks
         PROVE  /\ desk'[e].result # NoLot => Spent(desk[e].result)'
                /\ desk'[e].record # NoLot =>
                      /\ Spent(desk[e].record)' /\ desk'[e].record \notin Registered'
                      /\ \A p \in asks' : p.lot = desk'[e].record => p.from = e
                      /\ \A f \in Desks \ {e} : desk'[f].record # desk'[e].record /\ desk'[f].result # desk'[e].record
    <2>1. PICK a, b : a = desk[e].record /\ b = desk[e].result OBVIOUS
    <2>2. a = desk'[e].record /\ b = desk'[e].result BY <2>1
    <2>3. b # NoLot => Spent(b)' BY <1>4, <2>1 DEF Undisturbed
    <2>4. a # NoLot => Spent(a)' BY <1>4, <2>1 DEF Undisturbed
    <2>5. a # NoLot => /\ a \notin Registered
                       /\ \A p \in asks : p.lot = a => p.from = e
                       /\ \A f \in Desks \ {e} : desk[f].record # a /\ desk[f].result # a
      BY <2>1 DEF Undisturbed
    <2>6. \A p \in asks' : p.lot = a /\ a # NoLot => p.from = e BY <1>2, <1>6, <2>1, <2>5
    <2>7. desk'[e].result # NoLot => Spent(desk[e].result)' BY <2>2, <2>3 DEF Spent
    <2>8. desk'[e].record # NoLot => Spent(desk[e].record)' BY <2>2, <2>4 DEF Spent
    <2>9. QED BY <1>7, <2>2, <2>5, <2>6, <2>7, <2>8
  <1>15. QED BY <1>9, <1>10, <1>11, <1>12, <1>13, <1>14 DEF Undisturbed

LEMMA ClickReconcileKeeps ==
    ASSUME AdminInv, NEW d \in Desks, ClickReconcile(d)
    PROVE  AdminInv'
  <1>1. /\ AdminHeads /\ LotteriesInv /\ AdminTypes /\ OrdersInv /\ RegistryInv
        /\ MakersInv /\ DesksInv /\ AsksInv /\ MissingInv /\ OrphansInv /\ RecordsInv
    BY DEF AdminInv
  <1>2. PICK q : q = [from |-> d, lot |-> Shown(d), pc |-> "count"] OBVIOUS
  <1>3. /\ Shown(d) # NoLot /\ desk[d].reconciling = FALSE /\ asks' = asks \cup {q}
        /\ desk' = [desk EXCEPT ![d].reconciling = TRUE] /\ orders < MaxOrders /\ orders' = orders + 1
        /\ UNCHANGED <<headVars, maker, registry, order, jobs, creates, faults, unheard, dropped, misheard, overlaps, rushed>>
    BY <1>1, <1>2, AdminNumbers DEF ClickReconcile, DeskState
  <1>4. q.from = d /\ q.lot = Shown(d) /\ q.pc = "count" BY <1>2
  <1>5. PICK new : new = [desk[d] EXCEPT !.reconciling = TRUE] OBVIOUS
  <1>6. desk[d] \in DeskState BY <1>1, AdminNumbers
  <1>7. new \in DeskState /\ new.reconciling = TRUE /\ new.record = desk[d].record /\ new.result = desk[d].result
        /\ new.creating = desk[d].creating
    BY <1>5, <1>6 DEF DeskState
  <1>8. /\ desk' \in [Desks -> DeskState] /\ desk'[d].reconciling
        /\ \A e \in Desks : /\ desk'[e].record = desk[e].record /\ desk'[e].result = desk[e].result
                            /\ desk'[e].creating = desk[e].creating
                            /\ desk[e].reconciling => desk'[e].reconciling
    <2>1. desk' = [desk EXCEPT ![d] = new] BY <1>3, <1>5
    <2>2. desk' \in [Desks -> DeskState] /\ desk'[d] = new /\ \A e \in Desks \ {d} : desk'[e] = desk[e]
      BY <1>1, <1>7, <2>1 DEF AdminTypes
    <2>3. QED BY <1>7, <2>2
  <1>9. d \notin Makers /\ d # None BY AdminAssumption DEF Makers
  <1>10. q \in Ask
    <2>1. Shown(d) \in Int BY <1>6 DEF Shown, DeskState
    <2>2. QED BY <1>2, <2>1 DEF Ask
  <1>11. orders' \in 0..MaxOrders BY <1>1, <1>3, AdminNumbers
  <1>12. AdminTypes'
    <2>1. asks' \subseteq Ask /\ IsFiniteSet(asks') BY <1>1, <1>3, <1>10, FS_AddElement DEF AdminTypes
    <2>2. QED BY <1>1, <1>3, <1>8, <1>11, <2>1 DEF AdminTypes
  <1>13. AdminHeads' /\ LotteriesInv' /\ MakersInv'
    <2>1. AdminHeads' BY <1>1, <1>3 DEF AdminHeads, AdminTx, AdminKinds, headVars
    <2>2. LotteriesInv' BY <1>1, <1>3 DEF LotteriesInv, Spent, headVars
    <2>3. MakersInv' BY <1>1, <1>3 DEF MakersInv, headVars
    <2>4. QED BY <2>1, <2>2, <2>3
  <1>14. OrdersInv' BY <1>1, <1>3, OrdersStay
  <1>15. RegistryInv'
    <2>1. Inserting' = Inserting BY <1>3, <1>4 DEF Inserting
    <2>2. QED BY <1>1, <1>3, <2>1 DEF RegistryInv, Registered
  <1>16. DesksInv' BY <1>1, <1>3, <1>8 DEF DesksInv, Running
  <1>17. \A p \in asks : p.from # d BY <1>1, <1>3 DEF AsksInv
  <1>18. AsksInv' BY <1>1, <1>3, <1>4, <1>8, <1>9, <1>17 DEF AsksInv
  <1>19. MissingInv'
    <2>1. Shown(d) \in InHand BY DEF Shown, InHand
    <2>2. \A l \in InHand' : l \in InHand \/ l = NoLot
      BY <1>3, <1>4, <1>8, <2>1 DEF InHand, Active, Registered
    <2>3. misheard' \in Nat /\ misheard <= misheard' BY <1>1, <1>3, AdminNumbers
    <2>4. LotteriesStay BY <1>3 DEF LotteriesStay, headVars
    <2>5. QED BY <1>1, <2>2, <2>3, <2>4, MissingStays
  <1>20. OrphansInv'
    <2>1. \A n \in Makers : Orphaned(n)' => Orphaned(n)
      BY <1>3, <1>8 DEF Orphaned, AtDesk, InPool, Minted, Kept, Running, Registered, headVars
    <2>2. QED BY <1>1, <1>3, <2>1, OrphansStay
  <1>21. RecordsInv'
    <2>1. SUFFICES ASSUME unheard' + misheard' = 0 PROVE Undisturbed' BY DEF RecordsInv
    <2>2. Undisturbed BY <1>1, <1>3, <2>1 DEF RecordsInv
    <2>3. QED BY <1>1, <1>3, <1>4, <1>8, <1>17, <2>2, ReconcileUndisturbed
  <1>22. QED BY <1>12, <1>13, <1>14, <1>15, <1>16, <1>18, <1>19, <1>20, <1>21 DEF AdminInv

\* The requests that a step leaves are those that there were, some of them without anybody who waits.
Forgets(q, who) == IF q.from = who THEN [q EXCEPT !.from = None] ELSE q

LEMMA AsksForget ==
    ASSUME NEW who, NEW q \in Ask
    PROVE  /\ Forgets(q, who) \in Ask
           /\ Forgets(q, who).lot = q.lot /\ Forgets(q, who).pc = q.pc
           /\ Forgets(q, who).from = IF q.from = who THEN None ELSE q.from
           /\ q.from # who => Forgets(q, who) = q
  <1>1. PICK p, none : none = None /\ p = [q EXCEPT !.from = none] OBVIOUS
  <1>2. none \in Makers \cup Desks \cup {None} BY <1>1
  <1>3. p \in Ask /\ p.lot = q.lot /\ p.pc = q.pc /\ p.from = none BY <1>1, <1>2 DEF Ask
  <1>4. Forgets(q, who) = IF q.from = who THEN p ELSE q BY <1>1 DEF Forgets
  <1>5. QED BY <1>1, <1>3, <1>4

LEMMA FewerInserts ==
    ASSUME AdminTypes, RegistryInv, registry' = registry, overlaps' = overlaps,
           IsFiniteSet(Inserting'), Cardinality(Inserting') <= Cardinality(Inserting)
    PROVE  RegistryInv'
  <1>1. Inserting \in SUBSET asks BY DEF Inserting
  <1>2. Cardinality(Inserting) \in Nat /\ Cardinality(Inserting') \in Nat
    BY <1>1, FS_Subset, FS_CardinalityType DEF AdminTypes
  <1>3. PICK a, b, n, k : a = Cardinality(Inserting) /\ b = Cardinality(Inserting') /\ n = Len(registry) /\ k = overlaps
    OBVIOUS
  <1>4. a \in Nat /\ b \in Nat /\ n \in Nat /\ k \in Nat /\ b <= a /\ n + a <= 1 + k
    BY <1>2, <1>3, AdminNumbers DEF RegistryInv
  <1>5. n + b <= 1 + k BY <1>4
  <1>6. QED BY <1>3, <1>5 DEF RegistryInv, Registered

LEMMA DeskReloads ==
    ASSUME AdminTypes, NEW d \in Desks, ReloadDesk(d)
    PROVE  /\ desk' \in [Desks -> DeskState] /\ order' \in [Orders -> OrderState]
           /\ desk'[d].record = desk[d].record /\ desk'[d].result = NoLot /\ desk'[d].creating = 0
           /\ \A e \in Desks \ {d} : desk'[e] = desk[e]
           /\ \A r \in Orders : order'[r].pc = order[r].pc /\ order'[r].op = order[r].op
           /\ asks' = {Forgets(q, d) : q \in asks}
  <1>1. /\ desk' = [desk EXCEPT ![d] = [record |-> @.record, result |-> NoLot, creating |-> 0, reconciling |-> FALSE]]
        /\ asks' = {IF q.from = d THEN [q EXCEPT !.from = None] ELSE q : q \in asks}
        /\ order' = [r \in Orders |-> IF order[r].desk = d THEN [order[r] EXCEPT !.desk = None] ELSE order[r]]
    BY DEF ReloadDesk
  <1>2. asks' = {Forgets(q, d) : q \in asks} BY <1>1 DEF Forgets
  <1>3. PICK new : new = [record |-> desk[d].record, result |-> NoLot, creating |-> 0, reconciling |-> FALSE] OBVIOUS
  <1>4. new \in DeskState
    <2>1. desk[d] \in DeskState /\ 0 \in 0..MaxCreates BY AdminNumbers
    <2>2. NoLot \in Int BY DEF NoLot
    <2>3. QED BY <1>3, <2>1, <2>2 DEF DeskState
  <1>5. new.record = desk[d].record /\ new.result = NoLot /\ new.creating = 0 BY <1>3
  <1>6. desk' = [desk EXCEPT ![d] = new] BY <1>1, <1>3
  <1>7. desk' \in [Desks -> DeskState] /\ desk'[d] = new /\ \A e \in Desks \ {d} : desk'[e] = desk[e]
    BY <1>4, <1>6 DEF AdminTypes
  <1>8. ASSUME NEW r \in Orders
        PROVE  order'[r] \in OrderState /\ order'[r].pc = order[r].pc /\ order'[r].op = order[r].op
    <2>1. PICK old, none : old = order[r] /\ none = None OBVIOUS
    <2>2. old \in OrderState /\ none \in Desks \cup {None} BY <2>1, AdminNumbers
    <2>3. PICK cut : cut = [old EXCEPT !.desk = none] OBVIOUS
    <2>4. cut \in OrderState /\ cut.pc = old.pc /\ cut.op = old.op BY <2>2, <2>3 DEF OrderState
    <2>5. order'[r] = IF old.desk = d THEN cut ELSE old BY <1>1, <2>1, <2>3
    <2>6. QED BY <2>1, <2>2, <2>4, <2>5
  <1>9. order' \in [Orders -> OrderState]
    <2>1. order' = [r \in Orders |-> order'[r]] BY <1>1
    <2>2. QED BY <1>8, <2>1
  <1>10. QED BY <1>2, <1>5, <1>7, <1>8, <1>9

LEMMA ReloadDeskKeeps ==
    ASSUME AdminInv, NEW d \in Desks, ReloadDesk(d)
    PROVE  AdminInv'
  <1>1. /\ AdminHeads /\ LotteriesInv /\ AdminTypes /\ OrdersInv /\ RegistryInv
        /\ MakersInv /\ DesksInv /\ AsksInv /\ MissingInv /\ OrphansInv /\ RecordsInv
    BY DEF AdminInv
  <1>2. /\ unheard' = unheard + 1
        /\ UNCHANGED <<headVars, maker, registry, jobs, creates, orders, dropped, misheard, overlaps, rushed>>
    BY DEF ReloadDesk
  <1>3. /\ desk' \in [Desks -> DeskState] /\ order' \in [Orders -> OrderState]
        /\ desk'[d].record = desk[d].record /\ desk'[d].result = NoLot /\ desk'[d].creating = 0
        /\ \A e \in Desks \ {d} : desk'[e] = desk[e]
        /\ \A r \in Orders : order'[r].pc = order[r].pc /\ order'[r].op = order[r].op
        /\ asks' = {Forgets(q, d) : q \in asks}
    BY <1>1, DeskReloads
  <1>4. asks \subseteq Ask /\ IsFiniteSet(asks) BY <1>1 DEF AdminTypes
  <1>5. PICK f : f = [q \in asks |-> Forgets(q, d)] OBVIOUS
  <1>6. \A p \in asks' : \E q \in asks : f[q] = p /\ p = Forgets(q, d) BY <1>3, <1>5
  <1>7. \A q \in asks : /\ f[q] \in Ask /\ f[q].lot = q.lot /\ f[q].pc = q.pc
                        /\ q.from = d => f[q].from = None
                        /\ q.from # d => f[q] = q
    BY <1>4, <1>5, AsksForget
  <1>8. None \notin Desks /\ None \notin Makers BY AdminAssumption DEF Makers
  <1>9. asks' \subseteq Ask /\ IsFiniteSet(asks')
    <2>1. asks' \subseteq Ask BY <1>6, <1>7
    <2>2. IsFiniteSet(asks') BY <1>4, <1>6, CountedBy
    <2>3. QED BY <2>1, <2>2
  <1>10. unheard' \in Nat /\ unheard < unheard' /\ unheard <= unheard'
    <2>1. unheard \in Nat BY <1>1, AdminNumbers
    <2>2. QED BY <1>2, <2>1
  <1>11. AdminTypes' BY <1>1, <1>2, <1>3, <1>9, <1>10 DEF AdminTypes
  <1>12. AdminHeads' /\ LotteriesInv' /\ MakersInv'
    <2>1. AdminHeads' BY <1>1, <1>2 DEF AdminHeads, AdminTx, AdminKinds, headVars
    <2>2. LotteriesInv' BY <1>1, <1>2 DEF LotteriesInv, Spent, headVars
    <2>3. MakersInv' BY <1>1, <1>2 DEF MakersInv, headVars
    <2>4. QED BY <2>1, <2>2, <2>3
  <1>13. OrdersInv' BY <1>1, <1>2, <1>3, OrdersStay
  <1>14. RegistryInv'
    <2>1. PICK S, T : S = Inserting /\ T = Inserting' OBVIOUS
    <2>2. IsFiniteSet(S)
      <3>1. S \in SUBSET asks BY <2>1 DEF Inserting
      <3>2. QED BY <1>4, <3>1, FS_Subset
    <2>3. \A p \in T : \E q \in S : f[q] = p BY <1>6, <1>7, <2>1 DEF Inserting
    <2>4. IsFiniteSet(T) /\ Cardinality(T) <= Cardinality(S) BY <2>2, <2>3, CountedBy
    <2>5. QED BY <1>1, <1>2, <2>1, <2>4, FewerInserts
  <1>15. DesksInv'
    <2>1. \A e \in Desks : desk'[e].creating = desk[e].creating \/ desk'[e].creating = 0 BY <1>3
    <2>2. \A e \in Desks : desk'[e].creating # 0 => maker'[desk[e].creating].pc \notin {"idle", "done"}
      BY <1>1, <1>2, <1>3 DEF DesksInv, Running
    <2>3. \A e \in Desks : \/ desk'[e].record = desk[e].record /\ desk'[e].result = desk[e].result
                           \/ desk'[e].result = NoLot \/ desk'[e].record \in {NoLot, desk'[e].result}
      BY <1>3
    <2>4. QED BY <1>1, <2>1, <2>2, <2>3, DesksRest
  <1>16. AsksInv'
    <2>1. \A q \in asks' : (\E p \in asks : p.lot = q.lot /\ p.from = q.from) \/ (q.from = None /\ q.lot # NoLot)
      BY <1>1, <1>6, <1>7 DEF AsksInv
    <2>2. \A q \in asks' : q.from \in Desks => q \in asks /\ q.from # d
      <3>1. \A q \in asks : f[q].from \in Desks => f[q] = q /\ q.from # d BY <1>7, <1>8
      <3>2. QED BY <1>6, <3>1
    <2>3. \A q \in asks' : q.from \in Desks => desk'[q.from].reconciling BY <1>1, <1>3, <2>2 DEF AsksInv
    <2>4. \A p, q \in asks' : p.from = q.from /\ p.from \in Desks => p = q BY <1>1, <2>2 DEF AsksInv
    <2>5. SameMints BY <1>2 DEF SameMints
    <2>6. QED BY <1>1, <2>1, <2>3, <2>4, <2>5, AsksRest
  <1>17. MissingInv'
    <2>1. \A q \in asks' : \E p \in asks : p.lot = q.lot BY <1>6, <1>7
    <2>2. \A l \in InHand' : l \in InHand \/ l = NoLot BY <1>2, <1>3, <2>1 DEF InHand, Active, Registered
    <2>3. misheard' \in Nat /\ misheard <= misheard' BY <1>1, <1>2, AdminNumbers
    <2>4. LotteriesStay BY <1>2 DEF LotteriesStay, headVars
    <2>5. QED BY <1>1, <2>2, <2>3, <2>4, MissingStays
  <1>18. OrphansInv'
    <2>1. PICK m : m = desk[d].creating OBVIOUS
    <2>2. ASSUME NEW n \in Makers, Orphaned(n)' PROVE Orphaned(n) \/ n = m
      <3>1. SUFFICES ASSUME n # m PROVE Orphaned(n) OBVIOUS
      <3>2. AtDesk(n) => AtDesk(n)' BY <1>3, <2>1, <3>1 DEF AtDesk
      <3>3. Kept(maker[n].lot) => Kept(maker[n].lot)' BY <1>2, <1>3 DEF Kept, Registered
      <3>4. InPool(n)' = InPool(n) /\ Minted(n)' = Minted(n) BY <1>2 DEF InPool, Minted, headVars
      <3>5. QED BY <1>2, <2>2, <3>2, <3>3, <3>4 DEF Orphaned, Running
    <2>3. dropped' \in Nat /\ dropped <= dropped' BY <1>1, <1>2, AdminNumbers
    <2>4. QED BY <1>1, <1>2, <1>10, <2>2, <2>3, OrphansLose
  <1>19. RecordsInv'
    <2>1. ~(unheard' + misheard' = 0)
      <3>1. PICK a, b : a = unheard /\ b = misheard OBVIOUS
      <3>2. a \in Nat /\ b \in Nat BY <1>1, <3>1, AdminNumbers
      <3>3. ~((a + 1) + b = 0) BY <3>2
      <3>4. QED BY <1>2, <3>1, <3>3
    <2>2. QED BY <2>1 DEF RecordsInv
  <1>20. QED BY <1>11, <1>12, <1>13, <1>14, <1>15, <1>16, <1>17, <1>18, <1>19 DEF AdminInv

-----------------------------------------------------------------------------
(* Registrations *)

LEMMA OneMint ==
    ASSUME LotteriesInv, MakersInv, NEW m \in Makers, NEW n \in Makers, Minted(m), Minted(n),
           maker[m].lot = maker[n].lot
    PROVE  m = n
  <1>1. PICK o \in utxo : o.kind = "lottery" /\ o.tx = maker[m].tx BY DEF Minted
  <1>2. PICK q \in utxo : q.kind = "lottery" /\ q.tx = maker[n].tx BY DEF Minted
  <1>3. o.lot = maker[m].lot /\ q.lot = maker[n].lot BY <1>1, <1>2 DEF MakersInv
  <1>4. o = q /\ o.tx # 0 BY <1>1, <1>2, <1>3 DEF LotteriesInv
  <1>5. QED BY <1>1, <1>2, <1>4 DEF MakersInv

LEMMA MintedLot ==
    ASSUME LotteriesInv, MakersInv, NEW m \in Makers, Minted(m)
    PROVE  maker[m].lot # NoLot
  <1>1. PICK o \in utxo : o.kind = "lottery" /\ o.tx = maker[m].tx BY DEF Minted
  <1>2. maker[m].tx # 0 BY <1>1 DEF LotteriesInv
  <1>3. maker[m].lot \in 1..sent BY <1>2 DEF MakersInv
  <1>4. QED BY <1>3 DEF NoLot

\* What happens to a script that registers.
Handled(m, needs) == GoesOn(m, "register") \/ GoesOn(m, "waiting") \/ (Ends(m) /\ Leaves(m, needs))

LEMMA HandledFacts ==
    ASSUME NEW m \in Makers, NEW needs, Handled(m, needs), dropped \in Nat
    PROVE  /\ maker'[m].pc \in {"register", "waiting", "done"}
           /\ \A n \in Makers \ {m} : maker'[n] = maker[n]
           /\ \A d \in Desks : desk[d].creating # m => desk'[d] = desk[d]
           /\ \A d \in Desks : desk'[d].reconciling = desk[d].reconciling
           /\ \A d \in Desks : desk'[d].creating = desk[d].creating \/ desk'[d].creating = 0
           /\ \A d \in Desks : desk'[d].creating # 0 /\ desk[d].creating = m => maker'[m].pc # "done"
           /\ \A d \in Desks : \/ desk'[d].record = desk[d].record /\ desk'[d].result = desk[d].result
                               \/ desk[d].creating = m /\ desk'[d].record = needs /\ desk'[d].result = needs
           /\ dropped <= dropped'
  BY DEF Handled, GoesOn, Ends, Leaves

LEMMA ScriptHandled ==
    ASSUME AdminHeads, LotteriesInv, AdminTypes, MakersInv, DesksInv,
           NEW m \in Makers, NEW needs, Active(m), SameMints, Handled(m, needs), UNCHANGED <<headVars, creates>>
    PROVE  AdminHeads' /\ LotteriesInv' /\ SpentStays /\ MakersInv' /\ DesksInv'
  <1>1. dropped \in Nat /\ creates \in Nat BY AdminNumbers
  <1>2. HeadsRest BY DEF HeadsRest, headVars
  <1>3. AdminHeads' /\ LotteriesInv' /\ SpentStays BY <1>2, RestKeeps
  <1>4. /\ maker'[m].pc \in {"register", "waiting", "done"}
        /\ \A n \in Makers \ {m} : maker'[n] = maker[n]
        /\ \A d \in Desks : desk[d].creating # m => desk'[d] = desk[d]
        /\ \A d \in Desks : desk'[d].creating = desk[d].creating \/ desk'[d].creating = 0
        /\ \A d \in Desks : desk'[d].creating # 0 /\ desk[d].creating = m => maker'[m].pc # "done"
        /\ \A d \in Desks : \/ desk'[d].record = desk[d].record /\ desk'[d].result = desk[d].result
                            \/ desk[d].creating = m /\ desk'[d].record = needs /\ desk'[d].result = needs
    BY <1>1, HandledFacts
  <1>5. MakersInv'
    <2>1. \A n \in Makers : Moves(n) BY <1>4 DEF Moves, Active
    <2>2. creates' \in Nat /\ creates <= creates' BY <1>1
    <2>3. QED BY <1>2, <2>1, <2>2, MakersRest
  <1>6. DesksInv'
    <2>1. \A d \in Desks : desk[d].creating # 0 => desk[d].creating \in Makers
      <3>1. \A d \in Desks : desk[d].creating \in 0..MaxCreates BY AdminNumbers DEF DeskState
      <3>2. MaxCreates \in Nat BY AdminNumbers
      <3>3. QED BY <3>1, <3>2 DEF Makers
    <2>2. \A d \in Desks : desk'[d].creating # 0 => maker'[desk[d].creating].pc \notin {"idle", "done"}
      BY <1>4, <2>1 DEF DesksInv, Running
    <2>3. \A d \in Desks : \/ desk'[d].record = desk[d].record /\ desk'[d].result = desk[d].result
                           \/ desk'[d].result = NoLot \/ desk'[d].record \in {NoLot, desk'[d].result}
      BY <1>4
    <2>4. QED BY <1>4, <2>2, <2>3, DesksRest
  <1>7. QED BY <1>3, <1>5, <1>6

LEMMA OrphansHandled ==
    ASSUME LotteriesInv, AdminTypes, MakersInv, DesksInv, OrphansInv,
           NEW m \in Makers, NEW needs, Active(m), SameMints, Handled(m, needs), dropped' \in Nat,
           unheard' \in Nat, unheard <= unheard', misheard' = misheard, UNCHANGED headVars,
           Registered \subseteq Registered', needs = maker[m].lot \/ maker[m].lot \in Registered'
    PROVE  OrphansInv'
  <1>1. dropped \in Nat /\ unheard \in Nat /\ misheard \in Nat BY AdminNumbers
  <1>2. /\ \A n \in Makers \ {m} : maker'[n] = maker[n]
        /\ \A d \in Desks : desk[d].creating # m => desk'[d] = desk[d]
        /\ dropped <= dropped'
    BY <1>1, HandledFacts
  <1>3. \A n \in Makers : InPool(n)' = InPool(n) /\ Minted(n)' = Minted(n)
    BY DEF InPool, Minted, SameMints, headVars
  <1>4. \A n \in Makers \ {m} : AtDesk(n) => AtDesk(n)'
    BY <1>2 DEF AtDesk
  <1>5. CASE desk' = desk /\ maker'[m].pc \in {"register", "waiting"}
    <2>1. ASSUME NEW n \in Makers, Orphaned(n)' PROVE Orphaned(n)
      <3>1. Kept(maker[n].lot) => Kept(maker[n].lot)' BY <1>5 DEF Kept, SameMints
      <3>2. AtDesk(n)' = AtDesk(n) BY <1>5 DEF AtDesk
      <3>3. maker'[n].lot = maker[n].lot BY DEF SameMints
      <3>4. CASE n = m BY <1>3, <1>5, <2>1, <3>1, <3>2, <3>3, <3>4 DEF Orphaned, Running, Active
      <3>5. CASE n # m BY <1>2, <1>3, <2>1, <3>1, <3>2, <3>5 DEF Orphaned, Running
      <3>6. QED BY <3>4, <3>5
    <2>2. PICK N : N = {} OBVIOUS
    <2>3. IsFiniteSet(N) /\ Cardinality(N) = 0 BY <2>2, NoneOrOne
    <2>4. unheard + dropped + misheard + Cardinality(N) <= unheard' + dropped' + misheard'
      <3>1. PICK a, b, c, x, y : a = unheard /\ b = dropped /\ c = misheard /\ x = unheard' /\ y = dropped' OBVIOUS
      <3>2. a \in Nat /\ b \in Nat /\ c \in Nat /\ x \in Nat /\ y \in Nat /\ a <= x /\ b <= y BY <1>1, <1>2, <3>1
      <3>3. a + b + c + 0 <= x + y + c BY <3>2
      <3>4. QED BY <2>3, <3>1, <3>3
    <2>5. misheard' \in Nat BY <1>1
    <2>6. QED BY <2>1, <2>3, <2>4, <2>5, OrphansMove
  <1>6. CASE Ends(m) /\ Leaves(m, needs)
    <2>1. /\ maker'[m].pc = "done"
          /\ \A d \in Desks : desk[d].creating = m => desk'[d].record = needs
          /\ \A d \in Desks : desk[d].creating = m /\ desk[d].record \notin {NoLot, needs} \cup Registered => dropped < dropped'
      BY <1>6 DEF Ends, Leaves
    <2>2. \A n \in Makers : maker'[n].lot = maker[n].lot BY DEF SameMints
    <2>3. ASSUME Orphaned(m)' PROVE Orphaned(m)
      <3>1. InPool(m) \/ (Minted(m) /\ ~Kept(maker[m].lot)') BY <1>3, <2>1, <2>2, <2>3 DEF Orphaned
      <3>2. CASE InPool(m) BY <3>2 DEF Orphaned, Active
      <3>3. CASE Minted(m) /\ ~Kept(maker[m].lot)'
        <4>1. needs = maker[m].lot /\ maker[m].lot \notin Registered BY <2>2, <3>3 DEF Kept
        <4>2. ~AtDesk(m) BY <2>1, <2>2, <3>3, <4>1 DEF Kept, AtDesk
        <4>3. ~Kept(maker[m].lot) BY <1>2, <2>2, <3>3, <4>1, <4>2 DEF Kept, AtDesk
        <4>4. QED BY <3>3, <4>2, <4>3 DEF Orphaned
      <3>4. QED BY <3>1, <3>2, <3>3
    <2>4. ASSUME NEW n \in Makers, n # m, Orphaned(n)', ~Orphaned(n)
          PROVE  Minted(n) /\ \E d \in Desks : /\ desk[d].creating = m /\ desk[d].record = maker[n].lot
                                               /\ desk[d].record \notin {NoLot, needs} \cup Registered
      <3>1. maker'[n] = maker[n] /\ (AtDesk(n) => AtDesk(n)') BY <1>2, <1>4, <2>4
      <3>2. Minted(n) /\ Kept(maker[n].lot) /\ ~Kept(maker[n].lot)' BY <1>3, <2>4, <3>1 DEF Orphaned, Running
      <3>3. PICK d \in Desks : desk[d].record = maker[n].lot BY <2>2, <3>2 DEF Kept
      <3>4. desk[d].creating = m BY <1>2, <2>2, <3>2, <3>3 DEF Kept
      <3>5. maker[n].lot # NoLot BY <3>2, MintedLot
      <3>6. maker[n].lot # needs /\ maker[n].lot \notin Registered BY <2>1, <2>2, <3>2, <3>4 DEF Kept
      <3>7. QED BY <3>2, <3>3, <3>4, <3>5, <3>6
    <2>5. CASE \E n \in Makers : n # m /\ Orphaned(n)' /\ ~Orphaned(n)
      <3>1. PICK n \in Makers : n # m /\ Orphaned(n)' /\ ~Orphaned(n) BY <2>5
      <3>2. PICK d \in Desks : /\ desk[d].creating = m /\ desk[d].record = maker[n].lot
                               /\ desk[d].record \notin {NoLot, needs} \cup Registered
        BY <2>4, <3>1
      <3>3. dropped < dropped' BY <2>1, <3>2
      <3>4. ASSUME NEW p \in Makers, Orphaned(p)' PROVE Orphaned(p) \/ p = n
        <4>1. CASE p = m BY <2>3, <3>4, <4>1
        <4>2. CASE p # m /\ ~Orphaned(p)
          <5>1. PICK e \in Desks : desk[e].creating = m /\ desk[e].record = maker[p].lot BY <2>4, <3>4, <4>2
          <5>2. m # 0 BY AdminNumbers
          <5>3. d = e BY <3>2, <5>1, <5>2 DEF DesksInv
          <5>4. Minted(n) /\ Minted(p) BY <2>4, <3>1, <3>4, <4>2
          <5>5. QED BY <3>2, <5>1, <5>3, <5>4, OneMint
        <4>3. QED BY <4>1, <4>2
      <3>5. QED BY <1>1, <1>2, <3>3, <3>4, OrphansLose
    <2>6. CASE ~\E n \in Makers : n # m /\ Orphaned(n)' /\ ~Orphaned(n)
      <3>1. \A n \in Makers : Orphaned(n)' => Orphaned(n) BY <2>3, <2>6
      <3>2. PICK N : N = {} OBVIOUS
      <3>3. IsFiniteSet(N) /\ Cardinality(N) = 0 BY <3>2, NoneOrOne
      <3>4. unheard + dropped + misheard + Cardinality(N) <= unheard' + dropped' + misheard'
        <4>1. PICK a, b, c, x, y : a = unheard /\ b = dropped /\ c = misheard /\ x = unheard' /\ y = dropped' OBVIOUS
        <4>2. a \in Nat /\ b \in Nat /\ c \in Nat /\ x \in Nat /\ y \in Nat /\ a <= x /\ b <= y BY <1>1, <1>2, <4>1
        <4>3. a + b + c + 0 <= x + y + c BY <4>2
        <4>4. QED BY <3>3, <4>1, <4>3
      <3>5. misheard' \in Nat BY <1>1
      <3>6. QED BY <3>1, <3>3, <3>4, <3>5, OrphansMove
    <2>7. QED BY <2>5, <2>6
  <1>7. QED BY <1>5, <1>6 DEF Handled, GoesOn

\* The desk d has the answer of its reconciliation, and what it has of a lottery may go.
DeskTold(d) ==
    /\ desk' \in [Desks -> DeskState]
    /\ desk'[d].record \in {NoLot, desk[d].record} /\ desk'[d].result = desk[d].result
    /\ desk'[d].creating = desk[d].creating
    /\ \A e \in Desks \ {d} : desk'[e] = desk[e]

LEMMA DeskEnds ==
    ASSUME AdminTypes, NEW d \in Desks
    PROVE  /\ desk' = [desk EXCEPT ![d].reconciling = FALSE] => DeskTold(d) /\ desk'[d].record = desk[d].record
           /\ desk' = [desk EXCEPT ![d].reconciling = FALSE, ![d].record = NoLot] => DeskTold(d) /\ desk'[d].record = NoLot
  <1>1. PICK old, none, no : old = desk[d] /\ none = NoLot /\ no = FALSE OBVIOUS
  <1>2. old \in DeskState /\ none \in Int /\ no \in BOOLEAN
    <2>1. old \in DeskState BY <1>1, AdminNumbers
    <2>2. none \in Int BY <1>1 DEF NoLot
    <2>3. QED BY <1>1, <2>1, <2>2
  <1>3. PICK new1 : new1 = [old EXCEPT !.reconciling = no] OBVIOUS
  <1>4. new1 \in DeskState /\ new1.record = old.record /\ new1.result = old.result /\ new1.creating = old.creating
    BY <1>2, <1>3 DEF DeskState
  <1>5. PICK new2 : new2 = [new1 EXCEPT !.record = none] OBVIOUS
  <1>6. new2 \in DeskState /\ new2.record = none /\ new2.result = old.result /\ new2.creating = old.creating
    BY <1>2, <1>4, <1>5 DEF DeskState
  <1>7. desk \in [Desks -> DeskState] BY DEF AdminTypes
  <1>8. [desk EXCEPT ![d].reconciling = FALSE] = [desk EXCEPT ![d] = new1] BY <1>1, <1>3
  <1>9. [desk EXCEPT ![d].reconciling = FALSE, ![d].record = NoLot] = [desk EXCEPT ![d] = new2]
    BY <1>1, <1>3, <1>5, <1>7
  <1>10. desk' = [desk EXCEPT ![d] = new1] => DeskTold(d) /\ desk'[d].record = desk[d].record
    BY <1>1, <1>4, <1>7 DEF DeskTold
  <1>11. desk' = [desk EXCEPT ![d] = new2] => DeskTold(d) /\ desk'[d].record = NoLot
    BY <1>1, <1>6, <1>7 DEF DeskTold
  <1>12. QED BY <1>8, <1>9, <1>10, <1>11

LEMMA DeskHandled ==
    ASSUME AdminHeads, LotteriesInv, AdminTypes, MakersInv, DesksInv, OrphansInv,
           NEW d \in Desks, DeskTold(d), dropped' \in Nat, dropped <= dropped',
           \/ desk'[d].record = desk[d].record
           \/ desk[d].record \in {NoLot} \cup Registered'
           \/ dropped < dropped',
           unheard' \in Nat, unheard <= unheard', misheard' = misheard, Registered \subseteq Registered',
           UNCHANGED <<headVars, maker, creates>>
    PROVE  AdminHeads' /\ LotteriesInv' /\ SpentStays /\ MakersInv' /\ DesksInv' /\ OrphansInv'
  <1>1. /\ desk'[d].record \in {NoLot, desk[d].record} /\ desk'[d].result = desk[d].result
        /\ desk'[d].creating = desk[d].creating
        /\ \A e \in Desks \ {d} : desk'[e] = desk[e]
    BY DEF DeskTold
  <1>2. SameMints /\ HeadsRest BY DEF SameMints, HeadsRest, headVars
  <1>3. AdminHeads' /\ LotteriesInv' /\ SpentStays BY <1>2, RestKeeps
  <1>4. MakersInv' BY DEF MakersInv, headVars
  <1>5. DesksInv'
    <2>1. \A e \in Desks : desk'[e].creating = desk[e].creating BY <1>1
    <2>2. \A e \in Desks : desk'[e].creating # 0 => maker'[desk[e].creating].pc \notin {"idle", "done"}
      BY <2>1 DEF DesksInv, Running
    <2>3. \A e \in Desks : \/ desk'[e].record = desk[e].record /\ desk'[e].result = desk[e].result
                           \/ desk'[e].result = NoLot \/ desk'[e].record \in {NoLot, desk'[e].result}
      BY <1>1
    <2>4. QED BY <2>1, <2>2, <2>3, DesksRest
  <1>6. unheard \in Nat /\ dropped \in Nat /\ misheard \in Nat BY AdminNumbers
  <1>7. ASSUME NEW n \in Makers, Orphaned(n)', ~Orphaned(n)
        PROVE  Minted(n) /\ desk[d].record = maker[n].lot /\ dropped < dropped'
    <2>1. InPool(n)' = InPool(n) /\ Minted(n)' = Minted(n) BY DEF InPool, Minted, headVars
    <2>2. AtDesk(n)' = AtDesk(n) BY <1>1 DEF AtDesk
    <2>3. Minted(n) /\ Kept(maker[n].lot) /\ ~Kept(maker[n].lot)'
      BY <1>7, <2>1, <2>2 DEF Orphaned, Running
    <2>4. maker[n].lot \notin Registered' /\ desk[d].record = maker[n].lot /\ desk'[d].record # maker[n].lot
      BY <1>1, <2>3 DEF Kept
    <2>5. maker[n].lot # NoLot BY <2>3, MintedLot
    <2>6. QED BY <2>3, <2>4, <2>5
  <1>8. OrphansInv'
    <2>1. CASE \E n \in Makers : Orphaned(n)' /\ ~Orphaned(n)
      <3>1. PICK n \in Makers : Orphaned(n)' /\ ~Orphaned(n) BY <2>1
      <3>2. \A p \in Makers : Orphaned(p)' => Orphaned(p) \/ p = n
        <4>1. SUFFICES ASSUME NEW p \in Makers, Orphaned(p)', ~Orphaned(p) PROVE p = n OBVIOUS
        <4>2. Minted(n) /\ Minted(p) /\ maker[n].lot = maker[p].lot BY <1>7, <3>1, <4>1
        <4>3. QED BY <4>2, OneMint
      <3>3. dropped < dropped' BY <1>7, <3>1
      <3>4. QED BY <3>2, <3>3, OrphansLose
    <2>2. CASE ~\E n \in Makers : Orphaned(n)' /\ ~Orphaned(n)
      <3>1. \A n \in Makers : Orphaned(n)' => Orphaned(n) BY <2>2
      <3>2. PICK N : N = {} OBVIOUS
      <3>3. IsFiniteSet(N) /\ Cardinality(N) = 0 BY <3>2, NoneOrOne
      <3>4. unheard + dropped + misheard + Cardinality(N) <= unheard' + dropped' + misheard'
        <4>1. PICK a, b, c, x, y : a = unheard /\ b = dropped /\ c = misheard /\ x = unheard' /\ y = dropped' OBVIOUS
        <4>2. a \in Nat /\ b \in Nat /\ c \in Nat /\ x \in Nat /\ y \in Nat /\ a <= x /\ b <= y BY <1>6, <4>1
        <4>3. a + b + c + 0 <= x + y + c BY <4>2
        <4>4. QED BY <3>3, <4>1, <4>3
      <3>5. misheard' \in Nat BY <1>6
      <3>6. QED BY <3>1, <3>3, <3>4, <3>5, OrphansMove
    <2>3. QED BY <2>1, <2>2
  <1>9. QED BY <1>3, <1>4, <1>5, <1>8

\* The script m ends, and the only desk that waits for it has the lottery to reconcile.
LEMMA SettleUndisturbed ==
    ASSUME AdminTypes, DesksInv, Undisturbed, NEW m \in Makers, Active(m), SameMints, Ends(m), Leaves(m, maker[m].lot),
           UNCHANGED <<headVars, registry>>, asks' \subseteq asks, \A q \in asks' : q.from # m
    PROVE  Undisturbed'
  <1>1. PICK lot : lot = maker[m].lot OBVIOUS
  <1>2. /\ maker'[m].pc = "done" /\ \A n \in Makers \ {m} : maker'[n] = maker[n]
        /\ \A d \in Desks : desk[d].creating # m => desk'[d] = desk[d]
        /\ \A d \in Desks : desk[d].creating = m => desk'[d].record = lot /\ desk'[d].result = lot
    BY <1>1 DEF Ends, Leaves
  <1>3. \A k : Spent(k)' = Spent(k) BY DEF Spent, headVars
  <1>4. Registered' = Registered BY DEF Registered
  <1>5. /\ Spent(lot) /\ lot \notin Registered
        /\ \A n \in Makers \ {m} : Active(n) => maker[n].lot # lot
        /\ \A d \in Desks : desk[d].record # lot /\ desk[d].result # lot
        /\ \A q \in asks' : q.lot # lot
    BY <1>1 DEF Undisturbed
  <1>6. \A d, e \in Desks : desk[d].creating = m /\ desk[e].creating = m => d = e
    <2>1. m # 0 BY AdminNumbers
    <2>2. QED BY <2>1 DEF DesksInv
  <1>7. \A n \in Makers : Active(n)' => n # m /\ Active(n) /\ maker'[n] = maker[n] BY <1>2 DEF Active
  <1>8. \A n \in Makers : InPool(n)' = InPool(n) BY DEF InPool, SameMints, headVars
  <1>9. ASSUME NEW n \in Makers, Active(n)'
        PROVE  /\ Spent(maker[n].lot)' /\ ~InPool(n)'
               /\ \A p \in Makers : Active(p)' /\ maker'[p].lot = maker'[n].lot => p = n
               /\ maker'[n].lot \notin Registered'
               /\ \A d \in Desks : desk'[d].record # maker'[n].lot /\ desk'[d].result # maker'[n].lot
               /\ \A q \in asks' : q.lot = maker'[n].lot => q.from = n
    <2>1. PICK k : k = maker[n].lot OBVIOUS
    <2>2. n # m /\ Active(n) /\ maker'[n] = maker[n] /\ k # lot BY <1>5, <1>7, <1>9, <2>1
    <2>3. /\ Spent(k) /\ ~InPool(n) /\ k \notin Registered
          /\ \A p \in Makers : Active(p) /\ maker[p].lot = k => p = n
          /\ \A d \in Desks : desk[d].record # k /\ desk[d].result # k
          /\ \A q \in asks : q.lot = k => q.from = n
      BY <2>1, <2>2 DEF Undisturbed
    <2>4. Spent(maker[n].lot)' BY <1>3, <2>1, <2>2, <2>3 DEF Spent
    <2>5. \A d \in Desks : desk'[d].record # k /\ desk'[d].result # k BY <1>2, <2>2, <2>3
    <2>6. \A p \in Makers : Active(p)' /\ maker'[p].lot = k => p = n BY <1>7, <2>3
    <2>7. QED BY <1>4, <1>8, <2>1, <2>2, <2>3, <2>4, <2>5, <2>6
  <1>10. \A q \in asks' : q.from \in Makers => maker'[q.from].pc = "waiting" BY <1>2 DEF Undisturbed
  <1>11. \A p, q \in asks' : p.from = q.from => p = q BY DEF Undisturbed
  <1>12. \A q \in asks' : q.from # None /\ Spent(q.lot)' BY <1>3 DEF Undisturbed
  <1>13. \A l \in Registered' : Spent(l)' BY <1>3, <1>4 DEF Undisturbed
  <1>14. ASSUME NEW d \in Desks
         PROVE  /\ desk'[d].result # NoLot => Spent(desk[d].result)'
                /\ desk'[d].record # NoLot =>
                      /\ Spent(desk[d].record)' /\ desk'[d].record \notin Registered'
                      /\ \A q \in asks' : q.lot = desk'[d].record => q.from = d
                      /\ \A e \in Desks \ {d} : desk'[e].record # desk'[d].record /\ desk'[e].result # desk'[d].record
    <2>1. CASE desk[d].creating = m
      <3>1. desk'[d].record = lot /\ desk'[d].result = lot BY <1>2, <2>1
      <3>2. Spent(desk[d].record)' /\ Spent(desk[d].result)' BY <1>3, <1>5, <3>1 DEF Spent
      <3>3. \A e \in Desks \ {d} : desk'[e].record # lot /\ desk'[e].result # lot BY <1>2, <1>5, <1>6, <2>1
      <3>4. QED BY <1>4, <1>5, <3>1, <3>2, <3>3
    <2>2. CASE desk[d].creating # m
      <3>1. PICK a, b : a = desk[d].record /\ b = desk[d].result OBVIOUS
      <3>2. a = desk'[d].record /\ b = desk'[d].result /\ a # lot BY <1>2, <1>5, <2>2, <3>1
      <3>3. b # NoLot => Spent(b)' BY <1>3, <3>1 DEF Undisturbed
      <3>4. a # NoLot => Spent(a)' BY <1>3, <3>1 DEF Undisturbed
      <3>5. a # NoLot => /\ a \notin Registered
                         /\ \A q \in asks : q.lot = a => q.from = d
                         /\ \A e \in Desks \ {d} : desk[e].record # a /\ desk[e].result # a
        BY <3>1 DEF Undisturbed
      <3>6. a # NoLot => \A e \in Desks \ {d} : desk'[e].record # a /\ desk'[e].result # a BY <1>2, <3>2, <3>5
      <3>7. desk'[d].result # NoLot => Spent(desk[d].result)' BY <3>2, <3>3 DEF Spent
      <3>8. desk'[d].record # NoLot => Spent(desk[d].record)' BY <3>2, <3>4 DEF Spent
      <3>9. QED BY <1>4, <3>2, <3>5, <3>6, <3>7, <3>8
    <2>3. QED BY <2>1, <2>2
  <1>15. QED BY <1>9, <1>10, <1>11, <1>12, <1>13, <1>14 DEF Undisturbed

\* The lottery of the request q is registered, and whoever waits for q lets go of it.
LEMMA InsertUndisturbed ==
    ASSUME AdminTypes, AsksInv, Undisturbed, NEW q \in asks, asks' = asks \ {q},
           Registered' = Registered \cup {q.lot}, UNCHANGED headVars,
           \A n \in Makers : n # q.from => maker'[n] = maker[n],
           \A n \in Makers : n = q.from => ~Active(n)',
           \A d \in Desks : desk'[d].record \in {NoLot, desk[d].record} /\ desk'[d].result \in {NoLot, desk[d].result},
           \A d \in Desks : d = q.from => desk'[d].record = NoLot
    PROVE  Undisturbed'
  <1>1. PICK lot : lot = q.lot OBVIOUS
  <1>2. \A k : Spent(k)' = Spent(k) BY DEF Spent, headVars
  <1>3. Spent(lot) /\ lot # NoLot BY <1>1 DEF Undisturbed, AsksInv
  <1>4. Registered' = Registered \cup {lot} BY <1>1
  <1>5. \A n \in Makers : Active(n)' => n # q.from /\ Active(n) /\ maker'[n] = maker[n] BY DEF Active
  <1>6. ASSUME NEW d \in Desks PROVE desk'[d].record # lot
    <2>1. CASE d = q.from BY <1>3, <2>1
    <2>2. CASE d # q.from
      <3>1. desk[d].record # lot BY <1>1, <1>3, <2>2 DEF Undisturbed
      <3>2. QED BY <1>3, <3>1
    <2>3. QED BY <2>1, <2>2
  <1>7. ASSUME NEW n \in Makers, Active(n)'
        PROVE  /\ Spent(maker[n].lot)' /\ ~InPool(n)'
               /\ \A p \in Makers : Active(p)' /\ maker'[p].lot = maker'[n].lot => p = n
               /\ maker'[n].lot \notin Registered'
               /\ \A d \in Desks : desk'[d].record # maker'[n].lot /\ desk'[d].result # maker'[n].lot
               /\ \A r \in asks' : r.lot = maker'[n].lot => r.from = n
    <2>1. PICK k : k = maker[n].lot OBVIOUS
    <2>2. n # q.from /\ Active(n) /\ maker'[n] = maker[n] BY <1>5, <1>7
    <2>3. /\ Spent(k) /\ ~InPool(n) /\ k \notin Registered
          /\ \A p \in Makers : Active(p) /\ maker[p].lot = k => p = n
          /\ \A d \in Desks : desk[d].record # k /\ desk[d].result # k
          /\ \A r \in asks : r.lot = k => r.from = n
      BY <2>1, <2>2 DEF Undisturbed
    <2>4. k # lot /\ k # NoLot BY <1>1, <2>2, <2>3 DEF Spent, NoLot
    <2>5. Spent(maker[n].lot)' BY <1>2, <2>1, <2>2, <2>3 DEF Spent
    <2>6. \A d \in Desks : desk'[d].record # k /\ desk'[d].result # k BY <2>3, <2>4
    <2>7. \A p \in Makers : Active(p)' /\ maker'[p].lot = k => p = n BY <1>5, <2>3
    <2>8. ~InPool(n)' BY <2>2, <2>3 DEF InPool, headVars
    <2>9. QED BY <1>4, <2>1, <2>2, <2>3, <2>4, <2>5, <2>6, <2>7, <2>8
  <1>8. \A r \in asks' : r.from \in Makers => maker'[r.from].pc = "waiting"
    <2>1. \A r \in asks' : r.from # q.from BY DEF Undisturbed
    <2>2. QED BY <2>1 DEF Undisturbed
  <1>9. \A p, r \in asks' : p.from = r.from => p = r BY DEF Undisturbed
  <1>10. \A r \in asks' : r.from # None /\ Spent(r.lot)' BY <1>2 DEF Undisturbed
  <1>11. \A l \in Registered' : Spent(l)' BY <1>2, <1>3, <1>4 DEF Undisturbed
  <1>12. ASSUME NEW d \in Desks
         PROVE  /\ desk'[d].result # NoLot => Spent(desk[d].result)'
                /\ desk'[d].record # NoLot =>
                      /\ Spent(desk[d].record)' /\ desk'[d].record \notin Registered'
                      /\ \A r \in asks' : r.lot = desk'[d].record => r.from = d
                      /\ \A e \in Desks \ {d} : desk'[e].record # desk'[d].record /\ desk'[e].result # desk'[d].record
    <2>1. PICK a, b : a = desk[d].record /\ b = desk[d].result OBVIOUS
    <2>2. desk'[d].record \in {NoLot, a} /\ desk'[d].result \in {NoLot, b} BY <2>1
    <2>3. b # NoLot => Spent(b)' BY <1>2, <2>1 DEF Undisturbed
    <2>4. a # NoLot => Spent(a)' BY <1>2, <2>1 DEF Undisturbed
    <2>5. a # NoLot => /\ a \notin Registered
                       /\ \A r \in asks : r.lot = a => r.from = d
                       /\ \A e \in Desks \ {d} : desk[e].record # a /\ desk[e].result # a
      BY <2>1 DEF Undisturbed
    <2>6. a # NoLot => \A e \in Desks \ {d} : desk'[e].record # a /\ desk'[e].result # a BY <2>5
    <2>7. desk'[d].result # NoLot => Spent(desk[d].result)'
      <3>1. SUFFICES ASSUME desk'[d].result # NoLot PROVE Spent(desk[d].result)' OBVIOUS
      <3>2. b # NoLot /\ desk'[d].result = b BY <2>2, <3>1
      <3>3. QED BY <2>3, <3>2 DEF Spent
    <2>8. desk'[d].record # NoLot => Spent(desk[d].record)'
      <3>1. SUFFICES ASSUME desk'[d].record # NoLot PROVE Spent(desk[d].record)' OBVIOUS
      <3>2. a # NoLot /\ desk'[d].record = a BY <2>2, <3>1
      <3>3. QED BY <2>4, <3>2 DEF Spent
    <2>9. QED BY <1>4, <1>6, <2>2, <2>5, <2>6, <2>7, <2>8
  <1>13. QED BY <1>7, <1>8, <1>9, <1>10, <1>11, <1>12 DEF Undisturbed

\* What is asked is of the lottery of the script that asks.
LEMMA AskUndisturbed ==
    ASSUME AdminTypes, Undisturbed, NEW m \in Makers, maker[m].pc = "register", maker'[m].pc = "waiting",
           NEW q, q.from = m, q.lot = maker[m].lot, asks' = asks \cup {q}, SameMints,
           \A n \in Makers \ {m} : maker'[n] = maker[n], UNCHANGED <<headVars, desk, registry>>
    PROVE  Undisturbed'
  <1>1. PICK lot : lot = maker[m].lot OBVIOUS
  <1>2. \A k : Spent(k)' = Spent(k) BY DEF Spent, headVars
  <1>3. /\ Spent(lot) /\ \A n \in Makers : Active(n) /\ maker[n].lot = lot => n = m
        /\ \A d \in Desks : desk[d].record # lot
    BY <1>1 DEF Undisturbed, Active
  <1>4. m # None BY AdminAssumption DEF Makers
  <1>5. Registered' = Registered BY DEF Registered
  <1>6. \A n \in Makers : Active(n)' = Active(n) /\ maker'[n].lot = maker[n].lot /\ InPool(n)' = InPool(n)
    BY DEF Active, InPool, SameMints, headVars
  <1>7. \A r \in asks : r.from # m BY DEF Undisturbed
  <1>8. ASSUME NEW n \in Makers, Active(n)'
        PROVE  /\ Spent(maker[n].lot)' /\ ~InPool(n)'
               /\ \A p \in Makers : Active(p)' /\ maker'[p].lot = maker'[n].lot => p = n
               /\ maker'[n].lot \notin Registered'
               /\ \A d \in Desks : desk'[d].record # maker'[n].lot /\ desk'[d].result # maker'[n].lot
               /\ \A r \in asks' : r.lot = maker'[n].lot => r.from = n
    <2>1. PICK k : k = maker[n].lot OBVIOUS
    <2>2. Active(n) /\ maker'[n].lot = k BY <1>6, <1>8, <2>1
    <2>3. /\ Spent(k) /\ ~InPool(n) /\ k \notin Registered
          /\ \A p \in Makers : Active(p) /\ maker[p].lot = k => p = n
          /\ \A d \in Desks : desk[d].record # k /\ desk[d].result # k
          /\ \A r \in asks : r.lot = k => r.from = n
      BY <2>1, <2>2 DEF Undisturbed
    <2>4. Spent(maker[n].lot)' BY <1>2, <2>1, <2>2, <2>3 DEF Spent
    <2>5. \A r \in asks' : r.lot = k => r.from = n BY <1>1, <1>3, <2>1, <2>2, <2>3
    <2>6. QED BY <1>5, <1>6, <2>2, <2>3, <2>4, <2>5
  <1>9. \A r \in asks' : r.from \in Makers => maker'[r.from].pc = "waiting" BY <1>7 DEF Undisturbed
  <1>10. \A p, r \in asks' : p.from = r.from => p = r BY <1>7 DEF Undisturbed
  <1>11. \A r \in asks' : r.from # None /\ Spent(r.lot)' BY <1>1, <1>2, <1>3, <1>4 DEF Undisturbed
  <1>12. \A l \in Registered' : Spent(l)' BY <1>2, <1>5 DEF Undisturbed
  <1>13. ASSUME NEW d \in Desks
         PROVE  /\ desk'[d].result # NoLot => Spent(desk[d].result)'
                /\ desk'[d].record # NoLot =>
                      /\ Spent(desk[d].record)' /\ desk'[d].record \notin Registered'
                      /\ \A r \in asks' : r.lot = desk'[d].record => r.from = d
                      /\ \A e \in Desks \ {d} : desk'[e].record # desk'[d].record /\ desk'[e].result # desk'[d].record
    <2>1. PICK a, b : a = desk[d].record /\ b = desk[d].result OBVIOUS
    <2>2. desk'[d].record = a /\ desk'[d].result = b BY <2>1
    <2>3. b # NoLot => Spent(b)' BY <1>2, <2>1 DEF Undisturbed
    <2>4. a # NoLot => Spent(a)' BY <1>2, <2>1 DEF Undisturbed
    <2>5. a # NoLot => /\ a \notin Registered
                       /\ \A r \in asks : r.lot = a => r.from = d
                       /\ \A e \in Desks \ {d} : desk[e].record # a /\ desk[e].result # a
      BY <2>1 DEF Undisturbed
    <2>6. \A r \in asks' : r.lot = a /\ a # NoLot => r.from = d BY <1>1, <1>3, <2>1, <2>5
    <2>7. desk'[d].result # NoLot => Spent(desk[d].result)' BY <2>2, <2>3 DEF Spent
    <2>8. desk'[d].record # NoLot => Spent(desk[d].record)' BY <2>2, <2>4 DEF Spent
    <2>9. QED BY <1>5, <2>2, <2>5, <2>6, <2>7, <2>8
  <1>14. QED BY <1>8, <1>9, <1>10, <1>11, <1>12, <1>13 DEF Undisturbed

\* What every step of a registration leaves alone, and what it has to show of the rest.
Registration ==
    /\ UNCHANGED <<headVars, order, jobs, orders, rushed, creates, misheard>>
    /\ asks' \subseteq Ask /\ IsFiniteSet(asks') /\ registry' \in Seq(Int) /\ overlaps' \in Nat
    /\ unheard' \in Nat /\ unheard <= unheard' /\ dropped' \in Nat
    /\ Registered \subseteq Registered'
    /\ \A q \in asks' : q.lot \in InHand
    /\ \A l \in Registered' : l \in InHand

LEMMA ScriptKeeps ==
    ASSUME AdminInv, Registration, RegistryInv', AsksInv', RecordsInv',
           NEW m \in Makers, NEW needs \in {NoLot, maker[m].lot}, Active(m), SameMints, Handled(m, needs),
           maker' \in [Makers -> MakerState], desk' \in [Desks -> DeskState],
           needs = maker[m].lot \/ maker[m].lot \in Registered'
    PROVE  AdminInv'
  <1>1. /\ AdminHeads /\ LotteriesInv /\ AdminTypes /\ OrdersInv /\ RegistryInv
        /\ MakersInv /\ DesksInv /\ AsksInv /\ MissingInv /\ OrphansInv /\ RecordsInv
    BY DEF AdminInv
  <1>2. /\ UNCHANGED <<headVars, order, jobs, orders, rushed, creates, misheard>>
        /\ asks' \subseteq Ask /\ IsFiniteSet(asks') /\ registry' \in Seq(Int) /\ overlaps' \in Nat
        /\ unheard' \in Nat /\ unheard <= unheard' /\ dropped' \in Nat
        /\ Registered \subseteq Registered'
        /\ \A q \in asks' : q.lot \in InHand
        /\ \A l \in Registered' : l \in InHand
    BY DEF Registration
  <1>3. AdminHeads' /\ LotteriesInv' /\ MakersInv' /\ DesksInv' BY <1>1, <1>2, ScriptHandled
  <1>4. AdminTypes' BY <1>1, <1>2 DEF AdminTypes
  <1>5. OrdersInv' BY <1>1, <1>2, OrdersRest DEF OrdersAside
  <1>6. MissingInv'
    <2>1. /\ \A n \in Makers \ {m} : maker'[n] = maker[n]
          /\ \A d \in Desks : \/ desk'[d].record = desk[d].record /\ desk'[d].result = desk[d].result
                              \/ desk'[d].record = needs /\ desk'[d].result = needs
      BY <1>1, AdminNumbers, HandledFacts
    <2>2. \A n \in Makers : Active(n)' => Active(n) /\ maker'[n].lot = maker[n].lot
      BY <2>1 DEF Active, SameMints
    <2>3. maker[m].lot \in InHand BY DEF InHand
    <2>4. \A l \in InHand' : l \in InHand \/ l = NoLot
      BY <1>2, <2>1, <2>2, <2>3 DEF InHand
    <2>5. misheard' \in Nat /\ misheard <= misheard' BY <1>1, <1>2, AdminNumbers
    <2>6. LotteriesStay BY <1>2 DEF LotteriesStay, headVars
    <2>7. QED BY <1>1, <2>4, <2>5, <2>6, MissingStays
  <1>7. OrphansInv' BY <1>1, <1>2, OrphansHandled
  <1>8. QED BY <1>3, <1>4, <1>5, <1>6, <1>7 DEF AdminInv

LEMMA DeskKeeps ==
    ASSUME AdminInv, Registration, RegistryInv', AsksInv', RecordsInv',
           NEW d \in Desks, DeskTold(d), maker' = maker, dropped <= dropped',
           \/ desk'[d].record = desk[d].record
           \/ desk[d].record \in {NoLot} \cup Registered'
           \/ dropped < dropped'
    PROVE  AdminInv'
  <1>1. /\ AdminHeads /\ LotteriesInv /\ AdminTypes /\ OrdersInv /\ RegistryInv
        /\ MakersInv /\ DesksInv /\ AsksInv /\ MissingInv /\ OrphansInv /\ RecordsInv
    BY DEF AdminInv
  <1>2. /\ UNCHANGED <<headVars, order, jobs, orders, rushed, creates, misheard>>
        /\ asks' \subseteq Ask /\ IsFiniteSet(asks') /\ registry' \in Seq(Int) /\ overlaps' \in Nat
        /\ unheard' \in Nat /\ unheard <= unheard' /\ dropped' \in Nat
        /\ Registered \subseteq Registered'
        /\ \A q \in asks' : q.lot \in InHand
        /\ \A l \in Registered' : l \in InHand
    BY DEF Registration
  <1>3. AdminHeads' /\ LotteriesInv' /\ MakersInv' /\ DesksInv' /\ OrphansInv' BY <1>1, <1>2, DeskHandled
  <1>4. desk' \in [Desks -> DeskState]
        /\ \A e \in Desks : desk'[e].record \in {NoLot, desk[e].record} /\ desk'[e].result = desk[e].result
    BY DEF DeskTold
  <1>5. AdminTypes' BY <1>1, <1>2, <1>4 DEF AdminTypes
  <1>6. OrdersInv' BY <1>1, <1>2, OrdersRest DEF OrdersAside
  <1>7. MissingInv'
    <2>0. \A e \in Desks : /\ desk'[e].record = NoLot \/ desk'[e].record \in InHand
                          /\ desk'[e].result \in InHand
      BY <1>4 DEF InHand
    <2>1. \A l \in InHand' : l \in InHand \/ l = NoLot
      <3>1. \A n \in Makers : Active(n)' => maker'[n].lot \in InHand BY DEF InHand, Active
      <3>2. QED BY <1>2, <2>0, <3>1 DEF InHand
    <2>2. misheard' \in Nat /\ misheard <= misheard' BY <1>1, <1>2, AdminNumbers
    <2>3. LotteriesStay BY <1>2 DEF LotteriesStay, headVars
    <2>4. QED BY <1>1, <2>1, <2>2, <2>3, MissingStays
  <1>8. QED BY <1>3, <1>5, <1>6, <1>7 DEF AdminInv

\* Nobody hears of it.
LEMMA NobodyKeeps ==
    ASSUME AdminInv, Registration, RegistryInv', AsksInv', RecordsInv', UNCHANGED <<maker, desk, dropped>>
    PROVE  AdminInv'
  <1>1. /\ AdminHeads /\ LotteriesInv /\ AdminTypes /\ OrdersInv /\ RegistryInv
        /\ MakersInv /\ DesksInv /\ AsksInv /\ MissingInv /\ OrphansInv /\ RecordsInv
    BY DEF AdminInv
  <1>2. /\ UNCHANGED <<headVars, order, jobs, orders, rushed, creates, misheard>>
        /\ asks' \subseteq Ask /\ IsFiniteSet(asks') /\ registry' \in Seq(Int) /\ overlaps' \in Nat
        /\ unheard' \in Nat /\ unheard <= unheard' /\ dropped' \in Nat
        /\ Registered \subseteq Registered'
        /\ \A q \in asks' : q.lot \in InHand
        /\ \A l \in Registered' : l \in InHand
    BY DEF Registration
  <1>3. SameMints /\ HeadsRest BY <1>2 DEF SameMints, HeadsRest, headVars
  <1>4. AdminHeads' /\ LotteriesInv' BY <1>1, <1>3, RestKeeps
  <1>5. MakersInv' BY <1>1, <1>2 DEF MakersInv, headVars
  <1>6. DesksInv' BY <1>1 DEF DesksInv, Running
  <1>7. AdminTypes' BY <1>1, <1>2 DEF AdminTypes
  <1>8. OrdersInv' BY <1>1, <1>2, OrdersRest DEF OrdersAside
  <1>9. MissingInv'
    <2>1. \A l \in InHand' : l \in InHand \/ l = NoLot BY <1>2 DEF InHand, Active
    <2>2. misheard' \in Nat /\ misheard <= misheard' BY <1>1, <1>2, AdminNumbers
    <2>3. LotteriesStay BY <1>2 DEF LotteriesStay, headVars
    <2>4. QED BY <1>1, <2>1, <2>2, <2>3, MissingStays
  <1>10. OrphansInv'
    <2>1. \A n \in Makers : Orphaned(n)' => Orphaned(n)
      BY <1>2 DEF Orphaned, AtDesk, InPool, Minted, Kept, Running, headVars
    <2>2. PICK N : N = {} OBVIOUS
    <2>3. IsFiniteSet(N) /\ Cardinality(N) = 0 BY <2>2, NoneOrOne
    <2>4. unheard + dropped + misheard + Cardinality(N) <= unheard' + dropped' + misheard'
      <3>1. PICK a, b, c, x : a = unheard /\ b = dropped /\ c = misheard /\ x = unheard' OBVIOUS
      <3>2. a \in Nat /\ b \in Nat /\ c \in Nat /\ x \in Nat /\ a <= x BY <1>1, <1>2, <3>1, AdminNumbers
      <3>3. a + b + c + 0 <= x + b + c BY <3>2
      <3>4. QED BY <1>2, <2>3, <3>1, <3>3
    <2>5. misheard' \in Nat BY <1>1, <1>2, AdminNumbers
    <2>6. QED BY <1>1, <1>2, <2>1, <2>3, <2>4, <2>5, OrphansMove
  <1>11. QED BY <1>4, <1>5, <1>6, <1>7, <1>8, <1>9, <1>10 DEF AdminInv

LEMMA RetryUndisturbed ==
    ASSUME AdminTypes, DesksInv, Undisturbed, NEW m \in Makers, Active(m), SameMints,
           GoesOn(m, "register") \/ (Ends(m) /\ Leaves(m, maker[m].lot)),
           UNCHANGED <<headVars, registry>>, asks' \subseteq asks, \A q \in asks' : q.from # m
    PROVE  Undisturbed'
  <1>1. CASE Ends(m) /\ Leaves(m, maker[m].lot) BY <1>1, SettleUndisturbed
  <1>2. CASE GoesOn(m, "register")
    <2>1. \A n \in Makers \ {m} : maker'[n] = maker[n] BY <1>2 DEF GoesOn
    <2>2. desk' = desk BY <1>2 DEF GoesOn
    <2>3. \A n \in Makers : Active(n)' => Active(n) /\ maker'[n].lot = maker[n].lot /\ (InPool(n)' => InPool(n))
      BY <2>1 DEF Active, SameMints, InPool, headVars
    <2>4. \A q \in asks' : q.from \in Makers => maker'[q.from].pc = "waiting" BY <2>1 DEF Undisturbed
    <2>5. \A p, q \in asks' : p.from = q.from => p = q BY DEF Undisturbed
    <2>6. \A q \in asks' : \E p \in asks : p.from = q.from /\ p.lot = q.lot OBVIOUS
    <2>7. \A d \in Desks : desk'[d].record \in {NoLot, desk[d].record} /\ desk'[d].result \in {NoLot, desk[d].result}
      BY <2>2
    <2>8. SpentStays BY DEF SpentStays, Spent, headVars
    <2>9. QED BY <2>3, <2>4, <2>5, <2>6, <2>7, <2>8, UndisturbedStays
  <1>3. QED BY <1>1, <1>2

LEMMA RegisterKeeps ==
    ASSUME AdminInv, NEW m \in Makers, Register(m)
    PROVE  AdminInv'
  <1>1. /\ AdminHeads /\ LotteriesInv /\ AdminTypes /\ OrdersInv /\ RegistryInv
        /\ MakersInv /\ DesksInv /\ AsksInv /\ MissingInv /\ OrphansInv /\ RecordsInv
    BY DEF AdminInv
  <1>2. maker[m].pc = "register" /\ Active(m) BY DEF Register, Active
  <1>3. UNCHANGED <<headVars, registry, order, jobs, creates, orders, unheard, misheard, overlaps, rushed>>
    BY DEF Register
  <1>4. /\ asks \subseteq Ask /\ IsFiniteSet(asks) /\ unheard \in Nat /\ dropped \in Nat /\ misheard \in Nat
        /\ overlaps \in Nat /\ registry \in Seq(Int) /\ maker[m] \in MakerState
    BY <1>1, AdminNumbers DEF AdminTypes
  <1>5. PICK lot : lot = maker[m].lot OBVIOUS
  <1>6. lot \in Int /\ lot \in InHand /\ lot # NoLot /\ maker[m].tx # 0
    <2>1. maker[m].tx # 0 BY <1>1, <1>2 DEF MakersInv
    <2>2. lot \in 1..sent BY <1>1, <1>5, <2>1 DEF MakersInv
    <2>3. lot \in InHand BY <1>2, <1>5 DEF InHand
    <2>4. QED BY <2>1, <2>2, <2>3 DEF NoLot
  <1>7. Registered' = Registered BY <1>3 DEF Registered
  <1>8. (\A q \in asks : q.lot \in InHand) /\ \A l \in Registered : l \in InHand BY DEF InHand
  <1>9. CASE \E q : /\ q = [from |-> m, lot |-> lot, pc |-> "count"] /\ asks' = asks \cup {q}
                    /\ maker' = [maker EXCEPT ![m].pc = "waiting"] /\ UNCHANGED <<desk, dropped>>
    <2>1. PICK q : /\ q = [from |-> m, lot |-> lot, pc |-> "count"] /\ asks' = asks \cup {q}
                   /\ maker' = [maker EXCEPT ![m].pc = "waiting"] /\ UNCHANGED <<desk, dropped>>
      BY <1>9
    <2>2. q \in Ask /\ q.from = m /\ q.lot = lot /\ q.pc = "count" BY <1>6, <2>1 DEF Ask
    <2>3. /\ maker' \in [Makers -> MakerState] /\ maker'[m].pc = "waiting" /\ SameMints
          /\ \A n \in Makers \ {m} : maker'[n] = maker[n]
      BY <1>1, <2>1 DEF AdminTypes, MakerState, SameMints
    <2>4. asks' \subseteq Ask /\ IsFiniteSet(asks') BY <1>4, <2>1, <2>2, FS_AddElement
    <2>5. Registration
      <3>1. \A p \in asks' : p.lot \in InHand BY <1>6, <1>8, <2>1, <2>2
      <3>2. QED BY <1>3, <1>4, <1>7, <1>8, <2>1, <2>4, <3>1 DEF Registration
    <2>6. Inserting' = Inserting BY <2>1, <2>2 DEF Inserting
    <2>7. RegistryInv' BY <1>1, <1>3, <1>7, <2>6 DEF RegistryInv
    <2>8. m \notin Desks BY AdminAssumption DEF Makers
    <2>9. AsksInv'
      <3>1. ASSUME NEW p \in asks'
            PROVE  /\ p.lot # NoLot
                   /\ p.from \in Desks => desk'[p.from].reconciling
                   /\ p.from \in Makers => maker'[p.from].tx # 0 /\ maker'[p.from].lot = p.lot
        <4>1. CASE p \in asks BY <1>1, <2>1, <2>3, <4>1 DEF AsksInv, SameMints
        <4>2. CASE p = q BY <1>5, <1>6, <2>2, <2>3, <2>8, <4>2 DEF SameMints
        <4>3. QED BY <2>1, <4>1, <4>2
      <3>2. \A p, r \in asks' : p.from = r.from /\ p.from \in Desks => p = r
        BY <1>1, <2>1, <2>2, <2>8 DEF AsksInv
      <3>3. QED BY <3>1, <3>2 DEF AsksInv
    <2>10. RecordsInv'
      <3>1. SUFFICES ASSUME unheard' + misheard' = 0 PROVE Undisturbed' BY DEF RecordsInv
      <3>2. Undisturbed BY <1>1, <1>3, <3>1 DEF RecordsInv
      <3>3. QED BY <1>1, <1>2, <1>3, <1>5, <2>1, <2>2, <2>3, <3>2, AskUndisturbed
    <2>11. Handled(m, lot) BY <2>1, <2>3 DEF Handled, GoesOn
    <2>12. QED BY <1>2, <1>5, <2>3, <2>5, <2>7, <2>9, <2>10, <2>11, ScriptKeeps, <1>1, <2>1 DEF AdminTypes
  <1>10. CASE Retry(m) /\ asks' = asks
    <2>1. /\ maker' \in [Makers -> MakerState] /\ desk' \in [Desks -> DeskState] /\ dropped' \in Nat
          /\ SameMints /\ (GoesOn(m, "register") \/ (Ends(m) /\ Leaves(m, maker[m].lot)))
      BY <1>1, <1>10, RetryEnds
    <2>2. Registration BY <1>3, <1>4, <1>7, <1>8, <1>10, <2>1 DEF Registration
    <2>3. RegistryInv' BY <1>1, <1>3, <1>7, <1>10 DEF RegistryInv, Inserting
    <2>4. AsksInv'
      <3>1. \A d \in Desks : desk'[d].reconciling = desk[d].reconciling BY <2>1 DEF GoesOn, Ends
      <3>2. QED BY <1>1, <1>10, <2>1, <3>1 DEF AsksInv, SameMints
    <2>5. RecordsInv'
      <3>1. SUFFICES ASSUME unheard' + misheard' = 0 PROVE Undisturbed' BY DEF RecordsInv
      <3>2. Undisturbed BY <1>1, <1>3, <3>1 DEF RecordsInv
      <3>3. \A q \in asks' : q.from # m BY <1>2, <1>10, <3>2 DEF Undisturbed
      <3>4. QED BY <1>1, <1>2, <1>3, <1>10, <2>1, <3>2, <3>3, RetryUndisturbed
    <2>6. Handled(m, lot) BY <1>5, <2>1 DEF Handled
    <2>7. QED BY <1>2, <1>5, <2>1, <2>2, <2>3, <2>4, <2>5, <2>6, ScriptKeeps
  <1>11. QED BY <1>5, <1>9, <1>10 DEF Register

Waits(q) == q.from \in Makers /\ maker[q.from].pc = "waiting"

LEMMA ToldYes ==
    ASSUME NEW q \in asks, Told(q, TRUE)
    PROVE  \/ Waits(q) /\ Settle(q.from, NoLot)
           \/ /\ q.from \in Desks /\ UNCHANGED maker
              /\ desk' = [desk EXCEPT ![q.from].reconciling = FALSE, ![q.from].record = NoLot]
              /\ dropped' = IF desk[q.from].record \in {NoLot, q.lot} \cup Registered THEN dropped ELSE dropped + 1
           \/ ~Waits(q) /\ q.from \notin Desks /\ UNCHANGED <<desk, maker, dropped>>
  <1>1. Waits(q) => q.from \notin Desks BY AdminAssumption DEF Waits, Makers
  <1>2. CASE Waits(q) BY <1>1, <1>2 DEF Told, Waits
  <1>3. CASE ~Waits(q) /\ q.from \in Desks BY <1>3 DEF Told, Waits
  <1>4. CASE ~Waits(q) /\ q.from \notin Desks BY <1>4 DEF Told, Waits
  <1>5. QED BY <1>2, <1>3, <1>4

LEMMA ToldNo ==
    ASSUME NEW q \in asks, Told(q, FALSE)
    PROVE  \/ Waits(q) /\ Retry(q.from)
           \/ /\ q.from \in Desks /\ UNCHANGED <<maker, dropped>>
              /\ desk' = [desk EXCEPT ![q.from].reconciling = FALSE]
           \/ ~Waits(q) /\ q.from \notin Desks /\ UNCHANGED <<desk, maker, dropped>>
  <1>1. Waits(q) => q.from \notin Desks BY AdminAssumption DEF Waits, Makers
  <1>2. CASE Waits(q) BY <1>1, <1>2 DEF Told, Waits
  <1>3. CASE ~Waits(q) /\ q.from \in Desks BY <1>3 DEF Told, Waits
  <1>4. CASE ~Waits(q) /\ q.from \notin Desks BY <1>4 DEF Told, Waits
  <1>5. QED BY <1>2, <1>3, <1>4

LEMMA FewerAsks ==
    ASSUME AdminTypes, RegistryInv, NEW q \in asks, asks' = asks \ {q}, registry' = registry, overlaps' = overlaps
    PROVE  asks' \subseteq Ask /\ IsFiniteSet(asks') /\ RegistryInv'
  <1>1. asks' \subseteq Ask /\ IsFiniteSet(asks') BY FS_RemoveElement DEF AdminTypes
  <1>2. PICK S, T : S = Inserting /\ T = Inserting' OBVIOUS
  <1>3. S \in SUBSET asks /\ T \in SUBSET S BY <1>2 DEF Inserting
  <1>4. IsFiniteSet(S) BY <1>3, FS_Subset DEF AdminTypes
  <1>5. IsFiniteSet(T) /\ Cardinality(T) <= Cardinality(S) BY <1>3, <1>4, FS_Subset
  <1>6. QED BY <1>1, <1>2, <1>5, FewerInserts

\* The request q is answered, and the rest of the requests are as they were.
LEMMA AsksAnswered ==
    ASSUME AsksInv, SameMints, NEW q \in asks, asks' = asks \ {q},
           \A p \in asks' : p.from \in Desks /\ p.from # q.from => desk'[p.from].reconciling = desk[p.from].reconciling
    PROVE  AsksInv'
  <1>1. \A p \in asks' : p.from \in Desks => p.from # q.from BY DEF AsksInv
  <1>2. \A p \in asks' : p.from \in Desks => desk'[p.from].reconciling BY <1>1 DEF AsksInv
  <1>3. \A p, r \in asks' : p.from = r.from /\ p.from \in Desks => p = r BY DEF AsksInv
  <1>4. \A p \in asks' : (\E r \in asks : r.lot = p.lot /\ r.from = p.from) \/ (p.from = None /\ p.lot # NoLot) OBVIOUS
  <1>5. QED BY <1>2, <1>3, <1>4, AsksRest

\* Some lottery is active: the request is refused.
LEMMA RefusalKeeps ==
    ASSUME AdminInv, NEW q \in asks, asks' = asks \ {q}, Told(q, FALSE),
           UNCHANGED <<headVars, registry, order, jobs, creates, orders, unheard, misheard, overlaps, rushed>>
    PROVE  AdminInv'
  <1>1. /\ AdminHeads /\ LotteriesInv /\ AdminTypes /\ OrdersInv /\ RegistryInv
        /\ MakersInv /\ DesksInv /\ AsksInv /\ MissingInv /\ OrphansInv /\ RecordsInv
    BY DEF AdminInv
  <1>2. /\ unheard \in Nat /\ dropped \in Nat /\ misheard \in Nat
        /\ overlaps \in Nat /\ registry \in Seq(Int)
    BY <1>1, AdminNumbers DEF AdminTypes
  <1>3. asks' \subseteq Ask /\ IsFiniteSet(asks') /\ RegistryInv' BY <1>1, FewerAsks
  <1>4. Registered' = Registered BY DEF Registered
  <1>5. (\A p \in asks : p.lot \in InHand) /\ \A l \in Registered : l \in InHand BY DEF InHand
  <1>6. ASSUME dropped' \in Nat PROVE Registration BY <1>2, <1>3, <1>4, <1>5, <1>6 DEF Registration
  <1>7. Undisturbed => \A p \in asks' : p.from # q.from BY DEF Undisturbed
  <1>8. CASE Waits(q) /\ Retry(q.from)
    <2>1. PICK m \in Makers : m = q.from /\ maker[m].pc = "waiting" /\ Retry(m) BY <1>8 DEF Waits
    <2>2. Active(m) BY <2>1 DEF Active
    <2>3. /\ maker' \in [Makers -> MakerState] /\ desk' \in [Desks -> DeskState] /\ dropped' \in Nat
          /\ SameMints /\ (GoesOn(m, "register") \/ (Ends(m) /\ Leaves(m, maker[m].lot)))
      BY <1>1, <2>1, RetryEnds
    <2>4. AsksInv'
      <3>1. \A d \in Desks : desk'[d].reconciling = desk[d].reconciling BY <2>3 DEF GoesOn, Ends
      <3>2. QED BY <1>1, <2>3, <3>1, AsksAnswered
    <2>5. RecordsInv'
      <3>1. SUFFICES ASSUME unheard' + misheard' = 0 PROVE Undisturbed' BY DEF RecordsInv
      <3>2. Undisturbed BY <1>1, <3>1 DEF RecordsInv
      <3>3. \A p \in asks' : p.from # m BY <1>7, <2>1, <3>2
      <3>4. QED BY <1>1, <2>2, <2>3, <3>2, <3>3, RetryUndisturbed
    <2>6. PICK lot : lot = maker[m].lot OBVIOUS
    <2>7. Handled(m, lot) BY <2>3, <2>6 DEF Handled
    <2>8. Registration BY <1>6, <2>3
    <2>9. QED BY <1>3, <2>2, <2>3, <2>4, <2>5, <2>6, <2>7, <2>8, ScriptKeeps
  <1>9. CASE q.from \in Desks /\ UNCHANGED <<maker, dropped>> /\ desk' = [desk EXCEPT ![q.from].reconciling = FALSE]
    <2>1. PICK d \in Desks : d = q.from /\ desk' = [desk EXCEPT ![d].reconciling = FALSE] BY <1>9
    <2>2. DeskTold(d) /\ desk'[d].record = desk[d].record BY <1>1, <2>1, DeskEnds
    <2>3. \A e \in Desks \ {d} : desk'[e] = desk[e] BY <2>2 DEF DeskTold
    <2>4. SameMints /\ dropped' \in Nat /\ dropped <= dropped' BY <1>2, <1>9 DEF SameMints
    <2>5. AsksInv' BY <1>1, <2>1, <2>3, <2>4, AsksAnswered
    <2>6. RecordsInv'
      <3>1. SUFFICES ASSUME unheard' + misheard' = 0 PROVE Undisturbed' BY DEF RecordsInv
      <3>2. Undisturbed BY <1>1, <3>1 DEF RecordsInv
      <3>3. \A e \in Desks : desk'[e].record \in {NoLot, desk[e].record} /\ desk'[e].result \in {NoLot, desk[e].result}
        BY <2>2 DEF DeskTold
      <3>4. \A n \in Makers : Active(n)' => Active(n) /\ maker'[n].lot = maker[n].lot /\ (InPool(n)' => InPool(n))
        BY <1>9 DEF Active, InPool, headVars
      <3>5. \A p \in asks' : p.from \in Makers => maker'[p.from].pc = "waiting" BY <1>9, <3>2 DEF Undisturbed
      <3>6. \A p, r \in asks' : p.from = r.from => p = r BY <3>2 DEF Undisturbed
      <3>7. \A p \in asks' : \E r \in asks : r.from = p.from /\ r.lot = p.lot OBVIOUS
      <3>8. SpentStays BY DEF SpentStays, Spent, headVars
      <3>9. QED BY <3>2, <3>3, <3>4, <3>5, <3>6, <3>7, <3>8, UndisturbedStays
    <2>7. Registration BY <1>6, <2>4
    <2>8. QED BY <1>3, <1>9, <2>2, <2>4, <2>5, <2>6, <2>7, DeskKeeps
  <1>10. CASE ~Waits(q) /\ q.from \notin Desks /\ UNCHANGED <<desk, maker, dropped>>
    <2>1. SameMints /\ dropped' \in Nat BY <1>2, <1>10 DEF SameMints
    <2>2. AsksInv' BY <1>1, <1>10, <2>1, AsksAnswered
    <2>3. RecordsInv'
      <3>1. SUFFICES ASSUME unheard' + misheard' = 0 PROVE Undisturbed' BY DEF RecordsInv
      <3>2. Undisturbed BY <1>1, <3>1 DEF RecordsInv
      <3>3. q.from # None /\ q.from \in Makers \cup Desks \cup {None}
        BY <1>1, <3>2 DEF Undisturbed, AdminTypes, Ask
      <3>4. Waits(q) BY <1>10, <3>2, <3>3 DEF Waits, Undisturbed
      <3>5. QED BY <1>10, <3>4
    <2>4. Registration BY <1>6, <2>1
    <2>5. QED BY <1>3, <1>10, <2>2, <2>3, <2>4, NobodyKeeps
  <1>11. QED BY <1>8, <1>9, <1>10, ToldNo

LEMMA CountKeeps ==
    ASSUME AdminInv, NEW q \in asks, CountActive(q)
    PROVE  AdminInv'
  <1>1. /\ AdminHeads /\ LotteriesInv /\ AdminTypes /\ OrdersInv /\ RegistryInv
        /\ MakersInv /\ DesksInv /\ AsksInv /\ MissingInv /\ OrphansInv /\ RecordsInv
    BY DEF AdminInv
  <1>2. q.pc = "count" /\ UNCHANGED <<headVars, registry, order, jobs, creates, orders, faults, unheard, misheard, rushed>>
    BY DEF CountActive
  <1>3. CASE registry # <<>>
    <2>1. asks' = asks \ {q} /\ Told(q, FALSE) /\ UNCHANGED overlaps BY <1>3 DEF CountActive
    <2>2. QED BY <1>2, <2>1, RefusalKeeps
  <1>4. CASE registry = <<>>
    <2>1. PICK p : p = [q EXCEPT !.pc = "insert"] OBVIOUS
    <2>2. /\ asks' = (asks \ {q}) \cup {p}
          /\ overlaps' = IF \E r \in asks : r.pc = "insert" THEN overlaps + 1 ELSE overlaps
          /\ UNCHANGED <<desk, maker, dropped>>
      BY <1>4, <2>1 DEF CountActive
    <2>3. /\ asks \subseteq Ask /\ IsFiniteSet(asks) /\ unheard \in Nat /\ dropped \in Nat /\ misheard \in Nat
          /\ overlaps \in Nat /\ registry \in Seq(Int)
      BY <1>1 DEF AdminTypes
    <2>4. p \in Ask /\ p.from = q.from /\ p.lot = q.lot /\ p.pc = "insert" BY <2>1, <2>3 DEF Ask
    <2>5. asks' \subseteq Ask /\ IsFiniteSet(asks')
      <3>1. IsFiniteSet(asks \ {q}) BY <2>3, FS_RemoveElement
      <3>2. IsFiniteSet((asks \ {q}) \cup {p}) BY <3>1, FS_AddElement
      <3>3. QED BY <2>2, <2>3, <2>4, <3>2
    <2>6. overlaps' \in Nat BY <2>2, <2>3
    <2>7. Registered' = Registered BY <1>2 DEF Registered
    <2>8. (\A r \in asks : r.lot \in InHand) /\ \A l \in Registered : l \in InHand BY DEF InHand
    <2>9. Registration
      <3>1. \A r \in asks' : r.lot \in InHand BY <2>2, <2>4, <2>8
      <3>2. QED BY <1>2, <2>2, <2>3, <2>5, <2>6, <2>7, <2>8, <3>1 DEF Registration
    <2>10. RegistryInv'
      <3>1. PICK S, T, N : S = Inserting /\ T = Inserting' /\ N = {p} OBVIOUS
      <3>2. T \subseteq S \cup N BY <2>2, <3>1 DEF Inserting
      <3>3. IsFiniteSet(S)
        <4>1. S \in SUBSET asks BY <3>1 DEF Inserting
        <4>2. QED BY <2>3, <4>1, FS_Subset
      <3>4. IsFiniteSet(N) /\ Cardinality(N) = 1 BY <3>1, NoneOrOne
      <3>5. Cardinality(T) <= Cardinality(S) + 1 /\ Cardinality(T) \in Nat /\ Cardinality(S) \in Nat
        BY <3>2, <3>3, <3>4, CountGrows
      <3>6. Len(registry) = 0 /\ Cardinality(S) <= 1 + overlaps /\ NoLot \notin Registered
        <4>1. Len(registry) = 0 BY <1>4
        <4>2. Len(registry) + Cardinality(S) <= 1 + overlaps /\ NoLot \notin Registered BY <1>1, <3>1 DEF RegistryInv
        <4>3. QED BY <2>3, <3>5, <4>1, <4>2
      <3>7. Cardinality(T) <= 1 + overlaps'
        <4>1. CASE S = {}
          <5>1. Cardinality(S) = 0 BY <4>1, NoneOrOne
          <5>2. Cardinality(T) <= 1 BY <3>5, <5>1
          <5>3. QED BY <2>6, <3>5, <5>2
        <4>2. CASE S # {}
          <5>1. overlaps' = overlaps + 1 BY <2>2, <3>1, <4>2 DEF Inserting
          <5>2. QED BY <2>3, <3>5, <3>6, <5>1
        <4>3. QED BY <4>1, <4>2
      <3>8. QED BY <1>2, <2>6, <2>7, <3>1, <3>5, <3>6, <3>7 DEF RegistryInv
    <2>11. AsksInv'
      <3>1. SameMints BY <2>2 DEF SameMints
      <3>2. \A r \in asks' : (\E s \in asks : s.lot = r.lot /\ s.from = r.from) \/ (r.from = None /\ r.lot # NoLot)
        BY <2>2, <2>4
      <3>3. \A r \in asks' : r.from \in Desks => desk'[r.from].reconciling BY <1>1, <2>2, <2>4 DEF AsksInv
      <3>4. \A r, s \in asks' : r.from = s.from /\ r.from \in Desks => r = s BY <1>1, <2>2, <2>4 DEF AsksInv
      <3>5. QED BY <1>1, <3>1, <3>2, <3>3, <3>4, AsksRest
    <2>12. RecordsInv'
      <3>1. SUFFICES ASSUME unheard' + misheard' = 0 PROVE Undisturbed' BY DEF RecordsInv
      <3>2. Undisturbed BY <1>1, <1>2, <3>1 DEF RecordsInv
      <3>3. \A e \in Desks : desk'[e].record \in {NoLot, desk[e].record} /\ desk'[e].result \in {NoLot, desk[e].result}
        BY <2>2
      <3>4. \A n \in Makers : Active(n)' => Active(n) /\ maker'[n].lot = maker[n].lot /\ (InPool(n)' => InPool(n))
        BY <1>2, <2>2 DEF Active, InPool, headVars
      <3>5. \A r \in asks' : r.from \in Makers => maker'[r.from].pc = "waiting" BY <2>2, <2>4, <3>2 DEF Undisturbed
      <3>6. \A r, s \in asks' : r.from = s.from => r = s BY <2>2, <2>4, <3>2 DEF Undisturbed
      <3>7. \A r \in asks' : \E s \in asks : s.from = r.from /\ s.lot = r.lot BY <2>2, <2>4
      <3>8. SpentStays BY <1>2 DEF SpentStays, Spent, headVars
      <3>9. registry' = registry BY <1>2
      <3>10. QED BY <3>2, <3>3, <3>4, <3>5, <3>6, <3>7, <3>8, <3>9, UndisturbedStays
    <2>13. QED BY <2>2, <2>9, <2>10, <2>11, <2>12, NobodyKeeps
  <1>5. QED BY <1>3, <1>4

LEMMA InsertKeeps ==
    ASSUME AdminInv, NEW q \in asks, Insert(q)
    PROVE  AdminInv'
  <1>1. /\ AdminHeads /\ LotteriesInv /\ AdminTypes /\ OrdersInv /\ RegistryInv
        /\ MakersInv /\ DesksInv /\ AsksInv /\ MissingInv /\ OrphansInv /\ RecordsInv
    BY DEF AdminInv
  <1>2. /\ q.pc = "insert" /\ registry' = Append(registry, q.lot) /\ asks' = asks \ {q} /\ Told(q, TRUE)
        /\ UNCHANGED <<headVars, order, jobs, creates, orders, faults, unheard, misheard, overlaps, rushed>>
    BY DEF Insert
  <1>3. /\ asks \subseteq Ask /\ IsFiniteSet(asks) /\ unheard \in Nat /\ dropped \in Nat /\ misheard \in Nat
        /\ overlaps \in Nat /\ registry \in Seq(Int)
    BY <1>1 DEF AdminTypes
  <1>4. PICK lot : lot = q.lot OBVIOUS
  <1>5. lot \in Int /\ lot # NoLot BY <1>1, <1>3, <1>4 DEF Ask, AsksInv
  <1>6. /\ registry' \in Seq(Int) /\ Len(registry') = Len(registry) + 1 /\ Len(registry) \in Nat
        /\ DOMAIN registry = 1..Len(registry) /\ DOMAIN registry' = 1..(Len(registry) + 1)
        /\ \A i \in DOMAIN registry : registry'[i] = registry[i]
        /\ registry'[Len(registry) + 1] = lot
    BY <1>2, <1>3, <1>4, <1>5, SeqAppends
  <1>7. Registered' = Registered \cup {lot}
    <2>1. \A i \in DOMAIN registry' : registry'[i] \in Registered \cup {lot}
      <3>1. \A i \in DOMAIN registry' : i \in DOMAIN registry \/ i = Len(registry) + 1 BY <1>6
      <3>2. QED BY <1>6, <3>1 DEF Registered
    <2>2. \A i \in DOMAIN registry : i \in DOMAIN registry' BY <1>6
    <2>3. Len(registry) + 1 \in DOMAIN registry' BY <1>6
    <2>4. QED BY <1>6, <2>1, <2>2, <2>3 DEF Registered
  <1>8. asks' \subseteq Ask /\ IsFiniteSet(asks') BY <1>2, <1>3, FS_RemoveElement
  <1>9. RegistryInv'
    <2>1. PICK S, T : S = Inserting /\ T = Inserting' OBVIOUS
    <2>2. S \in SUBSET asks BY <2>1 DEF Inserting
    <2>3. IsFiniteSet(S) BY <1>3, <2>2, FS_Subset
    <2>4. T = S \ {q} /\ q \in S BY <1>2, <2>1 DEF Inserting
    <2>5. Cardinality(T) = Cardinality(S) - 1 /\ Cardinality(S) \in Nat
      BY <2>3, <2>4, FS_RemoveElement, FS_CardinalityType
    <2>6. Len(registry) + Cardinality(S) <= 1 + overlaps /\ NoLot \notin Registered
      BY <1>1, <2>1 DEF RegistryInv
    <2>7. (Len(registry) + 1) + Cardinality(T) <= 1 + overlaps BY <1>3, <1>6, <2>5, <2>6
    <2>8. QED BY <1>2, <1>5, <1>6, <1>7, <2>1, <2>6, <2>7 DEF RegistryInv
  <1>10. (\A p \in asks : p.lot \in InHand) /\ \A l \in Registered : l \in InHand BY DEF InHand
  <1>11. ASSUME dropped' \in Nat PROVE Registration
    <2>1. (\A p \in asks' : p.lot \in InHand) /\ (\A l \in Registered' : l \in InHand) /\ Registered \subseteq Registered'
      BY <1>2, <1>4, <1>7, <1>10
    <2>2. QED BY <1>2, <1>3, <1>6, <1>8, <1>11, <2>1 DEF Registration
  <1>12. CASE Waits(q) /\ Settle(q.from, NoLot)
    <2>1. PICK m \in Makers : m = q.from /\ maker[m].pc = "waiting" /\ Settle(m, NoLot) BY <1>12 DEF Waits
    <2>2. Active(m) /\ maker[m].lot = lot BY <1>1, <1>4, <2>1 DEF Active, AsksInv
    <2>3. PICK none : none = NoLot /\ none \in Int BY DEF NoLot
    <2>4. /\ maker' \in [Makers -> MakerState] /\ desk' \in [Desks -> DeskState] /\ dropped' \in Nat
          /\ SameMints /\ Ends(m) /\ Leaves(m, none)
      BY <1>1, <2>1, <2>3, SettleEnds
    <2>5. AsksInv'
      <3>1. \A d \in Desks : desk'[d].reconciling = desk[d].reconciling BY <2>4 DEF Ends
      <3>2. QED BY <1>1, <1>2, <2>4, <3>1, AsksAnswered
    <2>6. RecordsInv'
      <3>1. SUFFICES ASSUME unheard' + misheard' = 0 PROVE Undisturbed' BY DEF RecordsInv
      <3>2. Undisturbed BY <1>1, <1>2, <3>1 DEF RecordsInv
      <3>3. \A n \in Makers : n # q.from => maker'[n] = maker[n] BY <2>1, <2>4 DEF Ends
      <3>4. \A n \in Makers : n = q.from => ~Active(n)' BY <2>1, <2>4 DEF Ends, Active
      <3>5. \A d \in Desks : desk'[d].record \in {NoLot, desk[d].record} /\ desk'[d].result \in {NoLot, desk[d].result}
        BY <2>3, <2>4 DEF Ends, Leaves
      <3>6. \A d \in Desks : d = q.from => desk'[d].record = NoLot BY <2>1, AdminAssumption DEF Makers
      <3>7. Registered' = Registered \cup {q.lot} BY <1>4, <1>7
      <3>8. QED BY <1>1, <1>2, <3>2, <3>3, <3>4, <3>5, <3>6, <3>7, InsertUndisturbed
    <2>7. Handled(m, none) BY <2>4 DEF Handled
    <2>8. maker[m].lot \in Registered' /\ none \in {NoLot, maker[m].lot} BY <1>7, <2>2, <2>3
    <2>9. Registration BY <1>11, <2>4
    <2>10. QED BY <1>9, <2>2, <2>4, <2>5, <2>6, <2>7, <2>8, <2>9, ScriptKeeps
  <1>13. CASE /\ q.from \in Desks /\ UNCHANGED maker
              /\ desk' = [desk EXCEPT ![q.from].reconciling = FALSE, ![q.from].record = NoLot]
              /\ dropped' = IF desk[q.from].record \in {NoLot, q.lot} \cup Registered THEN dropped ELSE dropped + 1
    <2>1. PICK d \in Desks : /\ d = q.from /\ desk' = [desk EXCEPT ![d].reconciling = FALSE, ![d].record = NoLot]
                             /\ dropped' = IF desk[d].record \in {NoLot, lot} \cup Registered THEN dropped ELSE dropped + 1
      BY <1>4, <1>13
    <2>2. DeskTold(d) /\ desk'[d].record = NoLot BY <1>1, <2>1, DeskEnds
    <2>3. \A e \in Desks \ {d} : desk'[e] = desk[e] BY <2>2 DEF DeskTold
    <2>4. SameMints BY <1>13 DEF SameMints
    <2>5. dropped' \in Nat /\ dropped <= dropped' /\ (desk[d].record \in {NoLot} \cup Registered' \/ dropped < dropped')
      BY <1>3, <1>7, <2>1
    <2>6. AsksInv' BY <1>1, <1>2, <2>1, <2>3, <2>4, AsksAnswered
    <2>7. RecordsInv'
      <3>1. SUFFICES ASSUME unheard' + misheard' = 0 PROVE Undisturbed' BY DEF RecordsInv
      <3>2. Undisturbed BY <1>1, <1>2, <3>1 DEF RecordsInv
      <3>3. \A n \in Makers : n # q.from => maker'[n] = maker[n] BY <1>13
      <3>4. \A n \in Makers : n = q.from => ~Active(n)' BY <2>1, AdminAssumption DEF Makers
      <3>5. \A e \in Desks : desk'[e].record \in {NoLot, desk[e].record} /\ desk'[e].result \in {NoLot, desk[e].result}
        BY <2>2 DEF DeskTold
      <3>6. \A e \in Desks : e = q.from => desk'[e].record = NoLot BY <2>1, <2>2
      <3>7. Registered' = Registered \cup {q.lot} BY <1>4, <1>7
      <3>8. QED BY <1>1, <1>2, <3>2, <3>3, <3>4, <3>5, <3>6, <3>7, InsertUndisturbed
    <2>8. Registration BY <1>11, <2>5
    <2>9. QED BY <1>9, <1>13, <2>2, <2>5, <2>6, <2>7, <2>8, DeskKeeps
  <1>14. CASE ~Waits(q) /\ q.from \notin Desks /\ UNCHANGED <<desk, maker, dropped>>
    <2>1. SameMints /\ dropped' \in Nat BY <1>3, <1>14 DEF SameMints
    <2>2. AsksInv' BY <1>1, <1>2, <1>14, <2>1, AsksAnswered
    <2>3. RecordsInv'
      <3>1. SUFFICES ASSUME unheard' + misheard' = 0 PROVE Undisturbed' BY DEF RecordsInv
      <3>2. Undisturbed BY <1>1, <1>2, <3>1 DEF RecordsInv
      <3>3. q.from # None /\ q.from \in Makers \cup Desks \cup {None} BY <1>3, <3>2 DEF Undisturbed, Ask
      <3>4. Waits(q) BY <1>14, <3>2, <3>3 DEF Waits, Undisturbed
      <3>5. QED BY <1>14, <3>4
    <2>4. Registration BY <1>11, <2>1
    <2>5. QED BY <1>9, <1>14, <2>2, <2>3, <2>4, NobodyKeeps
  <1>15. QED BY <1>2, <1>12, <1>13, <1>14, ToldYes

\* A request of which nobody will have the answer is a request without anybody who waits.
LEMMA AsksLost ==
    ASSUME AdminTypes, RegistryInv, AsksInv, NEW q \in asks, NEW p,
           p = [q EXCEPT !.from = None], asks' = (asks \ {q}) \cup {p}, UNCHANGED <<registry, overlaps>>
    PROVE  /\ p \in Ask /\ p.from = None /\ p.lot = q.lot
           /\ asks' \subseteq Ask /\ IsFiniteSet(asks') /\ RegistryInv'
           /\ \A r \in asks' : r.lot \in InHand
           /\ SameMints /\ (\A d \in Desks : d # q.from => desk'[d].reconciling = desk[d].reconciling) => AsksInv'
  <1>1. asks \subseteq Ask /\ IsFiniteSet(asks) BY DEF AdminTypes
  <1>2. p \in Ask /\ p.from = None /\ p.lot = q.lot /\ p.pc = q.pc
    <2>1. PICK none : none = None OBVIOUS
    <2>2. none \in Makers \cup Desks \cup {None} /\ q \in Ask BY <1>1, <2>1
    <2>3. p = [q EXCEPT !.from = none] BY <2>1
    <2>4. QED BY <2>1, <2>2, <2>3 DEF Ask
  <1>3. asks' \subseteq Ask /\ IsFiniteSet(asks')
    <2>1. IsFiniteSet(asks \ {q}) BY <1>1, FS_RemoveElement
    <2>2. IsFiniteSet((asks \ {q}) \cup {p}) BY <2>1, FS_AddElement
    <2>3. QED BY <1>1, <1>2, <2>2
  <1>4. RegistryInv'
    <2>1. PICK S, T : S = Inserting /\ T = Inserting' OBVIOUS
    <2>2. S \in SUBSET asks BY <2>1 DEF Inserting
    <2>3. IsFiniteSet(S) BY <1>1, <2>2, FS_Subset
    <2>4. PICK f : f = [r \in asks |-> IF r = q THEN p ELSE r] OBVIOUS
    <2>5. \A r \in T : \E s \in S : f[s] = r
      <3>1. ASSUME NEW r \in T PROVE \E s \in S : f[s] = r
        <4>1. r \in asks' /\ r.pc = "insert" BY <2>1 DEF Inserting
        <4>2. CASE r = p
          <5>1. q \in S BY <1>2, <2>1, <4>1, <4>2 DEF Inserting
          <5>2. f[q] = p BY <2>4
          <5>3. QED BY <4>2, <5>1, <5>2
        <4>3. CASE r \in asks /\ r # q
          <5>1. r \in S BY <2>1, <4>1, <4>3 DEF Inserting
          <5>2. f[r] = r BY <2>4, <4>3
          <5>3. QED BY <5>1, <5>2
        <4>4. QED BY <4>1, <4>2, <4>3
      <3>2. QED BY <3>1
    <2>6. IsFiniteSet(T) /\ Cardinality(T) <= Cardinality(S) BY <2>3, <2>5, CountedBy
    <2>7. QED BY <2>1, <2>6, FewerInserts
  <1>5. \A r \in asks' : r.lot \in InHand
    <2>1. \A r \in asks : r.lot \in InHand BY DEF InHand
    <2>2. QED BY <1>2, <2>1
  <1>6. ASSUME SameMints, \A d \in Desks : d # q.from => desk'[d].reconciling = desk[d].reconciling
        PROVE  AsksInv'
    <2>1. None \notin Desks BY AdminAssumption
    <2>2. ASSUME NEW r \in asks', r.from \in Desks PROVE r \in asks /\ r.from # q.from
      <3>1. r # p BY <1>2, <2>1, <2>2
      <3>2. r \in asks /\ r # q BY <3>1
      <3>3. r.from = q.from => r = q BY <2>2, <3>2 DEF AsksInv
      <3>4. QED BY <3>2, <3>3
    <2>3. \A r \in asks' : (\E s \in asks : s.lot = r.lot /\ s.from = r.from) \/ (r.from = None /\ r.lot # NoLot)
      BY <1>2 DEF AsksInv
    <2>4. \A r \in asks' : r.from \in Desks => desk'[r.from].reconciling BY <1>6, <2>2 DEF AsksInv
    <2>5. \A r, s \in asks' : r.from = s.from /\ r.from \in Desks => r = s BY <2>2 DEF AsksInv
    <2>6. QED BY <1>6, <2>3, <2>4, <2>5, AsksRest
  <1>7. QED BY <1>2, <1>3, <1>4, <1>5, <1>6

LEMMA LoseAnswerKeeps ==
    ASSUME AdminInv, NEW q \in asks, LoseAnswer(q)
    PROVE  AdminInv'
  <1>1. /\ AdminHeads /\ LotteriesInv /\ AdminTypes /\ OrdersInv /\ RegistryInv
        /\ MakersInv /\ DesksInv /\ AsksInv /\ MissingInv /\ OrphansInv /\ RecordsInv
    BY DEF AdminInv
  <1>2. PICK p : p = [q EXCEPT !.from = None] OBVIOUS
  <1>3. /\ asks' = (asks \ {q}) \cup {p} /\ unheard' = unheard + 1
        /\ UNCHANGED <<headVars, registry, order, jobs, creates, orders, misheard, overlaps, rushed>>
    BY <1>2 DEF LoseAnswer
  <1>4. /\ unheard \in Nat /\ dropped \in Nat /\ misheard \in Nat /\ overlaps \in Nat /\ registry \in Seq(Int)
        /\ unheard' \in Nat /\ unheard <= unheard'
    <2>1. unheard \in Nat /\ dropped \in Nat /\ misheard \in Nat /\ overlaps \in Nat /\ registry \in Seq(Int)
      BY <1>1 DEF AdminTypes
    <2>2. QED BY <1>3, <2>1
  <1>5. /\ p \in Ask /\ p.from = None /\ p.lot = q.lot
        /\ asks' \subseteq Ask /\ IsFiniteSet(asks') /\ RegistryInv'
        /\ \A r \in asks' : r.lot \in InHand
        /\ SameMints /\ (\A d \in Desks : d # q.from => desk'[d].reconciling = desk[d].reconciling) => AsksInv'
    BY <1>1, <1>2, <1>3, AsksLost
  <1>6. RecordsInv'
    <2>1. PICK a, b : a = unheard /\ b = misheard OBVIOUS
    <2>2. a \in Nat /\ b \in Nat BY <1>4, <2>1
    <2>3. ~((a + 1) + b = 0) BY <2>2
    <2>4. ~(unheard' + misheard' = 0) BY <1>3, <2>1, <2>3
    <2>5. QED BY <2>4 DEF RecordsInv
  <1>7. Registered' = Registered /\ \A l \in Registered : l \in InHand BY <1>3 DEF Registered, InHand
  <1>8. ASSUME dropped' \in Nat PROVE Registration BY <1>3, <1>4, <1>5, <1>7, <1>8 DEF Registration
  <1>9. CASE Waits(q) /\ Retry(q.from)
    <2>1. PICK m \in Makers : m = q.from /\ maker[m].pc = "waiting" /\ Retry(m) BY <1>9 DEF Waits
    <2>2. Active(m) BY <2>1 DEF Active
    <2>3. /\ maker' \in [Makers -> MakerState] /\ desk' \in [Desks -> DeskState] /\ dropped' \in Nat
          /\ SameMints /\ (GoesOn(m, "register") \/ (Ends(m) /\ Leaves(m, maker[m].lot)))
      BY <1>1, <2>1, RetryEnds
    <2>4. AsksInv'
      <3>1. \A d \in Desks : desk'[d].reconciling = desk[d].reconciling BY <2>3 DEF GoesOn, Ends
      <3>2. QED BY <1>5, <2>3, <3>1
    <2>5. PICK lot : lot = maker[m].lot OBVIOUS
    <2>6. Handled(m, lot) BY <2>3, <2>5 DEF Handled
    <2>7. Registration BY <1>8, <2>3
    <2>8. QED BY <1>5, <1>6, <2>2, <2>3, <2>4, <2>5, <2>6, <2>7, ScriptKeeps
  <1>10. CASE q.from \in Desks /\ desk' = [desk EXCEPT ![q.from].reconciling = FALSE] /\ UNCHANGED <<maker, dropped>>
    <2>1. PICK d \in Desks : d = q.from /\ desk' = [desk EXCEPT ![d].reconciling = FALSE] BY <1>10
    <2>2. DeskTold(d) /\ desk'[d].record = desk[d].record BY <1>1, <2>1, DeskEnds
    <2>3. \A e \in Desks \ {d} : desk'[e] = desk[e] BY <2>2 DEF DeskTold
    <2>4. SameMints /\ dropped' \in Nat /\ dropped <= dropped' BY <1>4, <1>10 DEF SameMints
    <2>5. AsksInv' BY <1>5, <2>1, <2>3, <2>4
    <2>6. Registration BY <1>8, <2>4
    <2>7. QED BY <1>5, <1>6, <1>10, <2>2, <2>4, <2>5, <2>6, DeskKeeps
  <1>11. QED
    <2>1. Waits(q) => q.from \notin Desks BY AdminAssumption DEF Waits, Makers
    <2>2. CASE Waits(q) BY <1>9, <2>1, <2>2 DEF LoseAnswer, Waits
    <2>3. CASE ~Waits(q) BY <1>10, <2>3 DEF LoseAnswer, Waits
    <2>4. QED BY <2>2, <2>3

-----------------------------------------------------------------------------
(* Every step of the desks keeps the invariant *)

LEMMA DeskStepKeeps ==
    ASSUME AdminInv, NEW d \in Desks, DeskStep(d)
    PROVE  AdminInv'
  <1>1. CASE ClickCreate(d) BY <1>1, ClickCreateKeeps
  <1>2. CASE ClickReconcile(d) BY <1>2, ClickReconcileKeeps
  <1>3. CASE ReloadDesk(d) BY <1>3, ReloadDeskKeeps
  <1>4. CASE \E op \in Operations : Order(d, op) BY <1>4, JobsKeep
  <1>5. QED BY <1>1, <1>2, <1>3, <1>4 DEF DeskStep

LEMMA ScriptRunKeeps ==
    ASSUME AdminInv, NEW m \in Makers, ScriptRun(m)
    PROVE  AdminInv'
  <1>1. CASE SendMint(m) BY <1>1, SendMintKeeps
  <1>2. CASE RefuseMint(m)
    <2>1. maker[m].pc # "idle" /\ maker[m].pc = "mint" BY <1>2 DEF RefuseMint
    <2>2. Abort(m) /\ unheard' = unheard
          /\ UNCHANGED <<headVars, asks, registry, order, jobs, creates, orders, dropped, misheard, overlaps, rushed>>
      BY <1>2 DEF RefuseMint
    <2>3. QED BY <2>1, <2>2, AbortKeeps
  <1>3. CASE KillScript(m)
    <2>1. maker[m].pc # "idle" BY <1>3 DEF KillScript
    <2>2. Abort(m) /\ unheard' = unheard + 1
          /\ UNCHANGED <<headVars, asks, registry, order, jobs, creates, orders, dropped, misheard, overlaps, rushed>>
      BY <1>3 DEF KillScript
    <2>3. QED BY <2>1, <2>2, AbortKeeps
  <1>4. CASE Register(m) BY <1>4, RegisterKeeps
  <1>5. QED BY <1>1, <1>2, <1>3, <1>4 DEF ScriptRun

LEMMA AdminKeeps ==
    ASSUME AdminInv, AdminNext
    PROVE  AdminInv'
  <1>1. CASE \E d \in Desks : DeskStep(d) BY <1>1, DeskStepKeeps
  <1>2. CASE \E m \in Makers : ScriptRun(m) BY <1>2, ScriptRunKeeps
  <1>3. CASE \E t \in pool : HearMint(t) BY <1>3, HearMintKeeps
  <1>4. CASE \E q \in asks : CountActive(q) \/ Insert(q) \/ LoseAnswer(q)
    BY <1>4, CountKeeps, InsertKeeps, LoseAnswerKeeps
  <1>5. CASE (\E r \in Orders : Look(r) \/ CreateJob(r)) \/ \E j \in DOMAIN jobs : JobStep(j) BY <1>5, JobsKeep
  <1>6. CASE Confirm("headB") /\ UNCHANGED adminVars BY <1>6, NothingMoves DEF Confirm, HeadsRest
  <1>7. QED BY <1>1, <1>2, <1>3, <1>4, <1>5, <1>6 DEF AdminNext

LEMMA CoinStarts ==
  Coin \in Output /\ Coin.kind = "coin" /\ Coin.tx = 0
  <1>1. "headB" \in Heads BY LotteryAssumption
  <1>2. Coin.kind = "coin" /\ Coin.tx = 0 BY DEF Coin, Plain
  <1>3. PICK none : none = None OBVIOUS
  <1>4. none \in Buyers \cup {None} BY <1>3
  <1>5. Coin = [head |-> "headB", kind |-> "coin", lot |-> 0, for |-> none, until |-> 0,
                closes |-> 0, paid |-> FALSE, nested |-> FALSE, ada |-> 0, tx |-> 0]
    BY <1>3 DEF Coin, Plain
  <1>6. Coin \in Output BY <1>1, <1>4, <1>5 DEF Output, Kinds
  <1>7. QED BY <1>2, <1>6

LEMMA AdminStarts ==
    ASSUME AdminInit({Coin})
    PROVE  AdminInv
  <1>1. /\ utxo = {Coin} /\ snapshot = {Coin} /\ pool = {} /\ sent = 0 /\ now = 0
        /\ desk = [d \in Desks |-> [record |-> NoLot, result |-> NoLot, creating |-> 0, reconciling |-> FALSE]]
        /\ maker = [m \in Makers |-> [pc |-> "idle", lot |-> NoLot, tx |-> 0, tries |-> 0]]
        /\ asks = {} /\ registry = <<>>
        /\ order = [r \in Orders |-> [pc |-> "idle", op |-> "none", desk |-> None]] /\ jobs = <<>>
        /\ creates = 0 /\ orders = 0
        /\ unheard = 0 /\ dropped = 0 /\ misheard = 0 /\ overlaps = 0 /\ rushed = 0
    BY DEF AdminInit, HeadInit
  <1>2. Coin \in Output /\ Coin.kind = "coin" /\ Coin.tx = 0 BY CoinStarts
  <1>3. NoLot \in Int /\ MaxCreates \in Nat /\ MaxOrders \in Nat /\ Retries \in Nat BY AdminAssumption DEF NoLot
  <1>4. DOMAIN registry = {} /\ Len(registry) = 0 /\ Registered = {} /\ DOMAIN jobs = {} /\ Len(jobs) = 0
    BY <1>1 DEF Registered
  <1>5. AdminHeads BY <1>1, <1>2, HeadAssumption DEF AdminHeads, AdminKinds
  <1>6. LotteriesInv BY <1>1, <1>2 DEF LotteriesInv
  <1>7. AdminTypes
    <2>1. desk \in [Desks -> DeskState] BY <1>1, <1>3 DEF DeskState
    <2>2. maker \in [Makers -> MakerState] BY <1>1, <1>3 DEF MakerState
    <2>3. order \in [Orders -> OrderState]
      <3>1. PICK none : none = None OBVIOUS
      <3>2. order = [r \in Orders |-> [pc |-> "idle", op |-> "none", desk |-> none]] BY <1>1, <3>1
      <3>3. none \in Desks \cup {None} BY <3>1
      <3>4. QED BY <3>2, <3>3 DEF OrderState
    <2>4. asks \subseteq Ask /\ IsFiniteSet(asks) BY <1>1, NoneOrOne
    <2>5. registry \in Seq(Int) /\ jobs \in Seq(Job) BY <1>1, EmptySeq
    <2>6. creates \in 0..MaxCreates /\ orders \in 0..MaxOrders BY <1>1, <1>3
    <2>7. unheard \in Nat /\ dropped \in Nat /\ misheard \in Nat /\ overlaps \in Nat /\ rushed \in Nat BY <1>1
    <2>8. QED BY <2>1, <2>2, <2>3, <2>4, <2>5, <2>6, <2>7 DEF AdminTypes
  <1>8. \A m \in Makers : maker[m].pc = "idle" /\ maker[m].tx = 0 BY <1>1
  <1>9. \A d \in Desks : desk[d].creating = 0 /\ desk[d].record = NoLot /\ desk[d].result = NoLot BY <1>1
  <1>10. OrdersInv
    <2>1. \A r \in Orders : order[r].pc = "idle" /\ order[r].op = "none" BY <1>1
    <2>2. Busy = {} /\ \A op : Creating(op) = {} /\ Fresh(op) = {} BY <1>4, <2>1 DEF Busy, Creating, Fresh
    <2>3. Cardinality(Busy) = 0 /\ \A op : Cardinality(Creating(op)) = 0 /\ Cardinality(Fresh(op)) = 0
      BY <2>2, NoneOrOne
    <2>4. QED BY <1>1, <1>4, <2>1, <2>3 DEF OrdersInv
  <1>11. RegistryInv
    <2>1. Inserting = {} BY <1>1 DEF Inserting
    <2>2. QED BY <1>1, <1>4, <2>1, NoneOrOne DEF RegistryInv
  <1>12. MakersInv
    <2>1. sent \in Nat /\ 0 \in 0..sent BY <1>1
    <2>2. \A m \in Makers : \A o \in utxo : o.kind # "lottery" BY <1>1, <1>2
    <2>3. QED BY <1>1, <1>8, <2>1, <2>2 DEF MakersInv
  <1>13. DesksInv BY <1>9 DEF DesksInv
  <1>14. AsksInv BY <1>1 DEF AsksInv
  <1>15. MissingInv
    <2>1. \A l \in InHand : l = NoLot BY <1>1, <1>4, <1>8, <1>9 DEF InHand, Active
    <2>2. Missing = {} BY <2>1 DEF Missing
    <2>3. QED BY <1>1, <2>2, NoneOrOne DEF MissingInv
  <1>16. OrphansInv
    <2>1. \A m \in Makers : ~Orphaned(m) BY <1>1, <1>2, <1>8 DEF Orphaned, InPool, Minted
    <2>2. Orphans = {} BY <2>1 DEF Orphans
    <2>3. QED BY <1>1, <2>2, NoneOrOne DEF OrphansInv
  <1>17. RecordsInv
    <2>1. Undisturbed BY <1>1, <1>4, <1>8, <1>9 DEF Undisturbed, Active
    <2>2. QED BY <2>1 DEF RecordsInv
  <1>18. QED BY <1>5, <1>6, <1>7, <1>10, <1>11, <1>12, <1>13, <1>14, <1>15, <1>16, <1>17 DEF AdminInv

-----------------------------------------------------------------------------
(* What the invariant of the desks says *)

LEMMA AdminTyped == AdminInv => AdminTypeOK
  <1>1. SUFFICES ASSUME AdminInv PROVE AdminTypeOK OBVIOUS
  <1>2. AdminTypes /\ MakersInv /\ DesksInv /\ AsksInv /\ OrdersInv BY <1>1 DEF AdminInv
  <1>3. \A m \in Makers : maker[m].tx \in 0..sent /\ maker[m].tries \in 0..Retries
    BY <1>2, AdminNumbers DEF MakersInv, MakerState
  <1>4. \A q \in asks : q.lot # NoLot /\ (q.from \in Desks => desk[q.from].reconciling) BY <1>2 DEF AsksInv
  <1>5. \A d \in Desks : desk[d].creating # 0 => maker[desk[d].creating].pc \notin {"idle", "done"}
    BY <1>2 DEF DesksInv, Running
  <1>6. \A r \in Orders : (order[r].pc = "idle") = (order[r].op = "none") BY <1>2 DEF OrdersInv
  <1>7. DOMAIN jobs \subseteq Orders
    <2>1. PICK n, k, b : n = Len(jobs) /\ k = orders /\ b = Cardinality(Busy) OBVIOUS
    <2>2. n \in Nat /\ k \in Nat /\ b \in Nat /\ k <= MaxOrders /\ MaxOrders \in Nat /\ DOMAIN jobs = 1..n
      BY <1>2, <2>1, AdminNumbers, OrdersFinite
    <2>3. b + n <= k BY <1>2, <2>1 DEF OrdersInv
    <2>4. n <= MaxOrders BY <2>2, <2>3
    <2>5. QED BY <2>2, <2>4 DEF Orders
  <1>8. QED BY <1>3, <1>4, <1>5, <1>6, <1>7 DEF AdminTypeOK

LEMMA AdminOneActive == AdminInv => OneActiveLottery
  <1>1. SUFFICES ASSUME AdminInv PROVE OneActiveLottery OBVIOUS
  <1>2. AdminTypes /\ RegistryInv BY <1>1 DEF AdminInv
  <1>3. PICK n, b, k : n = Len(registry) /\ b = Cardinality(Inserting) /\ k = overlaps OBVIOUS
  <1>4. Inserting \in SUBSET asks BY DEF Inserting
  <1>5. b \in Nat BY <1>2, <1>3, <1>4, FS_Subset, FS_CardinalityType DEF AdminTypes
  <1>6. n \in Nat /\ k \in Nat BY <1>2, <1>3, AdminNumbers
  <1>7. n + b <= 1 + k BY <1>2, <1>3 DEF RegistryInv
  <1>8. n <= 1 + k BY <1>5, <1>6, <1>7
  <1>9. QED BY <1>3, <1>8 DEF OneActiveLottery

\* What is registered is in hand, so those that are not on the head are missing.
LEMMA AdminRegistered == AdminInv => RegisteredExists
  <1>1. SUFFICES ASSUME AdminInv PROVE RegisteredExists OBVIOUS
  <1>2. AdminTypes /\ MissingInv /\ RegistryInv BY <1>1 DEF AdminInv
  <1>3. PICK S, T : S = Missing /\ T = {l \in Registered : ~\E o \in At(utxo, "lottery") : o.lot = l} OBVIOUS
  <1>4. T \in SUBSET S
    <2>1. \A l \in T : l \in Registered /\ ~\E o \in utxo : o.kind = "lottery" /\ o.lot = l BY <1>3 DEF At
    <2>2. \A l \in T : l \in InHand /\ l # NoLot BY <1>2, <2>1 DEF InHand, RegistryInv
    <2>3. QED BY <1>3, <2>1, <2>2 DEF Missing
  <1>5. IsFiniteSet(S) /\ Cardinality(S) <= misheard BY <1>2, <1>3 DEF MissingInv
  <1>6. IsFiniteSet(T) /\ Cardinality(T) <= Cardinality(S) BY <1>4, <1>5, FS_Subset
  <1>7. PICK a, b, k : a = Cardinality(S) /\ b = Cardinality(T) /\ k = misheard OBVIOUS
  <1>8. a \in Nat /\ b \in Nat /\ k \in Nat BY <1>2, <1>5, <1>6, <1>7, FS_CardinalityType, AdminNumbers
  <1>9. b <= k BY <1>5, <1>6, <1>7, <1>8
  <1>10. QED BY <1>3, <1>7, <1>9 DEF RegisteredExists

LEMMA AdminOpen == AdminInv => RecordsAreOpen
  BY DEF AdminInv, RecordsInv, Undisturbed, RecordsAreOpen

\* A lottery on the head that no one knows of was minted by a script that is orphaned.
LEMMA AdminOrphans == AdminInv => OrphanHasCause
  <1>1. SUFFICES ASSUME AdminInv PROVE OrphanHasCause OBVIOUS
  <1>2. AdminTypes /\ LotteriesInv /\ MakersInv /\ DesksInv /\ OrphansInv /\ AdminHeads BY <1>1 DEF AdminInv
  <1>3. PICK known : known = {maker[m].lot : m \in {n \in Makers : maker[n].pc \notin {"idle", "done"}}}
                             \cup {Shown(d) : d \in Desks} \cup {q.lot : q \in asks} \cup Registered
    OBVIOUS
  <1>4. PICK S, T : S = Orphans /\ T = {l \in At(utxo, "lottery") : l.lot \notin known} OBVIOUS
  <1>5. \A l \in T : \E m \in S : maker[m].tx = l.tx
    <2>1. ASSUME NEW l \in T PROVE \E m \in S : maker[m].tx = l.tx
      <3>1. l \in utxo /\ l.kind = "lottery" /\ l.lot \notin known BY <1>4, <2>1 DEF At
      <3>2. PICK m \in Makers : maker[m].tx = l.tx BY <1>2, <3>1 DEF LotteriesInv
      <3>3. maker[m].lot = l.lot BY <1>2, <3>1, <3>2 DEF MakersInv
      <3>4. Minted(m) BY <3>1, <3>2 DEF Minted
      <3>5. ~Running(m) BY <1>3, <3>1, <3>3 DEF Running
      <3>6. ~Kept(maker[m].lot)
        <4>1. l.lot \notin Registered BY <1>3, <3>1
        <4>2. \A d \in Desks : Shown(d) # l.lot BY <1>3, <3>1
        <4>3. maker[m].lot # NoLot BY <1>2, <3>4, MintedLot
        <4>4. \A d \in Desks : desk[d].record = l.lot => Shown(d) = l.lot
          BY <1>2, <3>3, <4>3 DEF DesksInv, Shown
        <4>5. QED BY <3>3, <4>1, <4>2, <4>4 DEF Kept
      <3>7. QED BY <1>4, <3>2, <3>4, <3>5, <3>6 DEF Orphans, Orphaned
    <2>2. QED BY <2>1
  <1>6. IsFiniteSet(S)
    <2>1. S \in SUBSET Makers BY <1>4 DEF Orphans
    <2>2. QED BY <1>2, <2>1, AdminNumbers, FS_Subset
  <1>7. PICK f : f = [m \in S |-> CHOOSE l \in T : l.tx = maker[m].tx] OBVIOUS
  <1>8. \A l \in T : \E m \in S : f[m] = l
    <2>1. ASSUME NEW l \in T PROVE \E m \in S : f[m] = l
      <3>1. l \in utxo /\ l.kind = "lottery" BY <1>4, <2>1 DEF At
      <3>2. PICK m \in S : maker[m].tx = l.tx BY <1>5, <2>1
      <3>3. \A o \in T : o.tx = l.tx => o = l BY <1>2, <1>4, <2>1 DEF AdminHeads, At
      <3>4. (CHOOSE o \in T : o.tx = maker[m].tx) = l BY <2>1, <3>2, <3>3
      <3>5. QED BY <1>7, <3>2, <3>4
    <2>2. QED BY <2>1
  <1>9. IsFiniteSet(T) /\ Cardinality(T) <= Cardinality(S) BY <1>6, <1>8, CountedBy
  <1>10. PICK a, b, x, y, z : a = Cardinality(S) /\ b = Cardinality(T) /\ x = unheard /\ y = dropped /\ z = misheard
    OBVIOUS
  <1>11. a \in Nat /\ b \in Nat /\ x \in Nat /\ y \in Nat /\ z \in Nat
    BY <1>2, <1>6, <1>9, <1>10, FS_CardinalityType, AdminNumbers
  <1>12. a <= x + y + z /\ b <= a BY <1>2, <1>4, <1>9, <1>10 DEF OrphansInv
  <1>13. b <= x + y + z BY <1>11, <1>12
  <1>14. Cardinality({l \in At(utxo, "lottery") : l.lot \notin known}) <= unheard + dropped + misheard
    BY <1>4, <1>10, <1>13
  <1>15. QED BY <1>3, <1>14 DEF OrphanHasCause

\* Of the workflows in flight that never failed there is one, but for those that were rushed.
LEMMA AdminJobs == AdminInv => OneJobPerOperation
  <1>1. SUFFICES ASSUME AdminInv PROVE OneJobPerOperation OBVIOUS
  <1>2. AdminTypes /\ OrdersInv BY <1>1 DEF AdminInv
  <1>3. PICK back : back = {j \in DOMAIN jobs : jobs[j].again} OBVIOUS
  <1>4. IsFiniteSet(DOMAIN jobs) BY <1>2, AdminNumbers, FS_Interval
  <1>5. back \in SUBSET (DOMAIN jobs) BY <1>3
  <1>6. IsFiniteSet(back) /\ Cardinality(back) \in Nat BY <1>4, <1>5, FS_Subset, FS_CardinalityType
  <1>7. ASSUME NEW op \in Operations
        PROVE  Cardinality(InFlight(op)) <= 1 + rushed + Cardinality(back)
    <2>1. PICK T, S : T = InFlight(op) /\ S = Fresh(op) OBVIOUS
    <2>2. T \subseteq S \cup back BY <1>3, <2>1 DEF InFlight, Fresh
    <2>3. IsFiniteSet(S) /\ Cardinality(S) \in Nat /\ Cardinality(Creating(op)) \in Nat BY <1>2, <2>1, OrdersFinite
    <2>4. Cardinality(T) <= Cardinality(S) + Cardinality(back) /\ Cardinality(T) \in Nat
      BY <1>6, <2>2, <2>3, CountGrows
    <2>5. PICK t, s, b, c, k : /\ t = Cardinality(T) /\ s = Cardinality(S) /\ b = Cardinality(back)
                               /\ c = Cardinality(Creating(op)) /\ k = rushed
      OBVIOUS
    <2>6. t \in Nat /\ s \in Nat /\ b \in Nat /\ c \in Nat /\ k \in Nat
      BY <1>2, <1>6, <2>3, <2>4, <2>5, AdminNumbers
    <2>7. t <= s + b BY <2>4, <2>5
    <2>8. s + c <= 1 + k BY <1>2, <2>1, <2>5 DEF OrdersInv
    <2>9. t <= 1 + k + b BY <2>6, <2>7, <2>8
    <2>10. QED BY <2>1, <2>5, <2>9
  <1>8. QED BY <1>3, <1>7 DEF OneJobPerOperation

-----------------------------------------------------------------------------
(* The invariant of the application *)

LEMMA AdminRests ==
    ASSUME AdminInit({Alice, Wallet})
    PROVE  AdminIdle
  <1>1. /\ desk = [d \in Desks |-> [record |-> NoLot, result |-> NoLot, creating |-> 0, reconciling |-> FALSE]]
        /\ maker = [m \in Makers |-> [pc |-> "idle", lot |-> NoLot, tx |-> 0, tries |-> 0]]
        /\ asks = {} /\ registry = <<>> /\ sent = 0
        /\ order = [r \in Orders |-> [pc |-> "idle", op |-> "none", desk |-> None]] /\ jobs = <<>>
        /\ unheard = 0 /\ dropped = 0 /\ misheard = 0 /\ overlaps = 0 /\ rushed = 0
    BY DEF AdminInit, HeadInit
  <1>2. \A m \in Makers : maker[m].tx = 0 /\ maker[m].tries = 0 BY <1>1
  <1>3. \A d \in Desks : desk[d].record = NoLot /\ desk[d].creating = 0 BY <1>1
  <1>4. \A r \in Orders : order[r].pc = "idle" /\ order[r].op = "none" BY <1>1
  <1>5. DOMAIN jobs = {} BY <1>1
  <1>6. 0 \in 0..sent /\ 0 \in 0..Retries BY <1>1, AdminAssumption
  <1>7. AdminTypeOK BY <1>1, <1>2, <1>3, <1>4, <1>5, <1>6 DEF AdminTypeOK
  <1>8. QED BY <1>1, <1>2, <1>3, <1>7 DEF AdminIdle

LEMMA PageRests ==
    ASSUME PageInit({Coin})
    PROVE  PageIdle
  <1>1. /\ sent = 0 /\ flows = <<>> /\ keys = 1 /\ losses = 0 /\ excused = 0
        /\ tab = [t \in Tabs |-> [form |-> FirstAmount, hash |-> 0, watch |-> 0, wallet |-> FALSE]]
        /\ run = [r \in Runs |-> Still]
        /\ intents = [p \in Prints |-> IF p = FirstAmount THEN [NoIntent EXCEPT !.key = 1] ELSE NoIntent]
        /\ headRow = [h \in Heads |-> TRUE] /\ up = [h \in Heads |-> TRUE]
    BY DEF PageInit, HeadInit
  <1>2. DOMAIN flows = {} /\ Len(flows) = 0 BY <1>1
  <1>3. \A c \in Runs : run[c].pc = "idle" /\ run[c].key = 0 /\ run[c].tx = 0 BY <1>1 DEF Still
  <1>4. \A p \in Prints : intents[p].flow = 0 /\ intents[p].key \in {0, 1}
    <2>1. NoIntent = [key |-> 0, flow |-> 0] BY DEF NoIntent
    <2>2. \A p \in Prints : intents[p] = IF p = FirstAmount THEN [key |-> 1, flow |-> 0] ELSE [key |-> 0, flow |-> 0]
      BY <1>1, <2>1
    <2>3. QED BY <2>2
  <1>5. \A t \in Tabs : tab[t].watch = 0 /\ tab[t].form \in Amounts BY <1>1, PageNames
  <1>6. headRow \in [Heads -> BOOLEAN] /\ up \in [Heads -> BOOLEAN] BY <1>1
  <1>7. "idle" \in RunPcs BY DEF RunPcs
  <1>8. PageTypeOK BY <1>1, <1>2, <1>3, <1>4, <1>5, <1>6, <1>7 DEF PageTypeOK, RunAt
  <1>9. QED BY <1>1, <1>3, <1>8 DEF PageIdle, RunAt

LEMMA AppStarts == Init => IInv
  <1>1. SUFFICES ASSUME Init PROVE IInv OBVIOUS
  <1>2. CASE view = "admin"
    <2>1. PageInit({Coin}) /\ AdminInit({Coin}) BY <1>1, <1>2 DEF Init
    <2>2. QED BY <1>2, <2>1, PageRests, AdminStarts DEF IInv
  <1>3. CASE view \in {"user", "charlie"}
    <2>1. PageInit({Alice, Wallet}) /\ AdminInit({Alice, Wallet}) BY <1>1, <1>3 DEF Init
    <2>2. QED BY <1>3, <2>1, PageStarts, AdminRests DEF IInv
  <1>4. QED BY <1>1, <1>2, <1>3 DEF Init

LEMMA PageStays ==
    ASSUME PageInv, UNCHANGED <<view, headVars, pageVars>>
    PROVE  PageInv'
  <1>1. PageHeads' BY SameHeads DEF PageInv
  <1>2. PageTypes' BY DEF PageInv, PageTypes, pageVars
  <1>3. QED BY <1>1, <1>2, NothingWritten DEF PageInv, pageVars, headVars

LEMMA PageStill ==
    ASSUME PageIdle, UNCHANGED pageVars, sent' \in Nat
    PROVE  PageIdle'
  <1>1. flows' = <<>> /\ losses' = 0 /\ excused' = 0 /\ \A c \in Runs : RunAt(c, "idle")' /\ run'[c].tx = 0
    BY DEF PageIdle, RunAt, pageVars
  <1>2. 0 \in 0..sent' OBVIOUS
  <1>3. PageTypeOK' BY <1>1, <1>2 DEF PageIdle, PageTypeOK, RunAt, pageVars
  <1>4. QED BY <1>1, <1>3 DEF PageIdle

LEMMA AdminStill ==
    ASSUME AdminIdle, UNCHANGED adminVars, sent' \in Nat
    PROVE  AdminIdle'
  <1>1. 0 \in 0..sent' OBVIOUS
  <1>2. AdminTypeOK' BY <1>1 DEF AdminIdle, AdminTypeOK, adminVars
  <1>3. QED BY <1>2 DEF AdminIdle, adminVars

LEMMA AppKeeps == IInv /\ [Next]_vars => IInv'
  <1>1. SUFFICES ASSUME IInv, [Next]_vars PROVE IInv' OBVIOUS
  <1>2. CASE view # "admin"
    <2>1. PageInv /\ AdminIdle BY <1>1, <1>2 DEF IInv
    <2>2. UNCHANGED view /\ UNCHANGED adminVars BY <1>1, <1>2 DEF Next, vars
    <2>3. PageInv'
      <3>1. CASE PageNext BY <2>1, <2>2, <3>1, PageKeeps
      <3>2. CASE UNCHANGED vars BY <2>1, <3>2, PageStays DEF vars
      <3>3. QED BY <1>1, <1>2, <3>1, <3>2 DEF Next
    <2>4. sent' \in Nat BY <2>3 DEF PageInv, PageHeads
    <2>5. AdminIdle' BY <2>1, <2>2, <2>4, AdminStill
    <2>6. QED BY <1>1, <1>2, <2>2, <2>3, <2>5 DEF IInv
  <1>3. CASE view = "admin"
    <2>1. AdminInv /\ PageIdle BY <1>1, <1>3 DEF IInv
    <2>2. UNCHANGED view /\ UNCHANGED pageVars BY <1>1, <1>3 DEF Next, vars
    <2>3. AdminInv'
      <3>1. CASE AdminNext BY <2>1, <3>1, AdminKeeps
      <3>2. CASE UNCHANGED vars BY <2>1, <3>2, NothingMoves DEF vars, HeadsRest, headVars
      <3>3. QED BY <1>1, <1>3, <3>1, <3>2 DEF Next
    <2>4. sent' \in Nat BY <2>3 DEF AdminInv, AdminHeads
    <2>5. PageIdle' BY <2>1, <2>2, <2>4, PageStill
    <2>6. QED BY <1>1, <1>3, <2>2, <2>3, <2>5 DEF IInv
  <1>4. QED BY <1>2, <1>3

LEMMA Invariant == Spec => []IInv
  <1>1. Init => IInv BY AppStarts
  <1>2. IInv /\ [Next]_vars => IInv' BY AppKeeps
  <1>3. QED BY <1>1, <1>2, PTL DEF Spec

\* Each view promises what both of them promise: a view that is not shown has nothing.
LEMMA Promises ==
    IInv => /\ TypeOK
            /\ UnrecordedHasCause /\ PreimageFirst /\ OneRowPerPurchase
            /\ OneActiveLottery /\ OrphanHasCause /\ RegisteredExists /\ RecordsAreOpen /\ OneJobPerOperation
  <1>1. SUFFICES ASSUME IInv
                 PROVE  /\ TypeOK
                        /\ UnrecordedHasCause /\ PreimageFirst /\ OneRowPerPurchase
                        /\ OneActiveLottery /\ OrphanHasCause /\ RegisteredExists /\ RecordsAreOpen /\ OneJobPerOperation
    OBVIOUS
  <1>2. CASE view # "admin"
    <2>1. PageInv /\ AdminIdle BY <1>1, <1>2 DEF IInv
    <2>2. TypeOK BY <2>1, PageTyped DEF PageInv, PageHeads, AdminIdle, TypeOK
    <2>3. UnrecordedHasCause /\ PreimageFirst /\ OneRowPerPurchase BY <2>1, PageCounts, PagePromises
    <2>4. registry = <<>> /\ jobs = <<>> /\ unheard = 0 /\ dropped = 0 /\ misheard = 0 /\ overlaps = 0 /\ rushed = 0
          /\ Registered = {}
      BY <2>1 DEF AdminIdle, Registered
    <2>5. OneActiveLottery BY <2>4 DEF OneActiveLottery
    <2>6. At(utxo, "lottery") = {}
      <3>1. \A o \in utxo : o.kind # "lottery" BY <2>1 DEF PageInv, PageHeads, PageOutput
      <3>2. QED BY <3>1 DEF At
    <2>7. OrphanHasCause
      <3>1. PICK known : known = {maker[m].lot : m \in {n \in Makers : maker[n].pc \notin {"idle", "done"}}}
                                 \cup {Shown(d) : d \in Desks} \cup {q.lot : q \in asks} \cup Registered
        OBVIOUS
      <3>2. {l \in At(utxo, "lottery") : l.lot \notin known} = {} BY <2>6
      <3>3. Cardinality({l \in At(utxo, "lottery") : l.lot \notin known}) = 0 BY <3>2, NoneOrOne
      <3>4. Cardinality({l \in At(utxo, "lottery") : l.lot \notin known}) <= unheard + dropped + misheard
        BY <2>4, <3>3
      <3>5. QED BY <3>1, <3>4 DEF OrphanHasCause
    <2>8. RegisteredExists
      <3>1. PICK T : T = {l \in Registered : ~\E o \in At(utxo, "lottery") : o.lot = l} OBVIOUS
      <3>2. T = {} BY <2>4, <3>1
      <3>3. Cardinality(T) <= misheard BY <2>4, <3>2, NoneOrOne
      <3>4. QED BY <3>1, <3>3 DEF RegisteredExists
    <2>9. RecordsAreOpen BY <2>1 DEF AdminIdle, RecordsAreOpen
    <2>10. OneJobPerOperation
      <3>1. PICK back : back = {j \in DOMAIN jobs : jobs[j].again} OBVIOUS
      <3>2. back = {} /\ \A op \in Operations : InFlight(op) = {} BY <2>4, <3>1 DEF InFlight
      <3>3. Cardinality(back) = 0 /\ \A op \in Operations : Cardinality(InFlight(op)) = 0 BY <3>2, NoneOrOne
      <3>4. \A op \in Operations : Cardinality(InFlight(op)) <= 1 + rushed + Cardinality(back) BY <2>4, <3>3
      <3>5. QED BY <3>1, <3>4 DEF OneJobPerOperation
    <2>11. QED BY <2>2, <2>3, <2>5, <2>7, <2>8, <2>9, <2>10
  <1>3. CASE view = "admin"
    <2>1. AdminInv /\ PageIdle BY <1>1, <1>3 DEF IInv
    <2>2. TypeOK BY <2>1, AdminTyped DEF AdminInv, AdminHeads, PageIdle, TypeOK
    <2>3. OneActiveLottery /\ OrphanHasCause /\ RegisteredExists /\ RecordsAreOpen /\ OneJobPerOperation
      BY <2>1, AdminOneActive, AdminOrphans, AdminRegistered, AdminOpen, AdminJobs
    <2>4. OfKind("funds") = {} /\ OfKind("lock") = {}
      <3>1. \A o \in utxo : o.kind \in {"coin", "lottery"} BY <2>1 DEF AdminInv, AdminHeads, AdminKinds
      <3>2. QED BY <3>1 DEF OfKind
    <2>5. PreimageFirst BY <2>4 DEF PreimageFirst
    <2>6. OneRowPerPurchase BY <2>1 DEF PageIdle, OneRowPerPurchase
    <2>7. UnrecordedHasCause
      <3>1. PICK T, S : /\ T = {o \in OfKind("funds") \cup OfKind("lock") : ~OnRecord(o)}
                        /\ S = {c \in Runs : ~RunAt(c, "idle")}
        OBVIOUS
      <3>2. T = {} /\ S = {} BY <2>1, <2>4, <3>1 DEF PageIdle
      <3>3. Cardinality(T) = 0 /\ Cardinality(S) = 0 BY <3>2, NoneOrOne
      <3>4. Cardinality(T) <= losses + excused + Cardinality(S) BY <2>1, <3>3 DEF PageIdle
      <3>5. QED BY <3>1, <3>4 DEF UnrecordedHasCause
    <2>8. QED BY <2>2, <2>3, <2>5, <2>6, <2>7
  <1>4. QED BY <1>2, <1>3

\* Type correctness of the application, whatever the view is.
THEOREM TypeCorrect == Spec => []TypeOK
BY Invariant, Promises, PTL

\* What the wallet sent is in a workflow, or its chain of requests is still running, was cut,
\* or met a head or a key it was not allowed: requestFundsMutation and buyTicketMutation of
\* the page, for any number of clicks, tabs, reloads and outages.
THEOREM UnrecordedExplained == Spec => []UnrecordedHasCause
BY Invariant, Promises, PTL

\* The first post of buyTicketMutation stores the preimage before the lock is sent, so there
\* is no lock whose preimage the server does not have.
THEOREM PreimageAlwaysFirst == Spec => []PreimageFirst
BY Invariant, Promises, PTL

\* The idempotency key makes one workflow of the two posts of a purchase, whatever happened
\* to its intent in local storage in between.
THEOREM OneRow == Spec => []OneRowPerPurchase
BY Invariant, Promises, PTL

\* registerActiveLotteryForHead counts before it inserts: a second active lottery needs
\* another registration between the two.
THEOREM OneActive == Spec => []OneActiveLottery
BY Invariant, Promises, PTL

\* A lottery on the head that nobody can find anymore has a cause of its own: a lost or
\* mistaken answer, or a record that a later result replaced.
THEOREM OrphansExplained == Spec => []OrphanHasCause
BY Invariant, Promises, PTL

\* A registered lottery is on the head, but for each answer that was taken for another's.
THEOREM RegisteredIsThere == Spec => []RegisteredExists
BY Invariant, Promises, PTL

\* A record that a desk keeps in local storage is never of a registered lottery while no
\* answer has been lost.
THEOREM RecordsStayOpen == Spec => []RecordsAreOpen
BY Invariant, Promises, PTL

\* The routes look for a workflow in flight before they create one: a second one needs
\* another request between the two, or a workflow that came back.
THEOREM OneJob == Spec => []OneJobPerOperation
BY Invariant, Promises, PTL
=============================================================================
