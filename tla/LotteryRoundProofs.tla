------------------------- MODULE LotteryRoundProofs -------------------------
(***************************************************************************)
(* Who is paid by a round of the lottery, for any number of buyers, draws, *)
(* errors, abandoned awaits and scripts that are run by hand.              *)
(*                                                                         *)
(* Outputs and transactions have a shape that every transaction of the     *)
(* code keeps (Sound, TxSound): in particular nothing that a winner or Ida *)
(* was paid is spent again, except for a payout that Ida turns into her    *)
(* repayment, so HasWon and HasPrize are never lost.  On that rests what   *)
(* an execution knows (Faithful) as long as it heard its own answers only. *)
(***************************************************************************)
EXTENDS LotteryRound, TLAPS

-----------------------------------------------------------------------------
(* The shape of outputs and transactions *)

\* What a lottery has paid on headB, and what Ida has relayed to another head.
Winning(o) == o.head = "headB" /\ o.kind \in {"payout", "repaid", "prize"}
Away(o) == o.head # "headB" /\ o.kind = "prize"

\* Outputs with the datum of an HTLC are all about the active lottery.
Sound(o) ==
    /\ o.nested => o.lot = Active
    /\ o.kind \in {"payout", "lock", "relayed", "repaid"} => o.nested
    /\ o.kind \in {"coin", "lottery", "ticket", "lock", "payout", "repaid"} => o.head = "headB"
    /\ o.kind = "relayed" => o.head # "headB"
    /\ Away(o) => o.nested

Sounds(outputs) == outputs \subseteq Output /\ \A o \in outputs : Sound(o)

\* A transaction leaves prizes and repayments alone, and turns a payout into a repayment.
Respects(spends, makes) ==
    \A o \in spends :
        /\ o.kind \notin {"repaid", "prize"}
        /\ o.kind = "payout" => \E m \in makes : Winning(m) /\ m.lot = o.lot /\ m.for = o.for

TxSound(last, t) ==
    /\ t.id \in 1..last
    /\ Sounds(t.spends) /\ t.reads \subseteq Output /\ Sounds(t.makes)
    /\ Respects(t.spends, t.makes)

LedgerInv ==
    /\ Sounds(utxo) /\ Sounds(snapshot)
    /\ \A t \in pool : TxSound(sent, t)

-----------------------------------------------------------------------------
(* What an execution has in hand *)

Relaying == {"target", "lock", "awaitLock", "reread", "claimTarget", "awaitTarget",
             "claimSource", "awaitSource", "finish"}

Execution ==
    [row: {"pending", "running", "failed", "succeeded"}, pc: DrawPcs, attempts: 0..MaxAttempts,
     draft: Buyers \cup {None}, own: Nat, found: Output, source: Output]

HandOK(last, k) ==
    /\ k.own <= last
    /\ k.pc # "idle" => k.attempts < MaxAttempts
    /\ Sound(k.found) /\ Sound(k.source)
    /\ k.pc \in Relaying \cup {"payout"} => k.draft # None
    /\ k.pc \in Relaying => k.source.kind \in {"payout", "lock"} /\ k.source.for = k.draft
    /\ k.pc = "claimTarget" => k.found.kind = "relayed" /\ k.found.for = k.draft

DrawsInv == draw \in [Draws -> Execution] /\ \A d \in Draws : HandOK(sent, draw[d])

CountersInv ==
    /\ sent \in 0..MaxTxs /\ now \in 0..MaxNow
    /\ failures \in 0..MaxFailures /\ timeouts \in 0..MaxTimeouts /\ scripts \in 0..MaxScripts
    /\ sold \subseteq Buyers

-----------------------------------------------------------------------------
(* What may be relied on as long as no answer was taken for another's *)

HasWon(outputs, b) == \E o \in outputs : Winning(o) /\ o.lot = Active /\ o.for = b
HasPrize(outputs, b) == \E o \in outputs : Away(o) /\ o.for = b

\* Prizes are promised on the winner's head, and Ida is repaid, for a reason.
Earned(outputs, o) == o.kind = "relayed" \/ Away(o) => HasWon(outputs, o.for)
Repaid(outputs, o) == o.kind = "repaid" => HasPrize(outputs, o.for)
Fair(outputs, o) == Earned(outputs, o) /\ Repaid(outputs, o)

LedgerFaithful ==
    /\ \A o \in utxo : Fair(utxo, o)
    /\ \A o \in snapshot : Earned(utxo, o)
    /\ \A t \in pool : \A o \in t.makes : Fair(utxo, o)

\* Its own transaction makes what an execution goes on with when it is accepted.
AwaitsPayout(k, t) == t.id = k.own => \E m \in t.makes : Winning(m) /\ m.lot = Active /\ m.for = k.found.for
AwaitsPrize(k, t) == t.id = k.own => \E m \in t.makes : Away(m) /\ m.for = k.draft

HandFaithful(outputs, txs, k) ==
    /\ k.draft # None => HasWon(outputs, k.draft)
    /\ k.pc = "store" => HasWon(outputs, k.found.for)
    /\ k.pc = "awaitPay" => \A t \in txs : AwaitsPayout(k, t)
    /\ k.pc = "awaitTarget" => \A t \in txs : AwaitsPrize(k, t)
    /\ k.pc \in {"claimSource", "awaitSource", "finish"} => HasPrize(outputs, k.draft)

DrawsFaithful == \A d \in Draws : HandFaithful(utxo, pool, draw[d])

Shape == LedgerInv /\ DrawsInv /\ CountersInv
Faithful == LedgerFaithful /\ DrawsFaithful
IInv == Shape /\ (~misled => Faithful)

-----------------------------------------------------------------------------
(* Outputs and transactions *)

\* The transaction's id is the only field that is not the sender's.
LEMMA Retagged ==
    ASSUME NEW o \in Output, NEW n \in Nat
    PROVE  LET p == [o EXCEPT !.tx = n] IN
           /\ p \in Output
           /\ p.head = o.head /\ p.kind = o.kind /\ p.lot = o.lot /\ p.for = o.for /\ p.nested = o.nested
           /\ p.paid = o.paid /\ p.until = o.until /\ p.closes = o.closes /\ p.ada = o.ada /\ p.tx = n
BY DEF Output

\* What holds of the plan of a transaction's outputs holds of the outputs.
Tagged(outputs, n) == {[o EXCEPT !.tx = n] : o \in outputs}

LEMMA TaggedSound ==
    ASSUME NEW makes, Sounds(makes), NEW n \in Nat
    PROVE  Sounds(Tagged(makes, n))
<1> SUFFICES ASSUME NEW o \in makes
             PROVE  [o EXCEPT !.tx = n] \in Output /\ Sound([o EXCEPT !.tx = n])
    BY DEF Sounds, Tagged
<1>1. o \in Output /\ Sound(o)
    BY DEF Sounds
<1> QED
    BY <1>1, Retagged DEF Sound, Away

LEMMA TaggedRespects ==
    ASSUME NEW spends, NEW makes, Sounds(makes), Respects(spends, makes), NEW n \in Nat
    PROVE  Respects(spends, Tagged(makes, n))
<1> SUFFICES ASSUME NEW o \in spends, o.kind = "payout"
             PROVE  \E m \in Tagged(makes, n) : Winning(m) /\ m.lot = o.lot /\ m.for = o.for
    BY DEF Respects
<1>1. PICK m \in makes : Winning(m) /\ m.lot = o.lot /\ m.for = o.for
    BY DEF Respects
<1>2. m \in Output
    BY DEF Sounds
<1>3. [m EXCEPT !.tx = n] \in Tagged(makes, n)
    BY DEF Tagged
<1> QED
    BY <1>1, <1>2, <1>3, Retagged DEF Winning

LEMMA TaggedFair ==
    ASSUME NEW outputs, NEW makes, Sounds(makes), \A o \in makes : Fair(outputs, o), NEW n \in Nat
    PROVE  \A o \in Tagged(makes, n) : Fair(outputs, o)
<1> SUFFICES ASSUME NEW o \in makes
             PROVE  Fair(outputs, [o EXCEPT !.tx = n])
    BY DEF Tagged
<1>1. o \in Output /\ Fair(outputs, o)
    BY DEF Sounds
<1> QED
    BY <1>1, Retagged DEF Fair, Earned, Repaid, Away

\* What a Submit puts on its way.
Built(last, t, head, redeemer, spends, reads, makes) ==
    /\ t.id = last + 1 /\ t.head = head /\ t.redeemer = redeemer
    /\ t.spends = spends /\ t.reads = reads /\ t.makes = Tagged(makes, last + 1)

LEMMA Submitted ==
    ASSUME NEW head, NEW redeemer, NEW spends, NEW reads, NEW makes, NEW from, NEW upto,
           Submit(head, redeemer, spends, reads, makes, from, upto)
    PROVE  /\ \E t : pool' = pool \cup {t} /\ Built(sent, t, head, redeemer, spends, reads, makes)
           /\ sent < MaxTxs /\ sent' = sent + 1
           /\ utxo' = utxo /\ snapshot' = snapshot /\ now' = now
<1> DEFINE t == [id |-> sent + 1, head |-> head, redeemer |-> redeemer, spends |-> spends, reads |-> reads,
                  makes |-> Tagged(makes, sent + 1), from |-> from, upto |-> upto]
<1>1. pool' = pool \cup {t}
    BY DEF Submit, Tagged
<1>2. Built(sent, t, head, redeemer, spends, reads, makes)
    BY DEF Built
<1> QED
    BY <1>1, <1>2 DEF Submit

LEMMA SubmitSound ==
    ASSUME LedgerInv, sent \in Nat,
           NEW head, NEW redeemer, NEW spends, NEW reads, NEW makes, NEW from, NEW upto,
           Sounds(spends), reads \subseteq Output, Sounds(makes), Respects(spends, makes),
           Submit(head, redeemer, spends, reads, makes, from, upto)
    PROVE  LedgerInv'
<1>1. PICK t : pool' = pool \cup {t} /\ Built(sent, t, head, redeemer, spends, reads, makes)
    BY Submitted
<1>2. sent' = sent + 1 /\ utxo' = utxo /\ snapshot' = snapshot
    BY Submitted
<1>3. TxSound(sent', t)
    <2>1. Sounds(Tagged(makes, sent + 1)) /\ Respects(spends, Tagged(makes, sent + 1))
        BY TaggedSound, TaggedRespects
    <2> QED
        BY <1>1, <1>2, <2>1 DEF TxSound, Built
<1>4. ASSUME NEW x \in pool PROVE TxSound(sent', x)
    BY <1>2 DEF LedgerInv, TxSound
<1> QED
    BY <1>1, <1>2, <1>3, <1>4 DEF LedgerInv

LEMMA SubmitFaithful ==
    ASSUME LedgerFaithful, sent \in Nat,
           NEW head, NEW redeemer, NEW spends, NEW reads, NEW makes, NEW from, NEW upto,
           Sounds(makes), \A o \in makes : Fair(utxo, o),
           Submit(head, redeemer, spends, reads, makes, from, upto)
    PROVE  LedgerFaithful'
<1>1. PICK t : pool' = pool \cup {t} /\ Built(sent, t, head, redeemer, spends, reads, makes)
    BY Submitted
<1>2. utxo' = utxo /\ snapshot' = snapshot
    BY Submitted
<1>3. \A o \in t.makes : Fair(utxo, o)
    BY <1>1, TaggedFair DEF Built
<1> QED
    BY <1>1, <1>2, <1>3 DEF LedgerFaithful

-----------------------------------------------------------------------------
(* What an execution knows lasts *)

\* Payments, once made, are not unmade.
Lasts(before, after) ==
    /\ \A b : HasWon(before, b) => HasWon(after, b)
    /\ \A b : HasPrize(before, b) => HasPrize(after, b)

LEMMA FairLasts ==
    ASSUME NEW before, NEW after, Lasts(before, after), NEW o
    PROVE  /\ Earned(before, o) => Earned(after, o)
           /\ Fair(before, o) => Fair(after, o)
BY DEF Lasts, Fair, Earned, Repaid

\* The pool changes by decisions, and by transactions with ids of their own.
LEMMA HandLasts ==
    ASSUME NEW before, NEW after, Lasts(before, after), NEW txs, NEW others, NEW last, NEW k,
           \A t \in others : t \in txs \/ t.id # k.own,
           HandFaithful(before, txs, k)
    PROVE  HandFaithful(after, others, k)
BY DEF Lasts, HandFaithful, AwaitsPayout, AwaitsPrize

\* A head's decision keeps what was paid, and with it all that rests on it.
LEMMA DecideLasts ==
    ASSUME LedgerInv, NEW t \in pool, Judge(t)
    PROVE  /\ Lasts(utxo, utxo')
           /\ Accepts(t) => t.makes \subseteq utxo'
           /\ utxo' \subseteq utxo \cup t.makes
           /\ pool' = pool \ {t} /\ sent' = sent /\ snapshot' = snapshot /\ now' = now
<1>1. pool' = pool \ {t} /\ sent' = sent /\ snapshot' = snapshot /\ now' = now
    BY DEF Judge, Decide
<1>2. CASE Accepts(t)
    <2>1. utxo' = (utxo \ t.spends) \cup t.makes
        BY <1>2 DEF Judge, Decide, Accepts
    <2>2. TxSound(sent, t)
        BY DEF LedgerInv
    <2>3. ASSUME NEW b, HasWon(utxo, b) PROVE HasWon(utxo', b)
        <3>1. PICK o \in utxo : Winning(o) /\ o.lot = Active /\ o.for = b
            BY <2>3 DEF HasWon
        <3>2. CASE o \in t.spends
            <4>1. PICK m \in t.makes : Winning(m) /\ m.lot = o.lot /\ m.for = o.for
                BY <2>2, <3>1, <3>2 DEF TxSound, Respects, Winning
            <4> QED
                BY <2>1, <3>1, <4>1 DEF HasWon
        <3> QED
            BY <2>1, <3>1, <3>2 DEF HasWon
    <2>4. ASSUME NEW b, HasPrize(utxo, b) PROVE HasPrize(utxo', b)
        BY <2>1, <2>2, <2>4 DEF HasPrize, Away, TxSound, Respects
    <2> QED
        BY <1>1, <2>1, <2>3, <2>4 DEF Lasts
<1>3. CASE ~Accepts(t)
    BY <1>1, <1>3 DEF Judge, Lasts
<1> QED
    BY <1>2, <1>3

-----------------------------------------------------------------------------
(* Steps of one execution *)

\* Execution d goes on as k, and the others stay where they are.
Becomes(d, k) == draw' = [draw EXCEPT ![d] = k]

LEMMA OthersStay ==
    ASSUME DrawsInv, sent \in Nat, sent' \in Nat, sent <= sent',
           NEW d \in Draws, NEW k \in Execution, HandOK(sent', k), Becomes(d, k)
    PROVE  DrawsInv'
<1>1. draw' \in [Draws -> Execution]
    BY DEF DrawsInv, Becomes
<1>2. ASSUME NEW e \in Draws PROVE HandOK(sent', draw'[e])
    <2>1. CASE e = d
        BY <2>1 DEF Becomes, DrawsInv
    <2>2. CASE e # d
        <3>1. draw'[e] = draw[e] /\ draw[e] \in Execution /\ HandOK(sent, draw[e])
            BY <2>2 DEF Becomes, DrawsInv
        <3> QED
            BY <3>1 DEF HandOK, Execution
    <2> QED
        BY <2>1, <2>2
<1> QED
    BY <1>1, <1>2 DEF DrawsInv

LEMMA OthersFaithful ==
    ASSUME DrawsInv, DrawsFaithful, sent \in Nat, Lasts(utxo, utxo'),
           \A t \in pool' : t \in pool \/ t.id = sent + 1,
           NEW d \in Draws, NEW k, HandFaithful(utxo', pool', k), Becomes(d, k)
    PROVE  DrawsFaithful'
<1> SUFFICES ASSUME NEW e \in Draws PROVE HandFaithful(utxo', pool', draw'[e])
    BY DEF DrawsFaithful
<1>1. CASE e = d
    BY <1>1 DEF Becomes, DrawsInv
<1>2. CASE e # d
    <2>1. draw'[e] = draw[e] /\ draw[e].own \in Nat /\ draw[e].own <= sent
        BY <1>2 DEF Becomes, DrawsInv, Execution, HandOK
    <2>2. HandFaithful(utxo, pool, draw[e])
        BY DEF DrawsFaithful
    <2>3. \A t \in pool' : t \in pool \/ t.id # draw[e].own
        BY <2>1
    <2> QED
        BY <2>1, <2>2, <2>3, HandLasts
<1> QED
    BY <1>1, <1>2

LEMMA Unmoved == Lasts(utxo, utxo)
BY DEF Lasts

\* A step between awaits: the heads are left alone.
LEMMA Quiet ==
    ASSUME IInv, CountersInv', UNCHANGED headVars, misled' = misled,
           NEW d \in Draws, NEW k \in Execution, HandOK(sent, k),
           ~misled => HandFaithful(utxo, pool, k), Becomes(d, k)
    PROVE  IInv'
<1>1. sent \in Nat /\ sent' = sent /\ utxo' = utxo /\ pool' = pool /\ snapshot' = snapshot
    BY DEF headVars, IInv, Shape, CountersInv
<1>2. DrawsInv'
    BY <1>1, OthersStay DEF IInv, Shape
<1>3. LedgerInv'
    BY <1>1 DEF IInv, Shape, LedgerInv
<1>4. ASSUME ~misled PROVE Faithful'
    <2>1. LedgerFaithful'
        BY <1>1, <1>4 DEF IInv, Faithful, LedgerFaithful
    <2>2. DrawsFaithful'
        BY <1>1, <1>4, OthersFaithful, Unmoved DEF IInv, Shape, Faithful
    <2> QED
        BY <2>1, <2>2 DEF Faithful
<1> QED
    BY <1>2, <1>3, <1>4 DEF IInv, Shape

\* A step that sends a transaction, and waits for its answer or not.
LEMMA Sending ==
    ASSUME IInv, Stays,
           NEW head, NEW redeemer, NEW spends, NEW reads, NEW makes, NEW from, NEW upto,
           Sounds(spends), reads \subseteq Output, Sounds(makes), Respects(spends, makes),
           ~misled => \A o \in makes : Fair(utxo, o),
           Submit(head, redeemer, spends, reads, makes, from, upto),
           NEW d \in Draws, NEW k \in Execution, HandOK(sent + 1, k),
           ~misled => \A t : Built(sent, t, head, redeemer, spends, reads, makes)
                                => HandFaithful(utxo, pool \cup {t}, k),
           Becomes(d, k)
    PROVE  IInv'
<1>1. PICK t : pool' = pool \cup {t} /\ Built(sent, t, head, redeemer, spends, reads, makes)
    BY Submitted
<1>2. sent < MaxTxs /\ sent' = sent + 1 /\ utxo' = utxo /\ snapshot' = snapshot /\ now' = now
    BY Submitted
<1>3. sent \in 0..MaxTxs /\ MaxTxs \in Nat
    BY HeadAssumption DEF IInv, Shape, CountersInv
<1>4. DrawsInv'
    BY <1>2, <1>3, OthersStay DEF IInv, Shape
<1>5. LedgerInv'
    BY <1>3, SubmitSound DEF IInv, Shape
<1>6. CountersInv'
    BY <1>2, <1>3 DEF Stays, history, IInv, Shape, CountersInv
<1>7. ASSUME ~misled PROVE Faithful'
    <2>1. LedgerFaithful'
        BY <1>3, <1>7, SubmitFaithful DEF IInv, Faithful
    <2>2. DrawsFaithful'
        BY <1>1, <1>2, <1>3, <1>7, OthersFaithful, Unmoved DEF IInv, Shape, Faithful, Built
    <2> QED
        BY <2>1, <2>2 DEF Faithful
<1> QED
    BY <1>4, <1>5, <1>6, <1>7 DEF IInv, Shape, Stays, history

-----------------------------------------------------------------------------
(* The transactions of the code *)

LEMMA CoinSound == Coin \in Output /\ Sound(Coin) /\ Coin.kind = "coin"
BY LotteryAssumption DEF Coin, Plain, Output, Kinds, Sound, Away, Active

LEMMA PlainFields ==
    ASSUME NEW kind \in Kinds
    PROVE  LET p == Plain("headB", kind) IN
           p \in Output /\ p.kind = kind /\ p.head = "headB" /\ p.nested = FALSE /\ p.paid = FALSE
BY LotteryAssumption DEF Plain, Output

\* A ticket that Ida sells, and one that is bought by the script.
LEMMA NestedTicket ==
    ASSUME NEW b \in Buyers, NEW until \in Int
    PROVE  LET o == Ticket(Active, b, TRUE, until) IN
           /\ o \in Output /\ Sound(o)
           /\ o.kind = "ticket" /\ o.head = "headB" /\ o.lot = Active /\ o.for = b /\ o.nested = TRUE
<1> DEFINE p == Plain("headB", "ticket")
<1> DEFINE o == Ticket(Active, b, TRUE, until)
<1>1. p \in Output /\ p.kind = "ticket" /\ p.head = "headB" /\ Active \in Nat
    BY PlainFields DEF Kinds, Active
<1>2. o = [p EXCEPT !.lot = Active, !.for = b, !.nested = TRUE, !.until = until]
    BY DEF Ticket
<1> HIDE DEF p, o
<1>3. o \in Output /\ o.kind = "ticket" /\ o.head = "headB" /\ o.lot = Active /\ o.for = b
    BY <1>1, <1>2 DEF Output
<1>4. o.nested = TRUE
    BY <1>1, <1>2 DEF Output
<1>5. Sound(o)
    BY <1>3, <1>4 DEF Sound, Away
<1> QED
    BY <1>3, <1>4, <1>5 DEF o

LEMMA BareTicket ==
    ASSUME NEW b \in Buyers, NEW lot \in Nat
    PROVE  LET o == Ticket(lot, b, FALSE, 0) IN o \in Output /\ Sound(o) /\ o.kind = "ticket"
<1> DEFINE p == Plain("headB", "ticket")
<1> DEFINE o == Ticket(lot, b, FALSE, 0)
<1> DEFINE none == 0
<1>1. p \in Output /\ p.kind = "ticket" /\ p.head = "headB" /\ b \in Buyers \cup {None} /\ none \in Int
    BY PlainFields DEF Kinds
<1>2. o = [p EXCEPT !.lot = lot, !.for = b, !.nested = FALSE, !.until = none]
    BY DEF Ticket
<1> HIDE DEF p, o, none
<1>3. o \in Output /\ o.kind = "ticket" /\ o.head = "headB"
    BY <1>1, <1>2 DEF Output
<1>4. o.nested = FALSE
    BY <1>1, <1>2 DEF Output
<1>5. Sound(o)
    BY <1>3, <1>4 DEF Sound, Away
<1> QED
    BY <1>3, <1>5 DEF o

LEMMA ReclaimedSound ==
    ASSUME NEW lot \in Nat
    PROVE  LET o == [Plain("headB", "reclaimed") EXCEPT !.lot = lot] IN
           o \in Output /\ Sound(o) /\ o.kind = "reclaimed"
<1> DEFINE p == Plain("headB", "reclaimed")
<1> DEFINE o == [p EXCEPT !.lot = lot]
<1>1. p \in Output /\ p.kind = "reclaimed" /\ p.head = "headB" /\ p.nested = FALSE
    BY PlainFields DEF Kinds
<1> HIDE DEF p
<1>2. o \in Output /\ o.kind = "reclaimed" /\ o.head = "headB"
    BY <1>1 DEF Output
<1>3. o.nested = FALSE
    BY <1>1 DEF Output
<1> HIDE DEF o
<1>4. Sound(o)
    BY <1>2, <1>3 DEF Sound, Away
<1> QED
    BY <1>2, <1>4 DEF o, p

LEMMA LotterySound ==
    ASSUME NEW lot \in Nat, NEW closes \in Nat
    PROVE  LET o == Lottery(lot, closes) IN
           o \in Output /\ Sound(o) /\ o.kind = "lottery" /\ o.lot = lot /\ o.paid = FALSE
<1> DEFINE p == Plain("headB", "lottery")
<1> DEFINE o == Lottery(lot, closes)
<1>1. p \in Output /\ p.kind = "lottery" /\ p.head = "headB" /\ p.nested = FALSE /\ p.paid = FALSE
    BY PlainFields DEF Kinds
<1>2. o = [p EXCEPT !.lot = lot, !.closes = closes, !.ada = Prize]
    BY DEF Lottery
<1> HIDE DEF p, o
<1>3. o \in Output /\ o.kind = "lottery" /\ o.head = "headB" /\ o.lot = lot
    <2>1. Prize \in Int
        BY LotteryAssumption
    <2> QED
        BY <1>1, <1>2, <2>1 DEF Output
<1>4. o.nested = FALSE /\ o.paid = FALSE
    BY <1>1, <1>2 DEF Output
<1>5. Sound(o)
    BY <1>3, <1>4 DEF Sound, Away
<1> QED
    BY <1>3, <1>4, <1>5 DEF o

LEMMA PaidOutSound ==
    ASSUME NEW l \in Output, Sound(l), l.kind = "lottery"
    PROVE  LET o == PaidOut(l) IN
           o \in Output /\ Sound(o) /\ o.kind = "lottery" /\ o.lot = l.lot /\ o.paid = TRUE
<1> DEFINE o == PaidOut(l)
<1>1. l.ada - Prize \in Int
    BY LotteryAssumption DEF Output
<1>2. o \in Output /\ o.kind = l.kind /\ o.lot = l.lot /\ o.head = l.head /\ o.for = l.for
    BY <1>1 DEF PaidOut, Output
<1>3. o.nested = l.nested /\ o.paid = TRUE
    BY <1>1 DEF PaidOut, Output
<1> HIDE DEF o
<1>4. Sound(o)
    BY <1>2, <1>3 DEF Sound, Away
<1> QED
    BY <1>2, <1>3, <1>4 DEF o

LEMMA DesiredSound ==
    ASSUME NEW w \in Output, Sound(w), w.kind = "ticket"
    PROVE  \A o \in {Desired(w), [Desired(w) EXCEPT !.kind = "prize"]} :
              /\ o \in Output /\ Sound(o) /\ Winning(o) /\ o.kind \in {"payout", "prize"}
              /\ o.lot = w.lot /\ o.for = w.for
<1> DEFINE Paid(kind) == [w EXCEPT !.kind = kind, !.ada = Prize]
<1>1. w.head = "headB" /\ Prize \in Int
    BY LotteryAssumption DEF Sound
<1>2. ASSUME NEW kind \in {"payout", "prize"}
      PROVE  /\ Paid(kind) \in Output /\ Paid(kind).kind = kind /\ Paid(kind).head = w.head
             /\ Paid(kind).lot = w.lot /\ Paid(kind).for = w.for
    BY <1>1 DEF Output, Kinds
<1>3. ASSUME NEW kind \in {"payout", "prize"} PROVE Paid(kind).nested = w.nested
    BY <1>1 DEF Output, Kinds
<1>4. /\ Desired(w) \in {Paid("payout"), Paid("prize")}
      /\ Desired(w) = Paid("payout") => w.nested
      /\ [Desired(w) EXCEPT !.kind = "prize"] = Paid("prize")
    BY <1>1 DEF Desired, Output
<1> HIDE DEF Paid
<1>5. w.nested => Sound(Paid("payout"))
    BY <1>1, <1>2, <1>3 DEF Sound, Away
<1>6. Sound(Paid("prize"))
    BY <1>1, <1>2, <1>3 DEF Sound, Away
<1> QED
    BY <1>1, <1>2, <1>4, <1>5, <1>6 DEF Winning

LEMMA PayPlan ==
    ASSUME LedgerInv, NEW l \in Lotteries, NEW w \in TicketsOf(l.lot),
           NEW prize \in {Desired(w), [Desired(w) EXCEPT !.kind = "prize"]}
    PROVE  /\ Sounds({l, w}) /\ Sounds({PaidOut(l), prize}) /\ Respects({l, w}, {PaidOut(l), prize})
           /\ \A o \in {PaidOut(l), prize} : Fair(utxo, o)
<1>1. /\ l \in Output /\ Sound(l) /\ l.kind = "lottery"
      /\ w \in Output /\ Sound(w) /\ w.kind = "ticket" /\ w.lot = l.lot
    BY DEF LedgerInv, Sounds, Lotteries, TicketsOf, At
<1>2. PaidOut(l) \in Output /\ Sound(PaidOut(l)) /\ PaidOut(l).kind = "lottery"
    BY <1>1, PaidOutSound
<1>3. prize \in Output /\ Sound(prize) /\ Winning(prize) /\ prize.kind \in {"payout", "prize"}
    BY <1>1, DesiredSound
<1> QED
    BY <1>1, <1>2, <1>3 DEF Sounds, Respects, Fair, Earned, Repaid, Away, Winning

\* A claim makes a prize of a relayed HTLC, a repayment of a payout, and a ticket of a lock.
Made(o) ==
    [o EXCEPT !.kind = CASE o.kind = "relayed" -> "prize" [] o.kind = "payout" -> "repaid" [] o.kind = "lock" -> "ticket"]

LEMMA ClaimPlan ==
    ASSUME NEW o \in Output, Sound(o), o.kind \in {"relayed", "payout", "lock"}
    PROVE  /\ Sounds({o}) /\ Sounds({Made(o)}) /\ Respects({o}, {Made(o)})
           /\ Made(o).for = o.for /\ Made(o).lot = o.lot /\ Made(o).head = o.head
           /\ Away(Made(o)) <=> o.kind = "relayed"
           /\ Made(o).kind = "repaid" <=> o.kind = "payout"
           /\ Made(o).kind # "relayed"
<1>1. CASE o.kind = "relayed"
    BY <1>1 DEF Made, Output, Kinds, Sounds, Sound, Away, Respects, Winning
<1>2. CASE o.kind = "payout"
    BY <1>2 DEF Made, Output, Kinds, Sounds, Sound, Away, Respects, Winning
<1>3. CASE o.kind = "lock"
    BY <1>3 DEF Made, Output, Kinds, Sounds, Sound, Away, Respects, Winning
<1> QED
    BY <1>1, <1>2, <1>3

LEMMA ClaimIsSubmit ==
    ASSUME NEW o, Claim(o)
    PROVE  Submit(o.head, "none", {o}, {}, {Made(o)}, 0, o.until - ClaimOffset)
BY DEF Claim, Made

-----------------------------------------------------------------------------
(* The steps of a draw *)

LEMMA Pcs ==
    /\ Awaiting = {"awaitPay", "awaitLock", "awaitTarget", "awaitSource"}
    /\ DrawPcs = Relaying \cup {"idle", "submit", "awaitPay", "store", "payout"}
BY DEF Awaiting, AfterAnswer, DrawPcs, Relaying

LEMMA Staying ==
    ASSUME IInv, Stays, UNCHANGED headVars
    PROVE  CountersInv' /\ misled' = misled
BY DEF IInv, Shape, CountersInv, Stays, history, headVars

LEMMA EndedFields ==
    ASSUME NEW k \in Execution, NEW row \in {"pending", "running", "failed", "succeeded"}
    PROVE  LET e == Ended(k, row) IN
           /\ e \in Execution /\ e.pc = "idle" /\ e.own = 0 /\ e.draft = k.draft /\ e.attempts = k.attempts
           /\ e.found = Coin /\ e.source = Coin
BY CoinSound DEF Ended, Execution, DrawPcs

\* An execution that ends keeps nothing but its draft.
LEMMA EndedOK ==
    ASSUME NEW k \in Execution, NEW e \in Execution, e.pc = "idle", e.own = 0, e.draft = k.draft,
           e.found = Coin, e.source = Coin, NEW n \in Nat, NEW outputs, NEW txs, NEW others
    PROVE  /\ HandOK(n, e)
           /\ HandFaithful(outputs, txs, k) => HandFaithful(outputs, others, e)
BY CoinSound DEF HandOK, HandFaithful, Relaying

LEMMA FailedFields ==
    ASSUME NEW k \in Execution, NEW n, HandOK(n, k), k.pc # "idle"
    PROVE  LET e == Failed(k) IN
           e \in Execution /\ e.pc = "idle" /\ e.own = 0 /\ e.draft = k.draft /\ e.found = Coin /\ e.source = Coin
<1> DEFINE e == Ended(k, "failed")
<1>1. /\ e \in Execution /\ e.pc = "idle" /\ e.own = 0 /\ e.draft = k.draft /\ e.attempts = k.attempts
      /\ e.found = Coin /\ e.source = Coin
    BY EndedFields
<1>2. e.attempts + 1 \in 0..MaxAttempts
    BY <1>1, RoundAssumption DEF HandOK, Execution
<1>3. Failed(k) = [e EXCEPT !.attempts = e.attempts + 1]
    BY DEF Failed
<1> HIDE DEF e
<1> QED
    BY <1>1, <1>2, <1>3 DEF Execution

LEMMA Here ==
    ASSUME IInv, NEW d \in Draws
    PROVE  /\ draw[d] \in Execution /\ HandOK(sent, draw[d]) /\ sent \in Nat
           /\ draw \in [Draws -> Execution]
           /\ ~misled => HandFaithful(utxo, pool, draw[d])
BY DEF IInv, Shape, DrawsInv, CountersInv, Faithful, DrawsFaithful

LEMMA FailsKeeps ==
    ASSUME IInv, CountersInv', UNCHANGED headVars, misled' = misled,
           NEW d \in Draws, draw[d].pc # "idle", Fails(d)
    PROVE  IInv'
<1> DEFINE k == Failed(draw[d])
<1>1. draw[d] \in Execution /\ HandOK(sent, draw[d]) /\ sent \in Nat /\ (~misled => HandFaithful(utxo, pool, draw[d]))
    BY Here
<1>2. k \in Execution /\ k.pc = "idle" /\ k.own = 0 /\ k.draft = draw[d].draft /\ k.found = Coin /\ k.source = Coin
    BY <1>1, FailedFields
<1>3. Becomes(d, k)
    BY DEF Fails, Becomes
<1> HIDE DEF k
<1>4. HandOK(sent, k) /\ (~misled => HandFaithful(utxo, pool, k))
    BY <1>1, <1>2, EndedOK
<1> QED
    BY <1>2, <1>3, <1>4, Quiet

LEMMA StartKeeps ==
    ASSUME IInv, NEW d \in Draws, Start(d)
    PROVE  IInv'
<1> DEFINE k == [draw[d] EXCEPT !.row = "running", !.pc = IF draw[d].draft = None THEN "submit" ELSE "payout"]
<1>1. /\ draw[d] \in Execution /\ HandOK(sent, draw[d]) /\ draw \in [Draws -> Execution]
      /\ ~misled => HandFaithful(utxo, pool, draw[d])
    BY Here
<1>2. Becomes(d, k)
    BY <1>1 DEF Start, Becomes, Execution
<1>3. /\ k \in Execution /\ k.pc = (IF draw[d].draft = None THEN "submit" ELSE "payout")
      /\ k.own = draw[d].own /\ k.draft = draw[d].draft /\ k.attempts = draw[d].attempts
      /\ k.found = draw[d].found /\ k.source = draw[d].source
    BY <1>1 DEF Execution, DrawPcs
<1>4. UNCHANGED headVars /\ Stays /\ draw[d].attempts < MaxAttempts
    BY DEF Start
<1> HIDE DEF k
<1>5. HandOK(sent, k)
    BY <1>1, <1>3, <1>4 DEF HandOK, Relaying
<1>6. ~misled => HandFaithful(utxo, pool, k)
    BY <1>1, <1>3 DEF HandFaithful
<1> QED
    BY <1>2, <1>3, <1>4, <1>5, <1>6, Quiet, Staying

LEMMA SubmitPayKeeps ==
    ASSUME IInv, NEW d \in Draws, SubmitPay(d)
    PROVE  IInv'
<1>0. PICK l \in Lotteries : \E w \in TicketsOf(l.lot) :
          /\ l.lot = Active /\ w.nested
          /\ Pay(l, w, Desired(w), PayDelay)
          /\ draw' = [draw EXCEPT ![d].pc = "awaitPay", ![d].own = sent + 1, ![d].found = w]
    BY DEF SubmitPay
<1>1. PICK w \in TicketsOf(l.lot) :
          /\ l.lot = Active /\ w.nested
          /\ Pay(l, w, Desired(w), PayDelay)
          /\ draw' = [draw EXCEPT ![d].pc = "awaitPay", ![d].own = sent + 1, ![d].found = w]
    BY <1>0
<1> DEFINE k == [draw[d] EXCEPT !.pc = "awaitPay", !.own = sent + 1, !.found = w]
<1> DEFINE makes == {PaidOut(l), Desired(w)}
<1>2. /\ draw[d] \in Execution /\ HandOK(sent, draw[d]) /\ draw \in [Draws -> Execution] /\ sent \in Nat
      /\ ~misled => HandFaithful(utxo, pool, draw[d])
    BY Here
<1>3. w \in Output /\ Sound(w) /\ w.kind = "ticket" /\ w.lot = Active
    BY <1>1 DEF TicketsOf, At, IInv, Shape, LedgerInv, Sounds
<1>4. /\ Sounds({l, w}) /\ Sounds(makes) /\ Respects({l, w}, makes)
      /\ \A o \in makes : Fair(utxo, o)
    BY <1>1, PayPlan DEF IInv, Shape
<1>5. /\ k \in Execution /\ k.pc = "awaitPay" /\ k.own = sent + 1 /\ k.draft = draw[d].draft
      /\ k.attempts = draw[d].attempts /\ k.found = w /\ k.source = draw[d].source
    <2>1. "awaitPay" \in DrawPcs /\ sent + 1 \in Nat
        BY <1>2, Pcs
    <2> QED
        BY <1>2, <1>3, <2>1 DEF Execution
<1>6. Becomes(d, k)
    BY <1>1, <1>2 DEF Becomes, Execution
<1>7. draw[d].pc = "submit" /\ Stays
    BY DEF SubmitPay
<1> HIDE DEF k
<1>8. HandOK(sent + 1, k)
    BY <1>2, <1>3, <1>5, <1>7 DEF HandOK, Relaying
<1>9. Submit("headB", "PayWinner", {l, w}, {}, makes, l.closes + PayDelay, Always)
    BY <1>1 DEF Pay
<1>10. ASSUME NEW t, Built(sent, t, "headB", "PayWinner", {l, w}, {}, makes), ~misled
       PROVE  HandFaithful(utxo, pool \cup {t}, k)
    <2>1. [Desired(w) EXCEPT !.tx = sent + 1] \in t.makes
        BY <1>10 DEF Built, Tagged
    <2>2. Desired(w) \in Output /\ Winning(Desired(w)) /\ Desired(w).lot = Active /\ Desired(w).for = w.for
        BY <1>3, DesiredSound
    <2> DEFINE m == [Desired(w) EXCEPT !.tx = sent + 1]
    <2>5. Winning(m) /\ m.lot = Active /\ m.for = w.for
        BY <2>2, <1>2, Retagged DEF Winning
    <2> HIDE DEF m
    <2>3. AwaitsPayout(k, t)
        BY <2>1, <2>5, <1>5 DEF AwaitsPayout, m
    <2>4. \A x \in pool : x.id # k.own
        BY <1>2, <1>5 DEF IInv, Shape, LedgerInv, TxSound
    <2> QED
        BY <1>2, <1>5, <1>10, <2>3, <2>4 DEF HandFaithful, AwaitsPayout
<1> HIDE DEF makes
<1> QED
    BY <1>4, <1>5, <1>6, <1>7, <1>8, <1>9, <1>10, Sending

LEMMA StoreDraftKeeps ==
    ASSUME IInv, NEW d \in Draws, StoreDraft(d)
    PROVE  IInv'
<1> DEFINE e == Failed(draw[d])
<1> DEFINE k == [e EXCEPT !.draft = draw[d].found.for]
<1>1. /\ draw[d] \in Execution /\ HandOK(sent, draw[d]) /\ sent \in Nat
      /\ ~misled => HandFaithful(utxo, pool, draw[d])
    BY Here
<1>2. draw[d].pc = "store" /\ Stays /\ UNCHANGED headVars /\ Becomes(d, k)
    BY DEF StoreDraft, Becomes
<1>3. e \in Execution /\ e.pc = "idle" /\ e.own = 0 /\ e.found = Coin /\ e.source = Coin
    BY <1>1, <1>2, FailedFields
<1>4. draw[d].found.for \in Buyers \cup {None}
    BY <1>1 DEF Execution, Output
<1> HIDE DEF e
<1>5. /\ k \in Execution /\ k.pc = "idle" /\ k.own = 0 /\ k.found = Coin /\ k.source = Coin
      /\ k.draft = draw[d].found.for
    BY <1>3, <1>4 DEF Execution
<1> HIDE DEF k
<1>6. HandOK(sent, k)
    BY <1>1, <1>5, CoinSound DEF HandOK, Relaying
<1>7. ~misled => HandFaithful(utxo, pool, k)
    BY <1>1, <1>2, <1>5 DEF HandFaithful
<1> QED
    BY <1>2, <1>5, <1>6, <1>7, Quiet, Staying

\* A step of d that leads to pc with found and source in hand, and sends nothing.
Turns(d, pc, found, source) ==
    draw' = [draw EXCEPT ![d] = [draw[d] EXCEPT !.pc = pc, !.found = found, !.source = source]]

LEMMA TurnsKeeps ==
    ASSUME IInv, Stays, UNCHANGED headVars, NEW d \in Draws, draw[d].pc # "idle",
           NEW pc \in {"target", "claimTarget", "lock"}, NEW found \in Output, NEW source \in Output,
           Sound(found), Sound(source), draw[d].draft # None,
           source.kind \in {"payout", "lock"}, source.for = draw[d].draft,
           pc = "claimTarget" => found.kind = "relayed" /\ found.for = draw[d].draft,
           Turns(d, pc, found, source)
    PROVE  IInv'
<1> DEFINE k == [draw[d] EXCEPT !.pc = pc, !.found = found, !.source = source]
<1>1. /\ draw[d] \in Execution /\ HandOK(sent, draw[d]) /\ sent \in Nat
      /\ ~misled => HandFaithful(utxo, pool, draw[d])
    BY Here
<1>2. pc \in DrawPcs
    BY Pcs DEF Relaying
<1>3. /\ k \in Execution /\ k.pc = pc /\ k.own = draw[d].own /\ k.draft = draw[d].draft
      /\ k.attempts = draw[d].attempts /\ k.found = found /\ k.source = source
    BY <1>1, <1>2 DEF Execution
<1>4. Becomes(d, k)
    BY DEF Turns, Becomes
<1> HIDE DEF k
<1>5. HandOK(sent, k)
    BY <1>1, <1>3 DEF HandOK
<1>6. ~misled => HandFaithful(utxo, pool, k)
    BY <1>1, <1>3 DEF HandFaithful
<1> QED
    BY <1>3, <1>4, <1>5, <1>6, Quiet, Staying

LEMMA FindPayoutKeeps ==
    ASSUME IInv, NEW d \in Draws, FindPayout(d)
    PROVE  IInv'
<1>1. draw[d].pc = "payout" /\ Stays /\ UNCHANGED headVars
    BY DEF FindPayout
<1>2. CASE Fails(d)
    BY <1>1, <1>2, Staying, FailsKeeps
<1>3. ASSUME NEW o \in snapshot, o.kind \in {"payout", "lock"}, o.for = draw[d].draft,
             draw' = [draw EXCEPT ![d].pc = "target", ![d].source = o]
      PROVE  IInv'
    <2>1. o \in Output /\ Sound(o)
        BY DEF IInv, Shape, LedgerInv, Sounds
    <2>2. /\ draw[d] \in Execution /\ HandOK(sent, draw[d]) /\ draw \in [Draws -> Execution]
        BY Here
    <2>3. Turns(d, "target", draw[d].found, o)
        BY <1>3, <2>2 DEF Turns, Execution
    <2>4. draw[d].found \in Output /\ Sound(draw[d].found) /\ draw[d].draft # None
        BY <1>1, <2>2 DEF Execution, HandOK
    <2> QED
        BY <1>1, <1>3, <2>1, <2>3, <2>4, TurnsKeeps
<1> QED
    BY <1>2, <1>3 DEF FindPayout

LEMMA HaveSource ==
    ASSUME IInv, NEW d \in Draws, draw[d].pc \in Relaying
    PROVE  /\ draw[d].source \in Output /\ Sound(draw[d].source)
           /\ draw[d].source.kind \in {"payout", "lock"} /\ draw[d].source.for = draw[d].draft
           /\ draw[d].found \in Output /\ Sound(draw[d].found)
           /\ draw[d].draft # None /\ draw[d].draft \in Buyers \cup {None}
BY Here DEF Execution, HandOK

LEMMA TakeRelayed ==
    ASSUME IInv, Stays, UNCHANGED headVars, NEW d \in Draws, draw[d].pc \in {"target", "reread"},
           NEW o \in OpenRelayed(draw[d].draft),
           draw' = [draw EXCEPT ![d].pc = "claimTarget", ![d].found = o]
    PROVE  IInv'
<1>1. o \in Output /\ Sound(o) /\ o.kind = "relayed" /\ o.for = draw[d].draft
    BY DEF IInv, Shape, LedgerInv, Sounds, OpenRelayed
<1>2. draw \in [Draws -> Execution] /\ draw[d] \in Execution
    BY Here
<1>3. Turns(d, "claimTarget", o, draw[d].source)
    BY <1>2 DEF Turns, Execution
<1>4. draw[d].pc \in Relaying
    BY DEF Relaying
<1> QED
    BY <1>1, <1>3, <1>4, HaveSource, TurnsKeeps

LEMMA FindTargetKeeps ==
    ASSUME IInv, NEW d \in Draws, FindTarget(d)
    PROVE  IInv'
<1>1. draw[d].pc = "target" /\ Stays /\ UNCHANGED headVars
    BY DEF FindTarget
<1>2. ASSUME NEW o \in OpenRelayed(draw[d].draft),
             draw' = [draw EXCEPT ![d].pc = "claimTarget", ![d].found = o]
      PROVE  IInv'
    BY <1>1, <1>2, TakeRelayed
<1>3. CASE Goes(d, "lock")
    <2>1. draw \in [Draws -> Execution] /\ draw[d] \in Execution
        BY Here
    <2>2. Turns(d, "lock", draw[d].found, draw[d].source)
        BY <1>3, <2>1 DEF Goes, Turns, Execution
    <2>3. draw[d].pc \in Relaying
        BY <1>1 DEF Relaying
    <2> QED
        BY <1>1, <2>2, <2>3, HaveSource, TurnsKeeps
<1> QED
    BY <1>2, <1>3 DEF FindTarget

LEMMA RereadKeeps ==
    ASSUME IInv, NEW d \in Draws, Reread(d)
    PROVE  IInv'
<1>1. draw[d].pc = "reread" /\ Stays /\ UNCHANGED headVars
    BY DEF Reread
<1>2. ASSUME NEW o \in OpenRelayed(draw[d].draft),
             draw' = [draw EXCEPT ![d].pc = "claimTarget", ![d].found = o]
      PROVE  IInv'
    BY <1>1, <1>2, TakeRelayed
<1>3. CASE Fails(d)
    BY <1>1, <1>3, Staying, FailsKeeps
<1> QED
    BY <1>2, <1>3 DEF Reread

\* A step of d that sends a transaction of the relay and awaits it at pc.
LEMMA AwaitsKeeps ==
    ASSUME IInv, Stays, NEW d \in Draws, draw[d].pc \in Relaying,
           NEW pc \in {"awaitLock", "awaitTarget", "awaitSource"}, Awaits(d, pc),
           NEW head, NEW spends, NEW makes, NEW upto,
           Sounds(spends), Sounds(makes), Respects(spends, makes),
           ~misled => \A o \in makes : Fair(utxo, o),
           pc = "awaitTarget" => \E o \in makes : Away(o) /\ o.for = draw[d].draft,
           pc = "awaitSource" /\ ~misled => HasPrize(utxo, draw[d].draft),
           Submit(head, "none", spends, {}, makes, 0, upto)
    PROVE  IInv'
<1> DEFINE k == [draw[d] EXCEPT !.pc = pc, !.own = sent + 1]
<1>1. /\ draw[d] \in Execution /\ HandOK(sent, draw[d]) /\ draw \in [Draws -> Execution] /\ sent \in Nat
      /\ ~misled => HandFaithful(utxo, pool, draw[d])
    BY Here
<1>2. Becomes(d, k)
    BY <1>1 DEF Awaits, Becomes, Execution
<1>3. pc \in DrawPcs /\ sent + 1 \in Nat /\ pc \in Relaying
    BY <1>1, Pcs DEF Relaying
<1>4. /\ k \in Execution /\ k.pc = pc /\ k.own = sent + 1 /\ k.draft = draw[d].draft
      /\ k.attempts = draw[d].attempts /\ k.found = draw[d].found /\ k.source = draw[d].source
    BY <1>1, <1>3 DEF Execution
<1> HIDE DEF k
<1>5. HandOK(sent + 1, k)
    BY <1>1, <1>3, <1>4 DEF HandOK, Relaying
<1>6. ASSUME NEW t, Built(sent, t, head, "none", spends, {}, makes), ~misled
      PROVE  HandFaithful(utxo, pool \cup {t}, k)
    <2>1. \A x \in pool : x.id # k.own
        BY <1>1, <1>4 DEF IInv, Shape, LedgerInv, TxSound
    <2>2. pc = "awaitTarget" => AwaitsPrize(k, t)
        <3> SUFFICES ASSUME pc = "awaitTarget" PROVE \E m \in t.makes : Away(m) /\ m.for = draw[d].draft
            BY <1>4 DEF AwaitsPrize
        <3>1. PICK o \in makes : Away(o) /\ o.for = draw[d].draft
            OBVIOUS
        <3>2. o \in Output
            BY DEF Sounds
        <3>3. [o EXCEPT !.tx = sent + 1] \in t.makes
            BY <1>6 DEF Built, Tagged
        <3> DEFINE m == [o EXCEPT !.tx = sent + 1]
        <3>4. Away(m) /\ m.for = draw[d].draft
            BY <1>1, <3>1, <3>2, Retagged DEF Away
        <3> HIDE DEF m
        <3> QED
            BY <3>3, <3>4 DEF m
    <2> QED
        BY <1>1, <1>4, <1>6, <2>1, <2>2 DEF HandFaithful, AwaitsPrize
<1>7. {} \subseteq Output
    OBVIOUS
<1> QED
    BY <1>2, <1>4, <1>5, <1>6, <1>7, Sending

LEMMA LockTargetKeeps ==
    ASSUME IInv, NEW d \in Draws, LockTarget(d)
    PROVE  IInv'
<1> DEFINE b == draw[d].draft
<1> DEFINE o == [draw[d].source EXCEPT !.head = TargetHead(b), !.kind = "relayed"]
<1>1. draw[d].pc = "lock" /\ Stays /\ Awaits(d, "awaitLock") /\ Submit(TargetHead(b), "none", {}, {}, {o}, 0, Always)
    BY DEF LockTarget
<1>2. /\ draw[d].source \in Output /\ Sound(draw[d].source)
      /\ draw[d].source.kind \in {"payout", "lock"} /\ draw[d].source.for = b /\ b # None /\ draw[d].pc \in Relaying
    BY <1>1, HaveSource DEF Relaying
<1>3. TargetHead(b) \in Heads /\ TargetHead(b) # "headB"
    BY LotteryAssumption DEF TargetHead
<1>4. /\ o \in Output /\ o.head = TargetHead(b) /\ o.kind = "relayed"
      /\ o.for = b /\ o.lot = draw[d].source.lot
    BY <1>2, <1>3 DEF Output, Kinds
<1>5. o.nested = draw[d].source.nested
    BY <1>2, <1>3 DEF Output, Kinds
<1>6. ~misled => HasWon(utxo, b)
    BY <1>2, Here DEF HandFaithful
<1> HIDE DEF o, b
<1>7. Sound(o)
    BY <1>2, <1>3, <1>4, <1>5 DEF Sound, Away
<1>8. Sounds({}) /\ Sounds({o}) /\ Respects({}, {o}) /\ (~misled => \A x \in {o} : Fair(utxo, x))
    BY <1>4, <1>6, <1>7 DEF Sounds, Respects, Fair, Earned, Repaid
<1> QED
    BY <1>1, <1>2, <1>8, AwaitsKeeps

LEMMA ClaimTargetKeeps ==
    ASSUME IInv, NEW d \in Draws, ClaimTarget(d)
    PROVE  IInv'
<1> DEFINE o == draw[d].found
<1>1. draw[d].pc = "claimTarget" /\ Stays /\ Awaits(d, "awaitTarget") /\ Claim(o)
    BY DEF ClaimTarget
<1>2. draw[d].pc \in Relaying
    BY <1>1 DEF Relaying
<1>3. o \in Output /\ Sound(o) /\ o.kind = "relayed" /\ o.for = draw[d].draft
    BY <1>1, <1>2, Here, HaveSource DEF HandOK
<1>4. ~misled => HasWon(utxo, o.for)
    BY <1>2, <1>3, Here, HaveSource DEF HandFaithful
<1>5. Submit(o.head, "none", {o}, {}, {Made(o)}, 0, o.until - ClaimOffset)
    BY <1>1, ClaimIsSubmit
<1>6. /\ Sounds({o}) /\ Sounds({Made(o)}) /\ Respects({o}, {Made(o)})
      /\ Made(o).for = o.for /\ Away(Made(o)) /\ Made(o).kind # "repaid"
    BY <1>3, ClaimPlan
<1> HIDE DEF o
<1>7. ~misled => \A x \in {Made(o)} : Fair(utxo, x)
    BY <1>4, <1>6 DEF Fair, Earned, Repaid
<1>8. \E x \in {Made(o)} : Away(x) /\ x.for = draw[d].draft
    BY <1>3, <1>6
<1> QED
    BY <1>1, <1>2, <1>5, <1>6, <1>7, <1>8, AwaitsKeeps

LEMMA ClaimSourceKeeps ==
    ASSUME IInv, NEW d \in Draws, ClaimSource(d)
    PROVE  IInv'
<1> DEFINE o == draw[d].source
<1>1. draw[d].pc = "claimSource" /\ Stays /\ Awaits(d, "awaitSource") /\ Claim(o)
    BY DEF ClaimSource
<1>2. draw[d].pc \in Relaying
    BY <1>1 DEF Relaying
<1>3. o \in Output /\ Sound(o) /\ o.kind \in {"payout", "lock"} /\ o.for = draw[d].draft
    BY <1>2, HaveSource
<1>4. ~misled => HasPrize(utxo, o.for)
    BY <1>1, <1>3, Here DEF HandFaithful
<1>5. Submit(o.head, "none", {o}, {}, {Made(o)}, 0, o.until - ClaimOffset)
    BY <1>1, ClaimIsSubmit
<1>6. /\ Sounds({o}) /\ Sounds({Made(o)}) /\ Respects({o}, {Made(o)})
      /\ Made(o).for = o.for /\ ~Away(Made(o)) /\ Made(o).kind # "relayed"
    BY <1>3, ClaimPlan
<1> HIDE DEF o
<1>7. ~misled => \A x \in {Made(o)} : Fair(utxo, x)
    BY <1>4, <1>6 DEF Fair, Earned, Repaid
<1> QED
    BY <1>1, <1>2, <1>3, <1>4, <1>5, <1>6, <1>7, AwaitsKeeps

LEMMA FinishKeeps ==
    ASSUME IInv, NEW d \in Draws, Finish(d)
    PROVE  IInv'
<1> DEFINE k == Ended(draw[d], "succeeded")
<1>1. draw[d] \in Execution /\ HandOK(sent, draw[d]) /\ sent \in Nat /\ (~misled => HandFaithful(utxo, pool, draw[d]))
    BY Here
<1>2. Becomes(d, k) /\ Stays /\ UNCHANGED headVars
    BY DEF Finish, Becomes
<1>3. k \in Execution /\ k.pc = "idle" /\ k.own = 0 /\ k.draft = draw[d].draft /\ k.found = Coin /\ k.source = Coin
    BY <1>1, EndedFields
<1> HIDE DEF k
<1>4. HandOK(sent, k) /\ (~misled => HandFaithful(utxo, pool, k))
    BY <1>1, <1>3, EndedOK
<1> QED
    BY <1>2, <1>3, <1>4, Quiet, Staying

LEMMA BreakingOff ==
    ASSUME IInv, NEW d \in Draws, Fail(d) \/ GiveUp(d)
    PROVE  IInv'
<1>1. draw[d].pc # "idle"
    BY Pcs DEF Fail, GiveUp
<1>2. Fails(d) /\ UNCHANGED headVars /\ misled' = misled
    BY DEF Fail, GiveUp
<1>3. CountersInv'
    BY <1>2, RoundAssumption DEF Fail, GiveUp, headVars, IInv, Shape, CountersInv
<1> QED
    BY <1>1, <1>2, <1>3, FailsKeeps

-----------------------------------------------------------------------------
(* The steps of heads, buyers and scripts *)

\* An execution that hears the answer to t, and goes on.
LEMMA GoesOn ==
    ASSUME NEW k \in Execution, NEW n, HandOK(n, k), k.pc \in Awaiting, n \in Nat
    PROVE  LET e == [k EXCEPT !.pc = AfterAnswer[k.pc], !.own = 0] IN
           /\ e \in Execution /\ HandOK(n, e)
           /\ e.draft = k.draft /\ e.found = k.found /\ e.source = k.source
           /\ e.pc = AfterAnswer[k.pc]
           /\ k.pc = "awaitPay" => e.pc = "store"
           /\ k.pc = "awaitLock" => e.pc = "reread"
           /\ k.pc = "awaitTarget" => e.pc = "claimSource"
           /\ k.pc = "awaitSource" => e.pc = "finish"
<1> DEFINE e == [k EXCEPT !.pc = AfterAnswer[k.pc], !.own = 0]
<1>1. /\ k.pc \in {"awaitPay", "awaitLock", "awaitTarget", "awaitSource"}
      /\ AfterAnswer["awaitPay"] = "store" /\ AfterAnswer["awaitLock"] = "reread"
      /\ AfterAnswer["awaitTarget"] = "claimSource" /\ AfterAnswer["awaitSource"] = "finish"
    BY Pcs DEF AfterAnswer
<1>2. AfterAnswer[k.pc] \in DrawPcs
    BY <1>1, Pcs DEF Relaying
<1>3. /\ e \in Execution /\ e.pc = AfterAnswer[k.pc] /\ e.own = 0 /\ e.attempts = k.attempts
      /\ e.draft = k.draft /\ e.found = k.found /\ e.source = k.source
    BY <1>2 DEF Execution
<1> HIDE DEF e
<1>4. HandOK(n, e)
    BY <1>1, <1>3 DEF HandOK, Relaying
<1> QED
    BY <1>1, <1>3, <1>4 DEF e

LEMMA AnswerKeeps ==
    ASSUME IInv, NEW t \in pool, Answer(t)
    PROVE  IInv'
<1> DEFINE hears == {d \in Draws : draw[d].pc \in Awaiting /\ AwaitedHead(draw[d]) = t.head}
<1> DEFINE ended == IF Accepts(t) THEN {} ELSE hears
<1> DEFINE next(d) == CASE d \in ended -> Failed(draw[d])
                        [] d \in hears \ ended -> [draw[d] EXCEPT !.pc = AfterAnswer[draw[d].pc], !.own = 0]
                        [] OTHER -> draw[d]
<1>1. /\ Judge(t)
      /\ draw' = [d \in Draws |-> next(d)]
      /\ misled' = (misled \/ \E d \in hears \ ended : draw[d].own # t.id)
      /\ UNCHANGED <<sold, failures, timeouts, scripts>>
    BY DEF Answer
<1>2. /\ Lasts(utxo, utxo') /\ utxo' \subseteq utxo \cup t.makes
      /\ Accepts(t) => t.makes \subseteq utxo'
      /\ pool' = pool \ {t} /\ sent' = sent /\ snapshot' = snapshot /\ now' = now
    BY <1>1, DecideLasts DEF IInv, Shape
<1>3. TxSound(sent, t) /\ sent \in Nat
    BY DEF IInv, Shape, LedgerInv, CountersInv
<1>4. LedgerInv'
    BY <1>2, <1>3 DEF IInv, Shape, LedgerInv, TxSound, Sounds
<1>5. CountersInv'
    BY <1>1, <1>2 DEF IInv, Shape, CountersInv
<1>6. ASSUME NEW d \in Draws
      PROVE  /\ next(d) \in Execution /\ HandOK(sent, next(d))
             /\ ~misled' => HandFaithful(utxo', pool', next(d))
    <2>1. /\ draw[d] \in Execution /\ HandOK(sent, draw[d])
          /\ ~misled => HandFaithful(utxo, pool, draw[d])
        BY Here
    <2>2. ~misled => HandFaithful(utxo', pool', draw[d])
        <3>1. \A x \in pool' : x \in pool \/ x.id # draw[d].own
            BY <1>2
        <3> QED
            BY <1>2, <2>1, <3>1, HandLasts
    <2>3. CASE d \in ended
        <3> DEFINE k == Failed(draw[d])
        <3>1. next(d) = k
            BY <2>3
        <3>2. draw[d].pc # "idle"
            BY <2>3, Pcs
        <3>3. k \in Execution /\ k.pc = "idle" /\ k.own = 0 /\ k.draft = draw[d].draft /\ k.found = Coin /\ k.source = Coin
            BY <2>1, <3>2, FailedFields
        <3> HIDE DEF k, next
        <3>4. HandOK(sent, k) /\ (~misled => HandFaithful(utxo', pool', k))
            BY <1>3, <2>1, <2>2, <3>3, EndedOK
        <3> QED
            BY <1>1, <3>1, <3>3, <3>4
    <2>4. CASE d \in hears \ ended
        <3> DEFINE k == [draw[d] EXCEPT !.pc = AfterAnswer[draw[d].pc], !.own = 0]
        <3>1. next(d) = k
            BY <2>4
        <3>2. draw[d].pc \in Awaiting /\ Accepts(t)
            BY <2>4
        <3>3. /\ k \in Execution /\ HandOK(sent, k)
              /\ k.draft = draw[d].draft /\ k.found = draw[d].found /\ k.source = draw[d].source
              /\ draw[d].pc = "awaitPay" => k.pc = "store"
              /\ draw[d].pc = "awaitLock" => k.pc = "reread"
              /\ draw[d].pc = "awaitTarget" => k.pc = "claimSource"
              /\ draw[d].pc = "awaitSource" => k.pc = "finish"
            BY <1>3, <2>1, <3>2, GoesOn
        <3>4. ~misled' => ~misled /\ draw[d].own = t.id
            BY <1>1, <2>4
        <3>5. draw[d].pc \in {"awaitPay", "awaitLock", "awaitTarget", "awaitSource"}
            BY <3>2, Pcs
        <3> HIDE DEF k, next, hears, ended
        <3>6. ASSUME ~misled', draw[d].pc = "awaitPay" PROVE HasWon(utxo', draw[d].found.for)
            BY <1>2, <2>1, <3>2, <3>4, <3>6 DEF HandFaithful, AwaitsPayout, HasWon
        <3>7. ASSUME ~misled', draw[d].pc = "awaitTarget" PROVE HasPrize(utxo', draw[d].draft)
            BY <1>2, <2>1, <3>2, <3>4, <3>7 DEF HandFaithful, AwaitsPrize, HasPrize
        <3>8. ~misled' => HandFaithful(utxo', pool', k)
            BY <2>2, <3>3, <3>4, <3>5, <3>6, <3>7 DEF HandFaithful
        <3> QED
            BY <3>1, <3>3, <3>8
    <2>5. CASE d \notin hears
        <3>1. next(d) = draw[d]
            BY <2>5
        <3> HIDE DEF next, hears, ended
        <3> QED
            BY <1>1, <2>1, <2>2, <3>1
    <2> QED
        BY <2>3, <2>4, <2>5
<1> HIDE DEF next, hears, ended
<1>7. DrawsInv'
    BY <1>1, <1>2, <1>6 DEF DrawsInv
<1>8. ASSUME ~misled' PROVE Faithful'
    <2>1. ~misled
        BY <1>1, <1>8
    <2>2. LedgerFaithful
        BY <2>1 DEF IInv, Faithful
    <2>3. ASSUME NEW o, Fair(utxo, o) PROVE Fair(utxo', o)
        BY <1>2, <2>3, FairLasts
    <2>4. ASSUME NEW o, Earned(utxo, o) PROVE Earned(utxo', o)
        BY <1>2, <2>4, FairLasts
    <2>5. LedgerFaithful'
        BY <1>2, <2>2, <2>3, <2>4 DEF LedgerFaithful
    <2>6. DrawsFaithful'
        BY <1>1, <1>6, <1>8 DEF DrawsFaithful
    <2> QED
        BY <2>5, <2>6 DEF Faithful
<1> QED
    BY <1>4, <1>5, <1>7, <1>8 DEF IInv, Shape

\* A step that leaves the executions alone keeps what they have in hand.
LEMMA DrawsLast ==
    ASSUME DrawsInv, sent \in Nat, sent' \in Nat, sent <= sent', draw' = draw
    PROVE  /\ DrawsInv'
           /\ DrawsFaithful /\ Lasts(utxo, utxo') /\ (\A t \in pool' : t \in pool \/ t.id = sent + 1) => DrawsFaithful'
<1>1. ASSUME NEW d \in Draws
      PROVE  draw[d] \in Execution /\ HandOK(sent, draw[d]) /\ draw[d].own \in Nat /\ draw[d].own <= sent
    BY DEF DrawsInv, Execution, HandOK
<1>2. ASSUME NEW d \in Draws PROVE HandOK(sent', draw'[d])
    BY <1>1 DEF HandOK
<1>3. ASSUME DrawsFaithful, Lasts(utxo, utxo'), \A t \in pool' : t \in pool \/ t.id = sent + 1, NEW d \in Draws
      PROVE  HandFaithful(utxo', pool', draw'[d])
    <2>1. \A t \in pool' : t \in pool \/ t.id # draw[d].own
        BY <1>1, <1>3
    <2>2. HandFaithful(utxo, pool, draw[d])
        BY <1>3 DEF DrawsFaithful
    <2> QED
        BY <1>3, <2>1, <2>2, HandLasts
<1> QED
    BY <1>2, <1>3 DEF DrawsInv, DrawsFaithful

LEMMA SellKeeps ==
    ASSUME IInv, NEW b \in Buyers, Sell(b)
    PROVE  IInv'
<1> DEFINE ticket == Ticket(Active, b, TRUE, now + Timeout)
<1> DEFINE lock == [ticket EXCEPT !.kind = "lock", !.tx = 0]
<1>1. /\ utxo \subseteq utxo' /\ utxo' \subseteq utxo \cup {ticket, lock}
      /\ UNCHANGED <<snapshot, pool, sent, now, draw, history>> /\ sold' = sold \cup {b}
    BY DEF Sell
<1>2. now \in Nat /\ sent \in Nat /\ now + Timeout \in Int /\ Active \in Nat
    BY RoundAssumption DEF IInv, Shape, CountersInv, Active
<1>3. /\ ticket \in Output /\ Sound(ticket) /\ ticket.kind = "ticket" /\ ticket.head = "headB"
      /\ ticket.lot = Active
    BY <1>2, NestedTicket
<1>4. ticket.nested = TRUE
    BY <1>2, NestedTicket
<1> HIDE DEF ticket
<1>5. lock \in Output /\ lock.kind = "lock" /\ lock.head = "headB" /\ lock.lot = Active
    BY <1>3 DEF Output, Kinds
<1>6. lock.nested = TRUE
    BY <1>3, <1>4 DEF Output, Kinds
<1> HIDE DEF lock
<1>7. Sound(lock)
    BY <1>5, <1>6 DEF Sound, Away
<1>8. LedgerInv'
    BY <1>1, <1>3, <1>5, <1>7 DEF IInv, Shape, LedgerInv, Sounds
<1>9. Lasts(utxo, utxo')
    BY <1>1 DEF Lasts, HasWon, HasPrize
<1>10. CountersInv' /\ misled' = misled
    BY <1>1 DEF IInv, Shape, CountersInv, history
<1>11. DrawsInv' /\ (DrawsFaithful => DrawsFaithful')
    BY <1>1, <1>2, <1>9, DrawsLast DEF IInv, Shape
<1>12. ASSUME LedgerFaithful PROVE LedgerFaithful'
    <2>1. \A o : (Fair(utxo, o) => Fair(utxo', o)) /\ (Earned(utxo, o) => Earned(utxo', o))
        BY <1>9, FairLasts
    <2>2. Fair(utxo', ticket) /\ Fair(utxo', lock)
        BY <1>3, <1>5 DEF Fair, Earned, Repaid, Away
    <2> QED
        BY <1>1, <1>12, <2>1, <2>2 DEF LedgerFaithful
<1> QED
    BY <1>8, <1>10, <1>11, <1>12 DEF IInv, Shape, Faithful

\* A transaction that no execution sends.
LEMMA Scripted ==
    ASSUME IInv, CountersInv', draw' = draw, misled' = misled,
           NEW redeemer, NEW spends, NEW reads, NEW makes, NEW from, NEW upto,
           Sounds(spends), reads \subseteq Output, Sounds(makes), Respects(spends, makes),
           \A o \in makes : Fair(utxo, o),
           Submit("headB", redeemer, spends, reads, makes, from, upto)
    PROVE  IInv'
<1>1. PICK t : pool' = pool \cup {t} /\ Built(sent, t, "headB", redeemer, spends, reads, makes)
    BY Submitted
<1>2. sent \in Nat /\ sent' = sent + 1 /\ utxo' = utxo
    BY Submitted DEF IInv, Shape, CountersInv
<1>3. LedgerInv'
    BY <1>2, SubmitSound DEF IInv, Shape
<1>4. DrawsInv' /\ (DrawsFaithful => DrawsFaithful')
    BY <1>1, <1>2, DrawsLast, Unmoved DEF IInv, Shape, Built
<1>5. LedgerFaithful => LedgerFaithful'
    BY <1>2, SubmitFaithful DEF IInv, Shape
<1> QED
    BY <1>3, <1>4, <1>5 DEF IInv, Shape, Faithful

LEMMA ReadSound ==
    ASSUME IInv
    PROVE  /\ \A o \in Lotteries : o \in Output /\ Sound(o) /\ o.kind = "lottery"
           /\ \A lot : \A o \in TicketsOf(lot) : o \in Output /\ Sound(o) /\ o.kind = "ticket"
           /\ \A o \in At(snapshot, "coin") : o \in Output /\ Sound(o) /\ o.kind = "coin"
BY DEF IInv, Shape, LedgerInv, Sounds, Lotteries, TicketsOf, At

LEMMA ScriptKeeps ==
    ASSUME IInv, Script
    PROVE  IInv'
<1>1. draw' = draw /\ misled' = misled
    BY DEF Script
<1>2. ASSUME sent' = sent + 1, sent < MaxTxs, now' = now PROVE CountersInv'
    BY <1>2, RoundAssumption, HeadAssumption DEF Script, IInv, Shape, CountersInv
<1>3. ASSUME ScriptCreate PROVE IInv'
    <2>1. PICK seed \in At(snapshot, "coin"), closes \in CloseTimes : MintFrom(seed, closes)
        BY <1>3 DEF ScriptCreate
    <2> DEFINE lottery == Lottery(TokenOf(seed), closes)
    <2>2. seed \in Output /\ Sound(seed) /\ seed.kind = "coin" /\ TokenOf(seed) \in Nat /\ closes \in Nat
        BY ReadSound, LotteryAssumption DEF TokenOf, Output
    <2>3. lottery \in Output /\ Sound(lottery) /\ lottery.kind = "lottery"
        BY <2>2, LotterySound
    <2> HIDE DEF lottery
    <2>4. /\ Sounds({seed}) /\ Sounds({Coin, lottery}) /\ Respects({seed}, {Coin, lottery})
          /\ \A o \in {Coin, lottery} : Fair(utxo, o)
        BY <2>2, <2>3, CoinSound DEF Sounds, Respects, Fair, Earned, Repaid, Away
    <2>5. Submit("headB", "Mint", {seed}, {}, {Coin, lottery}, 0, now + MintWindow)
        BY <2>1 DEF MintFrom, lottery
    <2>6. CountersInv'
        BY <1>2, <2>5, Submitted
    <2> QED
        BY <1>1, <2>4, <2>5, <2>6, Scripted
<1>4. ASSUME ScriptBuy PROVE IInv'
    <2>1. PICK l \in Lotteries, b \in Buyers :
              Submit("headB", "none", {}, {}, {Ticket(l.lot, b, FALSE, 0)}, 0, Always)
        BY <1>4 DEF ScriptBuy
    <2> DEFINE ticket == Ticket(l.lot, b, FALSE, 0)
    <2>2. ticket \in Output /\ Sound(ticket) /\ ticket.kind = "ticket"
        BY ReadSound, BareTicket DEF Output
    <2> HIDE DEF ticket
    <2>3. /\ Sounds({}) /\ Sounds({ticket}) /\ Respects({}, {ticket})
          /\ \A o \in {ticket} : Fair(utxo, o)
        BY <2>2 DEF Sounds, Respects, Fair, Earned, Repaid, Away
    <2>4. Submit("headB", "none", {}, {}, {ticket}, 0, Always)
        BY <2>1 DEF ticket
    <2>5. CountersInv'
        BY <1>2, <2>4, Submitted
    <2> QED
        BY <1>1, <2>3, <2>4, <2>5, Scripted
<1>5. ASSUME ScriptPay PROVE IInv'
    <2>0. PICK l \in Lotteries : \E w \in TicketsOf(l.lot) :
              Pay(l, w, [Desired(w) EXCEPT !.kind = "prize"], ScriptPayDelay)
        BY <1>5 DEF ScriptPay
    <2>1. PICK w \in TicketsOf(l.lot) : Pay(l, w, [Desired(w) EXCEPT !.kind = "prize"], ScriptPayDelay)
        BY <2>0
    <2> DEFINE prize == [Desired(w) EXCEPT !.kind = "prize"]
    <2>2. /\ Sounds({l, w}) /\ Sounds({PaidOut(l), prize}) /\ Respects({l, w}, {PaidOut(l), prize})
          /\ \A o \in {PaidOut(l), prize} : Fair(utxo, o)
        BY PayPlan DEF IInv, Shape
    <2> HIDE DEF prize
    <2>3. Submit("headB", "PayWinner", {l, w}, {}, {PaidOut(l), prize}, l.closes + ScriptPayDelay, Always)
        BY <2>1 DEF Pay, prize
    <2>4. CountersInv'
        BY <1>2, <2>3, Submitted
    <2> QED
        BY <1>1, <2>2, <2>3, <2>4, Scripted
<1>6. ASSUME ScriptClose PROVE IInv'
    <2>1. PICK l \in Lotteries : Submit("headB", "Close", {l}, {}, {}, 0, Always)
        BY <1>6 DEF ScriptClose
    <2>2. Sounds({l}) /\ Sounds({}) /\ Respects({l}, {})
        BY ReadSound DEF Sounds, Respects
    <2>3. CountersInv'
        BY <1>2, <2>1, Submitted
    <2> QED
        BY <1>1, <2>1, <2>2, <2>3, Scripted
<1>7. ASSUME ScriptCollect PROVE IInv'
    <2>1. PICK l \in Lotteries : \E batch \in SUBSET TicketsOf(l.lot) \ {{}} :
              Submit("headB", "Lose", batch, {l}, {[Plain("headB", "reclaimed") EXCEPT !.lot = l.lot]}, 0, Always)
        BY <1>7 DEF ScriptCollect
    <2>2. PICK batch \in SUBSET TicketsOf(l.lot) :
              Submit("headB", "Lose", batch, {l}, {[Plain("headB", "reclaimed") EXCEPT !.lot = l.lot]}, 0, Always)
        BY <2>1
    <2> DEFINE o == [Plain("headB", "reclaimed") EXCEPT !.lot = l.lot]
    <2>4. l \in Output
        BY ReadSound
    <2>5. o \in Output /\ Sound(o) /\ o.kind = "reclaimed"
        BY <2>4, ReclaimedSound DEF Output
    <2>7. Submit("headB", "Lose", batch, {l}, {o}, 0, Always)
        BY <2>2
    <2> HIDE DEF o
    <2>9. /\ Sounds(batch) /\ {l} \subseteq Output /\ Sounds({o}) /\ Respects(batch, {o})
          /\ \A x \in {o} : Fair(utxo, x)
        BY <2>4, <2>5, ReadSound DEF Sounds, Respects, Fair, Earned, Repaid, Away
    <2>10. CountersInv'
        BY <1>2, <2>7, Submitted
    <2> QED
        BY <1>1, <2>7, <2>9, <2>10, Scripted
<1> QED
    BY <1>3, <1>4, <1>5, <1>6, <1>7 DEF Script, ScriptStep

LEMMA ClockKeeps ==
    ASSUME IInv, Tick \/ \E h \in Heads : Confirm(h), UNCHANGED roundVars
    PROVE  IInv'
<1>1. utxo' = utxo /\ pool' = pool /\ sent' = sent /\ snapshot' \subseteq snapshot \cup utxo
    BY DEF Tick, Confirm
<1>2. CountersInv' /\ draw' = draw /\ misled' = misled
    BY HeadAssumption DEF Tick, Confirm, roundVars, history, IInv, Shape, CountersInv
<1>3. LedgerInv'
    BY <1>1 DEF IInv, Shape, LedgerInv, Sounds
<1>4. DrawsInv' /\ (DrawsFaithful => DrawsFaithful')
    BY <1>1, <1>2 DEF DrawsFaithful, DrawsInv, IInv, Shape
<1>5. LedgerFaithful => LedgerFaithful'
    BY <1>1 DEF LedgerFaithful, Fair
<1> QED
    BY <1>2, <1>3, <1>4, <1>5 DEF IInv, Shape, Faithful

LEMMA RefusesKeeps ==
    ASSUME IInv, NEW d \in Draws, SubmitRefuses(d)
    PROVE  IInv'
<1>1. draw[d].pc # "idle" /\ Fails(d) /\ Stays /\ UNCHANGED headVars
    BY DEF SubmitRefuses
<1> QED
    BY <1>1, Staying, FailsKeeps

-----------------------------------------------------------------------------
(* The theorems *)

\* A round starts with the seed coin, the active lottery and tickets without a datum.
LEMMA InitialOutputs ==
    ASSUME Init
    PROVE  \E lottery, tickets :
              /\ utxo = {Coin, lottery} \cup tickets /\ snapshot = {Coin, lottery} \cup tickets
              /\ pool = {} /\ sent = 0 /\ now = 0
              /\ lottery \in Output /\ Sound(lottery) /\ lottery.kind = "lottery" /\ lottery.lot = 0
              /\ \A t \in tickets : t \in Output /\ Sound(t) /\ t.kind = "ticket"
<1> DEFINE tickets == {Ticket(Active, b, FALSE, 0) : b \in WalkIns}
<1>1. PICK closes \in CloseTimes : HeadInit({Coin, Lottery(Active, closes)} \cup tickets)
    BY DEF Init
<1> DEFINE lottery == Lottery(Active, closes)
<1>2. closes \in Nat /\ Active \in Nat /\ Active = 0
    BY LotteryAssumption DEF Active
<1>3. lottery \in Output /\ Sound(lottery) /\ lottery.kind = "lottery" /\ lottery.lot = 0
    BY <1>2, LotterySound
<1>4. ASSUME NEW t \in tickets PROVE t \in Output /\ Sound(t) /\ t.kind = "ticket"
    <2>1. PICK b \in Buyers : t = Ticket(Active, b, FALSE, 0)
        BY <1>4, RoundAssumption
    <2> QED
        BY <1>2, <2>1, BareTicket
<1> HIDE DEF lottery, tickets
<1>5. /\ utxo = {Coin, lottery} \cup tickets /\ snapshot = {Coin, lottery} \cup tickets
      /\ pool = {} /\ sent = 0 /\ now = 0
    BY <1>1 DEF HeadInit, lottery
<1> QED
    BY <1>3, <1>4, <1>5

LEMMA InitKeeps ==
    ASSUME Init
    PROVE  IInv
<1>1. PICK lottery, tickets :
          /\ utxo = {Coin, lottery} \cup tickets /\ snapshot = {Coin, lottery} \cup tickets
          /\ pool = {} /\ sent = 0 /\ now = 0
          /\ lottery \in Output /\ Sound(lottery) /\ lottery.kind = "lottery" /\ lottery.lot = 0
          /\ \A t \in tickets : t \in Output /\ Sound(t) /\ t.kind = "ticket"
    BY InitialOutputs
<1>4. pool = {} /\ sent = 0 /\ now = 0
    BY <1>1
<1>5. LedgerInv
    BY <1>1, CoinSound DEF LedgerInv, Sounds
<1>6. LedgerFaithful
    BY <1>1, CoinSound DEF LedgerFaithful, Fair, Earned, Repaid, Away
<1>7. CountersInv
    BY <1>4, RoundAssumption, HeadAssumption DEF Init, CountersInv
<1>8. /\ Idle \in Execution /\ Idle.pc = "idle" /\ Idle.own = 0 /\ Idle.draft = None
      /\ Idle.found = Coin /\ Idle.source = Coin
    <2>1. "idle" \in DrawPcs /\ Coin \in Output /\ 0 \in 0..MaxAttempts
        BY Pcs, CoinSound, RoundAssumption
    <2> QED
        BY <2>1 DEF Idle, Execution
<1>9. HandOK(0, Idle)
    BY <1>8, CoinSound DEF HandOK, Relaying
<1>10. HandFaithful(utxo, pool, Idle)
    BY <1>8 DEF HandFaithful
<1>11. DrawsInv /\ DrawsFaithful
    <2>1. draw = [d \in Draws |-> Idle]
        BY DEF Init
    <2> QED
        BY <1>4, <1>8, <1>9, <1>10, <2>1 DEF DrawsInv, DrawsFaithful
<1> QED
    BY <1>5, <1>6, <1>7, <1>11 DEF IInv, Shape, Faithful

LEMMA StutterKeeps ==
    ASSUME IInv, UNCHANGED vars
    PROVE  IInv'
<1>1. /\ utxo' = utxo /\ snapshot' = snapshot /\ pool' = pool /\ sent' = sent /\ now' = now
      /\ draw' = draw /\ sold' = sold /\ failures' = failures /\ timeouts' = timeouts
      /\ scripts' = scripts /\ misled' = misled
    BY DEF vars, headVars, roundVars, history
<1>2. LedgerInv' /\ DrawsInv' /\ CountersInv'
    BY <1>1 DEF IInv, Shape, LedgerInv, DrawsInv, CountersInv
<1>3. Faithful => Faithful'
    BY <1>1 DEF Faithful, LedgerFaithful, DrawsFaithful
<1> QED
    BY <1>1, <1>2, <1>3 DEF IInv, Shape

LEMMA NextKeeps ==
    ASSUME IInv, [Next]_vars
    PROVE  IInv'
<1>1. ASSUME NEW b \in Buyers, Sell(b) PROVE IInv'
    BY <1>1, SellKeeps
<1>2. ASSUME NEW d \in Draws, DrawStep(d) PROVE IInv'
    BY <1>2, StartKeeps, SubmitPayKeeps, RefusesKeeps, StoreDraftKeeps, FindPayoutKeeps, FindTargetKeeps,
       LockTargetKeeps, RereadKeeps, ClaimTargetKeeps, ClaimSourceKeeps, FinishKeeps DEF DrawStep
<1>3. ASSUME NEW d \in Draws, Fail(d) \/ GiveUp(d) PROVE IInv'
    BY <1>3, BreakingOff
<1>4. ASSUME NEW t \in pool, Answer(t) PROVE IInv'
    BY <1>4, AnswerKeeps
<1>5. ASSUME Script PROVE IInv'
    BY <1>5, ScriptKeeps
<1>6. ASSUME Tick \/ \E h \in Heads : Confirm(h), UNCHANGED roundVars PROVE IInv'
    BY <1>6, ClockKeeps
<1>7. ASSUME UNCHANGED vars PROVE IInv'
    BY <1>7, StutterKeeps
<1> QED
    BY <1>1, <1>2, <1>3, <1>4, <1>5, <1>6, <1>7 DEF Next

\* The inductive invariant of a round: the shape of outputs and transactions, which every
\* transaction of the code keeps, and what an execution knows that heard its own answers only.
THEOREM Invariant == Spec => []IInv
<1>1. Init => IInv
    BY InitKeeps
<1>2. IInv /\ [Next]_vars => IInv'
    BY NextKeeps
<1> QED
    BY <1>1, <1>2, PTL DEF Spec

\* What the heads, the snapshots, the transactions on their way and the executions hold is
\* well formed, and an execution that relays has the draft that setWorkflowDraftResultLocked
\* stored.
THEOREM TypeCorrect == Spec => []TypeOK
<1>1. IInv => TypeOK
    <2> SUFFICES ASSUME IInv PROVE TypeOK
        OBVIOUS
    <2>1. \A t \in pool : t.id \in 1..sent /\ t.spends \cup t.reads \cup t.makes \subseteq Output
        BY DEF IInv, Shape, LedgerInv, TxSound, Sounds
    <2>2. utxo \subseteq Output /\ snapshot \subseteq Output
        BY DEF IInv, Shape, LedgerInv, Sounds
    <2>3. draw \in [Draws -> Execution]
        BY DEF IInv, Shape, DrawsInv
    <2>4. ASSUME NEW d \in Draws,
                 draw[d].pc \in {"payout", "target", "lock", "awaitLock", "reread"} \/ AfterClaim(draw[d])
          PROVE  draw[d].draft # None
        <3>1. draw[d].pc \in Relaying \cup {"payout"}
            BY <2>4 DEF AfterClaim, Relaying
        <3> QED
            BY <3>1, Here DEF HandOK
    <2> QED
        BY <2>1, <2>2, <2>3, <2>4 DEF TypeOK, IInv, Shape, CountersInv, Execution
<1> QED
    BY <1>1, Invariant, PTL

\* As long as no execution takes the answer to another's transaction for its own, Ida
\* relays a prize only to a buyer whom the lottery of that prize has paid on headB.
THEOREM OnlyWinners == Spec => []OnlyWinnersArePaid
<1>1. IInv => OnlyWinnersArePaid
    <2> SUFFICES ASSUME IInv, ~misled, NEW b \in Buyers, NEW o \in Relayed(b)
                 PROVE  b \in Winners(o.lot)
        BY DEF OnlyWinnersArePaid
    <2>1. o \in utxo /\ Away(o) /\ o.for = b
        BY DEF Relayed, Away
    <2>2. o.lot = Active
        BY <2>1 DEF IInv, Shape, LedgerInv, Sounds, Sound
    <2>3. HasWon(utxo, b)
        BY <2>1 DEF IInv, Faithful, LedgerFaithful, Fair, Earned
    <2> QED
        BY <2>2, <2>3 DEF HasWon, Winning, Winners
<1> QED
    BY <1>1, Invariant, PTL

\* As long as no execution takes the answer to another's transaction for its own, Ida has
\* the payout of headB only after the winner has the prize on a head of the winner's.
THEOREM WinnerFirst == Spec => []WinnerBeforeIda
<1>1. IInv => WinnerBeforeIda
    <2> SUFFICES ASSUME IInv, ~misled, NEW o \in utxo, o.kind = "repaid"
                 PROVE  Relayed(o.for) # {}
        BY DEF WinnerBeforeIda
    <2>1. HasPrize(utxo, o.for)
        BY DEF IInv, Faithful, LedgerFaithful, Fair, Repaid
    <2> QED
        BY <2>1 DEF HasPrize, Away, Relayed
<1> QED
    BY <1>1, Invariant, PTL
=============================================================================
