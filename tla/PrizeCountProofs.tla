-------------------------- MODULE PrizeCountProofs --------------------------
(***************************************************************************)
(* How often a prize is paid: on headB by the lottery, and on the winner's *)
(* head by the draws, however many draws, retries and scripts compete with *)
(* snapshots that lag behind.                                              *)
(*                                                                         *)
(* On headB, a lottery that is not paid and what a paid one has paid carry *)
(* the same token, so the two are counted together (Prized).  A            *)
(* transaction passes the token on or mints it from the wallet's coin,     *)
(* which it spends; and as a token is numbered after its seed, no later    *)
(* coin can mint it again.                                                 *)
(*                                                                         *)
(* On the winner's head, each prize has a transaction to itself, and       *)
(* transactions that make one are counted while they are on their way      *)
(* (Claimed).  A draw sends one of them and is past its claim then         *)
(* (Spent), until it succeeds or is counted as broken.                     *)
(***************************************************************************)
EXTENDS LotteryRoundProofs, FiniteSetTheorems

IsCoin(o) == o.kind = "coin"
Prized(o) == (o.kind = "lottery" /\ ~o.paid) \/ Winning(o)

AtMostOneCoin(outputs) == \A o, p \in outputs : IsCoin(o) /\ IsCoin(p) => o = p
PrizedOnce(outputs) == \A o, p \in outputs : Prized(o) /\ Prized(p) /\ o.lot = p.lot => o = p

CoinsUpTo(outputs, last) == \A o \in outputs : IsCoin(o) => o.tx <= last

\* Where the token of m comes from: an output that had it, or a lottery that lottery.ak does
\* not let be paid twice, or the seed that it is minted from.
Passes(redeemer, spends, m) ==
    \E s \in spends : s.lot = m.lot /\ (Prized(s) \/ (redeemer = "PayWinner" /\ s.kind = "lottery"))
Mints(spends, m) == \E seed \in spends : IsCoin(seed) /\ m.lot = TokenOf(seed)

Conserves(redeemer, spends, makes) ==
    /\ AtMostOneCoin(makes) /\ PrizedOnce(makes)
    /\ \A m \in makes : IsCoin(m) => \E seed \in spends : IsCoin(seed)
    /\ \A m \in makes : Prized(m) => Passes(redeemer, spends, m) \/ Mints(spends, m)

TxOnce(t) ==
    /\ CoinsUpTo(t.spends, t.id - 1)
    /\ \A m \in t.makes : IsCoin(m) => m.tx = t.id
    /\ Conserves(t.redeemer, t.spends, t.makes)

\* The tokens that are about were minted from coins before the one that is there now.
TokensBelowCoin == \A o, c \in utxo : Prized(o) /\ IsCoin(c) => o.lot <= c.tx

OnceInv ==
    /\ AtMostOneCoin(utxo) /\ PrizedOnce(utxo) /\ TokensBelowCoin
    /\ CoinsUpTo(utxo, sent) /\ CoinsUpTo(snapshot, sent)
    /\ \A t \in pool : TxOnce(t)

-----------------------------------------------------------------------------
(* Transactions on their way *)

LEMMA TaggedKinds ==
    ASSUME NEW o \in Output, NEW n \in Nat
    PROVE  LET p == [o EXCEPT !.tx = n] IN
           /\ p.lot = o.lot /\ p.tx = n
           /\ IsCoin(p) <=> IsCoin(o)
           /\ Prized(p) <=> Prized(o)
BY Retagged DEF IsCoin, Prized, Winning

LEMMA TaggedConserves ==
    ASSUME NEW redeemer, NEW spends, NEW makes, Sounds(makes), NEW n \in Nat,
           Conserves(redeemer, spends, makes)
    PROVE  /\ Conserves(redeemer, spends, Tagged(makes, n))
           /\ \A m \in Tagged(makes, n) : m.tx = n
<1> DEFINE Mark(o) == [o EXCEPT !.tx = n]
<1>1. \A m \in Tagged(makes, n) : \E o \in makes : m = Mark(o)
    BY DEF Tagged
<1>2. ASSUME NEW o \in makes
      PROVE  /\ Mark(o).lot = o.lot /\ Mark(o).tx = n
             /\ IsCoin(Mark(o)) <=> IsCoin(o)
             /\ Prized(Mark(o)) <=> Prized(o)
    BY TaggedKinds DEF Sounds
<1> HIDE DEF Mark
<1>3. AtMostOneCoin(Tagged(makes, n)) /\ PrizedOnce(Tagged(makes, n))
    BY <1>1, <1>2 DEF Conserves, AtMostOneCoin, PrizedOnce
<1>4. ASSUME NEW m \in Tagged(makes, n), IsCoin(m) PROVE \E seed \in spends : IsCoin(seed)
    BY <1>1, <1>2, <1>4 DEF Conserves
<1>5. ASSUME NEW m \in Tagged(makes, n), Prized(m) PROVE Passes(redeemer, spends, m) \/ Mints(spends, m)
    BY <1>1, <1>2, <1>5 DEF Conserves, Passes, Mints
<1>6. \A m \in Tagged(makes, n) : m.tx = n
    BY <1>1, <1>2
<1> QED
    BY <1>3, <1>4, <1>5, <1>6 DEF Conserves

\* A script or a draw sends a transaction that conserves the tokens.
LEMMA SubmitOnce ==
    ASSUME OnceInv, sent \in Nat,
           NEW head, NEW redeemer, NEW spends, NEW reads, NEW makes, NEW from, NEW upto,
           Sounds(makes), Conserves(redeemer, spends, makes), CoinsUpTo(spends, sent), Sounds(spends),
           LedgerInv,
           Submit(head, redeemer, spends, reads, makes, from, upto)
    PROVE  OnceInv'
<1>1. PICK t : pool' = pool \cup {t} /\ Built(sent, t, head, redeemer, spends, reads, makes)
    BY Submitted
<1>2. sent' = sent + 1 /\ utxo' = utxo /\ snapshot' = snapshot
    BY Submitted
<1>3. TxOnce(t)
    <2>1. Conserves(redeemer, spends, Tagged(makes, sent + 1)) /\ \A m \in Tagged(makes, sent + 1) : m.tx = sent + 1
        BY TaggedConserves
    <2> QED
        BY <1>1, <2>1 DEF TxOnce, Built
<1>4. CoinsUpTo(utxo, sent + 1) /\ CoinsUpTo(snapshot, sent + 1)
    BY DEF OnceInv, CoinsUpTo, LedgerInv, Sounds, Output
<1> QED
    BY <1>1, <1>2, <1>3, <1>4 DEF OnceInv, TokensBelowCoin

\* A transaction of one output, which is no coin.
LEMMA MakesOne ==
    ASSUME NEW redeemer, NEW spends, NEW o, ~IsCoin(o), Prized(o) => Passes(redeemer, spends, o)
    PROVE  Conserves(redeemer, spends, {o})
BY DEF Conserves, AtMostOneCoin, PrizedOnce

LEMMA NoCoins ==
    ASSUME NEW outputs, NEW last, \A o \in outputs : o.kind # "coin"
    PROVE  CoinsUpTo(outputs, last)
BY DEF CoinsUpTo, IsCoin

-----------------------------------------------------------------------------
(* The decision of a head *)

LEMMA DecideOnce ==
    ASSUME IInv, OnceInv, NEW t \in pool, Judge(t)
    PROVE  OnceInv'
<1>1. pool' = pool \ {t} /\ sent' = sent /\ snapshot' = snapshot
    BY DEF Judge, Decide
<1>2. CASE ~Accepts(t)
    BY <1>1, <1>2 DEF Judge, OnceInv, TokensBelowCoin
<1>3. CASE Accepts(t)
    <2>1. utxo' = (utxo \ t.spends) \cup t.makes /\ t.spends \subseteq utxo
        BY <1>3 DEF Judge, Decide, Accepts, Valid
    <2>2. TxOnce(t) /\ TxSound(sent, t)
        BY DEF OnceInv, IInv, Shape, LedgerInv
    <2>3. t.id \in Nat /\ t.id <= sent /\ sent \in Nat
        BY <2>2 DEF TxSound, IInv, Shape, CountersInv
    <2>4. \A o \in utxo \cup t.makes : o.lot \in Nat /\ o.tx \in Nat
        BY <2>2 DEF TxSound, IInv, Shape, LedgerInv, Sounds, Output
    <2>5. /\ AtMostOneCoin(utxo) /\ PrizedOnce(utxo) /\ TokensBelowCoin /\ CoinsUpTo(utxo, sent)
          /\ AtMostOneCoin(t.makes) /\ PrizedOnce(t.makes)
        BY <2>2 DEF OnceInv, TxOnce, Conserves
    <2>6. ASSUME NEW c \in t.makes, IsCoin(c)
          PROVE  c.tx = t.id /\ \E seed \in t.spends : IsCoin(seed) /\ seed.tx <= t.id - 1
        BY <2>2, <2>6 DEF TxOnce, Conserves, CoinsUpTo
    \* A token is had from an output that is spent, or minted from the coin.
    <2>7. ASSUME NEW m \in t.makes, Prized(m)
          PROVE  \/ \E s \in t.spends : Prized(s) /\ s.lot = m.lot
                 \/ \E seed \in t.spends : IsCoin(seed) /\ m.lot = seed.tx + 1
        <3>1. Passes(t.redeemer, t.spends, m) \/ Mints(t.spends, m)
            BY <2>2, <2>7 DEF TxOnce, Conserves
        <3>2. ASSUME NEW s \in t.spends, s.kind = "lottery", t.redeemer = "PayWinner" PROVE Prized(s)
            BY <1>3, <3>2 DEF Accepts, Scripts, At, PayWinner, Prized
        <3> QED
            BY <3>1, <3>2 DEF Passes, Mints, TokenOf
    <2>8. AtMostOneCoin(utxo')
        BY <2>1, <2>5, <2>6 DEF AtMostOneCoin
    <2>9. ASSUME NEW o \in utxo \ t.spends, NEW m \in t.makes, Prized(o), Prized(m) PROVE o.lot # m.lot
        <3>1. CASE \E s \in t.spends : Prized(s) /\ s.lot = m.lot
            BY <2>1, <2>5, <2>9, <3>1 DEF PrizedOnce
        <3>2. CASE \E seed \in t.spends : IsCoin(seed) /\ m.lot = seed.tx + 1
            BY <2>1, <2>4, <2>5, <2>9, <3>2 DEF TokensBelowCoin
        <3> QED
            BY <2>7, <2>9, <3>1, <3>2
    <2>10. PrizedOnce(utxo')
        BY <2>1, <2>5, <2>9 DEF PrizedOnce
    <2>11. ASSUME NEW o \in utxo', NEW c \in utxo', Prized(o), IsCoin(c) PROVE o.lot <= c.tx
        \* The coin that is there before, if t makes another or mints.
        <3>1. CASE o \in utxo /\ c \in utxo
            BY <2>5, <2>11, <3>1 DEF TokensBelowCoin
        <3>2. CASE o \in utxo /\ c \in t.makes
            <4>1. PICK seed \in t.spends : IsCoin(seed) /\ seed.tx <= t.id - 1 /\ c.tx = t.id
                BY <2>6, <2>11, <3>2
            <4>2. o.lot <= seed.tx
                BY <2>1, <2>5, <2>11, <3>2, <4>1 DEF TokensBelowCoin
            <4> QED
                BY <2>1, <2>3, <2>4, <3>2, <4>1, <4>2
        <3>3. CASE o \in t.makes /\ c \in utxo \ t.spends
            <4>1. ASSUME NEW s \in t.spends, Prized(s), s.lot = o.lot PROVE o.lot <= c.tx
                BY <2>1, <2>5, <2>11, <3>3, <4>1 DEF TokensBelowCoin
            <4>2. ~\E seed \in t.spends : IsCoin(seed)
                BY <2>1, <2>5, <2>11, <3>3 DEF AtMostOneCoin
            <4> QED
                BY <2>7, <2>11, <3>3, <4>1, <4>2
        <3>4. CASE o \in t.makes /\ c \in t.makes
            <4>1. PICK coin \in t.spends : IsCoin(coin) /\ coin.tx <= t.id - 1 /\ c.tx = t.id
                BY <2>6, <2>11, <3>4
            <4>2. ASSUME NEW s \in t.spends, Prized(s), s.lot = o.lot PROVE o.lot <= coin.tx
                BY <2>1, <2>5, <4>1, <4>2 DEF TokensBelowCoin
            <4>3. ASSUME NEW seed \in t.spends, IsCoin(seed), o.lot = seed.tx + 1 PROVE o.lot = coin.tx + 1
                BY <2>1, <2>5, <4>1, <4>3 DEF AtMostOneCoin
            <4>4. o.lot <= coin.tx + 1
                BY <2>1, <2>4, <2>7, <2>11, <3>4, <4>2, <4>3
            <4> QED
                BY <2>1, <2>3, <2>4, <3>4, <4>1, <4>4
        <3> QED
            BY <2>1, <2>11, <3>1, <3>2, <3>3, <3>4
    <2>12. CoinsUpTo(utxo', sent)
        BY <2>1, <2>3, <2>5, <2>6 DEF CoinsUpTo
    <2> QED
        BY <1>1, <2>8, <2>10, <2>11, <2>12 DEF OnceInv, TokensBelowCoin
<1> QED
    BY <1>2, <1>3

-----------------------------------------------------------------------------
(* The transactions of the code *)

LEMMA PayConserves ==
    ASSUME IInv, OnceInv, NEW l \in Lotteries, NEW w \in TicketsOf(l.lot), NEW delay,
           NEW prize \in {Desired(w), [Desired(w) EXCEPT !.kind = "prize"]},
           Pay(l, w, prize, delay)
    PROVE  OnceInv'
<1> DEFINE makes == {PaidOut(l), prize}
<1>1. /\ Sounds({l, w}) /\ Sounds(makes)
      /\ l \in Output /\ Sound(l) /\ l.kind = "lottery"
      /\ w \in Output /\ Sound(w) /\ w.kind = "ticket" /\ w.lot = l.lot
    BY PayPlan, ReadSound DEF IInv, Shape, TicketsOf, At
<1>2. PaidOut(l).kind = "lottery" /\ PaidOut(l).paid = TRUE
    BY <1>1, PaidOutSound
<1>3. prize.kind \in {"payout", "prize"} /\ prize.lot = l.lot
    BY <1>1, DesiredSound
<1>4. Conserves("PayWinner", {l, w}, makes)
    <2>1. \A m \in makes : ~IsCoin(m)
        BY <1>2, <1>3 DEF IsCoin
    <2>2. \A m \in makes : Prized(m) => m = prize
        BY <1>2 DEF Prized, Winning
    <2>3. Passes("PayWinner", {l, w}, prize)
        BY <1>1, <1>3 DEF Passes
    <2> HIDE DEF makes
    <2> QED
        BY <2>1, <2>2, <2>3 DEF Conserves, AtMostOneCoin, PrizedOnce
<1>5. CoinsUpTo({l, w}, sent)
    BY <1>1, NoCoins
<1>6. Submit("headB", "PayWinner", {l, w}, {}, makes, l.closes + delay, Always)
    BY DEF Pay
<1>7. LedgerInv /\ sent \in Nat
    BY DEF IInv, Shape, CountersInv
<1> HIDE DEF makes
<1> QED
    BY <1>1, <1>4, <1>5, <1>6, <1>7, SubmitOnce

LEMMA ClaimOnce ==
    ASSUME IInv, OnceInv, NEW o \in Output, Sound(o), o.kind \in {"relayed", "payout", "lock"}, Claim(o)
    PROVE  OnceInv'
<1>1. Submit(o.head, "none", {o}, {}, {Made(o)}, 0, o.until - ClaimOffset)
    BY ClaimIsSubmit
<1>2. /\ Sounds({o}) /\ Sounds({Made(o)})
      /\ Made(o).lot = o.lot /\ Made(o).head = o.head
    BY ClaimPlan
<1>3. \/ Made(o).kind = "prize" /\ o.kind = "relayed"
      \/ Made(o).kind = "repaid" /\ o.kind = "payout"
      \/ Made(o).kind = "ticket" /\ o.kind = "lock"
    BY DEF Made, Output
<1>4. ~IsCoin(Made(o)) /\ (Prized(Made(o)) => Prized(o))
    BY <1>2, <1>3 DEF IsCoin, Prized, Winning, Sound
<1>5. Conserves("none", {o}, {Made(o)})
    BY <1>2, <1>4, MakesOne DEF Passes
<1>6. CoinsUpTo({o}, sent)
    BY NoCoins
<1>7. LedgerInv /\ sent \in Nat
    BY DEF IInv, Shape, CountersInv
<1> QED
    BY <1>1, <1>2, <1>5, <1>6, <1>7, SubmitOnce

LEMMA LockTargetOnce ==
    ASSUME IInv, OnceInv, NEW d \in Draws, LockTarget(d)
    PROVE  OnceInv'
<1> DEFINE b == draw[d].draft
<1> DEFINE source == draw[d].source
<1> DEFINE o == [source EXCEPT !.head = TargetHead(b), !.kind = "relayed"]
<1>1. draw[d].pc \in Relaying /\ Submit(TargetHead(b), "none", {}, {}, {o}, 0, Always)
    BY DEF LockTarget, Relaying
<1>2. source \in Output /\ Sound(source) /\ source.kind \in {"payout", "lock"}
    BY <1>1, HaveSource
<1>3. TargetHead(b) \in Heads /\ TargetHead(b) # "headB"
    BY LotteryAssumption DEF TargetHead
<1> HIDE DEF b, source
<1>4. o \in Output /\ o.head = TargetHead(b) /\ o.kind = "relayed"
    BY <1>2, <1>3 DEF Output, Kinds
<1>5. o.nested = source.nested /\ o.lot = source.lot
    BY <1>2, <1>3 DEF Output, Kinds
<1> HIDE DEF o
<1>6. Sounds({o}) /\ Sounds({})
    BY <1>2, <1>3, <1>4, <1>5 DEF Sounds, Sound, Away
<1>7. Conserves("none", {}, {o})
    BY <1>4, MakesOne DEF IsCoin, Prized, Winning
<1>8. CoinsUpTo({}, sent)
    BY DEF CoinsUpTo
<1>9. LedgerInv /\ sent \in Nat
    BY DEF IInv, Shape, CountersInv
<1> QED
    BY <1>1, <1>6, <1>7, <1>8, <1>9, SubmitOnce

-----------------------------------------------------------------------------
(* The steps *)

LEMMA QuietOnce ==
    ASSUME OnceInv, UNCHANGED headVars
    PROVE  OnceInv'
BY DEF OnceInv, headVars, TokensBelowCoin

LEMMA DrawOnce ==
    ASSUME IInv, OnceInv, NEW d \in Draws, DrawStep(d)
    PROVE  OnceInv'
<1>1. CASE Start(d) \/ SubmitRefuses(d) \/ StoreDraft(d) \/ FindPayout(d) \/ FindTarget(d) \/ Reread(d) \/ Finish(d)
    BY <1>1, QuietOnce DEF Start, SubmitRefuses, StoreDraft, FindPayout, FindTarget, Reread, Finish
<1>2. CASE SubmitPay(d)
    <2>1. PICK l \in Lotteries : \E w \in TicketsOf(l.lot) : Pay(l, w, Desired(w), PayDelay)
        BY <1>2 DEF SubmitPay
    <2>2. PICK w \in TicketsOf(l.lot) : Pay(l, w, Desired(w), PayDelay)
        BY <2>1
    <2> QED
        BY <2>2, PayConserves
<1>3. CASE LockTarget(d)
    BY <1>3, LockTargetOnce
<1>4. CASE ClaimTarget(d)
    <2>1. draw[d].found \in Output /\ Sound(draw[d].found) /\ draw[d].found.kind = "relayed" /\ Claim(draw[d].found)
        BY <1>4, Here DEF ClaimTarget, HandOK, Execution
    <2> QED
        BY <2>1, ClaimOnce
<1>5. CASE ClaimSource(d)
    <2>1. draw[d].pc \in Relaying
        BY <1>5 DEF ClaimSource, Relaying
    <2>2. draw[d].source \in Output /\ Sound(draw[d].source) /\ draw[d].source.kind \in {"payout", "lock"}
        BY <2>1, HaveSource
    <2>3. Claim(draw[d].source)
        BY <1>5 DEF ClaimSource
    <2> QED
        BY <2>2, <2>3, ClaimOnce
<1> QED
    BY <1>1, <1>2, <1>3, <1>4, <1>5 DEF DrawStep

LEMMA SellOnce ==
    ASSUME IInv, OnceInv, NEW b \in Buyers, Sell(b)
    PROVE  OnceInv'
<1> DEFINE ticket == Ticket(Active, b, TRUE, now + Timeout)
<1> DEFINE lock == [ticket EXCEPT !.kind = "lock", !.tx = 0]
<1>1. /\ utxo \subseteq utxo' /\ utxo' \subseteq utxo \cup {ticket, lock}
      /\ UNCHANGED <<snapshot, pool, sent>>
    BY DEF Sell
<1>2. now + Timeout \in Int
    BY RoundAssumption DEF IInv, Shape, CountersInv
<1>3. ticket \in Output /\ ticket.kind = "ticket"
    BY <1>2, NestedTicket
<1> HIDE DEF ticket
<1>4. lock.kind = "lock"
    BY <1>3 DEF Output
<1> HIDE DEF lock
<1>5. \A o \in utxo' : IsCoin(o) \/ Prized(o) => o \in utxo
    BY <1>1, <1>3, <1>4 DEF IsCoin, Prized, Winning
<1> QED
    BY <1>1, <1>5 DEF OnceInv, AtMostOneCoin, PrizedOnce, TokensBelowCoin, CoinsUpTo

LEMMA ScriptOnce ==
    ASSUME IInv, OnceInv, Script
    PROVE  OnceInv'
<1>0. LedgerInv /\ sent \in Nat
    BY DEF IInv, Shape, CountersInv
<1>1. ASSUME ScriptCreate PROVE OnceInv'
    <2>1. PICK seed \in At(snapshot, "coin"), closes \in CloseTimes : MintFrom(seed, closes)
        BY <1>1 DEF ScriptCreate
    <2> DEFINE lottery == Lottery(TokenOf(seed), closes)
    <2>2. seed \in Output /\ Sound(seed) /\ IsCoin(seed) /\ TokenOf(seed) \in Nat /\ closes \in Nat /\ seed \in snapshot
        BY ReadSound, LotteryAssumption DEF TokenOf, Output, IsCoin, At
    <2>3. lottery \in Output /\ Sound(lottery) /\ lottery.kind = "lottery" /\ lottery.lot = TokenOf(seed)
        BY <2>2, LotterySound
    <2> HIDE DEF lottery
    <2>4. Sounds({seed}) /\ Sounds({Coin, lottery})
        BY <2>2, <2>3, CoinSound DEF Sounds
    <2>5. IsCoin(Coin) /\ ~Prized(Coin) /\ ~IsCoin(lottery)
        BY <2>3, CoinSound DEF IsCoin, Prized, Winning
    <2>6. Conserves("Mint", {seed}, {Coin, lottery})
        BY <2>2, <2>3, <2>5 DEF Conserves, AtMostOneCoin, PrizedOnce, Mints
    <2>7. CoinsUpTo({seed}, sent)
        BY <2>2 DEF OnceInv, CoinsUpTo
    <2>8. Submit("headB", "Mint", {seed}, {}, {Coin, lottery}, 0, now + MintWindow)
        BY <2>1 DEF MintFrom, lottery
    <2> QED
        BY <1>0, <2>4, <2>6, <2>7, <2>8, SubmitOnce
<1>2. ASSUME ScriptBuy PROVE OnceInv'
    <2>1. PICK l \in Lotteries, b \in Buyers :
              Submit("headB", "none", {}, {}, {Ticket(l.lot, b, FALSE, 0)}, 0, Always)
        BY <1>2 DEF ScriptBuy
    <2> DEFINE ticket == Ticket(l.lot, b, FALSE, 0)
    <2>2. ticket \in Output /\ Sound(ticket) /\ ticket.kind = "ticket"
        BY ReadSound, BareTicket DEF Output
    <2> HIDE DEF ticket
    <2>3. Sounds({}) /\ Sounds({ticket}) /\ CoinsUpTo({}, sent)
        BY <2>2 DEF Sounds, CoinsUpTo
    <2>4. Conserves("none", {}, {ticket})
        BY <2>2, MakesOne DEF IsCoin, Prized, Winning
    <2>5. Submit("headB", "none", {}, {}, {ticket}, 0, Always)
        BY <2>1 DEF ticket
    <2> QED
        BY <1>0, <2>3, <2>4, <2>5, SubmitOnce
<1>3. ASSUME ScriptPay PROVE OnceInv'
    <2>1. PICK l \in Lotteries : \E w \in TicketsOf(l.lot) :
              Pay(l, w, [Desired(w) EXCEPT !.kind = "prize"], ScriptPayDelay)
        BY <1>3 DEF ScriptPay
    <2>2. PICK w \in TicketsOf(l.lot) : Pay(l, w, [Desired(w) EXCEPT !.kind = "prize"], ScriptPayDelay)
        BY <2>1
    <2> QED
        BY <2>2, PayConserves
<1>4. ASSUME ScriptClose PROVE OnceInv'
    <2>1. PICK l \in Lotteries : Submit("headB", "Close", {l}, {}, {}, 0, Always)
        BY <1>4 DEF ScriptClose
    <2>2. Sounds({l}) /\ Sounds({}) /\ CoinsUpTo({l}, sent)
        BY ReadSound, NoCoins DEF Sounds
    <2>3. Conserves("Close", {l}, {})
        BY DEF Conserves, AtMostOneCoin, PrizedOnce
    <2> QED
        BY <1>0, <2>1, <2>2, <2>3, SubmitOnce
<1>5. ASSUME ScriptCollect PROVE OnceInv'
    <2>1. PICK l \in Lotteries : \E batch \in SUBSET TicketsOf(l.lot) \ {{}} :
              Submit("headB", "Lose", batch, {l}, {[Plain("headB", "reclaimed") EXCEPT !.lot = l.lot]}, 0, Always)
        BY <1>5 DEF ScriptCollect
    <2>2. PICK batch \in SUBSET TicketsOf(l.lot) :
              Submit("headB", "Lose", batch, {l}, {[Plain("headB", "reclaimed") EXCEPT !.lot = l.lot]}, 0, Always)
        BY <2>1
    <2> DEFINE o == [Plain("headB", "reclaimed") EXCEPT !.lot = l.lot]
    <2>3. o \in Output /\ Sound(o) /\ o.kind = "reclaimed"
        BY ReadSound, ReclaimedSound DEF Output
    <2>4. Submit("headB", "Lose", batch, {l}, {o}, 0, Always)
        BY <2>2
    <2> HIDE DEF o
    <2>5. Sounds(batch) /\ Sounds({o}) /\ CoinsUpTo(batch, sent)
        BY <2>3, ReadSound, NoCoins DEF Sounds
    <2>6. Conserves("Lose", batch, {o})
        BY <2>3, MakesOne DEF IsCoin, Prized, Winning
    <2> QED
        BY <1>0, <2>4, <2>5, <2>6, SubmitOnce
<1> QED
    BY <1>1, <1>2, <1>3, <1>4, <1>5 DEF Script, ScriptStep

LEMMA NextOnce ==
    ASSUME IInv, OnceInv, [Next]_vars
    PROVE  OnceInv'
<1>1. ASSUME NEW b \in Buyers, Sell(b) PROVE OnceInv'
    BY <1>1, SellOnce
<1>2. ASSUME NEW d \in Draws, DrawStep(d) PROVE OnceInv'
    BY <1>2, DrawOnce
<1>3. ASSUME NEW d \in Draws, Fail(d) \/ GiveUp(d) PROVE OnceInv'
    BY <1>3, QuietOnce DEF Fail, GiveUp
<1>4. ASSUME NEW t \in pool, Answer(t) PROVE OnceInv'
    BY <1>4, DecideOnce DEF Answer
<1>5. ASSUME Script PROVE OnceInv'
    BY <1>5, ScriptOnce
<1>6. ASSUME Tick \/ \E h \in Heads : Confirm(h) PROVE OnceInv'
    <2>1. utxo' = utxo /\ pool' = pool /\ sent' = sent /\ snapshot' \subseteq snapshot \cup utxo
        BY <1>6 DEF Tick, Confirm
    <2> QED
        BY <2>1 DEF OnceInv, TokensBelowCoin, CoinsUpTo
<1>7. ASSUME UNCHANGED vars PROVE OnceInv'
    BY <1>7, QuietOnce DEF vars
<1> QED
    BY <1>1, <1>2, <1>3, <1>4, <1>5, <1>6, <1>7 DEF Next

LEMMA InitOnce ==
    ASSUME Init
    PROVE  OnceInv
<1>1. PICK lottery, tickets :
          /\ utxo = {Coin, lottery} \cup tickets /\ snapshot = {Coin, lottery} \cup tickets
          /\ pool = {} /\ sent = 0
          /\ lottery.kind = "lottery" /\ lottery.lot = 0 /\ \A t \in tickets : t.kind = "ticket"
    BY InitialOutputs
<1>2. IsCoin(Coin) /\ ~Prized(Coin) /\ Coin.tx = 0
    BY DEF IsCoin, Prized, Winning, Coin, Plain
<1>3. ~IsCoin(lottery) /\ \A t \in tickets : ~IsCoin(t) /\ ~Prized(t)
    BY <1>1 DEF IsCoin, Prized, Winning
<1> QED
    BY <1>1, <1>2, <1>3 DEF OnceInv, AtMostOneCoin, PrizedOnce, TokensBelowCoin, CoinsUpTo

-----------------------------------------------------------------------------
(* The theorem *)

LEMMA AtMostOne ==
    ASSUME NEW S, \A x, y \in S : x = y
    PROVE  Cardinality(S) <= 1
<1>1. CASE S = {}
    BY <1>1, FS_EmptySet
<1>2. CASE S # {}
    <2>1. PICK x : x \in S
        BY <1>2
    <2>2. S = {x}
        BY <2>1
    <2> QED
        BY <2>2, FS_Singleton
<1> QED
    BY <1>1, <1>2

\* A lottery pays one winner, once: of the outputs that a lottery has paid on headB, as a
\* payout, a repayment or a prize, there is at most one, for whatever number of workflows
\* of type pay_random_winner, of their executions and of scripts that compete for it.
THEOREM PaidOnce == Spec => []OneWinner
<1>1. Init => IInv /\ OnceInv
    BY InitKeeps, InitOnce
<1>2. IInv /\ OnceInv /\ [Next]_vars => (IInv /\ OnceInv)'
    BY NextKeeps, NextOnce
<1>3. OnceInv => OneWinner
    <2> SUFFICES ASSUME OnceInv, NEW lot
                 PROVE  Cardinality({o \in utxo : o.lot = lot /\ o.head = "headB" /\ o.kind \in {"payout", "repaid", "prize"}}) <= 1
        BY DEF OneWinner
    <2> DEFINE S == {o \in utxo : o.lot = lot /\ o.head = "headB" /\ o.kind \in {"payout", "repaid", "prize"}}
    <2>1. \A x, y \in S : x = y
        BY DEF OnceInv, PrizedOnce, Prized, Winning
    <2> HIDE DEF S
    <2>2. Cardinality(S) <= 1
        BY <2>1, AtMostOne
    <2> QED
        BY <2>2 DEF S
<1> QED
    BY <1>1, <1>2, <1>3, PTL DEF Spec

-----------------------------------------------------------------------------
(* Prizes beyond one for each draw *)

\* Each prize on a winner's head has a transaction to itself, made or on its way.
TxPrize(last, t) ==
    /\ t.id \in 1..last
    /\ \A m \in t.makes : Away(m) => m.tx = t.id
    /\ \A m, n \in t.makes : Away(m) /\ Away(n) => m = n

PrizesInv ==
    /\ \A t \in pool : TxPrize(sent, t)
    /\ \A t, u \in pool : t.id = u.id => t = u
    /\ \A o \in utxo : Away(o) => o.tx \in 1..sent /\ \A t \in pool : t.id # o.tx
    /\ \A o, q \in utxo : Away(o) /\ Away(q) /\ o.tx = q.tx => o = q

\* The transactions that make, or made, a prize for b on b's own head.
Claimed(outputs, txs, last, b) ==
    {k \in 1..last : \/ \E t \in txs : t.id = k /\ \E m \in t.makes : Away(m) /\ m.for = b
                     \/ \E o \in outputs : Away(o) /\ o.for = b /\ o.tx = k}

\* The draws whose one claim for b is sent, and those that end after theirs.
Spent(draws, b) == {d \in Draws : draws[d].draft = b /\ (AfterClaim(draws[d]) \/ draws[d].row = "succeeded")}
Lost(ended, b) == {d \in ended : draw[d].draft = b /\ AfterClaim(draw[d])}

RowsInv == \A d \in Draws : draw[d].pc # "idle" => draw[d].row = "running"

Covered ==
    \A b \in Buyers : Cardinality(Claimed(utxo, pool, sent, b)) <= Cardinality(Spent(draw, b)) + broken[b]

SurplusInv == PrizesInv /\ RowsInv /\ broken \in [Buyers -> Nat] /\ Covered

-----------------------------------------------------------------------------
(* Counting *)

LEMMA CountsUp ==
    ASSUME NEW S, NEW T, NEW N, IsFiniteSet(S), IsFiniteSet(N), T \subseteq S \cup N
    PROVE  /\ IsFiniteSet(T) /\ Cardinality(T) <= Cardinality(S) + Cardinality(N)
           /\ Cardinality(T) \in Nat /\ Cardinality(S) \in Nat /\ Cardinality(N) \in Nat
<1>1. /\ IsFiniteSet(S \cup N)
      /\ Cardinality(S \cup N) = Cardinality(S) + Cardinality(N) - Cardinality(S \cap N)
    BY FS_Union
<1>2. IsFiniteSet(S \cap N)
    BY FS_Intersection
<1>3. Cardinality(S) \in Nat /\ Cardinality(N) \in Nat /\ Cardinality(S \cap N) \in Nat
    BY <1>2, FS_CardinalityType
<1>4. T \in SUBSET (S \cup N)
    OBVIOUS
<1>5. IsFiniteSet(T) /\ Cardinality(T) <= Cardinality(S \cup N)
    BY <1>1, <1>4, FS_Subset
<1>6. Cardinality(T) \in Nat
    BY <1>5, FS_CardinalityType
<1> QED
    BY <1>1, <1>3, <1>5, <1>6

LEMMA FiniteParts ==
    /\ \A outputs, txs, b : \A last \in Nat : IsFiniteSet(Claimed(outputs, txs, last, b))
    /\ \A draws, b : IsFiniteSet(Spent(draws, b))
    /\ \A ended, b : ended \subseteq Draws => IsFiniteSet(Lost(ended, b))
<1>1. ASSUME NEW outputs, NEW txs, NEW b, NEW last \in Nat PROVE IsFiniteSet(Claimed(outputs, txs, last, b))
    <2>1. IsFiniteSet(1..last)
        BY FS_Interval
    <2>2. Claimed(outputs, txs, last, b) \subseteq 1..last
        BY DEF Claimed
    <2> QED
        BY <2>1, <2>2, FS_Subset
<1>2. ASSUME NEW S, S \subseteq Draws PROVE IsFiniteSet(S)
    BY <1>2, FS_Subset, RoundAssumption
<1>3. ASSUME NEW draws, NEW b PROVE IsFiniteSet(Spent(draws, b))
    <2>1. Spent(draws, b) \subseteq Draws
        BY DEF Spent
    <2> QED
        BY <1>2, <2>1
<1>4. ASSUME NEW ended, NEW b, ended \subseteq Draws PROVE IsFiniteSet(Lost(ended, b))
    <2>1. Lost(ended, b) \subseteq Draws
        BY <1>4 DEF Lost
    <2> QED
        BY <1>2, <2>1
<1> QED
    BY <1>1, <1>3, <1>4

\* No claim is sent, and a draw that is not past its claim any more is counted in broken.
NoNewClaims == \A b \in Buyers : Claimed(utxo', pool', sent', b) \subseteq Claimed(utxo, pool, sent, b)

LEMMA CoverStays ==
    ASSUME Covered, broken \in [Buyers -> Nat], sent \in Nat, sent' \in Nat, NoNewClaims,
           NEW ended, ended \subseteq Draws,
           broken' = [b \in Buyers |-> broken[b] + Cardinality(Lost(ended, b))],
           \A b \in Buyers : Spent(draw, b) \subseteq Spent(draw', b) \cup Lost(ended, b)
    PROVE  Covered' /\ broken' \in [Buyers -> Nat]
<1>1. ASSUME NEW b \in Buyers
      PROVE  /\ Cardinality(Claimed(utxo', pool', sent', b)) <= Cardinality(Spent(draw', b)) + broken'[b]
             /\ broken'[b] \in Nat
    <2>0. PICK C, D, S, T, L : /\ C = Claimed(utxo, pool, sent, b) /\ D = Claimed(utxo', pool', sent', b)
                               /\ S = Spent(draw, b) /\ T = Spent(draw', b) /\ L = Lost(ended, b)
        OBVIOUS
    <2>1. IsFiniteSet(C) /\ IsFiniteSet(D) /\ IsFiniteSet(S) /\ IsFiniteSet(T) /\ IsFiniteSet(L)
        BY <2>0, FiniteParts
    <2>2. D \subseteq C /\ S \subseteq T \cup L
        BY <2>0 DEF NoNewClaims
    <2>3. Cardinality(D) <= Cardinality(C) /\ Cardinality(C) \in Nat /\ Cardinality(D) \in Nat
        BY <2>1, <2>2, FS_Subset, FS_CardinalityType
    <2>4. /\ Cardinality(S) <= Cardinality(T) + Cardinality(L)
          /\ Cardinality(S) \in Nat /\ Cardinality(T) \in Nat /\ Cardinality(L) \in Nat
        BY <2>1, <2>2, CountsUp
    <2>5. Cardinality(C) <= Cardinality(S) + broken[b] /\ broken[b] \in Nat
        BY <2>0 DEF Covered
    <2>6. broken'[b] = broken[b] + Cardinality(L)
        BY <2>0
    <2>7. PICK c, d, s, t, l, n, n1 : /\ c = Cardinality(C) /\ d = Cardinality(D) /\ s = Cardinality(S)
                                      /\ t = Cardinality(T) /\ l = Cardinality(L) /\ n = broken[b] /\ n1 = broken'[b]
        OBVIOUS
    <2>8. d <= t + n1 /\ n1 \in Nat
        <3>1. /\ d <= c /\ c \in Nat /\ d \in Nat /\ s <= t + l /\ s \in Nat /\ t \in Nat /\ l \in Nat
              /\ c <= s + n /\ n \in Nat /\ n1 = n + l
            BY <2>3, <2>4, <2>5, <2>6, <2>7
        <3> QED
            BY ONLY <3>1
    <2> QED
        BY <2>0, <2>7, <2>8
<1>2. Covered'
    BY <1>1 DEF Covered
<1>3. broken' \in [Buyers -> Nat]
    BY <1>1
<1> QED
    BY <1>2, <1>3

-----------------------------------------------------------------------------
(* Prizes on their way *)

LEMMA TaggedPrizes ==
    ASSUME NEW makes, Sounds(makes), NEW n \in Nat
    PROVE  /\ \A m \in Tagged(makes, n) : \E o \in makes : m.tx = n /\ m.for = o.for /\ (Away(m) <=> Away(o))
           /\ (\A o, p \in makes : Away(o) /\ Away(p) => o = p)
                 => \A m, q \in Tagged(makes, n) : Away(m) /\ Away(q) => m = q
<1> DEFINE Mark(o) == [o EXCEPT !.tx = n]
<1>1. \A m \in Tagged(makes, n) : \E o \in makes : m = Mark(o)
    BY DEF Tagged
<1>2. ASSUME NEW o \in makes
      PROVE  Mark(o).tx = n /\ Mark(o).for = o.for /\ (Away(Mark(o)) <=> Away(o))
    BY Retagged DEF Sounds, Away
<1> HIDE DEF Mark
<1> QED
    BY <1>1, <1>2

LEMMA SubmitPrizes ==
    ASSUME PrizesInv, sent \in Nat,
           NEW head, NEW redeemer, NEW spends, NEW reads, NEW makes, NEW from, NEW upto,
           Sounds(makes), \A o, p \in makes : Away(o) /\ Away(p) => o = p,
           Submit(head, redeemer, spends, reads, makes, from, upto)
    PROVE  /\ PrizesInv' /\ sent' = sent + 1
           /\ \A b : /\ Claimed(utxo', pool', sent', b) \subseteq Claimed(utxo, pool, sent, b) \cup {sent + 1}
                     /\ (\A o \in makes : ~(Away(o) /\ o.for = b))
                           => Claimed(utxo', pool', sent', b) \subseteq Claimed(utxo, pool, sent, b)
<1>1. PICK t : pool' = pool \cup {t} /\ Built(sent, t, head, redeemer, spends, reads, makes)
    BY Submitted
<1>2. sent' = sent + 1 /\ utxo' = utxo
    BY Submitted
<1>3. t.id = sent + 1 /\ t.makes = Tagged(makes, sent + 1)
    BY <1>1 DEF Built
<1>4. /\ \A m \in t.makes : \E o \in makes : m.tx = sent + 1 /\ m.for = o.for /\ (Away(m) <=> Away(o))
      /\ \A m, q \in t.makes : Away(m) /\ Away(q) => m = q
    BY <1>3, TaggedPrizes
<1>5. TxPrize(sent', t)
    BY <1>2, <1>3, <1>4 DEF TxPrize
<1>6. ASSUME NEW x \in pool PROVE TxPrize(sent', x) /\ x.id # t.id
    BY <1>2, <1>3 DEF PrizesInv, TxPrize
<1>7. ASSUME NEW o \in utxo, Away(o) PROVE o.tx \in 1..sent' /\ \A x \in pool' : x.id # o.tx
    BY <1>1, <1>2, <1>3, <1>7 DEF PrizesInv
<1>8. PrizesInv'
    <2>1. \A x \in pool' : TxPrize(sent', x)
        BY <1>1, <1>5, <1>6
    <2>2. \A x, y \in pool' : x.id = y.id => x = y
        BY <1>1, <1>6 DEF PrizesInv
    <2>3. \A o \in utxo' : Away(o) => o.tx \in 1..sent' /\ \A x \in pool' : x.id # o.tx
        BY <1>2, <1>7
    <2>4. \A o, q \in utxo' : Away(o) /\ Away(q) /\ o.tx = q.tx => o = q
        BY <1>2 DEF PrizesInv
    <2> QED
        BY <2>1, <2>2, <2>3, <2>4 DEF PrizesInv
<1>9. ASSUME NEW b, NEW k \in Claimed(utxo', pool', sent', b)
      PROVE  k \in Claimed(utxo, pool, sent, b) \/ (k = sent + 1 /\ \E o \in makes : Away(o) /\ o.for = b)
    <2>1. CASE \E x \in pool' : x.id = k /\ \E m \in x.makes : Away(m) /\ m.for = b
        <3>1. PICK x \in pool' : x.id = k /\ \E m \in x.makes : Away(m) /\ m.for = b
            BY <2>1
        <3>2. CASE x \in pool
            BY <3>1, <3>2 DEF Claimed, PrizesInv, TxPrize
        <3>3. CASE x = t
            BY <1>3, <1>4, <3>1, <3>3
        <3> QED
            BY <1>1, <3>2, <3>3
    <2>2. CASE \E o \in utxo' : Away(o) /\ o.for = b /\ o.tx = k
        BY <1>2, <2>2 DEF Claimed, PrizesInv
    <2> QED
        BY <1>9, <2>1, <2>2 DEF Claimed
<1> QED
    BY <1>2, <1>8, <1>9

\* A transaction that makes no prize on a winner's head.
LEMMA SubmitNoPrize ==
    ASSUME PrizesInv, sent \in Nat,
           NEW head, NEW redeemer, NEW spends, NEW reads, NEW makes, NEW from, NEW upto,
           Sounds(makes), \A o \in makes : ~Away(o),
           Submit(head, redeemer, spends, reads, makes, from, upto)
    PROVE  PrizesInv' /\ NoNewClaims
BY SubmitPrizes DEF NoNewClaims

LEMMA JudgePrizes ==
    ASSUME IInv, PrizesInv, NEW t \in pool, Judge(t)
    PROVE  PrizesInv' /\ NoNewClaims
<1>1. utxo' \subseteq utxo \cup t.makes /\ pool' = pool \ {t} /\ sent' = sent
    BY DecideLasts DEF IInv, Shape
<1>2. /\ TxPrize(sent, t)
      /\ \A x, y \in pool : x.id = y.id => x = y
      /\ \A o \in utxo : Away(o) => o.tx \in 1..sent /\ \A x \in pool : x.id # o.tx
      /\ \A o, q \in utxo : Away(o) /\ Away(q) /\ o.tx = q.tx => o = q
    BY DEF PrizesInv
<1>3. \A x \in pool' : TxPrize(sent', x)
    BY <1>1 DEF PrizesInv
<1>4. \A o \in utxo' : Away(o) => o.tx \in 1..sent' /\ \A x \in pool' : x.id # o.tx
    BY <1>1, <1>2 DEF TxPrize
<1>5. \A o, q \in utxo' : Away(o) /\ Away(q) /\ o.tx = q.tx => o = q
    BY <1>1, <1>2 DEF TxPrize
<1>6. PrizesInv'
    BY <1>1, <1>2, <1>3, <1>4, <1>5 DEF PrizesInv
<1>7. ASSUME NEW b, NEW k \in Claimed(utxo', pool', sent', b) PROVE k \in Claimed(utxo, pool, sent, b)
    BY <1>1, <1>2, <1>7 DEF Claimed, TxPrize
<1> QED
    BY <1>6, <1>7 DEF NoNewClaims

LEMMA QuietPrizes ==
    ASSUME PrizesInv, UNCHANGED <<utxo, pool, sent>>
    PROVE  PrizesInv' /\ NoNewClaims
BY DEF PrizesInv, NoNewClaims

-----------------------------------------------------------------------------
(* Draws past their claims *)

Counted(k) == AfterClaim(k) \/ k.row = "succeeded"

\* The draw d goes on as k, and the others stay where they are.
LEMMA OneDraw ==
    ASSUME DrawsInv, RowsInv, NEW d \in Draws, NEW k, Becomes(d, k), k.draft = draw[d].draft \/ ~Counted(draw[d]),
           k.pc # "idle" => k.row = "running"
    PROVE  /\ RowsInv'
           /\ draw[d].pc # "idle" => \A b : Spent(draw, b) \subseteq Spent(draw', b) \cup Lost({d}, b)
           /\ (Counted(draw[d]) => Counted(k)) => \A b : Spent(draw, b) \subseteq Spent(draw', b) \cup Lost({}, b)
<1>1. draw'[d] = k /\ \A e \in Draws : e # d => draw'[e] = draw[e]
    BY DEF DrawsInv, Becomes
<1>2. RowsInv'
    BY <1>1 DEF RowsInv
<1>3. ASSUME NEW b, NEW e \in Spent(draw, b), e # d PROVE e \in Spent(draw', b)
    BY <1>1, <1>3 DEF Spent
<1>4. ASSUME NEW b, d \in Spent(draw, b) PROVE draw[d].draft = b /\ Counted(draw[d]) /\ k.draft = b
    BY <1>4 DEF Spent, Counted
<1>5. ASSUME NEW b, d \in Spent(draw, b), draw[d].pc # "idle" PROVE d \in Lost({d}, b)
    BY <1>4, <1>5 DEF Lost, Counted, RowsInv
<1>6. ASSUME NEW b, d \in Spent(draw, b), Counted(k) PROVE d \in Spent(draw', b)
    BY <1>1, <1>4, <1>6 DEF Spent, Counted
<1> QED
    BY <1>2, <1>3, <1>4, <1>5, <1>6

LEMMA NoneLost ==
    ASSUME broken \in [Buyers -> Nat], UNCHANGED broken
    PROVE  broken' = [b \in Buyers |-> broken[b] + Cardinality(Lost({}, b))]
<1>1. \A b : Cardinality(Lost({}, b)) = 0
    <2>1. \A b : Lost({}, b) = {}
        BY DEF Lost
    <2> QED
        BY <2>1, FS_EmptySet
<1> QED
    BY <1>1

\* A step of a draw that sends no claim on a winner's head.
LEMMA Unclaiming ==
    ASSUME IInv, SurplusInv, PrizesInv', NoNewClaims, sent' \in Nat, UNCHANGED broken,
           NEW d \in Draws, NEW k, Becomes(d, k), k.draft = draw[d].draft \/ ~Counted(draw[d]),
           k.pc # "idle" => k.row = "running", Counted(draw[d]) => Counted(k)
    PROVE  SurplusInv'
<1>1. RowsInv' /\ \A b \in Buyers : Spent(draw, b) \subseteq Spent(draw', b) \cup Lost({}, b)
    BY OneDraw DEF SurplusInv, IInv, Shape
<1>2. sent \in Nat
    BY DEF IInv, Shape, CountersInv
<1>3. broken' = [b \in Buyers |-> broken[b] + Cardinality(Lost({}, b))]
    BY NoneLost DEF SurplusInv
<1>4. {} \subseteq Draws
    OBVIOUS
<1>5. Covered' /\ broken' \in [Buyers -> Nat]
    BY <1>1, <1>2, <1>3, <1>4, CoverStays DEF SurplusInv
<1> QED
    BY <1>1, <1>5 DEF SurplusInv

-----------------------------------------------------------------------------
(* The steps, once more *)

LEMMA PayNoPrize ==
    ASSUME IInv, PrizesInv, NEW l \in Lotteries, NEW w \in TicketsOf(l.lot), NEW delay,
           NEW prize \in {Desired(w), [Desired(w) EXCEPT !.kind = "prize"]},
           Pay(l, w, prize, delay)
    PROVE  PrizesInv' /\ NoNewClaims
<1> DEFINE makes == {PaidOut(l), prize}
<1>1. /\ Sounds(makes)
      /\ l \in Output /\ Sound(l) /\ l.kind = "lottery"
      /\ w \in Output /\ Sound(w) /\ w.kind = "ticket"
    BY PayPlan, ReadSound DEF IInv, Shape
<1>2. PaidOut(l).kind = "lottery"
    BY <1>1, PaidOutSound
<1>3. prize.head = "headB"
    BY <1>1, DesiredSound DEF Winning
<1>4. \A o \in makes : ~Away(o)
    BY <1>2, <1>3 DEF Away
<1>5. Submit("headB", "PayWinner", {l, w}, {}, makes, l.closes + delay, Always)
    BY DEF Pay
<1>6. sent \in Nat
    BY DEF IInv, Shape, CountersInv
<1> HIDE DEF makes
<1> QED
    BY <1>1, <1>4, <1>5, <1>6, SubmitNoPrize

LEMMA ScriptNoPrize ==
    ASSUME IInv, PrizesInv, Script
    PROVE  PrizesInv' /\ NoNewClaims
<1>0. sent \in Nat
    BY DEF IInv, Shape, CountersInv
<1>1. ASSUME ScriptCreate PROVE PrizesInv' /\ NoNewClaims
    <2>1. PICK seed \in At(snapshot, "coin"), closes \in CloseTimes : MintFrom(seed, closes)
        BY <1>1 DEF ScriptCreate
    <2> DEFINE lottery == Lottery(TokenOf(seed), closes)
    <2>2. TokenOf(seed) \in Nat /\ closes \in Nat
        BY ReadSound, LotteryAssumption DEF TokenOf, Output
    <2>3. lottery \in Output /\ Sound(lottery) /\ lottery.kind = "lottery"
        BY <2>2, LotterySound
    <2> HIDE DEF lottery
    <2>4. Sounds({Coin, lottery}) /\ \A o \in {Coin, lottery} : ~Away(o)
        BY <2>3, CoinSound DEF Sounds, Away
    <2>5. Submit("headB", "Mint", {seed}, {}, {Coin, lottery}, 0, now + MintWindow)
        BY <2>1 DEF MintFrom, lottery
    <2> QED
        BY <1>0, <2>4, <2>5, SubmitNoPrize
<1>2. ASSUME ScriptBuy PROVE PrizesInv' /\ NoNewClaims
    <2>1. PICK l \in Lotteries, b \in Buyers :
              Submit("headB", "none", {}, {}, {Ticket(l.lot, b, FALSE, 0)}, 0, Always)
        BY <1>2 DEF ScriptBuy
    <2> DEFINE ticket == Ticket(l.lot, b, FALSE, 0)
    <2>2. ticket \in Output /\ Sound(ticket) /\ ticket.kind = "ticket"
        BY ReadSound, BareTicket DEF Output
    <2> HIDE DEF ticket
    <2>3. Sounds({ticket}) /\ \A o \in {ticket} : ~Away(o)
        BY <2>2 DEF Sounds, Away
    <2>4. Submit("headB", "none", {}, {}, {ticket}, 0, Always)
        BY <2>1 DEF ticket
    <2> QED
        BY <1>0, <2>3, <2>4, SubmitNoPrize
<1>3. ASSUME ScriptPay PROVE PrizesInv' /\ NoNewClaims
    <2>1. PICK l \in Lotteries : \E w \in TicketsOf(l.lot) :
              Pay(l, w, [Desired(w) EXCEPT !.kind = "prize"], ScriptPayDelay)
        BY <1>3 DEF ScriptPay
    <2>2. PICK w \in TicketsOf(l.lot) : Pay(l, w, [Desired(w) EXCEPT !.kind = "prize"], ScriptPayDelay)
        BY <2>1
    <2> QED
        BY <2>2, PayNoPrize
<1>4. ASSUME ScriptClose PROVE PrizesInv' /\ NoNewClaims
    <2>1. PICK l \in Lotteries : Submit("headB", "Close", {l}, {}, {}, 0, Always)
        BY <1>4 DEF ScriptClose
    <2>2. Sounds({})
        BY DEF Sounds
    <2> QED
        BY <1>0, <2>1, <2>2, SubmitNoPrize
<1>5. ASSUME ScriptCollect PROVE PrizesInv' /\ NoNewClaims
    <2>1. PICK l \in Lotteries : \E batch \in SUBSET TicketsOf(l.lot) \ {{}} :
              Submit("headB", "Lose", batch, {l}, {[Plain("headB", "reclaimed") EXCEPT !.lot = l.lot]}, 0, Always)
        BY <1>5 DEF ScriptCollect
    <2>2. PICK batch \in SUBSET TicketsOf(l.lot) :
              Submit("headB", "Lose", batch, {l}, {[Plain("headB", "reclaimed") EXCEPT !.lot = l.lot]}, 0, Always)
        BY <2>1
    <2> DEFINE o == [Plain("headB", "reclaimed") EXCEPT !.lot = l.lot]
    <2>3. o \in Output /\ Sound(o) /\ o.kind = "reclaimed"
        BY ReadSound, ReclaimedSound DEF Output
    <2>4. Submit("headB", "Lose", batch, {l}, {o}, 0, Always)
        BY <2>2
    <2> HIDE DEF o
    <2>5. Sounds({o}) /\ \A x \in {o} : ~Away(x)
        BY <2>3 DEF Sounds, Away
    <2> QED
        BY <1>0, <2>4, <2>5, SubmitNoPrize
<1> QED
    BY <1>1, <1>2, <1>3, <1>4, <1>5 DEF Script, ScriptStep

LEMMA Underway ==
    ASSUME SurplusInv, NEW d \in Draws, draw[d].pc # "idle"
    PROVE  draw[d].row = "running" /\ (Counted(draw[d]) => AfterClaim(draw[d]))
BY DEF SurplusInv, RowsInv, Counted

\* A step that sends nothing.
LEMMA SilentSurplus ==
    ASSUME IInv, IInv', SurplusInv, NEW d \in Draws,
           \/ Start(d) \/ SubmitRefuses(d) \/ StoreDraft(d) \/ FindPayout(d) \/ FindTarget(d) \/ Reread(d) \/ Finish(d)
    PROVE  SurplusInv'
<1>1. UNCHANGED headVars /\ Stays
    BY DEF Start, SubmitRefuses, StoreDraft, FindPayout, FindTarget, Reread, Finish
<1>2. PrizesInv' /\ NoNewClaims /\ sent' \in Nat /\ UNCHANGED broken
    BY <1>1, QuietPrizes DEF SurplusInv, headVars, IInv, Shape, CountersInv, Stays, history
<1>3. draw[d] \in Execution /\ HandOK(sent, draw[d]) /\ draw \in [Draws -> Execution]
    BY Here
<1>4. ASSUME NEW k, Becomes(d, k), k.draft = draw[d].draft \/ ~Counted(draw[d]),
             k.pc # "idle" => k.row = "running", Counted(draw[d]) => Counted(k)
      PROVE  SurplusInv'
    BY <1>2, <1>4, Unclaiming
<1>5. CASE Start(d)
    <2> DEFINE k == [draw[d] EXCEPT !.row = "running", !.pc = IF draw[d].draft = None THEN "submit" ELSE "payout"]
    <2>1. Becomes(d, k)
        BY <1>3, <1>5 DEF Start, Becomes, Execution
    <2>2. k.row = "running" /\ k.draft = draw[d].draft
        BY <1>3 DEF Execution
    <2> HIDE DEF k
    <2>3. ~Counted(draw[d])
        BY <1>5 DEF Start, Counted, AfterClaim
    <2> QED
        BY <1>4, <2>1, <2>2, <2>3
<1>6. ASSUME draw[d].pc \in {"submit", "payout", "reread"}, Fails(d) PROVE SurplusInv'
    <2>1. Becomes(d, Failed(draw[d]))
        BY <1>6 DEF Fails, Becomes
    <2>2. Failed(draw[d]).pc = "idle"
        BY <1>3, <1>6, FailedFields
    <2>3. ~Counted(draw[d])
        BY <1>6, Underway DEF AfterClaim
    <2> QED
        BY <1>4, <2>1, <2>2, <2>3
<1>7. CASE SubmitRefuses(d)
    BY <1>6, <1>7 DEF SubmitRefuses
<1>8. CASE StoreDraft(d)
    <2> DEFINE e == Failed(draw[d])
    <2> DEFINE k == [e EXCEPT !.draft = draw[d].found.for]
    <2>1. Becomes(d, k) /\ draw[d].pc = "store"
        BY <1>8 DEF StoreDraft, Becomes
    <2>2. e \in Execution /\ e.pc = "idle"
        BY <1>3, <2>1, FailedFields
    <2> HIDE DEF e
    <2>3. k.pc = "idle"
        BY <2>2 DEF Execution
    <2> HIDE DEF k
    <2>4. ~Counted(draw[d])
        BY <2>1, Underway DEF AfterClaim
    <2> QED
        BY <1>4, <2>1, <2>3, <2>4
<1>9. ASSUME draw[d].pc \in {"payout", "target", "reread"},
             NEW pc, NEW found, NEW source, Turns(d, pc, found, source)
      PROVE  SurplusInv'
    <2> DEFINE k == [draw[d] EXCEPT !.pc = pc, !.found = found, !.source = source]
    <2>1. Becomes(d, k)
        BY <1>9 DEF Turns, Becomes
    <2>2. k.row = draw[d].row /\ k.draft = draw[d].draft
        BY <1>3 DEF Execution
    <2> HIDE DEF k
    <2>3. ~Counted(draw[d]) /\ draw[d].row = "running"
        BY <1>9, Underway DEF AfterClaim
    <2> QED
        BY <1>4, <2>1, <2>2, <2>3
<1>10. CASE FindPayout(d)
    <2>1. ASSUME NEW o, draw' = [draw EXCEPT ![d].pc = "target", ![d].source = o] PROVE Turns(d, "target", draw[d].found, o)
        BY <1>3, <2>1 DEF Turns, Execution
    <2> QED
        BY <1>6, <1>9, <1>10, <2>1 DEF FindPayout
<1>11. ASSUME NEW o, draw' = [draw EXCEPT ![d].pc = "claimTarget", ![d].found = o]
       PROVE  Turns(d, "claimTarget", o, draw[d].source)
    BY <1>3, <1>11 DEF Turns, Execution
<1>12. CASE FindTarget(d)
    <2>1. ASSUME Goes(d, "lock") PROVE Turns(d, "lock", draw[d].found, draw[d].source)
        BY <1>3, <2>1 DEF Goes, Turns, Execution
    <2> QED
        BY <1>9, <1>11, <1>12, <2>1 DEF FindTarget
<1>13. CASE Reread(d)
    BY <1>6, <1>9, <1>11, <1>13 DEF Reread
<1>14. CASE Finish(d)
    <2> DEFINE k == Ended(draw[d], "succeeded")
    <2>1. Becomes(d, k)
        BY <1>14 DEF Finish, Becomes
    <2>2. k.pc = "idle" /\ k.draft = draw[d].draft /\ k.row = "succeeded"
        BY <1>3 DEF Ended, Execution
    <2> HIDE DEF k
    <2> QED
        BY <1>4, <2>1, <2>2 DEF Counted
<1> QED
    BY <1>5, <1>7, <1>8, <1>10, <1>12, <1>13, <1>14

\* Awaits, as a step of one draw.
LEMMA AwaitsFields ==
    ASSUME IInv, NEW d \in Draws, NEW pc \in {"awaitLock", "awaitTarget", "awaitSource"}, Awaits(d, pc)
    PROVE  LET k == [draw[d] EXCEPT !.pc = pc, !.own = sent + 1] IN
           Becomes(d, k) /\ k.pc = pc /\ k.row = draw[d].row /\ k.draft = draw[d].draft
<1>1. draw[d] \in Execution /\ draw \in [Draws -> Execution]
    BY Here
<1>2. draw' = [draw EXCEPT ![d] = [draw[d] EXCEPT !.pc = pc, !.own = sent + 1]]
    BY <1>1 DEF Awaits, Execution
<1> QED
    BY <1>1, <1>2 DEF Becomes, Execution

\* A step that sends something else than a claim on a winner's head.
LEMMA SendingSurplus ==
    ASSUME IInv, IInv', SurplusInv, NEW d \in Draws, SubmitPay(d) \/ LockTarget(d) \/ ClaimSource(d)
    PROVE  SurplusInv'
<1>1. UNCHANGED broken /\ sent' \in Nat /\ sent \in Nat /\ PrizesInv
    BY DEF SubmitPay, LockTarget, ClaimSource, Stays, history, IInv, Shape, CountersInv, SurplusInv
<1>2. draw[d] \in Execution /\ draw \in [Draws -> Execution]
    BY Here
<1>3. CASE SubmitPay(d)
    <2>1. PICK l \in Lotteries : \E w \in TicketsOf(l.lot) :
              /\ Pay(l, w, Desired(w), PayDelay)
              /\ draw' = [draw EXCEPT ![d].pc = "awaitPay", ![d].own = sent + 1, ![d].found = w]
        BY <1>3 DEF SubmitPay
    <2>2. PICK w \in TicketsOf(l.lot) :
              /\ Pay(l, w, Desired(w), PayDelay)
              /\ draw' = [draw EXCEPT ![d].pc = "awaitPay", ![d].own = sent + 1, ![d].found = w]
        BY <2>1
    <2>3. PrizesInv' /\ NoNewClaims
        BY <1>1, <2>2, PayNoPrize
    <2> DEFINE k == [draw[d] EXCEPT !.pc = "awaitPay", !.own = sent + 1, !.found = w]
    <2>4. Becomes(d, k)
        BY <1>2, <2>2 DEF Becomes, Execution
    <2>5. k.row = draw[d].row /\ k.draft = draw[d].draft
        BY <1>2 DEF Execution
    <2> HIDE DEF k
    <2>6. draw[d].pc = "submit"
        BY <1>3 DEF SubmitPay
    <2>7. draw[d].row = "running" /\ ~Counted(draw[d])
        BY <2>6, Underway DEF AfterClaim
    <2> QED
        BY <1>1, <2>3, <2>4, <2>5, <2>7, Unclaiming
<1>4. CASE LockTarget(d)
    <2> DEFINE b == draw[d].draft
    <2> DEFINE source == draw[d].source
    <2> DEFINE o == [source EXCEPT !.head = TargetHead(b), !.kind = "relayed"]
    <2> DEFINE k == [draw[d] EXCEPT !.pc = "awaitLock", !.own = sent + 1]
    <2>1. draw[d].pc = "lock" /\ Submit(TargetHead(b), "none", {}, {}, {o}, 0, Always) /\ Awaits(d, "awaitLock")
        BY <1>4 DEF LockTarget
    <2>2. Becomes(d, k) /\ k.row = draw[d].row /\ k.draft = draw[d].draft
        BY <2>1, AwaitsFields
    <2>3. draw[d].pc \in Relaying
        BY <2>1 DEF Relaying
    <2>4. source \in Output /\ Sound(source) /\ source.kind \in {"payout", "lock"}
        BY <2>3, HaveSource
    <2>5. TargetHead(b) \in Heads /\ TargetHead(b) # "headB"
        BY LotteryAssumption DEF TargetHead
    <2> HIDE DEF b, source, k
    <2>6. o \in Output /\ o.head = TargetHead(b) /\ o.kind = "relayed"
        BY <2>4, <2>5 DEF Output, Kinds
    <2>7. o.nested = source.nested /\ o.lot = source.lot
        BY <2>4, <2>5 DEF Output, Kinds
    <2> HIDE DEF o
    <2>8. Sounds({o}) /\ \A x \in {o} : ~Away(x)
        BY <2>4, <2>5, <2>6, <2>7 DEF Sounds, Sound, Away
    <2>9. PrizesInv' /\ NoNewClaims
        BY <1>1, <2>1, <2>8, SubmitNoPrize
    <2>10. draw[d].row = "running" /\ ~Counted(draw[d])
        BY <2>1, Underway DEF AfterClaim
    <2> QED
        BY <1>1, <2>2, <2>9, <2>10, Unclaiming
<1>5. CASE ClaimSource(d)
    <2> DEFINE o == draw[d].source
    <2> DEFINE k == [draw[d] EXCEPT !.pc = "awaitSource", !.own = sent + 1]
    <2>1. draw[d].pc = "claimSource" /\ Claim(o) /\ Awaits(d, "awaitSource")
        BY <1>5 DEF ClaimSource
    <2>2. Becomes(d, k) /\ k.pc = "awaitSource" /\ k.row = draw[d].row /\ k.draft = draw[d].draft
        BY <2>1, AwaitsFields
    <2>3. draw[d].pc \in Relaying
        BY <2>1 DEF Relaying
    <2>4. o \in Output /\ Sound(o) /\ o.kind \in {"payout", "lock"}
        BY <2>3, HaveSource
    <2> HIDE DEF k
    <2>5. Submit(o.head, "none", {o}, {}, {Made(o)}, 0, o.until - ClaimOffset)
        BY <2>1, ClaimIsSubmit
    <2>6. Sounds({Made(o)}) /\ ~Away(Made(o))
        BY <2>4, ClaimPlan
    <2>7. PrizesInv' /\ NoNewClaims
        BY <1>1, <2>5, <2>6, SubmitNoPrize
    <2>8. Counted(k) /\ draw[d].row = "running"
        BY <2>1, <2>2, Underway DEF Counted, AfterClaim
    <2> QED
        BY <1>1, <2>2, <2>7, <2>8, Unclaiming
<1> QED
    BY <1>3, <1>4, <1>5

\* The claim on the winner's head: one more prize may come of it, and one more draw is past it.
LEMMA ClaimSurplus ==
    ASSUME IInv, IInv', SurplusInv, NEW d \in Draws, ClaimTarget(d)
    PROVE  SurplusInv'
<1> DEFINE o == draw[d].found
<1> DEFINE k == [draw[d] EXCEPT !.pc = "awaitTarget", !.own = sent + 1]
<1>1. draw[d].pc = "claimTarget" /\ Claim(o) /\ Awaits(d, "awaitTarget") /\ broken' = broken
    BY DEF ClaimTarget, Stays, history
<1>2. sent \in Nat /\ sent' \in Nat /\ PrizesInv /\ broken \in [Buyers -> Nat] /\ DrawsInv /\ RowsInv
    BY DEF IInv, Shape, CountersInv, SurplusInv
<1>3. Becomes(d, k) /\ k.pc = "awaitTarget" /\ k.row = draw[d].row /\ k.draft = draw[d].draft
    BY <1>1, AwaitsFields
<1>4. draw[d].pc \in Relaying
    BY <1>1 DEF Relaying
<1>5. o \in Output /\ Sound(o) /\ o.kind = "relayed" /\ o.for = draw[d].draft
    BY <1>1, <1>4, Here, HaveSource DEF HandOK
<1> HIDE DEF k
<1>6. Submit(o.head, "none", {o}, {}, {Made(o)}, 0, o.until - ClaimOffset)
    BY <1>1, ClaimIsSubmit
<1>7. Sounds({Made(o)}) /\ Made(o).for = draw[d].draft
    BY <1>5, ClaimPlan
<1>8. \A x, y \in {Made(o)} : Away(x) /\ Away(y) => x = y
    OBVIOUS
<1>9. /\ PrizesInv'
      /\ \A b : /\ Claimed(utxo', pool', sent', b) \subseteq Claimed(utxo, pool, sent, b) \cup {sent + 1}
                /\ b # draw[d].draft => Claimed(utxo', pool', sent', b) \subseteq Claimed(utxo, pool, sent, b)
    BY <1>2, <1>6, <1>7, <1>8, SubmitPrizes
<1>10. ~Counted(draw[d]) /\ Counted(k) /\ draw[d].row = "running"
    BY <1>1, <1>3, Underway DEF Counted, AfterClaim
<1>11. RowsInv' /\ \A b : Spent(draw, b) \subseteq Spent(draw', b) \cup Lost({}, b)
    BY <1>2, <1>3, <1>10, OneDraw
<1>12. \A b : Spent(draw, b) \subseteq Spent(draw', b)
    BY <1>11 DEF Lost
<1>13. d \in Spent(draw', draw[d].draft) /\ d \notin Spent(draw, draw[d].draft)
    BY <1>2, <1>3, <1>10 DEF Becomes, DrawsInv, Spent, Counted
<1>14. ASSUME NEW b \in Buyers
       PROVE  Cardinality(Claimed(utxo', pool', sent', b)) <= Cardinality(Spent(draw', b)) + broken'[b]
    <2>0. PICK C, D, S, T : /\ C = Claimed(utxo, pool, sent, b) /\ D = Claimed(utxo', pool', sent', b)
                            /\ S = Spent(draw, b) /\ T = Spent(draw', b)
        OBVIOUS
    <2>1. IsFiniteSet(C) /\ IsFiniteSet(D) /\ IsFiniteSet(S) /\ IsFiniteSet(T)
        BY <1>2, <2>0, FiniteParts
    <2>2. Cardinality(C) <= Cardinality(S) + broken[b] /\ broken[b] \in Nat
        BY <1>2, <2>0 DEF SurplusInv, Covered
    <2>3. /\ Cardinality(C) \in Nat /\ Cardinality(D) \in Nat /\ Cardinality(S) \in Nat /\ Cardinality(T) \in Nat
          /\ Cardinality(S) <= Cardinality(T)
        BY <1>12, <2>0, <2>1, FS_Subset, FS_CardinalityType
    <2>4. CASE b = draw[d].draft
        <3>1. PICK n : n = sent + 1
            OBVIOUS
        <3>2. D \subseteq C \cup {n} /\ S \cup {d} \subseteq T /\ d \notin S
            BY <1>9, <1>12, <1>13, <2>0, <2>4, <3>1
        <3>3. IsFiniteSet({n}) /\ Cardinality({n}) = 1
            BY FS_Singleton
        <3>4. Cardinality(D) <= Cardinality(C) + 1
            BY <2>1, <3>2, <3>3, CountsUp
        <3>5. Cardinality(S \cup {d}) = Cardinality(S) + 1 /\ Cardinality(S \cup {d}) <= Cardinality(T)
            BY <2>1, <3>2, FS_AddElement, FS_Subset
        <3> QED
            BY <1>1, <2>0, <2>2, <2>3, <3>4, <3>5
    <2>5. CASE b # draw[d].draft
        <3>1. Cardinality(D) <= Cardinality(C)
            BY <1>9, <2>0, <2>1, <2>5, FS_Subset
        <3> QED
            BY <1>1, <2>0, <2>2, <2>3, <3>1
    <2> QED
        BY <2>4, <2>5
<1> QED
    BY <1>1, <1>2, <1>9, <1>11, <1>14 DEF SurplusInv, Covered

\* An execution ends between awaits, or in one.
LEMMA BrokenSurplus ==
    ASSUME IInv, IInv', SurplusInv, NEW d \in Draws, Fail(d) \/ GiveUp(d)
    PROVE  SurplusInv'
<1>1. Fails(d) /\ broken' = Breaks({d}) /\ UNCHANGED headVars /\ draw[d].pc # "idle"
    BY Pcs DEF Fail, GiveUp
<1>2. draw[d] \in Execution /\ HandOK(sent, draw[d]) /\ sent \in Nat /\ sent' \in Nat
    BY Here DEF IInv, Shape, CountersInv
<1>3. Becomes(d, Failed(draw[d])) /\ Failed(draw[d]).pc = "idle" /\ Failed(draw[d]).draft = draw[d].draft
    BY <1>1, <1>2, FailedFields DEF Fails, Becomes
<1>4. RowsInv' /\ \A b \in Buyers : Spent(draw, b) \subseteq Spent(draw', b) \cup Lost({d}, b)
    BY <1>1, <1>3, OneDraw DEF SurplusInv, IInv, Shape
<1>5. PrizesInv' /\ NoNewClaims
    BY <1>1, QuietPrizes DEF headVars, SurplusInv
<1>6. broken' = [b \in Buyers |-> broken[b] + Cardinality(Lost({d}, b))] /\ {d} \subseteq Draws
    BY <1>1 DEF Breaks, Lost
<1>7. Covered' /\ broken' \in [Buyers -> Nat]
    BY <1>2, <1>4, <1>5, <1>6, CoverStays DEF SurplusInv
<1> QED
    BY <1>4, <1>5, <1>7 DEF SurplusInv

\* An answer: whoever waits where it is heard goes on, or ends.
LEMMA AnswerSurplus ==
    ASSUME IInv, IInv', SurplusInv, NEW t \in pool, Answer(t)
    PROVE  SurplusInv'
<1> DEFINE hears == {d \in Draws : draw[d].pc \in Awaiting /\ AwaitedHead(draw[d]) = t.head}
<1> DEFINE ended == IF Accepts(t) THEN {} ELSE hears
<1>1. /\ Judge(t) /\ broken' = Breaks(ended)
      /\ draw' = [d \in Draws |->
              CASE d \in ended -> Failed(draw[d])
                [] d \in hears \ ended -> [draw[d] EXCEPT !.pc = AfterAnswer[draw[d].pc], !.own = 0]
                [] OTHER -> draw[d]]
    BY DEF Answer
<1>2. ended \subseteq hears /\ hears \subseteq Draws /\ \A d \in hears : draw[d].pc \in Awaiting
    OBVIOUS
<1>3. PrizesInv' /\ NoNewClaims
    BY <1>1, JudgePrizes DEF SurplusInv
<1>4. sent \in Nat /\ sent' \in Nat
    BY DEF IInv, Shape, CountersInv
<1> HIDE DEF hears, ended
<1>5. ASSUME NEW d \in Draws
      PROVE  /\ draw'[d].pc # "idle" => draw'[d].row = "running"
             /\ \A b : d \in Spent(draw, b) => d \in Spent(draw', b) \cup Lost(ended, b)
    <2>1. draw[d] \in Execution /\ HandOK(sent, draw[d])
        BY Here
    <2>2. CASE d \in ended
        <3>1. draw[d].pc # "idle"
            BY <1>2, <2>2, Pcs
        <3>2. draw'[d] = Failed(draw[d])
            BY <1>1, <2>2
        <3>3. draw'[d].pc = "idle"
            BY <2>1, <3>1, <3>2, FailedFields
        <3> QED
            BY <2>2, <3>1, <3>3, Underway DEF Spent, Lost, Counted
    <2>3. CASE d \in hears \ ended
        <3> DEFINE k == [draw[d] EXCEPT !.pc = AfterAnswer[draw[d].pc], !.own = 0]
        <3>1. draw[d].pc \in Awaiting /\ draw[d].pc # "idle"
            BY <1>2, <2>3, Pcs
        <3>2. draw'[d] = k
            BY <1>1, <2>3
        <3>3. /\ k.draft = draw[d].draft
              /\ draw[d].pc = "awaitTarget" => k.pc = "claimSource"
              /\ draw[d].pc = "awaitSource" => k.pc = "finish"
            BY <1>4, <2>1, <3>1, GoesOn
        <3>4. k.row = draw[d].row
            BY <2>1 DEF Execution
        <3> HIDE DEF k
        <3>5. draw[d].row = "running" /\ (Counted(draw[d]) => AfterClaim(draw[d]))
            BY <3>1, Underway
        <3>6. AfterClaim(draw[d]) => AfterClaim(k)
            BY <3>1, <3>3, Pcs DEF AfterClaim
        <3> QED
            BY <3>2, <3>3, <3>4, <3>5, <3>6 DEF Spent, Counted
    <2>4. CASE d \notin hears
        <3>1. draw'[d] = draw[d]
            BY <1>1, <1>2, <2>4
        <3> QED
            BY <3>1 DEF Spent, SurplusInv, RowsInv
    <2> QED
        BY <2>2, <2>3, <2>4
<1>6. RowsInv'
    BY <1>5 DEF RowsInv
<1>7. \A b \in Buyers : Spent(draw, b) \subseteq Spent(draw', b) \cup Lost(ended, b)
    <2>1. \A b : Spent(draw, b) \subseteq Draws
        BY DEF Spent
    <2> QED
        BY <1>5, <2>1
<1>8. broken' = [b \in Buyers |-> broken[b] + Cardinality(Lost(ended, b))] /\ ended \subseteq Draws
    BY <1>1, <1>2 DEF Breaks, Lost
<1>9. Covered' /\ broken' \in [Buyers -> Nat]
    BY <1>3, <1>4, <1>7, <1>8, CoverStays DEF SurplusInv
<1> QED
    BY <1>3, <1>6, <1>9 DEF SurplusInv

\* A step that leaves the draws alone.
LEMMA Aside ==
    ASSUME IInv, IInv', SurplusInv, PrizesInv', NoNewClaims, UNCHANGED <<draw, broken>>
    PROVE  SurplusInv'
<1>1. sent \in Nat /\ sent' \in Nat
    BY DEF IInv, Shape, CountersInv
<1>2. broken' = [b \in Buyers |-> broken[b] + Cardinality(Lost({}, b))]
    BY NoneLost DEF SurplusInv
<1>3. {} \subseteq Draws /\ \A b \in Buyers : Spent(draw, b) \subseteq Spent(draw', b) \cup Lost({}, b)
    OBVIOUS
<1>4. Covered' /\ broken' \in [Buyers -> Nat]
    BY <1>1, <1>2, <1>3, CoverStays DEF SurplusInv
<1>5. RowsInv'
    BY DEF SurplusInv, RowsInv
<1> QED
    BY <1>4, <1>5 DEF SurplusInv

LEMMA SellSurplus ==
    ASSUME IInv, IInv', SurplusInv, NEW b \in Buyers, Sell(b)
    PROVE  SurplusInv'
<1> DEFINE ticket == Ticket(Active, b, TRUE, now + Timeout)
<1> DEFINE lock == [ticket EXCEPT !.kind = "lock", !.tx = 0]
<1>1. /\ utxo \subseteq utxo' /\ utxo' \subseteq utxo \cup {ticket, lock}
      /\ UNCHANGED <<pool, sent, draw, broken>>
    BY DEF Sell, history
<1>2. now + Timeout \in Int
    BY RoundAssumption DEF IInv, Shape, CountersInv
<1>3. ticket \in Output /\ ticket.kind = "ticket"
    BY <1>2, NestedTicket
<1> HIDE DEF ticket
<1>4. lock.kind = "lock"
    BY <1>3 DEF Output
<1> HIDE DEF lock
<1>5. \A o \in utxo' : Away(o) => o \in utxo
    BY <1>1, <1>3, <1>4 DEF Away
<1>6. PrizesInv'
    BY <1>1, <1>5 DEF SurplusInv, PrizesInv
<1>7. NoNewClaims
    BY <1>1, <1>5 DEF NoNewClaims, Claimed
<1> QED
    BY <1>1, <1>6, <1>7, Aside

LEMMA NextSurplus ==
    ASSUME IInv, IInv', SurplusInv, [Next]_vars
    PROVE  SurplusInv'
<1>0. PrizesInv
    BY DEF SurplusInv
<1>1. ASSUME NEW b \in Buyers, Sell(b) PROVE SurplusInv'
    BY <1>1, SellSurplus
<1>2. ASSUME NEW d \in Draws, DrawStep(d) PROVE SurplusInv'
    BY <1>2, SilentSurplus, SendingSurplus, ClaimSurplus DEF DrawStep
<1>3. ASSUME NEW d \in Draws, Fail(d) \/ GiveUp(d) PROVE SurplusInv'
    BY <1>3, BrokenSurplus
<1>4. ASSUME NEW t \in pool, Answer(t) PROVE SurplusInv'
    BY <1>4, AnswerSurplus
<1>5. ASSUME Script PROVE SurplusInv'
    <2>1. UNCHANGED <<draw, broken>>
        BY <1>5 DEF Script
    <2> QED
        BY <1>0, <1>5, <2>1, ScriptNoPrize, Aside
<1>6. ASSUME Tick \/ \E h \in Heads : Confirm(h), UNCHANGED roundVars PROVE SurplusInv'
    <2>1. UNCHANGED <<utxo, pool, sent>> /\ UNCHANGED <<draw, broken>>
        BY <1>6 DEF Tick, Confirm, roundVars, history
    <2> QED
        BY <1>0, <2>1, QuietPrizes, Aside
<1>7. ASSUME UNCHANGED vars PROVE SurplusInv'
    <2>1. UNCHANGED <<utxo, pool, sent>> /\ UNCHANGED <<draw, broken>>
        BY <1>7 DEF vars, headVars, roundVars, history
    <2> QED
        BY <1>0, <2>1, QuietPrizes, Aside
<1> QED
    BY <1>1, <1>2, <1>3, <1>4, <1>5, <1>6, <1>7 DEF Next

LEMMA InitSurplus ==
    ASSUME Init
    PROVE  SurplusInv
<1>1. PICK lottery, tickets :
          /\ utxo = {Coin, lottery} \cup tickets /\ snapshot = {Coin, lottery} \cup tickets
          /\ pool = {} /\ sent = 0
          /\ lottery.kind = "lottery" /\ lottery.lot = 0 /\ \A t \in tickets : t.kind = "ticket"
    BY InitialOutputs
<1>5. PrizesInv /\ \A b : Claimed(utxo, pool, sent, b) = {}
    BY <1>1, CoinSound DEF PrizesInv, Claimed, Away
<1>6. \A d \in Draws : draw[d].pc = "idle"
    BY DEF Init, Idle
<1>7. broken \in [Buyers -> Nat]
    BY DEF Init
<1>8. Covered
    <2>1. ASSUME NEW b \in Buyers PROVE Cardinality(Spent(draw, b)) \in Nat
        BY FiniteParts, FS_CardinalityType
    <2>2. ASSUME NEW b \in Buyers PROVE Cardinality(Claimed(utxo, pool, sent, b)) = 0
        BY <1>5, FS_EmptySet
    <2> QED
        BY <1>7, <2>1, <2>2 DEF Covered
<1> QED
    BY <1>5, <1>6, <1>7, <1>8 DEF SurplusInv, RowsInv

\* A prize is relayed once for each draw: every prize of a buyer beyond the number of draws
\* with that buyer's draft is due to an execution that ended after its claim on the winner's
\* head, and whose workflow was executed again.
THEOREM SurplusExplained == Spec => []SurplusHasCause
<1>1. Init => IInv /\ SurplusInv
    BY InitKeeps, InitSurplus
<1>2. IInv /\ SurplusInv /\ [Next]_vars => (IInv /\ SurplusInv)'
    BY NextKeeps, NextSurplus
<1>3. IInv /\ SurplusInv => SurplusHasCause
    <2> SUFFICES ASSUME IInv, SurplusInv, NEW b \in Buyers
                 PROVE  Cardinality(Relayed(b)) <= Cardinality({d \in Draws : draw[d].draft = b}) + broken[b]
        BY DEF SurplusHasCause
    <2>1. PICK R, C, S, T : /\ R = Relayed(b) /\ C = Claimed(utxo, pool, sent, b)
                            /\ S = Spent(draw, b) /\ T = {d \in Draws : draw[d].draft = b}
        OBVIOUS
    <2>2. IsFiniteSet(C) /\ IsFiniteSet(S) /\ sent \in Nat
        BY <2>1, FiniteParts DEF IInv, Shape, CountersInv
    <2>3. IsFiniteSet(T) /\ S \subseteq T
        <3>1. T \subseteq Draws /\ S \subseteq T
            BY <2>1 DEF Spent
        <3> QED
            BY <3>1, FS_Subset, RoundAssumption
    <2>4. \A o \in R : o.tx \in C
        BY <2>1 DEF Relayed, Claimed, SurplusInv, PrizesInv, Away
    <2>5. \A o, q \in R : o.tx = q.tx => o = q
        BY <2>1 DEF Relayed, SurplusInv, PrizesInv, Away
    <2>6. Cardinality(R) <= Cardinality(C) /\ Cardinality(R) \in Nat
        <3> DEFINE f == [o \in R |-> o.tx]
        <3>1. f \in Injection(R, C)
            BY <2>4, <2>5 DEF Injection, IsInjective
        <3>2. IsFiniteSet(R) /\ Cardinality(R) <= Cardinality(C)
            BY <2>2, <3>1, FS_Injection
        <3> QED
            BY <3>2, FS_CardinalityType
    <2>7. Cardinality(C) <= Cardinality(S) + broken[b] /\ broken[b] \in Nat
        BY <2>1 DEF SurplusInv, Covered
    <2>8. Cardinality(S) <= Cardinality(T) /\ Cardinality(S) \in Nat /\ Cardinality(T) \in Nat /\ Cardinality(C) \in Nat
        BY <2>2, <2>3, FS_Subset, FS_CardinalityType
    <2> QED
        BY <2>1, <2>6, <2>7, <2>8
<1> QED
    BY <1>1, <1>2, <1>3, PTL DEF Spec
=============================================================================
