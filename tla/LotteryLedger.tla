--------------------------- MODULE LotteryLedger ---------------------------
(***************************************************************************)
(* The lottery contract on headB: the rules of lottery.ak, and the five    *)
(* scripts of src/src/offchain/lottery that an administrator or a buyer    *)
(* runs by hand.  A script reads a snapshot, sends one transaction and     *)
(* keeps no state, so it is one action here.                               *)
(***************************************************************************)
EXTENDS HydraHead, FiniteSets

CONSTANTS
    Buyers,
    Charlie,        \* the buyer who has a head of his own
    None,
    Prize,          \* the prize of every lottery
    CloseTimes,     \* the close timestamps that are asked for
    MintWindow,     \* minutes in which a mint is valid
    PayDelay,       \* minutes after the close from which payRandomWinner pays
    ScriptPayDelay, \* and from which pay_winner.ts does
    Tools           \* the scripts that are run

ASSUME LotteryAssumption ==
    /\ None \notin Buyers
    /\ Prize \in Nat \ {0} /\ CloseTimes \subseteq Nat
    /\ MintWindow \in Nat /\ PayDelay \in Nat \ {0} /\ ScriptPayDelay \in Nat \ {0}
    /\ {"headA", "headB", "headC"} \subseteq Heads

\* coin: a wallet's output; lock: Ida's HTLC that becomes a ticket; payout: the HTLC that
\* holds a prize on headB; relayed: its counterpart on the winner's head; repaid: what Ida
\* has of a payout; prize: what a winner has.
Kinds == {"coin", "lottery", "ticket", "lock", "payout", "relayed", "repaid", "prize", "reclaimed"}

Output == [head: Heads, kind: Kinds, lot: Nat, for: Buyers \cup {None}, until: Int,
           closes: Nat, paid: BOOLEAN, nested: BOOLEAN, ada: Int, tx: Nat]

Plain(head, kind) ==
    [head |-> head, kind |-> kind, lot |-> 0, for |-> None, until |-> 0,
     closes |-> 0, paid |-> FALSE, nested |-> FALSE, ada |-> 0, tx |-> 0]

\* The administrator's wallet on headB, which is Jon's.
Coin == Plain("headB", "coin")

\* An unspent output is named by its transaction, so the token that is minted from a seed
\* is numbered after the transaction of the seed; 0 is the lottery that is there at first.
TokenOf(seed) == seed.tx + 1

Lottery(lot, closes) ==
    [Plain("headB", "lottery") EXCEPT !.lot = lot, !.closes = closes, !.ada = Prize]

\* TicketDatum: nested is a desired output with the datum of an HTLC, which runs out at until.
Ticket(lot, b, nested, until) ==
    [Plain("headB", "ticket") EXCEPT !.lot = lot, !.for = b, !.nested = nested, !.until = until]

\* The output that TicketDatum asks for.
Desired(ticket) ==
    [ticket EXCEPT !.kind = IF ticket.nested THEN "payout" ELSE "prize", !.ada = Prize]

-----------------------------------------------------------------------------
(* lottery.ak *)

At(outputs, kind) == {o \in outputs : o.kind = kind}

\* own_output: the output at the lottery's address, when there is one and only one.
OwnOutput(t) == {o \in At(t.makes, "lottery") : At(t.makes, "lottery") = {o}}

\* Mutation of PaidOut: the lottery goes on as it was.
PaidOutUnmarked(l) == l

\* The datum and the value of a lottery whose winner has been paid.
PaidOut(l) == [l EXCEPT !.paid = TRUE, !.ada = @ - Prize]

\* spend with PayWinner(winner).  The ticket's value is not compared with the ticket cost,
\* which whoever makes a ticket takes from the lottery.
PayWinner(t, l) ==
    /\ \E o \in OwnOutput(t) :
          /\ [o EXCEPT !.tx = l.tx, !.ada = l.ada] = [PaidOut(l) EXCEPT !.ada = l.ada]
          /\ o.ada >= l.ada - Prize
    /\ \E winner \in At(t.spends, "ticket") :
          /\ winner.lot = l.lot
          /\ \E o \in t.makes : [o EXCEPT !.tx = winner.tx] = Desired(winner)
    /\ t.from > l.closes
    /\ ~l.paid

\* spend with Close; the token is burnt.
Close(t, l) == l.paid /\ At(t.makes, "lottery") = {}

\* mint with Mint(ref).
Mint(t) ==
    \E o \in OwnOutput(t) :
        /\ \E seed \in At(t.spends, "coin") : TokenOf(seed) = o.lot
        /\ ~o.paid /\ o.ada >= Prize
        /\ t.upto < o.closes

\* ticket with Win: the lottery is spent with PayWinner of this ticket.
Win(t, ticket) ==
    \E l \in At(t.spends, "lottery") : l.lot = ticket.lot /\ t.redeemer = "PayWinner"

\* ticket with Lose: the lottery is a reference input.
Lose(t, ticket) == \E l \in At(t.reads, "lottery") : l.lot = ticket.lot /\ l.paid

\* The administrator signs all of these transactions, except for the purchase of a ticket.
Scripts(t) ==
    /\ \A l \in At(t.spends, "lottery") :
          CASE t.redeemer = "PayWinner" -> PayWinner(t, l)
            [] t.redeemer = "Close" -> Close(t, l)
            [] OTHER -> FALSE
    /\ \A ticket \in At(t.spends, "ticket") :
          IF t.redeemer = "Lose" THEN Lose(t, ticket) ELSE Win(t, ticket)
    /\ t.redeemer = "Mint" => Mint(t)

\* The head accepts what the ledger and the scripts accept.
Accepts(t) == Valid(t) /\ Scripts(t)

Judge(t) ==
    \/ Accepts(t) /\ Decide(t)
    \/ ~Accepts(t) /\ pool' = pool \ {t} /\ UNCHANGED <<utxo, snapshot, sent, now>>

\* Send, of a transaction with redeemers.
Submit(head, redeemer, spends, reads, makes, from, upto) ==
    /\ sent < MaxTxs
    /\ sent' = sent + 1
    /\ pool' = pool \cup
          {[id |-> sent + 1, head |-> head, redeemer |-> redeemer, spends |-> spends, reads |-> reads,
            makes |-> {[o EXCEPT !.tx = sent + 1] : o \in makes}, from |-> from, upto |-> upto]}
    /\ UNCHANGED <<utxo, snapshot, now>>

-----------------------------------------------------------------------------
(* The transactions, and the scripts of src/src/offchain/lottery.  *)

\* The seed is the wallet's first output; the rest of it comes back as change.
MintFrom(seed, closes) ==
    Submit("headB", "Mint", {seed}, {}, {Coin, Lottery(TokenOf(seed), closes)}, 0, now + MintWindow)

\* An output of less than nothing cannot be built.
Pay(l, winner, prize, delay) ==
    /\ PaidOut(l).ada >= 0
    /\ Submit("headB", "PayWinner", {l, winner}, {}, {PaidOut(l), prize}, l.closes + delay, Always)

\* What utxosAt the two scripts returns.
Lotteries == At(snapshot, "lottery")
TicketsOf(lot) == {o \in At(snapshot, "ticket") : o.lot = lot}

\* create.ts does not compare the close timestamp with the window of the mint.
ScriptCreate ==
    /\ "create" \in Tools
    /\ \E seed \in At(snapshot, "coin"), closes \in CloseTimes : MintFrom(seed, closes)

\* buy_ticket.ts: the desired output has no datum.
ScriptBuy ==
    /\ "buy" \in Tools
    /\ \E l \in Lotteries, b \in Buyers : Submit("headB", "none", {}, {}, {Ticket(l.lot, b, FALSE, 0)}, 0, Always)

\* pay_winner.ts pays to the address of the desired output, and never with a datum.
ScriptPay ==
    /\ "pay" \in Tools
    /\ \E l \in Lotteries : \E winner \in TicketsOf(l.lot) :
          Pay(l, winner, [Desired(winner) EXCEPT !.kind = "prize"], ScriptPayDelay)

ScriptClose ==
    /\ "close" \in Tools
    /\ \E l \in Lotteries : l.paid /\ Submit("headB", "Close", {l}, {}, {}, 0, Always)

\* collect_losing_tickets.ts, for all of the tickets or a batch of them.
ScriptCollect ==
    /\ "collect" \in Tools
    /\ \E l \in Lotteries : \E batch \in SUBSET TicketsOf(l.lot) \ {{}} :
          /\ l.paid
          /\ Submit("headB", "Lose", batch, {l}, {[Plain("headB", "reclaimed") EXCEPT !.lot = l.lot]}, 0, Always)

ScriptStep == ScriptCreate \/ ScriptBuy \/ ScriptPay \/ ScriptClose \/ ScriptCollect
=============================================================================
