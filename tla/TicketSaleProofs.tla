-------------------------- MODULE TicketSaleProofs --------------------------
(***************************************************************************)
(* Type correctness of TicketSale, and that Ida gives no ticket away, for  *)
(* any number of purchases, calls, failures and late answers.              *)
(*                                                                         *)
(* The heads keep HeadOK: an output of a purchase on the source head is    *)
(* only ever replaced by another one of it, and a ticket, made or on its   *)
(* way, belongs to a purchase that has one.  The calls keep CallsOK: from  *)
(* FindSource to the claim of the target, the purchase has one.            *)
(*                                                                         *)
(* With one call at a time that is never given up, the sale also           *)
(* implements AtomicSale.                                                  *)
(***************************************************************************)
EXTENDS TicketSale, TLAPS

SourceKinds == {"htlc", "paid", "refund"}

Funded(b) == \E o \in utxo : o.head = "source" /\ o.for = b

Purse(outputs) == \E o \in outputs : o.head = "headB" /\ o.kind = "coin"

\* What a transaction may make and spend.
Harmless(spends, makes) ==
    /\ \A o \in makes : /\ o.head = "source" => o.kind \in SourceKinds
                        /\ o.kind = "ticket" => Funded(o.for)
    /\ \A o \in spends : o.head = "source" => \E m \in makes : m.head = "source" /\ m.for = o.for
    /\ (\E o \in spends : o.kind = "coin") => Purse(makes)

HeadOK ==
    /\ utxo \subseteq Output /\ snapshot \subseteq Output
    /\ sent \in 0..MaxTxs /\ now \in 0..MaxNow
    /\ \A o \in utxo : /\ o.head = "source" => o.kind \in SourceKinds
                       /\ o.kind = "ticket" => Funded(o.for)
    /\ \A o \in snapshot : o.head = "source" => o.kind \in SourceKinds /\ Funded(o.for)
    /\ Purse(utxo) /\ Purse(snapshot)
    /\ \A t \in pool : /\ t.id \in 1..sent
                       /\ t.spends \subseteq Output /\ t.reads \subseteq Output /\ t.makes \subseteq Output
                       /\ Harmless(t.spends, t.makes)

Informed(k) ==
    /\ k.pc \in {"findLock", "claimTarget"} => Funded(k.b)
    /\ k.pc = "claimTarget" => k.found.for = k.b /\ k.found.head = "headB" /\ k.found.kind = "htlc"
    /\ k.pc = "claimSource" => k.found.head = "source" /\ k.found.kind = "htlc"

Call == [pc: CallPcs, b: Purchases \cup {None}, ref: Nat, found: Output]
Buyer == [pc: {"new", "prepared", "waiting", "recorded", "refused"}, until: Nat, refunding: BOOLEAN]

CallsOK ==
    /\ failures \in 0..MaxFailures /\ timeouts \in 0..MaxTimeouts
    /\ buyer \in [Purchases -> Buyer]
    /\ call \in [Calls -> Call]
    /\ done \in [Purchases -> BOOLEAN]
    /\ attempts \in [Purchases -> Nat]
    /\ \A c \in Calls : Informed(call[c])

IInv == HeadOK /\ CallsOK

-----------------------------------------------------------------------------
(* The heads *)

\* An output with a new id is still an output, of the same head, kind and purchase.
LEMMA Renamed ==
    ASSUME NEW o \in Output, NEW id \in Nat
    PROVE  LET r == [o EXCEPT !.tx = id] IN
           r \in Output /\ r.head = o.head /\ r.kind = o.kind /\ r.for = o.for
BY DEF Output

\* Sending a harmless transaction keeps HeadOK and the funding of purchases.
LEMMA SendKeeps ==
    ASSUME HeadOK, NEW head, NEW spends, NEW reads, NEW makes, NEW from, NEW upto,
           Send(head, spends, reads, makes, from, upto),
           spends \subseteq Output, reads \subseteq Output, makes \subseteq Output,
           Harmless(spends, makes)
    PROVE  HeadOK' /\ UNCHANGED utxo
<1> DEFINE new == Tx(sent + 1, head, spends, reads, makes, from, upto)
<1>1. /\ sent \in Nat /\ sent + 1 \in 0..MaxTxs /\ sent' = sent + 1
      /\ pool' = pool \cup {new} /\ UNCHANGED <<utxo, snapshot, now>>
  BY HeadAssumption DEF HeadOK, Send
<1>2. /\ new.id = sent + 1 /\ new.spends = spends /\ new.reads = reads
      /\ new.makes = {[o EXCEPT !.tx = sent + 1] : o \in makes}
  BY DEF Tx
<1>3. \A o \in makes : LET r == [o EXCEPT !.tx = sent + 1] IN
          r \in Output /\ r.head = o.head /\ r.kind = o.kind /\ r.for = o.for
  BY <1>1, Renamed
<1>4. new.makes \subseteq Output
  BY <1>2, <1>3
<1>5. Harmless(new.spends, new.makes)
  <2>1. \A o \in new.makes : /\ o.head = "source" => o.kind \in SourceKinds
                             /\ o.kind = "ticket" => Funded(o.for)
    <3> SUFFICES ASSUME NEW r \in new.makes
                 PROVE  /\ r.head = "source" => r.kind \in SourceKinds
                        /\ r.kind = "ticket" => Funded(r.for)
      OBVIOUS
    <3>1. PICK o \in makes : r = [o EXCEPT !.tx = sent + 1]
      BY <1>2
    <3>2. r.head = o.head /\ r.kind = o.kind /\ r.for = o.for
      BY <1>3, <3>1
    <3> QED BY <3>2 DEF Harmless
  <2>2. ASSUME NEW o \in spends, o.head = "source"
        PROVE  \E m \in new.makes : m.head = "source" /\ m.for = o.for
    <3>1. PICK m \in makes : m.head = "source" /\ m.for = o.for
      BY <2>2 DEF Harmless
    <3>2. [m EXCEPT !.tx = sent + 1] \in new.makes
      BY <1>2
    <3> QED BY <1>3, <3>1, <3>2
  <2>3. (\E o \in spends : o.kind = "coin") => Purse(new.makes)
    <3>1. SUFFICES ASSUME Purse(makes) PROVE Purse(new.makes)
      BY DEF Harmless
    <3>2. PICK m \in makes : m.head = "headB" /\ m.kind = "coin"
      BY <3>1 DEF Purse
    <3>3. [m EXCEPT !.tx = sent + 1] \in new.makes
      BY <1>2
    <3> QED BY <1>3, <3>2, <3>3 DEF Purse
  <2> QED BY <1>2, <2>1, <2>2, <2>3 DEF Harmless
<1> HIDE DEF new
<1>6. \A t \in pool : t.id \in 1..sent'
  BY <1>1 DEF HeadOK
<1>7. ASSUME NEW t \in pool'
      PROVE  /\ t.id \in 1..sent'
             /\ t.spends \subseteq Output /\ t.reads \subseteq Output /\ t.makes \subseteq Output
             /\ Harmless(t.spends, t.makes)
  <2>1. CASE t \in pool
    BY <1>6, <2>1 DEF HeadOK
  <2>2. CASE t = new
    <3>1. t.id \in 1..sent'
      BY <1>1, <1>2, <2>2
    <3>2. t.spends \subseteq Output /\ t.reads \subseteq Output /\ t.makes \subseteq Output
      BY <1>2, <1>4, <2>2
    <3> QED BY <1>5, <2>2, <3>1, <3>2
  <2> QED BY <1>1, <2>1, <2>2
<1>8. \A t \in pool' : /\ t.id \in 1..sent'
                         /\ t.spends \subseteq Output /\ t.reads \subseteq Output /\ t.makes \subseteq Output
                         /\ Harmless(t.spends, t.makes)'
  BY <1>1, <1>7 DEF Harmless, Funded, Purse
<1>9. Purse(utxo)' /\ Purse(snapshot)'
  BY <1>1 DEF HeadOK, Purse
<1>10. /\ \A o \in utxo' : /\ o.head = "source" => o.kind \in SourceKinds
                           /\ o.kind = "ticket" => Funded(o.for)'
       /\ \A o \in snapshot' : o.head = "source" => o.kind \in SourceKinds /\ Funded(o.for)'
  BY <1>1 DEF HeadOK, Funded
<1> QED BY <1>1, <1>8, <1>9, <1>10 DEF HeadOK

\* Deciding a transaction of the pool keeps HeadOK and the funding of purchases.
LEMMA DecideKeeps ==
    ASSUME HeadOK, NEW t \in pool, Decide(t)
    PROVE  HeadOK' /\ \A b : Funded(b) => Funded(b)'
<1>1. /\ pool' \subseteq pool /\ UNCHANGED <<snapshot, sent, now>>
      /\ utxo' = IF Valid(t) THEN (utxo \ t.spends) \cup t.makes ELSE utxo
  BY DEF Decide
<1>2. /\ t.spends \subseteq Output /\ t.makes \subseteq Output /\ Harmless(t.spends, t.makes)
  BY DEF HeadOK
<1>3. ASSUME NEW b, Funded(b) PROVE Funded(b)'
  <2>1. PICK o \in utxo : o.head = "source" /\ o.for = b
    BY <1>3 DEF Funded
  <2>2. CASE o \in utxo'
    BY <2>1, <2>2 DEF Funded
  <2>3. CASE o \notin utxo'
    <3>1. o \in t.spends /\ t.makes \subseteq utxo'
      BY <1>1, <2>1, <2>3
    <3>2. PICK m \in t.makes : m.head = "source" /\ m.for = o.for
      BY <1>2, <2>1, <3>1 DEF Harmless
    <3> QED BY <2>1, <3>1, <3>2 DEF Funded
  <2> QED BY <2>2, <2>3
<1>4. ASSUME NEW spends, NEW makes, Harmless(spends, makes) PROVE Harmless(spends, makes)'
  BY <1>3, <1>4 DEF Harmless, Purse
<1>5. /\ \A o \in utxo' : /\ o \in Output
                          /\ o.head = "source" => o.kind \in SourceKinds
                          /\ o.kind = "ticket" => Funded(o.for)'
      /\ \A o \in snapshot' : o.head = "source" => o.kind \in SourceKinds /\ Funded(o.for)'
  BY <1>1, <1>2, <1>3 DEF HeadOK, Harmless
<1>6. Purse(utxo)' /\ Purse(snapshot)'
  <2>1. PICK o \in utxo : o.head = "headB" /\ o.kind = "coin"
    BY DEF HeadOK, Purse
  <2>2. CASE o \in utxo'
    BY <1>1, <2>1, <2>2 DEF HeadOK, Purse
  <2>3. CASE o \notin utxo'
    <3>1. o \in t.spends /\ t.makes \subseteq utxo'
      BY <1>1, <2>1, <2>3
    <3>2. Purse(t.makes)
      BY <1>2, <2>1, <3>1 DEF Harmless
    <3> QED BY <1>1, <3>1, <3>2 DEF HeadOK, Purse
  <2> QED BY <2>2, <2>3
<1>7. \A x \in pool' : /\ x.id \in 1..sent'
                       /\ x.spends \subseteq Output /\ x.reads \subseteq Output /\ x.makes \subseteq Output
                       /\ Harmless(x.spends, x.makes)'
  BY <1>1, <1>4 DEF HeadOK
<1>8. utxo' \subseteq Output /\ snapshot' \subseteq Output /\ sent' \in 0..MaxTxs /\ now' \in 0..MaxNow
  BY <1>1, <1>5 DEF HeadOK
<1> QED BY <1>3, <1>5, <1>6, <1>7, <1>8 DEF HeadOK

\* A new snapshot and the passing of time keep HeadOK and the outputs.
LEMMA ConfirmKeeps ==
    ASSUME HeadOK, NEW head, Confirm(head)
    PROVE  HeadOK' /\ UNCHANGED utxo
<1>1. /\ UNCHANGED <<utxo, pool, sent, now>>
      /\ \A o \in snapshot' : o \in snapshot \/ o \in utxo
      /\ \A o \in snapshot : o.head # head => o \in snapshot'
      /\ \A o \in utxo : o.head = head => o \in snapshot'
  BY DEF Confirm
<1>2. \A o \in snapshot' : o \in Output /\ (o.head = "source" => o.kind \in SourceKinds /\ Funded(o.for)')
  BY <1>1 DEF HeadOK, Funded
<1>3. Purse(utxo)' /\ Purse(snapshot)'
  BY <1>1 DEF HeadOK, Purse
<1>4. \A x \in pool' : /\ x.id \in 1..sent'
                       /\ x.spends \subseteq Output /\ x.reads \subseteq Output /\ x.makes \subseteq Output
                       /\ Harmless(x.spends, x.makes)'
  BY <1>1 DEF HeadOK, Harmless, Funded, Purse
<1>5. \A o \in utxo' : /\ o.head = "source" => o.kind \in SourceKinds
                       /\ o.kind = "ticket" => Funded(o.for)'
  BY <1>1 DEF HeadOK, Funded
<1> QED BY <1>1, <1>2, <1>3, <1>4, <1>5 DEF HeadOK

LEMMA StillKeeps ==
    ASSUME HeadOK, UNCHANGED <<utxo, snapshot, pool, sent>>, now' \in 0..MaxNow
    PROVE  HeadOK' /\ UNCHANGED utxo
<1>1. \A x \in pool' : /\ x.id \in 1..sent'
                       /\ x.spends \subseteq Output /\ x.reads \subseteq Output /\ x.makes \subseteq Output
                       /\ Harmless(x.spends, x.makes)'
  BY DEF HeadOK, Harmless, Funded, Purse
<1>2. Purse(utxo)' /\ Purse(snapshot)'
  BY DEF HeadOK, Purse
<1>3. /\ \A o \in utxo' : /\ o.head = "source" => o.kind \in SourceKinds
                          /\ o.kind = "ticket" => Funded(o.for)'
      /\ \A o \in snapshot' : o.head = "source" => o.kind \in SourceKinds /\ Funded(o.for)'
  BY DEF HeadOK, Funded
<1> QED BY <1>1, <1>2, <1>3 DEF HeadOK

\* The wallet always finds its coin, which is not an output of a purchase.
LEMMA WalletIsACoin ==
    ASSUME HeadOK
    PROVE  Wallet \in Output /\ Wallet.kind = "coin" /\ Wallet.head # "source"
<1>1. \E o \in snapshot : o.kind = "coin"
  BY DEF HeadOK, Purse
<1>2. Wallet \in snapshot /\ Wallet.kind = "coin"
  BY <1>1 DEF Wallet
<1> QED BY <1>2 DEF HeadOK, SourceKinds

LEMMA OutIsOutput ==
    ASSUME NEW head \in Heads, NEW kind \in Kinds, NEW b \in Purchases \cup {None}, NEW until \in Int
    PROVE  LET o == Out(head, kind, b, until) IN
           o \in Output /\ o.head = head /\ o.kind = kind /\ o.for = b
BY DEF Out, Output

-----------------------------------------------------------------------------
(* The calls *)

\* What a call knows stays true when the head goes on.
LEMMA InformedKeeps ==
    ASSUME NEW k, Informed(k), \A b : Funded(b) => Funded(b)'
    PROVE  Informed(k)'
BY DEF Informed

\* A step of one call, or of the buyers, keeps CallsOK if what it leaves does.
LEMMA CallsKeep ==
    ASSUME CallsOK, \A b : Funded(b) => Funded(b)',
           NEW c \in Calls, NEW k \in Call, call' = [call EXCEPT ![c] = k], Informed(k)',
           failures' \in 0..MaxFailures, timeouts' \in 0..MaxTimeouts,
           buyer' \in [Purchases -> Buyer], done' \in [Purchases -> BOOLEAN],
           attempts' \in [Purchases -> Nat]
    PROVE  CallsOK'
<1>1. call' \in [Calls -> Call] /\ \A d \in Calls : call'[d] = IF d = c THEN k ELSE call[d]
  BY DEF CallsOK
<1>2. ASSUME NEW d \in Calls PROVE Informed(call[d])'
  <2>1. CASE d = c
    BY <1>1, <2>1 DEF Informed
  <2>2. CASE d # c
    BY <1>1, <2>2 DEF Informed, CallsOK
  <2> QED BY <2>1, <2>2
<1> QED BY <1>1, <1>2 DEF CallsOK

LEMMA BuyersKeep ==
    ASSUME CallsOK, \A b : Funded(b) => Funded(b)',
           UNCHANGED <<call, done, attempts, failures>>,
           timeouts' \in 0..MaxTimeouts, buyer' \in [Purchases -> Buyer]
    PROVE  CallsOK'
<1>1. \A d \in Calls : Informed(call[d])'
  BY DEF Informed, CallsOK
<1> QED BY <1>1 DEF CallsOK

LEMMA Initially == Init => IInv
<1> SUFFICES ASSUME Init PROVE IInv
  OBVIOUS
<1>1. Coin \in Output /\ Coin.head = "headB" /\ Coin.kind = "coin"
  BY SaleAssumption DEF Coin, Out, Output, Kinds
<1>2. HeadOK
  BY <1>1, HeadAssumption DEF Init, HeadInit, HeadOK, Purse
<1>3. Quiet \in Call /\ Informed(Quiet)
  BY <1>1 DEF Quiet, Call, CallPcs, Informed
<1>4. CallsOK
  BY <1>3, SaleAssumption DEF Init, CallsOK, Buyer
<1> QED BY <1>2, <1>4 DEF IInv

\* The outputs that calls and buyers find are outputs of the purchase; those on the
\* source head show that it is funded.
LEMMA Found ==
    ASSUME HeadOK, NEW head, NEW kind, NEW b, NEW o \in Here(head, kind, b)
    PROVE  /\ o \in Output /\ o.head = head /\ o.kind = kind /\ o.for = b
           /\ head = "source" => Funded(b)
BY DEF Here, HeadOK

\* The heads are left alone.
LEMMA HeadsStill ==
    ASSUME HeadOK, UNCHANGED headVars
    PROVE  HeadOK' /\ \A b : Funded(b) => Funded(b)'
BY StillKeeps DEF headVars, Funded, HeadOK

-----------------------------------------------------------------------------
(* The buyers *)

LEMMA PrepareStep ==
    ASSUME IInv, NEW b \in Purchases, Prepare(b)
    PROVE  IInv'
<1>1. HeadOK' /\ \A x : Funded(x) => Funded(x)'
  BY HeadsStill DEF Prepare, IInv
<1>2. buyer' \in [Purchases -> Buyer]
  <2>1. now + Timeout \in Nat
    BY SaleAssumption, HeadAssumption DEF IInv, HeadOK
  <2> QED BY <2>1 DEF Prepare, IInv, CallsOK, Buyer
<1>3. UNCHANGED <<call, done, attempts, failures>> /\ timeouts' \in 0..MaxTimeouts
  BY DEF Prepare, IInv, CallsOK
<1> QED BY <1>1, <1>2, <1>3, BuyersKeep DEF IInv

LEMMA SubmitSourceStep ==
    ASSUME IInv, NEW b \in Purchases, SubmitSource(b)
    PROVE  IInv'
<1> DEFINE o == Out("source", "htlc", b, buyer[b].until)
<1>1. o \in Output /\ o.head = "source" /\ o.kind = "htlc"
  <2>1. buyer[b].until \in Int
    BY DEF IInv, CallsOK, Buyer
  <2> QED BY <2>1, OutIsOutput, SaleAssumption DEF Kinds
<1>2. Harmless({}, {o})
  BY <1>1 DEF Harmless, SourceKinds
<1>3. Send("source", {}, {}, {o}, 0, Always)
  BY DEF SubmitSource
<1>4. HeadOK' /\ UNCHANGED utxo
  BY <1>1, <1>2, <1>3, SendKeeps DEF IInv
<1>5. buyer' \in [Purchases -> Buyer]
  BY DEF SubmitSource, IInv, CallsOK, Buyer
<1>6. UNCHANGED <<call, done, attempts, failures>> /\ timeouts' \in 0..MaxTimeouts
  BY DEF SubmitSource, IInv, CallsOK
<1>7. \A x : Funded(x) => Funded(x)'
  BY <1>4 DEF Funded
<1> QED BY <1>4, <1>5, <1>6, <1>7, BuyersKeep DEF IInv

LEMMA AbandonStep ==
    ASSUME IInv, NEW b \in Purchases, Abandon(b)
    PROVE  IInv'
<1>1. HeadOK' /\ \A x : Funded(x) => Funded(x)'
  BY HeadsStill DEF Abandon, IInv
<1>2. buyer' \in [Purchases -> Buyer]
  BY DEF Abandon, IInv, CallsOK, Buyer
<1>3. UNCHANGED <<call, done, attempts, failures>> /\ timeouts' \in 0..MaxTimeouts
  BY SaleAssumption DEF Abandon, IInv, CallsOK
<1> QED BY <1>1, <1>2, <1>3, BuyersKeep DEF IInv

LEMMA RefundStep ==
    ASSUME IInv, NEW b \in Purchases, Refund(b)
    PROVE  IInv'
<1> DEFINE r == Out("source", "refund", b, 0)
<1>1. PICK o \in Here("source", "htlc", b) :
          Send("source", {o}, {}, {r}, o.until + 1, Always)
  BY DEF Refund
<1>2. r \in Output /\ r.head = "source" /\ r.kind = "refund" /\ r.for = b
  BY OutIsOutput, SaleAssumption DEF Kinds
<1>3. o \in Output /\ o.head = "source" /\ o.kind = "htlc" /\ o.for = b
  BY Found DEF IInv
<1>4. Harmless({o}, {r})
  BY <1>2, <1>3 DEF Harmless, SourceKinds
<1>5. HeadOK' /\ UNCHANGED utxo
  BY <1>1, <1>2, <1>3, <1>4, SendKeeps DEF IInv
<1>6. buyer' \in [Purchases -> Buyer]
  BY DEF Refund, IInv, CallsOK, Buyer
<1>7. UNCHANGED <<call, done, attempts, failures>> /\ timeouts' \in 0..MaxTimeouts
  BY DEF Refund, IInv, CallsOK
<1>8. \A x : Funded(x) => Funded(x)'
  BY <1>5 DEF Funded
<1> QED BY <1>5, <1>6, <1>7, <1>8, BuyersKeep DEF IInv

-----------------------------------------------------------------------------
(* The steps of a call *)

\* A step that leaves the heads, the buyers and the counters alone.
LEMMA ReadStep ==
    ASSUME IInv, UNCHANGED <<headVars, buyer, attempts, failures, timeouts>>, done' \in [Purchases -> BOOLEAN],
           NEW c \in Calls, NEW k \in Call, call' = [call EXCEPT ![c] = k], Informed(k)
    PROVE  IInv'
<1>1. HeadOK' /\ \A x : Funded(x) => Funded(x)'
  BY HeadsStill DEF IInv
<1>2. Informed(k)'
  BY <1>1, InformedKeeps
<1>3. /\ failures' \in 0..MaxFailures /\ timeouts' \in 0..MaxTimeouts
      /\ buyer' \in [Purchases -> Buyer] /\ attempts' \in [Purchases -> Nat]
  BY DEF IInv, CallsOK
<1>4. CallsOK
  BY DEF IInv
<1> QED BY <1>1, <1>2, <1>3, <1>4, CallsKeep DEF IInv

\* What is at hand in a step of a call.
LEMMA Own ==
    ASSUME IInv, NEW c \in Calls
    PROVE  /\ call \in [Calls -> Call] /\ call[c] \in Call /\ Informed(call[c])
           /\ done \in [Purchases -> BOOLEAN]
           /\ Quiet \in Call /\ Informed(Quiet)
<1>1. Quiet \in Call /\ Informed(Quiet)
  BY SaleAssumption DEF Quiet, Coin, Out, Output, Kinds, Call, CallPcs, Informed
<1> QED BY <1>1 DEF IInv, CallsOK

LEMMA StartStep ==
    ASSUME IInv, NEW c \in Calls, NEW b \in Purchases, Start(c, b)
    PROVE  IInv'
<1> DEFINE k == [Quiet EXCEPT !.pc = "ensure", !.b = b]
<1>1. k \in Call /\ Informed(k)
  BY Own DEF Quiet, Call, CallPcs, Informed
<1> HIDE DEF k
<1>2. call' = [call EXCEPT ![c] = k]
  BY DEF Start, k
<1>3. UNCHANGED <<headVars, buyer, attempts, failures, timeouts>> /\ done' \in [Purchases -> BOOLEAN]
  BY Own DEF Start
<1> QED BY <1>1, <1>2, <1>3, ReadStep

LEMMA EnsureStep ==
    ASSUME IInv, NEW c \in Calls, Ensure(c)
    PROVE  IInv'
<1>1. UNCHANGED <<headVars, buyer, attempts, failures, timeouts>> /\ done' \in [Purchases -> BOOLEAN]
  BY Own DEF Ensure
<1>2. call[c] \in Call
  BY Own
<1>3. CASE \E l \in Here("headB", "htlc", call[c].b) :
              call' = [call EXCEPT ![c].pc = "findSource", ![c].ref = l.tx]
  <2>1. PICK l \in Here("headB", "htlc", call[c].b) :
                call' = [call EXCEPT ![c].pc = "findSource", ![c].ref = l.tx]
    BY <1>3
  <2> DEFINE k == [call[c] EXCEPT !.pc = "findSource", !.ref = l.tx]
  <2>2. l.tx \in Nat
    BY Found DEF Output, IInv
  <2>3. k \in Call /\ Informed(k)
    BY <1>2, <2>2 DEF Call, CallPcs, Informed
  <2>4. call' = [call EXCEPT ![c] = k]
    BY <2>1
  <2> HIDE DEF k
  <2> QED BY <1>1, <2>3, <2>4, ReadStep
<1>4. CASE Goes(c, "lock")
  <2> DEFINE k == [call[c] EXCEPT !.pc = "lock"]
  <2>1. k \in Call /\ Informed(k)
    BY <1>2 DEF Call, CallPcs, Informed
  <2>2. call' = [call EXCEPT ![c] = k]
    BY <1>4 DEF Goes
  <2> HIDE DEF k
  <2> QED BY <1>1, <2>1, <2>2, ReadStep
<1> QED BY <1>3, <1>4 DEF Ensure

LEMMA FindSourceStep ==
    ASSUME IInv, NEW c \in Calls, FindSource(c)
    PROVE  IInv'
<1> DEFINE open == Here("source", "htlc", call[c].b)
           k == IF open = {} THEN Quiet ELSE [call[c] EXCEPT !.pc = "findLock"]
<1>1. k \in Call /\ Informed(k)
  <2>1. CASE open = {}
    BY <2>1, Own
  <2>2. CASE open # {}
    <3>1. Funded(call[c].b)
      BY <2>2, Found DEF IInv
    <3> QED BY <2>2, <3>1, Own DEF Call, CallPcs, Informed
  <2> QED BY <2>1, <2>2
<1>2. call' = [call EXCEPT ![c] = k]
  BY DEF FindSource
<1>3. UNCHANGED <<headVars, buyer, attempts, failures, timeouts>> /\ done' \in [Purchases -> BOOLEAN]
  BY Own DEF FindSource
<1> HIDE DEF k
<1> QED BY <1>1, <1>2, <1>3, ReadStep

LEMMA FindLockStep ==
    ASSUME IInv, NEW c \in Calls, FindLock(c)
    PROVE  IInv'
<1>1. UNCHANGED <<headVars, buyer, attempts, failures, timeouts>> /\ done' \in [Purchases -> BOOLEAN]
  BY Own DEF FindLock
<1>2. CASE \E o \in Here("headB", "htlc", call[c].b) :
              call' = [call EXCEPT ![c].pc = "claimTarget", ![c].found = o]
  <2>1. PICK o \in Here("headB", "htlc", call[c].b) :
                call' = [call EXCEPT ![c].pc = "claimTarget", ![c].found = o]
    BY <1>2
  <2> DEFINE k == [call[c] EXCEPT !.pc = "claimTarget", !.found = o]
  <2>2. o \in Output /\ o.head = "headB" /\ o.kind = "htlc" /\ o.for = call[c].b
    BY Found DEF IInv
  <2>3. Funded(call[c].b)
    BY Own DEF FindLock, At, Informed
  <2>4. k \in Call /\ Informed(k)
    BY <2>2, <2>3, Own DEF Call, CallPcs, Informed
  <2>5. call' = [call EXCEPT ![c] = k]
    BY <2>1
  <2> HIDE DEF k
  <2> QED BY <1>1, <2>4, <2>5, ReadStep
<1>3. CASE call' = [call EXCEPT ![c] = Quiet]
  BY <1>1, <1>3, Own, ReadStep
<1> QED BY <1>2, <1>3 DEF FindLock

LEMMA FindAgainStep ==
    ASSUME IInv, NEW c \in Calls, FindAgain(c)
    PROVE  IInv'
<1>1. UNCHANGED <<headVars, buyer, attempts, failures, timeouts>> /\ done' \in [Purchases -> BOOLEAN]
  BY Own DEF FindAgain
<1>2. CASE \E o \in Here("source", "htlc", call[c].b) :
              call' = [call EXCEPT ![c].pc = "claimSource", ![c].found = o]
  <2>1. PICK o \in Here("source", "htlc", call[c].b) :
                call' = [call EXCEPT ![c].pc = "claimSource", ![c].found = o]
    BY <1>2
  <2> DEFINE k == [call[c] EXCEPT !.pc = "claimSource", !.found = o]
  <2>2. o \in Output /\ o.head = "source" /\ o.kind = "htlc"
    BY Found DEF IInv
  <2>3. k \in Call /\ Informed(k)
    BY <2>2, Own DEF Call, CallPcs, Informed
  <2>4. call' = [call EXCEPT ![c] = k]
    BY <2>1
  <2> HIDE DEF k
  <2> QED BY <1>1, <2>3, <2>4, ReadStep
<1>3. CASE Goes(c, "return")
  <2> DEFINE k == [call[c] EXCEPT !.pc = "return"]
  <2>1. k \in Call /\ Informed(k)
    BY Own DEF Call, CallPcs, Informed
  <2>2. call' = [call EXCEPT ![c] = k]
    BY <1>3 DEF Goes
  <2> HIDE DEF k
  <2> QED BY <1>1, <2>1, <2>2, ReadStep
<1> QED BY <1>2, <1>3 DEF FindAgain

LEMMA ReturnStep ==
    ASSUME IInv, NEW c \in Calls, Return(c)
    PROVE  IInv'
<1>1. done' \in [Purchases -> BOOLEAN]
  BY Own DEF Return
<1> QED BY <1>1, Own, ReadStep DEF Return

\* A step that has sent a transaction and waits for an answer.
LEMMA WaitStep ==
    ASSUME IInv, UNCHANGED <<utxo, buyer, done, attempts, failures, timeouts>>, HeadOK',
           NEW c \in Calls, NEW k \in Call, call' = [call EXCEPT ![c] = k], k.pc \in Waiting
    PROVE  IInv'
<1>1. \A x : Funded(x) => Funded(x)'
  BY DEF Funded
<1>2. Informed(k)'
  BY DEF Informed, Waiting
<1>3. /\ failures' \in 0..MaxFailures /\ timeouts' \in 0..MaxTimeouts
      /\ buyer' \in [Purchases -> Buyer] /\ done' \in [Purchases -> BOOLEAN]
      /\ attempts' \in [Purchases -> Nat] /\ CallsOK
  BY DEF IInv, CallsOK
<1> QED BY <1>1, <1>2, <1>3, CallsKeep DEF IInv

LEMMA SendLockStep ==
    ASSUME IInv, NEW c \in Calls, SendLock(c)
    PROVE  IInv'
<1> DEFINE lock == Out("headB", "htlc", call[c].b, now + Timeout)
           k == [call[c] EXCEPT !.pc = "awaitLock", !.ref = sent + 1]
<1>1. Wallet \in Output /\ Wallet.kind = "coin" /\ Wallet.head # "source"
  BY WalletIsACoin DEF IInv
<1>2. lock \in Output /\ lock.head = "headB" /\ lock.kind = "htlc"
  <2>1. call[c].b \in Purchases \cup {None} /\ now + Timeout \in Int
    BY Own, SaleAssumption, HeadAssumption DEF Call, IInv, HeadOK
  <2> QED BY <2>1, OutIsOutput, SaleAssumption DEF Kinds
<1>3. Coin \in Output /\ Coin.head = "headB" /\ Coin.kind = "coin"
  BY OutIsOutput, SaleAssumption DEF Coin, Kinds
<1>4. Harmless({Wallet}, {Coin, lock})
  BY <1>1, <1>2, <1>3 DEF Harmless, Purse
<1>5. k \in Call /\ k.pc \in Waiting
  <2>1. sent + 1 \in Nat
    BY HeadAssumption DEF IInv, HeadOK
  <2> QED BY <2>1, Own DEF Call, CallPcs, Waiting
<1>6. call' = [call EXCEPT ![c] = k] /\ UNCHANGED <<buyer, done, attempts, failures, timeouts>>
  BY DEF SendLock
<1>7. Send("headB", {Wallet}, {}, {Coin, lock}, 0, Always)
  BY DEF SendLock
<1>8. HeadOK' /\ UNCHANGED utxo
  BY <1>1, <1>2, <1>3, <1>4, <1>7, SendKeeps DEF IInv
<1> HIDE DEF lock, k
<1> QED BY <1>5, <1>6, <1>8, WaitStep

LEMMA ClaimTargetStep ==
    ASSUME IInv, NEW c \in Calls, ClaimTarget(c)
    PROVE  IInv'
<1> DEFINE o == call[c].found
           ticket == Out(o.head, "ticket", o.for, 0)
           k == [call[c] EXCEPT !.pc = "awaitTarget"]
<1>1. o \in Output /\ o.head = "headB" /\ o.kind = "htlc" /\ Funded(o.for)
  BY Own DEF ClaimTarget, At, Informed, Call
<1>2. Wallet \in Output
  BY WalletIsACoin DEF IInv
<1>3. ticket \in Output /\ ticket.head = "headB" /\ ticket.for = o.for
  <2>1. o.for \in Purchases \cup {None} /\ o.head \in Heads
    BY <1>1 DEF Output
  <2> QED BY <1>1, <2>1, OutIsOutput DEF Kinds
<1>4. Harmless({o}, {ticket})
  BY <1>1, <1>3 DEF Harmless
<1>5. k \in Call /\ k.pc \in Waiting
  BY Own DEF Call, CallPcs, Waiting
<1>6. /\ Send(o.head, {o}, {Wallet}, {ticket}, 0, o.until - ClaimOffset)
      /\ call' = [call EXCEPT ![c] = k] /\ UNCHANGED <<buyer, done, attempts, failures, timeouts>>
  BY DEF ClaimTarget, Claim, Goes
<1>7. HeadOK' /\ UNCHANGED utxo
  BY <1>1, <1>2, <1>3, <1>4, <1>6, SendKeeps DEF IInv
<1> HIDE DEF o, ticket, k
<1> QED BY <1>5, <1>6, <1>7, WaitStep

LEMMA ClaimSourceStep ==
    ASSUME IInv, NEW c \in Calls, ClaimSource(c)
    PROVE  IInv'
<1> DEFINE o == call[c].found
           paid == Out(o.head, "paid", o.for, 0)
           k == [call[c] EXCEPT !.pc = "awaitSource"]
<1>1. o \in Output /\ o.head = "source" /\ o.kind = "htlc"
  BY Own DEF ClaimSource, At, Informed, Call
<1>2. paid \in Output /\ paid.head = "source" /\ paid.kind = "paid" /\ paid.for = o.for
  <2>1. o.for \in Purchases \cup {None} /\ o.head \in Heads
    BY <1>1 DEF Output
  <2> QED BY <1>1, <2>1, OutIsOutput DEF Kinds
<1>3. Harmless({o}, {paid})
  BY <1>1, <1>2 DEF Harmless, SourceKinds
<1>4. k \in Call /\ k.pc \in Waiting
  BY Own DEF Call, CallPcs, Waiting
<1>5. /\ Send(o.head, {o}, {}, {paid}, 0, o.until - ClaimOffset)
      /\ call' = [call EXCEPT ![c] = k] /\ UNCHANGED <<buyer, done, attempts, failures, timeouts>>
  BY DEF ClaimSource, Claim, Goes
<1>6. HeadOK' /\ UNCHANGED utxo
  BY <1>1, <1>2, <1>3, <1>5, SendKeeps DEF IInv
<1> HIDE DEF o, paid, k
<1> QED BY <1>4, <1>5, <1>6, WaitStep

LEMMA EndStep ==
    ASSUME IInv, NEW c \in Calls, Fail(c) \/ GiveUp(c)
    PROVE  IInv'
<1>1. UNCHANGED <<headVars, buyer, done>> /\ call' = [call EXCEPT ![c] = Quiet]
  BY DEF Fail, GiveUp, Ends
<1>2. HeadOK' /\ \A x : Funded(x) => Funded(x)'
  BY <1>1, HeadsStill DEF IInv
<1>3. failures' \in 0..MaxFailures /\ timeouts' \in 0..MaxTimeouts
  BY SaleAssumption DEF Fail, GiveUp, IInv, CallsOK
<1>4. buyer' \in [Purchases -> Buyer] /\ done' \in [Purchases -> BOOLEAN] /\ CallsOK
  BY <1>1 DEF IInv, CallsOK
<1>5. Quiet \in Call /\ Informed(Quiet)'
  BY Own, <1>2, InformedKeeps
<1>6. attempts' \in [Purchases -> Nat]
  BY DEF Fail, GiveUp, Ends, IInv, CallsOK
<1> QED BY <1>1, <1>2, <1>3, <1>4, <1>5, <1>6, CallsKeep DEF IInv

-----------------------------------------------------------------------------
(* Answers *)

\* An answer leaves a call as it was, or sends it on to a step that knows nothing yet.
LEMMA HearKeeps ==
    ASSUME NEW k \in Call, NEW head, NEW valid, Informed(k)
    PROVE  Hear(k, head, valid) \in Call /\ Informed(Hear(k, head, valid))
<1>1. Quiet \in Call /\ Informed(Quiet)
  BY SaleAssumption DEF Quiet, Coin, Out, Output, Kinds, Call, CallPcs, Informed
<1>2. ASSUME k.pc \in Waiting PROVE AfterValid(k.pc) \in {"findSource", "findAgain", "return"}
  BY <1>2 DEF Waiting, AfterValid
<1>3. CASE k.pc \in Waiting /\ AwaitedHead(k.pc) = head /\ valid
  <2>1. Hear(k, head, valid) = [k EXCEPT !.pc = AfterValid(k.pc)]
    BY <1>3 DEF Hear
  <2> DEFINE h == [k EXCEPT !.pc = AfterValid(k.pc)]
  <2>2. h \in Call /\ h.pc \in {"findSource", "findAgain", "return"}
    BY <1>2, <1>3 DEF Call, CallPcs
  <2> HIDE DEF h
  <2>3. Informed(h)
    BY <2>2 DEF Informed
  <2> QED BY <2>1, <2>2, <2>3 DEF h
<1>4. CASE k.pc \in Waiting /\ AwaitedHead(k.pc) = head /\ ~valid
  BY <1>1, <1>4 DEF Hear
<1>5. CASE ~(k.pc \in Waiting /\ AwaitedHead(k.pc) = head)
  BY <1>5 DEF Hear
<1> QED BY <1>3, <1>4, <1>5

LEMMA AnswerStep ==
    ASSUME IInv, NEW t \in pool, Answer(t)
    PROVE  IInv'
<1>1. HeadOK' /\ \A x : Funded(x) => Funded(x)'
  BY DecideKeeps DEF Answer, IInv
<1>2. \A c \in Calls : Hear(call[c], t.head, Valid(t)) \in Call /\ Informed(Hear(call[c], t.head, Valid(t)))
  BY HearKeeps DEF IInv, CallsOK
<1>3. call' = [c \in Calls |-> Hear(call[c], t.head, Valid(t))]
  BY DEF Answer
<1>4. call' \in [Calls -> Call]
  BY <1>2, <1>3
<1>5. ASSUME NEW c \in Calls PROVE Informed(call[c])'
  <2>1. PICK k : k = call'[c] /\ Informed(k)
    BY <1>2, <1>3
  <2>2. Informed(k)'
    BY <1>1, <2>1, InformedKeeps
  <2> QED BY <2>1, <2>2 DEF Informed
<1>6. buyer' \in [Purchases -> Buyer]
  BY DEF Answer, IInv, CallsOK, Buyer
<1>7. /\ failures' \in 0..MaxFailures /\ timeouts' \in 0..MaxTimeouts
      /\ done' \in [Purchases -> BOOLEAN]
  BY DEF Answer, IInv, CallsOK
<1>8. attempts' \in [Purchases -> Nat]
  BY DEF Answer, IInv, CallsOK
<1> QED BY <1>1, <1>4, <1>5, <1>6, <1>7, <1>8 DEF IInv, CallsOK

LEMMA HeadStep ==
    ASSUME IInv, Tick \/ \E h \in Heads : Confirm(h), UNCHANGED saleVars
    PROVE  IInv'
<1>1. HeadOK' /\ UNCHANGED utxo
  <2>1. CASE Tick
    <3>1. UNCHANGED <<utxo, snapshot, pool, sent>> /\ now' \in 0..MaxNow
      BY <2>1, HeadAssumption DEF Tick, IInv, HeadOK
    <3> QED BY <3>1, StillKeeps DEF IInv
  <2>2. CASE \E h \in Heads : Confirm(h)
    BY <2>2, ConfirmKeeps DEF IInv
  <2> QED BY <2>1, <2>2
<1>2. \A x : Funded(x) => Funded(x)'
  BY <1>1 DEF Funded
<1>3. CallsOK'
  BY <1>2, BuyersKeep DEF IInv, CallsOK, saleVars
<1> QED BY <1>1, <1>3 DEF IInv

LEMMA Invariance == Spec => []IInv
<1>1. Init => IInv
  BY Initially
<1>2. IInv /\ [Next]_vars => IInv'
  <2> SUFFICES ASSUME IInv, [Next]_vars PROVE IInv'
    OBVIOUS
  <2>1. ASSUME NEW b \in Purchases, Prepare(b) \/ SubmitSource(b) \/ Abandon(b) \/ Refund(b)
        PROVE  IInv'
    BY <2>1, PrepareStep, SubmitSourceStep, AbandonStep, RefundStep
  <2>2. ASSUME NEW c \in Calls, CallStep(c)
        PROVE  IInv'
    BY <2>2, StartStep, EnsureStep, SendLockStep, FindSourceStep, FindLockStep, ClaimTargetStep,
       FindAgainStep, ClaimSourceStep, ReturnStep DEF CallStep
  <2>3. ASSUME NEW c \in Calls, Fail(c) \/ GiveUp(c)
        PROVE  IInv'
    BY <2>3, EndStep
  <2>4. ASSUME NEW t \in pool, Answer(t)
        PROVE  IInv'
    BY <2>4, AnswerStep
  <2>5. CASE (Tick \/ \E h \in Heads : Confirm(h)) /\ UNCHANGED saleVars
    BY <2>5, HeadStep
  <2>6. CASE UNCHANGED vars
    <3>1. HeadOK' /\ \A x : Funded(x) => Funded(x)'
      BY <2>6, HeadsStill DEF vars, IInv
    <3> QED BY <2>6, <3>1, BuyersKeep DEF vars, saleVars, IInv, CallsOK
  <2> QED BY <2>1, <2>2, <2>3, <2>4, <2>5, <2>6 DEF Next
<1> QED BY <1>1, <1>2, PTL DEF Spec

-----------------------------------------------------------------------------
(* Theorems *)

\* Heads, buyers and calls only ever hold values of their types; in particular a call
\* never claims an output that it has not found.
THEOREM TypeCorrect == Spec => []TypeOK
<1>1. IInv => TypeOK
  BY DEF IInv, HeadOK, CallsOK, Call, Buyer, TypeOK
<1> QED BY <1>1, Invariance, PTL

\* Ida gives no ticket away: whatever answers the calls take for their own, and however
\* many of them fail, a purchase with a ticket has an output on the source head.
THEOREM NoTicketForFree == Spec => []NoFreeTicket
<1>1. IInv => NoFreeTicket
  <2> SUFFICES ASSUME IInv, NEW b \in Purchases, Has("headB", "ticket", b)
               PROVE  Payment(b) # "none"
    BY DEF NoFreeTicket
  <2>1. PICK o \in utxo : o.kind = "ticket" /\ o.for = b
    BY DEF Has
  <2>2. PICK s \in utxo : s.head = "source" /\ s.for = b
    BY <2>1 DEF IInv, HeadOK, Funded
  <2>3. s.kind \in SourceKinds
    BY <2>2 DEF IInv, HeadOK
  <2>4. Has("source", "paid", b) \/ Has("source", "refund", b) \/ Has("source", "htlc", b)
    BY <2>2, <2>3 DEF Has, SourceKinds
  <2> QED BY <2>4 DEF Payment
<1> QED BY <1>1, Invariance, PTL


-----------------------------------------------------------------------------
(* The sale as the abstract one sees it                                    *)
(*                                                                         *)
(* With one call at a time and no await that ends early, what a call hears *)
(* on headB is about its own transaction: it is the only one there.  So a  *)
(* call that is past the claim of the target has a ticket, and so has each *)
(* claim of a payment that it sends.                                       *)

Ticketed(outputs, b) == \E o \in outputs : o.head = "headB" /\ o.kind = "ticket" /\ o.for = b

OnSource(o) == o.head = "source"
NoPayment(outputs, b) == \A o \in outputs : OnSource(o) => o.for # b

Submitted(buyers, b) == buyers[b].pc \notin {"new", "prepared"}

Spending(t, kind, b) == t.spends # {} /\ \A o \in t.spends : o.head = t.head /\ o.kind = kind /\ o.for = b
Making(t, kind, b) == \E m : t.makes = {m} /\ m.head = t.head /\ m.kind = kind /\ m.for = b

\* What the transactions of a sale do to a purchase, and that of its lock on headB.
Locks(t, b) == t.head = "source" /\ t.spends = {} /\ Making(t, "htlc", b)
Returns(t, b) == t.head = "source" /\ Spending(t, "htlc", b) /\ Making(t, "refund", b)
Pays(outputs, t, b) ==
    t.head = "source" /\ Spending(t, "htlc", b) /\ Making(t, "paid", b) /\ Ticketed(outputs, b)
Delivers(t, b) == t.head = "headB" /\ Spending(t, "htlc", b) /\ Making(t, "ticket", b)
Covers(t) ==
    /\ t.head = "headB"
    /\ \A o \in t.spends : o.kind = "coin"
    /\ \A o \in t.makes : o.head = "headB" /\ o.kind \in {"coin", "htlc"}

Known(outputs, t) ==
    Covers(t) \/ \E b \in Purchases : Locks(t, b) \/ Returns(t, b) \/ Pays(outputs, t, b) \/ Delivers(t, b)

OnePayment(outputs) == \A o, q \in outputs : OnSource(o) /\ OnSource(q) /\ o.for = q.for => o = q

\* A purchase is submitted once, and has one output on the source head from then on.
PaymentsInv(outputs, txs, buyers) ==
    /\ \A t \in txs : Known(outputs, t)
    /\ \A t, u \in txs : \A b \in Purchases : Locks(t, b) /\ Locks(u, b) => t = u
    /\ \A t \in txs : \A b \in Purchases : Locks(t, b) => NoPayment(outputs, b) /\ Submitted(buyers, b)
    /\ \A o \in outputs : OnSource(o) => o.for \in Purchases /\ Submitted(buyers, o.for)
    /\ OnePayment(outputs)

AtHeadB(txs) == {t \in txs : t.head = "headB"}

Heard(outputs, txs, k) ==
    /\ k.pc # "idle" => k.b \in Purchases
    /\ k.pc \in {"findAgain", "claimSource", "awaitSource", "return"} => Ticketed(outputs, k.b)
    /\ k.pc = "claimSource" => k.found.for = k.b
    /\ k.pc = "awaitTarget" => \A t \in AtHeadB(txs) : Delivers(t, k.b)
    /\ k.pc \notin {"awaitLock", "awaitTarget"} => AtHeadB(txs) = {}

SaleInv ==
    /\ PaymentsInv(utxo, pool, buyer)
    /\ \A c \in Calls : Heard(utxo, pool, call[c])
    /\ \A t, u \in AtHeadB(pool) : t = u
    /\ timeouts = 0

SaleStep == [Sale!Next]_(Sale!saleVars)

OneCall == MaxTimeouts = 0 /\ \A c, d \in Calls : c = d

\* As long as no transaction is decided, the abstract sale stands still.
LEMMA SaleStutters ==
    ASSUME UNCHANGED utxo
    PROVE  SaleStep
BY DEF SaleStep, Sale!saleVars, Payment, Has

\* The only call moves to k, and nothing is sent or decided.
LEMMA CallMoves ==
    ASSUME IInv, SaleInv, OneCall, UNCHANGED <<utxo, pool, buyer, timeouts>>,
           NEW c \in Calls, NEW k, call' = [call EXCEPT ![c] = k], Heard(utxo, pool, k)
    PROVE  SaleInv'
<1>1. call \in [Calls -> Call]
  BY DEF IInv, CallsOK
<1>2. ASSUME NEW d \in Calls PROVE Heard(utxo', pool', call'[d])
  <2>1. d = c
    BY DEF OneCall
  <2>2. call'[d] = k
    BY <1>1, <2>1
  <2> QED BY <2>2
<1>3. PaymentsInv(utxo', pool', buyer') /\ (\A t, u \in AtHeadB(pool') : t = u) /\ timeouts' = 0
  BY DEF SaleInv
<1> QED BY <1>2, <1>3 DEF SaleInv

\* A transaction as Send makes it.
LEMMA SentTx ==
    ASSUME NEW id \in Nat, NEW head, NEW spends, NEW reads, NEW from, NEW upto, NEW m \in Output
    PROVE  LET t == Tx(id, head, spends, reads, {m}, from, upto) IN
           /\ t.id = id /\ t.head = head /\ t.spends = spends
           /\ \E r : t.makes = {r} /\ r.head = m.head /\ r.kind = m.kind /\ r.for = m.for
<1> DEFINE r == [m EXCEPT !.tx = id]
           t == Tx(id, head, spends, reads, {m}, from, upto)
<1>1. r.head = m.head /\ r.kind = m.kind /\ r.for = m.for
  BY Renamed
<1>2. t.makes = {r} /\ t.id = id /\ t.head = head /\ t.spends = spends
  BY DEF Tx
<1> HIDE DEF r, t
<1> QED BY <1>1, <1>2 DEF t

\* A transaction that is sent is not one that is on its way.
LEMMA NewTx ==
    ASSUME HeadOK, NEW head, NEW spends, NEW reads, NEW makes, NEW from, NEW upto,
           Send(head, spends, reads, makes, from, upto)
    PROVE  \E t : /\ t = Tx(sent + 1, head, spends, reads, makes, from, upto)
                  /\ pool' = pool \cup {t} /\ t \notin pool /\ UNCHANGED utxo
                  /\ t.head = head /\ t.spends = spends
<1> DEFINE t == Tx(sent + 1, head, spends, reads, makes, from, upto)
<1>1. t.id = sent + 1 /\ t.head = head /\ t.spends = spends
  BY DEF Tx
<1>2. pool' = pool \cup {t} /\ UNCHANGED utxo
  BY DEF Send
<1>3. \A u \in pool : u.id \in 1..sent
  BY DEF HeadOK
<1>4. sent \in Nat
  BY HeadAssumption DEF HeadOK
<1> HIDE DEF t
<1>5. t \notin pool
  BY <1>1, <1>3, <1>4
<1> QED BY <1>1, <1>2, <1>5 DEF t

\* What t is known to do keeps the payments when t is sent.
LEMMA PaymentsSend ==
    ASSUME SaleInv, UNCHANGED utxo, NEW t, t \notin pool, pool' = pool \cup {t}, Known(utxo, t),
           \A b \in Purchases : Submitted(buyer, b) => Submitted(buyer', b),
           \A b \in Purchases : Locks(t, b) => /\ NoPayment(utxo, b)
                                               /\ ~Submitted(buyer, b) /\ Submitted(buyer', b)
    PROVE  PaymentsInv(utxo', pool', buyer')
<1>1. /\ \A u \in pool : Known(utxo, u)
      /\ \A u, v \in pool : \A b \in Purchases : Locks(u, b) /\ Locks(v, b) => u = v
      /\ \A u \in pool : \A b \in Purchases : Locks(u, b) => NoPayment(utxo, b) /\ Submitted(buyer, b)
      /\ \A o \in utxo : OnSource(o) => o.for \in Purchases /\ Submitted(buyer, o.for)
      /\ OnePayment(utxo)
  BY DEF SaleInv, PaymentsInv
<1>2. \A u \in pool' : Known(utxo', u)
  BY <1>1
<1>3. ASSUME NEW u \in pool', NEW v \in pool', NEW b \in Purchases, Locks(u, b), Locks(v, b)
      PROVE  u = v
  BY <1>1, <1>3
<1>4. \A u \in pool' : \A b \in Purchases : Locks(u, b) => NoPayment(utxo', b) /\ Submitted(buyer', b)
  BY <1>1
<1>5. \A o \in utxo' : OnSource(o) => o.for \in Purchases /\ Submitted(buyer', o.for)
  BY <1>1
<1> QED BY <1>1, <1>2, <1>3, <1>4, <1>5 DEF PaymentsInv

\* A transaction on the source head is not heard on headB.
LEMMA SourceSend ==
    ASSUME SaleInv, UNCHANGED <<utxo, timeouts>>, NEW t, pool' = pool \cup {t}, t.head = "source",
           PaymentsInv(utxo', pool', buyer')
    PROVE  /\ \A k : Heard(utxo, pool, k) => Heard(utxo', pool', k)
           /\ (\A c \in Calls : Heard(utxo', pool', call'[c])) => SaleInv'
<1>1. AtHeadB(pool') = AtHeadB(pool)
  BY DEF AtHeadB
<1>2. \A k : Heard(utxo, pool, k) => Heard(utxo', pool', k)
  BY <1>1 DEF Heard
<1>3. (\A u, v \in AtHeadB(pool') : u = v) /\ timeouts' = 0
  BY <1>1 DEF SaleInv
<1> QED BY <1>2, <1>3 DEF SaleInv

LEMMA PrepareSale ==
    ASSUME IInv, SaleInv, NEW b \in Purchases, Prepare(b)
    PROVE  SaleInv' /\ SaleStep
<1>1. UNCHANGED <<utxo, pool, call, timeouts>> /\ buyer' = [buyer EXCEPT ![b].pc = "prepared", ![b].until = now + Timeout]
      /\ buyer[b].pc = "new"
  BY DEF Prepare, headVars
<1>2. \A a \in Purchases : Submitted(buyer, a) => Submitted(buyer', a)
  BY <1>1 DEF Submitted, IInv, CallsOK
<1>3. PaymentsInv(utxo', pool', buyer')
  BY <1>1, <1>2 DEF SaleInv, PaymentsInv
<1>4. SaleInv'
  BY <1>1, <1>3 DEF SaleInv
<1> QED BY <1>1, <1>4, SaleStutters

LEMMA SubmitSale ==
    ASSUME IInv, SaleInv, NEW b \in Purchases, SubmitSource(b)
    PROVE  SaleInv' /\ SaleStep
<1> DEFINE htlc == Out("source", "htlc", b, buyer[b].until)
<1>1. UNCHANGED <<utxo, call, timeouts>> /\ buyer' = [buyer EXCEPT ![b].pc = "waiting"]
      /\ buyer[b].pc = "prepared"
      /\ Send("source", {}, {}, {htlc}, 0, Always)
  BY DEF SubmitSource, Send
<1>2. htlc \in Output /\ htlc.head = "source" /\ htlc.kind = "htlc" /\ htlc.for = b
  BY OutIsOutput, SaleAssumption DEF Kinds, IInv, CallsOK, Buyer
<1> HIDE DEF htlc
<1>3. sent + 1 \in Nat
  BY HeadAssumption DEF IInv, HeadOK
<1>4. PICK t : /\ t = Tx(sent + 1, "source", {}, {}, {htlc}, 0, Always)
               /\ pool' = pool \cup {t} /\ t \notin pool /\ t.head = "source" /\ t.spends = {}
  BY <1>1, NewTx DEF IInv
<1>5. \E r : t.makes = {r} /\ r.head = "source" /\ r.kind = "htlc" /\ r.for = b
  BY <1>2, <1>3, <1>4, SentTx
<1>6. Locks(t, b) /\ \A a \in Purchases : Locks(t, a) => a = b
  BY <1>4, <1>5 DEF Locks, Making
<1>7. Submitted(buyer', b) /\ ~Submitted(buyer, b) /\ \A a \in Purchases : Submitted(buyer, a) => Submitted(buyer', a)
  BY <1>1 DEF Submitted, IInv, CallsOK
<1>8. NoPayment(utxo, b)
  BY <1>7 DEF NoPayment, SaleInv, PaymentsInv
<1>9. PaymentsInv(utxo', pool', buyer')
  <2>1. Known(utxo, t)
    BY <1>6 DEF Known
  <2> QED BY <1>1, <1>4, <1>6, <1>7, <1>8, <2>1, PaymentsSend
<1>10. \A c \in Calls : Heard(utxo', pool', call'[c])
  BY <1>1, <1>4, <1>9, SourceSend DEF SaleInv
<1>11. SaleInv'
  BY <1>1, <1>4, <1>9, <1>10, SourceSend
<1> QED BY <1>1, <1>11, SaleStutters

LEMMA RefundSale ==
    ASSUME IInv, SaleInv, NEW b \in Purchases, Refund(b)
    PROVE  SaleInv' /\ SaleStep
<1> DEFINE back == Out("source", "refund", b, 0)
<1>1. UNCHANGED <<utxo, call, timeouts>> /\ buyer' = [buyer EXCEPT ![b].refunding = TRUE]
  BY DEF Refund, Send
<1>2. PICK o \in Here("source", "htlc", b) : Send("source", {o}, {}, {back}, o.until + 1, Always)
  BY DEF Refund
<1>3. back \in Output /\ back.head = "source" /\ back.kind = "refund" /\ back.for = b
  BY OutIsOutput, SaleAssumption DEF Kinds
<1>4. o.head = "source" /\ o.kind = "htlc" /\ o.for = b
  BY DEF Here
<1> HIDE DEF back
<1>5. sent + 1 \in Nat
  BY HeadAssumption DEF IInv, HeadOK
<1>6. PICK t : /\ t = Tx(sent + 1, "source", {o}, {}, {back}, o.until + 1, Always)
               /\ pool' = pool \cup {t} /\ t \notin pool /\ t.head = "source" /\ t.spends = {o}
  BY <1>2, NewTx DEF IInv
<1>7. \E r : t.makes = {r} /\ r.head = "source" /\ r.kind = "refund" /\ r.for = b
  BY <1>3, <1>5, <1>6, SentTx
<1>8. Returns(t, b) /\ \A a \in Purchases : ~Locks(t, a)
  BY <1>4, <1>6, <1>7 DEF Returns, Locks, Spending, Making
<1>9. \A a \in Purchases : Submitted(buyer, a) => Submitted(buyer', a)
  BY <1>1 DEF Submitted, IInv, CallsOK
<1>10. PaymentsInv(utxo', pool', buyer')
  <2>1. Known(utxo, t)
    BY <1>8 DEF Known
  <2> QED BY <1>1, <1>6, <1>8, <1>9, <2>1, PaymentsSend
<1>11. \A c \in Calls : Heard(utxo', pool', call'[c])
  BY <1>1, <1>6, <1>10, SourceSend DEF SaleInv
<1>12. SaleInv'
  BY <1>1, <1>6, <1>10, <1>11, SourceSend
<1> QED BY <1>1, <1>12, SaleStutters

\* What the only call knows, and that its record has the fields of one.
LEMMA OwnSale ==
    ASSUME IInv, SaleInv, NEW c \in Calls
    PROVE  Heard(utxo, pool, call[c]) /\ call[c] \in Call
BY DEF SaleInv, IInv, CallsOK

\* The call reads, and goes on at home: it waits for nothing, and knows no more than before.
LEMMA CallReads ==
    ASSUME IInv, SaleInv, OneCall, UNCHANGED <<utxo, pool, buyer, timeouts>>,
           NEW c \in Calls, NEW k, call' = [call EXCEPT ![c] = k],
           call[c].pc \notin Waiting, k.pc \notin Waiting,
           k.pc = "idle" \/ k.b \in Purchases,
           k.pc \in {"findAgain", "claimSource", "return"} => Ticketed(utxo, k.b),
           k.pc = "claimSource" => k.found.for = k.b
    PROVE  SaleInv' /\ SaleStep
<1>1. Heard(utxo, pool, k)
  BY OwnSale DEF Heard, Waiting
<1> QED BY <1>1, CallMoves, SaleStutters

LEMMA StartSale ==
    ASSUME IInv, SaleInv, OneCall, NEW c \in Calls, NEW b \in Purchases, Start(c, b)
    PROVE  SaleInv' /\ SaleStep
<1> DEFINE k == [Quiet EXCEPT !.pc = "ensure", !.b = b]
<1>1. k.pc = "ensure" /\ k.b = b
  BY DEF Quiet
<1>2. call' = [call EXCEPT ![c] = k] /\ UNCHANGED <<utxo, pool, buyer, timeouts>> /\ call[c].pc = "idle"
  BY DEF Start, At, headVars
<1> HIDE DEF k
<1> QED BY <1>1, <1>2, CallReads DEF Waiting

LEMMA EnsureSale ==
    ASSUME IInv, SaleInv, OneCall, NEW c \in Calls, Ensure(c)
    PROVE  SaleInv' /\ SaleStep
<1>1. UNCHANGED <<utxo, pool, buyer, timeouts>> /\ call[c].pc = "ensure"
  BY DEF Ensure, At, headVars
<1>2. \E k : call' = [call EXCEPT ![c] = k] /\ k.pc \in {"findSource", "lock"} /\ k.b = call[c].b
  <2>1. CASE \E l \in Here("headB", "htlc", call[c].b) :
                call' = [call EXCEPT ![c].pc = "findSource", ![c].ref = l.tx]
    <3>1. PICK l \in Here("headB", "htlc", call[c].b) :
                call' = [call EXCEPT ![c].pc = "findSource", ![c].ref = l.tx]
      BY <2>1
    <3> DEFINE k == [call[c] EXCEPT !.pc = "findSource", !.ref = l.tx]
    <3>2. call' = [call EXCEPT ![c] = k] /\ k.pc = "findSource" /\ k.b = call[c].b
      BY <3>1, OwnSale DEF Call
    <3> HIDE DEF k
    <3> QED BY <3>2
  <2>2. CASE Goes(c, "lock")
    <3> DEFINE k == [call[c] EXCEPT !.pc = "lock"]
    <3>1. call' = [call EXCEPT ![c] = k] /\ k.pc = "lock" /\ k.b = call[c].b
      BY <2>2, OwnSale DEF Call, Goes
    <3> HIDE DEF k
    <3> QED BY <3>1
  <2> QED BY <2>1, <2>2 DEF Ensure
<1>3. call[c].b \in Purchases
  BY <1>1, OwnSale DEF Heard
<1> QED BY <1>1, <1>2, <1>3, CallReads DEF Waiting

LEMMA FindSourceSale ==
    ASSUME IInv, SaleInv, OneCall, NEW c \in Calls, FindSource(c)
    PROVE  SaleInv' /\ SaleStep
<1>1. UNCHANGED <<utxo, pool, buyer, timeouts>> /\ call[c].pc = "findSource"
  BY DEF FindSource, At, headVars
<1>2. \E k : call' = [call EXCEPT ![c] = k] /\ (k.pc = "idle" \/ (k.pc = "findLock" /\ k.b = call[c].b))
  <2> DEFINE k == [call[c] EXCEPT !.pc = "findLock"]
  <2>1. k.pc = "findLock" /\ k.b = call[c].b
    BY OwnSale DEF Call
  <2>2. call' = [call EXCEPT ![c] = k] \/ call' = [call EXCEPT ![c] = Quiet]
    BY DEF FindSource
  <2>3. Quiet.pc = "idle"
    BY DEF Quiet
  <2> HIDE DEF k
  <2> QED BY <2>1, <2>2, <2>3
<1>3. call[c].b \in Purchases
  BY <1>1, OwnSale DEF Heard
<1> QED BY <1>1, <1>2, <1>3, CallReads DEF Waiting

LEMMA FindLockSale ==
    ASSUME IInv, SaleInv, OneCall, NEW c \in Calls, FindLock(c)
    PROVE  SaleInv' /\ SaleStep
<1>1. UNCHANGED <<utxo, pool, buyer, timeouts>> /\ call[c].pc = "findLock"
  BY DEF FindLock, At, headVars
<1>2. \E k : call' = [call EXCEPT ![c] = k] /\ (k.pc = "idle" \/ (k.pc = "claimTarget" /\ k.b = call[c].b))
  <2>1. CASE \E o \in Here("headB", "htlc", call[c].b) :
                call' = [call EXCEPT ![c].pc = "claimTarget", ![c].found = o]
    <3>1. PICK o \in Here("headB", "htlc", call[c].b) :
                call' = [call EXCEPT ![c].pc = "claimTarget", ![c].found = o]
      BY <2>1
    <3> DEFINE k == [call[c] EXCEPT !.pc = "claimTarget", !.found = o]
    <3>2. call' = [call EXCEPT ![c] = k] /\ k.pc = "claimTarget" /\ k.b = call[c].b
      BY <3>1, OwnSale DEF Call
    <3> HIDE DEF k
    <3> QED BY <3>2
  <2>2. CASE call' = [call EXCEPT ![c] = Quiet]
    <3>1. Quiet.pc = "idle"
      BY DEF Quiet
    <3> QED BY <2>2, <3>1
  <2> QED BY <2>1, <2>2 DEF FindLock
<1>3. call[c].b \in Purchases
  BY <1>1, OwnSale DEF Heard
<1> QED BY <1>1, <1>2, <1>3, CallReads DEF Waiting

LEMMA FindAgainSale ==
    ASSUME IInv, SaleInv, OneCall, NEW c \in Calls, FindAgain(c)
    PROVE  SaleInv' /\ SaleStep
<1>1. UNCHANGED <<utxo, pool, buyer, timeouts>> /\ call[c].pc = "findAgain"
  BY DEF FindAgain, At, headVars
<1>2. \E k : /\ call' = [call EXCEPT ![c] = k] /\ k.b = call[c].b
             /\ k.pc = "return" \/ (k.pc = "claimSource" /\ k.found.for = call[c].b)
  <2>1. CASE \E o \in Here("source", "htlc", call[c].b) :
                call' = [call EXCEPT ![c].pc = "claimSource", ![c].found = o]
    <3>1. PICK o \in Here("source", "htlc", call[c].b) :
                call' = [call EXCEPT ![c].pc = "claimSource", ![c].found = o]
      BY <2>1
    <3> DEFINE k == [call[c] EXCEPT !.pc = "claimSource", !.found = o]
    <3>2. call' = [call EXCEPT ![c] = k] /\ k.pc = "claimSource" /\ k.b = call[c].b /\ k.found = o
      BY <3>1, OwnSale DEF Call
    <3>3. o.for = call[c].b
      BY DEF Here
    <3> HIDE DEF k
    <3> QED BY <3>2, <3>3
  <2>2. CASE Goes(c, "return")
    <3> DEFINE k == [call[c] EXCEPT !.pc = "return"]
    <3>1. call' = [call EXCEPT ![c] = k] /\ k.pc = "return" /\ k.b = call[c].b
      BY <2>2, OwnSale DEF Call, Goes
    <3> HIDE DEF k
    <3> QED BY <3>1
  <2> QED BY <2>1, <2>2 DEF FindAgain
<1>3. call[c].b \in Purchases /\ Ticketed(utxo, call[c].b)
  BY <1>1, OwnSale DEF Heard
<1> QED BY <1>1, <1>2, <1>3, CallReads DEF Waiting

LEMMA EndSale ==
    ASSUME IInv, SaleInv, OneCall, NEW c \in Calls, Return(c) \/ Fail(c)
    PROVE  SaleInv' /\ SaleStep
<1>1. /\ UNCHANGED <<utxo, pool, buyer, timeouts>> /\ call' = [call EXCEPT ![c] = Quiet]
      /\ call[c].pc \notin Waiting
  BY DEF Return, Fail, Ends, At, headVars, Waiting
<1>2. Quiet.pc = "idle"
  BY DEF Quiet
<1> QED BY <1>1, <1>2, CallReads DEF Waiting

\* Nobody gives up.
LEMMA NobodyGivesUp ==
    ASSUME SaleInv, OneCall
    PROVE  (\A b : ~Abandon(b)) /\ \A c : ~GiveUp(c)
BY DEF SaleInv, OneCall, Abandon, GiveUp

\* The only call sends its transaction to headB, and waits for it alone.
LEMMA HeadBSend ==
    ASSUME SaleInv, IInv, OneCall, UNCHANGED <<utxo, buyer, timeouts>>,
           NEW t, t \notin pool, pool' = pool \cup {t}, t.head = "headB", Known(utxo, t),
           NEW c \in Calls, call[c].pc \notin Waiting,
           NEW k, call' = [call EXCEPT ![c] = k], k.b \in Purchases,
           k.pc = "awaitLock" \/ (k.pc = "awaitTarget" /\ Delivers(t, k.b))
    PROVE  SaleInv' /\ SaleStep
<1>1. AtHeadB(pool) = {}
  BY OwnSale DEF Heard, Waiting
<1>2. AtHeadB(pool') = {t}
  BY <1>1 DEF AtHeadB
<1>3. Heard(utxo', pool', k)
  BY <1>2 DEF Heard
<1>4. \A d \in Calls : call'[d] = k
  BY DEF OneCall, IInv, CallsOK
<1>5. \A b \in Purchases : ~Locks(t, b)
  BY DEF Locks
<1>6. PaymentsInv(utxo', pool', buyer')
  BY <1>5, PaymentsSend
<1>7. \A u, v \in AtHeadB(pool') : u = v
  BY <1>2
<1>8. timeouts' = 0
  BY DEF SaleInv
<1>9. SaleInv'
  BY <1>3, <1>4, <1>6, <1>7, <1>8 DEF SaleInv
<1> QED BY <1>9, SaleStutters

LEMMA SendLockSale ==
    ASSUME IInv, SaleInv, OneCall, NEW c \in Calls, SendLock(c)
    PROVE  SaleInv' /\ SaleStep
<1> DEFINE lock == Out("headB", "htlc", call[c].b, now + Timeout)
           k == [call[c] EXCEPT !.pc = "awaitLock", !.ref = sent + 1]
<1>1. /\ UNCHANGED <<utxo, buyer, timeouts>> /\ call[c].pc = "lock" /\ call' = [call EXCEPT ![c] = k]
      /\ Send("headB", {Wallet}, {}, {Coin, lock}, 0, Always)
  BY DEF SendLock, Send, At
<1>2. call[c].b \in Purchases
  BY <1>1, OwnSale DEF Heard
<1>3. k.pc = "awaitLock" /\ k.b = call[c].b
  BY OwnSale DEF Call
<1>4. lock \in Output /\ lock.head = "headB" /\ lock.kind = "htlc"
  <2>1. now + Timeout \in Int
    BY SaleAssumption, HeadAssumption DEF IInv, HeadOK
  <2> QED BY <1>2, <2>1, OutIsOutput, SaleAssumption DEF Kinds
<1>5. Coin \in Output /\ Coin.head = "headB" /\ Coin.kind = "coin"
  BY OutIsOutput, SaleAssumption DEF Coin, Kinds
<1> HIDE DEF lock, k
<1>6. PICK t : /\ t = Tx(sent + 1, "headB", {Wallet}, {}, {Coin, lock}, 0, Always)
               /\ pool' = pool \cup {t} /\ t \notin pool /\ t.head = "headB" /\ t.spends = {Wallet}
  BY <1>1, NewTx DEF IInv
<1>7. t.makes = {[o EXCEPT !.tx = sent + 1] : o \in {Coin, lock}}
  BY <1>6 DEF Tx
<1>8. Covers(t)
  <2>1. Wallet.kind = "coin"
    BY WalletIsACoin DEF IInv
  <2>2. sent + 1 \in Nat
    BY HeadAssumption DEF IInv, HeadOK
  <2>3. ASSUME NEW r \in t.makes PROVE r.head = "headB" /\ r.kind \in {"coin", "htlc"}
    <3>1. PICK o \in {Coin, lock} : r = [o EXCEPT !.tx = sent + 1]
      BY <1>7
    <3>2. r.head = o.head /\ r.kind = o.kind
      BY <1>4, <1>5, <2>2, <3>1, Renamed
    <3> QED BY <1>4, <1>5, <3>1, <3>2
  <2> QED BY <1>6, <2>1, <2>3 DEF Covers
<1>9. Known(utxo, t)
  BY <1>8 DEF Known
<1>10. call[c].pc \notin Waiting
  BY <1>1 DEF Waiting
<1> QED BY <1>1, <1>2, <1>3, <1>6, <1>9, <1>10, HeadBSend

LEMMA ClaimTargetSale ==
    ASSUME IInv, SaleInv, OneCall, NEW c \in Calls, ClaimTarget(c)
    PROVE  SaleInv' /\ SaleStep
<1> DEFINE o == call[c].found
           ticket == Out(o.head, "ticket", o.for, 0)
           k == [call[c] EXCEPT !.pc = "awaitTarget"]
<1>1. /\ UNCHANGED <<utxo, buyer, timeouts>> /\ call[c].pc = "claimTarget" /\ call' = [call EXCEPT ![c] = k]
      /\ Send(o.head, {o}, {Wallet}, {ticket}, 0, o.until - ClaimOffset)
  BY DEF ClaimTarget, Claim, Goes, Send, At
<1>2. call[c].b \in Purchases
  BY <1>1, OwnSale DEF Heard
<1>3. k.pc = "awaitTarget" /\ k.b = call[c].b
  BY OwnSale DEF Call
<1>4. o.head = "headB" /\ o.kind = "htlc" /\ o.for = call[c].b
  BY <1>1, Own DEF Informed
<1>5. ticket \in Output /\ ticket.head = "headB" /\ ticket.kind = "ticket" /\ ticket.for = call[c].b
  BY <1>2, <1>4, OutIsOutput, SaleAssumption DEF Kinds
<1> HIDE DEF o, ticket, k
<1>6. PICK t : /\ t = Tx(sent + 1, "headB", {o}, {Wallet}, {ticket}, 0, o.until - ClaimOffset)
               /\ pool' = pool \cup {t} /\ t \notin pool /\ t.head = "headB" /\ t.spends = {o}
  BY <1>1, <1>4, NewTx DEF IInv
<1>7. sent + 1 \in Nat
  BY HeadAssumption DEF IInv, HeadOK
<1>8. \E r : t.makes = {r} /\ r.head = "headB" /\ r.kind = "ticket" /\ r.for = call[c].b
  BY <1>5, <1>6, <1>7, SentTx
<1>9. Delivers(t, call[c].b)
  BY <1>4, <1>6, <1>8 DEF Delivers, Spending, Making
<1>10. Known(utxo, t)
  BY <1>2, <1>9 DEF Known
<1>11. call[c].pc \notin Waiting
  BY <1>1 DEF Waiting
<1> QED BY <1>1, <1>2, <1>3, <1>6, <1>9, <1>10, <1>11, HeadBSend

LEMMA ClaimSourceSale ==
    ASSUME IInv, SaleInv, OneCall, NEW c \in Calls, ClaimSource(c)
    PROVE  SaleInv' /\ SaleStep
<1> DEFINE o == call[c].found
           paid == Out(o.head, "paid", o.for, 0)
           k == [call[c] EXCEPT !.pc = "awaitSource"]
<1>1. /\ UNCHANGED <<utxo, buyer, timeouts>> /\ call[c].pc = "claimSource" /\ call' = [call EXCEPT ![c] = k]
      /\ Send(o.head, {o}, {}, {paid}, 0, o.until - ClaimOffset)
  BY DEF ClaimSource, Claim, Goes, Send, At
<1>2. call[c].b \in Purchases /\ Ticketed(utxo, call[c].b) /\ o.for = call[c].b
  BY <1>1, OwnSale DEF Heard
<1>3. k.pc = "awaitSource" /\ k.b = call[c].b
  BY OwnSale DEF Call
<1>4. o.head = "source" /\ o.kind = "htlc"
  BY <1>1, Own DEF Informed
<1>5. paid \in Output /\ paid.head = "source" /\ paid.kind = "paid" /\ paid.for = call[c].b
  BY <1>2, <1>4, OutIsOutput, SaleAssumption DEF Kinds
<1> HIDE DEF o, paid, k
<1>6. PICK t : /\ t = Tx(sent + 1, "source", {o}, {}, {paid}, 0, o.until - ClaimOffset)
               /\ pool' = pool \cup {t} /\ t \notin pool /\ t.head = "source" /\ t.spends = {o}
  BY <1>1, <1>4, NewTx DEF IInv
<1>7. sent + 1 \in Nat
  BY HeadAssumption DEF IInv, HeadOK
<1>8. \E r : t.makes = {r} /\ r.head = "source" /\ r.kind = "paid" /\ r.for = call[c].b
  BY <1>5, <1>6, <1>7, SentTx
<1>9. Pays(utxo, t, call[c].b)
  BY <1>2, <1>4, <1>6, <1>8 DEF Pays, Spending, Making
<1>10. Known(utxo, t) /\ \A b \in Purchases : ~Locks(t, b)
  BY <1>2, <1>6, <1>9 DEF Known, Locks
<1>11. PaymentsInv(utxo', pool', buyer')
  BY <1>1, <1>6, <1>10, PaymentsSend
<1>12. Heard(utxo, pool, k)
  BY <1>1, <1>2, <1>3, OwnSale DEF Heard
<1>13. Heard(utxo', pool', k)
  BY <1>1, <1>6, <1>11, <1>12, SourceSend
<1>14. \A d \in Calls : call'[d] = k
  BY <1>1 DEF OneCall, IInv, CallsOK
<1>15. SaleInv'
  BY <1>1, <1>6, <1>11, <1>13, <1>14, SourceSend
<1> QED BY <1>1, <1>15, SaleStutters

-----------------------------------------------------------------------------
(* The payment and the ticket of a purchase *)

InHead(outputs, head, kind, b) == \E o \in outputs : o.head = head /\ o.kind = kind /\ o.for = b

PaymentIn(outputs, b) ==
    CASE InHead(outputs, "source", "paid", b) -> "paid"
      [] InHead(outputs, "source", "refund", b) -> "returned"
      [] InHead(outputs, "source", "htlc", b) -> "locked"
      [] OTHER -> "none"

LEMMA ReadOff ==
    /\ \A b : Payment(b) = PaymentIn(utxo, b) /\ Payment(b)' = PaymentIn(utxo', b)
    /\ \A b : Has("headB", "ticket", b) <=> Ticketed(utxo, b)
    /\ \A b : Has("headB", "ticket", b)' <=> Ticketed(utxo', b)
BY DEF Payment, PaymentIn, Has, InHead, Ticketed

\* The one output of a purchase on the source head says what became of the payment.
LEMMA PaymentIs ==
    ASSUME NEW outputs, OnePayment(outputs), NEW b
    PROVE  /\ NoPayment(outputs, b) => PaymentIn(outputs, b) = "none"
           /\ \A o \in outputs : OnSource(o) /\ o.for = b =>
                 /\ o.kind = "htlc" => PaymentIn(outputs, b) = "locked"
                 /\ o.kind = "paid" => PaymentIn(outputs, b) = "paid"
                 /\ o.kind = "refund" => PaymentIn(outputs, b) = "returned"
<1>1. NoPayment(outputs, b) => PaymentIn(outputs, b) = "none"
  BY DEF NoPayment, PaymentIn, InHead, OnSource
<1>2. ASSUME NEW o \in outputs, OnSource(o), o.for = b
      PROVE  \A kind : InHead(outputs, "source", kind, b) <=> o.kind = kind
  BY <1>2 DEF OnePayment, InHead, OnSource
<1>3. ASSUME NEW o \in outputs, OnSource(o), o.for = b
      PROVE  /\ o.kind = "htlc" => PaymentIn(outputs, b) = "locked"
             /\ o.kind = "paid" => PaymentIn(outputs, b) = "paid"
             /\ o.kind = "refund" => PaymentIn(outputs, b) = "returned"
  BY <1>2, <1>3 DEF PaymentIn
<1> QED BY <1>1, <1>3

\* Nothing of a purchase on the source head changes, and so neither does its payment.
LEMMA PaymentStays ==
    ASSUME NEW outputs, NEW new, NEW b,
           \A o : OnSource(o) /\ o.for = b => (o \in outputs <=> o \in new)
    PROVE  PaymentIn(new, b) = PaymentIn(outputs, b)
<1>1. \A kind : InHead(new, "source", kind, b) <=> InHead(outputs, "source", kind, b)
  BY DEF InHead, OnSource
<1> QED BY <1>1 DEF PaymentIn

\* One payment turns.
LEMMA SaleTurns ==
    ASSUME NEW b \in Purchases, NEW from, NEW to,
           PaymentIn(utxo, b) = from, PaymentIn(utxo', b) = to,
           \A a \in Purchases : a # b => PaymentIn(utxo', a) = PaymentIn(utxo, a),
           \A a \in Purchases : Ticketed(utxo', a) <=> Ticketed(utxo, a)
    PROVE  Sale!Turn(b, from, to)
<1> DEFINE was == [a \in Purchases |-> Payment(a)]
           is == [a \in Purchases |-> Payment(a)']
<1>1. was[b] = from
  BY ReadOff
<1>2. is = [was EXCEPT ![b] = to]
  BY ReadOff
<1>3. [a \in Purchases |-> Has("headB", "ticket", a)'] = [a \in Purchases |-> Has("headB", "ticket", a)]
  <2>1. \A a \in Purchases : Has("headB", "ticket", a)' = Has("headB", "ticket", a)
    BY ReadOff DEF Has
  <2> QED BY <2>1
<1> QED BY <1>1, <1>2, <1>3 DEF Sale!Turn

\* One ticket is delivered.
LEMMA SaleDelivers ==
    ASSUME NEW b \in Purchases, PaymentIn(utxo, b) # "none", Ticketed(utxo', b),
           \A a \in Purchases : a # b => (Ticketed(utxo', a) <=> Ticketed(utxo, a)),
           \A a \in Purchases : PaymentIn(utxo', a) = PaymentIn(utxo, a)
    PROVE  Sale!Deliver(b)
<1> DEFINE was == [a \in Purchases |-> Has("headB", "ticket", a)]
           is == [a \in Purchases |-> Has("headB", "ticket", a)']
<1>1. [a \in Purchases |-> Payment(a)][b] # "none"
  BY ReadOff
<1>2. is = [was EXCEPT ![b] = TRUE]
  <2>1. \A a \in Purchases : a # b => Has("headB", "ticket", a)' = Has("headB", "ticket", a)
    BY ReadOff DEF Has
  <2>2. Has("headB", "ticket", b)' = TRUE
    BY ReadOff DEF Has
  <2> QED BY <2>1, <2>2
<1>3. [a \in Purchases |-> Payment(a)'] = [a \in Purchases |-> Payment(a)]
  BY ReadOff
<1> QED BY <1>1, <1>2, <1>3 DEF Sale!Deliver

-----------------------------------------------------------------------------
(* Answers to the only call *)

\* No transaction spends a ticket.
LEMMA TicketsStay ==
    ASSUME NEW outputs, NEW t, Known(outputs, t)
    PROVE  \A o \in t.spends : o.kind # "ticket"
BY DEF Known, Covers, Locks, Returns, Pays, Delivers, Spending

LEMMA KnownLasts ==
    ASSUME NEW outputs, NEW new, NEW t, Known(outputs, t),
           \A b : Ticketed(outputs, b) => Ticketed(new, b)
    PROVE  Known(new, t)
BY DEF Known, Pays

\* What the only call hears of t is about what it sent to headB.
LEMMA HearSale ==
    ASSUME SaleInv, NEW t \in pool, NEW k \in Call, Heard(utxo, pool, k), NEW new, NEW valid \in BOOLEAN,
           \A b : Ticketed(utxo, b) => Ticketed(new, b),
           valid => \A b : Delivers(t, b) => Ticketed(new, b)
    PROVE  Heard(new, pool \ {t}, Hear(k, t.head, valid))
<1> DEFINE h == Hear(k, t.head, valid)
<1>1. AtHeadB(pool \ {t}) \subseteq AtHeadB(pool)
  BY DEF AtHeadB
<1>2. t.head = "headB" => AtHeadB(pool \ {t}) = {}
  BY DEF SaleInv, AtHeadB
<1>3. ASSUME NEW j, j.pc = "idle" PROVE Heard(new, pool \ {t}, j) <=> AtHeadB(pool \ {t}) = {}
  BY <1>3 DEF Heard
<1>4. CASE ~(k.pc \in Waiting /\ AwaitedHead(k.pc) = t.head)
  <2>1. h = k
    BY <1>4 DEF Hear
  <2>2. Heard(new, pool \ {t}, k)
    BY <1>1 DEF Heard
  <2> QED BY <2>1, <2>2
<1>5. CASE k.pc \in Waiting /\ AwaitedHead(k.pc) = t.head /\ ~valid
  <2>1. h = Quiet /\ Quiet.pc = "idle"
    BY <1>5 DEF Hear, Quiet
  <2>2. AtHeadB(pool \ {t}) = {}
    <3>1. CASE k.pc = "awaitSource"
      BY <1>1, <3>1 DEF Heard
    <3>2. CASE k.pc # "awaitSource"
      BY <1>2, <1>5, <3>2 DEF AwaitedHead
    <3> QED BY <3>1, <3>2
  <2> QED BY <1>3, <2>1, <2>2
<1>6. CASE k.pc \in Waiting /\ AwaitedHead(k.pc) = t.head /\ valid
  <2> DEFINE j == [k EXCEPT !.pc = AfterValid(k.pc)]
  <2>1. h = j
    BY <1>6 DEF Hear
  <2>2. j.pc = AfterValid(k.pc) /\ j.b = k.b
    BY DEF Call
  <2> HIDE DEF j
  <2>3. CASE k.pc = "awaitLock"
    <3>1. AtHeadB(pool \ {t}) = {} /\ j.pc = "findSource" /\ k.b \in Purchases
      BY <1>2, <1>6, <2>2, <2>3 DEF AwaitedHead, AfterValid, Heard
    <3> QED BY <2>1, <2>2, <3>1 DEF Heard
  <2>4. CASE k.pc = "awaitTarget"
    <3>1. AtHeadB(pool \ {t}) = {} /\ j.pc = "findAgain" /\ t.head = "headB"
      BY <1>2, <1>6, <2>2, <2>4 DEF AwaitedHead, AfterValid
    <3>2. k.b \in Purchases /\ Delivers(t, k.b)
      BY <2>4, <3>1 DEF Heard, AtHeadB
    <3>3. Ticketed(new, j.b)
      BY <1>6, <2>2, <3>2
    <3> QED BY <2>1, <2>2, <3>1, <3>2, <3>3 DEF Heard
  <2>5. CASE k.pc = "awaitSource"
    <3>1. AtHeadB(pool \ {t}) = {} /\ j.pc = "return" /\ k.b \in Purchases /\ Ticketed(new, k.b)
      BY <1>1, <2>2, <2>5 DEF AfterValid, Heard
    <3> QED BY <2>1, <2>2, <3>1 DEF Heard
  <2> QED BY <1>6, <2>3, <2>4, <2>5 DEF Waiting
<1> QED BY <1>4, <1>5, <1>6

\* A decision that keeps payments and tickets keeps the invariant.
LEMMA AnswerKeepsSale ==
    ASSUME IInv, SaleInv, OneCall, NEW t \in pool, Answer(t),
           \A b : Ticketed(utxo, b) => Ticketed(utxo', b),
           Valid(t) => \A b : Delivers(t, b) => Ticketed(utxo', b),
           \A a \in Purchases : Submitted(buyer, a) => Submitted(buyer', a),
           OnePayment(utxo'),
           \A o \in utxo' : OnSource(o) => o.for \in Purchases /\ Submitted(buyer', o.for),
           \A u \in pool \ {t} : \A b \in Purchases : Locks(u, b) => NoPayment(utxo', b)
    PROVE  SaleInv'
<1>1. pool' = pool \ {t} /\ call' = [c \in Calls |-> Hear(call[c], t.head, Valid(t))] /\ UNCHANGED timeouts
  BY DEF Answer, Decide
<1>2. /\ \A u \in pool : Known(utxo, u)
      /\ \A u, v \in pool : \A b \in Purchases : Locks(u, b) /\ Locks(v, b) => u = v
      /\ \A u \in pool : \A b \in Purchases : Locks(u, b) => Submitted(buyer, b)
  BY DEF SaleInv, PaymentsInv
<1>3. \A u \in pool' : Known(utxo', u)
  BY <1>1, <1>2, KnownLasts
<1>4. PaymentsInv(utxo', pool', buyer')
  BY <1>1, <1>2, <1>3 DEF PaymentsInv
<1>5. ASSUME NEW c \in Calls PROVE Heard(utxo', pool', call'[c])
  <2>1. Valid(t) \in BOOLEAN
    BY DEF Valid
  <2>2. call[c] \in Call /\ Heard(utxo, pool, call[c])
    BY OwnSale
  <2> QED BY <1>1, <2>1, <2>2, HearSale
<1>6. (\A u, v \in AtHeadB(pool') : u = v) /\ timeouts' = 0
  BY <1>1 DEF SaleInv, AtHeadB
<1> QED BY <1>4, <1>5, <1>6 DEF SaleInv

\* A submission that is accepted is the only output of its purchase on the source head, and
\* so is what a refund or a claim replaces it by.
LEMMA SourceTurns ==
    ASSUME IInv, SaleInv, NEW t \in pool, Decide(t), Valid(t), NEW b \in Purchases, NEW kind,
           t.head = "source", kind # "ticket", Making(t, kind, b),
           Locks(t, b) \/ Spending(t, "htlc", b)
    PROVE  /\ OnePayment(utxo')
           /\ \E m \in utxo' : OnSource(m) /\ m.for = b /\ m.kind = kind
           /\ IF Locks(t, b) THEN NoPayment(utxo, b)
                             ELSE \E o \in utxo : OnSource(o) /\ o.for = b /\ o.kind = "htlc"
           /\ \A o : OnSource(o) /\ o.for # b => (o \in utxo <=> o \in utxo')
           /\ \A a : Ticketed(utxo', a) <=> Ticketed(utxo, a)
           /\ \A u \in pool \ {t} : ~Locks(u, b)
<1>1. utxo' = (utxo \ t.spends) \cup t.makes /\ t.spends \subseteq utxo
  BY DEF Decide, Valid
<1>2. PICK m : t.makes = {m} /\ m.head = "source" /\ m.kind = kind /\ m.for = b
  BY DEF Making
<1>3. \A o \in t.spends : o.head = "source" /\ o.for = b
  BY DEF Locks, Spending
<1>4. OnePayment(utxo) /\ \A u \in pool : \A a \in Purchases : Locks(u, a) => NoPayment(utxo, a)
  BY DEF SaleInv, PaymentsInv
<1>5. \A u \in pool : Locks(u, b) /\ Locks(t, b) => u = t
  BY DEF SaleInv, PaymentsInv
<1>6. CASE Locks(t, b)
  <2>1. NoPayment(utxo, b) /\ utxo' = utxo \cup {m}
    BY <1>1, <1>2, <1>4, <1>6 DEF Locks
  <2>2. OnePayment(utxo')
    BY <1>2, <1>4, <2>1 DEF OnePayment, NoPayment, OnSource
  <2>3. \A o : OnSource(o) /\ o.for # b => (o \in utxo <=> o \in utxo')
    BY <1>2, <2>1
  <2>4. \A a : Ticketed(utxo', a) <=> Ticketed(utxo, a)
    BY <1>2, <2>1 DEF Ticketed
  <2>5. m \in utxo' /\ OnSource(m)
    BY <1>2, <2>1 DEF OnSource
  <2> QED BY <1>2, <1>5, <1>6, <2>1, <2>2, <2>3, <2>4, <2>5
<1>7. CASE ~Locks(t, b)
  <2>1. PICK o : o \in t.spends /\ o \in utxo /\ o.head = "source" /\ o.kind = "htlc" /\ o.for = b
    BY <1>1, <1>7 DEF Spending
  <2>2. utxo' = (utxo \ {o}) \cup {m}
    BY <1>1, <1>2, <1>3, <1>4, <2>1 DEF OnePayment, OnSource
  <2>3. OnePayment(utxo')
    BY <1>2, <1>4, <2>1, <2>2 DEF OnePayment, OnSource
  <2>4. \A x : OnSource(x) /\ x.for # b => (x \in utxo <=> x \in utxo')
    BY <1>2, <2>1, <2>2
  <2>5. \A a : Ticketed(utxo', a) <=> Ticketed(utxo, a)
    BY <1>2, <2>1, <2>2 DEF Ticketed
  <2>6. m \in utxo' /\ OnSource(m) /\ OnSource(o)
    BY <1>2, <2>1, <2>2 DEF OnSource
  <2>7. \A u \in pool : ~Locks(u, b)
    BY <1>4, <2>1 DEF NoPayment, OnSource
  <2> QED BY <1>2, <1>7, <2>1, <2>3, <2>4, <2>5, <2>6, <2>7
<1> QED BY <1>6, <1>7

\* A transaction of headB changes no payment.
LEMMA HeadBTurns ==
    ASSUME IInv, SaleInv, NEW t \in pool, Decide(t), Valid(t),
           Covers(t) \/ \E b \in Purchases : Delivers(t, b)
    PROVE  /\ OnePayment(utxo')
           /\ \A o : OnSource(o) => (o \in utxo <=> o \in utxo')
           /\ \A b : Ticketed(utxo, b) => Ticketed(utxo', b)
           /\ Covers(t) => \A b : Ticketed(utxo', b) <=> Ticketed(utxo, b)
           /\ \A b : Delivers(t, b) => /\ Ticketed(utxo', b) /\ Funded(b)
                                       /\ \A a : a # b => (Ticketed(utxo', a) <=> Ticketed(utxo, a))
<1>1. utxo' = (utxo \ t.spends) \cup t.makes /\ t.spends \subseteq utxo
  BY DEF Decide, Valid
<1>2. \A o \in t.spends : ~OnSource(o) /\ o.kind # "ticket"
  BY <1>1 DEF Covers, Delivers, Spending, OnSource, IInv, HeadOK, SourceKinds
<1>3. \A o \in t.makes : ~OnSource(o)
  BY DEF Covers, Delivers, Making, OnSource
<1>4. \A o : OnSource(o) => (o \in utxo <=> o \in utxo')
  BY <1>1, <1>2, <1>3
<1>5. OnePayment(utxo')
  BY <1>4 DEF OnePayment, SaleInv, PaymentsInv
<1>6. \A b : Ticketed(utxo, b) => Ticketed(utxo', b)
  BY <1>1, <1>2 DEF Ticketed
<1>7. Covers(t) => \A b : Ticketed(utxo', b) => Ticketed(utxo, b)
  BY <1>1 DEF Ticketed, Covers
<1>8. ASSUME NEW b, Delivers(t, b)
      PROVE  Ticketed(utxo', b) /\ Funded(b) /\ \A a : a # b => (Ticketed(utxo', a) => Ticketed(utxo, a))
  <2>1. PICK m : t.makes = {m} /\ m.head = "headB" /\ m.kind = "ticket" /\ m.for = b
    BY <1>8 DEF Delivers, Making
  <2>2. Ticketed(utxo', b)
    BY <1>1, <2>1 DEF Ticketed
  <2>3. Funded(b)
    BY <2>1 DEF IInv, HeadOK, Harmless
  <2>4. \A a : a # b => (Ticketed(utxo', a) => Ticketed(utxo, a))
    BY <1>1, <2>1 DEF Ticketed
  <2> QED BY <2>2, <2>3, <2>4
<1> QED BY <1>4, <1>5, <1>6, <1>7, <1>8

LEMMA SubmittedLasts ==
    ASSUME IInv, NEW t \in pool, Answer(t)
    PROVE  \A a \in Purchases : Submitted(buyer, a) => Submitted(buyer', a)
<1>1. ASSUME NEW a \in Purchases, Submitted(buyer, a) PROVE Submitted(buyer', a)
  <2>1. buyer[a] \in Buyer
    BY DEF IInv, CallsOK
  <2>2. CASE buyer[a].pc = "waiting" /\ t.head = "source"
    <3>1. buyer'[a] = [buyer[a] EXCEPT !.pc = IF Valid(t) THEN "recorded" ELSE "refused"]
      BY <2>2 DEF Answer
    <3>2. buyer'[a].pc \in {"recorded", "refused"}
      BY <2>1, <3>1 DEF Buyer
    <3> QED BY <3>2 DEF Submitted
  <2>3. CASE ~(buyer[a].pc = "waiting" /\ t.head = "source")
    <3>1. buyer'[a] = buyer[a]
      BY <2>3 DEF Answer
    <3> QED BY <1>1, <3>1 DEF Submitted
  <2> QED BY <2>2, <2>3
<1> QED BY <1>1

\* A payment is locked, taken or returned.
LEMMA PaymentAnswer ==
    ASSUME IInv, SaleInv, OneCall, NEW t \in pool, Answer(t), Valid(t), NEW b \in Purchases,
           Locks(t, b) \/ Returns(t, b) \/ Pays(utxo, t, b)
    PROVE  SaleInv' /\ SaleStep
<1>1. PICK kind : /\ kind \in {"htlc", "refund", "paid"} /\ Making(t, kind, b) /\ t.head = "source"
                  /\ (kind = "htlc" /\ Locks(t, b)) \/ (kind # "htlc" /\ ~Locks(t, b) /\ Spending(t, "htlc", b))
                  /\ kind = "paid" => Ticketed(utxo, b)
  <2>1. CASE Locks(t, b)
    BY <2>1 DEF Locks
  <2>2. CASE Returns(t, b)
    BY <2>2 DEF Returns, Locks, Spending
  <2>3. CASE Pays(utxo, t, b)
    BY <2>3 DEF Pays, Locks, Spending
  <2> QED BY <2>1, <2>2, <2>3
<1>2. Decide(t)
  BY DEF Answer
<1>3. /\ OnePayment(utxo')
      /\ \E m \in utxo' : OnSource(m) /\ m.for = b /\ m.kind = kind
      /\ IF Locks(t, b) THEN NoPayment(utxo, b)
                        ELSE \E o \in utxo : OnSource(o) /\ o.for = b /\ o.kind = "htlc"
      /\ \A o : OnSource(o) /\ o.for # b => (o \in utxo <=> o \in utxo')
      /\ \A a : Ticketed(utxo', a) <=> Ticketed(utxo, a)
      /\ \A u \in pool \ {t} : ~Locks(u, b)
  BY <1>1, <1>2, SourceTurns
<1>4. /\ OnePayment(utxo)
      /\ \A o \in utxo : OnSource(o) => o.for \in Purchases /\ Submitted(buyer, o.for)
      /\ \A u \in pool : \A a \in Purchases : Locks(u, a) => NoPayment(utxo, a) /\ Submitted(buyer, a)
  BY DEF SaleInv, PaymentsInv
<1>5. PaymentIn(utxo, b) = IF kind = "htlc" THEN "none" ELSE "locked"
  BY <1>1, <1>3, <1>4, PaymentIs
<1>6. PaymentIn(utxo', b) = IF kind = "htlc" THEN "locked" ELSE IF kind = "paid" THEN "paid" ELSE "returned"
  BY <1>1, <1>3, PaymentIs
<1>7. \A a \in Purchases : a # b => PaymentIn(utxo', a) = PaymentIn(utxo, a)
  BY <1>3, PaymentStays
<1>8. SaleStep
  <2>1. CASE kind = "htlc"
    <3>1. Sale!Turn(b, "none", "locked")
      BY <1>3, <1>5, <1>6, <1>7, <2>1, SaleTurns
    <3> QED BY <3>1 DEF SaleStep, Sale!Next, Sale!Lock
  <2>2. CASE kind = "refund"
    <3>1. Sale!Turn(b, "locked", "returned")
      BY <1>3, <1>5, <1>6, <1>7, <2>2, SaleTurns
    <3> QED BY <3>1 DEF SaleStep, Sale!Next, Sale!Return
  <2>3. CASE kind = "paid"
    <3>1. Sale!Turn(b, "locked", "paid")
      BY <1>3, <1>5, <1>6, <1>7, <2>3, SaleTurns
    <3>2. [a \in Purchases |-> Has("headB", "ticket", a)][b]
      BY <1>1, <2>3, ReadOff
    <3> QED BY <3>1, <3>2 DEF SaleStep, Sale!Next, Sale!Pay
  <2> QED BY <1>1, <2>1, <2>2, <2>3
<1>9. \A a \in Purchases : Submitted(buyer, a) => Submitted(buyer', a)
  BY SubmittedLasts
<1>10. \A o \in utxo' : OnSource(o) => o.for \in Purchases /\ Submitted(buyer', o.for)
  <2>1. Submitted(buyer, b)
    BY <1>3, <1>4
  <2> QED BY <1>3, <1>4, <1>9, <2>1
<1>11. \A u \in pool \ {t} : \A a \in Purchases : Locks(u, a) => NoPayment(utxo', a)
  BY <1>3, <1>4 DEF NoPayment
<1>12. \A a : ~Delivers(t, a)
  BY <1>1 DEF Delivers
<1>13. SaleInv'
  BY <1>3, <1>9, <1>10, <1>11, <1>12, AnswerKeepsSale
<1> QED BY <1>8, <1>13

\* A ticket is delivered, or the lock for one is made.
LEMMA HeadBAnswer ==
    ASSUME IInv, SaleInv, OneCall, NEW t \in pool, Answer(t), Valid(t),
           Covers(t) \/ \E b \in Purchases : Delivers(t, b)
    PROVE  SaleInv' /\ SaleStep
<1>1. Decide(t)
  BY DEF Answer
<1>2. /\ OnePayment(utxo')
      /\ \A o : OnSource(o) => (o \in utxo <=> o \in utxo')
      /\ \A b : Ticketed(utxo, b) => Ticketed(utxo', b)
      /\ Covers(t) => \A b : Ticketed(utxo', b) <=> Ticketed(utxo, b)
      /\ \A b : Delivers(t, b) => /\ Ticketed(utxo', b) /\ Funded(b)
                                  /\ \A a : a # b => (Ticketed(utxo', a) <=> Ticketed(utxo, a))
  BY <1>1, HeadBTurns
<1>3. /\ OnePayment(utxo)
      /\ \A o \in utxo : OnSource(o) => o.for \in Purchases /\ Submitted(buyer, o.for)
      /\ \A u \in pool : \A a \in Purchases : Locks(u, a) => NoPayment(utxo, a)
  BY DEF SaleInv, PaymentsInv
<1>4. \A a \in Purchases : PaymentIn(utxo', a) = PaymentIn(utxo, a)
  BY <1>2, PaymentStays
<1>5. \A a \in Purchases : Submitted(buyer, a) => Submitted(buyer', a)
  BY SubmittedLasts
<1>6. \A o \in utxo' : OnSource(o) => o.for \in Purchases /\ Submitted(buyer', o.for)
  BY <1>2, <1>3, <1>5
<1>7. \A u \in pool \ {t} : \A a \in Purchases : Locks(u, a) => NoPayment(utxo', a)
  BY <1>2, <1>3 DEF NoPayment
<1>8. SaleInv'
  BY <1>2, <1>5, <1>6, <1>7, AnswerKeepsSale
<1>9. CASE Covers(t)
  <2>1. [a \in Purchases |-> Payment(a)'] = [a \in Purchases |-> Payment(a)]
    BY <1>4, ReadOff
  <2>2. \A a \in Purchases : Has("headB", "ticket", a)' = Has("headB", "ticket", a)
    BY <1>2, <1>9, ReadOff DEF Has
  <2>3. [a \in Purchases |-> Has("headB", "ticket", a)'] = [a \in Purchases |-> Has("headB", "ticket", a)]
    BY <2>2
  <2> QED BY <1>8, <2>1, <2>3 DEF SaleStep, Sale!saleVars
<1>10. ASSUME NEW b \in Purchases, Delivers(t, b) PROVE SaleStep
  <2>1. PaymentIn(utxo, b) # "none"
    <3>1. PICK o \in utxo : OnSource(o) /\ o.for = b
      BY <1>2, <1>10 DEF Funded, OnSource
    <3>2. o.kind \in SourceKinds
      BY <3>1 DEF OnSource, IInv, HeadOK
    <3> QED BY <1>3, <3>1, <3>2, PaymentIs DEF SourceKinds
  <2>2. Sale!Deliver(b)
    BY <1>2, <1>4, <1>10, <2>1, SaleDelivers
  <2> QED BY <2>2 DEF SaleStep, Sale!Next
<1> QED BY <1>8, <1>9, <1>10

LEMMA AnswerSale ==
    ASSUME IInv, SaleInv, OneCall, NEW t \in pool, Answer(t)
    PROVE  SaleInv' /\ SaleStep
<1>1. Known(utxo, t)
  BY DEF SaleInv, PaymentsInv
<1>2. CASE Valid(t)
  BY <1>1, <1>2, PaymentAnswer, HeadBAnswer DEF Known
<1>3. CASE ~Valid(t)
  <2>1. utxo' = utxo
    BY <1>3 DEF Answer, Decide
  <2>2. \A a \in Purchases : Submitted(buyer, a) => Submitted(buyer', a)
    BY SubmittedLasts
  <2>3. /\ OnePayment(utxo')
        /\ \A o \in utxo' : OnSource(o) => o.for \in Purchases /\ Submitted(buyer', o.for)
        /\ \A u \in pool \ {t} : \A a \in Purchases : Locks(u, a) => NoPayment(utxo', a)
    BY <2>1, <2>2 DEF SaleInv, PaymentsInv
  <2>4. SaleInv'
    BY <1>3, <2>1, <2>2, <2>3, AnswerKeepsSale
  <2> QED BY <2>1, <2>4, SaleStutters
<1> QED BY <1>2, <1>3

LEMMA SaleNext ==
    ASSUME IInv, SaleInv, OneCall, [Next]_vars
    PROVE  SaleInv' /\ SaleStep
<1>1. ASSUME NEW b \in Purchases, Prepare(b) \/ SubmitSource(b) \/ Abandon(b) \/ Refund(b)
      PROVE  SaleInv' /\ SaleStep
  BY <1>1, PrepareSale, SubmitSale, RefundSale, NobodyGivesUp
<1>2. ASSUME NEW c \in Calls, CallStep(c) \/ Fail(c) \/ GiveUp(c)
      PROVE  SaleInv' /\ SaleStep
  BY <1>2, StartSale, EnsureSale, SendLockSale, FindSourceSale, FindLockSale, ClaimTargetSale,
     FindAgainSale, ClaimSourceSale, EndSale, NobodyGivesUp DEF CallStep
<1>3. ASSUME NEW t \in pool, Answer(t) PROVE SaleInv' /\ SaleStep
  BY <1>3, AnswerSale
<1>4. CASE ((Tick \/ \E h \in Heads : Confirm(h)) /\ UNCHANGED saleVars) \/ UNCHANGED vars
  <2>1. UNCHANGED <<utxo, pool, buyer, call, timeouts>>
    BY <1>4 DEF Tick, Confirm, saleVars, vars, headVars
  <2>2. SaleInv'
    BY <2>1 DEF SaleInv
  <2> QED BY <2>1, <2>2, SaleStutters
<1> QED BY <1>1, <1>2, <1>3, <1>4 DEF Next

LEMMA SaleInit ==
    ASSUME Init
    PROVE  SaleInv /\ Sale!Init
<1>1. utxo = {Coin} /\ pool = {} /\ timeouts = 0 /\ Coin.head = "headB" /\ Coin.kind = "coin"
  BY DEF Init, HeadInit, Coin, Out
<1>2. PaymentsInv(utxo, pool, buyer)
  BY <1>1 DEF PaymentsInv, OnePayment, OnSource
<1>3. AtHeadB(pool) = {}
  BY <1>1 DEF AtHeadB
<1>4. \A c \in Calls : call[c].pc = "idle"
  BY DEF Init, Quiet
<1>5. \A c \in Calls : Heard(utxo, pool, call[c])
  BY <1>3, <1>4 DEF Heard
<1>6. SaleInv
  BY <1>1, <1>2, <1>3, <1>5 DEF SaleInv
<1>7. \A b \in Purchases : Payment(b) = "none"
  BY <1>1, ReadOff, PaymentIs DEF NoPayment, OnSource, OnePayment
<1>8. \A b \in Purchases : Has("headB", "ticket", b) = FALSE
  BY <1>1 DEF Has
<1> QED BY <1>6, <1>7, <1>8 DEF Sale!Init

\* Buying a ticket implements the abstract sale for any number of purchases, of failed
\* calls, of refunds and of snapshots that lag, as long as one call runs at a time and is
\* never given up while its transaction is on its way: the payment is taken only after the
\* ticket was delivered, and is taken or returned once.
THEOREM ImplementsSale ==
    ASSUME MaxTimeouts = 0, \A c, d \in Calls : c = d
    PROVE  Spec => RefinesSale
<1> USE DEF OneCall
<1>1. IInv /\ SaleInv /\ [Next]_vars => SaleInv'
  BY SaleNext
<1>2. IInv /\ SaleInv /\ [Next]_vars => [Sale!Next]_(Sale!saleVars)
  BY SaleNext DEF SaleStep
<1>3. Init => SaleInv /\ Sale!Init
  BY SaleInit
<1> QED BY <1>1, <1>2, <1>3, Invariance, PTL DEF Spec, RefinesSale, Sale!Spec
=============================================================================
