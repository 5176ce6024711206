----------------------------- MODULE Topologies -----------------------------
(***************************************************************************)
(* The payment paths of lib/topologies.ts: for two users a sequence of     *)
(* steps, each a lock of the sender for the receiver in one head.  Ida and *)
(* Jon are the intermediaries, which no one plays: the page acts for them. *)
(***************************************************************************)
EXTENDS Integers, Sequences

PaymentUsers == {"alice", "bob", "charlie"}
Intermediaries == {"ida", "jon"}

People == PaymentUsers \cup Intermediaries

Step(from, to, head) == [from |-> from, to |-> to, head |-> head]

Route(payer, payee, path) == [payer |-> payer, payee |-> payee, path |-> path]

twoHeads ==
    {Route("alice", "bob", <<Step("alice", "ida", "a"), Step("ida", "bob", "b")>>),
     Route("bob", "alice", <<Step("bob", "ida", "b"), Step("ida", "alice", "a")>>)}

singlePath ==
    twoHeads \cup
    {Route("alice", "charlie",
           <<Step("alice", "ida", "a"), Step("ida", "jon", "b"), Step("jon", "charlie", "c")>>),
     Route("bob", "charlie", <<Step("bob", "jon", "b"), Step("jon", "charlie", "c")>>),
     Route("charlie", "bob", <<Step("charlie", "jon", "c"), Step("jon", "bob", "b")>>),
     Route("charlie", "alice",
           <<Step("charlie", "jon", "c"), Step("jon", "ida", "b"), Step("ida", "alice", "a")>>)}

\* The head of a spoke is named after the user that is in it.
hubAndSpoke ==
    LET spoke == [alice |-> "a", bob |-> "b", charlie |-> "c"] IN
    {Route(u[1], u[2], <<Step(u[1], "ida", spoke[u[1]]), Step("ida", u[2], spoke[u[2]])>>) :
        u \in {x \in PaymentUsers \X PaymentUsers : x[1] # x[2]}}

\* What a path is: the intermediaries receive what they lock next, none of them twice.
Steps == [from: People, to: People, head: {"a", "b", "c"}]

IsPath(path) ==
    /\ path \in Seq(Steps) /\ Len(path) \in 2..3
    /\ path[1].from \notin Intermediaries /\ path[Len(path)].to \notin Intermediaries
    /\ \A i \in 1..(Len(path) - 1) : path[i].to \in Intermediaries /\ path[i].to = path[i + 1].from
    /\ \A i, j \in 1..Len(path) : path[i].to = path[j].to => i = j

isAutomatedStep(step) == step.from \in Intermediaries
isIntermediaryReceiver(step) == step.to \in Intermediaries

\* The paths a user is offered on the page of a head.
findPaymentPath(topology, user, head) ==
    {r.path : r \in {x \in topology : x.payer = user /\ x.path[1].head = head}}
=============================================================================
