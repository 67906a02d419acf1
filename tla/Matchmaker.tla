----------------------------- MODULE Matchmaker -----------------------------
(***************************************************************************)
(* What the rendezvous server promises about ps transactions, without      *)
(* sockets, ports, clocks or datagrams: a transaction has a party of at    *)
(* most two distinct hosts, in the order in which they registered, and     *)
(* the only way to an offer is that the two hosts of one party are offered *)
(* to each other, which dissolves the party.                               *)
(***************************************************************************)
EXTENDS Naturals, Sequences

CONSTANTS Hosts, Transactions

VARIABLES
    party,      \* transaction -> the hosts that have registered
    offers      \* <<to, about>>: introductions on their way

Parties == {<<>>} \cup {<<h>> : h \in Hosts}
           \cup {<<h, g>> : h \in Hosts, g \in Hosts}

TypeOK ==
    /\ party \in [Transactions -> Parties]
    /\ offers \subseteq Hosts \X Hosts

Init ==
    /\ party = [t \in Transactions |-> <<>>]
    /\ offers = {}

\* Offers on their way may be lost or delivered at any step.
MayDropOffers == offers' \subseteq offers

\* A host opens the party of t, or reopens it when it has become too old.
Open(t, h) ==
    /\ party' = [party EXCEPT ![t] = <<h>>]
    /\ MayDropOffers

Join(t, h) ==
    /\ Len(party[t]) = 1
    /\ party[t][1] # h
    /\ party' = [party EXCEPT ![t] = Append(@, h)]
    /\ MayDropOffers

Match(t) ==
    /\ Len(party[t]) = 2
    /\ party' = [party EXCEPT ![t] = <<>>]
    /\ LET h == party[t][1]
           g == party[t][2]
       IN  /\ offers' \subseteq offers \cup {<<h, g>>, <<g, h>>}
           /\ {<<h, g>>, <<g, h>>} \subseteq offers'

ForgetAll ==
    /\ party' = [t \in Transactions |-> <<>>]
    /\ MayDropOffers

Next ==
    \/ \E t \in Transactions, h \in Hosts : Open(t, h) \/ Join(t, h)
    \/ \E t \in Transactions : Match(t)
    \/ ForgetAll
    \/ MayDropOffers /\ UNCHANGED party

Spec == Init /\ [][Next]_<<party, offers>>
=============================================================================
