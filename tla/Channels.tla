------------------------------ MODULE Channels ------------------------------
(***************************************************************************)
(* What the network gives to the hosts: for each pair of nodes a channel   *)
(* that hands over packets in the order they were sent, at most once each, *)
(* and may lose any of them.                                               *)
(***************************************************************************)
EXTENDS Integers, Sequences, SequencesExt

CONSTANTS Pairs, Packets

VARIABLES
    unsent,     \* packets not sent yet
    chan,       \* of each pair: ids of the packets under way, oldest first
    got         \* of each pair: ids of the packets handed over

cvars == <<unsent, chan, got>>

CInit ==
    /\ unsent = Packets
    /\ chan = [c \in Pairs |-> <<>>]
    /\ got = [c \in Pairs |-> <<>>]

\* The packet is sent; a full queue at the sender drops it at once.
Send(p) ==
    /\ p \in unsent
    /\ unsent' = unsent \ {p}
    /\ \/ chan' = [chan EXCEPT ![<<p.source, p.destination>>] = Append(@, p.id)]
       \/ UNCHANGED chan
    /\ UNCHANGED got

HandOver(c) ==
    /\ chan[c] # <<>>
    /\ chan' = [chan EXCEPT ![c] = Tail(@)]
    /\ got' = [got EXCEPT ![c] = Append(@, Head(chan[c]))]
    /\ UNCHANGED unsent

Drop(c, i) ==
    /\ chan' = [chan EXCEPT ![c] = RemoveAt(@, i)]
    /\ UNCHANGED <<unsent, got>>

CNext ==
    \/ \E p \in Packets : Send(p)
    \/ \E c \in Pairs : HandOver(c)
    \/ \E c \in Pairs : \E i \in DOMAIN chan[c] : Drop(c, i)

CSpec == CInit /\ [][CNext]_cvars
=============================================================================
