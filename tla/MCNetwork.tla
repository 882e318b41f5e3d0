------------------------------ MODULE MCNetwork ------------------------------
(***************************************************************************)
(* Instances of Network for TLC.  Host a and, behind a relay m, host b      *)
(* share the routers r and q on their way to host c:                       *)
(*                                                                         *)
(*           a --- r --- q --- c                                           *)
(*     b --- m ---/                                                        *)
(***************************************************************************)
EXTENDS Network

CONSTANTS a, b, c, r, m, q

BothWays(S) == S \cup {<<l[2], l[1]>> : l \in S}
Tree == BothWays({<<a, r>>, <<b, m>>, <<m, r>>, <<r, q>>, <<q, c>>})
\* Routing in the tree: one step towards the destination.
TreeHop ==
    [x \in {a, b, r, m, q, c} \X {a, b, r, m, q, c} |->
        CASE x[1] = a                         -> r
          [] x[1] = b                         -> m
          [] x[1] = m /\ x[2] = b             -> b
          [] x[1] = m /\ x[2] # b             -> r
          [] x[1] = r /\ x[2] = a             -> a
          [] x[1] = r /\ x[2] \in {m, b}      -> m
          [] x[1] = r /\ x[2] \in {q, c}      -> q
          [] x[1] = q /\ x[2] = c             -> c
          [] x[1] = q /\ x[2] # c             -> r
          [] OTHER                            -> q]
\* What a link has, both ways.
OnLink(x, y, this, other) ==
    [l \in Tree |-> IF {l[1], l[2]} = {x, y} THEN this ELSE other]

SmallQueues == [n \in {a, b, c, r, m, q} |-> IF n = r THEN 4 ELSE IF n = q THEN 1 ELSE 2]
Latencies == OnLink(r, q, 2, 1)
BitTimes == OnLink(q, c, 3, 1)
RoomyQueues == [n \in {a, b, c, r, m, q} |-> 5]
NoLatencies == [l \in Tree |-> 0]
SameBitTimes == [l \in Tree |-> 1]

Pkt(s, d, id, length, last) ==
    [source |-> s, destination |-> d, id |-> id, length |-> length, last |-> last,
     cwnd |-> 0]

\* A long and two short packets of one flow, and packets of another host to a
\* host, to a node on the way and to the first host.
TwoFlows == {Pkt(a, c, 1, 3, FALSE), Pkt(a, c, 2, 1, FALSE), Pkt(a, c, 3, 1, TRUE),
             Pkt(b, c, 4, 1, FALSE), Pkt(b, m, 5, 1, FALSE), Pkt(b, a, 6, 1, FALSE)}

\* A flow with its answers the other way; the FIN, 3, comes after the last
\* DATA packet, 2.
OneWithFin == {Pkt(a, c, 1, 1, FALSE), Pkt(a, c, 2, 1, TRUE), Pkt(a, c, 3, 1, FALSE),
               Pkt(c, a, 4, 1, TRUE)}

\* The routers are between the hosts, and their room fits the field of a packet.
ASSUME \E Access \in [Hosts -> SUBSET (Hosts \cup Relays)] : RoutersBetween(Access)
ASSUME RoomFits
=============================================================================
