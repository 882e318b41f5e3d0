------------------------------- MODULE MCCbrApp -------------------------------
(***************************************************************************)
(* An instance of CbrApp for TLC.  Senders a and b share node m and the    *)
(* slow end of the path to c; e sends to d over nodes of its own, on links *)
(* of different speed, at the pace the slow ones just bear.                *)
(*                                                                         *)
(*     a --- m --- c                                                       *)
(*     b ---/ \--- o --- p --- d                                           *)
(*            e ---/                                                       *)
(***************************************************************************)
EXTENDS CbrApp

CONSTANTS a, b, c, d, e, m, o, p

Both(S) == S \cup {<<l[2], l[1]>> : l \in S}
TwoTrees == Both({<<a, m>>, <<b, m>>, <<m, c>>, <<m, o>>, <<e, o>>, <<o, p>>, <<p, d>>})
Everywhere == {a, b, c, d, e, m, o, p}
\* One step towards the destination.
TreesHop ==
    [x \in Everywhere \X Everywhere |->
        CASE x[1] \in {a, b, c}                    -> m
          [] x[1] = d                              -> p
          [] x[1] = e                              -> o
          [] x[1] = m /\ x[2] \in {a, b, c}        -> x[2]
          [] x[1] = m /\ x[2] \notin {a, b, c}     -> o
          [] x[1] = o /\ x[2] \in {p, d}           -> p
          [] x[1] = o /\ x[2] = e                  -> e
          [] x[1] = p /\ x[2] = d                  -> d
          [] x[1] = p /\ x[2] # d                  -> o
          [] OTHER                                 -> m]
Queues == [x \in Everywhere |-> IF x \in {c, d} THEN 0 ELSE 1]
\* The links have their latency and speed in both directions.
Latencies == [l \in TwoTrees |-> IF {l[1], l[2]} \in {{m, c}, {e, o}} THEN 2 ELSE 1]
BitTimes ==
    [l \in TwoTrees |-> IF {l[1], l[2]} \in {{m, c}, {e, o}, {p, d}} THEN 2 ELSE 1]

Cbr(s, r, start, ip, count, length) ==
    [source |-> s, destination |-> r, start |-> start, ip |-> ip,
     count |-> count, length |-> length]
\* One sender is too fast for its links, one is on their limit; count 0 sends
\* a packet nonetheless.
Paces ==
    {<<Cbr(a, c, 0, ia, 3, 2), Cbr(b, c, sb, 3, cb, 1), Cbr(e, d, se, 2, 3, 1)>> :
        ia \in {1, 2, 4}, sb \in 0 .. 2, cb \in {0, 3}, se \in {0, 1}}
ItsPackets ==
    UNION {{CbrPacket(C[f], k) : k \in 0 .. Total(C[f]) - 1} :
               <<C, f>> \in Paces \X (1 .. 3)}
=============================================================================
