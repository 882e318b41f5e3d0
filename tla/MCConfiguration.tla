--------------------------- MODULE MCConfiguration ---------------------------
(***************************************************************************)
(* Configuration files for TLC: hosts 1 and 4, each at a node of its own,  *)
(* 2 and 3, and up to three more links, given once or again, between these *)
(* nodes and node 0; then the nodes and flows, in several ways.            *)
(***************************************************************************)
EXTENDS Configuration

Cmd(id, args) == [id |-> id, args |-> args]
L(s, d, plat) == Cmd("Link", <<s, d, plat, 1>>)
Flow(s, d) == Cmd("FDTPFlow", <<s, d, 50, -7>>)
H(a) == Cmd("Host", <<a>>)
R(a) == Cmd("Router", <<a, 40>>)
F(a) == Cmd("FIFONode", <<a, 40>>)

Inner == {L(2, 3, 10), L(2, 0, 10), L(0, 3, 10), L(3, 2, 20), L(3, 0, 30)}
Links == {<<L(1, 2, 10), L(4, 3, 10)>> \o q : q \in SeqOf(Inner, 3)}
Nodes == {
    \* consistent, in two orders
    <<H(1), H(4), R(2), F(3), R(0), Flow(1, 4), Flow(4, 1)>>,
    <<F(0), H(4), Flow(4, 1), H(1), R(2), R(3), F(4), R(1)>>,
    \* a source declared too late, a missing node, a host on the way
    <<H(4), Flow(1, 4), R(2), F(3), R(0), H(1)>>,
    <<H(1), H(4), R(2), F(3), Flow(1, 4)>>,
    <<H(1), H(4), R(2), H(3), H(0), Flow(1, 4)>>,
    \* flows of a host to itself: past a router, past a host, and without links
    <<H(1), H(4), R(2), R(3), R(0), Flow(1, 1), Flow(4, 1)>>,
    <<H(4), F(2), H(3), Flow(4, 4)>>,
    <<H(0), H(1), H(4), R(2), R(3), Flow(0, 0)>>,
    \* too few and too many arguments, an address too large, a syntax error
    <<H(1), H(4), R(2), Cmd("FIFONode", <<3>>), Cmd("Link", <<0>>), Flow(1, 4)>>,
    <<H(1), H(4), R(2), R(3), R(0), Cmd("Flow", <<1, 4>>), Cmd("FDTPFlow", <<1, 4, 50>>)>>,
    <<H(6), H(4), R(2), R(3), R(0), Cmd("Link", <<2, 0, 10, 1, 3>>), Flow(1, 4)>>,
    <<H(1), H(4), R(2), R(3), R(0), Flow(1, 4), Cmd("Link", <<2, 0, 10, 1, 3, 4>>)>>,
    <<H(1), H(4), R(2), R(3), R(0), Cmd("FDTPFlow", <<1, 4, 50, 60, -7>>), Flow(4, 1)>>,
    <<H(1), H(4), R(2), R(3), R(0), Flow(1, 4), Cmd("error", <<2, 0>>), Flow(4, 1)>>}
TheFiles == {l \o n : l \in Links, n \in Nodes} \cup {n \o l : l \in Links, n \in Nodes}
AnyCosts == [plat : Int, bit_time : Int]
=============================================================================
