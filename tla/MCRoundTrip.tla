----------------------------- MODULE MCRoundTrip -----------------------------
(***************************************************************************)
(* Instances of RoundTrip for TLC, in units of 1000 of the program's:      *)
(* initial_rtt is 50.                                                      *)
(***************************************************************************)
EXTENDS RoundTrip

Way(length, there, back) == [length |-> length, there |-> there, back |-> back]

\* Well within the initial estimate; with a queue of the whole file just within a
\* first wait of 150, and beyond it; and with ACKs that are sent again before
\* they are back.
FourPaths == {Way(3, 10, 10), Way(14, 45, 45), Way(50, 50, 49), Way(5, 10, 60)}
\* The first flow of a host, and one after a flow that left samples behind.
TwoQueues == {<<>>, <<-30>>}
=============================================================================
