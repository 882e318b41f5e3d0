------------------------------ MODULE MCDtpHost ------------------------------
(***************************************************************************)
(* Instances of DtpHost for TLC: the flows of a configuration file, and    *)
(* what the bytes of an uninitialised packet may look like.                *)
(***************************************************************************)
EXTENDS DtpHost

CONSTANTS h1, h2, h3

File(s, d, n) == [source |-> s, destination |-> d, packets |-> n]

\* One flow.
OneFile3 == {File(h1, h2, 3)}

\* Flows a source or a pair of hosts runs one after the other.
InTurn == {File(h1, h2, 1), File(h1, h3, 4), File(h2, h1, 2)}
ShortThenLong == {File(h1, h2, 1), File(h1, h2, 4)}
LongThenShort == {File(h1, h2, 2), File(h1, h3, 1)}

\* Two flows to one destination.
SameReceiver == {File(h1, h2, 1), File(h3, h2, 4)}

NoGarbage == {}
SomeGarbage ==
    {[kind |-> k, id |-> 1, last |-> FALSE, cwnd |-> 0, data |-> NoData] :
        k \in {"OTHER", "DATA", "ACK"}}
=============================================================================
