----------------------------- MODULE FileTransfer -----------------------------
(***************************************************************************)
(* What FDTP promises: a flow delivers the packets of its file to the      *)
(* destination once each and in order, nothing else, and is torn down only *)
(* after the whole file was delivered.                                     *)
(***************************************************************************)
EXTENDS Integers, Sequences

CONSTANTS Hosts, Flows

VARIABLES waiting, output, torn_down

fvars == <<waiting, output, torn_down>>

\* The chunks of f at its destination are the first k ones.
Wrote(f, k) ==
    LET q == output[f.destination]
    IN  {c \in {q[i] : i \in DOMAIN q} : c[1] = f} = {<<f, i>> : i \in 1 .. k}

FInit ==
    /\ waiting = Flows
    /\ output = [h \in Hosts |-> <<>>]
    /\ torn_down = {}

Start(f) ==
    /\ f \in waiting
    /\ waiting' = waiting \ {f}
    /\ UNCHANGED <<output, torn_down>>

\* One arrival releases n packets to the output file, after the first k.
Write(f, k, n) ==
    /\ f \notin waiting \cup torn_down
    /\ Wrote(f, k)
    /\ output' = [output EXCEPT ![f.destination] =
                    @ \o [i \in 1 .. n |-> <<f, k + i>>]]
    /\ UNCHANGED <<waiting, torn_down>>

TearDown(f) ==
    /\ f \notin waiting \cup torn_down
    /\ Wrote(f, f.packets)
    /\ torn_down' = torn_down \cup {f}
    /\ UNCHANGED <<waiting, output>>

FNext == \E f \in Flows : \/ Start(f)
                          \/ \E k \in 0 .. f.packets - 1 :
                                \E n \in 1 .. f.packets - k : Write(f, k, n)
                          \/ TearDown(f)

FSpec == FInit /\ [][FNext]_fvars
=============================================================================
