----------------------------- MODULE MCFileTools -----------------------------
(***************************************************************************)
(* Instances of FileTools for TLC: files around the sizes of a packet and  *)
(* of a hash block, and command lines of the tools.                        *)
(***************************************************************************)
EXTENDS FileTools

Letters(n) == [k \in 1 .. n |-> 97 + (k % 26)]
Case(file, to) == [file |-> file, receiver |-> to, left |-> <<120>>]

\* Text around one and two packets of 32 bytes and one and two blocks of 64.
Texts == {<<>>, TESTA, TESTB} \cup {Letters(n) : n \in {31, 32, 55, 64, 119, 128}}

\* A byte that ends the reading, first in a packet or in the middle of one.
Binaries == {Letters(32) \o <<255, 97>>, <<97, 0, 98>>, <<97, 255, 98>>,
             Letters(33) \o <<0>> \o Letters(33)}

MixedCases == {Case(f, 8) : f \in Texts \cup Binaries \cup {NoFile}}
              \cup {Case(Letters(33), to) : to \in {7, 9}}

Compare(file, copy) == [tool |-> "shacmp", args |-> <<file, copy>>]
SomeInvocations ==
    {Compare("hello.txt", "output.txt"), Compare("output1.txt", "output1.txt"),
     Compare("hello.txt", "missing.txt"),
     [tool |-> "shacmp", args |-> <<"hello.txt">>],
     [tool |-> "sha", args |-> <<"-", "hello.txt", "-", "output.txt">>],
     [tool |-> "sha", args |-> <<>>],
     [tool |-> "sha", args |-> <<"--help">>]}
=============================================================================
