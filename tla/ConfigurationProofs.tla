------------------------- MODULE ConfigurationProofs -------------------------
(***************************************************************************)
(* Proofs about Configuration: what the commands of a file leave of the    *)
(* links and of the nodes, for every file.                                 *)
(***************************************************************************)
EXTENDS Configuration, TopologyProofs

-----------------------------------------------------------------------------
(* The steps of a simulation                                               *)

(* Only a Link command changes the links.                                  *)
LEMMA ConfLinks ==
    ASSUME LinksInv, [ConfNext]_confVars
    PROVE  LinksInv'
<1>1. ASSUME NEW st, Link(st)
      PROVE  LinksInv'
  BY <1>1, AddLinkOK DEF Link
<1>2. (\A st : ~Link(st)) => linkMap' = linkMap
  BY SearchKeepsLinks DEF ConfNext, Command, FIFONode, Host, Router, FDTPFlow, Unknown,
     Fatal, Overrun, Run, StartFlow, Stop, Forward, Ask, Route, Arrive, confVars, vars
<1> QED
  BY <1>1, <1>2 DEF LinksInv

\* The flows are a list, each for the node of its source.
FlowsInv == (\E S : flows \in Seq(S)) /\ FlowsOwnAddress

(* The class of an address that has a node stays what it is.               *)
LEMMA ClassStays ==
    ASSUME NEW a, NEW class, node_map' = Register(a, class)
    PROVE  \A x : ClassOf(x) # "NULL" => ClassOf(x)' = ClassOf(x)
<1>1. /\ DOMAIN node_map \subseteq DOMAIN node_map'
      /\ \A x \in DOMAIN node_map : node_map'[x] = node_map[x]
  BY DEF Register
<1> QED
  BY <1>1 DEF ClassOf

LEMMA FlowsStep ==
    ASSUME FlowsInv, [ConfNext]_confVars
    PROVE  FlowsInv'
<1>1. CASE flows' = flows /\ \A x : ClassOf(x) # "NULL" => ClassOf(x)' = ClassOf(x)
  <2>1. ASSUME NEW i \in DOMAIN flows
        PROVE  flows[i].node \in {"NULL", ClassOf(flows[i].source)'}
    <3>1. flows[i].node \in {"NULL", ClassOf(flows[i].source)}
      BY DEF FlowsInv, FlowsOwnAddress
    <3> QED
      BY <1>1, <3>1
  <2> QED
    BY <1>1, <2>1 DEF FlowsInv, FlowsOwnAddress
<1>2. ASSUME NEW st, FIFONode(st) \/ Host(st) \/ Router(st)
      PROVE  flows' = flows /\ \A x : ClassOf(x) # "NULL" => ClassOf(x)' = ClassOf(x)
  BY <1>2, ClassStays DEF FIFONode, Host, Router
<1>3. ASSUME NEW st, FDTPFlow(st)
      PROVE  FlowsInv'
  <2> DEFINE s == AsAddress(st.args[1])
             flow == [source |-> s, destination |-> AsAddress(st.args[2]),
                      start |-> st.args[3], node |-> ClassOf(s)]
  <2>1. flows' = Append(flows, flow) /\ node_map' = node_map
    BY <1>3 DEF FDTPFlow
  <2>2. flow.source = s /\ flow.node = ClassOf(s)
    OBVIOUS
  <2> HIDE DEF flow, s
  <2>3. PICK S : flows \in Seq(S)
    BY DEF FlowsInv
  <2>4. flows \in Seq(S \cup {flow}) /\ flow \in S \cup {flow}
    BY <2>3
  <2>5. PICK q : /\ q = flows' /\ q \in Seq(S \cup {flow}) /\ Len(flows) \in Nat
                 /\ Len(q) = Len(flows) + 1 /\ q[Len(flows) + 1] = flow
                 /\ \A i \in 1 .. Len(flows) : q[i] = flows[i]
    BY <2>1, <2>4, AppendProperties
  <2>6. ASSUME NEW i \in 1 .. Len(q)
        PROVE  q[i].node \in {"NULL", ClassOf(q[i].source)}
    <3>1. CASE i \in 1 .. Len(flows)
      <4>1. flows[i].node \in {"NULL", ClassOf(flows[i].source)}
        BY <2>3, <3>1 DEF FlowsInv, FlowsOwnAddress
      <4> QED
        BY <2>5, <3>1, <4>1
    <3>2. CASE i = Len(flows) + 1
      BY <2>2, <2>5, <3>2
    <3> QED
      BY <2>5, <3>1, <3>2
  <2>7. FlowsOwnAddress'
    <3>1. DOMAIN q = 1 .. Len(q)
      BY <2>5
    <3> QED
      BY <2>1, <2>5, <2>6, <3>1 DEF FlowsOwnAddress, ClassOf
  <2> QED
    BY <2>5, <2>7 DEF FlowsInv
<1>4. (\A st : ~(FIFONode(st) \/ Host(st) \/ Router(st) \/ FDTPFlow(st)))
        => flows' = flows /\ node_map' = node_map
  BY DEF ConfNext, Command, Link, Unknown, Fatal, Overrun, Run, StartFlow, Stop, Forward,
     Route, Arrive, confVars
<1>5. node_map' = node_map => \A x : ClassOf(x)' = ClassOf(x)
  BY DEF ClassOf
<1> QED
  BY <1>1, <1>2, <1>3, <1>4, <1>5

-----------------------------------------------------------------------------
(* Reading the arguments of a command                                      *)

LEMMA MaxIs ==
    ASSUME NEW I \in SUBSET Int, NEW m \in I, \A n \in I : n <= m
    PROVE  Max(I) = m
<1>1. \A n \in I : m >= n
  OBVIOUS
<1>2. PICK k \in I : k = Max(I) /\ \A n \in I : k >= n
  BY <1>1 DEF Max
<1> QED
  BY <1>2

\* The loop of add_arg over all or some of the arguments args, from st on, as
\* FoldLeft defines it: of each set of positions, what it leaves behind.
IsIter(st, args, S, f) ==
    f = [s \in SUBSET S |->
            IF s = {} THEN st ELSE AddArg(f[s \ {Max(s)}], args[Max(s)])]
Iter(st, args) == (CHOOSE f : IsIter(st, args, DOMAIN args, f))[DOMAIN args]

LEMMA ReadArgsIs ==
    \A args : ReadArgs(args) = Iter([args |-> config_args, num |-> config_argnum], args)
  BY DEF ReadArgs, FoldLeft, MapThenFoldSet, Iter, IsIter

LEMMA IterExists ==
    ASSUME NEW st, NEW args
    PROVE  \A n \in Nat : \E f : IsIter(st, args, 1 .. n, f)
<1> DEFINE P == {n \in Nat : \E f : IsIter(st, args, 1 .. n, f)}
<1>1. 0 \in P
  <2> DEFINE f == [s \in SUBSET (1 .. 0) |-> st]
             g == [s \in SUBSET (1 .. 0) |->
                     IF s = {} THEN st ELSE AddArg(f[s \ {Max(s)}], args[Max(s)])]
  <2>1. \A s \in SUBSET (1 .. 0) : s = {}
    OBVIOUS
  <2>2. f = [s \in SUBSET (1 .. 0) |-> f[s]] /\ g = [s \in SUBSET (1 .. 0) |-> g[s]]
    OBVIOUS
  <2>3. \A s \in SUBSET (1 .. 0) : f[s] = g[s]
    BY <2>1
  <2>4. f = g
    <3> HIDE DEF f, g
    <3> QED
      BY <2>2, <2>3
  <2>5. IsIter(st, args, 1 .. 0, f)
    <3> HIDE DEF f
    <3> QED
      BY <2>4, Zenon DEF IsIter
  <2> QED
    BY <2>5
<1>2. ASSUME NEW n \in Nat, n \in P
      PROVE  n + 1 \in P
  <2>1. PICK f : IsIter(st, args, 1 .. n, f)
    BY <1>2
  <2> DEFINE D == SUBSET (1 .. n + 1)
             h == [s \in D |-> IF n + 1 \in s THEN AddArg(f[s \ {n + 1}], args[n + 1])
                                              ELSE f[s]]
             g == [s \in D |->
                     IF s = {} THEN st ELSE AddArg(h[s \ {Max(s)}], args[Max(s)])]
  <2>2. ASSUME NEW s \in D
        PROVE  h[s] = IF s = {} THEN st ELSE AddArg(h[s \ {Max(s)}], args[Max(s)])
    <3>1. CASE n + 1 \in s
      <4>1. Max(s) = n + 1 /\ s # {}
        <5>1. s \in SUBSET Int /\ \A k \in s : k <= n + 1
          OBVIOUS
        <5> QED
          BY <3>1, <5>1, MaxIs
      <4>2. s \ {n + 1} \in D /\ n + 1 \notin s \ {n + 1}
        OBVIOUS
      <4>3. h[s] = AddArg(f[s \ {n + 1}], args[n + 1]) /\ h[s \ {n + 1}] = f[s \ {n + 1}]
        BY <3>1, <4>2
      <4> QED
        BY <4>1, <4>3, Zenon
    <3>2. CASE n + 1 \notin s
      <4>1. s \in SUBSET (1 .. n)
        BY <3>2
      <4>2. f[s] = IF s = {} THEN st ELSE AddArg(f[s \ {Max(s)}], args[Max(s)])
        BY <2>1, <4>1 DEF IsIter
      <4>3. s \ {Max(s)} \in D /\ n + 1 \notin s \ {Max(s)}
        BY <3>2
      <4>4. h[s] = f[s] /\ h[s \ {Max(s)}] = f[s \ {Max(s)}]
        BY <3>2, <4>3
      <4> QED
        BY <4>2, <4>4, Zenon
    <3> QED
      BY <3>1, <3>2
  <2>3. h = [s \in D |-> h[s]] /\ g = [s \in D |-> g[s]]
    OBVIOUS
  <2>4. \A s \in D : h[s] = g[s]
    BY <2>2, Zenon
  <2>5. h = g
    <3> HIDE DEF h, g, D
    <3> QED
      BY <2>3, <2>4
  <2>6. IsIter(st, args, 1 .. n + 1, h)
    <3> HIDE DEF h
    <3> QED
      BY <2>5, Zenon DEF IsIter
  <2> QED
    BY <2>6
<1> HIDE DEF P
<1>3. Nat \subseteq P
  BY <1>1, <1>2, InductionOnSet
<1> QED
  BY <1>3 DEF P

\* One argument after the other: q[n + 1] is what the first n leave behind.
Reading(st, args, q) ==
    /\ q \in [0 .. Len(args) -> {q[n] : n \in 0 .. Len(args)}]
    /\ q[0] = st
    /\ \A n \in 0 .. Len(args) - 1 : q[n + 1] = AddArg(q[n], args[n + 1])

LEMMA IterSteps ==
    ASSUME NEW st, NEW args \in Seq(Int)
    PROVE  \E q : Reading(st, args, q) /\ q[Len(args)] = Iter(st, args)
<1>1. Len(args) \in Nat /\ DOMAIN args = 1 .. Len(args)
  OBVIOUS
<1>2. PICK f : IsIter(st, args, 1 .. Len(args), f) /\ f[1 .. Len(args)] = Iter(st, args)
  BY <1>1, IterExists DEF Iter
<1> DEFINE q == [n \in 0 .. Len(args) |-> f[1 .. n]]
<1>3. q[0] = st
  <2>1. 1 .. 0 = {} /\ q[0] = f[1 .. 0] /\ {} \in SUBSET (1 .. Len(args))
    BY <1>1
  <2> QED
    BY <1>2, <2>1 DEF IsIter
<1>4. ASSUME NEW n \in 0 .. Len(args) - 1
      PROVE  q[n + 1] = AddArg(q[n], args[n + 1])
  <2>1. /\ n \in 0 .. Len(args) /\ n + 1 \in 0 .. Len(args)
        /\ 1 .. n + 1 \in SUBSET (1 .. Len(args)) /\ 1 .. n + 1 # {}
        /\ (1 .. n + 1) \ {n + 1} = 1 .. n
    <3>1. n \in Nat /\ n + 1 \in Nat /\ n + 1 <= Len(args) /\ n + 1 \in 1 .. n + 1
      BY <1>1
    <3>2. \A k : k \in (1 .. n + 1) \ {n + 1} <=> k \in 1 .. n
      BY <3>1
    <3>3. (1 .. n + 1) \ {n + 1} = 1 .. n
      BY <3>2
    <3>4. 1 .. n + 1 \in SUBSET (1 .. Len(args))
      BY <1>1, <3>1
    <3>5. n \in 0 .. Len(args) /\ n + 1 \in 0 .. Len(args)
      BY <1>1, <3>1
    <3>6. 1 .. n + 1 # {}
      BY <3>1
    <3> QED
      BY <3>3, <3>4, <3>5, <3>6
  <2>2. Max(1 .. n + 1) = n + 1
    <3>1. 1 .. n + 1 \in SUBSET Int /\ n + 1 \in 1 .. n + 1 /\ \A k \in 1 .. n + 1 : k <= n + 1
      BY <1>1
    <3> QED
      BY <3>1, MaxIs
  <2>3. f[1 .. n + 1] = AddArg(f[(1 .. n + 1) \ {Max(1 .. n + 1)}], args[Max(1 .. n + 1)])
    BY <1>2, <2>1 DEF IsIter
  <2>4. q[n + 1] = f[1 .. n + 1] /\ q[n] = f[1 .. n]
    BY <2>1
  <2> QED
    BY <2>1, <2>2, <2>3, <2>4, Zenon
<1>5. q[Len(args)] = Iter(st, args)
  BY <1>1, <1>2
<1>6. q \in [0 .. Len(args) -> {q[n] : n \in 0 .. Len(args)}]
  OBVIOUS
<1> HIDE DEF q
<1> QED
  BY <1>3, <1>4, <1>5, <1>6 DEF Reading

Arguments == [args : [1 .. MaxArgs -> Int], num : Int]

LEMMA AddArgCases ==
    ASSUME NEW st \in Arguments, NEW v \in Int
    PROVE  /\ st.num \in 0 .. MaxArgs - 1 =>
                AddArg(st, v) = [args |-> [st.args EXCEPT ![st.num + 1] = v],
                                 num |-> st.num + 1]
           /\ st.num = MaxArgs /\ v >= 0 =>
                AddArg(st, v) = [args |-> st.args, num |-> v + 1]
           /\ st.num \notin 0 .. MaxArgs - 1 /\ ~(st.num = MaxArgs /\ v >= 0) =>
                AddArg(st, v) = [args |-> st.args, num |-> -1]
<1>1. ~(st.num = MaxArgs /\ st.num \in 0 .. MaxArgs - 1)
  BY ConfigurationAssumption
<1>2. st.num \in 0 .. MaxArgs - 1 =>
         AddArg(st, v) = [args |-> [st.args EXCEPT ![st.num + 1] = v], num |-> st.num + 1]
  BY <1>1, Zenon DEF AddArg
<1>3. st.num = MaxArgs /\ v >= 0 => AddArg(st, v) = [st EXCEPT !.num = v + 1]
  BY <1>1, Zenon DEF AddArg
<1>4. st.num \notin 0 .. MaxArgs - 1 /\ ~(st.num = MaxArgs /\ v >= 0) =>
                AddArg(st, v) = [st EXCEPT !.num = -1]
  BY <1>1, Zenon DEF AddArg
<1>5. /\ [st EXCEPT !.num = v + 1] = [args |-> st.args, num |-> v + 1]
      /\ [st EXCEPT !.num = -1] = [args |-> st.args, num |-> -1]
  BY DEF Arguments
<1> QED
  BY <1>2, <1>3, <1>4, <1>5, Zenon

LEMMA AddArgTyped ==
    ASSUME NEW st \in Arguments, NEW v \in Int
    PROVE  AddArg(st, v) \in Arguments
<1>1. st.args \in [1 .. MaxArgs -> Int] /\ st.num \in Int
  BY DEF Arguments
<1>2. [st.args EXCEPT ![st.num + 1] = v] \in [1 .. MaxArgs -> Int]
  BY <1>1
<1>3. /\ [args |-> [st.args EXCEPT ![st.num + 1] = v], num |-> st.num + 1] \in Arguments
      /\ [args |-> st.args, num |-> v + 1] \in Arguments
      /\ [args |-> st.args, num |-> -1] \in Arguments
  BY <1>1, <1>2 DEF Arguments
<1> QED
  BY <1>3, AddArgCases, Zenon

(* add_arg keeps the arguments integers, whatever the command gives it.    *)
LEMMA ReadArgsTyped ==
    ASSUME config_args \in [1 .. MaxArgs -> Int], config_argnum \in Int,
           NEW args \in Seq(Int)
    PROVE  ReadArgs(args) \in Arguments
<1> DEFINE st == [args |-> config_args, num |-> config_argnum]
<1>1. st \in Arguments
  BY DEF Arguments
<1>2. ReadArgs(args) = Iter(st, args)
  BY ReadArgsIs
<1> HIDE DEF st
<1>3. PICK q : Reading(st, args, q) /\ q[Len(args)] = Iter(st, args)
  BY IterSteps
<1>4. Len(args) \in Nat /\ \A n \in 1 .. Len(args) : args[n] \in Int
  OBVIOUS
<1> DEFINE P == {n \in Nat : n <= Len(args) => q[n] \in Arguments}
<1>5. 0 \in P
  BY <1>1, <1>3 DEF Reading
<1>6. ASSUME NEW n \in Nat, n \in P
      PROVE  n + 1 \in P
  <2> SUFFICES ASSUME n + 1 <= Len(args)
               PROVE  q[n + 1] \in Arguments
    OBVIOUS
  <2>1. n \in 0 .. Len(args) - 1 /\ n + 1 \in 1 .. Len(args) /\ n <= Len(args)
    BY <1>4
  <2>2. q[n + 1] = AddArg(q[n], args[n + 1]) /\ q[n] \in Arguments /\ args[n + 1] \in Int
    BY <1>3, <1>4, <1>6, <2>1 DEF Reading
  <2> QED
    BY <2>2, AddArgTyped
<1> HIDE DEF P
<1>7. Nat \subseteq P
  BY <1>5, <1>6, InductionOnSet
<1>8. q[Len(args)] \in Arguments
  BY <1>4, <1>7 DEF P
<1> QED
  BY <1>2, <1>3, <1>8

(* As long as there are not too many, the arguments are those of the       *)
(* command, in their order.                                                *)
LEMMA ReadArgsAll ==
    ASSUME config_args \in [1 .. MaxArgs -> Int], config_argnum = 0,
           NEW args \in Seq(Int), Len(args) <= MaxArgs
    PROVE  /\ ReadArgs(args) \in Arguments
           /\ ReadArgs(args).num = Len(args)
           /\ \A i \in 1 .. Len(args) : ReadArgs(args).args[i] = args[i]
<1> DEFINE st == [args |-> config_args, num |-> config_argnum]
<1>1. st \in Arguments /\ st.num = 0
  BY DEF Arguments
<1>2. ReadArgs(args) = Iter(st, args)
  BY ReadArgsIs
<1> HIDE DEF st
<1>3. PICK q : Reading(st, args, q) /\ q[Len(args)] = Iter(st, args)
  BY IterSteps
<1>4. Len(args) \in Nat /\ \A n \in 1 .. Len(args) : args[n] \in Int
  OBVIOUS
<1> DEFINE Good(n) == /\ q[n] \in Arguments /\ q[n].num = n
                      /\ \A i \in 1 .. n : q[n].args[i] = args[i]
           P == {n \in Nat : n <= Len(args) => Good(n)}
<1>5. 0 \in P
  BY <1>1, <1>3 DEF Reading
<1>6. ASSUME NEW n \in Nat, n \in P
      PROVE  n + 1 \in P
  <2> SUFFICES ASSUME n + 1 <= Len(args)
               PROVE  Good(n + 1)
    OBVIOUS
  <2>1. /\ n \in 0 .. Len(args) - 1 /\ n + 1 \in 1 .. Len(args) /\ n <= Len(args)
        /\ n \in 0 .. MaxArgs - 1 /\ n + 1 \in 1 .. MaxArgs
    BY <1>4, ConfigurationAssumption
  <2>2. PICK s \in Arguments, v \in Int : s = q[n] /\ v = args[n + 1] /\ q[n + 1] = AddArg(s, v)
    BY <1>3, <1>4, <1>6, <2>1 DEF Reading
  <2>3. s.num = n /\ \A i \in 1 .. n : s.args[i] = args[i]
    BY <1>6, <2>1, <2>2
  <2>4. q[n + 1] = [args |-> [s.args EXCEPT ![n + 1] = v], num |-> n + 1]
    BY <2>1, <2>2, <2>3, AddArgCases, Zenon
  <2>5. q[n + 1] \in Arguments
    BY <2>2, AddArgTyped
  <2>6. q[n + 1].num = n + 1 /\ q[n + 1].args = [s.args EXCEPT ![n + 1] = v]
    BY <2>4
  <2>7. \A i \in 1 .. n + 1 : q[n + 1].args[i] = args[i]
    <3>1. s.args \in [1 .. MaxArgs -> Int]
      BY DEF Arguments
    <3>2. \A i \in 1 .. n + 1 : i \in 1 .. n \/ i = n + 1
      OBVIOUS
    <3>3. PICK t : t = q[n + 1].args /\ t = [s.args EXCEPT ![n + 1] = v]
      BY <2>6
    <3>4. ASSUME NEW i \in 1 .. n + 1
          PROVE  t[i] = args[i]
      <4>1. CASE i = n + 1
        BY <2>1, <2>2, <3>1, <3>3, <4>1
      <4>2. CASE i # n + 1
        <5>1. i \in 1 .. n /\ i \in 1 .. MaxArgs
          BY <2>1, <4>2, ConfigurationAssumption
        <5>2. t[i] = s.args[i]
          BY <3>1, <3>3, <4>2, <5>1
        <5> QED
          BY <2>3, <5>1, <5>2
      <4> QED
        BY <4>1, <4>2
    <3> QED
      BY <3>3, <3>4
  <2> QED
    BY <2>5, <2>6, <2>7
<1> HIDE DEF P
<1>7. Nat \subseteq P
  BY <1>5, <1>6, InductionOnSet
<1>8. Good(Len(args))
  BY <1>4, <1>7 DEF P
<1> QED
  BY <1>2, <1>3, <1>8

-----------------------------------------------------------------------------
(* Types                                                                   *)

Classes == {"FIFONode", "Host", "Router"}
AFlow == [source : Addresses, destination : Addresses, start : Int,
          node : Classes \cup {"NULL"}]

\* No command leaves an argument counted, and what it reads are integers.
Reader ==
    /\ file \in Files /\ line \in Nat \ {0}
    /\ config_args \in [1 .. MaxArgs -> Int] /\ config_argnum = 0
Registered == \E D \in SUBSET Addresses : node_map \in [D -> Classes]
Travels ==
    /\ flows \in Seq(AFlow)
    /\ packet \in {<<>>} \cup (AFlow \X Addresses)
ConfTypes == Reader /\ Registered /\ Travels

\* A Link command may give any two numbers.
AnyCost == [plat : Int, bit_time : Int] \subseteq Costs

(* What a command finds in its arguments.                                  *)
LEMMA ReadsTyped ==
    ASSUME Reader, NEW id, NEW st, Reads(id, st)
    PROVE  /\ st \in Arguments /\ line \in DOMAIN file
           /\ \A i \in 1 .. 4 : st.args[i] \in Int /\ AsAddress(st.args[i]) \in Addresses
<1>1. file \in Seq([id : STRING, args : Seq(Int)])
  BY ConfigurationAssumption DEF Reader
<1>2. line \in DOMAIN file
  BY <1>1 DEF Reader, Reads
<1>3. file[line].args \in Seq(Int)
  <2>1. file[line] \in [id : STRING, args : Seq(Int)]
    <3>1. DOMAIN file = 1 .. Len(file)
      BY <1>1
    <3> QED
      BY <1>1, <1>2, <3>1, ElementOfSeq, Zenon
  <2> QED
    BY <2>1
<1>4. config_argnum \in Int
  BY DEF Reader
<1>5. st \in Arguments
  BY <1>3, <1>4, ReadArgsTyped DEF Reader, Reads
<1>6. ASSUME NEW i \in 1 .. 4
      PROVE  st.args[i] \in Int /\ AsAddress(st.args[i]) \in Addresses
  <2>1. i \in 1 .. MaxArgs
    BY ConfigurationAssumption
  <2>2. st.args[i] \in Int
    BY <1>5, <2>1 DEF Arguments
  <2>3. \A v \in Int : AsAddress(v) \in Addresses
    BY ConfigurationAssumption DEF AsAddress
  <2> QED
    BY <2>2, <2>3
<1> QED
  BY <1>2, <1>5, <1>6

LEMMA DoneTyped ==
    ASSUME Reader, NEW id, NEW st, Reads(id, st), Done(st)
    PROVE  Reader'
<1>1. st.args \in [1 .. MaxArgs -> Int]
  BY ReadsTyped DEF Arguments
<1> QED
  BY <1>1 DEF Reader, Done

LEMMA RegisterTyped ==
    ASSUME Registered, NEW a \in Addresses, NEW class \in Classes,
           node_map' = Register(a, class)
    PROVE  Registered'
<1>1. PICK D \in SUBSET Addresses : node_map \in [D -> Classes]
  BY DEF Registered
<1>2. node_map' \in [D \cup {a} -> Classes] /\ D \cup {a} \in SUBSET Addresses
  BY <1>1 DEF Register
<1> QED
  BY <1>2 DEF Registered

LEMMA ClassTyped ==
    ASSUME Registered
    PROVE  \A a : ClassOf(a) \in Classes \cup {"NULL"} /\ (ClassOf(a) # "NULL" => a \in Addresses)
  BY DEF Registered, ClassOf, Classes

(* Every step of reading a file keeps the types.                           *)
LEMMA CommandTyped ==
    ASSUME ConfTypes, Command
    PROVE  ConfTypes'
<1>1. CASE Overrun
  BY <1>1 DEF Overrun, ConfTypes, Reader, Registered, Travels, config
<1>2. ASSUME NEW st, Link(st) \/ Unknown(st)
      PROVE  ConfTypes'
  <2>1. PICK id : Reads(id, st) /\ Done(st)
    BY <1>2 DEF Link, Unknown
  <2>2. Reader'
    BY <2>1, DoneTyped DEF ConfTypes
  <2>3. node_map' = node_map /\ flows' = flows /\ packet' = packet
    BY <1>2 DEF Link, Unknown, Done
  <2> QED
    BY <2>2, <2>3 DEF ConfTypes, Registered, Travels
<1>3. ASSUME NEW st, FIFONode(st) \/ Host(st) \/ Router(st)
      PROVE  ConfTypes'
  <2>1. PICK id \in Classes : /\ Reads(id, st) /\ Done(st)
                              /\ node_map' = Register(AsAddress(st.args[1]), id)
    BY <1>3 DEF FIFONode, Host, Router, Classes
  <2>2. Reader'
    BY <2>1, DoneTyped DEF ConfTypes
  <2>3. AsAddress(st.args[1]) \in Addresses
    BY <2>1, ReadsTyped DEF ConfTypes
  <2>4. Registered'
    BY <2>1, <2>3, RegisterTyped DEF ConfTypes
  <2>5. flows' = flows /\ packet' = packet
    BY <1>3 DEF FIFONode, Host, Router, Done
  <2> QED
    BY <2>2, <2>4, <2>5 DEF ConfTypes, Travels
<1>4. ASSUME NEW st, FDTPFlow(st)
      PROVE  ConfTypes'
  <2>1. Reads("FDTPFlow", st) /\ Done(st) /\ node_map' = node_map /\ packet' = packet
    BY <1>4 DEF FDTPFlow, Done
  <2>2. Reader'
    BY <2>1, DoneTyped DEF ConfTypes
  <2>3. /\ AsAddress(st.args[1]) \in Addresses /\ AsAddress(st.args[2]) \in Addresses
        /\ st.args[3] \in Int
    BY <2>1, ReadsTyped DEF ConfTypes
  <2>4. ClassOf(AsAddress(st.args[1])) \in Classes \cup {"NULL"}
    BY ClassTyped DEF ConfTypes
  <2>5. PICK f \in AFlow : flows' = Append(flows, f)
    BY <1>4, <2>3, <2>4 DEF FDTPFlow, AFlow
  <2>6. flows' \in Seq(AFlow)
    BY <2>5 DEF ConfTypes, Travels
  <2> QED
    BY <2>1, <2>2, <2>6 DEF ConfTypes, Registered, Travels
<1>5. ASSUME NEW st, Fatal(st)
      PROVE  ConfTypes'
  BY <1>5 DEF Fatal, ConfTypes, Reader, Registered, Travels, config
<1> QED
  BY <1>1, <1>2, <1>3, <1>4, <1>5 DEF Command

LEMMA TypesStep ==
    ASSUME ConfTypes, TypeOK, [ConfNext]_confVars
    PROVE  ConfTypes'
<1>1. CASE Command
  BY <1>1, CommandTyped
<1>2. CASE Run \/ Forward \/ Route \/ UNCHANGED confVars
  BY <1>2 DEF Run, Forward, Route, confVars, config, ConfTypes, Reader, Registered, Travels
<1>3. ASSUME NEW i \in DOMAIN flows, StartFlow(i)
      PROVE  ConfTypes'
  <2>1. flows[i] \in AFlow
    BY DEF ConfTypes, Travels
  <2>2. packet' \in {<<>>} \cup (AFlow \X Addresses)
    <3>1. flows[i].source \in Addresses
      BY <2>1 DEF AFlow
    <3>2. packet' \in {packet, <<flows[i], flows[i].source>>}
      BY <1>3 DEF StartFlow, Stop
    <3> QED
      BY <2>1, <3>1, <3>2 DEF ConfTypes, Travels
  <2>3. UNCHANGED <<config, node_map, flows>>
    BY <1>3 DEF StartFlow, Stop
  <2> QED
    BY <2>2, <2>3 DEF config, ConfTypes, Reader, Registered, Travels
<1>4. CASE Arrive
  <2>1. packet # <<>> /\ answer # <<>> /\ packet' = [packet EXCEPT ![2] = answer[3]]
    BY <1>4 DEF Arrive
  <2>2. answer[3] \in Addresses
    BY <2>1 DEF TypeOK
  <2>3. packet' \in AFlow \X Addresses
    <3>1. PICK f \in AFlow, a \in Addresses : packet = <<f, a>>
      BY <2>1 DEF ConfTypes, Travels
    <3>2. packet' = <<f, answer[3]>>
      BY <2>1, <3>1
    <3> QED
      BY <2>2, <3>2
  <2>4. UNCHANGED <<config, node_map, flows>>
    BY <1>4 DEF Arrive
  <2> QED
    BY <2>3, <2>4 DEF config, ConfTypes, Reader, Registered, Travels
<1> QED
  BY <1>1, <1>2, <1>3, <1>4 DEF ConfNext

(* Every step keeps the invariant of Topology.                             *)
LEMMA TopologySteps ==
    ASSUME AnyCost, ConfTypes, TopologyInv, [ConfNext]_confVars
    PROVE  TopologyInv'
<1>1. UNCHANGED vars => TopologyInv'
  BY TopologyStep
<1>2. ASSUME NEW st, Link(st)
      PROVE  TopologyInv'
  <2>1. Reads("Link", st)
    BY <1>2 DEF Link
  <2>2. \A i \in 1 .. 4 : st.args[i] \in Int /\ AsAddress(st.args[i]) \in Addresses
    BY <2>1, ReadsTyped DEF ConfTypes
  <2>3. [plat |-> st.args[3], bit_time |-> st.args[4]] \in Costs
    BY <2>2 DEF AnyCost
  <2>4. AsAddress(st.args[1]) \in Addresses /\ AsAddress(st.args[2]) \in Addresses
    BY <2>2
  <2> QED
    BY <1>2, <2>3, <2>4, AddLinkKeeps DEF Link
<1>3. CASE Forward
  <2>1. PICK f \in AFlow, a \in Addresses : packet = <<f, a>>
    BY <1>3 DEF Forward, ConfTypes, Travels
  <2>2. f.destination \in Addresses /\ Ask(a, f.destination)
    BY <1>3, <2>1 DEF Forward, AFlow
  <2> QED
    BY <2>2, AskKeepsInv
<1>4. CASE Route
  BY <1>4, SearchKeepsInv DEF Route
<1>5. CASE Arrive
  <2>1. answer' = <<>> /\ UNCHANGED <<linkMap, commands, query, bfsq, aborted>>
    BY <1>5 DEF Arrive
  <2>2. answer # <<>>
    BY <1>5 DEF Arrive
  <2>3. query' = <<>>
    BY <2>1, <2>2 DEF TopologyInv, SearchInv
  <2>4. TypeOK'
    BY <2>1 DEF TopologyInv, TypeOK
  <2> QED
    BY <2>1, <2>3, <2>4 DEF TopologyInv, LinksInv, SearchInv, AnswerInv
<1>6. CASE \/ \E st : FIFONode(st) \/ Host(st) \/ Router(st) \/ FDTPFlow(st) \/ Unknown(st) \/ Fatal(st)
           \/ Overrun \/ Run \/ (\E i \in DOMAIN flows : StartFlow(i)) \/ UNCHANGED confVars
  <2>1. UNCHANGED vars
    BY <1>6 DEF FIFONode, Host, Router, FDTPFlow, Unknown, Fatal, Overrun, Run, StartFlow,
       Stop, confVars
  <2> QED
    BY <1>1, <2>1
<1> QED
  BY <1>2, <1>3, <1>4, <1>5, <1>6 DEF ConfNext, Command

LEMMA ConfTypesInit == ConfInit => ConfTypes /\ TopologyInv
<1> SUFFICES ASSUME ConfInit
             PROVE  ConfTypes /\ TopologyInv
  OBVIOUS
<1>1. TopologyInv
  BY TopologyInit DEF ConfInit
<1>2. Reader
  BY ConfigurationAssumption DEF ConfInit, Reader
<1>3. Registered
  <2>1. node_map \in [{} -> Classes]
    BY DEF ConfInit
  <2> QED
    BY <2>1 DEF Registered
<1>4. Travels
  BY DEF ConfInit, Travels
<1> QED
  BY <1>1, <1>2, <1>3, <1>4 DEF ConfTypes

LEMMA ReaderStep ==
    ASSUME Reader, [ConfNext]_confVars
    PROVE  Reader'
<1>1. CASE UNCHANGED config
  BY <1>1 DEF config, Reader
<1>2. ASSUME NEW st, NEW id, Reads(id, st), Done(st)
      PROVE  Reader'
  BY <1>2, DoneTyped
<1>3. UNCHANGED config \/ \E id, st : Reads(id, st) /\ Done(st)
  BY DEF ConfNext, Command, Link, FIFONode, Host, Router, FDTPFlow, Unknown, Fatal, Overrun,
     Run, StartFlow, Stop, Forward, Route, Arrive, confVars
<1> QED
  BY <1>1, <1>2, <1>3

-----------------------------------------------------------------------------
(* The links of a file                                                     *)

\* The Link commands read for two addresses, and the last of some commands.
LinkLines(s, d) == {i \in ReadLines({"Link"}) : {file[i].args[1], file[i].args[2]} = {s, d}}
Latest(I, i) == i \in I /\ \A j \in I : j <= i
CostOf(i) == [plat |-> file[i].args[3], bit_time |-> file[i].args[4]]

WrittenInv ==
    \A s, d \in Addresses : s # d =>
        \A c : Has(linkMap[s], d, c) <=> \E i \in LinkLines(s, d) : Latest(LinkLines(s, d), i) /\ c = CostOf(i)

(* A command of a well-formed file is given its own arguments.             *)
LEMMA OwnArguments ==
    ASSUME Reader, WellFormed, line <= Len(file), NEW st, st = ReadArgs(file[line].args),
           NEW id, id = file[line].id
    PROVE  /\ id \in DOMAIN ArgCount /\ line \in DOMAIN file
           /\ st.num = ArgCount[id]
           /\ \A i \in 1 .. ArgCount[id] : st.args[i] = file[line].args[i]
           /\ AsAddress(file[line].args[1]) = file[line].args[1]
           /\ id \in {"Link", "FDTPFlow"} =>
                 AsAddress(file[line].args[2]) = file[line].args[2]
<1> DEFINE c == file[line]
<1>1. /\ file \in Seq([id : STRING, args : Seq(Int)]) /\ line \in DOMAIN file
      /\ DOMAIN file = 1 .. Len(file)
  BY ConfigurationAssumption DEF Reader
<1>2. c.args \in Seq(Int)
  <2>1. file[line] \in [id : STRING, args : Seq(Int)]
    BY <1>1, ElementOfSeq, Zenon
  <2> QED
    BY <2>1
<1>3. /\ id \in DOMAIN ArgCount /\ Len(c.args) = ArgCount[id]
      /\ \A k \in DOMAIN c.args : c.args[k] < 0 <=> id = "FDTPFlow" /\ k = 4
      /\ c.args[1] < AddressSize
      /\ id \in {"Link", "FDTPFlow"} => c.args[2] < AddressSize
  BY <1>1 DEF WellFormed
<1>4. ArgCount[id] \in 1 .. 4 /\ (id \in {"Link", "FDTPFlow"} => ArgCount[id] = 4)
  BY <1>3 DEF ArgCount
<1>5. ArgCount[id] <= MaxArgs
  BY <1>4, ConfigurationAssumption
<1> HIDE DEF c
<1>6. /\ ReadArgs(c.args).num = Len(c.args)
      /\ \A i \in 1 .. Len(c.args) : ReadArgs(c.args).args[i] = c.args[i]
  BY <1>2, <1>3, <1>5, ReadArgsAll DEF Reader
<1>7. st = ReadArgs(c.args)
  BY DEF c
<1>8. DOMAIN c.args = 1 .. ArgCount[id] /\ \A i \in 1 .. ArgCount[id] : c.args[i] \in Int
  BY <1>2, <1>3
<1>9. \A v \in 0 .. AddressSize - 1 : AsAddress(v) = v
  BY ConfigurationAssumption DEF AsAddress
<1>10. c.args[1] \in 0 .. AddressSize - 1
  <2>1. 1 \in 1 .. ArgCount[id]
    BY <1>4
  <2>2. c.args[1] \in Int /\ ~(c.args[1] < 0)
    BY <1>3, <1>8, <2>1
  <2> QED
    BY <1>3, <2>2, ConfigurationAssumption
<1>11. ASSUME id \in {"Link", "FDTPFlow"}
       PROVE  c.args[2] \in 0 .. AddressSize - 1
  <2>1. 2 \in 1 .. ArgCount[id]
    BY <1>4, <1>11
  <2>2. c.args[2] \in Int /\ ~(c.args[2] < 0)
    BY <1>3, <1>8, <2>1
  <2> QED
    BY <1>3, <1>11, <2>2, ConfigurationAssumption
<1> QED
  BY <1>1, <1>3, <1>6, <1>7, <1>9, <1>10, <1>11 DEF c

(* A Link command of a well-formed file is the last one for its addresses. *)
LEMMA WrittenLink ==
    ASSUME Reader, LinksInv, WellFormed, WrittenInv, NEW st, Link(st)
    PROVE  WrittenInv'
<1> DEFINE s == file[line].args[1]
           d == file[line].args[2]
           c == CostOf(line)
<1>1. Reads("Link", st) /\ file[line].id = "Link" /\ file' = file /\ line' = line + 1
  BY DEF Link, Done, Reads
<1>2. ArgCount["Link"] = 4 /\ line <= Len(file) /\ st = ReadArgs(file[line].args)
  BY <1>1 DEF ArgCount, Reads
<1>3. /\ AsAddress(s) = s /\ AsAddress(d) = d
      /\ \A i \in 1 .. 4 : st.args[i] = file[line].args[i]
  BY <1>1, <1>2, OwnArguments
<1>4. s \in Addresses /\ d \in Addresses /\ AddLink(s, d, c)
  <2>1. \A i \in 1 .. 4 : AsAddress(st.args[i]) \in Addresses
    BY <1>1, ReadsTyped
  <2>2. s \in Addresses /\ d \in Addresses
    BY <1>3, <2>1
  <2> QED
    BY <1>3, <2>2 DEF Link, CostOf
<1>5. line \in Nat /\ line # 0
  BY DEF Reader
<1>6. ReadLines({"Link"})' = ReadLines({"Link"}) \cup {line}
  BY <1>1, <1>5 DEF ReadLines
<1>7. \A a, x : LinkLines(a, x)' = IF {a, x} = {s, d} THEN LinkLines(a, x) \cup {line}
                                                      ELSE LinkLines(a, x)
  BY <1>1, <1>6 DEF LinkLines
<1>8. \A a, x : \A i \in LinkLines(a, x) : i \in Int /\ i < line
  BY <1>5 DEF LinkLines, ReadLines
<1>9. \A i : CostOf(i)' = CostOf(i)
  BY <1>1 DEF CostOf
<1>10. /\ \A a \in Addresses : \A x : ~(a = s /\ x = d) /\ ~(a = d /\ x = s) =>
             Same(linkMap'[a], linkMap[a], x)
       /\ s # d => /\ \A k : Has(linkMap'[s], d, k) <=> k = c
                   /\ \A k : Has(linkMap'[d], s, k) <=> k = c
  BY <1>4, AddLinkShape
<1> HIDE DEF s, d, c
<1>11. ASSUME NEW a \in Addresses, NEW x \in Addresses, a # x, NEW k
       PROVE  Has(linkMap'[a], x, k) <=>
                 \E i \in LinkLines(a, x)' : Latest(LinkLines(a, x)', i) /\ k = CostOf(i)
  <2>1. CASE {a, x} = {s, d}
    <3>1. s # d /\ ((a = s /\ x = d) \/ (a = d /\ x = s))
      BY <1>11, <2>1
    <3>2. Has(linkMap'[a], x, k) <=> k = c
      BY <1>10, <3>1
    <3>3. LinkLines(a, x)' = LinkLines(a, x) \cup {line}
      BY <1>7, <2>1
    <3>4. \A i : Latest(LinkLines(a, x) \cup {line}, i) <=> i = line
      BY <1>5, <1>8 DEF Latest
    <3> QED
      BY <3>2, <3>3, <3>4 DEF c
  <2>2. CASE {a, x} # {s, d}
    <3>1. Has(linkMap'[a], x, k) <=> Has(linkMap[a], x, k)
      BY <1>10, <2>2 DEF Same
    <3>2. LinkLines(a, x)' = LinkLines(a, x)
      BY <1>7, <2>2
    <3> QED
      BY <1>11, <3>1, <3>2 DEF WrittenInv
  <2> QED
    BY <2>1, <2>2
<1> QED
  BY <1>9, <1>11 DEF WrittenInv, Latest

\* The line behind the last one read is the next one.
LEMMA WrittenStep ==
    ASSUME Reader, LinksInv, WellFormed => WrittenInv, [ConfNext]_confVars, WellFormed'
    PROVE  WrittenInv'
<1>1. file' = file
  BY DEF ConfNext, Command, Link, FIFONode, Host, Router, FDTPFlow, Unknown, Fatal, Overrun,
     Run, StartFlow, Stop, Forward, Route, Arrive, Done, config, confVars
<1>2. WellFormed
  BY <1>1 DEF WellFormed
<1>3. ASSUME NEW st, Link(st)
      PROVE  WrittenInv'
  BY <1>2, <1>3, WrittenLink
<1>4. ASSUME \A st : ~Link(st)
      PROVE  linkMap' = linkMap
  BY <1>4, SearchKeepsLinks DEF ConfNext, Command, FIFONode, Host, Router, FDTPFlow, Unknown,
     Fatal, Overrun, Run, StartFlow, Stop, Forward, Ask, Route, Arrive, confVars, vars
<1>5. ASSUME \A st : ~Link(st)
      PROVE  line' = line \/ (line' = line + 1 /\ file[line].id # "Link")
  BY <1>5 DEF ConfNext, Command, FIFONode, Host, Router, FDTPFlow, Unknown,
     Fatal, Overrun, Run, StartFlow, Stop, Forward, Route, Arrive, confVars, config,
     Done, Reads, ArgCount
<1>6. ASSUME \A st : ~Link(st)
      PROVE  WrittenInv'
  <2>1. line \in Nat \ {0}
    BY DEF Reader
  <2>2. \A i \in 1 .. line : i # line => i \in 1 .. line - 1
    BY <2>1
  <2>3. ReadLines({"Link"})' = ReadLines({"Link"})
    <3>1. CASE line' = line
      BY <1>1, <3>1 DEF ReadLines
    <3>2. CASE line' = line + 1 /\ file[line].id # "Link"
      BY <1>1, <2>1, <2>2, <3>2 DEF ReadLines
    <3> QED
      BY <1>5, <1>6, <3>1, <3>2
  <2>4. \A s, d : LinkLines(s, d)' = LinkLines(s, d)
    BY <1>1, <2>3 DEF LinkLines
  <2>5. \A i : CostOf(i)' = CostOf(i)
    BY <1>1 DEF CostOf
  <2> QED
    BY <1>2, <1>4, <1>6, <2>4, <2>5 DEF WrittenInv, Latest
<1> QED
  BY <1>3, <1>6

(* The last of finitely many commands.                                     *)
LEMMA LastExists ==
    ASSUME NEW n \in Nat, NEW I \in SUBSET (1 .. n), I # {}
    PROVE  \E i \in I : Latest(I, i) /\ Max(I) = i
<1> DEFINE J == {n - i : i \in I}
<1>1. J \in SUBSET Nat /\ J # {}
  OBVIOUS
<1> HIDE DEF J
<1>2. PICK m \in J : \A k \in J : m <= k
  BY <1>1, LeastIs
<1>3. PICK i \in I : m = n - i
  BY <1>2 DEF J
<1>4. \A j \in I : n - j \in J
  BY DEF J
<1>5. \A j \in I : j <= i
  <2> TAKE j \in I
  <2>1. n - i <= n - j /\ i \in Int /\ j \in Int
    BY <1>2, <1>3, <1>4
  <2> QED
    BY <2>1
<1>6. Max(I) = i
  <2>1. I \in SUBSET Int
    OBVIOUS
  <2> QED
    BY <1>5, <2>1, MaxIs
<1> QED
  BY <1>5, <1>6 DEF Latest

(* What the invariant says of the links that find_link returns.            *)
LEMMA WrittenLinks ==
    ASSUME Reader, LinksInv, WrittenInv
    PROVE  \A s, d \in Addresses : s # d =>
              /\ HasLink(linkMap, s, d) <=> LinkLines(s, d) # {}
              /\ LinkLines(s, d) # {} => FindLink(linkMap, s, d).cost = CostOf(Max(LinkLines(s, d)))
<1> TAKE s, d \in Addresses
<1> HAVE s # d
<1> DEFINE I == {i \in DOMAIN linkMap[s] : linkMap[s][i].neighbor = d}
<1>1. DOMAIN linkMap[s] = 1 .. Len(linkMap[s])
  BY DEF LinksInv, Lists, IsList
<1>2. \A c : Has(linkMap[s], d, c) <=>
            \E i \in LinkLines(s, d) : Latest(LinkLines(s, d), i) /\ c = CostOf(i)
  BY DEF WrittenInv
<1>3. HasLink(linkMap, s, d) => \E c : Has(linkMap[s], d, c)
  BY <1>1 DEF HasLink, Has
<1>4. ASSUME LinkLines(s, d) # {}
      PROVE  /\ HasLink(linkMap, s, d)
             /\ FindLink(linkMap, s, d).cost = CostOf(Max(LinkLines(s, d)))
  <2>1. line - 1 \in Nat /\ LinkLines(s, d) \in SUBSET (1 .. line - 1)
    BY DEF Reader, LinkLines, ReadLines
  <2>2. PICK k \in LinkLines(s, d) : Latest(LinkLines(s, d), k) /\ Max(LinkLines(s, d)) = k
    BY <1>4, <2>1, LastExists
  <2>3. \A i \in LinkLines(s, d) : Latest(LinkLines(s, d), i) => i = k
    <3> SUFFICES ASSUME NEW i \in LinkLines(s, d), Latest(LinkLines(s, d), i)
                 PROVE  i = k
      OBVIOUS
    <3>1. i <= k /\ k <= i /\ i \in Int /\ k \in Int
      BY <2>1, <2>2 DEF Latest
    <3> QED
      BY <3>1
  <2>4. Has(linkMap[s], d, CostOf(k))
    BY <1>2, <2>2
  <2>5. HasLink(linkMap, s, d) /\ I # {}
    BY <1>1, <2>4 DEF Has, HasLink
  <2>6. Min(I) \in I
    <3>1. I \in SUBSET Nat
      BY <1>1
    <3> HIDE DEF I
    <3> QED
      BY <2>5, <3>1, MinIsIn
  <2>7. Has(linkMap[s], d, FindLink(linkMap, s, d).cost)
    BY <1>1, <2>6 DEF FindLink, Has
  <2> QED
    BY <1>2, <2>2, <2>3, <2>5, <2>7
<1> QED
  BY <1>2, <1>3, <1>4

LEMMA WrittenInit == ConfInit => WrittenInv
<1> SUFFICES ASSUME ConfInit
             PROVE  WrittenInv
  OBVIOUS
<1>1. \A s, d : LinkLines(s, d) = {}
  BY DEF ConfInit, LinkLines, ReadLines
<1>2. \A a \in Addresses : \A x, c : ~Has(linkMap[a], x, c)
  BY DEF ConfInit, Init, Has
<1> QED
  BY <1>1, <1>2 DEF WrittenInv

-----------------------------------------------------------------------------
(* The nodes of a file                                                     *)

\* The commands read that give an address a node; the first one counts.
NodeLines(a) == {i \in ReadLines(Classes) : file[i].args[1] = a}
Earliest(I, i) == i \in I /\ \A j \in I : i <= j

NodesInv ==
    \A a : \A class \in Classes :
        ClassOf(a) = class <=>
            \E i \in NodeLines(a) : Earliest(NodeLines(a), i) /\ file[i].id = class

(* A command for a node is in effect if it is the first for its address.   *)
LEMMA NodesRegister ==
    ASSUME Reader, Registered, WellFormed, NodesInv,
           NEW id \in Classes, NEW st, Reads(id, st), Done(st),
           node_map' = Register(AsAddress(st.args[1]), id)
    PROVE  NodesInv'
<1> DEFINE b == file[line].args[1]
<1>1. /\ file[line].id = id /\ file' = file /\ line' = line + 1
      /\ line <= Len(file) /\ st = ReadArgs(file[line].args)
  BY DEF Reads, Done
<1>2. node_map' = Register(b, id)
  <2>1. /\ id \in DOMAIN ArgCount /\ AsAddress(b) = b
        /\ \A i \in 1 .. ArgCount[id] : st.args[i] = file[line].args[i]
    BY <1>1, OwnArguments
  <2>2. 1 \in 1 .. ArgCount[id]
    BY DEF ArgCount, Classes
  <2>3. st.args[1] = b
    BY <2>1, <2>2
  <2> QED
    BY <2>1, <2>3
<1>3. line \in Nat \ {0}
  BY DEF Reader
<1>4. ReadLines(Classes)' = ReadLines(Classes) \cup {line}
  BY <1>1, <1>3 DEF ReadLines, Classes
<1>5. \A a : NodeLines(a)' = IF a = b THEN NodeLines(a) \cup {line} ELSE NodeLines(a)
  BY <1>1, <1>4 DEF NodeLines
<1>6. \A a : \A i \in NodeLines(a) : i \in Nat /\ i < line
  BY <1>3 DEF NodeLines, ReadLines
<1> HIDE DEF b
<1>7. \A a : ClassOf(a)' = IF a = b /\ ClassOf(a) = "NULL" THEN id ELSE ClassOf(a)
  <2>1. "NULL" \notin Classes /\ \E D : node_map \in [D -> Classes]
    BY DEF Registered, Classes
  <2> QED
    BY <1>2, <2>1 DEF Register, ClassOf
<1>8. ASSUME ClassOf(b) = "NULL"
      PROVE  NodeLines(b) = {}
  <2> SUFFICES ASSUME NodeLines(b) # {}
               PROVE  FALSE
    OBVIOUS
  <2>1. NodeLines(b) \in SUBSET Nat
    BY <1>6
  <2>2. PICK i \in NodeLines(b) : Earliest(NodeLines(b), i)
    BY <2>1, LeastIs DEF Earliest
  <2>3. file[i].id \in Classes
    BY DEF NodeLines, ReadLines
  <2>4. ClassOf(b) = file[i].id
    BY <2>2, <2>3 DEF NodesInv
  <2> QED
    BY <1>8, <2>3, <2>4 DEF Classes
<1>9. ASSUME NEW a, NEW class \in Classes
      PROVE  ClassOf(a)' = class <=>
                \E i \in NodeLines(a)' : Earliest(NodeLines(a)', i) /\ file[i].id = class
  <2>1. CASE a = b /\ ClassOf(a) = "NULL"
    <3>1. NodeLines(a)' = {line}
      BY <1>5, <1>8, <2>1
    <3>2. \A i : Earliest({line}, i) <=> i = line
      BY <1>3 DEF Earliest
    <3> QED
      BY <1>1, <1>7, <2>1, <3>1, <3>2
  <2>2. CASE a = b /\ ClassOf(a) # "NULL"
    <3>1. ClassOf(a) \in Classes
      BY <2>2, ClassTyped
    <3>2. PICK k \in NodeLines(a) : Earliest(NodeLines(a), k)
      BY <3>1 DEF NodesInv
    <3>3. \A i : Earliest(NodeLines(a) \cup {line}, i) <=> Earliest(NodeLines(a), i)
      BY <1>3, <1>6, <3>2 DEF Earliest
    <3>4. NodeLines(a)' = NodeLines(a) \cup {line}
      BY <1>5, <2>2
    <3>5. \A i : Earliest(NodeLines(a), i) => i \in NodeLines(a)
      BY DEF Earliest
    <3>6. ClassOf(a)' = ClassOf(a)
      BY <1>7, <2>2
    <3>7. ClassOf(a) = class <=> \E i \in NodeLines(a) : Earliest(NodeLines(a), i) /\ file[i].id = class
      BY DEF NodesInv
    <3> QED
      BY <3>3, <3>4, <3>5, <3>6, <3>7
  <2>3. CASE a # b
    <3>1. ClassOf(a)' = ClassOf(a) /\ NodeLines(a)' = NodeLines(a)
      BY <1>5, <1>7, <2>3
    <3> QED
      BY <3>1 DEF NodesInv
  <2> QED
    BY <2>1, <2>2, <2>3
<1> QED
  BY <1>1, <1>9 DEF NodesInv, Earliest

(* Declares, of the commands that have been read.                          *)
LEMMA DeclaredClass ==
    ASSUME Reader, NodesInv, line <= Len(file) + 1,
           NEW a, NEW ids \in SUBSET Classes, Declares(a, ids) \in 1 .. line - 1
    PROVE  ClassOf(a) \in ids
<1> DEFINE mine == {i \in DOMAIN file : file[i].id \in {"Host", "Router", "FIFONode"}
                                        /\ file[i].args[1] = a}
<1>1. DOMAIN file = 1 .. Len(file) /\ Len(file) \in Nat /\ line \in Nat
  BY ConfigurationAssumption DEF Reader
<1>2. mine \in SUBSET Nat /\ 0 \notin 1 .. line - 1
  BY <1>1
<1>3. mine # {} /\ Declares(a, ids) = Min(mine) /\ file[Min(mine)].id \in ids
  <2> HIDE DEF mine
  <2>1. Declares(a, ids) = IF mine = {} THEN 0
                           ELSE IF file[Min(mine)].id \in ids THEN Min(mine) ELSE 0
    BY DEF Declares, mine
  <2> QED
    BY <1>2, <2>1
<1> HIDE DEF mine
<1>4. PICK m \in mine : m = Min(mine) /\ \A n \in mine : m <= n
  BY <1>2, <1>3, LeastIs
<1>5. m \in 1 .. line - 1 /\ file[m].id \in ids
  BY <1>3, <1>4
<1>6. NodeLines(a) \subseteq mine /\ m \in NodeLines(a)
  BY <1>1, <1>4, <1>5 DEF NodeLines, ReadLines, Classes, mine
<1>7. Earliest(NodeLines(a), m)
  BY <1>4, <1>6 DEF Earliest
<1> QED
  BY <1>5, <1>6, <1>7 DEF NodesInv

(* At the end of the file, of all commands.                                *)
LEMMA DeclaresRead ==
    ASSUME Reader, NodesInv, line = Len(file) + 1,
           NEW a, NEW ids \in SUBSET Classes, Declares(a, ids) # 0
    PROVE  ClassOf(a) \in ids
<1> DEFINE mine == {i \in DOMAIN file : file[i].id \in {"Host", "Router", "FIFONode"}
                                        /\ file[i].args[1] = a}
<1>1. DOMAIN file = 1 .. line - 1 /\ line <= Len(file) + 1
  BY ConfigurationAssumption DEF Reader
<1>2. mine \in SUBSET Nat
  BY <1>1
<1>3. Declares(a, ids) = IF mine = {} THEN 0
                         ELSE IF file[Min(mine)].id \in ids THEN Min(mine) ELSE 0
  BY DEF Declares
<1> HIDE DEF mine
<1>4. Declares(a, ids) \in mine
  BY <1>2, <1>3, MinIsIn
<1>5. Declares(a, ids) \in 1 .. line - 1
  BY <1>1, <1>4 DEF mine
<1> QED
  BY <1>1, <1>5, DeclaredClass

-----------------------------------------------------------------------------
(* Consistent files                                                        *)

FlowsMeant ==
    \A i \in DOMAIN flows :
        /\ flows[i].node = "Host" /\ Declares(flows[i].destination, {"Host"}) # 0
        /\ flows[i].source # flows[i].destination

ModesInv ==
    /\ mode \in {"reading", "running", "delivered"}
    /\ line <= Len(file) + 1
    /\ mode # "reading" => line = Len(file) + 1

\* nexthop works for the packet at hand, which is on its way.
PacketInv ==
    /\ packet = <<>> => query = <<>> /\ answer = <<>>
    /\ mode = "reading" => packet = <<>>
    /\ mode = "running" /\ packet # <<>> => packet[2] # packet[1].destination
    /\ query # <<>> => query[2] = packet[1].destination /\ query[1] # query[2]
    /\ answer # <<>> => answer[2] = packet[1].destination /\ answer[1] # answer[2]

\* Where a path leads on, there is a node, and a host only at its end.
LEMMA HopClass ==
    ASSUME Reader, LinksInv, WrittenInv, NodesInv, Consistent, line = Len(file) + 1,
           NEW s \in Addresses, NEW d \in Addresses, NEW n \in Addresses,
           GoodHop(linkMap, s, d, n), TwoWay(linkMap)
    PROVE  ClassOf(n) # "NULL" /\ (n = d \/ ClassOf(n) # "Host")
<1>1. DOMAIN file = 1 .. line - 1 /\ line <= Len(file) + 1 /\ line \in Nat
  BY ConfigurationAssumption DEF Reader
<1>2. \A a : \A ids \in SUBSET Classes : Declares(a, ids) # 0 => ClassOf(a) \in ids
  BY DeclaresRead
<1>3. PICK k \in Nat : n \in WithinOf(linkMap, d, k) /\ s \notin WithinOf(linkMap, d, k)
  BY DEF GoodHop
<1>4. ASSUME NEW a \in Addresses, NEW x \in Addresses, a # x, HasLink(linkMap, a, x)
      PROVE  \E i \in DOMAIN file : file[i].id = "Link" /\ {file[i].args[1], file[i].args[2]} = {a, x}
  <2>1. PICK i : i \in LinkLines(a, x)
    BY <1>4, WrittenLinks
  <2>2. i \in 1 .. line - 1 /\ file[i].id = "Link" /\ {file[i].args[1], file[i].args[2]} = {a, x}
    BY <2>1 DEF LinkLines, ReadLines
  <2> QED
    BY <1>1, <2>2
<1>5. PICK i \in DOMAIN file : file[i].id = "Link" /\ {file[i].args[1], file[i].args[2]} = {s, n}
  BY <1>3, <1>4 DEF GoodHop
<1>6. PICK p \in {1, 2} : file[i].args[p] = n
  BY <1>5
<1>7. \/ Declares(n, {"Router", "FIFONode"}) # 0
      \/ /\ Declares(n, {"Host"}) # 0
         /\ \A j \in DOMAIN file :
               file[j].id = "Link" /\ n \in {file[j].args[1], file[j].args[2]}
                  => {file[j].args[1], file[j].args[2]} = {s, n}
  BY <1>5, <1>6, Zenon DEF Consistent
<1>8. CASE Declares(n, {"Router", "FIFONode"}) # 0
  BY <1>2, <1>8 DEF Classes
<1>9. CASE /\ Declares(n, {"Host"}) # 0
           /\ \A j \in DOMAIN file :
                 file[j].id = "Link" /\ n \in {file[j].args[1], file[j].args[2]}
                    => {file[j].args[1], file[j].args[2]} = {s, n}
  <2>1. ClassOf(n) = "Host"
    BY <1>2, <1>9 DEF Classes
  <2> SUFFICES ASSUME n # d
               PROVE  FALSE
    BY <2>1
  <2> DEFINE K == {j \in Nat : n \in WithinOf(linkMap, d, j)}
  <2>2. PICK j \in K : \A h \in K : j <= h
    <3>1. K \in SUBSET Nat /\ K # {}
      BY <1>3
    <3> HIDE DEF K
    <3> QED
      BY <3>1, LeastIs
  <2>3. j # 0 /\ j \in Nat /\ j <= k
    <3>1. WithinOf(linkMap, d, 0) = {d}
      BY WithinSteps
    <3> QED
      BY <1>3, <2>2, <3>1
  <2>4. j - 1 \in Nat /\ j - 1 + 1 = j /\ j - 1 <= k /\ ~(j <= j - 1)
    BY <2>3
  <2>5. n \notin WithinOf(linkMap, d, j - 1)
    BY <2>2, <2>4
  <2>6. WithinOf(linkMap, d, j) = Farther(linkMap, WithinOf(linkMap, d, j - 1))
    BY <2>4, WithinStep
  <2>7. PICK x \in WithinOf(linkMap, d, j - 1) : HasLink(linkMap, x, n)
    BY <2>2, <2>5, <2>6 DEF Farther
  <2>8. x \in Addresses /\ x # n
    BY <2>4, <2>5, <2>7, WithinAddresses
  <2>9. x # s
    <3>1. WithinOf(linkMap, d, j - 1) \subseteq WithinOf(linkMap, d, k)
      BY <2>4, WithinMonotone
    <3> QED
      BY <1>3, <2>7, <3>1
  <2>10. PICK h \in DOMAIN file :
            file[h].id = "Link" /\ {file[h].args[1], file[h].args[2]} = {x, n}
    BY <1>4, <2>7, <2>8
  <2>11. {x, n} = {s, n}
    BY <1>9, <2>10
  <2> QED
    BY <2>8, <2>9, <2>11
<1> QED
  BY <1>7, <1>8, <1>9

ConsistentInv == NodesInv /\ FlowsMeant /\ ModesInv /\ PacketInv

LEMMA FileStays == [ConfNext]_confVars => file' = file
  BY DEF ConfNext, Command, Link, FIFONode, Host, Router, FDTPFlow, Unknown, Fatal, Overrun,
     Run, StartFlow, Stop, Forward, Route, Arrive, Done, config, confVars

\* What the steps have to begin with.
Begins ==
    /\ ConfTypes /\ TopologyInv /\ (WellFormed => WrittenInv)
    /\ Consistent /\ ConsistentInv

(* The parts of a consistent file that a step does not read.               *)
LEMMA NodesStay ==
    ASSUME Reader, NodesInv, file' = file, node_map' = node_map,
           \/ line' = line
           \/ line' = line + 1 /\ file[line].id \notin Classes
    PROVE  NodesInv'
<1>1. line \in Nat \ {0}
  BY DEF Reader
<1>2. ReadLines(Classes)' = ReadLines(Classes)
  <2>1. \A i \in 1 .. line : i # line => i \in 1 .. line - 1
    BY <1>1
  <2>2. CASE line' = line
    BY <2>2 DEF ReadLines
  <2>3. CASE line' = line + 1 /\ file[line].id \notin Classes
    BY <1>1, <2>1, <2>3 DEF ReadLines
  <2> QED
    BY <2>2, <2>3
<1>3. \A a : NodeLines(a)' = NodeLines(a)
  BY <1>2 DEF NodeLines
<1>4. \A a : ClassOf(a)' = ClassOf(a)
  BY DEF ClassOf
<1> QED
  BY <1>3, <1>4 DEF NodesInv, Earliest

LEMMA FlowsStay == FlowsMeant /\ flows' = flows /\ file' = file => FlowsMeant'
  BY DEF FlowsMeant, Declares

LEMMA PacketStays ==
    PacketInv /\ UNCHANGED <<vars, packet>> /\ (mode' = mode \/ packet = <<>>) => PacketInv'
  BY DEF PacketInv, vars

(* Each command of a consistent file.                                      *)
LEMMA ConsistentCommand ==
    ASSUME Begins, Command
    PROVE  ConsistentInv'
<1>1. /\ Reader /\ Registered /\ WellFormed /\ file' = file
      /\ NodesInv /\ FlowsMeant /\ ModesInv /\ PacketInv
  BY FileStays DEF Begins, ConfTypes, Consistent, ConsistentInv, ConfNext
<1>2. /\ mode = "reading" /\ line <= Len(file)
      /\ file[line].id \in DOMAIN ArgCount
      /\ ReadArgs(file[line].args).num = ArgCount[file[line].id]
  <2>1. mode = "reading" /\ line <= Len(file)
    BY DEF Command, Link, FIFONode, Host, Router, FDTPFlow, Unknown, Fatal, Overrun, Reads
  <2> QED
    BY <1>1, <2>1, OwnArguments
<1>3. line \in Nat /\ Len(file) \in Nat /\ line + 1 <= Len(file) + 1
  <2>1. file \in Seq([id : STRING, args : Seq(Int)]) /\ line \in Nat
    BY <1>1, ConfigurationAssumption DEF Reader
  <2> QED
    BY <1>2, <2>1
<1>4. ASSUME mode' = mode, line' = line + 1
      PROVE  ModesInv'
  BY <1>1, <1>2, <1>3, <1>4 DEF ModesInv
<1>5. ASSUME NEW st, Link(st)
      PROVE  ConsistentInv'
  <2>1. /\ file[line].id = "Link" /\ mode' = mode /\ line' = line + 1
        /\ UNCHANGED <<node_map, flows, packet>>
        /\ query = <<>> /\ query' = <<>> /\ answer' = <<>>
    BY <1>5 DEF Link, Reads, Done, AddLink, Idle
  <2>2. NodesInv'
    BY <1>1, <2>1, NodesStay DEF Classes
  <2>3. PacketInv'
    BY <1>1, <2>1 DEF PacketInv
  <2> QED
    BY <1>1, <1>4, <2>1, <2>2, <2>3, FlowsStay DEF ConsistentInv
<1>6. ASSUME NEW st, FIFONode(st) \/ Host(st) \/ Router(st)
      PROVE  ConsistentInv'
  <2>1. PICK id \in Classes : /\ Reads(id, st) /\ Done(st)
                              /\ node_map' = Register(AsAddress(st.args[1]), id)
    BY <1>6 DEF FIFONode, Host, Router, Classes
  <2>2. mode' = mode /\ line' = line + 1 /\ UNCHANGED <<vars, flows, packet>>
    BY <1>6 DEF FIFONode, Host, Router, Done
  <2>3. NodesInv'
    BY <1>1, <2>1, NodesRegister
  <2> QED
    BY <1>1, <1>4, <2>2, <2>3, FlowsStay, PacketStays DEF ConsistentInv
<1>7. ASSUME NEW st, FDTPFlow(st)
      PROVE  ConsistentInv'
  <2>1. /\ file[line].id = "FDTPFlow" /\ mode' = mode /\ line' = line + 1
        /\ st = ReadArgs(file[line].args)
        /\ UNCHANGED <<vars, node_map, packet>>
    BY <1>7 DEF FDTPFlow, Reads, Done
  <2>2. NodesInv'
    BY <1>1, <2>1, NodesStay DEF Classes
  <2>3. /\ line \in DOMAIN file
        /\ AsAddress(st.args[1]) = file[line].args[1]
        /\ AsAddress(st.args[2]) = file[line].args[2]
    <3>1. ArgCount["FDTPFlow"] = 4 /\ 1 \in 1 .. 4 /\ 2 \in 1 .. 4
      BY DEF ArgCount
    <3> QED
      BY <1>1, <1>2, <2>1, <3>1, OwnArguments
  <2> DEFINE s == file[line].args[1]
             d == file[line].args[2]
             mine == {i \in DOMAIN file : file[i].id \in {"Host", "Router", "FIFONode"}
                                          /\ file[i].args[1] = s}
  <2>4. Declares(s, {"Host"}) \in 1 .. line /\ Declares(d, {"Host"}) # 0 /\ s # d
    BY <2>1, <2>3 DEF Begins, Consistent
  <2>5. ClassOf(s) = "Host"
    <3>1. mine \in SUBSET Nat
      BY <1>1, ConfigurationAssumption DEF Reader
    <3>2. Declares(s, {"Host"}) = IF mine = {} THEN 0
                                  ELSE IF file[Min(mine)].id \in {"Host"} THEN Min(mine) ELSE 0
      BY DEF Declares
    <3> HIDE DEF mine
    <3>3. Declares(s, {"Host"}) \in mine
      BY <1>3, <2>4, <3>1, <3>2, MinIsIn
    <3>4. Declares(s, {"Host"}) # line
      BY <2>1, <3>3 DEF mine
    <3>5. Declares(s, {"Host"}) \in 1 .. line - 1
      BY <1>3, <2>4, <3>4
    <3>6. {"Host"} \in SUBSET Classes /\ line <= Len(file) + 1
      BY <1>2, <1>3 DEF Classes
    <3>7. ClassOf(s) \in {"Host"}
      BY <1>1, <3>5, <3>6, DeclaredClass
    <3> QED
      BY <3>7
  <2>6. FlowsMeant'
    <3>1. PICK f : /\ f \in AFlow /\ flows' = Append(flows, f)
                   /\ f.node = "Host" /\ f.source = s /\ f.destination = d
      <4> DEFINE f == [source |-> s, destination |-> d, start |-> st.args[3], node |-> ClassOf(s)]
      <4>1. flows' = Append(flows, f)
        BY <1>7, <2>3 DEF FDTPFlow
      <4>2. f.node = "Host" /\ f.source = s /\ f.destination = d
        BY <2>5
      <4>3. f \in AFlow
        <5>1. Reads("FDTPFlow", st)
          BY <1>7 DEF FDTPFlow
        <5>2. \A i \in 1 .. 4 : st.args[i] \in Int /\ AsAddress(st.args[i]) \in Addresses
          BY <1>1, <5>1, ReadsTyped
        <5>3. s \in Addresses /\ d \in Addresses /\ st.args[3] \in Int
          BY <2>3, <5>2
        <5> QED
          BY <2>5, <5>3 DEF AFlow, Classes
      <4> QED
        BY <4>1, <4>2, <4>3
    <3>2. flows \in Seq(AFlow)
      BY DEF Begins, ConfTypes, Travels
    <3>3. PICK q \in Seq(AFlow) : /\ q = flows' /\ Len(q) = Len(flows) + 1
                                  /\ q[Len(flows) + 1] = f /\ Len(flows) \in Nat
                                  /\ \A i \in 1 .. Len(flows) : q[i] = flows[i]
      BY <3>1, <3>2, AppendProperties
    <3>4. ASSUME NEW i \in DOMAIN q
          PROVE  /\ q[i].node = "Host" /\ Declares(q[i].destination, {"Host"}) # 0
                 /\ q[i].source # q[i].destination
      <4>1. i = Len(flows) + 1 \/ (i \in DOMAIN flows /\ q[i] = flows[i])
        BY <3>2, <3>3
      <4> QED
        BY <1>1, <2>4, <3>1, <3>3, <4>1 DEF FlowsMeant
    <3> QED
      BY <1>1, <3>3, <3>4 DEF FlowsMeant, Declares
  <2> QED
    BY <1>1, <1>4, <2>1, <2>2, <2>6, PacketStays DEF ConsistentInv
<1>8. ~(\E st : Unknown(st) \/ Fatal(st)) /\ ~Overrun
  <2>1. ~(\E st : Unknown(st))
    BY <1>2 DEF Unknown
  <2>2. ~(\E st : Fatal(st))
    BY <1>2 DEF Fatal, Reads
  <2>3. ~Overrun
    BY <1>2 DEF Overrun, ArgCount
  <2> QED
    BY <2>1, <2>2, <2>3
<1> QED
  BY <1>5, <1>6, <1>7, <1>8 DEF Command

(* The run of a consistent file.                                           *)
LEMMA ConsistentRun ==
    ASSUME Begins, [ConfNext]_confVars, ~Command
    PROVE  ConsistentInv'
<1>1. /\ ConfTypes /\ Reader /\ Registered /\ WellFormed /\ WrittenInv /\ file' = file
      /\ NodesInv /\ FlowsMeant /\ ModesInv /\ PacketInv
  BY FileStays DEF Begins, ConfTypes, Consistent, ConsistentInv
<1>2. UNCHANGED <<config, node_map, flows>>
  BY DEF ConfNext, Run, StartFlow, Stop, Forward, Route, Arrive, confVars
<1>3. NodesInv' /\ FlowsMeant'
  BY <1>1, <1>2, NodesStay, FlowsStay DEF config
<1>4. line \in Nat \ {0} /\ Len(file) \in Nat /\ DOMAIN file = 1 .. Len(file)
  BY <1>1, ConfigurationAssumption DEF Reader
<1>5. ASSUME mode' = mode
      PROVE  ModesInv'
  BY <1>1, <1>2, <1>5 DEF ModesInv, config
<1>6. CASE Run
  <2>1. ~(line <= Len(file))
    <3> SUFFICES ASSUME line <= Len(file), file[line].id = "error"
                 PROVE  FALSE
      BY <1>6 DEF Run
    <3>1. line \in DOMAIN file
      BY <1>4
    <3> QED
      BY <1>1, <3>1 DEF WellFormed, ArgCount
  <2>2. ModesInv'
    BY <1>1, <1>2, <1>4, <1>6, <2>1 DEF Run, ModesInv, config
  <2>3. PacketInv'
    BY <1>1, <1>6, PacketStays DEF Run, PacketInv
  <2> QED
    BY <1>3, <2>2, <2>3 DEF ConsistentInv
<1>7. ASSUME NEW i \in DOMAIN flows, StartFlow(i)
      PROVE  ConsistentInv'
  <2>1. /\ flows[i].node = "Host" /\ Declares(flows[i].destination, {"Host"}) # 0
        /\ flows[i].source # flows[i].destination
    BY <1>1 DEF FlowsMeant
  <2>2. ClassOf(flows[i].destination) = "Host"
    <3>1. line = Len(file) + 1
      BY <1>1, <1>7 DEF ModesInv, StartFlow
    <3>2. ClassOf(flows[i].destination) \in {"Host"}
      BY <1>1, <1>4, <2>1, <3>1, DeclaresRead DEF Classes
    <3> QED
      BY <3>2
  <2>3. /\ mode = "running" /\ packet = <<>> /\ packet' = <<flows[i], flows[i].source>>
        /\ UNCHANGED <<vars, mode>>
    BY <1>7, <2>1, <2>2 DEF StartFlow
  <2>4. PacketInv'
    BY <1>1, <2>1, <2>3 DEF PacketInv, vars
  <2> QED
    BY <1>3, <1>5, <2>3, <2>4 DEF ConsistentInv
<1>8. CASE Forward
  <2>1. /\ packet # <<>> /\ packet' = packet /\ mode' = mode /\ answer' = <<>>
        /\ query' = <<packet[2], packet[1].destination>>
    BY <1>8 DEF Forward, Ask
  <2>2. PacketInv'
    <3>1. packet[2] # packet[1].destination
      BY <1>1, <1>8, <2>1 DEF Forward, PacketInv
    <3> QED
      BY <1>1, <2>1, <3>1 DEF PacketInv
  <2> QED
    BY <1>3, <1>5, <2>1, <2>2 DEF ConsistentInv
<1>9. CASE Route
  <2>1. packet' = packet /\ mode' = mode /\ query # <<>> /\ packet # <<>>
    BY <1>1, <1>9 DEF Route, Search, Answer, Expand, Dies, PacketInv
  <2>2. /\ query' = query \/ query' = <<>>
        /\ answer' = answer \/ (answer'[1] = query[1] /\ answer'[2] = query[2])
    <3>1. CASE Answer
      <4>1. answer' = <<query[1], query[2], Head(bfsq)>> /\ query' = <<>>
        BY <3>1 DEF Answer
      <4> QED
        BY <4>1
    <3>2. CASE Expand \/ Dies
      BY <3>2 DEF Expand, Dies
    <3> QED
      BY <1>9, <3>1, <3>2 DEF Route, Search
  <2>3. PacketInv'
    BY <1>1, <2>1, <2>2 DEF PacketInv
  <2> QED
    BY <1>3, <1>5, <2>1, <2>3 DEF ConsistentInv
<1>10. CASE Arrive
  <2>1. /\ mode = "running" /\ packet # <<>> /\ answer # <<>>
        /\ packet' = [packet EXCEPT ![2] = answer[3]] /\ answer' = <<>> /\ query' = query
    BY <1>10 DEF Arrive
  <2>2. PICK s \in Addresses, d \in Addresses, n \in Addresses :
           answer = <<s, d, n>> /\ Leads(linkMap, s, d, n)
    BY <2>1 DEF Begins, TopologyInv, AnswerInv
  <2>3. query = <<>> /\ d = packet[1].destination /\ s # d
    BY <1>1, <2>1, <2>2 DEF Begins, TopologyInv, SearchInv, PacketInv
  <2>4. line = Len(file) + 1
    BY <1>1, <2>1 DEF ModesInv
  <2>5. ClassOf(n) # "NULL" /\ (n = d \/ ClassOf(n) # "Host")
    BY <1>1, <2>2, <2>3, <2>4, HopClass, LinksTypedFromInv
       DEF Begins, TopologyInv, LinksTyped, Leads
  <2>6. mode' \in {"running", "delivered"}
    <3>1. mode' = IF ClassOf(n) = "NULL" THEN "no_node"
                  ELSE IF n = d THEN "delivered"
                  ELSE IF ClassOf(n) = "Host" THEN "taken"
                  ELSE "running"
      BY <1>10, <2>2, <2>3 DEF Arrive
    <3> QED
      BY <2>5, <3>1
  <2>7. ModesInv'
    BY <1>1, <1>2, <2>4, <2>6 DEF ModesInv, config
  <2>8. packet' # <<>>
    <3>1. PICK f \in AFlow, a \in Addresses : packet = <<f, a>>
      BY <1>1, <2>1 DEF ConfTypes, Travels
    <3>2. packet' = <<f, answer[3]>>
      BY <2>1, <3>1
    <3> QED
      BY <3>2
  <2>9. mode' = "running" => packet'[2] # packet'[1].destination
    <3>1. PICK f \in AFlow, a \in Addresses : packet = <<f, a>>
      BY <1>1, <2>1 DEF ConfTypes, Travels
    <3>2. packet'[2] = n /\ packet'[1] = f /\ f.destination = d
      BY <2>1, <2>2, <2>3, <3>1
    <3>3. n = d /\ ClassOf(n) # "NULL" => mode' = "delivered"
      BY <1>10, <2>2, <2>3 DEF Arrive
    <3> QED
      BY <2>5, <3>2, <3>3
  <2>10. PacketInv'
    BY <2>1, <2>3, <2>6, <2>8, <2>9 DEF PacketInv
  <2> QED
    BY <1>3, <2>7, <2>10 DEF ConsistentInv
<1>11. CASE UNCHANGED confVars
  BY <1>1, <1>3, <1>5, <1>11, PacketStays DEF ConsistentInv, confVars
<1> QED
  BY <1>6, <1>7, <1>8, <1>9, <1>10, <1>11 DEF ConfNext

-----------------------------------------------------------------------------
(* Results                                                                 *)

(* The Link command, in every configuration file, also one with arguments  *)
(* missing, too large or left over from other commands.                    *)
THEOREM LinksStaySymmetric == ConfSpec => []LinksSymmetric
<1>1. ConfInit => LinksInv
  BY LinksInit DEF ConfInit
<1>2. LinksInv /\ [ConfNext]_confVars => LinksInv'
  BY ConfLinks
<1> QED
  BY <1>1, <1>2, LinksFromInv, PTL DEF ConfSpec

(* register_to_receive and the FDTPFlow command, in every configuration    *)
(* file: the node a flow's timer is set for keeps the packets of its       *)
(* address, however often the address is used again.                       *)
THEOREM FlowsKeepTheirNode == ConfSpec => []FlowsOwnAddress
<1>1. ConfInit => FlowsInv
  <2>1. <<>> \in Seq({})
    OBVIOUS
  <2> QED
    BY <2>1 DEF ConfInit, FlowsInv, FlowsOwnAddress
<1>2. FlowsInv /\ [ConfNext]_confVars => FlowsInv'
  BY FlowsStep
<1>3. FlowsInv => FlowsOwnAddress
  BY DEF FlowsInv
<1> QED
  BY <1>1, <1>2, <1>3, PTL DEF ConfSpec

(* The next hops of a configured simulation: in every file, whatever links *)
(* it gives and however often, FIFONode::send and dtpRouter::receive get a *)
(* neighbour on a shortest path from nexthop.                              *)
THEOREM ConfiguredRoutesShortest ==
    ASSUME AnyCost
    PROVE  ConfSpec => []RoutesShortest
<1>1. ConfTypes /\ TopologyInv /\ [ConfNext]_confVars => (ConfTypes /\ TopologyInv)'
  BY TypesStep, TopologySteps DEF TopologyInv
<1>2. TopologyInv => RoutesShortest
  BY RoutesFromInv DEF TopologyInv
<1> QED
  BY <1>1, <1>2, ConfTypesInit, PTL DEF ConfSpec

(* And the search gives up only where no link leads on.                    *)
THEOREM ConfiguredDiesOnlyApart ==
    ASSUME AnyCost
    PROVE  ConfSpec => DiesOnlyApart
<1>1. ConfTypes /\ TopologyInv /\ [ConfNext]_confVars => (ConfTypes /\ TopologyInv)'
  BY TypesStep, TopologySteps DEF TopologyInv
<1>2. TopologyInv /\ [ConfNext]_confVars =>
         [aborted' /\ ~aborted => Apart(query[1], query[2])]_vars
  <2>1. TopologyInv /\ Dies => Apart(query[1], query[2])
    BY DiesApart DEF TopologyInv
  <2>2. [ConfNext]_confVars /\ ~Dies => aborted' = aborted
    BY DEF ConfNext, Command, Link, FIFONode, Host, Router, FDTPFlow, Unknown, Fatal, Overrun,
       Run, StartFlow, Stop, Forward, Ask, Route, Search, Answer, Expand, Arrive, AddLink,
       confVars, vars
  <2> QED
    BY <2>1, <2>2
<1> QED
  BY <1>1, <1>2, ConfTypesInit, PTL DEF ConfSpec, DiesOnlyApart

(* The types of class Topology, with the commands of a file.               *)
THEOREM ConfiguredTyped ==
    ASSUME AnyCost
    PROVE  ConfSpec => []TypeOK
<1>1. ConfTypes /\ TopologyInv /\ [ConfNext]_confVars => (ConfTypes /\ TopologyInv)'
  BY TypesStep, TopologySteps DEF TopologyInv
<1>2. TopologyInv => TypeOK
  BY DEF TopologyInv
<1> QED
  BY <1>1, <1>2, ConfTypesInit, PTL DEF ConfSpec

(* "If duplicate link entries are specified, the last one is used", for    *)
(* every well-formed file: the commands Link of the file and nothing else  *)
(* give the links, whatever comes in between and in either direction.      *)
THEOREM LinksAlwaysAsWritten == ConfSpec => []LinksAsWritten
<1> DEFINE Inv == Reader /\ LinksInv /\ (WellFormed => WrittenInv)
<1>1. ConfInit => Inv
  <2> SUFFICES ASSUME ConfInit
               PROVE  Inv
    OBVIOUS
  <2>1. Reader /\ LinksInv
    BY ConfTypesInit, LinksInit DEF ConfInit, ConfTypes
  <2> QED
    BY <2>1, WrittenInit
<1>2. Inv /\ [ConfNext]_confVars => Inv'
  BY ReaderStep, ConfLinks, WrittenStep
<1>3. Inv => LinksAsWritten
  <2> SUFFICES ASSUME Inv, WellFormed
               PROVE  LinksAsWritten
    BY DEF LinksAsWritten
  <2> QED
    BY WrittenLinks, Zenon DEF LinksAsWritten, LinkLines, CostOf
<1> QED
  BY <1>1, <1>2, <1>3, PTL DEF ConfSpec

(* For every file that is consistent: no FATAL, no assertion about nodes,  *)
(* no write past the arguments, and no packet at a host it is not for.     *)
THEOREM ConsistentFilesRun ==
    ASSUME AnyCost
    PROVE  ConfSpec => []ConsistentRuns
<1> DEFINE Inv == /\ ConfTypes /\ TopologyInv /\ (WellFormed => WrittenInv)
                  /\ (Consistent => ConsistentInv)
<1>1. ConfInit => Inv
  <2> SUFFICES ASSUME ConfInit
               PROVE  Inv
    OBVIOUS
  <2>1. WrittenInv
    BY WrittenInit
  <2>2. NodesInv
    <3>1. \A a : NodeLines(a) = {} /\ ClassOf(a) = "NULL"
      BY DEF ConfInit, NodeLines, ReadLines, ClassOf
    <3> QED
      BY <3>1 DEF NodesInv, Classes
  <2>3. ModesInv
    <3>1. Len(file) \in Nat
      BY ConfTypesInit, ConfigurationAssumption DEF ConfTypes, Reader
    <3> QED
      BY <3>1 DEF ConfInit, ModesInv
  <2>4. FlowsMeant /\ PacketInv
    BY DEF ConfInit, Init, FlowsMeant, PacketInv
  <2> QED
    BY <2>1, <2>2, <2>3, <2>4, ConfTypesInit DEF ConsistentInv
<1>2. Inv /\ [ConfNext]_confVars => Inv'
  <2> SUFFICES ASSUME Inv, [ConfNext]_confVars
               PROVE  Inv'
    OBVIOUS
  <2>1. ConfTypes' /\ TopologyInv' /\ (WellFormed => WrittenInv)'
    BY TypesStep, TopologySteps, WrittenStep DEF TopologyInv, ConfTypes
  <2>2. ASSUME Consistent'
        PROVE  ConsistentInv'
    <3>1. Consistent
      <4>1. file' = file
        BY FileStays
      <4>2. \A a, ids : Declares(a, ids)' = Declares(a, ids)
        BY <4>1 DEF Declares
      <4>3. WellFormed' = WellFormed
        BY <4>1 DEF WellFormed
      <4> QED
        <5>1. WellFormed
          BY <2>2, <4>3 DEF Consistent
        <5>2. \A i \in DOMAIN file : file[i].id = "FDTPFlow" =>
                 /\ Declares(file[i].args[1], {"Host"}) \in 1 .. i
                 /\ Declares(file[i].args[2], {"Host"}) # 0
                 /\ file[i].args[1] # file[i].args[2]
          BY <2>2, <4>1, <4>2 DEF Consistent
        <5>3. \A i \in DOMAIN file : file[i].id = "Link" =>
                \A k \in {1, 2} :
                   \/ Declares(file[i].args[k], {"Router", "FIFONode"}) # 0
                   \/ /\ Declares(file[i].args[k], {"Host"}) # 0
                      /\ \A j \in DOMAIN file :
                           file[j].id = "Link" /\ file[i].args[k] \in {file[j].args[1], file[j].args[2]}
                              => {file[j].args[1], file[j].args[2]} = {file[i].args[1], file[i].args[2]}
          BY <2>2, <4>1, <4>2 DEF Consistent
        <5> QED
          BY <5>1, <5>2, <5>3 DEF Consistent
    <3>2. Begins
      BY <3>1 DEF Begins
    <3> QED
      BY <3>2, ConsistentCommand, ConsistentRun
  <2> QED
    BY <2>1, <2>2
<1>3. Inv => ConsistentRuns
  BY DEF ConsistentRuns, ConsistentInv, ModesInv
<1> QED
  BY <1>1, <1>2, <1>3, PTL DEF ConfSpec
=============================================================================
