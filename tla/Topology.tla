------------------------------ MODULE Topology ------------------------------
(***************************************************************************)
(* The links between nodes and the routing along them (class Topology).    *)
(*                                                                         *)
(* linkMap is a multimap: the neighbours of an address stay in the order   *)
(* in which their links were added.  nexthop searches breadth first from   *)
(* the destination backwards and marks no node as visited.                 *)
(***************************************************************************)
EXTENDS Integers, Sequences, FiniteSets, SequencesExt

CONSTANTS
    Addresses,  \* addresses of nodes
    Costs,      \* [plat, bit_time] a Link command may give
    MaxLinks,   \* bound: Link commands in the configuration
    MaxBfsq     \* bound: addresses a search may hold

ASSUME LinksAssumption ==
    MaxLinks \in Nat /\ MaxBfsq \in Nat /\ IsFiniteSet(Addresses)

VARIABLES
    linkMap,    \* of each address: its links, [neighbor, cost], oldest first
    commands,   \* Link commands processed so far
    query,      \* <<s, d>> while nexthop(s, d) searches, else <<>>
    bfsq,       \* addresses still to look at
    answer,     \* <<s, d, current>> while the caller of nexthop uses it, else <<>>
    aborted     \* the assertion at the end of nexthop was reached

vars == <<linkMap, commands, query, bfsq, answer, aborted>>

LinkData(n, c) == [neighbor |-> n, cost |-> c]

\* find_link: the first link from s to d.
HasLink(map, s, d) == \E i \in DOMAIN map[s] : map[s][i].neighbor = d
FindLink(map, s, d) ==
    map[s][Min({i \in DOMAIN map[s] : map[s][i].neighbor = d})]

\* erase_link, where there is one.
EraseLink(map, s, d) ==
    [map EXCEPT ![s] = RemoveFirstMatch(@, LAMBDA l : l.neighbor = d)]

InsertLink(map, s, d, c) == [map EXCEPT ![s] = Append(@, LinkData(d, c))]

\* Mutant of Init: the counter of commands is not set to zero.
InitUnset ==
    /\ linkMap = [a \in Addresses |-> <<>>]
    /\ commands = -1
    /\ query = <<>>
    /\ bfsq = <<>>
    /\ answer = <<>>
    /\ aborted = FALSE

Init ==
    /\ linkMap = [a \in Addresses |-> <<>>]
    /\ commands = 0
    /\ query = <<>>
    /\ bfsq = <<>>
    /\ answer = <<>>
    /\ aborted = FALSE

Idle == query = <<>> /\ ~aborted

\* Mutant of AddLink: only the direction of the command is replaced.
AddLinkOneWay(s, d, c) ==
    /\ Idle
    /\ commands < MaxLinks
    /\ commands' = commands + 1
    /\ linkMap' = InsertLink(InsertLink(EraseLink(linkMap, s, d), s, d, c), d, s, c)
    /\ answer' = <<>>
    /\ UNCHANGED <<query, bfsq, aborted>>

\* Another one: a link specified again is left as it is.
AddLinkOnce(s, d, c) ==
    /\ Idle
    /\ commands < MaxLinks
    /\ commands' = commands + 1
    /\ linkMap' = IF HasLink(linkMap, s, d) THEN linkMap
                  ELSE InsertLink(InsertLink(linkMap, s, d, c), d, s, c)
    /\ answer' = <<>>
    /\ UNCHANGED <<query, bfsq, aborted>>

\* add_link: a link specified again replaces the old one, in both directions.
AddLink(s, d, c) ==
    /\ Idle
    /\ commands < MaxLinks
    /\ commands' = commands + 1
    /\ LET rest == EraseLink(EraseLink(linkMap, s, d), d, s)
       IN  linkMap' = InsertLink(InsertLink(rest, s, d, c), d, s, c)
    /\ answer' = <<>>
    /\ UNCHANGED <<query, bfsq, aborted>>

\* nexthop(s, d) is called: the search starts at the destination.
Ask(s, d) ==
    /\ Idle
    /\ query' = <<s, d>>
    /\ bfsq' = <<d>>
    /\ answer' = <<>>
    /\ UNCHANGED <<linkMap, commands, aborted>>

Neighbors(a) == [i \in DOMAIN linkMap[a] |-> linkMap[a][i].neighbor]

\* Mutant of Answer: the neighbour that was found instead of where.
AnswerSelf ==
    /\ query # <<>> /\ bfsq # <<>>
    /\ HasLink(linkMap, Head(bfsq), query[1])
    /\ answer' = <<query[1], query[2], query[1]>>
    /\ query' = <<>>
    /\ bfsq' = <<>>
    /\ UNCHANGED <<linkMap, commands, aborted>>

\* The search looks at one address: s among its neighbours ends the search.
Answer ==
    /\ query # <<>> /\ bfsq # <<>>
    /\ HasLink(linkMap, Head(bfsq), query[1])
    /\ answer' = <<query[1], query[2], Head(bfsq)>>
    /\ query' = <<>>
    /\ bfsq' = <<>>
    /\ UNCHANGED <<linkMap, commands, aborted>>

\* Mutant of Expand: depth first.
ExpandDepthFirst ==
    /\ query # <<>> /\ bfsq # <<>>
    /\ ~HasLink(linkMap, Head(bfsq), query[1])
    /\ bfsq' = Neighbors(Head(bfsq)) \o Tail(bfsq)
    /\ Len(bfsq') <= MaxBfsq
    /\ UNCHANGED <<linkMap, commands, query, answer, aborted>>

\* Another one: the loop over the neighbours stops one too early.
ExpandShort ==
    /\ query # <<>> /\ bfsq # <<>>
    /\ ~HasLink(linkMap, Head(bfsq), query[1])
    /\ bfsq' = Tail(bfsq) \o Front(Neighbors(Head(bfsq)))
    /\ Len(bfsq') <= MaxBfsq
    /\ UNCHANGED <<linkMap, commands, query, answer, aborted>>

\* Otherwise its neighbours are looked at later, again if need be.
Expand ==
    /\ query # <<>> /\ bfsq # <<>>
    /\ ~HasLink(linkMap, Head(bfsq), query[1])
    /\ bfsq' = Tail(bfsq) \o Neighbors(Head(bfsq))
    /\ Len(bfsq') <= MaxBfsq
    /\ UNCHANGED <<linkMap, commands, query, answer, aborted>>

\* No address is left: ASSERT(false).
Dies ==
    /\ query # <<>> /\ bfsq = <<>>
    /\ aborted' = TRUE
    /\ query' = <<>>
    /\ UNCHANGED <<linkMap, commands, bfsq, answer>>

Search == Answer \/ Expand \/ Dies

Next ==
    \/ \E s, d \in Addresses : Ask(s, d)
    \/ \E s \in Addresses : \E d \in Addresses \ {s} : \E c \in Costs : AddLink(s, d, c)
    \/ Search

Spec == Init /\ [][Next]_vars

-----------------------------------------------------------------------------
(* Properties                                                              *)

TypeOK ==
    /\ linkMap \in [Addresses -> Seq([neighbor : Addresses, cost : Costs])]
    /\ commands \in 0 .. MaxLinks
    /\ query \in {<<>>} \cup (Addresses \X Addresses)
    /\ bfsq \in Seq(Addresses)
    /\ answer \in {<<>>} \cup (Addresses \X Addresses \X Addresses)
    /\ aborted \in BOOLEAN

\* Two nodes have at most one link, however often the configuration gives it,
\* and it costs the same in both directions.
LinksSymmetric ==
    \A s, d \in Addresses : s # d =>
        /\ Cardinality({i \in DOMAIN linkMap[s] : linkMap[s][i].neighbor = d}) <= 1
        /\ HasLink(linkMap, s, d) =>
             /\ HasLink(linkMap, d, s)
             /\ FindLink(linkMap, s, d).cost = FindLink(linkMap, d, s).cost

\* Reference: the addresses at most k links away from d, and the distance.
Within(d, k) ==
    LET near[i \in 0 .. k] ==
          IF i = 0 THEN {d}
          ELSE LET nearer == near[i - 1]
               IN  nearer \cup {a \in Addresses : \E x \in nearer : HasLink(linkMap, x, a)}
    IN  near[k]
Connected(s, d) == s \in Within(d, Cardinality(Addresses))
Distance(s, d) == Min({k \in 0 .. Cardinality(Addresses) : s \in Within(d, k)})

\* The next hop is a neighbour one link closer to the destination: hop by hop
\* a packet reaches it on a shortest path and never goes round in a circle.  At
\* its destination a packet is sent to a neighbour as well, away from there.
RoutesShortest ==
    answer # <<>> =>
        LET s == answer[1]
            d == answer[2]
        IN  /\ HasLink(linkMap, s, answer[3])
            /\ s # d => Connected(s, d) /\ Distance(s, d) = Distance(answer[3], d) + 1

\* s has no way of at least one link to d.
Apart(s, d) == IF s = d THEN linkMap[s] = <<>> ELSE ~Connected(s, d)

\* ASSERT(false) after the loop is for nodes no path leads to: as long as there
\* is a path the search does not run out of addresses, in whatever order and
\* however often it has looked at them; asked for the way of a node to itself,
\* only where the node has no link.
DiesOnlyApart ==
    [][aborted' /\ ~aborted => Apart(query[1], query[2])]_vars
=============================================================================
