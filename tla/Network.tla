------------------------------- MODULE Network -------------------------------
(***************************************************************************)
(* The network simulator under the protocol: packets travel from host to   *)
(* host through the queues of FIFONode and dtpRouter and over links that   *)
(* take time, driven by the virtual clock of Scheduler.                    *)
(*                                                                         *)
(* PacketScheduler keeps two events for every packet on a link: the end of *)
(* its transmission, when the sending node may start the next one, and its *)
(* arrival at the other end.  What the hosts do with packets is abstracted *)
(* to a set of packets they send at any time and in any order.             *)
(***************************************************************************)
EXTENDS EventMap

CONSTANTS
    Hosts,      \* nodes that send packets and take every packet they receive
    Routers,    \* dtpRouter nodes, which mark packets and forward them
    Relays,     \* plain FIFONode nodes, which only forward
    Links,      \* pairs of neighbours, both directions
    NextHop,    \* routing: <<node, destination>> to neighbour
    Capacity,   \* max_queue_size of each node
    Latency,    \* propagation latency of each link
    BitTime,    \* time each link takes to send a bit
    UShort,     \* number of values of an unsigned short, 2^16
    Packets,    \* what the hosts send; a length is in bits, 8 for each byte
    MaxTime     \* bound: no host sends later than this

Nodes == Hosts \cup Routers \cup Relays

Packet == [source : Hosts, destination : Nodes, id : Nat, length : Nat \ {0},
           last : BOOLEAN, cwnd : 0 .. UShort - 1]

ASSUME NodesAssumption ==
    /\ IsFiniteSet(Hosts)
    /\ Hosts \cap Routers = {} /\ Hosts \cap Relays = {} /\ Routers \cap Relays = {}
    /\ Links \subseteq Nodes \X Nodes
    /\ \A l \in Links : <<l[2], l[1]>> \in Links
ASSUME RoutingAssumption ==
    \A n, d \in Nodes : n # d =>
        /\ <<n, NextHop[<<n, d>>]>> \in Links
        /\ NextHop[<<n, d>>] \in Hosts => NextHop[<<n, d>>] = d
\* Hop by hop a packet gets to its destination: it goes round in no set of
\* other nodes.
ASSUME RoutesEndAssumption ==
    \A d \in Nodes : \A S \in SUBSET (Nodes \ {d}) :
        S # {} => \E n \in S : NextHop[<<n, d>>] \notin S
ASSUME TimesAssumption ==
    /\ Capacity \in [Nodes -> Nat] /\ MaxTime \in Nat
    /\ Latency \in [Links -> Nat] /\ BitTime \in [Links -> Nat]
ASSUME ShortAssumption == UShort \in Nat \ {0}
ASSUME PacketsAssumption ==
    Packets \subseteq Packet /\ \A p \in Packets : p.source # p.destination

VARIABLES
    clock,          \* virtual_clock of the scheduler
    packet_map,     \* events of the packet scheduler, in order of their times
    packet_queue,   \* of each link: packets waiting at its sending end
    pending_send,   \* links with a packet in transmission
    source_holder,  \* of each link out of a router: sources sharing its queue
    unsent,         \* packets the hosts have still to send
    received        \* of each pair of hosts: packets the second one received

vars == <<clock, packet_map, packet_queue, pending_send, source_holder, unsent, received>>

-----------------------------------------------------------------------------
(* Events and queues                                                       *)

Event(time, link, packet, trans) ==
    [time |-> time, link |-> link, packet |-> packet, trans |-> trans]

\* link_trans_delay and link_delay: how long the sending node is busy with a
\* packet, and after what time the packet is at the other end.
TransTime(link, p) == p.length * BitTime[link]
LinkDelay(link, p) == Latency[link] + TransTime(link, p)

\* Mutant of Transmit: the link is in use until the packet arrives.
TransmitSwapped(map, now, link, p) ==
    Schedule(Schedule(map, Event(now + TransTime(link, p), link, p, FALSE)),
             Event(now + LinkDelay(link, p), link, p, TRUE))

\* send_packet: the arrival and the completion of a transmission begun now.
Transmit(map, now, link, p) ==
    Schedule(Schedule(map, Event(now + LinkDelay(link, p), link, p, FALSE)),
             Event(now + TransTime(link, p), link, p, TRUE))

\* Mutant of SendIt: the node does not wait for the current transmission.
SendItAnyway(now, map, link, q, busy) ==
    IF q = <<>>
    THEN packet_map' = map /\ pending_send' = busy
                           /\ packet_queue' = [packet_queue EXCEPT ![link] = q]
    ELSE /\ packet_map' = Transmit(map, now, link, Head(q))
         /\ packet_queue' = [packet_queue EXCEPT ![link] = Tail(q)]
         /\ pending_send' = busy \cup {link}

\* send_it at time now, when the link's queue is q and the links in busy are
\* in use: start the next transmission unless one is under way.
SendIt(now, map, link, q, busy) ==
    IF link \in busy \/ q = <<>>
    THEN /\ packet_map' = map
         /\ packet_queue' = [packet_queue EXCEPT ![link] = q]
         /\ pending_send' = busy
    ELSE /\ packet_map' = Transmit(map, now, link, Head(q))
         /\ packet_queue' = [packet_queue EXCEPT ![link] = Tail(q)]
         /\ pending_send' = busy \cup {link}

\* enq, then send_it; a packet the full queue does not take is deleted.
Enqueue(now, map, link, p) ==
    IF Len(packet_queue[link]) < Capacity[link[1]]
    THEN SendIt(now, map, link, Append(packet_queue[link], p), pending_send)
    ELSE /\ packet_map' = map
         /\ UNCHANGED <<packet_queue, pending_send>>

\* Mutant of SourcesAfter: the router counts the neighbour instead.
SourcesNode(link, p) == source_holder[link] \cup {link[2]}

\* The sources a router counts for a queue after p came by: the last packet
\* of a file takes its source out.
SourcesAfter(link, p) ==
    IF p.last THEN source_holder[link] \ {p.source}
              ELSE source_holder[link] \cup {p.source}

\* The room of a router's queues that is shared out.
Room(n) == IF Capacity[n] > 3 THEN Capacity[n] - 1 ELSE Capacity[n]

\* Mutant of Share: without the lower limit.
ShareOfRoom(link, p) ==
    Room(link[1]) \div Max({1, Cardinality(SourcesAfter(link, p))})

\* The share each counted source gets, at least one packet: an int.
Share(link, p) ==
    Max({1, Room(link[1]) \div Max({1, Cardinality(SourcesAfter(link, p))})})

\* A router lowers the packet's window to the share, or sets it.  The field is
\* an unsigned short: of a share it cannot hold it keeps the lower bits.
Mark(link, p) ==
    [p EXCEPT !.cwnd = IF @ = 0 THEN Share(link, p) % UShort
                                ELSE Min({@, Share(link, p)})]

-----------------------------------------------------------------------------
(* The simulation                                                          *)

Init ==
    /\ clock = 0
    /\ packet_map = <<>>
    /\ packet_queue = [l \in Links |-> <<>>]
    /\ pending_send = {}
    /\ source_holder = [l \in {k \in Links : k[1] \in Routers} |-> {}]
    /\ unsent = Packets
    /\ received = [c \in Hosts \X Hosts |-> <<>>]

\* A timer of a host is due at time t, not after the next packet event; its
\* handler sends p.
HostSend(p, t) ==
    LET link == <<p.source, NextHop[<<p.source, p.destination>>]>>
    IN  /\ p \in unsent
        /\ clock <= t
        /\ packet_map # <<>> => t <= Head(packet_map).time
        /\ clock' = t
        /\ unsent' = unsent \ {p}
        /\ Enqueue(t, packet_map, link, p)
        /\ UNCHANGED <<source_holder, received>>

\* process_packet: the first event, at its time.
Process(e) ==
    /\ packet_map # <<>> /\ e = Head(packet_map)
    /\ clock' = e.time
    /\ UNCHANGED unsent

\* Mutants of SendDone: the queue is not looked at; or the link stays in use.
SendDoneIdles(e) ==
    /\ Process(e) /\ e.trans
    /\ packet_map' = Tail(packet_map)
    /\ pending_send' = pending_send \ {e.link}
    /\ UNCHANGED <<packet_queue, source_holder, received>>
SendDoneBusy(e) ==
    /\ Process(e) /\ e.trans
    /\ SendIt(e.time, Tail(packet_map), e.link, packet_queue[e.link], pending_send)
    /\ UNCHANGED <<source_holder, received>>

\* send_done: the link is free for the next packet of its queue.
SendDone(e) ==
    /\ Process(e) /\ e.trans
    /\ SendIt(e.time, Tail(packet_map), e.link, packet_queue[e.link],
              pending_send \ {e.link})
    /\ UNCHANGED <<source_holder, received>>

Arrives(e, node) == Process(e) /\ ~e.trans /\ e.link[2] = node

\* dtpHost::receive: whatever arrives is taken as the host's own.
HostReceive(h, e) ==
    /\ Arrives(e, h)
    /\ packet_map' = Tail(packet_map)
    /\ received' = [received EXCEPT ![<<e.packet.source, h>>] = Append(@, e.packet)]
    /\ UNCHANGED <<packet_queue, pending_send, source_holder>>

\* FIFONode::receive and dtpRouter::receive: a packet for the node itself is
\* deleted.
Discard(n, e) ==
    /\ Arrives(e, n)
    /\ e.packet.destination = n
    /\ packet_map' = Tail(packet_map)
    /\ UNCHANGED <<packet_queue, pending_send, source_holder, received>>

\* FIFONode::receive: forward the packet.
Relay(n, e) ==
    /\ Arrives(e, n)
    /\ e.packet.destination # n
    /\ Enqueue(e.time, Tail(packet_map), <<n, NextHop[<<n, e.packet.destination>>]>>,
               e.packet)
    /\ UNCHANGED <<source_holder, received>>

\* dtpRouter::receive: count the sources of the queue, mark, forward.
Route(n, e) ==
    LET link == <<n, NextHop[<<n, e.packet.destination>>]>>
    IN  /\ Arrives(e, n)
        /\ e.packet.destination # n
        /\ source_holder' = [source_holder EXCEPT ![link] = SourcesAfter(link, e.packet)]
        /\ Enqueue(e.time, Tail(packet_map), link, Mark(link, e.packet))
        /\ UNCHANGED received

ProcessPacket ==
    \E e \in {packet_map[i] : i \in DOMAIN packet_map} :
        \/ SendDone(e)
        \/ \E h \in Hosts : HostReceive(h, e)
        \/ \E n \in Routers \cup Relays : Discard(n, e)
        \/ \E n \in Relays : Relay(n, e)
        \/ \E n \in Routers : Route(n, e)

Next ==
    \/ \E p \in Packets, t \in 0 .. MaxTime : HostSend(p, t)
    \/ ProcessPacket

Spec == Init /\ [][Next]_vars

\* Scheduler::run goes on as long as there is an event.
FairSpec == Spec /\ WF_vars(ProcessPacket)

-----------------------------------------------------------------------------
(* Properties                                                              *)

TypeOK ==
    /\ clock \in Nat
    /\ packet_map \in Seq([time : Nat, link : Links, packet : Packet, trans : BOOLEAN])
    /\ packet_queue \in [Links -> Seq(Packet)]
    /\ pending_send \subseteq Links
    /\ source_holder \in [{l \in Links : l[1] \in Routers} -> SUBSET Hosts]
    /\ unsent \subseteq Packets

Completions(l) == {i \in DOMAIN packet_map : packet_map[i].link = l /\ packet_map[i].trans}

\* The link of a queue is in use exactly while one completion is scheduled for
\* it (pending_send), and no queue waits at an idle link or outgrows its node.
LinksWork ==
    \A l \in Links :
        /\ Cardinality(Completions(l)) = IF l \in pending_send THEN 1 ELSE 0
        /\ packet_queue[l] # <<>> => l \in pending_send
        /\ Len(packet_queue[l]) <= Capacity[l[1]]

\* Behind the routers a packet carries a window the protocol can use: at least
\* one packet, and no more than the queues have room for.
WindowsFit ==
    \A c \in DOMAIN received : \A i \in DOMAIN received[c] :
        received[c][i].cwnd \in 1 .. Max({1} \cup {Capacity[n] : n \in Routers})

\* It takes routers whose room the field of a packet can hold: a single source
\* of a queue with 65537 places is given the window 0.
RoomFits == UShort > 1 /\ \A n \in Routers : Room(n) < UShort

\* Routing takes every packet of a host s that is for another node to a router
\* before any host: until then it is at nodes of Access[s].
RoutersBetween(Access) ==
    /\ Access \in [Hosts -> SUBSET (Hosts \cup Relays)]
    /\ \A s \in Hosts :
          /\ Access[s] \cap Hosts = {s}
          /\ \A n \in Access[s] : \A d \in Nodes \ {s, n} :
                NextHop[<<n, d>>] \in Access[s] \cup Routers

\* Virtual time never runs backwards, although set_clock takes any time.
ClockGoesOn == [][clock' >= clock]_vars

Pairs == {<<p.source, p.destination>> : p \in Packets}

IsOf(p, c) == p.source = c[1] /\ p.destination = c[2]

Ids(q) == [i \in DOMAIN q |-> q[i].id]

\* Ids of the packets from c[1] to c[2] that travel over link l, and of those
\* that wait in queue q, oldest first.
Flying(map, c, l) ==
    Kept([i \in DOMAIN map |-> map[i].packet.id],
         {i \in DOMAIN map : ~map[i].trans /\ map[i].link = l /\ IsOf(map[i].packet, c)})
Waiting(q, c) == Kept(Ids(q), {i \in DOMAIN q : IsOf(q[i], c)})
OnLinks(c) ==
    [l \in Links |-> Flying(packet_map, c, l) \o Waiting(packet_queue[l], c)]

\* What H tells of the links on the route from c[1] to c[2], the last one first.
AlongRoute(H, c) ==
    LET from[n \in Nodes] ==
          IF n = c[2] THEN <<>>
          ELSE LET hop == NextHop[<<n, c[2]>>] IN from[hop] \o H[<<n, hop>>]
    IN  from[c[1]]

\* What is under way from c[1] to c[2], oldest first.
UnderWay(c) == AlongRoute(OnLinks(c), c)

\* Whatever the queues, latencies, bit times and lengths, each pair of hosts sees a
\* channel that may drop packets and neither reorders nor duplicates them: the
\* network DtpHost is built on.
Path == INSTANCE Channels WITH
    chan <- [c \in Pairs |-> UnderWay(c)],
    got <- [c \in Pairs |-> IF c[2] \in Hosts THEN Ids(received[c]) ELSE <<>>]
ActsAsChannels == Path!CSpec

\* Everything sent is received or dropped in the end: no packet stays in a
\* queue or on a link for good.
NetworkDrains == []<>(packet_map = <<>> /\ \A l \in Links : packet_queue[l] = <<>>)

\* "Hold the no of source which mght be sending to this queue": when nothing
\* is left to send and nothing is under way, no source is counted any more.
NoIdleSources ==
    unsent = {} /\ packet_map = <<>> =>
        \A l \in DOMAIN source_holder : source_holder[l] = {}
=============================================================================
