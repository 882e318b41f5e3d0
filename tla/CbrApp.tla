-------------------------------- MODULE CbrApp --------------------------------
(***************************************************************************)
(* The constant bit rate application over the simulated network, and the   *)
(* timers of the scheduler that drive it.                                  *)
(*                                                                         *)
(* A CbrSender arms one timer when the configuration file creates it; the  *)
(* handler sends a packet and arms the next timer an inter-packet time     *)
(* later.  Scheduler::run takes the first event of the two multimaps,      *)
(* timer_map and packet_map, a timer before a packet due at the same time. *)
(* The hosts of Network are here the senders and the CbrReceivers, and     *)
(* what they send, when, is no longer left open.                           *)
(***************************************************************************)
EXTENDS Network

CONSTANT
    Configs     \* configuration files: the CbrSender commands in their order,
                \* [source, destination, start, ip, count, length]

VARIABLES
    senders,        \* the configuration in use
    timer_map,      \* pending timers, in order of their times
    sent_so_far     \* of each sender

\* handle_timer counts a packet after it was sent: there is always a first.
Total(s) == Max({1, s.count})

\* The packet with number k of a sender.
CbrPacket(s, k) ==
    [source |-> s.source, destination |-> s.destination, id |-> k,
     length |-> s.length, last |-> FALSE, cwnd |-> 0]

\* When packet k of a sender is due at a constant rate.
Due(s, k) == s.start + k * s.ip

ASSUME ConfigsAssumption ==
    \A C \in Configs :
        /\ C \in Seq([source : Hosts, destination : Hosts, start : Nat,
                     ip : Nat, count : Nat, length : Nat \ {0}])
        /\ \A f, g \in DOMAIN C : /\ f # g => C[f].source # C[g].source
                                 /\ C[f].destination # C[g].source
        /\ \A f \in DOMAIN C : \A k \in 0 .. Total(C[f]) - 1 :
              CbrPacket(C[f], k) \in Packets /\ Due(C[f], k) <= MaxTime

Flows == DOMAIN senders
cbrVars == <<vars, senders, timer_map, sent_so_far>>

-----------------------------------------------------------------------------
\* set_timer: behind the timers due no later.
SetTimer(map, f, time) == Schedule(map, [time |-> time, flow |-> f])

-----------------------------------------------------------------------------
(* The application                                                         *)

\* Each constructor sets its first timer; timers due at the same time stay in
\* the order of the configuration file.
CbrInit ==
    /\ Init
    /\ senders \in Configs
    /\ \E order \in Bijection(Flows, Flows) :
          /\ \A i, j \in Flows : i < j =>
                \/ senders[order[i]].start < senders[order[j]].start
                \/ senders[order[i]].start = senders[order[j]].start /\ order[i] < order[j]
          /\ timer_map =
                [i \in Flows |-> [time |-> senders[order[i]].start, flow |-> order[i]]]
    /\ sent_so_far = [f \in Flows |-> 0]

\* Mutants of Rearm: one packet too many; or the time counts from the start.
RearmMore(f, map) ==
    IF sent_so_far[f] < Total(senders[f])
    THEN SetTimer(map, f, clock' + senders[f].ip) ELSE map
RearmFromStart(f, map) ==
    IF sent_so_far[f] + 1 < senders[f].count
    THEN SetTimer(map, f, senders[f].start + senders[f].ip) ELSE map

\* The end of handle_timer: the next timer, unless all packets were sent.
Rearm(f, map) ==
    IF sent_so_far[f] + 1 < senders[f].count
    THEN SetTimer(map, f, clock' + senders[f].ip) ELSE map

\* process_timer, which sets the clock, and CbrSender::handle_timer.
HandleTimer(f) ==
    /\ TimerFirst(timer_map, packet_map) /\ Head(timer_map).flow = f
    /\ HostSend(CbrPacket(senders[f], sent_so_far[f]), Head(timer_map).time)
    /\ sent_so_far' = [sent_so_far EXCEPT ![f] = @ + 1]
    /\ timer_map' = Rearm(f, Tail(timer_map))
    /\ UNCHANGED senders

\* process_packet, when no timer is due.
HandlePacket ==
    /\ PacketFirst(timer_map, packet_map)
    /\ ProcessPacket
    /\ UNCHANGED <<senders, timer_map, sent_so_far>>

CbrNext == (\E f \in Flows : HandleTimer(f)) \/ HandlePacket

\* Scheduler::run takes events as long as there are any.
CbrSpec == CbrInit /\ [][CbrNext]_cbrVars /\ WF_cbrVars(CbrNext)

-----------------------------------------------------------------------------
(* Properties                                                              *)

\* A sender that has packets left owns one timer, set to the time a constant
\* rate asks for, whatever the network did to its packets; no other timer is
\* pending, so none fires for a sender that is done.
TimersKeepRate ==
    /\ \A i \in DOMAIN timer_map :
          LET f == timer_map[i].flow
          IN  /\ sent_so_far[f] < Total(senders[f])
              /\ timer_map[i].time = Due(senders[f], sent_so_far[f])
    /\ \A f \in Flows :
          Cardinality({i \in DOMAIN timer_map : timer_map[i].flow = f}) =
              IF sent_so_far[f] < Total(senders[f]) THEN 1 ELSE 0

\* No event is in the past: the scheduler never leaves behind a timer or a
\* packet event that was due earlier than what it processed.
NothingOverdue ==
    /\ \A i \in DOMAIN timer_map : clock <= timer_map[i].time
    /\ \A i \in DOMAIN packet_map : clock <= packet_map[i].time

\* A flow that shares no link with another one and leaves each link the time
\* it takes for a packet, over nodes that can hold a packet, loses nothing and
\* has no jitter: packet k arrives the delays of its links after it was due,
\* although a timer or an arrival and the end of the transmission before it
\* fall on the same instant, and links of one path may differ in speed.
LinksOf(s) ==
    LET to == s.destination
        links[x \in Nodes] ==
          IF x = to THEN {} ELSE links[NextHop[<<x, to>>]] \cup {<<x, NextHop[<<x, to>>]>>}
    IN  links[s.source]
Smooth(f) ==
    /\ \A g \in Flows \ {f} : LinksOf(senders[f]) \cap LinksOf(senders[g]) = {}
    /\ \A l \in LinksOf(senders[f]) :
          Capacity[l[1]] > 0 /\ TransTime(l, senders[f]) \in 1 .. senders[f].ip
\* The time a packet of s needs from each node to the end.
Rest(s) ==
    LET to == s.destination
        from[x \in Nodes] ==
          IF x = to THEN 0
          ELSE LET hop == NextHop[<<x, to>>]
               IN  from[hop] + LinkDelay(<<x, hop>>, s)
    IN  from
PathDelay(s) == Rest(s)[s.source]
NoJitter ==
    [][\A f \in Flows : Smooth(f) =>
          LET pair == <<senders[f].source, senders[f].destination>>
          IN  received'[pair] # received[pair] =>
                  clock' = Due(senders[f], Len(received[pair])) + PathDelay(senders[f])]_cbrVars

\* The simulation ends by itself, with every packet sent.
SimulationEnds ==
    <>[](/\ timer_map = <<>> /\ packet_map = <<>>
         /\ \A f \in Flows : sent_so_far[f] = Total(senders[f]))
=============================================================================
