------------------------------ MODULE RoundTrip ------------------------------
(***************************************************************************)
(* The round-trip estimate of dtpHost and the timers computed from it, in  *)
(* virtual time.                                                           *)
(*                                                                         *)
(* One source sends the DATA packets of a file to one destination, from    *)
(* the moment SYN_ACK opened the connection until the ACK of the last      *)
(* packet; DtpHost models the rest of the protocol, without time.  A copy  *)
(* is kept exactly as long as its timer is pending, because the handlers   *)
(* involved delete the two together: one entry of timer_map stands for     *)
(* the copy, the timer and the map entry that leads to the timer.  The     *)
(* path serialises DATA packets, delays both directions by constant times  *)
(* and may drop packets; its routers write a window into each packet.      *)
(***************************************************************************)
EXTENDS EventMap, FiniteSetsExt

CONSTANTS
    Paths,          \* [length, there, back]: the time a DATA packet keeps the
                    \* link busy, and the delays of DATA and ACK packets
    InitialRtt,     \* initial_rtt
    FileLength,     \* packets of the file
    Windows,        \* windows the routers of the path write
    Leftovers,      \* queue_for_rtt as earlier flows of the source left it
    IntSize,        \* number of values of an int, 2^32
    Unwritten,      \* rtt_estimation before the first ACK writes it
    MaxLost         \* bound: packets the path drops

ASSUME PathsAssumption ==
    Paths \subseteq [length : Nat, there : Nat \ {0}, back : Nat \ {0}]
ASSUME SizesAssumption ==
    /\ InitialRtt \in Nat \ {0} /\ FileLength \in Nat \ {0} /\ IntSize \in Nat \ {0}
    /\ Windows \subseteq Nat \ {0} /\ MaxLost \in Nat
    /\ Unwritten \notin Int
ASSUME LeftoversAssumption ==
    \A q \in Leftovers : q \in Seq(Int) /\ \A i \in DOMAIN q : q[i] < 0

VARIABLES
    clock,
    timer_map,              \* events [time, kind, id, cwnd]: the copies
                            \* kept of DATA and ACK packets, and "normal"
    packet_map,             \* arrivals [time, kind, id, cwnd]
    path, free,             \* the path, and when its link is idle again
    rtt_in_host, queue_for_rtt, rtt_estimation, not_first_time_rtt,
    sent_so_far, lastest_ack_rec, cwnd_host, done_transmission,
    packet_expected,        \* at the destination, with the numbers of the
    order_packet_map,       \* packets that came ahead
    lost, resent            \* packets dropped, DATA packets sent again

source == <<sent_so_far, lastest_ack_rec, cwnd_host, done_transmission>>
estimate == <<rtt_in_host, queue_for_rtt, rtt_estimation, not_first_time_rtt>>
destination == <<packet_expected, order_packet_map>>
vars == <<clock, timer_map, packet_map, path, free, estimate, source, destination,
          lost, resent>>

-----------------------------------------------------------------------------
(* Arithmetic                                                              *)

\* The int that the sum or product x leaves behind.
Wrapped(x) == ((x + IntSize \div 2) % IntSize) - IntSize \div 2

\* Mutant of Smoothed: the fractions are cut off.
SmoothedDown(rtt, sample) == (9 * rtt) \div 10 + sample \div 10

\* ceil(alpha * rtt) + ceil((1 - alpha) * sample).  alpha is the float nearest
\* to 0.9, and 1 - alpha a little more than 0.1: the second ceil rounds up
\* even when ten divides the sample.  Exact up to a million.
Smoothed(rtt, sample) ==
    (9 * rtt + 9) \div 10 + (IF sample = 0 THEN 0 ELSE sample \div 10 + 1)

-----------------------------------------------------------------------------
(* Packets and timers                                                      *)

Event(time, kind, id, cwnd) == [time |-> time, kind |-> kind, id |-> id, cwnd |-> cwnd]

\* Mutants of Keep: the time of a timer is taken for a delay; or ACKs are not
\* kept.
KeepDelay(map, now, kind, id, cwnd, wait) ==
    Schedule(map, Event(Wrapped(wait), kind, id, cwnd))
KeepData(map, now, kind, id, cwnd, wait) ==
    IF kind = "ACK" THEN map ELSE Schedule(map, Event(Wrapped(now + wait), kind, id, cwnd))

\* set_retransmission_cookie and set_retransmission_map at time now.
Keep(map, now, kind, id, cwnd, wait) ==
    Schedule(map, Event(Wrapped(now + wait), kind, id, cwnd))

\* set_normal_cookie.
Normal(map, now) == Schedule(map, Event(now, "normal", 0, 0))

\* delete_retransmission_timmer and delete_timer_cookie, for some <<kind, id>>.
Forget(map, copies) ==
    Kept(map, {i \in DOMAIN map : <<map[i].kind, map[i].id>> \notin copies})

\* The time a DATA packet leaves the link when it is sent at time now.
Leaves(now, idle) == Max({now, idle}) + path.length

\* send: the packet is on its way or, up to MaxLost times, dropped.
Deliver(map, e) ==
    \/ packet_map' = Schedule(map, e) /\ UNCHANGED lost
    \/ packet_map' = map /\ lost < MaxLost /\ lost' = lost + 1
SendAck(map, now, id, cwnd) ==
    /\ Deliver(map, Event(now + path.back, "ACK", id, cwnd))
    /\ UNCHANGED free
SendData(map, now, id) ==
    /\ Deliver(map, Event(Leaves(now, free) + path.there, "DATA", id, 0))
    /\ free' = Leaves(now, free)

-----------------------------------------------------------------------------
(* Timers                                                                  *)

\* The host was set up for the flow and SYN_ACK woke it up; not_first_time_rtt
\* is never initialised.
Init ==
    /\ clock = 0
    /\ timer_map = Normal(<<>>, 0)
    /\ packet_map = <<>>
    /\ path \in Paths /\ free = 0
    /\ rtt_in_host = InitialRtt
    /\ queue_for_rtt \in Leftovers
    /\ rtt_estimation = Unwritten
    /\ not_first_time_rtt \in BOOLEAN
    /\ sent_so_far = 0 /\ lastest_ack_rec = 0 /\ cwnd_host = 1
    /\ done_transmission = FALSE
    /\ packet_expected = 1 /\ order_packet_map = {}
    /\ lost = 0 /\ resent = 0

\* process_timer: the first timer, at its time.
Fires(e) ==
    /\ TimerFirst(timer_map, packet_map)
    /\ e = Head(timer_map)
    /\ clock' = e.time
    /\ UNCHANGED <<path, rtt_in_host, rtt_estimation, not_first_time_rtt,
                   lastest_ack_rec, cwnd_host, destination>>

\* The numbers of the next burst: cwnd_host packets, fewer at the end.
Burst == sent_so_far + 1 .. Min({sent_so_far + cwnd_host, FileLength})

\* Mutant of BurstWait: the window is not taken into account.
BurstWaitRtt == rtt_in_host

\* How long the copies of a burst wait.
BurstWait == rtt_in_host * (cwnd_host + 2)

\* handle_timer, sending state: the burst leaves at once, a sample of the
\* time is queued for each packet.
SendBurst(e) ==
    LET n == Cardinality(Burst)
        after(k) == Max({clock', free}) + k * path.length
        copy == [id \in Burst |-> Event(Wrapped(clock' + BurstWait), "DATA", id, 0)]
        arrival == [id \in Burst |->
                      Event(after(id - sent_so_far) + path.there, "DATA", id, 0)]
    IN  /\ Fires(e) /\ e.kind = "normal"
        /\ ~done_transmission
        /\ timer_map' = ScheduleAll(Tail(timer_map), copy, Burst)
        /\ \E dropped \in SUBSET Burst :
             /\ lost + Cardinality(dropped) <= MaxLost
             /\ lost' = lost + Cardinality(dropped)
             /\ packet_map' = ScheduleAll(packet_map, arrival, Burst \ dropped)
        /\ free' = after(n)
        /\ queue_for_rtt' = queue_for_rtt \o [k \in 1 .. n |-> clock']
        /\ sent_so_far' = sent_so_far + n
        /\ done_transmission' = (sent_so_far + n = FileLength)
        /\ UNCHANGED resent

\* The sending state after the last packet, or the FIN state: no DATA.
SendNothing(e) ==
    /\ Fires(e) /\ e.kind = "normal"
    /\ done_transmission
    /\ timer_map' = Tail(timer_map)
    /\ UNCHANGED <<packet_map, free, queue_for_rtt, sent_so_far, done_transmission,
                   lost, resent>>

\* A resent copy waits twice the estimate of its host: the destination, which
\* gets no ACK, keeps the initial one.
ResendWait(e) == 2 * (IF e.kind = "DATA" THEN rtt_in_host ELSE InitialRtt)

\* handle_timer, retransmission.
Resend(e) ==
    /\ Fires(e) /\ e.kind \in {"DATA", "ACK"}
    /\ timer_map' = Keep(Tail(timer_map), e.time, e.kind, e.id, e.cwnd, ResendWait(e))
    /\ IF e.kind = "DATA"
       THEN SendData(packet_map, e.time, e.id) /\ resent' = resent + 1
       ELSE SendAck(packet_map, e.time, e.id, e.cwnd) /\ UNCHANGED resent
    /\ UNCHANGED <<queue_for_rtt, sent_so_far, done_transmission>>

-----------------------------------------------------------------------------
(* Arrivals                                                                *)

\* process_packet: the first arrival, at its time.
Arrives(e) ==
    /\ PacketFirst(timer_map, packet_map)
    /\ e = Head(packet_map)
    /\ clock' = e.time
    /\ UNCHANGED <<path, sent_so_far, resent>>

\* What the destination may expect once packet id has come: check_inorder_packets
\* walks the map from its smallest number, and erasing an entry invalidates the
\* iterator it goes on with, at the next entry or at the end of the map.
NextExpected(id) ==
    LET walks == {n \in id + 1 .. FileLength + 1 :
                    n > id + 1 => /\ \A k \in order_packet_map : k > id
                                  /\ id + 1 .. n - 1 \subseteq order_packet_map}
    IN  IF walks = {id + 1} THEN walks ELSE walks \ {id + 1}

\* DATA in order: it and the packets taken with it are answered by one ACK,
\* kept under the destination's estimate.
DataInOrder(e) ==
    /\ Arrives(e) /\ e.kind = "DATA" /\ e.id = packet_expected
    /\ \E next \in NextExpected(e.id), w \in Windows :
         /\ packet_expected' = next
         /\ order_packet_map' = order_packet_map \ (e.id + 1 .. next - 1)
         /\ timer_map' = Keep(timer_map, e.time, "ACK", next, w, InitialRtt)
         /\ SendAck(Tail(packet_map), e.time, next, w)
    /\ UNCHANGED <<estimate, lastest_ack_rec, cwnd_host, done_transmission>>

DataAhead(e) ==
    /\ Arrives(e) /\ e.kind = "DATA" /\ e.id > packet_expected
    /\ order_packet_map' = order_packet_map \cup {e.id}
    /\ packet_map' = Tail(packet_map)
    /\ UNCHANGED <<timer_map, free, lost, estimate, lastest_ack_rec, cwnd_host,
                   done_transmission, packet_expected>>

\* DATA once more: the source's copy is deleted.
DataRepeated(e) ==
    /\ Arrives(e) /\ e.kind = "DATA" /\ e.id < packet_expected
    /\ timer_map' = Forget(timer_map, {<<"DATA", e.id>>})
    /\ packet_map' = Tail(packet_map)
    /\ UNCHANGED <<free, lost, estimate, lastest_ack_rec, cwnd_host, done_transmission,
                   destination>>

\* Mutant of Estimate: the sample is not remembered.
EstimateForgets(now) ==
    /\ UNCHANGED <<rtt_estimation, not_first_time_rtt>>
    /\ IF queue_for_rtt # <<>>
       THEN /\ rtt_in_host' = Smoothed(rtt_in_host, now - Head(queue_for_rtt))
            /\ queue_for_rtt' = Tail(queue_for_rtt)
       ELSE UNCHANGED <<rtt_in_host, queue_for_rtt>>

\* rtt_estimation: an ACK uses up the oldest sample, whichever packet it is
\* of; without a sample the last one is used again.
Estimate(now) ==
    IF queue_for_rtt # <<>>
    THEN LET sample == now - Head(queue_for_rtt)
         IN  /\ rtt_in_host' = IF not_first_time_rtt
                               THEN Smoothed(rtt_in_host, sample) ELSE sample
             /\ rtt_estimation' = Head(queue_for_rtt)
             /\ queue_for_rtt' = Tail(queue_for_rtt)
             /\ not_first_time_rtt' = TRUE
    ELSE /\ IF rtt_estimation = Unwritten
            THEN rtt_in_host' \in {0, IntSize \div 2 - 1}
            ELSE rtt_in_host' = Smoothed(rtt_in_host, now - rtt_estimation)
         /\ UNCHANGED <<queue_for_rtt, rtt_estimation, not_first_time_rtt>>

\* An ACK: the estimate, the copies it acknowledges and its own copy at the
\* destination; then the next burst.
Ack(e) ==
    /\ Arrives(e) /\ e.kind = "ACK"
    /\ Estimate(e.time)
    /\ timer_map' = Normal(Forget(timer_map,
                                  {<<"DATA", id>> : id \in lastest_ack_rec + 1 .. e.id - 1}
                                    \cup {<<"ACK", e.id>>}), e.time)
    /\ lastest_ack_rec' = e.id - 1
    /\ cwnd_host' \in {w \in Windows : w <= e.cwnd}
    /\ done_transmission' = (done_transmission \/ e.id = FileLength + 1)
    /\ packet_map' = Tail(packet_map)
    /\ UNCHANGED <<free, lost, destination>>

Next ==
    \/ \E e \in ToSet(timer_map) : SendBurst(e) \/ SendNothing(e) \/ Resend(e)
    \/ \E e \in ToSet(packet_map) :
          DataInOrder(e) \/ DataAhead(e) \/ DataRepeated(e) \/ Ack(e)

\* Scheduler::run takes events as long as there are any.
Spec == Init /\ [][Next]_vars /\ WF_vars(Next)
-----------------------------------------------------------------------------
(* Properties                                                              *)

\* No packet's way to the destination and back is shorter than this.
ShortestTrip == path.length + path.there + path.back

\* The estimate never falls below the shortest round trip of the path (or the
\* initial estimate), as long as an ACK is back before the destination sends
\* it again: the sample an ACK takes from queue_for_rtt is of a packet that was
\* acknowledged, however many ACKs were lost or answered several packets.
EstimateCovers ==
    path.back < InitialRtt => rtt_in_host >= Min({InitialRtt, ShortestTrip})

\* An ACK without a sample left finds an rtt_estimation that was written.
SampleAtHand ==
    \A i \in DOMAIN packet_map :
        packet_map[i].kind = "ACK" /\ queue_for_rtt = <<>> => rtt_estimation # Unwritten

\* No event is in the past, so that set_clock advances the virtual time.
NothingOverdue ==
    /\ \A i \in DOMAIN timer_map : clock <= timer_map[i].time
    /\ \A i \in DOMAIN packet_map : clock <= packet_map[i].time

\* Without a loss no DATA packet is sent twice, although each ACK starts a burst
\* that queues up behind the others, when the file is so short that all of it
\* could queue up within the least wait, three estimates (BurstWait).
NoNeedlessResend ==
    /\ lost = 0 /\ path.back < InitialRtt
    /\ FileLength * path.length + path.there + path.back
          < 3 * Min({InitialRtt, ShortestTrip})
    => resent = 0

\* The whole file is acknowledged in the end and no copy stays behind: the
\* simulation stops by itself.
AllAcknowledged ==
    <>[](/\ timer_map = <<>> /\ packet_map = <<>>
         /\ packet_expected = FileLength + 1)
=============================================================================
