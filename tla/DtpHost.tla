------------------------------- MODULE DtpHost -------------------------------
(***************************************************************************)
(* The end hosts of the file transfer protocol FDTP (class dtpHost).       *)
(*                                                                         *)
(* A flow moves a file, cut into numbered packets, from a source host to a *)
(* destination host: SYN / SYN_ACK open it, DATA and cumulative ACKs move  *)
(* it, FIN / FIN_ACK close it.  A host keeps a copy of every packet it may *)
(* have to send again (re_packet_map) and a timer per copy.  The handlers  *)
(* of one host also reach into the host at the other end and change its    *)
(* fields, maps and timers directly.                                       *)
(*                                                                         *)
(* The network between two hosts is abstracted to one FIFO channel per     *)
(* direction that may drop packets and whose routers write a congestion    *)
(* window into each packet.  Virtual time is abstracted away: a timer may  *)
(* fire at any moment after it was set.                                    *)
(***************************************************************************)
EXTENDS Integers, Sequences, FiniteSets, FiniteSetsExt, Bags, BagsExt

CONSTANTS
    Hosts,      \* addresses of the hosts
    NoHost,     \* a destination field that was never written
    Flows,      \* FDTPFlow commands: [source, destination, packets]
    NoFile,     \* a file_holder field that was never written
    UShort,     \* number of values of an unsigned short, 2^16
    Windows,    \* shares the routers of a path mark a packet with; the share
                \* UShort, which the field cannot hold, leaves an unmarked
                \* packet unmarked, as a path without a router does
    Overlap,    \* may a flow start while another one is still running?
    Garbage,    \* bodies an uninitialised packet may have
    MaxEarly,   \* bound: retransmissions while a packet is still in flight
    MaxLost     \* bound: packets the network drops

Kinds == {"SYN", "SYN_ACK", "DATA", "ACK", "FIN", "FIN_ACK", "OTHER"}
NoData == <<>>
UShorts == 0 .. UShort - 1
States == {"uninitialised", "SYN", "sending", "sending_ack_listening", "FIN"}

\* Body: what an uninitialised packet holds besides its two addresses.
Body == [kind : Kinds, id : Nat, last : BOOLEAN, cwnd : UShorts,
         data : {NoData} \cup (Flows \X Nat)]
Packet == [destination : Hosts \cup {NoHost}, kind : Kinds, id : Nat,
           last : BOOLEAN, cwnd : UShorts,
           data : {NoData} \cup (Flows \X Nat)]

ASSUME HostsAssumption == NoHost \notin Hosts /\ NoFile \notin Flows
ASSUME FlowsAssumption ==
    \A f \in Flows : /\ f.source \in Hosts
                     /\ f.destination \in Hosts \ {f.source}
                     /\ f.packets \in Nat \ {0}
ASSUME WindowsAssumption == UShort \in Nat \ {0} /\ Windows \subseteq 1 .. UShort
ASSUME BoundsAssumption ==
    Overlap \in BOOLEAN /\ Garbage \subseteq Body
    /\ MaxEarly \in Nat /\ MaxLost \in Nat

VARIABLES
    \* fields of each host
    destination, sender, file_holder, state, done_transmission,
    sent_so_far, packet_expected, lastest_ack_rec, cwnd_host, temp_cwnd_host,
    re_packet_map,      \* packets kept for retransmission, one per id
    order_packet_map,   \* DATA that arrived ahead of packet_expected
    \* timers of each host; cookie_retranmission_timmer is armed \cup stale
    armed,              \* ids with an entry whose timer is pending
    stale,              \* ids with an entry whose timer already fired
    leaked,             \* bag of ids: pending timers no entry refers to
    normal,             \* hosts with a pending normal cookie
    waiting,            \* flows whose start timer is pending
    net,                \* packets in flight from one host to another
    early, lost,        \* what the bounds count
    output,             \* chunks each host passed on (hosts 8 and 9 also
                        \* append them to their output files)
    torn_down,          \* flows with a "Tore down FDTP flow" trace line
    aborted             \* why the program stopped, "no" while it runs

setup == <<destination, sender, file_holder>>
progress == <<sent_so_far, packet_expected, lastest_ack_rec, temp_cwnd_host>>
timers == <<armed, stale, leaked>>
report == <<output, torn_down>>
vars == <<setup, state, done_transmission, progress, cwnd_host, re_packet_map,
          order_packet_map, timers, normal, waiting, net, early, lost, report, aborted>>

-----------------------------------------------------------------------------
(* Packets, maps and timers                                                *)

Pkt(to, kind, id, last, cwnd, data) ==
    [destination |-> to, kind |-> kind, id |-> id,
     last |-> last, cwnd |-> cwnd, data |-> data]

\* Mutant of Marked: an unmarked packet is not told from an empty window.
MarkedMin(p, w) == [p EXCEPT !.cwnd = IF @ > w THEN w ELSE @]

\* What the routers between two hosts do to the window of a packet.
Marked(p, w) ==
    [p EXCEPT !.cwnd = IF @ = 0 THEN w % UShort ELSE IF @ > w THEN w ELSE @]

\* The unsigned short window as the short parameter of send_immediately.
AsShort(c) == IF 2 * c >= UShort THEN c - UShort ELSE c

Keys(map) == {p.id : p \in map}

\* Mutants of Insert: the packet is not kept; or a second one per id is.
InsertNothing(map, p) == map
InsertAnyway(map, p) == map \cup {p}

\* set_retransmission_map and the insertion into order_packet_map: a packet
\* whose id is already a key is not stored.
Insert(map, p) == IF p.id \in Keys(map) THEN map ELSE map \cup {p}
InsertAll(map, ps) == map \cup {p \in ps : p.id \notin Keys(map)}

\* Mutant of Erase: the timer is cancelled but the copy stays.
EraseNothing(map, ids) == map

\* delete_retransmission_timmer, for several ids.
Erase(map, ids) == {p \in map : p.id \notin ids}

\* set_retransmission_cookie: the entry of an id is replaced, the timer of
\* the old entry, when still pending, is not cancelled.
Arm(h, ids) ==
    /\ armed' = [armed EXCEPT ![h] = @ \cup ids]
    /\ stale' = [stale EXCEPT ![h] = @ \ ids]
    /\ leaked' = [leaked EXCEPT ![h] = @ (+) SetToBag(armed[h] \cap ids)]

\* Mutant of Cancel: the timer is cancelled but its entry stays in the map.
CancelKeepsEntry(gone) ==
    /\ armed' = [h \in Hosts |-> armed[h] \ gone[h]]
    /\ stale' = [h \in Hosts |-> stale[h] \cup (armed[h] \cap gone[h])]
    /\ UNCHANGED leaked

\* delete_timer_cookie dies in Timer::cancel_timer when the entry's timer
\* has fired already.  gone maps each host to the ids deleted there.
CancelDies(gone) == \E h \in Hosts : gone[h] \cap stale[h] # {}
Cancel(gone) ==
    /\ armed' = [h \in Hosts |-> armed[h] \ gone[h]]
    /\ UNCHANGED <<stale, leaked>>

\* A handler deletes copies and their timers, by delete_retransmission_timmer
\* and delete_timer_cookie for the same numbers, at one or both ends.
Forget(gone) ==
    /\ ~CancelDies(gone)
    /\ Cancel(gone)
    /\ re_packet_map' = [h \in Hosts |-> Erase(re_packet_map[h], gone[h])]

At(h, ids) == [x \in Hosts |-> IF x = h THEN ids ELSE {}]
AtBoth(h, ids, g, jds) ==
    [x \in Hosts |-> (IF x = h THEN ids ELSE {}) \cup (IF x = g THEN jds ELSE {})]

\* Mutant of SetNormalCookie: the other end is woken up as well.
SetBothCookies(h) == normal' = {h} \cup ({destination[h]} \cap Hosts)

\* set_normal_cookie: a timer due at once; none is pending while packets move.
SetNormalCookie(h) == normal' = {h}

\* send: the packet joins the channel to its destination.
Sent(n, h, p) == [n EXCEPT ![<<h, p.destination>>] = Append(@, p)]
Consumed(s, d) == [net EXCEPT ![<<s, d>>] = Tail(@)]

\* exit(0) in ASSERT, or a crash: nothing happens afterwards.
Abort(why) ==
    /\ aborted' = why
    /\ UNCHANGED <<setup, state, done_transmission, progress, cwnd_host,
                   re_packet_map, order_packet_map, timers, normal, waiting,
                   net, early, lost, torn_down>>

-----------------------------------------------------------------------------
(* Starting a flow, and the normal cookie                                  *)

Init ==
    /\ destination = [h \in Hosts |-> NoHost]
    /\ sender = [h \in Hosts |-> FALSE]
    /\ file_holder = [h \in Hosts |-> NoFile]
    /\ state = [h \in Hosts |-> "uninitialised"]
    /\ done_transmission = [h \in Hosts |-> FALSE]
    /\ sent_so_far = [h \in Hosts |-> 0]
    /\ packet_expected = [h \in Hosts |-> 1]
    /\ lastest_ack_rec = [h \in Hosts |-> 0]
    /\ cwnd_host = [h \in Hosts |-> 1]
    /\ temp_cwnd_host = [h \in Hosts |-> 0]
    /\ re_packet_map = [h \in Hosts |-> {}]
    /\ order_packet_map = [h \in Hosts |-> {}]
    /\ armed = [h \in Hosts |-> {}]
    /\ stale = [h \in Hosts |-> {}]
    /\ leaked = [h \in Hosts |-> EmptyBag]
    /\ normal = {}
    /\ waiting = Flows
    /\ net = [c \in Hosts \X Hosts |-> <<>>]
    /\ early = 0
    /\ lost = 0
    /\ output = [h \in Hosts |-> <<>>]
    /\ torn_down = {}
    /\ aborted = "no"

\* Keep p for retransmission under a fresh timer and send it.
SendKept(n, h, p) ==
    /\ Arm(h, {p.id})
    /\ re_packet_map' = [re_packet_map EXCEPT ![h] = Insert(@, p)]
    /\ net' = Sent(n, h, p)

\* Only a timer can make anything happen; and not even a timer.
Stalled == normal = {} /\ \A c \in DOMAIN net : net[c] = <<>>
Quiet ==
    /\ Stalled
    /\ \A h \in Hosts : \A p \in re_packet_map[h] :
           p.id \notin armed[h] /\ ~BagIn(p.id, leaked[h])

\* handle_timer, new_connection: both ends are set up, the source sends SYN.
StartFlow(f) ==
    LET s == f.source
        d == f.destination
        Reset(field, value) == [field EXCEPT ![s] = value, ![d] = value]
    IN  /\ aborted = "no"
        /\ f \in waiting
        /\ Overlap \/ Quiet
        /\ waiting' = waiting \ {f}
        /\ destination' = [destination EXCEPT ![s] = d]
        /\ file_holder' = [file_holder EXCEPT ![s] = f]
        /\ sender' = [sender EXCEPT ![s] = TRUE, ![d] = FALSE]
        /\ state' = Reset(state, "SYN")
        /\ done_transmission' = Reset(done_transmission, FALSE)
        /\ sent_so_far' = Reset(sent_so_far, 0)
        /\ packet_expected' = Reset(packet_expected, 1)
        /\ cwnd_host' = Reset(cwnd_host, 1)
        /\ lastest_ack_rec' = Reset(lastest_ack_rec, 0)
        /\ SendKept(net, s, Pkt(d, "SYN", 0, FALSE, 0, NoData))
        /\ UNCHANGED <<temp_cwnd_host, order_packet_map, normal, early, lost, report,
                       aborted>>

\* The packet with number id of the file of h; the one that does not fill the
\* payload carries last_packet.
FilePacket(h, id) ==
    Pkt(destination[h], "DATA", id, id >= file_holder[h].packets, 0,
        <<file_holder[h], id>>)

\* The packets one burst sends: cwnd_host of them, fewer at the end of the file.
Burst(h) ==
    LET first == sent_so_far[h] + 1
        rest  == Max({1, file_holder[h].packets - sent_so_far[h]})
        count == Min({cwnd_host[h], rest})
    IN  [i \in 1 .. count |-> FilePacket(h, first + i - 1)]

RangeOf(q) == {q[i] : i \in DOMAIN q}

\* handle_timer, normal cookie: the first packet of a connection, either way.
SendSyn(h) ==
    /\ state[h] = "SYN"
    /\ SendKept(net, h, Pkt(destination[h], IF sender[h] THEN "SYN" ELSE "SYN_ACK",
                            0, FALSE, 0, NoData))
    /\ UNCHANGED <<done_transmission, sent_so_far, aborted>>

\* The sending state: the next cwnd_host packets leave at once.
SendBurst(h) ==
    LET burst == Burst(h)
        ids == {p.id : p \in RangeOf(burst)}
    IN  /\ state[h] = "sending" /\ sender[h] /\ ~done_transmission[h]
        /\ cwnd_host[h] > 0
        /\ sent_so_far' = [sent_so_far EXCEPT ![h] = @ + Len(burst)]
        /\ done_transmission' =
             [done_transmission EXCEPT ![h] = \E p \in RangeOf(burst) : p.last]
        /\ Arm(h, ids)
        /\ re_packet_map' =
             [re_packet_map EXCEPT ![h] = InsertAll(@, RangeOf(burst))]
        /\ net' = [net EXCEPT ![<<h, destination[h]>>] = @ \o burst]
        /\ UNCHANGED aborted

\* The sending state has nothing to send: the receiver of the flow, or a
\* source that already sent its last packet.
SendNothing(h) ==
    /\ state[h] = "sending" /\ ~(sender[h] /\ ~done_transmission[h])
    /\ UNCHANGED <<done_transmission, sent_so_far, re_packet_map, timers, net,
                   aborted>>

\* The FIN state at a source: FIN takes the number after the next.
SendFin(h) ==
    /\ state[h] = "FIN" /\ sender[h]
    /\ sent_so_far' = [sent_so_far EXCEPT ![h] = @ + 1]
    /\ SendKept(net, h, Pkt(destination[h], "FIN", sent_so_far[h] + 2, FALSE,
                            0, NoData))
    /\ UNCHANGED <<done_transmission, aborted>>

\* A host that is not in a sending state for its role still sends the packet
\* it allocated: only the addresses in it were written.
SendUninitialised(h) ==
    /\ state[h] = "sending_ack_listening" \/ (state[h] = "FIN" /\ ~sender[h])
    /\ \E g \in Garbage :
          net' = Sent(net, h, Pkt(destination[h], g.kind, g.id, g.last, g.cwnd,
                                  IF state[h] = "FIN" THEN NoData ELSE g.data))
    /\ UNCHANGED <<done_transmission, sent_so_far, re_packet_map, timers, aborted>>

NormalTimer(h) ==
    /\ aborted = "no"
    /\ h \in normal
    /\ normal' = normal \ {h}
    /\ \/ SendSyn(h)
       \/ SendBurst(h)
       \/ SendNothing(h)
       \/ SendFin(h)
       \/ SendUninitialised(h)
    /\ UNCHANGED <<setup, state, packet_expected, lastest_ack_rec, temp_cwnd_host,
                   cwnd_host, order_packet_map, waiting, early, lost, report>>

\* ASSERT(cwnd_host>0) in the sending state.
NormalTimerDies(h) ==
    /\ aborted = "no"
    /\ h \in normal
    /\ state[h] = "sending" /\ sender[h] /\ ~done_transmission[h]
    /\ cwnd_host[h] = 0
    /\ Abort("window")
    /\ UNCHANGED output

-----------------------------------------------------------------------------
(* Retransmission timers                                                   *)

\* The timer of id fires; owned tells whether it is the one of the entry or
\* one that an earlier set_retransmission_cookie left behind.
Resend(h, id, owned) ==
    \E p \in re_packet_map[h] :
        /\ p.id = id
        /\ early' = IF Stalled THEN early ELSE early + 1
        /\ early' <= MaxEarly
        /\ net' = Sent(net, h, p)
        /\ IF owned
           THEN UNCHANGED timers
           ELSE /\ armed' = [armed EXCEPT ![h] = @ \cup {id}]
                /\ stale' = [stale EXCEPT ![h] = @ \ {id}]
                /\ leaked' = [leaked EXCEPT ![h] =
                     IF id \in armed[h] THEN @ ELSE BagRemove(@, id)]

\* The copy was deleted: the timer is spent, the entry stays in the map.
TimerFinds(h, id, owned) ==
    /\ id \notin Keys(re_packet_map[h])
    /\ IF owned
       THEN /\ armed' = [armed EXCEPT ![h] = @ \ {id}]
            /\ stale' = [stale EXCEPT ![h] = @ \cup {id}]
            /\ UNCHANGED leaked
       ELSE /\ leaked' = [leaked EXCEPT ![h] = BagRemove(@, id)]
            /\ UNCHANGED <<armed, stale>>
    /\ UNCHANGED <<net, early>>

RetransmissionTimer(h, id, owned) ==
    /\ aborted = "no"
    /\ IF owned THEN id \in armed[h] ELSE BagIn(id, leaked[h])
    /\ Resend(h, id, owned) \/ TimerFinds(h, id, owned)
    /\ UNCHANGED <<setup, state, done_transmission, progress, cwnd_host,
                   re_packet_map, order_packet_map, normal, waiting, lost, report,
                   aborted>>

-----------------------------------------------------------------------------
(* Receiving a packet                                                      *)

ReceiveSyn(s, d, p) ==
    /\ p.kind = "SYN"
    /\ destination' = [destination EXCEPT ![d] = s]
    /\ SetNormalCookie(d)
    /\ net' = Consumed(s, d)
    /\ UNCHANGED <<sender, file_holder, state, done_transmission, progress,
                   cwnd_host, re_packet_map, order_packet_map, timers, report,
                   aborted>>

\* Both ends go to the sending state and forget their connection packets.
ReceiveSynAck(s, d, p) ==
    LET peer == destination[d]
    IN  /\ p.kind = "SYN_ACK"
        /\ Forget(AtBoth(d, {p.id}, peer, {p.id}))
        /\ state' = [state EXCEPT ![d] = "sending", ![peer] = "sending"]
        /\ SetNormalCookie(d)
        /\ net' = Consumed(s, d)
        /\ UNCHANGED <<setup, done_transmission, progress, cwnd_host,
                       order_packet_map, report, aborted>>

\* check_inorder_packets after packet_expected became next: how many buffered
\* packets it may take.  It walks the map from its smallest id and stops after
\* a last_packet.  Erasing an entry invalidates the iterator the loop goes on
\* with: the build's outcome is the next entry or the end of the map.
Buffered(d, id) == {p \in order_packet_map[d] : p.id = id}
Walk(d, next, n) ==
    /\ n > 0 => \A p \in order_packet_map[d] : p.id >= next
    /\ \A i \in 0 .. n - 1 : Buffered(d, next + i) # {}
    /\ \A i \in 0 .. n - 2 : \A p \in Buffered(d, next + i) : ~p.last
Drains(d, next) ==
    LET walks == {n \in 0 .. Cardinality(order_packet_map[d]) : Walk(d, next, n)}
    IN  IF walks = {0} THEN {0} ELSE walks \ {0}
Drained(d, next, n) == UNION {Buffered(d, next + i) : i \in 0 .. n - 1}

Chunk(d, id) == (CHOOSE q \in Buffered(d, id) : TRUE).data

\* Mutants of InOrder: the drained packets do not move packet_expected; or the
\* last packet counts as soon as it is buffered.
InOrderStays(d, p, n, w) ==
    LET next == packet_expected[d] + 1
    IN  [expected |-> next, drained |-> Drained(d, next, n), last |-> p.last,
         chunks |-> <<p.data>> \o [i \in 1 .. n |-> Chunk(d, next + i - 1)],
         ack |-> Pkt(destination[d], "ACK", next, p.last, w, NoData)]
InOrderAnyLast(d, p, n, w) ==
    LET next == packet_expected[d] + 1
        last == p.last \/ \E q \in order_packet_map[d] : q.last
    IN  [expected |-> next, drained |-> {}, last |-> last,
         chunks |-> <<p.data>>,
         ack |-> Pkt(destination[d], "ACK", next, last, w, NoData)]

\* The DATA packet in order: it and the n drained ones are written, one ACK
\* with the next expected number and the window w answers them all.
InOrder(d, p, n, w) ==
    LET next    == packet_expected[d] + 1
        drained == Drained(d, next, n)
        last    == p.last \/ \E q \in drained : q.last
    IN  [expected |-> next + n,
         drained  |-> drained,
         last     |-> last,
         chunks   |-> <<p.data>> \o [i \in 1 .. n |-> Chunk(d, next + i - 1)],
         ack      |-> Pkt(destination[d], "ACK", next + n, last, w, NoData)]

\* temp_cwnd_host: the smallest window of the packets an ACK answers.
IsWindow(d, p, n, w) ==
    LET windows == {p.cwnd} \cup {q.cwnd : q \in Drained(d, p.id + 1, n)}
    IN  w \in windows /\ \A v \in windows : w <= v

ReceiveInOrder(s, d, p) ==
    /\ p.kind = "DATA"
    /\ p.id = packet_expected[d]
    /\ AsShort(p.cwnd) > 0
    /\ \E n \in IF p.last THEN {0} ELSE Drains(d, p.id + 1),
          w \in {p.cwnd} \cup {q.cwnd : q \in order_packet_map[d]} :
         LET r == InOrder(d, p, n, w)
         IN  /\ IsWindow(d, p, n, w)
             /\ packet_expected' = [packet_expected EXCEPT ![d] = r.expected]
             /\ output' = [output EXCEPT ![d] = @ \o r.chunks]
             /\ order_packet_map' = [order_packet_map EXCEPT ![d] = @ \ r.drained]
             /\ temp_cwnd_host' = [temp_cwnd_host EXCEPT ![d] = w]
             /\ state' = [state EXCEPT ![d] =
                            IF r.last THEN "FIN" ELSE "sending_ack_listening"]
             /\ done_transmission' = [done_transmission EXCEPT ![d] = r.last \/ @]
             /\ SendKept(Consumed(s, d), d, r.ack)
    /\ UNCHANGED <<setup, sent_so_far, lastest_ack_rec, cwnd_host, normal,
                   torn_down, aborted>>

\* ASSERT(pack_cwnd>0) in send_immediately, reached after the writes; or the
\* walk over the buffer goes on from the erased entry and crashes.
ReceiveInOrderDies(s, d, p) ==
    /\ p.kind = "DATA"
    /\ p.id = packet_expected[d]
    /\ \E n \in IF p.last THEN {0} ELSE Drains(d, p.id + 1) :
         LET r == InOrder(d, p, n, 0)
         IN  /\ output' = [output EXCEPT ![d] = @ \o r.chunks]
             /\ \/ AsShort(p.cwnd) <= 0 /\ Abort("window")
                \/ n > 0 /\ ~r.last /\ Abort("iterator")

ReceiveAhead(s, d, p) ==
    /\ p.kind = "DATA"
    /\ p.id > packet_expected[d]
    /\ state' = [state EXCEPT ![d] = "sending_ack_listening"]
    /\ order_packet_map' = [order_packet_map EXCEPT ![d] = Insert(@, p)]
    /\ net' = Consumed(s, d)
    /\ UNCHANGED <<setup, done_transmission, progress, cwnd_host, re_packet_map,
                   timers, normal, report, aborted>>

\* A repeated DATA packet: the receiver deletes the copy the sender keeps.
ReceiveRepeated(s, d, p) ==
    /\ p.kind = "DATA"
    /\ p.id < packet_expected[d]
    /\ Forget(At(destination[d], {p.id}))
    /\ state' = [state EXCEPT ![d] = "sending_ack_listening"]
    /\ net' = Consumed(s, d)
    /\ UNCHANGED <<setup, done_transmission, progress, cwnd_host, order_packet_map,
                   normal, report, aborted>>

\* Mutants: the ACK number itself counts as acknowledged; FIN follows as soon
\* as the source has sent its last packet.
AckedIdsInclusive(d, id) == lastest_ack_rec[d] + 1 .. id
AfterAckEager(d, p) == IF p.last \/ done_transmission[d] THEN "FIN" ELSE "sending"

\* The packets an ACK with number id acknowledges for the first time.
AckedIds(d, id) == lastest_ack_rec[d] + 1 .. id - 1

\* Only the ACK of the last packet ends the sending state.
AfterAck(d, p) == IF p.last THEN "FIN" ELSE "sending"

ReceiveAck(s, d, p) ==
    /\ p.kind = "ACK"
    /\ Forget(AtBoth(d, AckedIds(d, p.id), destination[d], {p.id}))
    /\ lastest_ack_rec' = [lastest_ack_rec EXCEPT ![d] = p.id - 1]
    /\ cwnd_host' = [cwnd_host EXCEPT ![d] = p.cwnd]
    /\ state' = [state EXCEPT ![d] = AfterAck(d, p)]
    /\ done_transmission' = [done_transmission EXCEPT ![d] = p.last \/ @]
    /\ SetNormalCookie(d)
    /\ net' = Consumed(s, d)
    /\ UNCHANGED <<setup, sent_so_far, packet_expected, temp_cwnd_host,
                   order_packet_map, report, aborted>>

\* FIN: the copy kept by the other end is deleted, but not its timer's entry.
ReceiveFin(s, d, p) ==
    LET peer == destination[d]
        kept == [re_packet_map EXCEPT ![peer] = Erase(@, {p.id})]
        answer == Pkt(peer, "FIN_ACK", p.id + 1, TRUE, temp_cwnd_host[d], NoData)
    IN  /\ p.kind = "FIN"
        /\ Arm(d, {answer.id})
        /\ re_packet_map' = [kept EXCEPT ![d] = Insert(@, answer)]
        /\ net' = Sent(Consumed(s, d), d, answer)
        /\ UNCHANGED <<setup, state, done_transmission, progress, cwnd_host,
                       order_packet_map, normal, report, aborted>>

\* FIN_ACK: the copy of it at the other end, when still there, is deleted and
\* the flow is torn down.
ReceiveFinAck(s, d, p) ==
    LET peer == destination[d]
        held == p.id \in Keys(re_packet_map[peer])
        gone == AtBoth(d, {p.id}, peer, IF held THEN {p.id} ELSE {})
    IN  /\ p.kind = "FIN_ACK"
        /\ ~CancelDies(gone)
        /\ Cancel(gone)
        /\ re_packet_map' = [re_packet_map EXCEPT ![peer] = Erase(@, {p.id})]
        /\ torn_down' = torn_down \cup
             (IF held THEN {file_holder[d]} \cap Flows ELSE {})
        /\ net' = Consumed(s, d)
        /\ UNCHANGED <<setup, state, done_transmission, progress, cwnd_host,
                       order_packet_map, normal, output, aborted>>

\* syn, ack, fin = 0,1,0 or 0,1,1: no branch of receive.
ReceiveOther(s, d, p) ==
    /\ p.kind = "OTHER"
    /\ net' = Consumed(s, d)
    /\ UNCHANGED <<setup, state, done_transmission, progress, cwnd_host,
                   re_packet_map, order_packet_map, timers, normal, report, aborted>>

\* ASSERT(false) in Timer::cancel_timer, from any handler that deletes a timer.
ReceiveDies(s, d, p) ==
    LET peer == destination[d]
        held == p.id \in Keys(re_packet_map[peer])
    IN  /\ \/ /\ p.kind = "SYN_ACK"
              /\ CancelDies(AtBoth(d, {p.id}, peer, {p.id}))
           \/ /\ p.kind = "DATA" /\ p.id < packet_expected[d]
              /\ CancelDies(At(peer, {p.id}))
           \/ /\ p.kind = "ACK"
              /\ CancelDies(AtBoth(d, AckedIds(d, p.id), peer, {p.id}))
           \/ /\ p.kind = "FIN_ACK"
              /\ CancelDies(AtBoth(d, {p.id}, peer, IF held THEN {p.id} ELSE {}))
        /\ Abort("cancel_timer")
        /\ UNCHANGED output

Receive(s, d) ==
    \E p \in {Marked(Head(net[<<s, d>>]), w) : w \in Windows} :
       \/ /\ \/ ReceiveSyn(s, d, p)
             \/ ReceiveSynAck(s, d, p)
             \/ ReceiveInOrder(s, d, p)
             \/ ReceiveAhead(s, d, p)
             \/ ReceiveRepeated(s, d, p)
             \/ ReceiveAck(s, d, p)
             \/ ReceiveFin(s, d, p)
             \/ ReceiveFinAck(s, d, p)
             \/ ReceiveOther(s, d, p)
          /\ UNCHANGED <<waiting, early, lost>>
       \/ ReceiveInOrderDies(s, d, p)
       \/ ReceiveDies(s, d, p)

Delivery(s, d) ==
    /\ aborted = "no"
    /\ normal = {}
    /\ net[<<s, d>>] # <<>>
    /\ Receive(s, d)

\* A full queue on the way drops the packet.
Lose(s, d) ==
    /\ aborted = "no"
    /\ normal = {}
    /\ lost < MaxLost
    /\ net[<<s, d>>] # <<>>
    /\ lost' = lost + 1
    /\ net' = Consumed(s, d)
    /\ UNCHANGED <<setup, state, done_transmission, progress, cwnd_host,
                   re_packet_map, order_packet_map, timers, normal, waiting,
                   early, report, aborted>>

TimerStep(h) == \E id \in armed[h] : RetransmissionTimer(h, id, TRUE)
LeakedTimerStep(h) == \E id \in BagToSet(leaked[h]) : RetransmissionTimer(h, id, FALSE)

Next ==
    \/ \E f \in Flows : StartFlow(f)
    \/ \E h \in Hosts : NormalTimer(h) \/ NormalTimerDies(h)
    \/ \E h \in Hosts : TimerStep(h) \/ LeakedTimerStep(h)
    \/ \E s, d \in Hosts : Delivery(s, d) \/ Lose(s, d)

Spec == Init /\ [][Next]_vars

-----------------------------------------------------------------------------
(* Properties                                                              *)

OnePerId(map) == \A p, q \in map : p.id = q.id => p = q
IsTimerBag(B) == IsABag(B) /\ BagToSet(B) \subseteq Nat

FieldsOK ==
    /\ destination \in [Hosts -> Hosts \cup {NoHost}]
    /\ sender \in [Hosts -> BOOLEAN]
    /\ file_holder \in [Hosts -> Flows \cup {NoFile}]
    /\ \A h \in Hosts : sender[h] => file_holder[h] \in Flows
    /\ state \in [Hosts -> States]
    /\ done_transmission \in [Hosts -> BOOLEAN]
    /\ sent_so_far \in [Hosts -> Nat]
    /\ packet_expected \in [Hosts -> Nat \ {0}]
    /\ lastest_ack_rec \in [Hosts -> Int]
    /\ cwnd_host \in [Hosts -> UShorts \cup {1}]
    /\ temp_cwnd_host \in [Hosts -> UShorts]

MapsOK ==
    /\ re_packet_map \in [Hosts -> SUBSET Packet]
    /\ order_packet_map \in [Hosts -> SUBSET Packet]
    /\ \A h \in Hosts : OnePerId(re_packet_map[h]) /\ OnePerId(order_packet_map[h])

TimersOK ==
    /\ armed \in [Hosts -> SUBSET Nat]
    /\ stale \in [Hosts -> SUBSET Nat]
    /\ \A h \in Hosts : armed[h] \cap stale[h] = {}
    /\ DOMAIN leaked = Hosts /\ \A h \in Hosts : IsTimerBag(leaked[h])

\* The output files hold chunks of flows (or nothing, from a packet that was
\* never filled in).
OutputOK == output \in [Hosts -> Seq({NoData} \cup (Flows \X Nat))]

NetOK == net \in [Hosts \X Hosts -> Seq(Packet)]

\* The fields of the hosts, the maps, the timers and the channels hold values
\* of their types (class dtpHost); a map has one packet per id, and an entry
\* of cookie_retranmission_timmer is either pending or spent.
TypeOK ==
    /\ FieldsOK /\ MapsOK /\ TimersOK /\ NetOK /\ OutputOK
    /\ normal \subseteq Hosts
    /\ waiting \subseteq Flows
    /\ early \in Nat /\ lost \in Nat
    /\ torn_down \subseteq Flows
    /\ aborted \in {"no", "cancel_timer", "window", "iterator"}

\* Flow f is the one its source is sending.
Active(f) == sender[f.source] /\ file_holder[f.source] = f

InFlight(s, d) == RangeOf(net[<<s, d>>])

\* Every packet a source ever sent was either written at the destination or
\* is still kept for retransmission: neither an ACK nor the other end deletes
\* a copy (delete_retransmission_timmer) that is still needed.
NothingLost ==
    \A f \in Flows : Active(f) =>
        \A c \in 1 .. f.packets :
            \/ c > sent_so_far[f.source]
            \/ <<f, c>> \in RangeOf(output[f.destination])
            \/ \E p \in re_packet_map[f.source] : p.id = c /\ p.data = <<f, c>>

\* A timer of host h for the number id is pending.
Timed(h, id) == id \in armed[h] \/ BagIn(id, leaked[h])

\* A kept DATA or ACK packet has a pending timer, so that it will be sent
\* again: the timer bookkeeping (set_retransmission_cookie, delete_timer_cookie)
\* never separates the two.
KeptIsTimed ==
    \A h \in Hosts : \A p \in re_packet_map[h] :
        p.kind \in {"DATA", "ACK"} => Timed(h, p.id)

\* This step takes a FIN_ACK with number id in at h.
FinAckArrives(h, id) ==
    \E s \in Hosts : /\ net[<<s, h>>] # <<>>
                    /\ Head(net[<<s, h>>]).kind = "FIN_ACK"
                    /\ Head(net[<<s, h>>]).id = id
                    /\ net'[<<s, h>>] = Tail(net[<<s, h>>])

\* However flows interfere, a DATA or ACK packet is kept together with a timer
\* and loses it only by being deleted, except in the FIN_ACK branch of receive:
\* it cancels the timer of whatever packet has the number of the FIN_ACK.
KeepsTimed ==
    \A h \in Hosts : \A p \in re_packet_map'[h] :
        p.kind \in {"DATA", "ACK"} =>
            \/ Timed(h, p.id)'
            \/ /\ p \in re_packet_map[h]
               /\ Timed(h, p.id) => FinAckArrives(h, p.id)
CopiesStayTimed == [][KeepsTimed]_vars

\* An ACK never acknowledges more than the destination has written, and only
\* says last when the whole file was.
AcksAreHonest ==
    \A f \in Flows : Active(f) =>
        \A p \in InFlight(f.destination, f.source) : p.kind = "ACK" =>
            /\ p.id <= packet_expected[f.destination]
            /\ p.last => packet_expected[f.destination] = f.packets + 1

\* A source sends FIN only when the destination has the whole file.
FinAfterDelivery ==
    \A f \in Flows : Active(f) =>
        \A p \in InFlight(f.source, f.destination) :
            p.kind = "FIN" => packet_expected[f.destination] = f.packets + 1

\* A normal cookie never finds its host in a state without a packet to send:
\* handle_timer would trace "ERROR ... SHOULDN't come here" and send a packet
\* it never filled in.
SendsAreIntended ==
    \A h \in normal : /\ state[h] # "sending_ack_listening"
                      /\ state[h] = "FIN" => sender[h]

\* The flows traced as torn down left their whole file at the destination.
TornDownIsDone ==
    \A f \in torn_down :
        {<<f, c>> : c \in 1 .. f.packets} \subseteq RangeOf(output[f.destination])

\* As long as no timer fired before its answer could arrive, Timer::cancel_timer
\* is never asked to cancel a timer that is not pending.
CancelsPending == early = 0 => aborted # "cancel_timer"

\* A flow is never sent with an empty window (the ASSERTs on the windows).
WindowsPositive == aborted # "window"

\* The output files grow by the packets of the flow in order, once each, and
\* "Tore down FDTP flow" is traced only for a flow that is complete.
Promise == INSTANCE FileTransfer
DeliversInOrder == Promise!FSpec

\* Virtual time brings every event: cookies, arrivals, and the deadline of a
\* timer, which comes however often the bound on early retransmissions made
\* the timer wait.
TimerIds == 0 .. Max({f.packets : f \in Flows}) + 3
Fairness ==
    /\ \A f \in Flows : WF_vars(StartFlow(f))
    /\ \A h \in Hosts : WF_vars(NormalTimer(h) \/ NormalTimerDies(h))
    /\ \A s, d \in Hosts : WF_vars(Delivery(s, d))
    /\ \A h \in Hosts : WF_vars(LeakedTimerStep(h))
    /\ \A h \in Hosts, id \in TimerIds :
          SF_vars(RetransmissionTimer(h, id, TRUE))
FairSpec == Spec /\ Fairness

\* Every flow is torn down in the end, unless an assertion or the invalid
\* iterator stops the program, although packets are dropped and timers fire
\* early.
EveryFlowEnds == <>(torn_down = Flows \/ aborted # "no")
=============================================================================
