---------------------------- MODULE DtpHostProofs ----------------------------
(***************************************************************************)
(* Proofs about DtpHost: its types and the windows, for any flows; and for *)
(* a simulation of one flow that nothing is lost or acknowledged before it *)
(* was written and that the file arrives in order, whatever its length,    *)
(* the windows, the losses and the timers.                                 *)
(***************************************************************************)
EXTENDS DtpHost, TLAPS

-----------------------------------------------------------------------------
(* Lemmas about the operators of the model                                 *)

(* Numbers: the two-element Max and Min of Burst.                          *)
LEMMA MaxOfTwo ==
    ASSUME NEW a \in Int, NEW b \in Int
    PROVE  Max({a, b}) = IF a >= b THEN a ELSE b
<1>1. \E x \in {a, b} : \A y \in {a, b} : x >= y
  OBVIOUS
<1> QED
  BY <1>1 DEF Max

LEMMA MinOfTwo ==
    ASSUME NEW a \in Int, NEW b \in Int
    PROVE  Min({a, b}) = IF a <= b THEN a ELSE b
<1>1. \E x \in {a, b} : \A y \in {a, b} : x <= y
  OBVIOUS
<1> QED
  BY <1>1 DEF Min

(* A router leaves a packet a packet.                                      *)
LEMMA MarkedIsPacket ==
    ASSUME NEW p \in Packet, NEW w \in Windows
    PROVE  Marked(p, w) \in Packet
<1>1. w \in 1 .. UShort /\ UShort \in Nat \ {0}
  BY WindowsAssumption
<1>2. w % UShort \in UShorts
  BY <1>1 DEF UShorts
<1> QED
  BY <1>1, <1>2 DEF Marked, Packet, UShorts

(* The packets of a burst are consecutive packets of the file.             *)
LEMMA BurstShape ==
    ASSUME TypeOK, NEW h \in Hosts, sender[h], cwnd_host[h] > 0
    PROVE  /\ Burst(h) \in Seq(Packet)
           /\ Len(Burst(h)) \in Nat \ {0}
           /\ \A i \in 1 .. Len(Burst(h)) : Burst(h)[i] = FilePacket(h, sent_so_far[h] + i)
           /\ Len(Burst(h)) <= cwnd_host[h]
           /\ \/ sent_so_far[h] + Len(Burst(h)) <= file_holder[h].packets
              \/ Len(Burst(h)) = 1
<1> DEFINE n == file_holder[h].packets
           rest == Max({1, n - sent_so_far[h]})
           count == Min({cwnd_host[h], rest})
<1>1. /\ n \in Nat \ {0} /\ sent_so_far[h] \in Nat /\ cwnd_host[h] \in Nat \ {0}
      /\ destination[h] \in Hosts \cup {NoHost} /\ file_holder[h] \in Flows
  BY FlowsAssumption DEF TypeOK, FieldsOK, UShorts
<1>2. rest = IF 1 >= n - sent_so_far[h] THEN 1 ELSE n - sent_so_far[h]
  BY <1>1, MaxOfTwo
<1>3. rest \in Nat \ {0}
  BY <1>1, <1>2
<1> HIDE DEF rest
<1>4. count = IF cwnd_host[h] <= rest THEN cwnd_host[h] ELSE rest
  BY <1>1, <1>3, MinOfTwo
<1>41. count \in Nat \ {0}
  BY <1>1, <1>3, <1>4
<1>5. Burst(h) = [i \in 1 .. count |-> FilePacket(h, (sent_so_far[h] + 1) + i - 1)]
  BY DEF Burst, rest
<1> HIDE DEF count
<1>6. ASSUME NEW i \in 1 .. count PROVE FilePacket(h, sent_so_far[h] + i) \in Packet
  <2>1. sent_so_far[h] + i \in Nat /\ (sent_so_far[h] + i >= n) \in BOOLEAN
    BY <1>1, <1>41
  <2>2. 0 \in UShorts
    BY WindowsAssumption DEF UShorts
  <2> QED
    BY <1>1, <2>1, <2>2 DEF FilePacket, Pkt, Packet, Kinds
<1>7. \A i \in 1 .. count : (sent_so_far[h] + 1) + i - 1 = sent_so_far[h] + i
  BY <1>1, <1>41
<1>8. Burst(h) = [i \in 1 .. count |-> FilePacket(h, sent_so_far[h] + i)]
  BY <1>5, <1>7
<1>9. Burst(h) \in Seq(Packet) /\ Len(Burst(h)) = count
  BY <1>41, <1>6, <1>8
<1>10. \A i \in 1 .. Len(Burst(h)) : Burst(h)[i] = FilePacket(h, sent_so_far[h] + i)
  BY <1>8, <1>9
<1>11. /\ count <= cwnd_host[h]
       /\ sent_so_far[h] + count <= n \/ count = 1
  BY <1>1, <1>2, <1>3, <1>4
<1> QED
  BY <1>9, <1>10, <1>11, <1>41

(* Bags of timer numbers stay bags of numbers.                             *)
LEMMA TimerBagPlus ==
    ASSUME NEW B, IsTimerBag(B), NEW S \in SUBSET Nat
    PROVE  IsTimerBag(B (+) SetToBag(S))
  BY DEF IsTimerBag, IsABag, BagToSet, SetToBag, (+)

LEMMA TimerBagRemove ==
    ASSUME NEW B, IsTimerBag(B), NEW id
    PROVE  IsTimerBag(BagRemove(B, id))
  BY DEF IsTimerBag, IsABag, BagToSet, BagRemove

-----------------------------------------------------------------------------
(* Type correctness: the building blocks of the actions                    *)

LEMMA ArmTyped ==
    ASSUME TimersOK, NEW h \in Hosts, NEW ids \in SUBSET Nat, Arm(h, ids)
    PROVE  TimersOK'
<1>1. IsTimerBag(leaked[h] (+) SetToBag(armed[h] \cap ids))
  BY TimerBagPlus DEF TimersOK
<1>2. \A g \in Hosts : IsTimerBag(leaked'[g])
  BY <1>1 DEF TimersOK, Arm
<1> QED
  BY <1>2 DEF TimersOK, Arm

LEMMA CancelTyped ==
    ASSUME TimersOK, NEW gone, Cancel(gone)
    PROVE  TimersOK'
  BY DEF TimersOK, Cancel

LEMMA InsertTyped ==
    ASSUME NEW map \in SUBSET Packet, OnePerId(map), NEW p \in Packet
    PROVE  Insert(map, p) \in SUBSET Packet /\ OnePerId(Insert(map, p))
  BY DEF OnePerId, Insert, Keys

LEMMA EraseTyped ==
    ASSUME NEW map \in SUBSET Packet, OnePerId(map), NEW ids
    PROVE  Erase(map, ids) \in SUBSET Packet /\ OnePerId(Erase(map, ids))
  BY DEF OnePerId, Erase

LEMMA SentTyped ==
    ASSUME NEW n \in [Hosts \X Hosts -> Seq(Packet)], NEW h \in Hosts, NEW p \in Packet
    PROVE  Sent(n, h, p) \in [Hosts \X Hosts -> Seq(Packet)]
<1> DEFINE c == <<h, p.destination>>
<1>1. CASE c \in Hosts \X Hosts
  <2>1. Append(n[c], p) \in Seq(Packet)
    BY <1>1
  <2> QED
    BY <1>1, <2>1 DEF Sent
<1>2. CASE c \notin Hosts \X Hosts
  <2>1. Sent(n, h, p) = n
    <3> HIDE DEF c
    <3> QED
      BY <1>2, Zenon DEF Sent, c
  <2> QED
    BY <2>1
<1> QED
  BY <1>1, <1>2

LEMMA ConsumedTyped ==
    ASSUME NetOK, NEW s \in Hosts, NEW d \in Hosts, net[<<s, d>>] # <<>>
    PROVE  /\ Consumed(s, d) \in [Hosts \X Hosts -> Seq(Packet)]
           /\ Head(net[<<s, d>>]) \in Packet
  BY DEF NetOK, Consumed

\* n is the network the packet is sent into: net, or net without the packet
\* that is being handled.
LEMMA SendKeptTyped ==
    ASSUME TimersOK, MapsOK, NEW h \in Hosts, NEW p \in Packet,
           NEW n \in [Hosts \X Hosts -> Seq(Packet)], SendKept(n, h, p)
    PROVE  /\ TimersOK' /\ NetOK'
           /\ re_packet_map' \in [Hosts -> SUBSET Packet]
           /\ \A g \in Hosts : OnePerId(re_packet_map'[g])
<1>1. p.id \in Nat
  BY DEF Packet
<1>2. TimersOK'
  BY <1>1, ArmTyped DEF SendKept
<1>3. NetOK'
  BY SentTyped DEF SendKept, NetOK
<1>4. /\ Insert(re_packet_map[h], p) \in SUBSET Packet
      /\ OnePerId(Insert(re_packet_map[h], p))
  BY InsertTyped DEF MapsOK
<1> QED
  BY <1>2, <1>3, <1>4 DEF SendKept, MapsOK

-----------------------------------------------------------------------------
(* Type correctness: every action keeps it                                 *)

LEMMA ZeroIsUShort == 0 \in UShorts
  BY WindowsAssumption DEF UShorts

LEMMA TypeInit == Init => TypeOK
<1> SUFFICES ASSUME Init PROVE TypeOK
  OBVIOUS
<1>1. FieldsOK
  BY ZeroIsUShort DEF Init, FieldsOK, States
<1>2. MapsOK
  BY DEF Init, MapsOK, OnePerId
<1>3. TimersOK
  BY DEF Init, TimersOK, IsTimerBag, IsABag, BagToSet, EmptyBag, SetToBag
<1>4. NetOK /\ OutputOK
  BY DEF Init, NetOK, OutputOK
<1> QED
  BY <1>1, <1>2, <1>3, <1>4 DEF Init, TypeOK

LEMMA StartFlowTyped ==
    ASSUME TypeOK, NEW f \in Flows, StartFlow(f)
    PROVE  TypeOK'
<1> DEFINE s == f.source
           d == f.destination
           syn == Pkt(d, "SYN", 0, FALSE, 0, NoData)
<1>1. s \in Hosts /\ d \in Hosts /\ s # d
  BY FlowsAssumption
<1>2. syn \in Packet
  BY <1>1, ZeroIsUShort DEF Pkt, Packet, Kinds
<1>3. SendKept(net, s, syn)
  BY DEF StartFlow
<1>4. TimersOK' /\ NetOK' /\ MapsOK'
  <2>1. TimersOK /\ MapsOK /\ net \in [Hosts \X Hosts -> Seq(Packet)]
    BY DEF TypeOK, NetOK
  <2> QED
    BY <1>1, <1>2, <1>3, <2>1, SendKeptTyped DEF StartFlow, MapsOK
<1>5. FieldsOK'
  <2>1. /\ destination' = [destination EXCEPT ![s] = d]
        /\ file_holder' = [file_holder EXCEPT ![s] = f]
        /\ sender' = [sender EXCEPT ![s] = TRUE, ![d] = FALSE]
        /\ state' = [state EXCEPT ![s] = "SYN", ![d] = "SYN"]
        /\ done_transmission' = [done_transmission EXCEPT ![s] = FALSE, ![d] = FALSE]
        /\ sent_so_far' = [sent_so_far EXCEPT ![s] = 0, ![d] = 0]
        /\ packet_expected' = [packet_expected EXCEPT ![s] = 1, ![d] = 1]
        /\ cwnd_host' = [cwnd_host EXCEPT ![s] = 1, ![d] = 1]
        /\ lastest_ack_rec' = [lastest_ack_rec EXCEPT ![s] = 0, ![d] = 0]
        /\ temp_cwnd_host' = temp_cwnd_host
    BY DEF StartFlow
  <2> HIDE DEF s, d
  <2>2. FieldsOK
    BY DEF TypeOK
  <2>3. /\ destination' \in [Hosts -> Hosts \cup {NoHost}]
        /\ sender' \in [Hosts -> BOOLEAN]
        /\ file_holder' \in [Hosts -> Flows \cup {NoFile}]
        /\ \A h \in Hosts : sender'[h] => file_holder'[h] \in Flows
    BY <1>1, <2>1, <2>2 DEF FieldsOK
  <2>4. /\ state' \in [Hosts -> States]
        /\ done_transmission' \in [Hosts -> BOOLEAN]
        /\ sent_so_far' \in [Hosts -> Nat]
        /\ packet_expected' \in [Hosts -> Nat \ {0}]
        /\ lastest_ack_rec' \in [Hosts -> Int]
        /\ cwnd_host' \in [Hosts -> UShorts \cup {1}]
        /\ temp_cwnd_host' \in [Hosts -> UShorts]
    <3>1. UNCHANGED temp_cwnd_host /\ state' \in [Hosts -> States]
      BY <1>1, <2>1, <2>2 DEF FieldsOK, States
    <3>2. done_transmission' \in [Hosts -> BOOLEAN]
      BY <1>1, <2>1, <2>2 DEF FieldsOK
    <3>3. sent_so_far' \in [Hosts -> Nat] /\ packet_expected' \in [Hosts -> Nat \ {0}]
      BY <1>1, <2>1, <2>2 DEF FieldsOK
    <3>4. lastest_ack_rec' \in [Hosts -> Int] /\ cwnd_host' \in [Hosts -> UShorts \cup {1}]
      BY <1>1, <2>1, <2>2 DEF FieldsOK
    <3> QED
      BY <2>2, <3>1, <3>2, <3>3, <3>4 DEF FieldsOK
  <2> QED
    BY <2>3, <2>4 DEF FieldsOK
<1> QED
  BY <1>4, <1>5 DEF StartFlow, TypeOK, OutputOK, report

\* The packets a host makes up for itself are packets.
LEMMA PktTyped ==
    ASSUME NEW to \in Hosts \cup {NoHost}, NEW kind \in Kinds, NEW id \in Nat,
           NEW last \in BOOLEAN, NEW cwnd \in UShorts,
           NEW data \in {NoData} \cup (Flows \X Nat)
    PROVE  Pkt(to, kind, id, last, cwnd, data) \in Packet
  BY DEF Pkt, Packet

LEMMA SendBurstTyped ==
    ASSUME TypeOK, NEW h \in Hosts, SendBurst(h)
    PROVE  /\ TimersOK' /\ NetOK'
           /\ re_packet_map' \in [Hosts -> SUBSET Packet]
           /\ \A g \in Hosts : OnePerId(re_packet_map'[g])
           /\ sent_so_far' \in [Hosts -> Nat]
           /\ done_transmission' \in [Hosts -> BOOLEAN]
<1> DEFINE burst == Burst(h)
           ids == {p.id : p \in RangeOf(burst)}
<1>1. /\ sender[h] /\ cwnd_host[h] > 0
      /\ sent_so_far' = [sent_so_far EXCEPT ![h] = @ + Len(burst)]
      /\ done_transmission' =
             [done_transmission EXCEPT ![h] = \E p \in RangeOf(burst) : p.last]
      /\ Arm(h, ids)
      /\ re_packet_map' = [re_packet_map EXCEPT ![h] = InsertAll(@, RangeOf(burst))]
      /\ net' = [net EXCEPT ![<<h, destination[h]>>] = @ \o burst]
  BY DEF SendBurst
<1>2. /\ burst \in Seq(Packet) /\ Len(burst) \in Nat
      /\ \A i \in 1 .. Len(burst) : burst[i] = FilePacket(h, sent_so_far[h] + i)
  BY <1>1, BurstShape
<1>3. TypeOK /\ TimersOK /\ MapsOK /\ NetOK /\ FieldsOK
  BY DEF TypeOK
<1> HIDE DEF burst
<1>4. RangeOf(burst) \subseteq Packet
  BY <1>2 DEF RangeOf
<1>5. ids \in SUBSET Nat
  BY <1>4 DEF Packet
<1>6. \A p, q \in RangeOf(burst) : p.id = q.id => p = q
  <2>0. \A i : FilePacket(h, i).id = i
    BY DEF FilePacket, Pkt
  <2>1. \A i \in 1 .. Len(burst) : burst[i].id = sent_so_far[h] + i
    BY <1>2, <2>0
  <2>2. DOMAIN burst = 1 .. Len(burst) /\ sent_so_far[h] \in Nat
    BY <1>2, <1>3 DEF FieldsOK
  <2> QED
    BY <2>1, <2>2 DEF RangeOf
<1>7. TimersOK'
  BY <1>1, <1>3, <1>5, ArmTyped
<1>8. /\ InsertAll(re_packet_map[h], RangeOf(burst)) \in SUBSET Packet
      /\ OnePerId(InsertAll(re_packet_map[h], RangeOf(burst)))
  BY <1>3, <1>4, <1>6 DEF MapsOK, OnePerId, InsertAll, Keys
<1>9. NetOK'
  <2>1. CASE destination[h] \in Hosts
    <3>1. net[<<h, destination[h]>>] \o burst \in Seq(Packet)
      BY <1>2, <1>3, <2>1 DEF NetOK
    <3> QED
      BY <1>1, <1>3, <2>1, <3>1 DEF NetOK
  <2>2. CASE destination[h] \notin Hosts
    <3>1. <<h, destination[h]>> \notin DOMAIN net
      BY <1>3, <2>2 DEF NetOK
    <3>2. net' = net
      <4> DEFINE c == <<h, destination[h]>>
      <4>1. net' = [net EXCEPT ![c] = @ \o burst] /\ c \notin DOMAIN net
        BY <1>1, <3>1
      <4>2. net = [x \in DOMAIN net |-> net[x]]
        BY <1>3 DEF NetOK
      <4> HIDE DEF c
      <4> QED
        BY <4>1, <4>2, Zenon
    <3> QED
      BY <1>3, <3>2 DEF NetOK
  <2> QED
    BY <2>1, <2>2
<1>10. /\ sent_so_far' \in [Hosts -> Nat]
       /\ done_transmission' \in [Hosts -> BOOLEAN]
  BY <1>1, <1>2, <1>3 DEF FieldsOK
<1> QED
  BY <1>1, <1>3, <1>7, <1>8, <1>9, <1>10 DEF MapsOK


LEMMA SendUninitialisedTyped ==
    ASSUME TypeOK, NEW h \in Hosts, SendUninitialised(h)
    PROVE  NetOK'
<1>1. PICK g \in Garbage :
        net' = Sent(net, h, Pkt(destination[h], g.kind, g.id, g.last, g.cwnd,
                                IF state[h] = "FIN" THEN NoData ELSE g.data))
  BY DEF SendUninitialised
<1> DEFINE data == IF state[h] = "FIN" THEN NoData ELSE g.data
<1>2. /\ g.kind \in Kinds /\ g.id \in Nat /\ g.last \in BOOLEAN
      /\ g.cwnd \in UShorts /\ data \in {NoData} \cup (Flows \X Nat)
  BY BoundsAssumption DEF Body
<1>3. destination[h] \in Hosts \cup {NoHost} /\ net \in [Hosts \X Hosts -> Seq(Packet)]
  BY DEF TypeOK, FieldsOK, NetOK
<1> HIDE DEF data
<1>4. Pkt(destination[h], g.kind, g.id, g.last, g.cwnd, data) \in Packet
  BY <1>2, <1>3, PktTyped
<1>5. net' = Sent(net, h, Pkt(destination[h], g.kind, g.id, g.last, g.cwnd, data))
  BY <1>1 DEF data
<1> QED
  BY <1>3, <1>4, <1>5, SentTyped DEF NetOK

LEMMA NormalTimerTyped ==
    ASSUME TypeOK, NEW h \in Hosts, NormalTimer(h)
    PROVE  TypeOK'
<1> DEFINE Kept == /\ TimersOK' /\ NetOK'
                   /\ re_packet_map' \in [Hosts -> SUBSET Packet]
                   /\ \A g \in Hosts : OnePerId(re_packet_map'[g])
                   /\ sent_so_far' \in [Hosts -> Nat]
                   /\ done_transmission' \in [Hosts -> BOOLEAN]
                   /\ aborted' = aborted
<1>1. TimersOK /\ MapsOK /\ NetOK /\ FieldsOK
  BY DEF TypeOK
<1>2. net \in [Hosts \X Hosts -> Seq(Packet)] /\ destination[h] \in Hosts \cup {NoHost}
  BY <1>1 DEF NetOK, FieldsOK
<1>3. ASSUME SendSyn(h) PROVE Kept
  <2> DEFINE kind == IF sender[h] THEN "SYN" ELSE "SYN_ACK"
  <2>1. kind \in Kinds
    BY DEF Kinds
  <2>2. SendKept(net, h, Pkt(destination[h], kind, 0, FALSE, 0, NoData))
    BY <1>3 DEF SendSyn
  <2> HIDE DEF kind
  <2>3. Pkt(destination[h], kind, 0, FALSE, 0, NoData) \in Packet
    BY <1>2, <2>1, ZeroIsUShort, PktTyped
  <2> QED
    BY <1>1, <1>2, <1>3, <2>2, <2>3, SendKeptTyped DEF SendSyn, FieldsOK
<1>4. ASSUME SendBurst(h) PROVE Kept
  BY <1>4, SendBurstTyped DEF SendBurst
<1>5. ASSUME SendNothing(h) PROVE Kept
  BY <1>1, <1>5 DEF SendNothing, timers, FieldsOK, MapsOK, TimersOK, NetOK
<1>6. ASSUME SendFin(h) PROVE Kept
  <2>1. sent_so_far[h] + 2 \in Nat
    BY <1>1 DEF FieldsOK
  <2>2. Pkt(destination[h], "FIN", sent_so_far[h] + 2, FALSE, 0, NoData) \in Packet
    BY <1>2, <2>1, ZeroIsUShort, PktTyped DEF Kinds
  <2>3. SendKept(net, h, Pkt(destination[h], "FIN", sent_so_far[h] + 2, FALSE, 0, NoData))
    BY <1>6 DEF SendFin
  <2>4. sent_so_far' \in [Hosts -> Nat] /\ done_transmission' = done_transmission
    BY <1>1, <1>6 DEF SendFin, FieldsOK
  <2> QED
    BY <1>1, <1>2, <1>6, <2>2, <2>3, <2>4, SendKeptTyped DEF SendFin, FieldsOK
<1>7. ASSUME SendUninitialised(h) PROVE Kept
  BY <1>1, <1>7, SendUninitialisedTyped DEF SendUninitialised, timers, FieldsOK, MapsOK, TimersOK
<1>8. Kept
  BY <1>3, <1>4, <1>5, <1>6, <1>7 DEF NormalTimer
<1>9. /\ UNCHANGED <<setup, state, packet_expected, lastest_ack_rec, temp_cwnd_host,
                     cwnd_host, order_packet_map, waiting, early, lost, report>>
      /\ normal' \subseteq normal
  BY DEF NormalTimer
<1>10. FieldsOK'
  BY <1>1, <1>8, <1>9 DEF FieldsOK, setup
<1>11. MapsOK'
  BY <1>1, <1>8, <1>9 DEF MapsOK
<1> QED
  BY <1>8, <1>9, <1>10, <1>11 DEF TypeOK, OutputOK, report

\* The two actions that stop the program, apart from what they write first.
LEMMA AbortTyped ==
    ASSUME TypeOK, NEW why \in {"cancel_timer", "window", "iterator"}, Abort(why), OutputOK'
    PROVE  TypeOK'
<1>1. FieldsOK' /\ MapsOK' /\ TimersOK' /\ NetOK'
  BY DEF TypeOK, Abort, FieldsOK, MapsOK, TimersOK, NetOK, setup, progress, timers
<1> QED
  BY <1>1 DEF TypeOK, Abort

LEMMA RetransmissionTimerTyped ==
    ASSUME TypeOK, NEW h \in Hosts, NEW id \in Nat, NEW owned \in BOOLEAN,
           RetransmissionTimer(h, id, owned)
    PROVE  TypeOK'
<1>1. TimersOK /\ MapsOK /\ NetOK /\ FieldsOK
  BY DEF TypeOK
<1>2. ASSUME Resend(h, id, owned) PROVE TimersOK' /\ NetOK' /\ early' \in Nat
  <2>1. PICK p \in re_packet_map[h] :
          /\ early' = IF Stalled THEN early ELSE early + 1
          /\ net' = Sent(net, h, p)
          /\ IF owned
             THEN UNCHANGED timers
             ELSE /\ armed' = [armed EXCEPT ![h] = @ \cup {id}]
                  /\ stale' = [stale EXCEPT ![h] = @ \ {id}]
                  /\ leaked' = [leaked EXCEPT ![h] =
                       IF id \in armed[h] THEN @ ELSE BagRemove(@, id)]
    BY <1>2 DEF Resend
  <2>2. p \in Packet
    BY <1>1 DEF MapsOK
  <2>3. NetOK'
    BY <1>1, <2>1, <2>2, SentTyped DEF NetOK
  <2>4. CASE owned
    BY <1>1, <2>1, <2>3, <2>4 DEF TypeOK, TimersOK, timers
  <2>5. CASE ~owned
    <3> DEFINE B == IF id \in armed[h] THEN leaked[h] ELSE BagRemove(leaked[h], id)
    <3>1. IsTimerBag(B)
      BY <1>1, TimerBagRemove DEF TimersOK
    <3>2. /\ armed' = [armed EXCEPT ![h] = @ \cup {id}]
          /\ stale' = [stale EXCEPT ![h] = @ \ {id}]
          /\ leaked' = [leaked EXCEPT ![h] = B]
      BY <2>1, <2>5
    <3> HIDE DEF B
    <3>3. TimersOK'
      BY <1>1, <3>1, <3>2 DEF TimersOK
    <3> QED
      BY <2>1, <2>3, <3>3 DEF TypeOK
  <2> QED
    BY <2>4, <2>5
<1>3. ASSUME TimerFinds(h, id, owned) PROVE TimersOK' /\ NetOK' /\ early' \in Nat
  <2>0. NetOK' /\ early' \in Nat
    BY <1>1, <1>3 DEF TypeOK, TimerFinds, NetOK
  <2>1. CASE owned
    <3>1. /\ armed' = [armed EXCEPT ![h] = @ \ {id}]
          /\ stale' = [stale EXCEPT ![h] = @ \cup {id}]
          /\ leaked' = leaked
      BY <1>3, <2>1 DEF TimerFinds
    <3>2. armed' \in [Hosts -> SUBSET Nat] /\ stale' \in [Hosts -> SUBSET Nat]
      BY <1>1, <3>1 DEF TimersOK
    <3>3. \A g \in Hosts : armed'[g] \cap stale'[g] = {}
      BY <1>1, <3>1 DEF TimersOK
    <3> QED
      BY <1>1, <2>0, <3>1, <3>2, <3>3 DEF TimersOK
  <2>2. CASE ~owned
    <3> DEFINE B == BagRemove(leaked[h], id)
    <3>1. IsTimerBag(B)
      BY <1>1, TimerBagRemove DEF TimersOK
    <3>2. leaked' = [leaked EXCEPT ![h] = B] /\ UNCHANGED <<armed, stale>>
      BY <1>3, <2>2 DEF TimerFinds
    <3> HIDE DEF B
    <3>3. DOMAIN leaked' = Hosts /\ \A g \in Hosts : IsTimerBag(leaked'[g])
      BY <1>1, <3>1, <3>2 DEF TimersOK
    <3> QED
      BY <1>1, <2>0, <3>2, <3>3 DEF TimersOK
  <2> QED
    BY <2>1, <2>2
<1>4. TimersOK' /\ NetOK' /\ early' \in Nat
  BY <1>2, <1>3 DEF RetransmissionTimer
<1>5. FieldsOK' /\ MapsOK'
  BY <1>1 DEF RetransmissionTimer, FieldsOK, MapsOK, setup, progress
<1> QED
  BY <1>4, <1>5 DEF TypeOK, RetransmissionTimer, OutputOK, report


\* Deleting copies together with their timers keeps both typed.
LEMMA ForgetTyped ==
    ASSUME TimersOK, MapsOK, UNCHANGED order_packet_map, NEW gone, Forget(gone)
    PROVE  TimersOK' /\ MapsOK'
<1>1. TimersOK'
  BY CancelTyped DEF Forget
<1>2. \A h \in Hosts : /\ Erase(re_packet_map[h], gone[h]) \in SUBSET Packet
                       /\ OnePerId(Erase(re_packet_map[h], gone[h]))
  BY EraseTyped DEF MapsOK
<1>3. re_packet_map' = [h \in Hosts |-> Erase(re_packet_map[h], gone[h])]
  BY DEF Forget
<1>4. MapsOK'
  BY <1>2, <1>3 DEF MapsOK
<1> QED
  BY <1>1, <1>4

LEMMA ReceiveSynTyped ==
    ASSUME TypeOK, NEW s \in Hosts, NEW d \in Hosts, NEW p \in Packet,
           net[<<s, d>>] # <<>>, ReceiveSyn(s, d, p), UNCHANGED <<waiting, early, lost>>
    PROVE  TypeOK'
<1>1. NetOK'
  BY ConsumedTyped DEF TypeOK, ReceiveSyn, NetOK
<1>2. FieldsOK' /\ MapsOK' /\ TimersOK'
  BY DEF TypeOK, ReceiveSyn, FieldsOK, MapsOK, TimersOK, progress, timers
<1> QED
  BY <1>1, <1>2 DEF TypeOK, ReceiveSyn, SetNormalCookie, OutputOK, report

LEMMA ReceiveSynAckTyped ==
    ASSUME TypeOK, NEW s \in Hosts, NEW d \in Hosts, NEW p \in Packet,
           net[<<s, d>>] # <<>>, ReceiveSynAck(s, d, p), UNCHANGED <<waiting, early, lost>>
    PROVE  TypeOK'
<1>1. NetOK'
  BY ConsumedTyped DEF TypeOK, ReceiveSynAck, NetOK
<1>2. TimersOK' /\ MapsOK'
  BY ForgetTyped DEF TypeOK, ReceiveSynAck
<1>3. FieldsOK'
  BY DEF TypeOK, ReceiveSynAck, FieldsOK, setup, progress, States
<1> QED
  BY <1>1, <1>2, <1>3 DEF TypeOK, ReceiveSynAck, SetNormalCookie, OutputOK, report

LEMMA ReceiveAheadTyped ==
    ASSUME TypeOK, NEW s \in Hosts, NEW d \in Hosts, NEW p \in Packet,
           net[<<s, d>>] # <<>>, ReceiveAhead(s, d, p), UNCHANGED <<waiting, early, lost>>
    PROVE  TypeOK'
<1>1. NetOK'
  BY ConsumedTyped DEF TypeOK, ReceiveAhead, NetOK
<1>2. MapsOK'
  BY InsertTyped DEF TypeOK, ReceiveAhead, MapsOK
<1>3. FieldsOK' /\ TimersOK'
  BY DEF TypeOK, ReceiveAhead, FieldsOK, TimersOK, setup, progress, States, timers
<1> QED
  BY <1>1, <1>2, <1>3 DEF TypeOK, ReceiveAhead, OutputOK, report

LEMMA ReceiveRepeatedTyped ==
    ASSUME TypeOK, NEW s \in Hosts, NEW d \in Hosts, NEW p \in Packet,
           net[<<s, d>>] # <<>>, ReceiveRepeated(s, d, p), UNCHANGED <<waiting, early, lost>>
    PROVE  TypeOK'
<1>1. NetOK'
  BY ConsumedTyped DEF TypeOK, ReceiveRepeated, NetOK
<1>2. TimersOK' /\ MapsOK'
  BY ForgetTyped DEF TypeOK, ReceiveRepeated
<1>3. FieldsOK'
  BY DEF TypeOK, ReceiveRepeated, FieldsOK, setup, progress, States
<1> QED
  BY <1>1, <1>2, <1>3 DEF TypeOK, ReceiveRepeated, OutputOK, report

LEMMA ReceiveAckTyped ==
    ASSUME TypeOK, NEW s \in Hosts, NEW d \in Hosts, NEW p \in Packet,
           net[<<s, d>>] # <<>>, ReceiveAck(s, d, p), UNCHANGED <<waiting, early, lost>>
    PROVE  TypeOK'
<1>1. NetOK'
  BY ConsumedTyped DEF TypeOK, ReceiveAck, NetOK
<1>2. TimersOK' /\ MapsOK'
  BY ForgetTyped DEF TypeOK, ReceiveAck
<1>3. /\ p.id \in Nat /\ p.cwnd \in UShorts /\ p.last \in BOOLEAN
      /\ AfterAck(d, p) \in States
  BY DEF Packet, AfterAck, States
<1>4. FieldsOK'
  BY <1>3 DEF TypeOK, ReceiveAck, FieldsOK, setup
<1> QED
  BY <1>1, <1>2, <1>4 DEF TypeOK, ReceiveAck, SetNormalCookie, OutputOK, report

LEMMA ReceiveFinTyped ==
    ASSUME TypeOK, NEW s \in Hosts, NEW d \in Hosts, NEW p \in Packet,
           net[<<s, d>>] # <<>>, ReceiveFin(s, d, p), UNCHANGED <<waiting, early, lost>>
    PROVE  TypeOK'
<1> DEFINE peer == destination[d]
           kept == [re_packet_map EXCEPT ![peer] = Erase(@, {p.id})]
           answer == Pkt(peer, "FIN_ACK", p.id + 1, TRUE, temp_cwnd_host[d], NoData)
<1>1. /\ Arm(d, {answer.id})
      /\ re_packet_map' = [kept EXCEPT ![d] = Insert(@, answer)]
      /\ net' = Sent(Consumed(s, d), d, answer)
  BY DEF ReceiveFin
<1>2. TimersOK /\ MapsOK /\ NetOK /\ FieldsOK
  BY DEF TypeOK
<1>3. answer \in Packet /\ answer.id \in Nat
  <2>1. /\ peer \in Hosts \cup {NoHost} /\ p.id + 1 \in Nat
        /\ temp_cwnd_host[d] \in UShorts
    BY <1>2 DEF FieldsOK, Packet
  <2>2. answer \in Packet
    BY <2>1, PktTyped DEF Kinds
  <2> QED
    BY <2>2 DEF Packet
<1>4. NetOK'
  BY <1>1, <1>2, <1>3, ConsumedTyped, SentTyped DEF NetOK
<1>5. /\ kept \in [Hosts -> SUBSET Packet]
      /\ \A h \in Hosts : OnePerId(kept[h])
  BY <1>2, EraseTyped DEF MapsOK
<1> HIDE DEF answer, kept
<1>6. TimersOK'
  BY <1>1, <1>2, <1>3, ArmTyped
<1>7. MapsOK'
  <2>1. /\ Insert(kept[d], answer) \in SUBSET Packet
        /\ OnePerId(Insert(kept[d], answer))
    BY <1>3, <1>5, InsertTyped
  <2>2. order_packet_map' = order_packet_map
    BY DEF ReceiveFin
  <2> QED
    BY <1>1, <1>2, <1>5, <2>1, <2>2 DEF MapsOK
<1>8. FieldsOK'
  BY <1>2 DEF ReceiveFin, FieldsOK, setup, progress
<1> QED
  BY <1>4, <1>6, <1>7, <1>8 DEF TypeOK, ReceiveFin, OutputOK, report

LEMMA ReceiveFinAckTyped ==
    ASSUME TypeOK, NEW s \in Hosts, NEW d \in Hosts, NEW p \in Packet,
           net[<<s, d>>] # <<>>, ReceiveFinAck(s, d, p), UNCHANGED <<waiting, early, lost>>
    PROVE  TypeOK'
<1>1. NetOK'
  BY ConsumedTyped DEF TypeOK, ReceiveFinAck, NetOK
<1>2. TimersOK'
  BY CancelTyped DEF TypeOK, ReceiveFinAck
<1>3. MapsOK'
  BY EraseTyped DEF TypeOK, ReceiveFinAck, MapsOK
<1>4. FieldsOK'
  BY DEF TypeOK, ReceiveFinAck, FieldsOK, setup, progress
<1> QED
  BY <1>1, <1>2, <1>3, <1>4 DEF TypeOK, ReceiveFinAck, OutputOK

LEMMA ReceiveOtherTyped ==
    ASSUME TypeOK, NEW s \in Hosts, NEW d \in Hosts, NEW p \in Packet,
           net[<<s, d>>] # <<>>, ReceiveOther(s, d, p), UNCHANGED <<waiting, early, lost>>
    PROVE  TypeOK'
<1>1. NetOK'
  BY ConsumedTyped DEF TypeOK, ReceiveOther, NetOK
<1>2. FieldsOK' /\ MapsOK' /\ TimersOK'
  BY DEF TypeOK, ReceiveOther, FieldsOK, MapsOK, TimersOK, setup, progress, timers
<1> QED
  BY <1>1, <1>2 DEF TypeOK, ReceiveOther, OutputOK, report


\* Every packet drained from the buffer is there, so its chunk is a chunk.
LEMMA ChunkTyped ==
    ASSUME TypeOK, NEW d \in Hosts, NEW next \in Nat, NEW n \in Int, Walk(d, next, n),
           NEW i \in 1 .. n
    PROVE  Chunk(d, next + i - 1) \in {NoData} \cup (Flows \X Nat)
<1>1. i - 1 \in 0 .. n - 1 /\ next + (i - 1) = next + i - 1
  OBVIOUS
<1>2. Buffered(d, next + i - 1) # {}
  BY <1>1 DEF Walk
<1>3. Buffered(d, next + i - 1) \subseteq Packet
  BY DEF TypeOK, MapsOK, Buffered
<1> DEFINE q == CHOOSE q \in Buffered(d, next + i - 1) : TRUE
<1>4. q \in Packet
  BY <1>2, <1>3
<1>5. q.data \in {NoData} \cup (Flows \X Nat)
  BY <1>4 DEF Packet
<1> QED
  BY <1>5 DEF Chunk

\* What one DATA packet in order, with the n buffered ones it releases, does.
LEMMA InOrderTyped ==
    ASSUME TypeOK, NEW d \in Hosts, NEW p \in Packet, p.id = packet_expected[d],
           NEW n \in IF p.last THEN {0} ELSE Drains(d, p.id + 1), NEW w \in UShorts
    PROVE  LET r == InOrder(d, p, n, w)
           IN  /\ n \in Nat /\ r.expected \in Nat \ {0} /\ r.last \in BOOLEAN
               /\ r.chunks \in Seq({NoData} \cup (Flows \X Nat)) /\ r.ack \in Packet
<1> DEFINE Data == {NoData} \cup (Flows \X Nat)
           next == packet_expected[d] + 1
           last == p.last \/ \E q \in Drained(d, next, n) : q.last
           tail == [i \in 1 .. n |-> Chunk(d, next + i - 1)]
<1>1. /\ packet_expected[d] \in Nat \ {0} /\ next \in Nat /\ next = p.id + 1
      /\ destination[d] \in Hosts \cup {NoHost} /\ p.data \in Data /\ p.last \in BOOLEAN
  BY DEF TypeOK, FieldsOK, Packet
<1>2. n \in Nat /\ (n = 0 \/ Walk(d, next, n))
  <2>1. CASE p.last
    BY <2>1
  <2>2. CASE ~p.last
    <3> DEFINE walks == {k \in 0 .. Cardinality(order_packet_map[d]) : Walk(d, next, k)}
    <3>1. n \in Drains(d, next)
      BY <1>1, <2>2
    <3>2. n \in (IF walks = {0} THEN {0} ELSE walks \ {0})
      BY <3>1 DEF Drains
    <3>3. \A k \in walks : k \in Nat /\ Walk(d, next, k)
      OBVIOUS
    <3> QED
      BY <3>2, <3>3
  <2> QED
    BY <2>1, <2>2
<1>3. \A i \in 1 .. n : Chunk(d, next + i - 1) \in Data
  BY <1>1, <1>2, ChunkTyped
<1>4. tail \in Seq(Data)
  BY <1>2, <1>3
<1>5. <<p.data>> \o tail \in Seq(Data)
  BY <1>1, <1>4
<1>6. Pkt(destination[d], "ACK", next + n, last, w, NoData) \in Packet
  <2>1. last \in BOOLEAN /\ next + n \in Nat /\ NoData \in Data /\ "ACK" \in Kinds
    BY <1>1, <1>2 DEF Kinds
  <2> HIDE DEF last, next
  <2> QED
    BY <1>1, <2>1, PktTyped
<1>7. InOrder(d, p, n, w) =
        [expected |-> next + n, drained |-> Drained(d, next, n), last |-> last,
         chunks |-> <<p.data>> \o tail,
         ack |-> Pkt(destination[d], "ACK", next + n, last, w, NoData)]
  BY DEF InOrder
<1>8. next + n \in Nat \ {0} /\ last \in BOOLEAN
  BY <1>1, <1>2
<1> HIDE DEF next, last, tail
<1> QED
  BY <1>2, <1>5, <1>6, <1>7, <1>8

LEMMA ReceiveInOrderTyped ==
    ASSUME TypeOK, NEW s \in Hosts, NEW d \in Hosts, NEW p \in Packet,
           net[<<s, d>>] # <<>>, ReceiveInOrder(s, d, p), UNCHANGED <<waiting, early, lost>>
    PROVE  TypeOK'
<1>1. PICK n \in IF p.last THEN {0} ELSE Drains(d, p.id + 1),
           w \in {p.cwnd} \cup {q.cwnd : q \in order_packet_map[d]} :
         LET r == InOrder(d, p, n, w)
         IN  /\ packet_expected' = [packet_expected EXCEPT ![d] = r.expected]
             /\ output' = [output EXCEPT ![d] = @ \o r.chunks]
             /\ order_packet_map' = [order_packet_map EXCEPT ![d] = @ \ r.drained]
             /\ temp_cwnd_host' = [temp_cwnd_host EXCEPT ![d] = w]
             /\ state' = [state EXCEPT ![d] =
                            IF r.last THEN "FIN" ELSE "sending_ack_listening"]
             /\ done_transmission' = [done_transmission EXCEPT ![d] = r.last \/ @]
             /\ SendKept(Consumed(s, d), d, r.ack)
  BY DEF ReceiveInOrder
<1> DEFINE r == InOrder(d, p, n, w)
<1>2. TimersOK /\ MapsOK /\ NetOK /\ FieldsOK /\ OutputOK
  BY DEF TypeOK
<1>3. w \in UShorts
  BY <1>2 DEF MapsOK, Packet
<1>4. /\ r.expected \in Nat \ {0} /\ r.last \in BOOLEAN
      /\ r.chunks \in Seq({NoData} \cup (Flows \X Nat)) /\ r.ack \in Packet
  BY <1>3, InOrderTyped DEF ReceiveInOrder
<1> HIDE DEF r
<1>5. SendKept(Consumed(s, d), d, r.ack)
  BY <1>1 DEF r
<1>6. Consumed(s, d) \in [Hosts \X Hosts -> Seq(Packet)]
  BY <1>2, ConsumedTyped
<1>7. /\ TimersOK' /\ NetOK'
      /\ re_packet_map' \in [Hosts -> SUBSET Packet]
      /\ \A h \in Hosts : OnePerId(re_packet_map'[h])
  BY <1>2, <1>4, <1>5, <1>6, SendKeptTyped
<1>8. order_packet_map' = [order_packet_map EXCEPT ![d] = @ \ r.drained]
  BY <1>1 DEF r
<1>9. MapsOK'
  BY <1>2, <1>7, <1>8 DEF MapsOK, OnePerId
<1>10. OutputOK'
  <2>1. output' = [output EXCEPT ![d] = @ \o r.chunks]
    BY <1>1 DEF r
  <2>2. output[d] \o r.chunks \in Seq({NoData} \cup (Flows \X Nat))
    BY <1>2, <1>4 DEF OutputOK
  <2> QED
    BY <1>2, <2>1, <2>2 DEF OutputOK
<1>11. FieldsOK'
  <2>1. /\ packet_expected' = [packet_expected EXCEPT ![d] = r.expected]
        /\ temp_cwnd_host' = [temp_cwnd_host EXCEPT ![d] = w]
        /\ state' = [state EXCEPT ![d] =
                       IF r.last THEN "FIN" ELSE "sending_ack_listening"]
        /\ done_transmission' = [done_transmission EXCEPT ![d] = r.last \/ @]
        /\ UNCHANGED <<setup, sent_so_far, lastest_ack_rec, cwnd_host>>
    BY <1>1 DEF r, ReceiveInOrder
  <2>2. packet_expected' \in [Hosts -> Nat \ {0}] /\ temp_cwnd_host' \in [Hosts -> UShorts]
    BY <1>2, <1>3, <1>4, <2>1 DEF FieldsOK
  <2>3. state' \in [Hosts -> States] /\ done_transmission' \in [Hosts -> BOOLEAN]
    BY <1>2, <1>4, <2>1 DEF FieldsOK, States
  <2> QED
    BY <1>2, <2>1, <2>2, <2>3 DEF FieldsOK, setup
<1> QED
  BY <1>7, <1>9, <1>10, <1>11 DEF TypeOK, ReceiveInOrder

LEMMA ReceiveInOrderDiesTyped ==
    ASSUME TypeOK, NEW s \in Hosts, NEW d \in Hosts, NEW p \in Packet,
           ReceiveInOrderDies(s, d, p)
    PROVE  TypeOK'
<1>1. PICK n \in IF p.last THEN {0} ELSE Drains(d, p.id + 1) :
         /\ output' = [output EXCEPT ![d] = @ \o InOrder(d, p, n, 0).chunks]
         /\ Abort("window") \/ Abort("iterator")
  BY DEF ReceiveInOrderDies
<1> DEFINE chunks == InOrder(d, p, n, 0).chunks
<1>2. chunks \in Seq({NoData} \cup (Flows \X Nat))
  BY ZeroIsUShort, InOrderTyped DEF ReceiveInOrderDies
<1>3. output' = [output EXCEPT ![d] = @ \o chunks]
  BY <1>1
<1> HIDE DEF chunks
<1>4. OutputOK'
  <2>1. output[d] \o chunks \in Seq({NoData} \cup (Flows \X Nat))
    BY <1>2 DEF TypeOK, OutputOK
  <2> QED
    BY <1>3, <2>1 DEF TypeOK, OutputOK
<1> QED
  BY <1>1, <1>4, AbortTyped

LEMMA DeliveryTyped ==
    ASSUME TypeOK, NEW s \in Hosts, NEW d \in Hosts, Delivery(s, d)
    PROVE  TypeOK'
<1>1. net[<<s, d>>] # <<>> /\ Receive(s, d)
  BY DEF Delivery
<1>2. PICK w \in Windows :
        LET p == Marked(Head(net[<<s, d>>]), w)
        IN  \/ /\ \/ ReceiveSyn(s, d, p)
                  \/ ReceiveSynAck(s, d, p)
                  \/ ReceiveInOrder(s, d, p)
                  \/ ReceiveAhead(s, d, p)
                  \/ ReceiveRepeated(s, d, p)
                  \/ ReceiveAck(s, d, p)
                  \/ ReceiveFin(s, d, p)
                  \/ ReceiveFinAck(s, d, p)
                  \/ ReceiveOther(s, d, p)
               /\ UNCHANGED <<waiting, early, lost>>
            \/ ReceiveInOrderDies(s, d, p)
            \/ ReceiveDies(s, d, p)
  BY <1>1 DEF Receive
<1> DEFINE p == Marked(Head(net[<<s, d>>]), w)
<1>3. p \in Packet
  BY <1>1, ConsumedTyped, MarkedIsPacket DEF TypeOK
<1> HIDE DEF p
<1>4. ASSUME ReceiveDies(s, d, p) PROVE TypeOK'
  BY <1>4, AbortTyped DEF ReceiveDies, TypeOK, OutputOK
<1>5. \/ ReceiveDies(s, d, p)
      \/ ReceiveInOrderDies(s, d, p)
      \/ /\ UNCHANGED <<waiting, early, lost>>
         /\ \/ ReceiveSyn(s, d, p)     \/ ReceiveSynAck(s, d, p)
            \/ ReceiveInOrder(s, d, p) \/ ReceiveAhead(s, d, p)
            \/ ReceiveRepeated(s, d, p) \/ ReceiveAck(s, d, p)
            \/ ReceiveFin(s, d, p)     \/ ReceiveFinAck(s, d, p)
            \/ ReceiveOther(s, d, p)
  BY <1>2 DEF p
<1> QED
  BY <1>1, <1>3, <1>4, <1>5, ReceiveInOrderDiesTyped, ReceiveSynTyped, ReceiveSynAckTyped,
     ReceiveInOrderTyped, ReceiveAheadTyped, ReceiveRepeatedTyped, ReceiveAckTyped,
     ReceiveFinTyped, ReceiveFinAckTyped, ReceiveOtherTyped

LEMMA LoseTyped ==
    ASSUME TypeOK, NEW s \in Hosts, NEW d \in Hosts, Lose(s, d)
    PROVE  TypeOK'
<1>1. NetOK'
  BY ConsumedTyped DEF TypeOK, Lose, NetOK
<1>2. FieldsOK' /\ MapsOK' /\ TimersOK'
  BY DEF TypeOK, Lose, FieldsOK, MapsOK, TimersOK, setup, progress, timers
<1> QED
  BY <1>1, <1>2 DEF TypeOK, Lose, OutputOK, report

LEMMA StutterTyped ==
    ASSUME TypeOK, UNCHANGED vars
    PROVE  TypeOK'
<1>1. FieldsOK' /\ MapsOK' /\ TimersOK' /\ NetOK' /\ OutputOK'
  BY DEF TypeOK, vars, setup, progress, timers, report, FieldsOK, MapsOK, TimersOK,
         NetOK, OutputOK
<1> QED
  BY <1>1 DEF TypeOK, vars, report

-----------------------------------------------------------------------------
(* The theorem                                                             *)

(* Whatever the flows, the windows, the losses and the timers: the fields  *)
(* of the hosts stay in their types, each map keeps one packet per id, and *)
(* an entry of cookie_retranmission_timmer is never pending and spent at   *)
(* once (class dtpHost).                                                   *)
THEOREM TypeCorrect == Spec => []TypeOK
<1>1. TypeOK /\ [Next]_vars => TypeOK'
  <2> SUFFICES ASSUME TypeOK, [Next]_vars PROVE TypeOK'
    OBVIOUS
  <2>1. ASSUME NEW f \in Flows, StartFlow(f) PROVE TypeOK'
    BY <2>1, StartFlowTyped
  <2>2. ASSUME NEW h \in Hosts, NormalTimer(h) PROVE TypeOK'
    BY <2>2, NormalTimerTyped
  <2>3. ASSUME NEW h \in Hosts, NormalTimerDies(h) PROVE TypeOK'
    BY <2>3, AbortTyped DEF NormalTimerDies, TypeOK, OutputOK
  <2>4. ASSUME NEW h \in Hosts, TimerStep(h) PROVE TypeOK'
    <3>1. \A id \in armed[h] : id \in Nat
      BY DEF TypeOK, TimersOK
    <3> QED
      BY <2>4, <3>1, RetransmissionTimerTyped DEF TimerStep
  <2>5. ASSUME NEW h \in Hosts, LeakedTimerStep(h) PROVE TypeOK'
    <3>1. \A id \in BagToSet(leaked[h]) : id \in Nat
      BY DEF TypeOK, TimersOK, IsTimerBag
    <3> QED
      BY <2>5, <3>1, RetransmissionTimerTyped DEF LeakedTimerStep
  <2>6. ASSUME NEW s \in Hosts, NEW d \in Hosts, Delivery(s, d) PROVE TypeOK'
    BY <2>6, DeliveryTyped
  <2>7. ASSUME NEW s \in Hosts, NEW d \in Hosts, Lose(s, d) PROVE TypeOK'
    BY <2>7, LoseTyped
  <2>8. CASE UNCHANGED vars
    BY <2>8, StutterTyped
  <2> QED
    BY <2>1, <2>2, <2>3, <2>4, <2>5, <2>6, <2>7, <2>8 DEF Next
<1> QED
  BY <1>1, TypeInit, PTL DEF Spec

-----------------------------------------------------------------------------
(* The assertions on the windows                                           *)

\* As a short, the share of every router is more than nothing.
SharesFit == \A w \in Windows : 2 * w < UShort

PositiveInv == WindowsPositive /\ \A h \in Hosts : cwnd_host[h] > 0

(* Whatever window a packet carries, behind the routers it has one of at   *)
(* least 1, also as a short.                                               *)
LEMMA MarkedPositive ==
    ASSUME SharesFit, NEW p \in Packet, NEW w \in Windows
    PROVE  Marked(p, w).cwnd > 0 /\ AsShort(Marked(p, w).cwnd) > 0
<1>1. /\ p.cwnd \in UShorts /\ UShort \in Nat \ {0} /\ w \in 1 .. UShort /\ 2 * w < UShort
      /\ Marked(p, w).cwnd = IF p.cwnd = 0 THEN w % UShort ELSE IF p.cwnd > w THEN w ELSE p.cwnd
  BY WindowsAssumption DEF Packet, Marked, SharesFit
<1>2. w % UShort = w
  BY <1>1
<1>3. Marked(p, w).cwnd \in 1 .. w
  BY <1>1, <1>2 DEF UShorts
<1>4. \A c \in 1 .. w : c > 0 /\ AsShort(c) = c
  BY <1>1 DEF AsShort
<1> QED
  BY <1>3, <1>4

LEMMA DeliveryPositive ==
    ASSUME TypeOK, SharesFit, PositiveInv, NEW s \in Hosts, NEW d \in Hosts, Delivery(s, d)
    PROVE  PositiveInv'
<1>1. PICK w \in Windows : LET p == Marked(Head(net[<<s, d>>]), w)
        IN \/ ReceiveSyn(s, d, p) \/ ReceiveSynAck(s, d, p) \/ ReceiveInOrder(s, d, p)
           \/ ReceiveAhead(s, d, p) \/ ReceiveRepeated(s, d, p) \/ ReceiveAck(s, d, p)
           \/ ReceiveFin(s, d, p) \/ ReceiveFinAck(s, d, p) \/ ReceiveOther(s, d, p)
           \/ ReceiveInOrderDies(s, d, p) \/ ReceiveDies(s, d, p)
  BY DEF Delivery, Receive
<1>2. PICK p : p = Marked(Head(net[<<s, d>>]), w)
  OBVIOUS
<1>3. Head(net[<<s, d>>]) \in Packet
  <2>1. net[<<s, d>>] \in Seq(Packet) /\ net[<<s, d>>] # <<>>
    BY DEF TypeOK, NetOK, Delivery
  <2> QED
    BY <2>1
<1>4. p.cwnd > 0 /\ AsShort(p.cwnd) > 0
  BY <1>2, <1>3, MarkedPositive
<1>5. /\ aborted # "window" /\ cwnd_host \in [Hosts -> UShorts \cup {1}]
      /\ \A h \in Hosts : cwnd_host[h] > 0
  BY DEF PositiveInv, WindowsPositive, TypeOK, FieldsOK
<1>6. CASE ReceiveAck(s, d, p)
  <2>1. cwnd_host' = [cwnd_host EXCEPT ![d] = p.cwnd] /\ aborted' = aborted
    BY <1>6 DEF ReceiveAck
  <2> QED
    BY <1>4, <1>5, <2>1 DEF PositiveInv, WindowsPositive
<1>7. CASE ReceiveInOrderDies(s, d, p)
  <2>1. AsShort(p.cwnd) <= 0 \/ Abort("iterator")
    BY <1>7 DEF ReceiveInOrderDies
  <2>2. AsShort(p.cwnd) \in Int
    <3>1. p.cwnd \in Int /\ UShort \in Int
      BY <1>2, <1>3, MarkedIsPacket, WindowsAssumption DEF Packet, UShorts
    <3> QED
      BY <3>1 DEF AsShort
  <2>3. Abort("iterator")
    BY <1>4, <2>1, <2>2
  <2> QED
    BY <1>5, <2>3 DEF Abort, PositiveInv, WindowsPositive
<1>8. CASE ReceiveDies(s, d, p)
  BY <1>5, <1>8 DEF ReceiveDies, Abort, PositiveInv, WindowsPositive
<1>9. CASE cwnd_host' = cwnd_host /\ aborted' = aborted
  BY <1>5, <1>9 DEF PositiveInv, WindowsPositive
<1> QED
  BY <1>1, <1>2, <1>6, <1>7, <1>8, <1>9
     DEF ReceiveSyn, ReceiveSynAck, ReceiveInOrder, ReceiveAhead, ReceiveRepeated,
         ReceiveFin, ReceiveFinAck, ReceiveOther

LEMMA StepPositive ==
    ASSUME TypeOK, SharesFit, PositiveInv, Next
    PROVE  PositiveInv'
<1>1. /\ aborted # "window" /\ cwnd_host \in [Hosts -> UShorts \cup {1}]
      /\ \A h \in Hosts : cwnd_host[h] > 0
  BY DEF PositiveInv, WindowsPositive, TypeOK, FieldsOK
<1>2. ASSUME NEW f \in Flows, StartFlow(f) PROVE PositiveInv'
  <2>1. /\ aborted' = aborted
        /\ cwnd_host' = [cwnd_host EXCEPT ![f.source] = 1, ![f.destination] = 1]
    BY <1>2 DEF StartFlow
  <2> QED
    BY <1>1, <2>1 DEF PositiveInv, WindowsPositive
<1>3. ASSUME NEW h \in Hosts, NormalTimerDies(h) PROVE FALSE
  BY <1>1, <1>3 DEF NormalTimerDies
<1>4. ASSUME NEW h \in Hosts, NormalTimer(h) PROVE cwnd_host' = cwnd_host /\ aborted' = aborted
  BY <1>4 DEF NormalTimer, SendSyn, SendBurst, SendNothing, SendFin, SendUninitialised
<1>5. ASSUME NEW h \in Hosts, TimerStep(h) \/ LeakedTimerStep(h)
      PROVE  cwnd_host' = cwnd_host /\ aborted' = aborted
  BY <1>5 DEF TimerStep, LeakedTimerStep, RetransmissionTimer
<1>6. ASSUME NEW s \in Hosts, NEW d \in Hosts, Lose(s, d)
      PROVE  cwnd_host' = cwnd_host /\ aborted' = aborted
  BY <1>6 DEF Lose
<1>7. cwnd_host' = cwnd_host /\ aborted' = aborted => PositiveInv'
  BY <1>1 DEF PositiveInv, WindowsPositive
<1> QED
  BY <1>2, <1>3, <1>4, <1>5, <1>6, <1>7, DeliveryPositive DEF Next

(* No flow is ever sent with an empty window, neither ASSERT on windows is *)
(* reached, whatever flows overlap and whatever uninitialised packets      *)
(* hold, when the shares of the routers are positive as a short (handle_-  *)
(* timer, send_immediately).                                               *)
THEOREM WindowsAlwaysPositive ==
    ASSUME SharesFit
    PROVE  Spec => []WindowsPositive
<1>1. Init => PositiveInv
  BY DEF Init, PositiveInv, WindowsPositive
<1>2. TypeOK /\ PositiveInv /\ [Next]_vars => PositiveInv'
  <2>1. UNCHANGED vars /\ PositiveInv => PositiveInv'
    BY DEF vars, PositiveInv, WindowsPositive
  <2> QED
    BY <2>1, StepPositive
<1>3. PositiveInv => WindowsPositive
  BY DEF PositiveInv
<1> QED
  BY <1>1, <1>2, <1>3, TypeCorrect, PTL DEF Spec

-----------------------------------------------------------------------------
(* One flow                                                                *)

\* The flow f takes n packets from s to d.
OneFlow(f, s, d, n) ==
    Flows = {f} /\ s = f.source /\ d = f.destination /\ n = f.packets

-----------------------------------------------------------------------------
(* The inductive invariant of one flow                                     *)

\* A packet of the file that its source has already sent.
Data(f, s, n, p) ==
    /\ p.kind = "DATA" /\ p.id \in 1 .. n /\ p.id <= sent_so_far[s]
    /\ p.data = <<f, p.id>> /\ (p.last <=> p.id = n)

\* The whole file is written.
Whole(d, n) == packet_expected[d] = n + 1

\* Packets on the way to the destination, and those its source keeps.
Forth(f, s, d, n, p) ==
    \/ p.kind = "SYN" /\ state[d] \in {"SYN", "sending"}
    \/ Data(f, s, n, p)
    \/ p.kind = "FIN" /\ p.id > n + 1 /\ Whole(d, n)
KeptAtSource(f, s, d, n, p) ==
    \/ p.kind = "SYN" /\ p.id = 0 /\ state[s] = "SYN"
    \/ Data(f, s, n, p)
    \/ p.kind = "FIN" /\ p.id > n + 1 /\ Whole(d, n)

\* Packets on the way back, and those the destination keeps.
Ack(d, n, p) ==
    /\ p.kind = "ACK" /\ p.id \in 2 .. packet_expected[d]
    /\ p.last => Whole(d, n)
Back(d, n, p) ==
    \/ p.kind = "SYN_ACK" /\ p.id = 0
    \/ Ack(d, n, p)
    \/ p.kind = "FIN_ACK" /\ p.id > n + 2 /\ Whole(d, n)
KeptAtDestination(s, d, n, p) ==
    \/ p.kind = "SYN_ACK" /\ p.id = 0 /\ state[s] = "SYN"
    \/ Ack(d, n, p)
    \/ p.kind = "FIN_ACK" /\ p.id > n + 2 /\ Whole(d, n)

\* A SYN is behind SYNs only.
SynsFirst(q) ==
    \A i, j \in 1 .. Len(q) : i < j /\ q[j].kind = "SYN" => q[i].kind = "SYN"

NoSyn(q) == \A e \in RangeOf(q) : e.kind # "SYN"
MayFollow(q, p) == p.kind = "SYN" => \A e \in RangeOf(q) : e.kind = "SYN"

Ends(f, s, d) ==
    /\ destination[s] = d /\ destination[d] \in {NoHost, s}
    /\ sender[s] /\ ~sender[d] /\ file_holder[s] = f

Turns(s, d) ==
    /\ state[s] \in {"SYN", "sending", "FIN"}
    /\ state[s] = "SYN" <=> state[d] = "SYN"
    /\ normal \subseteq {s, d}
    /\ s \in normal => state[s] # "SYN"
    /\ d \in normal => state[d] \in {"SYN", "sending"}

Counters(s, d, n) ==
    /\ packet_expected[d] <= n + 1
    /\ packet_expected[d] <= sent_so_far[s] + 1
    /\ state[s] = "SYN" => sent_so_far[s] = 0
    /\ done_transmission[s] <=> sent_so_far[s] >= n
    /\ state[s] = "FIN" => Whole(d, n)

\* Two hosts use the network, and no SYN follows another packet.
OnlyPath(m, s, d) ==
    /\ m \in [Hosts \X Hosts -> Seq(Packet)]
    /\ \A c \in Hosts \X Hosts : c \notin {<<s, d>>, <<d, s>>} => m[c] = <<>>
    /\ SynsFirst(m[<<s, d>>])

Path(m, f, s, d, n) ==
    /\ OnlyPath(m, s, d)
    /\ \A p \in RangeOf(m[<<s, d>>]) : Forth(f, s, d, n, p)
    /\ \A p \in RangeOf(m[<<d, s>>]) : Back(d, n, p)

Kept(f, s, d, n) ==
    /\ \A p \in re_packet_map[s] : KeptAtSource(f, s, d, n, p) /\ p.destination = d
    /\ \A p \in re_packet_map[d] :
          KeptAtDestination(s, d, n, p) /\ p.destination \in {NoHost, s}
    /\ \A h \in Hosts \ {s, d} : re_packet_map[h] = {}
    /\ \A p \in order_packet_map[d] : Data(f, s, n, p)

\* What was sent and is not written is kept.
Needed(f, s, d, n) ==
    \A c \in 1 .. n : c <= sent_so_far[s] =>
        \/ c < packet_expected[d]
        \/ \E p \in re_packet_map[s] : p.id = c /\ p.data = <<f, c>>

File(f, k) == [i \in 1 .. k |-> <<f, i>>]
Holds(f, q, k) == \A i \in 1 .. k : <<f, i>> \in RangeOf(q)
Continues(f, c, e, k) ==
    Len(c) = k + 1 /\ \A i \in 1 .. k + 1 : c[i] = <<f, e + i - 1>>
Written(f, d, n) ==
    /\ aborted = "no" => output[d] = File(f, packet_expected[d] - 1)
    /\ Holds(f, output[d], packet_expected[d] - 1)
    /\ torn_down # {} => Whole(d, n)

NotStarted(f, s, d) ==
    /\ f \in waiting /\ aborted = "no"
    /\ normal = {} /\ torn_down = {}
    /\ \A c \in Hosts \X Hosts : net[c] = <<>>
    /\ \A h \in Hosts : /\ destination[h] = NoHost /\ file_holder[h] = NoFile
                        /\ re_packet_map[h] = {} /\ order_packet_map[h] = {}
                        /\ output[h] = <<>>

Running(f, s, d, n) ==
    /\ waiting = {}
    /\ Ends(f, s, d) /\ Turns(s, d) /\ Counters(s, d, n)
    /\ Path(net, f, s, d, n) /\ Kept(f, s, d, n) /\ Needed(f, s, d, n)
    /\ Written(f, d, n)

FlowInv(f, s, d, n) == NotStarted(f, s, d) \/ Running(f, s, d, n)

-----------------------------------------------------------------------------
(* Channels                                                                *)

LEMMA TailShape ==
    ASSUME NEW S, NEW q \in Seq(S), q # <<>>
    PROVE  /\ Head(q) \in RangeOf(q)
           /\ RangeOf(Tail(q)) \subseteq RangeOf(q)
           /\ SynsFirst(q) => SynsFirst(Tail(q))
           /\ SynsFirst(q) /\ Head(q).kind # "SYN" =>
                 \A p \in RangeOf(Tail(q)) : p.kind # "SYN"
<1>1. /\ Len(q) \in Nat \ {0} /\ DOMAIN q = 1 .. Len(q) /\ Head(q) = q[1]
      /\ DOMAIN Tail(q) = 1 .. Len(q) - 1 /\ Len(Tail(q)) = Len(q) - 1
      /\ \A i \in 1 .. Len(q) - 1 : Tail(q)[i] = q[i + 1]
  OBVIOUS
<1>2. \A i \in 1 .. Len(q) - 1 : i + 1 \in 1 .. Len(q) /\ 1 < i + 1 /\ 1 \in 1 .. Len(q)
  BY <1>1
<1>3. Head(q) \in RangeOf(q)
  BY <1>1 DEF RangeOf
<1>4. \A p \in RangeOf(Tail(q)) : \E i \in 1 .. Len(q) - 1 : p = q[i + 1]
  BY <1>1 DEF RangeOf
<1>5. RangeOf(Tail(q)) \subseteq RangeOf(q)
  BY <1>1, <1>2, <1>4 DEF RangeOf
<1>6. SynsFirst(q) => SynsFirst(Tail(q))
  <2> SUFFICES ASSUME SynsFirst(q), NEW i \in 1 .. Len(Tail(q)), NEW j \in 1 .. Len(Tail(q)),
                      i < j, Tail(q)[j].kind = "SYN"
               PROVE  Tail(q)[i].kind = "SYN"
    BY DEF SynsFirst
  <2>1. /\ i + 1 \in 1 .. Len(q) /\ j + 1 \in 1 .. Len(q) /\ i + 1 < j + 1
        /\ Tail(q)[i] = q[i + 1] /\ Tail(q)[j] = q[j + 1]
    BY <1>1, <1>2
  <2> QED
    BY <2>1 DEF SynsFirst
<1>7. SynsFirst(q) /\ Head(q).kind # "SYN" => \A p \in RangeOf(Tail(q)) : p.kind # "SYN"
  BY <1>1, <1>2, <1>4 DEF SynsFirst
<1> QED
  BY <1>3, <1>5, <1>6, <1>7

LEMMA AppendShape ==
    ASSUME NEW S, NEW q \in Seq(S), NEW e \in S
    PROVE  /\ RangeOf(Append(q, e)) = RangeOf(q) \cup {e}
           /\ SynsFirst(q) /\ (e.kind = "SYN" => \A p \in RangeOf(q) : p.kind = "SYN")
                => SynsFirst(Append(q, e))
<1> DEFINE r == Append(q, e)
<1>1. /\ Len(q) \in Nat /\ DOMAIN q = 1 .. Len(q) /\ Len(r) = Len(q) + 1
      /\ DOMAIN r = 1 .. Len(q) + 1 /\ r[Len(q) + 1] = e
      /\ \A i \in 1 .. Len(q) : r[i] = q[i]
  OBVIOUS
<1> HIDE DEF r
<1>2. \A i \in 1 .. Len(q) + 1 : i \in 1 .. Len(q) \/ i = Len(q) + 1
  BY <1>1
<1>3. RangeOf(r) = RangeOf(q) \cup {e}
  BY <1>1, <1>2 DEF RangeOf
<1>4. ASSUME SynsFirst(q), e.kind = "SYN" => \A p \in RangeOf(q) : p.kind = "SYN"
      PROVE  SynsFirst(r)
  <2> SUFFICES ASSUME NEW i \in 1 .. Len(r), NEW j \in 1 .. Len(r), i < j, r[j].kind = "SYN"
               PROVE  r[i].kind = "SYN"
    BY DEF SynsFirst
  <2>1. i \in 1 .. Len(q) /\ r[i] = q[i] /\ q[i] \in RangeOf(q)
    BY <1>1 DEF RangeOf
  <2>2. CASE j \in 1 .. Len(q)
    BY <1>1, <1>4, <2>1, <2>2 DEF SynsFirst
  <2>3. CASE j = Len(q) + 1
    BY <1>1, <1>4, <2>1, <2>3
  <2> QED
    BY <1>1, <1>2, <2>2, <2>3
<1> QED
  BY <1>3, <1>4 DEF r

LEMMA ConcatParts ==
    ASSUME NEW S, NEW q \in Seq(S), NEW t \in Seq(S)
    PROVE  /\ q \o t \in Seq(S) /\ Len(q \o t) = Len(q) + Len(t)
           /\ q \o t = [i \in 1 .. Len(q) + Len(t) |-> (q \o t)[i]]
           /\ \A i \in 1 .. Len(q) : (q \o t)[i] = q[i]
           /\ \A i \in 1 .. Len(t) : (q \o t)[Len(q) + i] = t[i]
<1>1. /\ Len(q) \in Nat /\ Len(t) \in Nat /\ q \o t \in Seq(S)
      /\ Len(q \o t) = Len(q) + Len(t)
      /\ \A i \in 1 .. Len(q) : (q \o t)[i] = q[i]
      /\ \A i \in 1 .. Len(t) : (q \o t)[Len(q) + i] = t[i]
  OBVIOUS
<1> DEFINE r == q \o t
<1>2. \A m : Len(r) = m /\ r \in Seq(S) => r = [i \in 1 .. m |-> r[i]]
  <2> HIDE DEF r
  <2> QED
    OBVIOUS
<1>3. q \o t = [i \in 1 .. Len(q) + Len(t) |-> (q \o t)[i]]
  BY <1>1, <1>2
<1> QED
  BY <1>1, <1>3

LEMMA ConcatShape ==
    ASSUME NEW S, NEW q \in Seq(S), NEW t \in Seq(S)
    PROVE  /\ RangeOf(q \o t) = RangeOf(q) \cup RangeOf(t)
           /\ SynsFirst(q) /\ (\A p \in RangeOf(t) : p.kind # "SYN") => SynsFirst(q \o t)
<1> DEFINE r == q \o t
<1>1. /\ Len(q) \in Nat /\ Len(t) \in Nat /\ DOMAIN q = 1 .. Len(q) /\ DOMAIN t = 1 .. Len(t)
      /\ Len(r) = Len(q) + Len(t) /\ DOMAIN r = 1 .. Len(q) + Len(t)
      /\ \A i \in 1 .. Len(q) : r[i] = q[i]
      /\ \A i \in 1 .. Len(t) : r[Len(q) + i] = t[i]
  OBVIOUS
<1> HIDE DEF r
<1>2. \A i \in 1 .. Len(r) : \/ i \in 1 .. Len(q)
                             \/ i - Len(q) \in 1 .. Len(t) /\ Len(q) + (i - Len(q)) = i
  BY <1>1
<1>3. \A i \in 1 .. Len(r) : \/ i \in 1 .. Len(q) /\ r[i] = q[i]
                             \/ i > Len(q) /\ r[i] \in RangeOf(t)
  <2> TAKE i \in 1 .. Len(r)
  <2>1. CASE i \in 1 .. Len(q)
    BY <1>1, <2>1
  <2>2. ASSUME NEW k \in 1 .. Len(t), k = i - Len(q), Len(q) + k = i
        PROVE  i > Len(q) /\ r[i] \in RangeOf(t)
    <3>1. r[i] = t[k] /\ i > Len(q)
      BY <1>1, <2>2
    <3> QED
      BY <1>1, <3>1 DEF RangeOf
  <2> QED
    BY <1>2, <2>1, <2>2
<1>4. RangeOf(r) = RangeOf(q) \cup RangeOf(t)
  <2>1. RangeOf(r) \subseteq RangeOf(q) \cup RangeOf(t)
    BY <1>1, <1>3 DEF RangeOf
  <2>2. \A i \in 1 .. Len(q) : i \in 1 .. Len(r)
    BY <1>1
  <2>3. \A i \in 1 .. Len(t) : Len(q) + i \in 1 .. Len(r)
    BY <1>1
  <2>4. RangeOf(q) \subseteq RangeOf(r)
    BY <1>1, <2>2 DEF RangeOf
  <2>5. RangeOf(t) \subseteq RangeOf(r)
    BY <1>1, <2>3 DEF RangeOf
  <2> QED
    BY <2>1, <2>4, <2>5
<1>5. ASSUME SynsFirst(q), \A p \in RangeOf(t) : p.kind # "SYN"
      PROVE  SynsFirst(r)
  <2> SUFFICES ASSUME NEW i \in 1 .. Len(r), NEW j \in 1 .. Len(r), i < j, r[j].kind = "SYN"
               PROVE  r[i].kind = "SYN"
    BY DEF SynsFirst
  <2>1. j \in 1 .. Len(q) /\ r[j] = q[j]
    BY <1>3, <1>5
  <2>2. i \in 1 .. Len(q) /\ r[i] = q[i]
    BY <1>1, <2>1
  <2> QED
    BY <1>5, <2>1, <2>2 DEF SynsFirst
<1> QED
  BY <1>4, <1>5 DEF r

(* What OneFlow says of the constants.                                     *)
LEMMA TheEnds ==
    ASSUME NEW f, NEW s, NEW d, NEW n, OneFlow(f, s, d, n)
    PROVE  /\ f \in Flows /\ s \in Hosts /\ d \in Hosts /\ s # d /\ n \in Nat \ {0}
           /\ <<s, d>> # <<d, s>> /\ NoHost \notin Hosts /\ NoFile # f
BY FlowsAssumption, HostsAssumption DEF OneFlow

(* The packet at the end of a channel is taken out.                        *)
LEMMA PathConsumed ==
    ASSUME NEW f, NEW s, NEW d, NEW n, OneFlow(f, s, d, n), OnlyPath(net, s, d),
           NEW a \in {s, d}, NEW b \in {s, d}, net[<<a, b>>] # <<>>
    PROVE  /\ OnlyPath(Consumed(a, b), s, d)
           /\ Head(net[<<a, b>>]) \in RangeOf(net[<<a, b>>])
           /\ RangeOf(Consumed(a, b)[<<s, d>>]) \subseteq RangeOf(net[<<s, d>>])
           /\ RangeOf(Consumed(a, b)[<<d, s>>]) \subseteq RangeOf(net[<<d, s>>])
           /\ a = s /\ Head(net[<<a, b>>]).kind # "SYN" => NoSyn(Consumed(a, b)[<<s, d>>])
<1> DEFINE q == net[<<a, b>>]
           m == Consumed(a, b)
<1>1. s \in Hosts /\ d \in Hosts /\ s # d /\ <<s, d>> # <<d, s>>
  BY TheEnds
<1>2. /\ net \in [Hosts \X Hosts -> Seq(Packet)] /\ <<a, b>> \in Hosts \X Hosts
      /\ SynsFirst(net[<<s, d>>]) /\ <<a, b>> \in {<<s, d>>, <<d, s>>} /\ q \in Seq(Packet)
  BY <1>1 DEF OnlyPath
<1>3. m = [net EXCEPT ![<<a, b>>] = Tail(q)]
  BY DEF Consumed
<1>4. /\ Head(q) \in RangeOf(q) /\ RangeOf(Tail(q)) \subseteq RangeOf(q)
      /\ SynsFirst(q) => SynsFirst(Tail(q))
      /\ SynsFirst(q) /\ Head(q).kind # "SYN" =>
            \A p \in RangeOf(Tail(q)) : p.kind # "SYN"
  BY <1>2, TailShape
<1>5. Tail(q) \in Seq(Packet)
  BY <1>2
<1>6. /\ m \in [Hosts \X Hosts -> Seq(Packet)]
      /\ \A c \in Hosts \X Hosts : m[c] = IF c = <<a, b>> THEN Tail(q) ELSE net[c]
  BY <1>2, <1>3, <1>5
<1> HIDE DEF m, q
<1>7. m[<<s, d>>] \in {net[<<s, d>>], Tail(net[<<s, d>>])}
        /\ m[<<d, s>>] \in {net[<<d, s>>], Tail(net[<<d, s>>])}
  BY <1>1, <1>6 DEF q
<1>8. SynsFirst(m[<<s, d>>])
  <2>1. CASE <<a, b>> = <<s, d>>
    BY <1>1, <1>2, <1>4, <1>6, <2>1 DEF q
  <2>2. CASE <<a, b>> # <<s, d>>
    BY <1>1, <1>2, <1>6, <2>2
  <2> QED
    BY <2>1, <2>2
<1>9. OnlyPath(m, s, d)
  BY <1>2, <1>6, <1>8 DEF OnlyPath
<1>10. /\ RangeOf(m[<<s, d>>]) \subseteq RangeOf(net[<<s, d>>])
       /\ RangeOf(m[<<d, s>>]) \subseteq RangeOf(net[<<d, s>>])
  BY <1>1, <1>4, <1>6 DEF q
<1>11. a = s /\ Head(q).kind # "SYN" => NoSyn(m[<<s, d>>])
  BY <1>1, <1>2, <1>4, <1>6 DEF q, NoSyn
<1> QED
  BY <1>4, <1>9, <1>10, <1>11 DEF m, q

\* A packet that the source sends into the network m.
MayJoin(m, s, d, p) ==
    /\ OnlyPath(m, s, d) /\ p \in Packet /\ p.destination = d
    /\ MayFollow(m[<<s, d>>], p)

(* A packet of the source joins its channel.                               *)
LEMMA PathForth ==
    ASSUME NEW f, NEW s, NEW d, NEW n, OneFlow(f, s, d, n), NEW m, NEW p,
           MayJoin(m, s, d, p)
    PROVE  /\ OnlyPath(Sent(m, s, p), s, d)
           /\ RangeOf(Sent(m, s, p)[<<s, d>>]) = RangeOf(m[<<s, d>>]) \cup {p}
           /\ Sent(m, s, p)[<<d, s>>] = m[<<d, s>>]
<1>0. /\ OnlyPath(m, s, d) /\ p \in Packet /\ p.destination = d
      /\ MayFollow(m[<<s, d>>], p)
  BY DEF MayJoin
<1> DEFINE q == m[<<s, d>>]
           r == Append(q, p)
<1>1. s \in Hosts /\ d \in Hosts /\ s # d /\ <<s, d>> # <<d, s>>
  BY TheEnds
<1>2. /\ m \in [Hosts \X Hosts -> Seq(Packet)] /\ q \in Seq(Packet) /\ SynsFirst(q)
      /\ \A c \in Hosts \X Hosts : c \notin {<<s, d>>, <<d, s>>} => m[c] = <<>>
  BY <1>0, <1>1 DEF OnlyPath
<1>3. p.kind = "SYN" => \A e \in RangeOf(q) : e.kind = "SYN"
  BY <1>0 DEF MayFollow
<1>4. Sent(m, s, p) = [m EXCEPT ![<<s, d>>] = r]
  BY <1>0 DEF Sent
<1> HIDE DEF q
<1>5. RangeOf(r) = RangeOf(q) \cup {p} /\ SynsFirst(r) /\ r \in Seq(Packet)
  BY <1>0, <1>2, <1>3, AppendShape
<1> HIDE DEF r
<1>6. /\ Sent(m, s, p) \in [Hosts \X Hosts -> Seq(Packet)]
      /\ \A c \in Hosts \X Hosts : Sent(m, s, p)[c] = IF c = <<s, d>> THEN r ELSE m[c]
  BY <1>1, <1>2, <1>4, <1>5
<1> QED
  BY <1>0, <1>1, <1>2, <1>5, <1>6 DEF OnlyPath, q

(* A packet of the destination joins the other one, or none at all.        *)
LEMMA PathBack ==
    ASSUME NEW f, NEW s, NEW d, NEW n, OneFlow(f, s, d, n), NEW m, OnlyPath(m, s, d),
           NEW p \in Packet, p.destination \in {NoHost, s}
    PROVE  /\ OnlyPath(Sent(m, d, p), s, d)
           /\ Sent(m, d, p)[<<s, d>>] = m[<<s, d>>]
           /\ RangeOf(Sent(m, d, p)[<<d, s>>]) \subseteq RangeOf(m[<<d, s>>]) \cup {p}
<1> DEFINE q == m[<<d, s>>]
           r == Append(q, p)
<1>1. s \in Hosts /\ d \in Hosts /\ s # d /\ <<s, d>> # <<d, s>> /\ NoHost \notin Hosts
  BY TheEnds
<1>2. /\ m \in [Hosts \X Hosts -> Seq(Packet)] /\ q \in Seq(Packet)
      /\ SynsFirst(m[<<s, d>>])
      /\ \A c \in Hosts \X Hosts : c \notin {<<s, d>>, <<d, s>>} => m[c] = <<>>
  BY <1>1 DEF OnlyPath
<1>3. RangeOf(r) = RangeOf(q) \cup {p} /\ r \in Seq(Packet)
  BY <1>2, AppendShape
<1>4. Sent(m, d, p) = [m EXCEPT ![<<d, p.destination>>] = Append(@, p)]
  BY DEF Sent
<1>5. CASE p.destination = s
  <2>1. Sent(m, d, p) = [m EXCEPT ![<<d, s>>] = r]
    BY <1>4, <1>5
  <2> HIDE DEF q, r
  <2>2. /\ Sent(m, d, p) \in [Hosts \X Hosts -> Seq(Packet)]
        /\ \A c \in Hosts \X Hosts : Sent(m, d, p)[c] = IF c = <<d, s>> THEN r ELSE m[c]
    BY <1>1, <1>2, <1>3, <2>1
  <2> QED
    BY <1>1, <1>2, <1>3, <2>2 DEF OnlyPath, q
<1>6. CASE p.destination = NoHost
  <2>1. <<d, NoHost>> \notin DOMAIN m
    BY <1>1, <1>2
  <2>2. Sent(m, d, p) = m
    <3>1. Sent(m, d, p) = [m EXCEPT ![<<d, NoHost>>] = Append(@, p)]
      BY <1>4, <1>6
    <3>2. \A v : [m EXCEPT ![<<d, NoHost>>] = v] = m
      BY <1>2, <2>1
    <3> QED
      BY <3>1, <3>2
  <2> QED
    BY <2>2
<1> QED
  BY <1>5, <1>6

-----------------------------------------------------------------------------
(* Steps of a flow: what all of them use                                   *)

Now(f, s, d, n) == OneFlow(f, s, d, n) /\ TypeOK /\ Running(f, s, d, n)

(* What holds of a packet goes on to hold while the counters grow.         *)
LEMMA Grows ==
    ASSUME NEW f, NEW s, NEW d, NEW n, Now(f, s, d, n),
           sent_so_far'[s] \in Nat, sent_so_far'[s] >= sent_so_far[s],
           packet_expected'[d] \in Nat, packet_expected'[d] >= packet_expected[d],
           packet_expected'[d] <= n + 1
    PROVE  /\ Whole(d, n) => Whole(d, n)'
           /\ \A p : Data(f, s, n, p) => Data(f, s, n, p)'
           /\ \A p : Ack(d, n, p) => Ack(d, n, p)'
<1>1. /\ s \in Hosts /\ d \in Hosts /\ n \in Nat
      /\ sent_so_far[s] \in Nat /\ packet_expected[d] \in Nat
  BY TheEnds DEF Now, TypeOK, FieldsOK
<1>2. Whole(d, n) => Whole(d, n)'
  BY <1>1 DEF Whole
<1>3. \A p : Data(f, s, n, p) => Data(f, s, n, p)'
  BY <1>1 DEF Data
<1>4. \A p : Ack(d, n, p) => Ack(d, n, p)'
  BY <1>1, <1>2 DEF Ack
<1> QED
  BY <1>2, <1>3, <1>4

(* A step that changes no more than the channels and the timers.           *)
LEMMA OnlyNet ==
    ASSUME NEW f, NEW s, NEW d, NEW n, Running(f, s, d, n),
           UNCHANGED <<setup, state, done_transmission, progress, re_packet_map,
                       order_packet_map, normal, waiting, report, aborted>>,
           OnlyPath(net', s, d),
           \A p \in RangeOf(net'[<<s, d>>]) : Forth(f, s, d, n, p),
           \A p \in RangeOf(net'[<<d, s>>]) : Back(d, n, p)
    PROVE  Running(f, s, d, n)'
<1> USE DEF setup, progress, report
<1>1. Ends(f, s, d)' /\ Turns(s, d)' /\ Counters(s, d, n)' /\ Needed(f, s, d, n)'
        /\ Written(f, d, n)' /\ waiting' = {}
  BY DEF Running, Ends, Turns, Counters, Whole, Needed, Written
<1>2. Kept(f, s, d, n)'
  BY DEF Running, Kept, KeptAtSource, KeptAtDestination, Data, Whole, Ack
<1>3. \A p : /\ Forth(f, s, d, n, p) => Forth(f, s, d, n, p)'
             /\ Back(d, n, p) => Back(d, n, p)'
  BY DEF Forth, Data, Whole, Back, Ack
<1>4. Path(net, f, s, d, n)'
  BY <1>3 DEF Path
<1> QED
  BY <1>1, <1>2, <1>4 DEF Running

(* Whoever sends or receives something is one of the two ends.             *)
LEMMA RetransmissionFlow ==
    ASSUME NEW f, NEW s, NEW d, NEW n, Now(f, s, d, n),
           NEW h \in Hosts, NEW id, NEW owned, RetransmissionTimer(h, id, owned)
    PROVE  Running(f, s, d, n)'
<1>1. s \in Hosts /\ d \in Hosts /\ s # d /\ n \in Nat \ {0}
  BY TheEnds DEF Now
<1>2. UNCHANGED <<setup, state, done_transmission, progress, re_packet_map,
                  order_packet_map, normal, waiting, report, aborted>>
  BY DEF RetransmissionTimer
<1>3. /\ OnlyPath(net, s, d) /\ \A p \in RangeOf(net[<<s, d>>]) : Forth(f, s, d, n, p)
      /\ \A p \in RangeOf(net[<<d, s>>]) : Back(d, n, p)
  BY DEF Now, Running, Path
<1>4. CASE net' = net
  BY <1>2, <1>3, <1>4, OnlyNet DEF Now
<1>5. ASSUME NEW p \in re_packet_map[h], net' = Sent(net, h, p)
      PROVE  Running(f, s, d, n)'
  <2>1. p \in Packet /\ h \in {s, d}
    BY <1>5 DEF Now, Running, Kept, TypeOK, MapsOK
  <2>2. CASE h = s
    <3>1. KeptAtSource(f, s, d, n, p) /\ p.destination = d
      BY <1>5, <2>2 DEF Now, Running, Kept
    <3>2. Turns(s, d) /\ Counters(s, d, n) /\ sent_so_far[s] \in Nat
      BY <1>1 DEF Now, Running, TypeOK, FieldsOK
    <3>3. Forth(f, s, d, n, p)
      BY <3>1, <3>2 DEF KeptAtSource, Forth, Turns
    <3>4. MayFollow(net[<<s, d>>], p)
      <4> SUFFICES ASSUME p.kind = "SYN", NEW q, Forth(f, s, d, n, q)
                   PROVE  q.kind = "SYN"
        BY <1>3 DEF MayFollow
      <4>1. sent_so_far[s] = 0
        BY <3>1, <3>2 DEF KeptAtSource, Data, Counters
      <4> QED
        BY <1>1, <3>2, <4>1 DEF Forth, Data, Whole, Counters
    <3>5. /\ OnlyPath(Sent(net, s, p), s, d)
          /\ RangeOf(Sent(net, s, p)[<<s, d>>]) = RangeOf(net[<<s, d>>]) \cup {p}
          /\ Sent(net, s, p)[<<d, s>>] = net[<<d, s>>]
      <4>1. MayJoin(net, s, d, p) /\ OneFlow(f, s, d, n)
        BY <1>3, <2>1, <3>1, <3>4 DEF Now, MayJoin
      <4> QED
        BY <4>1, PathForth, Zenon
    <3>6. net' = Sent(net, s, p)
      BY <1>5, <2>2
    <3>7. \A q \in RangeOf(net'[<<s, d>>]) : Forth(f, s, d, n, q)
      BY <1>3, <3>3, <3>5, <3>6
    <3>8. \A q \in RangeOf(net'[<<d, s>>]) : Back(d, n, q)
      BY <1>3, <3>5, <3>6
    <3> QED
      BY <1>2, <3>5, <3>6, <3>7, <3>8, OnlyNet DEF Now
  <2>3. CASE h = d
    <3>1. KeptAtDestination(s, d, n, p) /\ p.destination \in {NoHost, s}
      BY <1>5, <2>3 DEF Now, Running, Kept
    <3>2. Back(d, n, p)
      BY <3>1 DEF KeptAtDestination, Back
    <3>3. /\ OnlyPath(Sent(net, d, p), s, d)
          /\ Sent(net, d, p)[<<s, d>>] = net[<<s, d>>]
          /\ RangeOf(Sent(net, d, p)[<<d, s>>]) \subseteq RangeOf(net[<<d, s>>]) \cup {p}
      BY <1>3, <2>1, <3>1, PathBack DEF Now
    <3>4. net' = Sent(net, d, p)
      BY <1>5, <2>3
    <3>5. \A q \in RangeOf(net'[<<s, d>>]) : Forth(f, s, d, n, q)
      BY <1>3, <3>3, <3>4
    <3>6. \A q \in RangeOf(net'[<<d, s>>]) : Back(d, n, q)
      BY <1>3, <3>2, <3>3, <3>4
    <3> QED
      BY <1>2, <3>3, <3>4, <3>5, <3>6, OnlyNet DEF Now
  <2> QED
    BY <2>1, <2>2, <2>3
<1> QED
  BY <1>4, <1>5 DEF RetransmissionTimer, Resend, TimerFinds

LEMMA UsedChannel ==
    ASSUME NEW f, NEW s, NEW d, NEW n, Now(f, s, d, n),
           NEW a \in Hosts, NEW b \in Hosts, net[<<a, b>>] # <<>>
    PROVE  (a = s /\ b = d) \/ (a = d /\ b = s)
BY DEF Now, Running, Path, OnlyPath

LEMMA LoseFlow ==
    ASSUME NEW f, NEW s, NEW d, NEW n, Now(f, s, d, n),
           NEW a \in Hosts, NEW b \in Hosts, Lose(a, b)
    PROVE  Running(f, s, d, n)'
<1>1. /\ net[<<a, b>>] # <<>> /\ net' = Consumed(a, b)
      /\ UNCHANGED <<setup, state, done_transmission, progress, re_packet_map,
                     order_packet_map, normal, waiting, report, aborted>>
  BY DEF Lose
<1>2. a \in {s, d} /\ b \in {s, d}
  BY <1>1, UsedChannel
<1>3. /\ OnlyPath(net, s, d) /\ \A p \in RangeOf(net[<<s, d>>]) : Forth(f, s, d, n, p)
      /\ \A p \in RangeOf(net[<<d, s>>]) : Back(d, n, p)
  BY DEF Now, Running, Path
<1>4. /\ OnlyPath(net', s, d)
      /\ RangeOf(net'[<<s, d>>]) \subseteq RangeOf(net[<<s, d>>])
      /\ RangeOf(net'[<<d, s>>]) \subseteq RangeOf(net[<<d, s>>])
  BY <1>1, <1>2, <1>3, PathConsumed DEF Now
<1> QED
  BY <1>1, <1>3, <1>4, OnlyNet DEF Now

(* The program stops: nothing changes but what is written already.         *)
LEMMA AbortFlow ==
    ASSUME NEW f, NEW s, NEW d, NEW n, Now(f, s, d, n), NEW why, why # "no", Abort(why),
           RangeOf(output[d]) \subseteq RangeOf(output'[d])
    PROVE  Running(f, s, d, n)'
<1> USE DEF setup, progress
<1>1. UNCHANGED <<setup, state, done_transmission, progress, re_packet_map,
                  order_packet_map, normal, waiting, net, torn_down>> /\ aborted' # "no"
  BY DEF Abort
<1>2. Ends(f, s, d)' /\ Turns(s, d)' /\ Counters(s, d, n)' /\ Needed(f, s, d, n)'
  BY <1>1 DEF Now, Running, Ends, Turns, Counters, Whole, Needed
<1>3. Kept(f, s, d, n)'
  BY <1>1 DEF Now, Running, Kept, KeptAtSource, KeptAtDestination, Data, Whole, Ack
<1>4. Path(net, f, s, d, n)'
  BY <1>1 DEF Now, Running, Path, Forth, Back, Data, Whole, Ack
<1>5. Written(f, d, n)'
  BY <1>1 DEF Now, Running, Written, Whole, Holds
<1> QED
  BY <1>1, <1>2, <1>3, <1>4, <1>5 DEF Now, Running
(* The types of what the steps of a flow read.                             *)
LEMMA NowFacts ==
    ASSUME NEW f, NEW s, NEW d, NEW n, Now(f, s, d, n)
    PROVE  /\ f \in Flows /\ s \in Hosts /\ d \in Hosts /\ s # d /\ n \in Nat \ {0}
           /\ <<s, d>> # <<d, s>> /\ NoHost \notin Hosts /\ f.packets = n
           /\ sent_so_far[s] \in Nat /\ packet_expected[d] \in Nat \ {0}
           /\ destination[s] = d /\ destination[d] \in {NoHost, s}
           /\ sender[s] /\ ~sender[d] /\ file_holder[s] = f
           /\ FieldsOK /\ MapsOK /\ OutputOK
BY TheEnds DEF Now, TypeOK, FieldsOK, Running, Ends, OneFlow

\* p is a packet that arrives at b from a.
Arrives(a, b, p) ==
    /\ aborted = "no" /\ normal = {}
    /\ net[<<a, b>>] # <<>>
    /\ \E w \in Windows : p = Marked(Head(net[<<a, b>>]), w)

LEMMA Arrival ==
    ASSUME NEW f, NEW s, NEW d, NEW n, Now(f, s, d, n),
           NEW a \in Hosts, NEW b \in Hosts, NEW p, Arrives(a, b, p)
    PROVE  /\ p \in Packet /\ Path(Consumed(a, b), f, s, d, n)
           /\ \/ a = s /\ b = d /\ Forth(f, s, d, n, p)
              \/ a = d /\ b = s /\ Back(d, n, p)
           /\ a = s /\ p.kind # "SYN" => NoSyn(Consumed(a, b)[<<s, d>>])
<1> DEFINE h == Head(net[<<a, b>>])
<1>1. net[<<a, b>>] # <<>> /\ OneFlow(f, s, d, n) /\ Path(net, f, s, d, n) /\ NetOK
  BY DEF Arrives, Now, Running, TypeOK
<1>2. (a = s /\ b = d) \/ (a = d /\ b = s)
  BY <1>1, UsedChannel
<1>3. OnlyPath(net, s, d) /\ a \in {s, d} /\ b \in {s, d}
  BY <1>1, <1>2 DEF Path
<1>4. /\ OnlyPath(Consumed(a, b), s, d)
      /\ h \in RangeOf(net[<<a, b>>])
      /\ RangeOf(Consumed(a, b)[<<s, d>>]) \subseteq RangeOf(net[<<s, d>>])
      /\ RangeOf(Consumed(a, b)[<<d, s>>]) \subseteq RangeOf(net[<<d, s>>])
      /\ a = s /\ h.kind # "SYN" => NoSyn(Consumed(a, b)[<<s, d>>])
  BY <1>1, <1>3, PathConsumed, Zenon
<1>5. h \in Packet
  BY <1>1, ConsumedTyped
<1>6. Path(Consumed(a, b), f, s, d, n)
  BY <1>1, <1>4 DEF Path
<1>7. \/ a = s /\ b = d /\ Forth(f, s, d, n, h)
      \/ a = d /\ b = s /\ Back(d, n, h)
  BY <1>1, <1>2, <1>4 DEF Path
<1> HIDE DEF h
<1>8. PICK w \in Windows : p = Marked(h, w)
  BY DEF Arrives, h
<1>9. p \in Packet
  BY <1>5, <1>8, MarkedIsPacket
<1>10. p.kind = h.kind /\ p.id = h.id /\ p.last = h.last /\ p.data = h.data
  BY <1>5, <1>8 DEF Marked, Packet
<1>11. /\ Forth(f, s, d, n, h) => Forth(f, s, d, n, p)
       /\ Back(d, n, h) => Back(d, n, p)
  BY <1>10 DEF Forth, Data, Back, Ack
<1> QED
  BY <1>4, <1>6, <1>7, <1>9, <1>10, <1>11

(* Copies are deleted, none that is still needed.                          *)
LEMMA ForgetFlow ==
    ASSUME NEW f, NEW s, NEW d, NEW n, Now(f, s, d, n), NEW gone, Forget(gone),
           UNCHANGED <<sent_so_far, packet_expected>>,
           \A c \in 1 .. n : c \in gone[s] => c < packet_expected[d]
    PROVE  /\ Needed(f, s, d, n)'
           /\ \A h \in Hosts : \A p \in re_packet_map'[h] :
                 p \in re_packet_map[h] /\ p.id \notin gone[h]
<1>1. \A h \in Hosts : re_packet_map'[h] = {p \in re_packet_map[h] : p.id \notin gone[h]}
  BY DEF Forget, Erase
<1>2. Needed(f, s, d, n)
  BY DEF Now, Running
<1> QED
  BY <1>1, <1>2, NowFacts DEF Needed

LEMMA ReceiveSynFlow ==
    ASSUME NEW f, NEW s, NEW d, NEW n, Now(f, s, d, n), NEW a \in Hosts, NEW b \in Hosts,
           NEW p, Arrives(a, b, p), ReceiveSyn(a, b, p), UNCHANGED waiting
    PROVE  Running(f, s, d, n)'
<1> USE DEF progress, report
<1>0. /\ p \in Packet /\ Path(Consumed(a, b), f, s, d, n)
      /\ \/ a = s /\ b = d /\ Forth(f, s, d, n, p)
         \/ a = d /\ b = s /\ Back(d, n, p)
      /\ a = s /\ p.kind # "SYN" => NoSyn(Consumed(a, b)[<<s, d>>])
  BY Arrival, Zenon
<1>1. a = s /\ b = d /\ state[d] \in {"SYN", "sending"}
  BY <1>0 DEF ReceiveSyn, Forth, Data, Back, Ack
<1>2. /\ destination' = [destination EXCEPT ![d] = s] /\ normal' = {d}
      /\ net' = Consumed(a, b)
      /\ UNCHANGED <<sender, file_holder, state, done_transmission, progress,
                     re_packet_map, order_packet_map, report, aborted>>
  BY <1>1 DEF ReceiveSyn, SetNormalCookie
<1>3. Ends(f, s, d)'
  BY <1>2, NowFacts DEF FieldsOK, Ends
<1>4. Turns(s, d)' /\ Counters(s, d, n)' /\ Needed(f, s, d, n)' /\ Written(f, d, n)'
  BY <1>1, <1>2, NowFacts DEF Now, Running, Turns, Counters, Whole, Needed, Written
<1>5. Path(net, f, s, d, n)'
  BY <1>0, <1>2 DEF Path, Forth, Back, Data, Ack, Whole
<1>6. Kept(f, s, d, n)'
  BY <1>2 DEF Now, Running, Kept, KeptAtSource, KeptAtDestination, Data, Ack, Whole
<1> QED
  BY <1>3, <1>4, <1>5, <1>6 DEF Now, Running

LEMMA ReceiveSynAckFlow ==
    ASSUME NEW f, NEW s, NEW d, NEW n, Now(f, s, d, n), NEW a \in Hosts, NEW b \in Hosts,
           NEW p, Arrives(a, b, p), ReceiveSynAck(a, b, p), UNCHANGED waiting
    PROVE  Running(f, s, d, n)'
<1> USE DEF progress, report, setup
<1> DEFINE gone == AtBoth(s, {0}, d, {0})
<1>0. s \in Hosts /\ d \in Hosts /\ s # d /\ destination[s] = d /\ FieldsOK
  BY NowFacts
<1>00. /\ Path(Consumed(a, b), f, s, d, n)
      /\ \/ a = s /\ b = d /\ Forth(f, s, d, n, p)
         \/ a = d /\ b = s /\ Back(d, n, p)
  BY Arrival, Zenon
<1>1. a = d /\ b = s /\ p.id = 0
  BY <1>00 DEF ReceiveSynAck, Forth, Data, Back, Ack
<1>2. /\ Forget(gone) /\ normal' = {s} /\ net' = Consumed(a, b)
      /\ state' = [state EXCEPT ![s] = "sending", ![d] = "sending"]
      /\ UNCHANGED <<setup, done_transmission, progress, order_packet_map, report, aborted>>
  BY <1>0, <1>1 DEF ReceiveSynAck, SetNormalCookie
<1>3. state'[s] = "sending" /\ state'[d] = "sending"
  BY <1>0, <1>2 DEF FieldsOK
<1>4. gone[s] = {0} /\ gone[d] = {0} /\ \A h \in Hosts : gone[h] \subseteq {0}
  BY <1>0 DEF AtBoth
<1> HIDE DEF gone
<1>5. \A c \in 1 .. n : c \in gone[s] => c < packet_expected[d]
  BY <1>4, NowFacts
<1>6. /\ Needed(f, s, d, n)'
      /\ \A h \in Hosts : \A q \in re_packet_map'[h] :
            q \in re_packet_map[h] /\ q.id \notin gone[h]
  BY <1>2, <1>5, ForgetFlow
<1>7. Ends(f, s, d)' /\ Turns(s, d)' /\ Counters(s, d, n)' /\ Written(f, d, n)'
  BY <1>0, <1>2, <1>3 DEF Now, Running, Ends, Turns, Counters, Whole, Written
<1>8. Path(net, f, s, d, n)'
  BY <1>00, <1>2, <1>3 DEF Path, Forth, Back, Data, Ack, Whole
<1>9. Kept(f, s, d, n)'
  <2>1. /\ \A q \in re_packet_map'[s] : KeptAtSource(f, s, d, n, q)' /\ q.destination = d
        /\ \A q \in re_packet_map'[d] : /\ KeptAtDestination(s, d, n, q)'
                                        /\ q.destination \in {NoHost, s}
    BY <1>0, <1>2, <1>4, <1>6
       DEF Now, Running, Kept, KeptAtSource, KeptAtDestination, Data, Ack, Whole
  <2>2. \A h \in Hosts \ {s, d} : re_packet_map'[h] = {}
    BY <1>6 DEF Now, Running, Kept
  <2>3. \A q \in order_packet_map'[d] : Data(f, s, n, q)'
    BY <1>2 DEF Now, Running, Kept, Data
  <2> QED
    BY <2>1, <2>2, <2>3 DEF Kept
<1> QED
  BY <1>6, <1>7, <1>8, <1>9 DEF Now, Running
LEMMA ReceiveAheadFlow ==
    ASSUME NEW f, NEW s, NEW d, NEW n, Now(f, s, d, n), NEW a \in Hosts, NEW b \in Hosts,
           NEW p, Arrives(a, b, p), ReceiveAhead(a, b, p), UNCHANGED waiting
    PROVE  Running(f, s, d, n)'
<1> USE DEF progress, report, setup
<1>0. /\ p \in Packet /\ Path(Consumed(a, b), f, s, d, n)
      /\ \/ a = s /\ b = d /\ Forth(f, s, d, n, p)
         \/ a = d /\ b = s /\ Back(d, n, p)
      /\ a = s /\ p.kind # "SYN" => NoSyn(Consumed(a, b)[<<s, d>>])
  BY Arrival, Zenon
<1>1. a = s /\ b = d /\ Data(f, s, n, p) /\ NoSyn(Consumed(a, b)[<<s, d>>])
  BY <1>0 DEF ReceiveAhead, Forth, Back, Ack
<1>2. /\ state' = [state EXCEPT ![d] = "sending_ack_listening"]
      /\ order_packet_map' = [order_packet_map EXCEPT ![d] = Insert(@, p)]
      /\ net' = Consumed(a, b)
      /\ UNCHANGED <<setup, done_transmission, progress, re_packet_map, normal, report,
                     aborted>>
  BY <1>1 DEF ReceiveAhead
<1>3. state'[d] = "sending_ack_listening" /\ state'[s] = state[s]
  BY <1>2, NowFacts DEF FieldsOK
<1>4. state[s] # "SYN" /\ normal' = {}
  <2>1. sent_so_far[s] # 0
    BY <1>1, NowFacts DEF Data
  <2> QED
    BY <1>2, <2>1 DEF Now, Running, Counters, Arrives
<1>5. Ends(f, s, d)' /\ Turns(s, d)' /\ Counters(s, d, n)' /\ Needed(f, s, d, n)'
        /\ Written(f, d, n)'
  BY <1>2, <1>3, <1>4
     DEF Now, Running, Ends, Turns, Counters, Whole, Needed, Written
<1>6. Path(net, f, s, d, n)'
  <2>1. \A q \in RangeOf(net'[<<s, d>>]) : Forth(f, s, d, n, q)'
    BY <1>0, <1>1, <1>2 DEF Path, Forth, Data, Whole, NoSyn
  <2> QED
    BY <1>0, <1>2, <2>1 DEF Path, Back, Ack, Whole
<1>7. Kept(f, s, d, n)'
  <2>1. \A q \in order_packet_map'[d] : q \in order_packet_map[d] \/ q = p
    BY <1>2, NowFacts DEF MapsOK, Insert
  <2>2. \A q \in order_packet_map'[d] : Data(f, s, n, q)'
    BY <1>1, <1>2, <2>1 DEF Now, Running, Kept, Data
  <2> QED
    BY <1>2, <1>3, <2>2
       DEF Now, Running, Kept, KeptAtSource, KeptAtDestination, Data, Ack, Whole
<1> QED
  BY <1>5, <1>6, <1>7 DEF Now, Running

LEMMA ReceiveRepeatedFlow ==
    ASSUME NEW f, NEW s, NEW d, NEW n, Now(f, s, d, n), NEW a \in Hosts, NEW b \in Hosts,
           NEW p, Arrives(a, b, p), ReceiveRepeated(a, b, p), UNCHANGED waiting
    PROVE  Running(f, s, d, n)'
<1> USE DEF progress, report, setup
<1> DEFINE gone == At(destination[d], {p.id})
<1>0. /\ p \in Packet /\ Path(Consumed(a, b), f, s, d, n)
      /\ \/ a = s /\ b = d /\ Forth(f, s, d, n, p)
         \/ a = d /\ b = s /\ Back(d, n, p)
      /\ a = s /\ p.kind # "SYN" => NoSyn(Consumed(a, b)[<<s, d>>])
  BY Arrival, Zenon
<1>1. a = s /\ b = d /\ Data(f, s, n, p) /\ NoSyn(Consumed(a, b)[<<s, d>>])
  BY <1>0 DEF ReceiveRepeated, Forth, Back, Ack
<1>2. /\ state' = [state EXCEPT ![d] = "sending_ack_listening"]
      /\ Forget(gone) /\ p.id < packet_expected[d]
      /\ net' = Consumed(a, b)
      /\ UNCHANGED <<setup, done_transmission, progress, order_packet_map, normal, report,
                     aborted>>
  BY <1>1 DEF ReceiveRepeated
<1>3. state'[d] = "sending_ack_listening" /\ state'[s] = state[s]
  BY <1>2, NowFacts DEF FieldsOK
<1>4. state[s] # "SYN" /\ normal' = {}
  <2>1. sent_so_far[s] # 0
    BY <1>1, NowFacts DEF Data
  <2> QED
    BY <1>2, <2>1 DEF Now, Running, Counters, Arrives
<1>5. Ends(f, s, d)' /\ Turns(s, d)' /\ Counters(s, d, n)' /\ Written(f, d, n)'
  BY <1>2, <1>3, <1>4 DEF Now, Running, Ends, Turns, Counters, Whole, Written
<1>6. Path(net, f, s, d, n)'
  <2>1. \A q \in RangeOf(net'[<<s, d>>]) : Forth(f, s, d, n, q)'
    BY <1>0, <1>1, <1>2 DEF Path, Forth, Data, Whole, NoSyn
  <2> QED
    BY <1>0, <1>2, <2>1 DEF Path, Back, Ack, Whole
<1>7. \A c \in 1 .. n : c \in gone[s] => c < packet_expected[d]
  BY <1>2, NowFacts DEF At
<1> HIDE DEF gone
<1>8. /\ Needed(f, s, d, n)'
      /\ \A h \in Hosts : \A q \in re_packet_map'[h] :
            q \in re_packet_map[h] /\ q.id \notin gone[h]
  BY <1>2, <1>7, ForgetFlow
<1>9. Kept(f, s, d, n)'
  <2>1. /\ \A q \in re_packet_map'[s] : KeptAtSource(f, s, d, n, q)' /\ q.destination = d
        /\ \A q \in re_packet_map'[d] : /\ KeptAtDestination(s, d, n, q)'
                                        /\ q.destination \in {NoHost, s}
    BY <1>2, <1>3, <1>8, NowFacts
       DEF Now, Running, Kept, KeptAtSource, KeptAtDestination, Data, Ack, Whole
  <2>2. \A h \in Hosts \ {s, d} : re_packet_map'[h] = {}
    BY <1>8 DEF Now, Running, Kept
  <2>3. \A q \in order_packet_map'[d] : Data(f, s, n, q)'
    BY <1>2 DEF Now, Running, Kept, Data
  <2> QED
    BY <2>1, <2>2, <2>3 DEF Kept
<1> QED
  BY <1>5, <1>6, <1>8, <1>9 DEF Now, Running

LEMMA ReceiveAckFlow ==
    ASSUME NEW f, NEW s, NEW d, NEW n, Now(f, s, d, n), NEW a \in Hosts, NEW b \in Hosts,
           NEW p, Arrives(a, b, p), ReceiveAck(a, b, p), UNCHANGED waiting
    PROVE  Running(f, s, d, n)'
<1> USE DEF report, setup
<1> DEFINE gone == AtBoth(s, AckedIds(s, p.id), d, {p.id})
<1>0. /\ p \in Packet /\ Path(Consumed(a, b), f, s, d, n)
      /\ \/ a = s /\ b = d /\ Forth(f, s, d, n, p)
         \/ a = d /\ b = s /\ Back(d, n, p)
      /\ a = s /\ p.kind # "SYN" => NoSyn(Consumed(a, b)[<<s, d>>])
  BY Arrival, Zenon
<1>1. a = d /\ b = s /\ Ack(d, n, p)
  BY <1>0 DEF ReceiveAck, Forth, Data, Back
<1>2. /\ Forget(gone) /\ normal' = {s} /\ net' = Consumed(a, b)
      /\ state' = [state EXCEPT ![s] = IF p.last THEN "FIN" ELSE "sending"]
      /\ done_transmission' = [done_transmission EXCEPT ![s] = p.last \/ @]
      /\ UNCHANGED <<setup, sent_so_far, packet_expected, order_packet_map, report, aborted>>
  BY <1>1, NowFacts DEF ReceiveAck, SetNormalCookie, AfterAck
<1>3. /\ state'[s] \in {"FIN", "sending"} /\ state'[d] = state[d]
      /\ state'[s] = "FIN" => p.last
      /\ done_transmission'[s] = (p.last \/ done_transmission[s])
  BY <1>2, NowFacts DEF FieldsOK
<1>4. state[s] # "SYN" /\ state[d] # "SYN"
  BY <1>1, NowFacts DEF Now, Running, Counters, Turns, Ack
<1>5. Ends(f, s, d)' /\ Turns(s, d)' /\ Written(f, d, n)'
  BY <1>2, <1>3, <1>4 DEF Now, Running, Ends, Turns, Whole, Written
<1>6. Counters(s, d, n)'
  <2>1. /\ sent_so_far'[s] = sent_so_far[s] /\ packet_expected'[d] = packet_expected[d]
        /\ sent_so_far[s] \in Nat /\ packet_expected[d] \in Nat /\ n \in Nat
    BY <1>2, NowFacts
  <2>2. p.last => packet_expected[d] = n + 1
    BY <1>1 DEF Ack, Whole
  <2>3. Counters(s, d, n)
    BY DEF Now, Running
  <2>4. done_transmission'[s] <=> sent_so_far[s] >= n
    <3>1. p.last => sent_so_far[s] >= n
      BY <2>1, <2>2, <2>3 DEF Counters
    <3>2. done_transmission[s] <=> sent_so_far[s] >= n
      BY <2>3 DEF Counters
    <3>3. done_transmission'[s] = (p.last \/ done_transmission[s])
      BY <1>3
    <3> QED
      BY <3>1, <3>2, <3>3, Zenon
  <2> QED
    BY <1>3, <2>1, <2>2, <2>3, <2>4 DEF Counters, Whole
<1>7. Path(net, f, s, d, n)'
  BY <1>0, <1>2, <1>3 DEF Path, Forth, Back, Data, Ack, Whole
<1>8. \A c \in 1 .. n : c \in gone[s] => c < packet_expected[d]
  <2>1. s \in Hosts /\ s # d /\ lastest_ack_rec[s] \in Int
    BY NowFacts DEF FieldsOK
  <2>2. \A c : c \in gone[s] => c \in AckedIds(s, p.id)
    BY <2>1 DEF AtBoth
  <2>3. p.id \in Nat /\ p.id <= packet_expected[d]
    BY <1>1, NowFacts DEF Ack
  <2> QED
    BY <2>1, <2>2, <2>3, NowFacts DEF AckedIds
<1> HIDE DEF gone
<1>9. /\ Needed(f, s, d, n)'
      /\ \A h \in Hosts : \A q \in re_packet_map'[h] :
            q \in re_packet_map[h] /\ q.id \notin gone[h]
  BY <1>2, <1>8, ForgetFlow
<1>10. Kept(f, s, d, n)'
  <2>1. /\ \A q \in re_packet_map'[s] : KeptAtSource(f, s, d, n, q)' /\ q.destination = d
        /\ \A q \in re_packet_map'[d] : /\ KeptAtDestination(s, d, n, q)'
                                        /\ q.destination \in {NoHost, s}
    BY <1>2, <1>4, <1>9, NowFacts
       DEF Now, Running, Kept, KeptAtSource, KeptAtDestination, Data, Ack, Whole
  <2>2. \A h \in Hosts \ {s, d} : re_packet_map'[h] = {}
    BY <1>9 DEF Now, Running, Kept
  <2>3. \A q \in order_packet_map'[d] : Data(f, s, n, q)'
    BY <1>2 DEF Now, Running, Kept, Data
  <2> QED
    BY <2>1, <2>2, <2>3 DEF Kept
<1> QED
  BY <1>5, <1>6, <1>7, <1>9, <1>10 DEF Now, Running
LEMMA ReceiveFinFlow ==
    ASSUME NEW f, NEW s, NEW d, NEW n, Now(f, s, d, n), NEW a \in Hosts, NEW b \in Hosts,
           NEW p, Arrives(a, b, p), ReceiveFin(a, b, p), UNCHANGED waiting
    PROVE  Running(f, s, d, n)'
<1> USE DEF progress, report, setup
<1> DEFINE peer == destination[d]
           kept == [re_packet_map EXCEPT ![peer] = Erase(@, {p.id})]
           answer == Pkt(peer, "FIN_ACK", p.id + 1, TRUE, temp_cwnd_host[d], NoData)
<1>0. /\ p \in Packet /\ Path(Consumed(a, b), f, s, d, n)
      /\ \/ a = s /\ b = d /\ Forth(f, s, d, n, p)
         \/ a = d /\ b = s /\ Back(d, n, p)
      /\ a = s /\ p.kind # "SYN" => NoSyn(Consumed(a, b)[<<s, d>>])
  BY Arrival, Zenon
<1>1. a = s /\ b = d /\ p.id > n + 1 /\ Whole(d, n)
  BY <1>0 DEF ReceiveFin, Forth, Data, Back, Ack
<1>2. /\ re_packet_map' = [kept EXCEPT ![d] = Insert(@, answer)]
      /\ net' = Sent(Consumed(a, b), d, answer)
      /\ UNCHANGED <<setup, state, done_transmission, progress, order_packet_map, normal,
                     report, aborted>>
  BY <1>1 DEF ReceiveFin
<1>3. /\ answer \in Packet /\ answer.destination = peer /\ answer.id > n + 2
      /\ answer.kind = "FIN_ACK" /\ p.id \in Nat
  <2>1. /\ peer \in Hosts \cup {NoHost} /\ p.id + 1 \in Nat /\ p.id \in Nat
        /\ temp_cwnd_host[d] \in UShorts
    BY <1>0, NowFacts DEF FieldsOK, Packet
  <2>2. answer \in Packet
    BY <2>1, PktTyped DEF Kinds
  <2> QED
    BY <1>1, <2>1, <2>2, NowFacts DEF Pkt
<1> HIDE DEF answer
<1>4. /\ \A q \in re_packet_map'[s] : q \in re_packet_map[s]
      /\ \A q \in re_packet_map[s] : q.id # p.id => q \in re_packet_map'[s]
      /\ \A q \in re_packet_map'[d] : q \in re_packet_map[d] \/ q = answer
      /\ \A h \in Hosts \ {s, d} : re_packet_map'[h] = re_packet_map[h]
  <2>1. /\ kept \in [Hosts -> SUBSET Packet] /\ kept[d] = re_packet_map[d]
        /\ \A h \in Hosts \ {s} : kept[h] = re_packet_map[h]
        /\ \A q \in kept[s] : q \in re_packet_map[s]
        /\ \A q \in re_packet_map[s] : q.id # p.id => q \in kept[s]
    <3>1. CASE peer = s
      BY <3>1, NowFacts DEF MapsOK, Erase
    <3>2. CASE peer = NoHost
      <4>1. kept = re_packet_map
        <5>1. NoHost \notin Hosts /\ re_packet_map \in [Hosts -> SUBSET Packet]
          BY NowFacts DEF MapsOK
        <5>2. \A v : [re_packet_map EXCEPT ![NoHost] = v] = re_packet_map
          BY <5>1
        <5> QED
          BY <3>2, <5>2
      <4> QED
        BY <4>1, NowFacts DEF MapsOK
    <3>3. peer = s \/ peer = NoHost
      BY NowFacts
    <3> HIDE DEF kept, peer
    <3> QED
      BY <3>1, <3>2, <3>3, Zenon
  <2> HIDE DEF kept
  <2>2. \A q \in Insert(kept[d], answer) : q \in kept[d] \/ q = answer
    BY DEF Insert
  <2> QED
    BY <1>2, <2>1, <2>2, NowFacts
<1> HIDE DEF kept
<1>5. Ends(f, s, d)' /\ Turns(s, d)' /\ Counters(s, d, n)' /\ Written(f, d, n)'
  BY <1>2 DEF Now, Running, Ends, Turns, Counters, Whole, Written
<1>6. Needed(f, s, d, n)'
  <2>1. Needed(f, s, d, n) /\ sent_so_far' = sent_so_far /\ packet_expected' = packet_expected
    BY <1>2 DEF Now, Running
  <2>2. \A c \in 1 .. n : c # p.id
    BY <1>1, NowFacts
  <2> QED
    BY <1>4, <2>1, <2>2 DEF Needed
<1>7. KeptAtDestination(s, d, n, answer) /\ Back(d, n, answer)
  BY <1>1, <1>3 DEF KeptAtDestination, Back
<1>8. Kept(f, s, d, n)'
  BY <1>2, <1>3, <1>4, <1>7, NowFacts
     DEF Now, Running, Kept, KeptAtSource, KeptAtDestination, Data, Ack, Whole
<1>9. Path(net, f, s, d, n)'
  <2> DEFINE m == Consumed(a, b)
  <2>1. OneFlow(f, s, d, n) /\ OnlyPath(m, s, d) /\ answer.destination \in {NoHost, s}
    BY <1>0, <1>3, NowFacts DEF Now, Path
  <2>2. /\ OnlyPath(Sent(m, d, answer), s, d)
        /\ Sent(m, d, answer)[<<s, d>>] = m[<<s, d>>]
        /\ RangeOf(Sent(m, d, answer)[<<d, s>>]) \subseteq RangeOf(m[<<d, s>>]) \cup {answer}
    BY <1>3, <2>1, PathBack
  <2> HIDE DEF m
  <2>3. /\ OnlyPath(net', s, d)
        /\ \A q \in RangeOf(net'[<<s, d>>]) : Forth(f, s, d, n, q)
        /\ \A q \in RangeOf(net'[<<d, s>>]) : Back(d, n, q)
    BY <1>0, <1>2, <1>7, <2>2 DEF Path, m
  <2> QED
    BY <1>2, <2>3 DEF Path, Forth, Back, Data, Ack, Whole
<1> QED
  BY <1>5, <1>6, <1>8, <1>9 DEF Now, Running

LEMMA ReceiveFinAckFlow ==
    ASSUME NEW f, NEW s, NEW d, NEW n, Now(f, s, d, n), NEW a \in Hosts, NEW b \in Hosts,
           NEW p, Arrives(a, b, p), ReceiveFinAck(a, b, p), UNCHANGED waiting
    PROVE  Running(f, s, d, n)'
<1> USE DEF progress, setup
<1>0. /\ p \in Packet /\ Path(Consumed(a, b), f, s, d, n)
      /\ \/ a = s /\ b = d /\ Forth(f, s, d, n, p)
         \/ a = d /\ b = s /\ Back(d, n, p)
      /\ a = s /\ p.kind # "SYN" => NoSyn(Consumed(a, b)[<<s, d>>])
  BY Arrival, Zenon
<1>1. a = d /\ b = s /\ Whole(d, n)
  BY <1>0 DEF ReceiveFinAck, Forth, Data, Back, Ack
<1>2. /\ re_packet_map' = [re_packet_map EXCEPT ![d] = Erase(@, {p.id})]
      /\ net' = Consumed(a, b)
      /\ UNCHANGED <<setup, state, done_transmission, progress, order_packet_map, normal,
                     output, aborted>>
  <2>1. ReceiveFinAck(d, s, p) /\ destination[s] = d
    BY <1>1, NowFacts
  <2> QED
    BY <1>1, <2>1 DEF ReceiveFinAck
<1>3. /\ re_packet_map'[s] = re_packet_map[s]
      /\ \A q \in re_packet_map'[d] : q \in re_packet_map[d]
      /\ \A h \in Hosts \ {s, d} : re_packet_map'[h] = re_packet_map[h]
  BY <1>2, NowFacts DEF MapsOK, Erase
<1>4. Ends(f, s, d)' /\ Turns(s, d)' /\ Counters(s, d, n)' /\ Written(f, d, n)'
        /\ Needed(f, s, d, n)'
  BY <1>1, <1>2, <1>3 DEF Now, Running, Ends, Turns, Counters, Whole, Written, Needed
<1>5. Path(net, f, s, d, n)'
  BY <1>0, <1>2 DEF Path, Forth, Back, Data, Ack, Whole
<1>6. Kept(f, s, d, n)'
  BY <1>2, <1>3, NowFacts
     DEF Now, Running, Kept, KeptAtSource, KeptAtDestination, Data, Ack, Whole
<1> QED
  BY <1>4, <1>5, <1>6 DEF Now, Running

(* Nothing else is ever in flight.                                         *)
LEMMA ReceiveOtherFlow ==
    ASSUME NEW f, NEW s, NEW d, NEW n, Now(f, s, d, n), NEW a \in Hosts, NEW b \in Hosts,
           NEW p, Arrives(a, b, p)
    PROVE  ~ReceiveOther(a, b, p)
<1>1. \/ a = s /\ b = d /\ Forth(f, s, d, n, p)
      \/ a = d /\ b = s /\ Back(d, n, p)
  BY Arrival, Zenon
<1> QED
  BY <1>1 DEF ReceiveOther, Forth, Data, Back, Ack
(* A packet in order and the k ones it releases continue the file.         *)
LEMMA InOrderShape ==
    ASSUME NEW f, NEW s, NEW d, NEW n, Now(f, s, d, n),
           NEW p \in Packet, Data(f, s, n, p), p.id = packet_expected[d],
           NEW k \in IF p.last THEN {0} ELSE Drains(d, p.id + 1), NEW w \in UShorts
    PROVE  LET r == InOrder(d, p, k, w)
           IN  /\ k \in Nat /\ r.expected = packet_expected[d] + 1 + k
               /\ r.expected <= n + 1 /\ r.expected <= sent_so_far[s] + 1
               /\ r.last \in BOOLEAN /\ (r.last => r.expected = n + 1)
               /\ r.chunks \in Seq({NoData} \cup (Flows \X Nat))
               /\ Continues(f, r.chunks, packet_expected[d], k)
               /\ r.ack \in Packet /\ r.ack.destination = destination[d]
               /\ r.ack.kind = "ACK" /\ r.ack.id = r.expected /\ r.ack.last = r.last
<1> DEFINE r == InOrder(d, p, k, w)
           next == packet_expected[d] + 1
           last == p.last \/ \E q \in Drained(d, next, k) : q.last
           tail == [i \in 1 .. k |-> Chunk(d, next + i - 1)]
<1>1. /\ k \in Nat /\ r.expected \in Nat \ {0} /\ r.last \in BOOLEAN
      /\ r.chunks \in Seq({NoData} \cup (Flows \X Nat)) /\ r.ack \in Packet
  BY InOrderTyped, NowFacts DEF Now
<1>2. /\ packet_expected[d] \in Nat \ {0} /\ sent_so_far[s] \in Nat /\ n \in Nat
      /\ d \in Hosts /\ next = p.id + 1 /\ next \in Nat
  BY NowFacts
<1>21. k \in Nat /\ packet_expected[d] \in Nat /\ next = packet_expected[d] + 1
        /\ n \in Nat /\ next \in Nat
  BY <1>1, <1>2
<1> HIDE DEF next, r
<1>3. k = 0 \/ (~p.last /\ Walk(d, next, k))
  <2>1. CASE p.last
    BY <2>1
  <2>2. CASE ~p.last
    <3> DEFINE walks == {j \in 0 .. Cardinality(order_packet_map[d]) : Walk(d, next, j)}
    <3>1. k \in Drains(d, next)
      BY <1>2, <2>2
    <3>2. k \in (IF walks = {0} THEN {0} ELSE walks \ {0})
      BY <3>1 DEF Drains
    <3>3. \A j \in walks : Walk(d, next, j)
      OBVIOUS
    <3> QED
      BY <2>2, <3>2, <3>3
  <2> QED
    BY <2>1, <2>2
<1>4. \A id \in Nat : \A q \in Buffered(d, id) :
        q.id = id /\ id <= n /\ id <= sent_so_far[s] /\ q.data = <<f, id>> /\ (q.last <=> id = n)
  BY DEF Now, Running, Kept, Buffered, Data
<1>5. \A i \in 0 .. k - 1 : next + i \in Nat /\ Buffered(d, next + i) # {}
  BY <1>1, <1>2, <1>3 DEF Walk
<1>6. next + k <= n + 1 /\ next + k <= sent_so_far[s] + 1
  <2>1. CASE k = 0
    BY <1>2, <2>1 DEF Data
  <2>2. CASE k # 0
    <3>1. k - 1 \in 0 .. k - 1 /\ next + (k - 1) \in Nat
      BY <1>1, <1>2, <2>2
    <3>2. next + (k - 1) <= n /\ next + (k - 1) <= sent_so_far[s]
      BY <1>4, <1>5, <3>1
    <3> QED
      BY <1>1, <1>2, <3>2
  <2> QED
    BY <2>1, <2>2
<1>7. last => next + k = n + 1
  <2>1. ASSUME p.last PROVE next + k = n + 1
    BY <1>2, <1>3, <2>1 DEF Data
  <2>2. ASSUME NEW q \in Drained(d, next, k), q.last PROVE next + k = n + 1
    <3>1. PICK i \in 0 .. k - 1 : q \in Buffered(d, next + i)
      BY <2>2 DEF Drained
    <3>2. next + i = n
      BY <1>4, <1>5, <2>2, <3>1
    <3> QED
      BY <1>21, <1>6, <3>2
  <2> QED
    BY <2>1, <2>2 DEF last
<1>8. \A i \in 1 .. k : Chunk(d, next + i - 1) = <<f, next + i - 1>>
  <2> TAKE i \in 1 .. k
  <2> DEFINE id == next + i - 1
  <2>1. i - 1 \in 0 .. k - 1 /\ next + (i - 1) = id
    BY <1>1, <1>2
  <2>2. id \in Nat /\ Buffered(d, id) # {}
    BY <1>5, <2>1
  <2> HIDE DEF id
  <2>3. (CHOOSE q \in Buffered(d, id) : TRUE) \in Buffered(d, id)
    BY <2>2
  <2>4. Chunk(d, id) = <<f, id>>
    BY <1>4, <2>2, <2>3 DEF Chunk
  <2> QED
    BY <2>4 DEF id
<1>9. r = [expected |-> next + k, drained |-> Drained(d, next, k), last |-> last,
           chunks |-> <<p.data>> \o tail,
           ack |-> Pkt(destination[d], "ACK", next + k, last, w, NoData)]
  BY DEF InOrder, r, next
<1>10. Continues(f, <<p.data>> \o tail, packet_expected[d], k)
  <2>1. \A i \in 1 .. k : tail[i] = <<f, next + i - 1>>
    BY <1>8
  <2>2. Len(tail) = k /\ DOMAIN tail = 1 .. k /\ tail \in Seq({<<f, id>> : id \in Nat})
    <3>1. \A i \in 1 .. k : next + i - 1 \in Nat
      BY <1>1, <1>2
    <3>2. tail \in [1 .. k -> {<<f, id>> : id \in Nat}]
      BY <2>1, <3>1
    <3> HIDE DEF tail
    <3> QED
      BY <1>1, <3>2
  <2> HIDE DEF tail
  <2>3. p.data = <<f, packet_expected[d]>>
    BY DEF Data
  <2>4. /\ Len(<<p.data>> \o tail) = k + 1 /\ (<<p.data>> \o tail)[1] = p.data
        /\ \A i \in 1 .. k : (<<p.data>> \o tail)[i + 1] = tail[i]
    BY <1>1, <2>2, <2>3
  <2>5. \A i \in 1 .. k + 1 : i = 1 \/ (i - 1 \in 1 .. k /\ (i - 1) + 1 = i)
    BY <1>1
  <2>6. \A i \in 1 .. k + 1 : i # 1 =>
           (<<p.data>> \o tail)[i] = <<f, next + (i - 1) - 1>>
    BY <2>1, <2>4, <2>5
  <2>7. \A i \in 1 .. k + 1 : next + (i - 1) - 1 = packet_expected[d] + i - 1
    BY <1>21
  <2>8. packet_expected[d] + 1 - 1 = packet_expected[d]
    BY <1>2
  <2> QED
    BY <2>3, <2>4, <2>6, <2>7, <2>8 DEF Continues
<1> HIDE DEF tail, last, r
<1>11. /\ r.expected = next + k /\ r.last = last /\ r.chunks = <<p.data>> \o tail
       /\ r.ack = Pkt(destination[d], "ACK", next + k, last, w, NoData)
  BY <1>9
<1>12. /\ r.ack.destination = destination[d] /\ r.ack.kind = "ACK"
       /\ r.ack.id = r.expected /\ r.ack.last = r.last
  BY <1>11 DEF Pkt
<1> QED
  BY <1>1, <1>21, <1>6, <1>7, <1>10, <1>11, <1>12 DEF r
Chunks == {NoData} \cup (Flows \X Nat)

(* The file goes on after its first e - 1 packets.                         *)
LEMMA FileGrows ==
    ASSUME NEW f, NEW q \in Seq(Chunks), NEW c \in Seq(Chunks),
           NEW e \in Nat, e >= 1, NEW k \in Nat, Continues(f, c, e, k)
    PROVE  /\ q = File(f, e - 1) => q \o c = File(f, e + k)
           /\ Holds(f, q, e - 1) => Holds(f, q \o c, e + k)
           /\ RangeOf(q) \subseteq RangeOf(q \o c)
<1>0. Len(c) = k + 1 /\ \A i \in 1 .. k + 1 : c[i] = <<f, e + i - 1>>
  BY DEF Continues
<1>1. RangeOf(q \o c) = RangeOf(q) \cup RangeOf(c)
  BY ConcatShape
<1>2. \A i \in 1 .. e + k : \/ i \in 1 .. e - 1
                            \/ i - e + 1 \in 1 .. k + 1 /\ e + (i - e + 1) - 1 = i
  OBVIOUS
<1>3. \A i \in 1 .. k + 1 : c[i] \in RangeOf(c)
  <2>1. DOMAIN c = 1 .. Len(c)
    OBVIOUS
  <2> QED
    BY <1>0, <2>1, Zenon DEF RangeOf
<1>4. \A i \in 1 .. e + k : i \in 1 .. e - 1 \/ <<f, i>> \in RangeOf(c)
  <2> TAKE i \in 1 .. e + k
  <2>1. ASSUME NEW j \in 1 .. k + 1, e + j - 1 = i PROVE <<f, i>> \in RangeOf(c)
    BY <1>0, <1>3, <2>1
  <2> QED
    BY <1>2, <2>1
<1>5. ASSUME q = File(f, e - 1) PROVE q \o c = File(f, e + k)
  <2>1. /\ DOMAIN q = 1 .. e - 1 /\ Len(q) = e - 1
        /\ \A i \in 1 .. e - 1 : q[i] = <<f, i>>
    <3>1. q = [i \in 1 .. e - 1 |-> <<f, i>>]
      BY <1>5 DEF File
    <3>2. DOMAIN q = 1 .. e - 1 /\ e - 1 \in Nat
      BY <3>1
    <3> QED
      BY <3>1, <3>2
  <2>2. /\ \A i \in 1 .. e - 1 : (q \o c)[i] = q[i]
        /\ \A j \in 1 .. k + 1 : (q \o c)[(e - 1) + j] = c[j]
        /\ q \o c = [i \in 1 .. e + k |-> (q \o c)[i]]
    <3>1. Len(q) = e - 1 /\ Len(c) = k + 1 /\ Len(q) + Len(c) = e + k
      BY <1>0, <2>1
    <3>2. /\ q \o c = [i \in 1 .. Len(q) + Len(c) |-> (q \o c)[i]]
          /\ \A i \in 1 .. Len(q) : (q \o c)[i] = q[i]
          /\ \A i \in 1 .. Len(c) : (q \o c)[Len(q) + i] = c[i]
      BY ConcatParts
    <3> QED
      BY <3>1, <3>2, Zenon
  <2>3. ASSUME NEW i \in 1 .. e + k PROVE (q \o c)[i] = <<f, i>>
    <3>1. CASE i \in 1 .. e - 1
      BY <2>1, <2>2, <3>1
    <3>2. ASSUME NEW j \in 1 .. k + 1, e + j - 1 = i PROVE (q \o c)[i] = <<f, i>>
      <4>1. (e - 1) + j = i
        BY <3>2
      <4> QED
        BY <1>0, <2>2, <3>2, <4>1
    <3> QED
      BY <1>2, <3>1, <3>2
  <2> QED
    BY <2>2, <2>3 DEF File
<1> QED
  BY <1>1, <1>4, <1>5 DEF Holds

LEMMA ReceiveInOrderFlow ==
    ASSUME NEW f, NEW s, NEW d, NEW n, Now(f, s, d, n), NEW a \in Hosts, NEW b \in Hosts,
           NEW p, Arrives(a, b, p), ReceiveInOrder(a, b, p), UNCHANGED waiting
    PROVE  Running(f, s, d, n)'
<1> USE DEF setup
<1>0. /\ p \in Packet /\ Path(Consumed(a, b), f, s, d, n)
      /\ \/ a = s /\ b = d /\ Forth(f, s, d, n, p)
         \/ a = d /\ b = s /\ Back(d, n, p)
      /\ a = s /\ p.kind # "SYN" => NoSyn(Consumed(a, b)[<<s, d>>])
  BY Arrival, Zenon
<1>1. /\ a = s /\ b = d /\ Data(f, s, n, p) /\ NoSyn(Consumed(a, b)[<<s, d>>])
      /\ p.id = packet_expected[d]
  BY <1>0 DEF ReceiveInOrder, Forth, Back, Ack
<1>2. PICK k \in IF p.last THEN {0} ELSE Drains(d, p.id + 1),
           w \in {p.cwnd} \cup {q.cwnd : q \in order_packet_map[d]} :
         LET r == InOrder(d, p, k, w)
         IN  /\ packet_expected' = [packet_expected EXCEPT ![d] = r.expected]
             /\ output' = [output EXCEPT ![d] = @ \o r.chunks]
             /\ order_packet_map' = [order_packet_map EXCEPT ![d] = @ \ r.drained]
             /\ state' = [state EXCEPT ![d] =
                            IF r.last THEN "FIN" ELSE "sending_ack_listening"]
             /\ done_transmission' = [done_transmission EXCEPT ![d] = r.last \/ @]
             /\ SendKept(Consumed(s, d), d, r.ack)
  BY <1>1 DEF ReceiveInOrder
<1>3. w \in UShorts
  BY <1>0, NowFacts DEF MapsOK, Packet
<1>31. PICK r : r = InOrder(d, p, k, w)
  OBVIOUS
<1>4. /\ k \in Nat /\ r.expected = packet_expected[d] + 1 + k
      /\ r.expected <= n + 1 /\ r.expected <= sent_so_far[s] + 1
      /\ r.last \in BOOLEAN /\ (r.last => r.expected = n + 1)
      /\ r.chunks \in Seq({NoData} \cup (Flows \X Nat))
      /\ Continues(f, r.chunks, packet_expected[d], k)
      /\ r.ack \in Packet /\ r.ack.destination = destination[d]
      /\ r.ack.kind = "ACK" /\ r.ack.id = r.expected /\ r.ack.last = r.last
  BY <1>0, <1>1, <1>3, <1>31, InOrderShape
<1>5. /\ packet_expected' = [packet_expected EXCEPT ![d] = r.expected]
      /\ output' = [output EXCEPT ![d] = @ \o r.chunks]
      /\ order_packet_map' = [order_packet_map EXCEPT ![d] = @ \ r.drained]
      /\ state' = [state EXCEPT ![d] = IF r.last THEN "FIN" ELSE "sending_ack_listening"]
      /\ done_transmission' = [done_transmission EXCEPT ![d] = r.last \/ @]
      /\ net' = Sent(Consumed(a, b), d, r.ack)
      /\ re_packet_map' = [re_packet_map EXCEPT ![d] = Insert(@, r.ack)]
      /\ UNCHANGED <<setup, sent_so_far, normal, torn_down, aborted>>
  BY <1>1, <1>2, <1>31 DEF SendKept, ReceiveInOrder
<1>6. /\ packet_expected'[d] = r.expected /\ state'[s] = state[s]
      /\ state'[d] \in {"FIN", "sending_ack_listening"}
      /\ done_transmission'[s] = done_transmission[s]
      /\ order_packet_map'[d] \subseteq order_packet_map[d]
      /\ output'[d] = output[d] \o r.chunks
      /\ re_packet_map'[s] = re_packet_map[s]
      /\ \A q \in re_packet_map'[d] : q \in re_packet_map[d] \/ q = r.ack
      /\ \A h \in Hosts \ {s, d} : re_packet_map'[h] = re_packet_map[h]
  <2>1. /\ packet_expected'[d] = r.expected /\ state'[s] = state[s]
        /\ state'[d] \in {"FIN", "sending_ack_listening"}
        /\ done_transmission'[s] = done_transmission[s]
    BY <1>5, NowFacts DEF FieldsOK
  <2>2. /\ order_packet_map'[d] \subseteq order_packet_map[d]
        /\ output'[d] = output[d] \o r.chunks
    BY <1>5, NowFacts DEF MapsOK, OutputOK
  <2>3. \A q \in Insert(re_packet_map[d], r.ack) : q \in re_packet_map[d] \/ q = r.ack
    BY DEF Insert
  <2>4. /\ re_packet_map'[s] = re_packet_map[s]
        /\ re_packet_map'[d] = Insert(re_packet_map[d], r.ack)
        /\ \A h \in Hosts \ {s, d} : re_packet_map'[h] = re_packet_map[h]
    BY <1>5, NowFacts DEF MapsOK
  <2> QED
    BY <2>1, <2>2, <2>3, <2>4
<1>61. /\ packet_expected'[d] = packet_expected[d] + 1 + k
       /\ packet_expected[d] \in Nat \ {0} /\ sent_so_far[s] \in Nat /\ n \in Nat
       /\ k \in Nat /\ packet_expected'[d] <= n + 1
       /\ packet_expected'[d] <= sent_so_far[s] + 1 /\ sent_so_far'[s] = sent_so_far[s]
  BY <1>4, <1>5, <1>6, NowFacts
<1>7. state[s] # "SYN" /\ normal' = {}
  <2>1. sent_so_far[s] # 0
    BY <1>1, NowFacts DEF Data
  <2> QED
    BY <1>5, <2>1 DEF Now, Running, Counters, Arrives
<1>8. /\ \A q : Data(f, s, n, q) => Data(f, s, n, q)'
      /\ \A q : Ack(d, n, q) => Ack(d, n, q)'
      /\ ~Whole(d, n)
  <2>1. /\ packet_expected'[d] \in Nat /\ packet_expected'[d] >= packet_expected[d]
        /\ packet_expected'[d] <= n + 1
    BY <1>61
  <2>2. sent_so_far'[s] \in Nat /\ sent_so_far'[s] >= sent_so_far[s]
    BY <1>5, NowFacts
  <2>3. ~Whole(d, n)
    BY <1>1, NowFacts DEF Data, Whole
  <2> QED
    BY <2>1, <2>2, <2>3, Grows
<1>9. Ack(d, n, r.ack)'
  BY <1>4, <1>6, NowFacts DEF Ack, Whole
<1>10. Ends(f, s, d)' /\ Turns(s, d)'
  BY <1>5, <1>6, <1>7 DEF Now, Running, Ends, Turns
<1>11. Counters(s, d, n)'
  BY <1>4, <1>5, <1>6, <1>8, NowFacts DEF Now, Running, Counters, Whole
<1>12. Needed(f, s, d, n)'
  <2>1. Needed(f, s, d, n)
    BY DEF Now, Running
  <2>2. \A c \in Nat : c < packet_expected[d] => c < packet_expected'[d]
    BY <1>61
  <2>3. re_packet_map'[s] = re_packet_map[s] /\ sent_so_far'[s] = sent_so_far[s]
    BY <1>6, <1>61
  <2>4. \A c \in 1 .. n : c \in Nat
    BY <1>61
  <2> QED
    BY <2>1, <2>2, <2>3, <2>4 DEF Needed
<1>13. Kept(f, s, d, n)'
  <2>1. /\ \A q \in re_packet_map'[s] : KeptAtSource(f, s, d, n, q)' /\ q.destination = d
        /\ \A q \in order_packet_map'[d] : Data(f, s, n, q)'
    BY <1>5, <1>6, <1>7, <1>8 DEF Now, Running, Kept, KeptAtSource
  <2>2. \A q \in re_packet_map'[d] : /\ KeptAtDestination(s, d, n, q)'
                                     /\ q.destination \in {NoHost, s}
    BY <1>4, <1>6, <1>7, <1>8, <1>9, NowFacts DEF Now, Running, Kept, KeptAtDestination
  <2>3. \A h \in Hosts \ {s, d} : re_packet_map'[h] = {}
    BY <1>6 DEF Now, Running, Kept
  <2> QED
    BY <2>1, <2>2, <2>3 DEF Kept
<1>14. Path(net, f, s, d, n)'
  <2> DEFINE m == Consumed(a, b)
  <2>1. OneFlow(f, s, d, n) /\ OnlyPath(m, s, d) /\ r.ack.destination \in {NoHost, s}
    BY <1>0, <1>4, NowFacts DEF Now, Path
  <2>2. /\ OnlyPath(Sent(m, d, r.ack), s, d)
        /\ Sent(m, d, r.ack)[<<s, d>>] = m[<<s, d>>]
        /\ RangeOf(Sent(m, d, r.ack)[<<d, s>>]) \subseteq RangeOf(m[<<d, s>>]) \cup {r.ack}
    BY <1>4, <2>1, PathBack
  <2> HIDE DEF m
  <2>3. OnlyPath(net', s, d)
    BY <1>5, <2>2 DEF m
  <2>4. \A q \in RangeOf(net'[<<s, d>>]) : Forth(f, s, d, n, q)'
    BY <1>0, <1>1, <1>5, <1>8, <2>2 DEF Path, m, Forth, NoSyn
  <2>5. \A q \in RangeOf(net'[<<d, s>>]) : Back(d, n, q)'
    BY <1>0, <1>5, <1>8, <1>9, <2>2 DEF Path, m, Back
  <2> QED
    BY <2>3, <2>4, <2>5 DEF Path
<1>15. Written(f, d, n)'
  <2>1. /\ packet_expected[d] \in Nat \ {0}
        /\ output[d] \in Seq({NoData} \cup (Flows \X Nat))
        /\ packet_expected'[d] - 1 = packet_expected[d] + k
    BY <1>61, NowFacts DEF OutputOK
  <2>2. Written(f, d, n) /\ aborted = "no" /\ torn_down' = {}
    BY <1>5, <1>8 DEF Now, Running, Arrives, Written
  <2>3. /\ output[d] = File(f, packet_expected[d] - 1) =>
             output[d] \o r.chunks = File(f, packet_expected[d] + k)
        /\ Holds(f, output[d], packet_expected[d] - 1) =>
             Holds(f, output[d] \o r.chunks, packet_expected[d] + k)
    <3>1. /\ k \in Nat /\ r.chunks \in Seq({NoData} \cup (Flows \X Nat))
          /\ Continues(f, r.chunks, packet_expected[d], k)
      BY <1>4
    <3>2. /\ output[d] \in Seq(Chunks) /\ r.chunks \in Seq(Chunks)
          /\ packet_expected[d] \in Nat /\ packet_expected[d] >= 1
      BY <2>1, <3>1 DEF Chunks
    <3> QED
      BY <3>1, <3>2, FileGrows, Zenon
  <2> QED
    BY <1>6, <2>1, <2>2, <2>3 DEF Written
<1> QED
  BY <1>10, <1>11, <1>12, <1>13, <1>14, <1>15 DEF Now, Running
LEMMA ReceiveInOrderDiesFlow ==
    ASSUME NEW f, NEW s, NEW d, NEW n, Now(f, s, d, n), NEW a \in Hosts, NEW b \in Hosts,
           NEW p, Arrives(a, b, p), ReceiveInOrderDies(a, b, p)
    PROVE  Running(f, s, d, n)'
<1>0. /\ p \in Packet /\ Path(Consumed(a, b), f, s, d, n)
      /\ \/ a = s /\ b = d /\ Forth(f, s, d, n, p)
         \/ a = d /\ b = s /\ Back(d, n, p)
      /\ a = s /\ p.kind # "SYN" => NoSyn(Consumed(a, b)[<<s, d>>])
  BY Arrival, Zenon
<1>1. a = s /\ b = d /\ Data(f, s, n, p) /\ p.id = packet_expected[d]
  BY <1>0 DEF ReceiveInOrderDies, Forth, Back, Ack
<1>2. PICK k \in IF p.last THEN {0} ELSE Drains(d, p.id + 1) :
         LET r == InOrder(d, p, k, 0)
         IN  /\ output' = [output EXCEPT ![d] = @ \o r.chunks]
             /\ \/ AsShort(p.cwnd) <= 0 /\ Abort("window")
                \/ k > 0 /\ ~r.last /\ Abort("iterator")
  BY <1>1 DEF ReceiveInOrderDies
<1>3. PICK r : r = InOrder(d, p, k, 0)
  OBVIOUS
<1>4. /\ output' = [output EXCEPT ![d] = @ \o r.chunks]
      /\ Abort("window") \/ Abort("iterator")
  BY <1>2, <1>3
<1>5. r.chunks \in Seq({NoData} \cup (Flows \X Nat))
  BY <1>0, <1>1, <1>3, ZeroIsUShort, InOrderShape
<1>6. output[d] \in Seq({NoData} \cup (Flows \X Nat)) /\ output'[d] = output[d] \o r.chunks
  BY <1>4, NowFacts DEF OutputOK
<1>7. RangeOf(output[d]) \subseteq RangeOf(output'[d])
  BY <1>5, <1>6, ConcatShape
<1> QED
  BY <1>4, <1>7, AbortFlow

LEMMA DeliveryFlow ==
    ASSUME NEW f, NEW s, NEW d, NEW n, Now(f, s, d, n),
           NEW a \in Hosts, NEW b \in Hosts, Delivery(a, b)
    PROVE  Running(f, s, d, n)'
<1>1. PICK p \in {Marked(Head(net[<<a, b>>]), w) : w \in Windows} :
        \/ /\ \/ ReceiveSyn(a, b, p)
              \/ ReceiveSynAck(a, b, p)
              \/ ReceiveInOrder(a, b, p)
              \/ ReceiveAhead(a, b, p)
              \/ ReceiveRepeated(a, b, p)
              \/ ReceiveAck(a, b, p)
              \/ ReceiveFin(a, b, p)
              \/ ReceiveFinAck(a, b, p)
              \/ ReceiveOther(a, b, p)
           /\ UNCHANGED <<waiting, early, lost>>
        \/ ReceiveInOrderDies(a, b, p)
        \/ ReceiveDies(a, b, p)
  BY DEF Delivery, Receive
<1>2. Arrives(a, b, p)
  BY DEF Delivery, Arrives
<1>3. CASE ReceiveDies(a, b, p)
  BY <1>3, AbortFlow DEF ReceiveDies
<1>4. CASE ReceiveInOrderDies(a, b, p)
  BY <1>2, <1>4, ReceiveInOrderDiesFlow
<1>5. ASSUME UNCHANGED waiting, ReceiveSyn(a, b, p) PROVE Running(f, s, d, n)'
  BY <1>2, <1>5, ReceiveSynFlow
<1>6. ASSUME UNCHANGED waiting, ReceiveSynAck(a, b, p) PROVE Running(f, s, d, n)'
  BY <1>2, <1>6, ReceiveSynAckFlow
<1>7. ASSUME UNCHANGED waiting, ReceiveInOrder(a, b, p) PROVE Running(f, s, d, n)'
  BY <1>2, <1>7, ReceiveInOrderFlow
<1>8. ASSUME UNCHANGED waiting, ReceiveAhead(a, b, p) PROVE Running(f, s, d, n)'
  BY <1>2, <1>8, ReceiveAheadFlow
<1>9. ASSUME UNCHANGED waiting, ReceiveRepeated(a, b, p) PROVE Running(f, s, d, n)'
  BY <1>2, <1>9, ReceiveRepeatedFlow
<1>10. ASSUME UNCHANGED waiting, ReceiveAck(a, b, p) PROVE Running(f, s, d, n)'
  BY <1>2, <1>10, ReceiveAckFlow
<1>11. ASSUME UNCHANGED waiting, ReceiveFin(a, b, p) PROVE Running(f, s, d, n)'
  BY <1>2, <1>11, ReceiveFinFlow
<1>12. ASSUME UNCHANGED waiting, ReceiveFinAck(a, b, p) PROVE Running(f, s, d, n)'
  BY <1>2, <1>12, ReceiveFinAckFlow
<1>13. ~ReceiveOther(a, b, p)
  BY <1>2, ReceiveOtherFlow
<1> QED
  BY <1>1, <1>3, <1>4, <1>5, <1>6, <1>7, <1>8, <1>9, <1>10, <1>11, <1>12, <1>13

-----------------------------------------------------------------------------
(* Steps of a flow: the normal cookie and the start                        *)

(* The destination answers a SYN; its cookie never finds it elsewhere, and *)
(* the source has sent its SYN already.                                    *)
LEMMA SendSynFlow ==
    ASSUME NEW f, NEW s, NEW d, NEW n, Now(f, s, d, n), NEW h \in normal, SendSyn(h),
           normal' = normal \ {h},
           UNCHANGED <<setup, state, packet_expected, order_packet_map, waiting, report>>
    PROVE  Running(f, s, d, n)'
<1> USE DEF setup, report
<1> DEFINE answer == Pkt(destination[d], "SYN_ACK", 0, FALSE, 0, NoData)
<1>1. h = d /\ state[s] = "SYN" /\ state[d] = "SYN"
  BY DEF SendSyn, Now, Running, Turns
<1>2. /\ net' = Sent(net, d, answer)
      /\ re_packet_map' = [re_packet_map EXCEPT ![d] = Insert(@, answer)]
      /\ UNCHANGED <<done_transmission, sent_so_far, aborted>>
  BY <1>1, NowFacts DEF SendSyn, SendKept
<1>3. /\ answer \in Packet /\ answer.destination = destination[d]
      /\ answer.kind = "SYN_ACK" /\ answer.id = 0
  <2>1. destination[d] \in Hosts \cup {NoHost} /\ "SYN_ACK" \in Kinds
          /\ NoData \in {NoData} \cup (Flows \X Nat)
    BY NowFacts DEF Kinds
  <2>2. answer \in Packet
    BY <2>1, ZeroIsUShort, PktTyped
  <2> QED
    BY <2>2 DEF Pkt
<1> HIDE DEF answer
<1>4. /\ re_packet_map'[s] = re_packet_map[s]
      /\ \A q \in re_packet_map'[d] : q \in re_packet_map[d] \/ q = answer
      /\ \A g \in Hosts \ {s, d} : re_packet_map'[g] = re_packet_map[g]
  <2>1. \A q \in Insert(re_packet_map[d], answer) : q \in re_packet_map[d] \/ q = answer
    BY DEF Insert
  <2> QED
    BY <1>2, <2>1, NowFacts DEF MapsOK
<1>5. Ends(f, s, d)' /\ Turns(s, d)' /\ Counters(s, d, n)' /\ Needed(f, s, d, n)'
        /\ Written(f, d, n)'
  BY <1>2, <1>4 DEF Now, Running, Ends, Turns, Counters, Whole, Needed, Written
<1>6. KeptAtDestination(s, d, n, answer) /\ Back(d, n, answer)
  BY <1>1, <1>3 DEF KeptAtDestination, Back
<1>7. Kept(f, s, d, n)'
  BY <1>2, <1>3, <1>4, <1>6, NowFacts
     DEF Now, Running, Kept, KeptAtSource, KeptAtDestination, Data, Ack, Whole
<1>8. Path(net, f, s, d, n)'
  <2>1. /\ OneFlow(f, s, d, n) /\ OnlyPath(net, s, d) /\ answer.destination \in {NoHost, s}
        /\ Path(net, f, s, d, n)
    BY <1>3, NowFacts DEF Now, Running, Path
  <2>2. /\ OnlyPath(Sent(net, d, answer), s, d)
        /\ Sent(net, d, answer)[<<s, d>>] = net[<<s, d>>]
        /\ RangeOf(Sent(net, d, answer)[<<d, s>>]) \subseteq
              RangeOf(net[<<d, s>>]) \cup {answer}
    BY <1>3, <2>1, PathBack
  <2>3. /\ OnlyPath(net', s, d)
        /\ \A q \in RangeOf(net'[<<s, d>>]) : Forth(f, s, d, n, q)
        /\ \A q \in RangeOf(net'[<<d, s>>]) : Back(d, n, q)
    BY <1>2, <1>6, <2>1, <2>2 DEF Path
  <2> QED
    BY <1>2, <2>3 DEF Path, Forth, Back, Data, Ack, Whole
<1> QED
  BY <1>5, <1>7, <1>8 DEF Now, Running

LEMMA SendFinFlow ==
    ASSUME NEW f, NEW s, NEW d, NEW n, Now(f, s, d, n), NEW h \in normal, SendFin(h),
           normal' = normal \ {h},
           UNCHANGED <<setup, state, packet_expected, order_packet_map, waiting, report>>
    PROVE  Running(f, s, d, n)'
<1> USE DEF setup, report
<1>0. PICK fin : fin = Pkt(d, "FIN", sent_so_far[s] + 2, FALSE, 0, NoData)
  OBVIOUS
<1>1. h = s /\ state[s] = "FIN" /\ Whole(d, n) /\ sent_so_far[s] >= n
        /\ state[d] # "SYN"
  BY NowFacts DEF SendFin, Now, Running, Turns, Counters, Whole
<1>2. /\ net' = Sent(net, s, fin)
      /\ re_packet_map' = [re_packet_map EXCEPT ![s] = Insert(@, fin)]
      /\ sent_so_far' = [sent_so_far EXCEPT ![s] = @ + 1]
      /\ UNCHANGED <<done_transmission, aborted>>
  BY <1>0, <1>1, NowFacts DEF SendFin, SendKept
<1>3. /\ fin \in Packet /\ fin.destination = d /\ fin.kind = "FIN" /\ fin.id > n + 1
  <2>1. d \in Hosts \cup {NoHost} /\ "FIN" \in Kinds /\ sent_so_far[s] + 2 \in Nat
          /\ NoData \in {NoData} \cup (Flows \X Nat)
    BY NowFacts DEF Kinds
  <2>2. fin \in Packet
    BY <1>0, <2>1, ZeroIsUShort, PktTyped
  <2> QED
    BY <1>0, <1>1, <2>2, NowFacts DEF Pkt
<1>4. /\ \A q \in re_packet_map'[s] : q \in re_packet_map[s] \/ q = fin
      /\ re_packet_map[s] \subseteq re_packet_map'[s]
      /\ \A g \in Hosts \ {s} : re_packet_map'[g] = re_packet_map[g]
      /\ sent_so_far'[s] = sent_so_far[s] + 1
  <2>1. /\ \A q \in Insert(re_packet_map[s], fin) : q \in re_packet_map[s] \/ q = fin
        /\ re_packet_map[s] \subseteq Insert(re_packet_map[s], fin)
    BY DEF Insert
  <2> QED
    BY <1>2, <2>1, NowFacts DEF MapsOK, FieldsOK
<1>5. /\ \A q : Data(f, s, n, q) => Data(f, s, n, q)'
      /\ \A q : Ack(d, n, q) => Ack(d, n, q)'
      /\ Whole(d, n)'
  <2>1. /\ packet_expected'[d] \in Nat /\ packet_expected'[d] >= packet_expected[d]
        /\ packet_expected'[d] <= n + 1
    BY <1>1, NowFacts DEF Whole
  <2>2. sent_so_far'[s] \in Nat /\ sent_so_far'[s] >= sent_so_far[s]
    BY <1>4, NowFacts
  <2> QED
    BY <1>1, <2>1, <2>2, Grows
<1>6. Ends(f, s, d)' /\ Turns(s, d)' /\ Written(f, d, n)'
  BY <1>2, <1>5 DEF Now, Running, Ends, Turns, Written
<1>7. Counters(s, d, n)'
  BY <1>1, <1>2, <1>4, <1>5, NowFacts DEF Now, Running, Counters, Whole
<1>8. Needed(f, s, d, n)'
  BY <1>1, <1>2, NowFacts DEF Needed, Whole
<1>9. Kept(f, s, d, n)'
  BY <1>1, <1>2, <1>3, <1>4, <1>5, NowFacts
     DEF Now, Running, Kept, KeptAtSource, KeptAtDestination
<1>10. Path(net, f, s, d, n)'
  <2>1. /\ OneFlow(f, s, d, n) /\ OnlyPath(net, s, d) /\ MayFollow(net[<<s, d>>], fin)
        /\ Path(net, f, s, d, n)
    BY <1>3 DEF Now, Running, Path, MayFollow
  <2>2. /\ OnlyPath(Sent(net, s, fin), s, d)
        /\ RangeOf(Sent(net, s, fin)[<<s, d>>]) = RangeOf(net[<<s, d>>]) \cup {fin}
        /\ Sent(net, s, fin)[<<d, s>>] = net[<<d, s>>]
    <3>1. MayJoin(net, s, d, fin) /\ OneFlow(f, s, d, n)
      BY <1>3, <2>1 DEF MayJoin
    <3> QED
      BY <3>1, PathForth, Zenon
  <2>3. /\ OnlyPath(net', s, d)
        /\ \A q \in RangeOf(net'[<<s, d>>]) : Forth(f, s, d, n, q) \/ q = fin
        /\ \A q \in RangeOf(net'[<<d, s>>]) : Back(d, n, q)
    <3>1. /\ \A q \in RangeOf(net[<<s, d>>]) : Forth(f, s, d, n, q)
          /\ \A q \in RangeOf(net[<<d, s>>]) : Back(d, n, q)
      BY <2>1 DEF Path
    <3>2. /\ OnlyPath(net', s, d) /\ net'[<<d, s>>] = net[<<d, s>>]
          /\ RangeOf(net'[<<s, d>>]) = RangeOf(net[<<s, d>>]) \cup {fin}
      BY <1>2, <2>2
    <3> QED
      BY <3>1, <3>2
  <2>4. \A q \in RangeOf(net'[<<s, d>>]) : Forth(f, s, d, n, q)'
    BY <1>2, <1>3, <1>5, <2>3 DEF Forth
  <2>5. \A q \in RangeOf(net'[<<d, s>>]) : Back(d, n, q)'
    BY <1>5, <2>3 DEF Back
  <2> QED
    BY <2>3, <2>4, <2>5 DEF Path
<1> QED
  BY <1>6, <1>7, <1>8, <1>9, <1>10 DEF Now, Running
\* The next k packets of the file.
NextPackets(f, s, d, n, q, k) ==
    /\ q \in Seq(Packet) /\ k \in Nat \ {0} /\ sent_so_far[s] + k <= n
    /\ \A e \in RangeOf(q) :
          /\ e.kind = "DATA" /\ e.data = <<f, e.id>> /\ (e.last <=> e.id = n)
          /\ e.destination = d
          /\ e.id \in sent_so_far[s] + 1 .. sent_so_far[s] + k
    /\ \A c \in sent_so_far[s] + 1 .. sent_so_far[s] + k : \E e \in RangeOf(q) : e.id = c

(* What a burst of the source consists of.                                 *)
LEMMA BurstFlow ==
    ASSUME NEW f, NEW s, NEW d, NEW n, Now(f, s, d, n),
           ~done_transmission[s], cwnd_host[s] > 0
    PROVE  NextPackets(f, s, d, n, Burst(s), Len(Burst(s)))
<1> DEFINE k == Len(Burst(s))
           t == sent_so_far[s]
<1>1. /\ Burst(s) \in Seq(Packet) /\ k \in Nat \ {0}
      /\ \A i \in 1 .. k : Burst(s)[i] = FilePacket(s, t + i)
      /\ t + k <= file_holder[s].packets \/ k = 1
  BY NowFacts, BurstShape DEF Now
<1>2. t \in Nat /\ n \in Nat \ {0} /\ t < n
  BY NowFacts DEF Now, Running, Counters
<1>3. t + k <= n /\ DOMAIN Burst(s) = 1 .. k
  BY <1>1, <1>2, NowFacts
<1> HIDE DEF k, t
<1>4. \A i \in 1 .. k : LET e == Burst(s)[i]
                        IN  /\ e.kind = "DATA" /\ e.data = <<f, e.id>> /\ e.id = t + i
                            /\ e.last <=> e.id = n
                            /\ e.destination = d
  <2> TAKE i \in 1 .. k
  <2>1. t + i \in Nat /\ t + i <= n
    BY <1>1, <1>2, <1>3
  <2>2. Burst(s)[i] = Pkt(d, "DATA", t + i, t + i >= n, 0, <<f, t + i>>)
    BY <1>1, NowFacts DEF FilePacket
  <2>3. t + i >= n <=> t + i = n
    BY <1>2, <2>1
  <2>4. PICK e : e = Burst(s)[i]
    OBVIOUS
  <2>5. /\ e.kind = "DATA" /\ e.data = <<f, t + i>> /\ e.id = t + i /\ e.destination = d
        /\ e.last = (t + i >= n)
    BY <2>2, <2>4 DEF Pkt
  <2>6. e.last <=> t + i = n
    BY <2>3, <2>5, Zenon
  <2> QED
    BY <2>4, <2>5, <2>6
<1>5. \A e \in RangeOf(Burst(s)) : \E i \in 1 .. k : e = Burst(s)[i]
  BY <1>3 DEF RangeOf
<1>6. \A i \in 1 .. k : t + i \in t + 1 .. t + k /\ Burst(s)[i] \in RangeOf(Burst(s))
  BY <1>1, <1>2, <1>3 DEF RangeOf
<1>7. \A c \in t + 1 .. t + k : c - t \in 1 .. k /\ t + (c - t) = c
  BY <1>1, <1>2
<1>8. /\ \A e \in RangeOf(Burst(s)) :
            /\ e.kind = "DATA" /\ e.data = <<f, e.id>> /\ (e.last <=> e.id = n)
            /\ e.destination = d /\ e.id \in t + 1 .. t + k
      /\ \A c \in t + 1 .. t + k : \E e \in RangeOf(Burst(s)) : e.id = c
  BY <1>4, <1>5, <1>6, <1>7
<1> QED
  BY <1>1, <1>3, <1>8 DEF k, t, NextPackets

LEMMA SendBurstFlow ==
    ASSUME NEW f, NEW s, NEW d, NEW n, Now(f, s, d, n), NEW h \in normal, SendBurst(h),
           normal' = normal \ {h},
           UNCHANGED <<setup, state, packet_expected, order_packet_map, waiting, report>>
    PROVE  Running(f, s, d, n)'
<1> USE DEF setup, report
<1>1. /\ h = s /\ state[s] = "sending" /\ state[d] # "SYN"
      /\ ~done_transmission[s] /\ cwnd_host[s] > 0
  BY NowFacts DEF SendBurst, Now, Running, Turns
<1>2. PICK burst, k : burst = Burst(s) /\ k = Len(burst)
  OBVIOUS
<1>3. /\ burst \in Seq(Packet) /\ k \in Nat \ {0} /\ sent_so_far[s] + k <= n
      /\ \A e \in RangeOf(burst) :
            /\ e.kind = "DATA" /\ e.data = <<f, e.id>> /\ (e.last <=> e.id = n)
            /\ e.destination = d
            /\ e.id \in sent_so_far[s] + 1 .. sent_so_far[s] + k
      /\ \A c \in sent_so_far[s] + 1 .. sent_so_far[s] + k :
            \E e \in RangeOf(burst) : e.id = c
  <2>1. NextPackets(f, s, d, n, burst, k)
    BY <1>1, <1>2, BurstFlow
  <2> QED
    BY <2>1 DEF NextPackets
<1>4. /\ sent_so_far' = [sent_so_far EXCEPT ![s] = @ + k]
      /\ done_transmission' = [done_transmission EXCEPT ![s] = \E e \in RangeOf(burst) : e.last]
      /\ re_packet_map' = [re_packet_map EXCEPT ![s] = InsertAll(@, RangeOf(burst))]
      /\ net' = [net EXCEPT ![<<s, d>>] = @ \o burst]
      /\ UNCHANGED aborted
  BY <1>1, <1>2, NowFacts DEF SendBurst
<1>5. sent_so_far[s] \in Nat /\ n \in Nat \ {0} /\ packet_expected[d] \in Nat \ {0}
  BY NowFacts
<1>6. /\ sent_so_far'[s] = sent_so_far[s] + k
      /\ done_transmission'[s] = (\E e \in RangeOf(burst) : e.last)
      /\ re_packet_map'[s] = InsertAll(re_packet_map[s], RangeOf(burst))
      /\ \A g \in Hosts \ {s} : re_packet_map'[g] = re_packet_map[g]
  <2>1. /\ s \in Hosts /\ sent_so_far \in [Hosts -> Nat]
        /\ done_transmission \in [Hosts -> BOOLEAN] /\ re_packet_map \in [Hosts -> SUBSET Packet]
    BY NowFacts DEF FieldsOK, MapsOK
  <2>2. sent_so_far'[s] = sent_so_far[s] + k
    BY <1>4, <2>1
  <2>3. done_transmission'[s] = (\E e \in RangeOf(burst) : e.last)
    BY <1>4, <2>1, Zenon
  <2>4. /\ re_packet_map'[s] = InsertAll(re_packet_map[s], RangeOf(burst))
        /\ \A g \in Hosts \ {s} : re_packet_map'[g] = re_packet_map[g]
    BY <1>4, <2>1
  <2> QED
    BY <2>2, <2>3, <2>4
<1>7. /\ \A q : Data(f, s, n, q) => Data(f, s, n, q)'
      /\ \A q : Ack(d, n, q) => Ack(d, n, q)'
      /\ Whole(d, n) => Whole(d, n)'
  <2>1. /\ packet_expected'[d] \in Nat /\ packet_expected'[d] >= packet_expected[d]
        /\ packet_expected'[d] <= n + 1
    BY <1>5 DEF Now, Running, Counters
  <2>2. sent_so_far'[s] \in Nat /\ sent_so_far'[s] >= sent_so_far[s]
    BY <1>3, <1>5, <1>6
  <2> QED
    BY <2>1, <2>2, Grows
<1>8. \A e \in RangeOf(burst) : Data(f, s, n, e)' /\ e.id > sent_so_far[s] /\ e.id <= n
  BY <1>3, <1>5, <1>6 DEF Data
<1>9. /\ re_packet_map[s] \subseteq re_packet_map'[s]
      /\ RangeOf(burst) \subseteq re_packet_map'[s]
      /\ \A q \in re_packet_map'[s] : q \in re_packet_map[s] \/ q \in RangeOf(burst)
  <2>1. \A q \in re_packet_map[s] : q.id <= sent_so_far[s] \/ q.id > n + 1
    BY <1>1 DEF Now, Running, Kept, KeptAtSource, Data
  <2>2. re_packet_map[s] \subseteq Packet /\ RangeOf(burst) \subseteq Packet
    <3>1. DOMAIN burst = 1 .. Len(burst)
      BY <1>3
    <3> QED
      BY <1>3, <3>1, NowFacts DEF MapsOK, RangeOf
  <2>3. \A e \in RangeOf(burst) : e.id \notin Keys(re_packet_map[s])
    <3> SUFFICES ASSUME NEW e \in RangeOf(burst), NEW q \in re_packet_map[s], q.id = e.id
                 PROVE  FALSE
      BY DEF Keys
    <3>1. q.id \in Nat
      BY <2>2 DEF Packet
    <3> QED
      BY <1>5, <1>8, <2>1, <3>1
  <2> QED
    BY <1>6, <2>3 DEF InsertAll
<1>10. Ends(f, s, d)' /\ Turns(s, d)' /\ Written(f, d, n)'
  BY <1>1, <1>4, <1>7 DEF Now, Running, Ends, Turns, Written
<1>11. Counters(s, d, n)'
  <2>1. Counters(s, d, n)
    BY DEF Now, Running
  <2>2. done_transmission'[s] <=> sent_so_far'[s] >= n
    <3>1. ASSUME NEW e \in RangeOf(burst), e.last PROVE sent_so_far'[s] >= n
      BY <1>3, <1>5, <1>6, <3>1
    <3>2. ASSUME sent_so_far'[s] >= n PROVE \E e \in RangeOf(burst) : e.last
      <4>1. n \in sent_so_far[s] + 1 .. sent_so_far[s] + k
        BY <1>3, <1>5, <1>6, <3>2
      <4> QED
        BY <1>3, <4>1
    <3> QED
      BY <1>6, <3>1, <3>2
  <2> QED
    BY <1>1, <1>3, <1>5, <1>6, <2>1, <2>2 DEF Counters, Whole
<1>12. Needed(f, s, d, n)'
  <2>1. ASSUME NEW c \in 1 .. n, c <= sent_so_far[s] + k, c >= packet_expected[d]
        PROVE  \E q \in re_packet_map'[s] : q.id = c /\ q.data = <<f, c>>
    <3>1. CASE c <= sent_so_far[s]
      BY <1>5, <1>9, <2>1, <3>1 DEF Now, Running, Needed
    <3>2. CASE c > sent_so_far[s]
      <4>1. c \in sent_so_far[s] + 1 .. sent_so_far[s] + k
        BY <1>3, <1>5, <2>1, <3>2
      <4> QED
        BY <1>3, <1>9, <4>1
    <3> QED
      BY <1>5, <3>1, <3>2
  <2>2. sent_so_far'[s] = sent_so_far[s] + k /\ packet_expected'[d] = packet_expected[d]
    BY <1>6
  <2>3. \A c \in 1 .. n : c < packet_expected[d] \/ c >= packet_expected[d]
    BY <1>5
  <2> QED
    BY <2>1, <2>2, <2>3 DEF Needed
<1>13. Kept(f, s, d, n)'
  <2>1. \A q \in re_packet_map'[s] : KeptAtSource(f, s, d, n, q)' /\ q.destination = d
    BY <1>1, <1>3, <1>7, <1>8, <1>9 DEF Now, Running, Kept, KeptAtSource
  <2>2. /\ \A q \in re_packet_map'[d] : /\ KeptAtDestination(s, d, n, q)'
                                        /\ q.destination \in {NoHost, s}
        /\ \A q \in order_packet_map'[d] : Data(f, s, n, q)'
        /\ \A g \in Hosts \ {s, d} : re_packet_map'[g] = {}
    BY <1>1, <1>6, <1>7, NowFacts DEF Now, Running, Kept, KeptAtDestination
  <2> QED
    BY <2>1, <2>2 DEF Kept
<1>14. Path(net, f, s, d, n)'
  <2>1. Path(net, f, s, d, n) /\ NetOK
    BY DEF Now, Running, TypeOK
  <2>2. /\ net \in [Hosts \X Hosts -> Seq(Packet)] /\ net[<<s, d>>] \in Seq(Packet)
        /\ SynsFirst(net[<<s, d>>]) /\ <<s, d>> \in Hosts \X Hosts
    BY <2>1, NowFacts DEF NetOK, Path, OnlyPath
  <2>3. \A e \in RangeOf(burst) : e.kind # "SYN"
    BY <1>3
  <2>4. /\ RangeOf(net[<<s, d>>] \o burst) = RangeOf(net[<<s, d>>]) \cup RangeOf(burst)
        /\ SynsFirst(net[<<s, d>>] \o burst)
    BY <1>3, <2>2, <2>3, ConcatShape
  <2>5. net[<<s, d>>] \o burst \in Seq(Packet)
    BY <1>3, <2>2
  <2>6. PICK q : q = net[<<s, d>>] \o burst
    OBVIOUS
  <2>7. /\ net' \in [Hosts \X Hosts -> Seq(Packet)] /\ net'[<<s, d>>] = q
        /\ \A c \in Hosts \X Hosts : c # <<s, d>> => net'[c] = net[c]
    BY <1>4, <2>2, <2>5, <2>6
  <2>8. OnlyPath(net', s, d)
    BY <2>1, <2>4, <2>6, <2>7 DEF Path, OnlyPath
  <2>9. \A e \in RangeOf(net'[<<s, d>>]) : Forth(f, s, d, n, e)'
    <3>1. \A e \in RangeOf(net'[<<s, d>>]) : Forth(f, s, d, n, e) \/ Data(f, s, n, e)'
      BY <1>8, <2>1, <2>4, <2>6, <2>7 DEF Path
    <3> QED
      BY <1>7, <3>1 DEF Forth
  <2>10. \A e \in RangeOf(net'[<<d, s>>]) : Back(d, n, e)'
    <3>1. net'[<<d, s>>] = net[<<d, s>>]
      BY <2>7, NowFacts
    <3> QED
      BY <1>7, <2>1, <3>1 DEF Path, Back
  <2> QED
    BY <2>8, <2>9, <2>10 DEF Path
<1> QED
  BY <1>10, <1>11, <1>12, <1>13, <1>14 DEF Now, Running
LEMMA NormalTimerFlow ==
    ASSUME NEW f, NEW s, NEW d, NEW n, Now(f, s, d, n), NEW h \in Hosts, NormalTimer(h)
    PROVE  Running(f, s, d, n)'
<1>1. /\ h \in normal /\ normal' = normal \ {h}
      /\ UNCHANGED <<setup, state, packet_expected, order_packet_map, waiting, report>>
  BY DEF NormalTimer
<1>2. CASE SendSyn(h)
  BY <1>1, <1>2, SendSynFlow
<1>3. CASE SendBurst(h)
  BY <1>1, <1>3, SendBurstFlow
<1>4. CASE SendNothing(h)
  <2> USE DEF setup, report
  <2>1. UNCHANGED <<done_transmission, sent_so_far, re_packet_map, net, aborted>>
    BY <1>4 DEF SendNothing
  <2>2. Ends(f, s, d)' /\ Turns(s, d)' /\ Counters(s, d, n)' /\ Needed(f, s, d, n)'
          /\ Written(f, d, n)'
    BY <1>1, <2>1 DEF Now, Running, Ends, Turns, Counters, Whole, Needed, Written
  <2>3. Path(net, f, s, d, n)'
    BY <1>1, <2>1 DEF Now, Running, Path, Forth, Back, Data, Ack, Whole
  <2>4. Kept(f, s, d, n)'
    BY <1>1, <2>1 DEF Now, Running, Kept, KeptAtSource, KeptAtDestination, Data, Ack, Whole
  <2> QED
    BY <1>1, <2>2, <2>3, <2>4 DEF Now, Running
<1>5. CASE SendFin(h)
  BY <1>1, <1>5, SendFinFlow
<1>6. ~SendUninitialised(h)
  BY <1>1 DEF SendUninitialised, Now, Running, Turns, Ends
<1> QED
  BY <1>2, <1>3, <1>4, <1>5, <1>6 DEF NormalTimer

LEMMA NormalTimerDiesFlow ==
    ASSUME NEW f, NEW s, NEW d, NEW n, Now(f, s, d, n), NEW h \in Hosts, NormalTimerDies(h)
    PROVE  Running(f, s, d, n)'
BY AbortFlow DEF NormalTimerDies

(* A flow that waits for its timer: nothing happens but its start.         *)
LEMMA StartFlowFlow ==
    ASSUME NEW f, NEW s, NEW d, NEW n, OneFlow(f, s, d, n), TypeOK, NotStarted(f, s, d),
           StartFlow(f)
    PROVE  Running(f, s, d, n)'
<1> USE DEF setup, report
<1>0. PICK syn : syn = Pkt(d, "SYN", 0, FALSE, 0, NoData)
  OBVIOUS
<1>1. /\ f \in Flows /\ s \in Hosts /\ d \in Hosts /\ s # d /\ n \in Nat \ {0}
      /\ s = f.source /\ d = f.destination /\ Flows = {f}
      /\ FieldsOK /\ MapsOK /\ NetOK /\ NoHost \notin Hosts
  BY TheEnds DEF OneFlow, TypeOK
<1>2. /\ destination' = [destination EXCEPT ![s] = d]
      /\ file_holder' = [file_holder EXCEPT ![s] = f]
      /\ sender' = [sender EXCEPT ![s] = TRUE, ![d] = FALSE]
      /\ state' = [state EXCEPT ![s] = "SYN", ![d] = "SYN"]
      /\ done_transmission' = [done_transmission EXCEPT ![s] = FALSE, ![d] = FALSE]
      /\ sent_so_far' = [sent_so_far EXCEPT ![s] = 0, ![d] = 0]
      /\ packet_expected' = [packet_expected EXCEPT ![s] = 1, ![d] = 1]
      /\ re_packet_map' = [re_packet_map EXCEPT ![s] = Insert(@, syn)]
      /\ net' = Sent(net, s, syn)
      /\ waiting' = waiting \ {f}
      /\ UNCHANGED <<order_packet_map, normal, report, aborted>>
  BY <1>0, <1>1 DEF StartFlow, SendKept
<1>3. syn \in Packet /\ syn.destination = d /\ syn.kind = "SYN" /\ syn.id = 0
  <2>1. d \in Hosts \cup {NoHost} /\ "SYN" \in Kinds /\ NoData \in {NoData} \cup (Flows \X Nat)
    BY <1>1 DEF Kinds
  <2>2. syn \in Packet
    BY <1>0, <2>1, ZeroIsUShort, PktTyped
  <2> QED
    BY <1>0, <2>2 DEF Pkt
<1>4. /\ destination'[s] = d /\ destination'[d] = NoHost /\ file_holder'[s] = f
      /\ sender'[s] /\ ~sender'[d] /\ state'[s] = "SYN" /\ state'[d] = "SYN"
      /\ ~done_transmission'[s] /\ sent_so_far'[s] = 0 /\ packet_expected'[d] = 1
  BY <1>1, <1>2 DEF FieldsOK, NotStarted
<1>5. /\ re_packet_map'[s] = {syn} /\ \A h \in Hosts \ {s} : re_packet_map'[h] = {}
      /\ order_packet_map'[d] = {} /\ output'[d] = <<>>
  <2>1. Insert({}, syn) = {syn}
    BY DEF Insert, Keys
  <2> QED
    BY <1>1, <1>2, <2>1 DEF MapsOK, NotStarted
<1>6. waiting' = {} /\ normal' = {} /\ torn_down' = {}
  BY <1>1, <1>2 DEF NotStarted, TypeOK
<1>7. Ends(f, s, d)' /\ Turns(s, d)' /\ Counters(s, d, n)' /\ Needed(f, s, d, n)'
  BY <1>1, <1>4, <1>6 DEF Ends, Turns, Counters, Needed, Whole
<1>8. Kept(f, s, d, n)'
  BY <1>1, <1>3, <1>4, <1>5 DEF Kept, KeptAtSource
<1>9. Written(f, d, n)'
  <2>1. File(f, 0) = <<>>
    BY DEF File
  <2> QED
    BY <1>4, <1>5, <1>6, <2>1 DEF Written, Holds
<1>10. Path(net, f, s, d, n)'
  <2>1. /\ OnlyPath(net, s, d) /\ RangeOf(net[<<s, d>>]) = {} /\ RangeOf(net[<<d, s>>]) = {}
    <3>1. \A c \in Hosts \X Hosts : net[c] = <<>>
      BY DEF NotStarted
    <3>2. RangeOf(<<>>) = {} /\ SynsFirst(<<>>)
      BY DEF RangeOf, SynsFirst
    <3> QED
      BY <1>1, <3>1, <3>2 DEF OnlyPath, NetOK
  <2>2. MayJoin(net, s, d, syn) /\ OneFlow(f, s, d, n)
    BY <1>3, <2>1 DEF MayJoin, MayFollow
  <2>3. /\ OnlyPath(Sent(net, s, syn), s, d)
        /\ RangeOf(Sent(net, s, syn)[<<s, d>>]) = RangeOf(net[<<s, d>>]) \cup {syn}
        /\ Sent(net, s, syn)[<<d, s>>] = net[<<d, s>>]
    BY <2>2, PathForth, Zenon
  <2>4. /\ OnlyPath(net', s, d) /\ RangeOf(net'[<<s, d>>]) = {syn}
        /\ RangeOf(net'[<<d, s>>]) = {}
    BY <1>2, <2>1, <2>3
  <2> QED
    BY <1>3, <1>4, <2>4 DEF Path, Forth
<1> QED
  BY <1>6, <1>7, <1>8, <1>9, <1>10 DEF Running

LEMMA WaitingStep ==
    ASSUME NEW f, NEW s, NEW d, NEW n, OneFlow(f, s, d, n), TypeOK, NotStarted(f, s, d), Next
    PROVE  FlowInv(f, s, d, n)'
<1>1. \A c \in Hosts \X Hosts : net[c] = <<>>
  BY DEF NotStarted
<1>2. CASE \E g \in Flows : StartFlow(g)
  <2>1. StartFlow(f)
    BY <1>2 DEF OneFlow
  <2> QED
    BY <2>1, StartFlowFlow DEF FlowInv
<1>3. ASSUME NEW h \in Hosts, NEW id, NEW owned, RetransmissionTimer(h, id, owned)
      PROVE  FlowInv(f, s, d, n)'
  <2>1. ~Resend(h, id, owned)
    BY DEF Resend, NotStarted
  <2>2. UNCHANGED <<destination, file_holder, re_packet_map, order_packet_map, normal, waiting,
                    net, output, torn_down, aborted>>
    BY <1>3, <2>1 DEF RetransmissionTimer, TimerFinds, setup, report
  <2> QED
    BY <2>2 DEF FlowInv, NotStarted
<1>4. ASSUME NEW h \in Hosts, TimerStep(h) \/ LeakedTimerStep(h) PROVE FlowInv(f, s, d, n)'
  BY <1>3, <1>4 DEF TimerStep, LeakedTimerStep
<1>5. \A h \in Hosts : ~NormalTimer(h) /\ ~NormalTimerDies(h)
  BY DEF NormalTimer, NormalTimerDies, NotStarted
<1>6. \A a, b \in Hosts : ~Delivery(a, b) /\ ~Lose(a, b)
  BY <1>1 DEF Delivery, Lose
<1> QED
  BY <1>2, <1>4, <1>5, <1>6 DEF Next

LEMMA RunningStep ==
    ASSUME NEW f, NEW s, NEW d, NEW n, Now(f, s, d, n), Next
    PROVE  Running(f, s, d, n)'
<1>1. \A g \in Flows : ~StartFlow(g)
  BY DEF StartFlow, Now, Running
<1>2. ASSUME NEW h \in Hosts, NormalTimer(h) \/ NormalTimerDies(h) PROVE Running(f, s, d, n)'
  BY <1>2, NormalTimerFlow, NormalTimerDiesFlow
<1>3. ASSUME NEW h \in Hosts, TimerStep(h) \/ LeakedTimerStep(h) PROVE Running(f, s, d, n)'
  BY <1>3, RetransmissionFlow DEF TimerStep, LeakedTimerStep
<1>4. ASSUME NEW a \in Hosts, NEW b \in Hosts, Delivery(a, b) \/ Lose(a, b)
      PROVE  Running(f, s, d, n)'
  BY <1>4, DeliveryFlow, LoseFlow
<1> QED
  BY <1>1, <1>2, <1>3, <1>4 DEF Next

LEMMA FlowStutters ==
    ASSUME NEW f, NEW s, NEW d, NEW n, FlowInv(f, s, d, n), UNCHANGED vars
    PROVE  FlowInv(f, s, d, n)'
<1> USE DEF vars, setup, progress, report
<1>1. CASE NotStarted(f, s, d)
  BY <1>1 DEF FlowInv, NotStarted
<1>2. CASE Running(f, s, d, n)
  <2>1. Ends(f, s, d)' /\ Turns(s, d)' /\ Counters(s, d, n)' /\ Needed(f, s, d, n)'
          /\ Written(f, d, n)' /\ waiting' = {}
    BY <1>2 DEF Running, Ends, Turns, Counters, Whole, Needed, Written
  <2>2. Path(net, f, s, d, n)'
    BY <1>2 DEF Running, Path, Forth, Back, Data, Ack, Whole
  <2>3. Kept(f, s, d, n)'
    BY <1>2 DEF Running, Kept, KeptAtSource, KeptAtDestination, Data, Ack, Whole
  <2> QED
    BY <2>1, <2>2, <2>3 DEF FlowInv, Running
<1> QED
  BY <1>1, <1>2 DEF FlowInv

-----------------------------------------------------------------------------
(* What it means for the file                                              *)

\* The invariant of the flow f, together with the types.
FlowHolds(f) == FlowInv(f, f.source, f.destination, f.packets)

(* FlowInv is inductive, given the type invariant.                         *)
LEMMA FlowAlways ==
    ASSUME NEW CONSTANT f, Flows = {f}
    PROVE  Spec => [](TypeOK /\ FlowHolds(f))
<1> DEFINE s == f.source
           d == f.destination
           n == f.packets
<1>0. OneFlow(f, s, d, n)
  BY DEF OneFlow
<1>1. Init => FlowHolds(f)
  <2>1. Init => FlowInv(f, s, d, n)
    <3> HIDE DEF s, d, n
    <3> QED
      BY <1>0, TheEnds DEF Init, FlowInv, NotStarted
  <2> QED
    BY <2>1 DEF FlowHolds
<1>2. TypeOK /\ FlowHolds(f) /\ [Next]_vars => FlowHolds(f)'
  <2> SUFFICES ASSUME TypeOK, FlowInv(f, s, d, n), [Next]_vars
               PROVE  FlowInv(f, s, d, n)'
    BY DEF FlowHolds
  <2> HIDE DEF s, d, n
  <2>1. CASE UNCHANGED vars
    BY <2>1, FlowStutters
  <2>2. CASE Next /\ NotStarted(f, s, d)
    BY <1>0, <2>2, WaitingStep
  <2>3. CASE Next /\ Running(f, s, d, n)
    BY <1>0, <2>3, RunningStep DEF Now, FlowInv
  <2> QED
    BY <2>1, <2>2, <2>3 DEF FlowInv
<1> QED
  BY <1>1, <1>2, TypeCorrect, PTL DEF Spec

\* An active flow is running.
LEMMA ActiveRuns ==
    ASSUME NEW f, Flows = {f}, TypeOK, FlowHolds(f), Active(f)
    PROVE  Now(f, f.source, f.destination, f.packets)
<1>1. f.source \in Hosts /\ NoFile # f
  BY FlowsAssumption, HostsAssumption
<1> QED
  BY <1>1 DEF FlowHolds, FlowInv, NotStarted, Active, Now, OneFlow

(* A source keeps every packet it sent until it is written, whatever the   *)
(* handlers of either end delete.                                          *)
THEOREM OneFlowLosesNothing ==
    ASSUME NEW CONSTANT f, Flows = {f}
    PROVE  Spec => []NothingLost
<1>1. TypeOK /\ FlowHolds(f) => NothingLost
  <2> SUFFICES ASSUME TypeOK, FlowHolds(f) PROVE NothingLost
    OBVIOUS
  <2>0. f.source \in Hosts /\ sent_so_far[f.source] \in Nat
    BY FlowsAssumption DEF TypeOK, FieldsOK
  <2> SUFFICES ASSUME Active(f), NEW c \in 1 .. f.packets, c <= sent_so_far[f.source]
               PROVE  \/ <<f, c>> \in RangeOf(output[f.destination])
                      \/ \E p \in re_packet_map[f.source] : p.id = c /\ p.data = <<f, c>>
    <3>1. \A c \in 1 .. f.packets : c > sent_so_far[f.source] \/ c <= sent_so_far[f.source]
      BY <2>0
    <3> QED
      BY <3>1 DEF NothingLost
  <2> DEFINE s == f.source
             d == f.destination
             n == f.packets
  <2>1. Now(f, s, d, n)
    BY ActiveRuns
  <2>2. /\ Needed(f, s, d, n) /\ Holds(f, output[d], packet_expected[d] - 1)
        /\ packet_expected[d] \in Nat \ {0}
    BY <2>1, NowFacts DEF Now, Running, Written
  <2> HIDE DEF s, d, n
  <2>3. c \in 1 .. n /\ c <= sent_so_far[s]
    BY DEF s, n
  <2>4. CASE c < packet_expected[d]
    <3>1. c \in 1 .. packet_expected[d] - 1
      BY <2>2, <2>4
    <3> QED
      BY <2>2, <3>1 DEF Holds, d
  <2>5. CASE ~(c < packet_expected[d])
    BY <2>2, <2>3, <2>5 DEF Needed, s
  <2> QED
    BY <2>4, <2>5
<1> QED
  BY <1>1, FlowAlways, PTL

(* An ACK in flight acknowledges no packet that is not written, and says   *)
(* last only when the whole file is.                                       *)
THEOREM OneFlowAcksAreHonest ==
    ASSUME NEW CONSTANT f, Flows = {f}
    PROVE  Spec => []AcksAreHonest
<1>1. TypeOK /\ FlowHolds(f) => AcksAreHonest
  <2> SUFFICES ASSUME TypeOK, FlowHolds(f), Active(f),
                      NEW p \in RangeOf(net[<<f.destination, f.source>>]), p.kind = "ACK"
               PROVE  /\ p.id <= packet_expected[f.destination]
                      /\ p.last => packet_expected[f.destination] = f.packets + 1
    BY DEF AcksAreHonest, InFlight
  <2>1. Now(f, f.source, f.destination, f.packets)
    BY ActiveRuns
  <2>2. Ack(f.destination, f.packets, p) /\ packet_expected[f.destination] \in Nat
    BY <2>1, NowFacts DEF Now, Running, Path, Back
  <2> QED
    BY <2>2 DEF Ack, Whole
<1> QED
  BY <1>1, FlowAlways, PTL

(* FIN is in flight only when the whole file is written.                   *)
THEOREM OneFlowFinishesLast ==
    ASSUME NEW CONSTANT f, Flows = {f}
    PROVE  Spec => []FinAfterDelivery
<1>1. TypeOK /\ FlowHolds(f) => FinAfterDelivery
  <2> SUFFICES ASSUME TypeOK, FlowHolds(f), Active(f),
                      NEW p \in RangeOf(net[<<f.source, f.destination>>]), p.kind = "FIN"
               PROVE  packet_expected[f.destination] = f.packets + 1
    BY DEF FinAfterDelivery, InFlight
  <2>1. Now(f, f.source, f.destination, f.packets)
    BY ActiveRuns
  <2> QED
    BY <2>1 DEF Now, Running, Path, Forth, Data, Whole
<1> QED
  BY <1>1, FlowAlways, PTL

(* No normal cookie finds its host with nothing to send but an             *)
(* uninitialised packet.                                                   *)
THEOREM OneFlowSendsAreIntended ==
    ASSUME NEW CONSTANT f, Flows = {f}
    PROVE  Spec => []SendsAreIntended
<1>1. TypeOK /\ FlowHolds(f) => SendsAreIntended
  BY DEF FlowHolds, FlowInv, NotStarted, Running, Ends, Turns, SendsAreIntended
<1> QED
  BY <1>1, FlowAlways, PTL
-----------------------------------------------------------------------------
(* The flow keeps the promise of FileTransfer                              *)

LEMMA FileWrote ==
    ASSUME NEW f, NEW d, NEW k \in Nat, output[d] = File(f, k), d = f.destination
    PROVE  Promise!Wrote(f, k)
<1>1. DOMAIN File(f, k) = 1 .. k /\ \A i \in 1 .. k : File(f, k)[i] = <<f, i>>
  BY DEF File
<1>2. \A i \in 1 .. k : <<f, i>>[1] = f
  OBVIOUS
<1>3. {c \in {output[d][i] : i \in DOMAIN output[d]} : c[1] = f} = {<<f, i>> : i \in 1 .. k}
  BY <1>1, <1>2
<1> QED
  BY <1>3 DEF Promise!Wrote

\* Any step of a running flow that keeps the output and what is torn down.
LEMMA NothingWritten ==
    ASSUME UNCHANGED <<waiting, output, torn_down>>
    PROVE  [Promise!FNext]_(Promise!fvars)
BY DEF Promise!fvars

(* The packets written are the next ones of the file.                      *)
LEMMA InOrderWrites ==
    ASSUME NEW f, NEW s, NEW d, NEW n, Now(f, s, d, n), aborted = "no",
           NEW p \in Packet, Data(f, s, n, p), p.id = packet_expected[d],
           NEW k \in IF p.last THEN {0} ELSE Drains(d, p.id + 1), NEW w \in UShorts,
           output' = [output EXCEPT ![d] = @ \o InOrder(d, p, k, w).chunks],
           UNCHANGED <<waiting, torn_down>>
    PROVE  Promise!FNext
<1>0. PICK r : r = InOrder(d, p, k, w)
  OBVIOUS
<1>1. PICK e : e = packet_expected[d]
  OBVIOUS
<1>2. /\ k \in Nat /\ r.expected = e + 1 + k /\ r.expected <= n + 1
      /\ r.chunks \in Seq({NoData} \cup (Flows \X Nat)) /\ Continues(f, r.chunks, e, k)
  <2>1. /\ k \in Nat /\ r.expected = packet_expected[d] + 1 + k /\ r.expected <= n + 1
        /\ r.chunks \in Seq({NoData} \cup (Flows \X Nat))
        /\ Continues(f, r.chunks, packet_expected[d], k)
    BY <1>0, InOrderShape
  <2> QED
    BY <1>1, <2>1
<1>3. /\ f \in Flows /\ d = f.destination /\ n = f.packets /\ e \in Nat \ {0} /\ n \in Nat
      /\ waiting = {} /\ Written(f, d, n) /\ ~Whole(d, n)
  BY <1>1, NowFacts DEF Now, Running, OneFlow, Data, Whole
<1>4. torn_down = {} /\ output[d] = File(f, e - 1)
  BY <1>1, <1>3 DEF Written
<1>5. Promise!Wrote(f, e - 1)
  BY <1>3, <1>4, FileWrote
<1>6. r.chunks = [i \in 1 .. k + 1 |-> <<f, (e - 1) + i>>]
  <2>1. \A i \in 1 .. k + 1 : e + i - 1 = (e - 1) + i
    BY <1>2, <1>3
  <2>2. Len(r.chunks) = k + 1 /\ \A i \in 1 .. k + 1 : r.chunks[i] = <<f, (e - 1) + i>>
    BY <1>2, <2>1 DEF Continues
  <2>3. r.chunks = [i \in 1 .. Len(r.chunks) |-> r.chunks[i]]
    BY <1>2
  <2> QED
    BY <2>2, <2>3
<1>7. e - 1 \in 0 .. f.packets - 1 /\ k + 1 \in 1 .. f.packets - (e - 1)
  BY <1>2, <1>3
<1>8. Promise!Write(f, e - 1, k + 1)
  BY <1>0, <1>3, <1>4, <1>5, <1>6, <1>7 DEF Promise!Write
<1> QED
  BY <1>3, <1>7, <1>8 DEF Promise!FNext

LEMMA FinAckTearsDown ==
    ASSUME NEW f, NEW s, NEW d, NEW n, Now(f, s, d, n), NEW a \in Hosts, NEW b \in Hosts,
           NEW p, Arrives(a, b, p), ReceiveFinAck(a, b, p), UNCHANGED waiting
    PROVE  [Promise!FNext]_(Promise!fvars)
<1>0. /\ p \in Packet /\ Path(Consumed(a, b), f, s, d, n)
      /\ \/ a = s /\ b = d /\ Forth(f, s, d, n, p)
         \/ a = d /\ b = s /\ Back(d, n, p)
      /\ a = s /\ p.kind # "SYN" => NoSyn(Consumed(a, b)[<<s, d>>])
  BY Arrival, Zenon
<1>1. a = d /\ b = s /\ Whole(d, n)
  BY <1>0 DEF ReceiveFinAck, Forth, Data, Back, Ack
<1>2. output' = output /\ (torn_down' = torn_down \/ torn_down' = torn_down \cup {f})
  <2>1. /\ torn_down' = torn_down \cup
             (IF p.id \in Keys(re_packet_map[destination[s]])
              THEN {file_holder[s]} \cap Flows ELSE {})
        /\ output' = output
    BY <1>1 DEF ReceiveFinAck
  <2>2. {file_holder[s]} \cap Flows = {f}
    BY NowFacts
  <2> QED
    BY <2>1, <2>2
<1>3. CASE torn_down' = torn_down
  BY <1>2, <1>3, NothingWritten
<1>4. CASE torn_down' = torn_down \cup {f} /\ f \notin torn_down
  <2>1. /\ f \in Flows /\ d = f.destination /\ n = f.packets /\ n \in Nat
        /\ waiting = {} /\ Written(f, d, n) /\ aborted = "no" /\ packet_expected[d] - 1 = n
    BY <1>1, NowFacts DEF Now, Running, OneFlow, Whole, Arrives
  <2>2. Promise!Wrote(f, n)
    BY <2>1, FileWrote DEF Written
  <2>3. Promise!TearDown(f)
    BY <1>2, <1>4, <2>1, <2>2 DEF Promise!TearDown
  <2> QED
    BY <2>1, <2>3 DEF Promise!FNext
<1> QED
  BY <1>2, <1>3, <1>4
LEMMA DataWrites ==
    ASSUME NEW f, NEW s, NEW d, NEW n, Now(f, s, d, n), NEW a \in Hosts, NEW b \in Hosts,
           NEW p, Arrives(a, b, p), UNCHANGED waiting,
           ReceiveInOrder(a, b, p) \/ ReceiveInOrderDies(a, b, p)
    PROVE  Promise!FNext
<1>0. /\ p \in Packet /\ Path(Consumed(a, b), f, s, d, n)
      /\ \/ a = s /\ b = d /\ Forth(f, s, d, n, p)
         \/ a = d /\ b = s /\ Back(d, n, p)
      /\ a = s /\ p.kind # "SYN" => NoSyn(Consumed(a, b)[<<s, d>>])
  BY Arrival, Zenon
<1>1. a = s /\ b = d /\ Data(f, s, n, p) /\ p.id = packet_expected[d]
  BY <1>0 DEF ReceiveInOrder, ReceiveInOrderDies, Forth, Back, Ack
<1>11. order_packet_map[d] \in SUBSET Packet /\ p.cwnd \in UShorts
  BY <1>0, NowFacts DEF MapsOK, Packet
<1>2. aborted = "no"
  BY DEF Arrives
<1>3. \A w \in {p.cwnd} \cup {q.cwnd : q \in order_packet_map[d]} : w \in UShorts
  BY <1>11 DEF Packet
<1>4. PICK k \in IF p.last THEN {0} ELSE Drains(d, p.id + 1), w \in UShorts :
         /\ output' = [output EXCEPT ![d] = @ \o InOrder(d, p, k, w).chunks]
         /\ UNCHANGED torn_down
  <2>1. CASE ReceiveInOrder(a, b, p)
    <3>1. PICK k \in IF p.last THEN {0} ELSE Drains(d, p.id + 1),
               w \in {p.cwnd} \cup {q.cwnd : q \in order_packet_map[d]} :
             LET r == InOrder(d, p, k, w)
             IN  /\ packet_expected' = [packet_expected EXCEPT ![d] = r.expected]
                 /\ output' = [output EXCEPT ![d] = @ \o r.chunks]
                 /\ order_packet_map' = [order_packet_map EXCEPT ![d] = @ \ r.drained]
                 /\ state' = [state EXCEPT ![d] =
                                IF r.last THEN "FIN" ELSE "sending_ack_listening"]
                 /\ done_transmission' = [done_transmission EXCEPT ![d] = r.last \/ @]
                 /\ SendKept(Consumed(s, d), d, r.ack)
      BY <1>1, <2>1 DEF ReceiveInOrder
    <3>2. w \in UShorts /\ UNCHANGED torn_down
      BY <1>3, <2>1 DEF ReceiveInOrder
    <3>3. output' = [output EXCEPT ![d] = @ \o InOrder(d, p, k, w).chunks]
      BY <3>1
    <3> QED
      BY <3>2, <3>3
  <2>2. CASE ReceiveInOrderDies(a, b, p)
    <3>1. PICK k \in IF p.last THEN {0} ELSE Drains(d, p.id + 1) :
             /\ output' = [output EXCEPT ![d] = @ \o InOrder(d, p, k, 0).chunks]
             /\ Abort("window") \/ Abort("iterator")
      BY <1>1, <2>2 DEF ReceiveInOrderDies
    <3>2. UNCHANGED torn_down
      BY <3>1 DEF Abort
    <3> QED
      BY <3>1, <3>2, ZeroIsUShort
  <2> QED
    BY <2>1, <2>2
<1> QED
  BY <1>0, <1>1, <1>2, <1>4, InOrderWrites, Zenon

LEMMA DeliveryWrites ==
    ASSUME NEW f, NEW s, NEW d, NEW n, Now(f, s, d, n),
           NEW a \in Hosts, NEW b \in Hosts, Delivery(a, b)
    PROVE  [Promise!FNext]_(Promise!fvars)
<1>1. PICK p \in {Marked(Head(net[<<a, b>>]), w) : w \in Windows} :
        \/ /\ \/ ReceiveSyn(a, b, p)
              \/ ReceiveSynAck(a, b, p)
              \/ ReceiveInOrder(a, b, p)
              \/ ReceiveAhead(a, b, p)
              \/ ReceiveRepeated(a, b, p)
              \/ ReceiveAck(a, b, p)
              \/ ReceiveFin(a, b, p)
              \/ ReceiveFinAck(a, b, p)
              \/ ReceiveOther(a, b, p)
           /\ UNCHANGED <<waiting, early, lost>>
        \/ ReceiveInOrderDies(a, b, p)
        \/ ReceiveDies(a, b, p)
  BY DEF Delivery, Receive
<1>2. Arrives(a, b, p)
  BY DEF Delivery, Arrives
<1>3. UNCHANGED waiting
  BY <1>1 DEF ReceiveDies, ReceiveInOrderDies, Abort
<1>4. CASE ReceiveInOrder(a, b, p) \/ ReceiveInOrderDies(a, b, p)
  BY <1>2, <1>3, <1>4, DataWrites
<1>5. CASE ReceiveFinAck(a, b, p)
  BY <1>2, <1>3, <1>5, FinAckTearsDown
<1>6. CASE \/ ReceiveSyn(a, b, p) \/ ReceiveSynAck(a, b, p) \/ ReceiveAhead(a, b, p)
           \/ ReceiveRepeated(a, b, p) \/ ReceiveAck(a, b, p) \/ ReceiveFin(a, b, p)
           \/ ReceiveOther(a, b, p) \/ ReceiveDies(a, b, p)
  <2>1. UNCHANGED report
    BY <1>6 DEF ReceiveSyn, ReceiveSynAck, ReceiveAhead, ReceiveRepeated, ReceiveAck,
                ReceiveFin, ReceiveOther, ReceiveDies, Abort, report
  <2> QED
    BY <1>3, <2>1, NothingWritten DEF report
<1> QED
  BY <1>1, <1>4, <1>5, <1>6

(* Every other step leaves the output and what is torn down alone.         *)
LEMMA StepKeepsPromise ==
    ASSUME NEW f, Flows = {f}, TypeOK, FlowHolds(f), Next
    PROVE  [Promise!FNext]_(Promise!fvars)
<1>1. CASE \E g \in Flows : StartFlow(g)
  <2>1. /\ f \in waiting /\ waiting' = waiting \ {f} /\ UNCHANGED <<output, torn_down>>
    BY <1>1 DEF StartFlow, report
  <2> QED
    BY <2>1 DEF Promise!FNext, Promise!Start
<1>2. ASSUME NEW a \in Hosts, NEW b \in Hosts, Delivery(a, b)
      PROVE  [Promise!FNext]_(Promise!fvars)
  <2>1. OneFlow(f, f.source, f.destination, f.packets)
    BY DEF OneFlow
  <2>2. ~NotStarted(f, f.source, f.destination)
    BY <1>2 DEF NotStarted, Delivery
  <2>3. Now(f, f.source, f.destination, f.packets)
    BY <2>1, <2>2 DEF Now, FlowHolds, FlowInv
  <2> QED
    BY <1>2, <2>3, DeliveryWrites, Zenon
<1>3. CASE \/ \E h \in Hosts : NormalTimer(h) \/ NormalTimerDies(h)
           \/ \E h \in Hosts : TimerStep(h) \/ LeakedTimerStep(h)
           \/ \E a, b \in Hosts : Lose(a, b)
  <2>1. UNCHANGED <<waiting, output, torn_down>>
    BY <1>3 DEF NormalTimer, NormalTimerDies, Abort, TimerStep, LeakedTimerStep,
                RetransmissionTimer, Lose, report
  <2> QED
    BY <2>1, NothingWritten
<1> QED
  BY <1>1, <1>2, <1>3 DEF Next

(* The only flow is written to its destination in order, once each, and is *)
(* torn down only when all of it was: receive implements FileTransfer.     *)
THEOREM OneFlowDeliversInOrder ==
    ASSUME NEW CONSTANT f, Flows = {f}
    PROVE  Spec => DeliversInOrder
<1>1. Init => Promise!FInit
  BY DEF Init, Promise!FInit
<1>2. TypeOK /\ FlowHolds(f) /\ [Next]_vars => [Promise!FNext]_(Promise!fvars)
  <2>1. UNCHANGED vars => UNCHANGED Promise!fvars
    BY DEF vars, report, Promise!fvars
  <2> QED
    BY <2>1, StepKeepsPromise
<1> QED
  BY <1>1, <1>2, FlowAlways, PTL DEF Spec, DeliversInOrder, Promise!FSpec
=============================================================================
