--------------------------- MODULE RoundTripProofs ---------------------------
(***************************************************************************)
(* Proofs about RoundTrip: an ACK always finds a sample or the last one,   *)
(* virtual time goes on, the estimate covers the path and nothing is sent  *)
(* again without need, for every path, file, window and loss.              *)
(***************************************************************************)
EXTENDS RoundTrip, EventMapProofs

-----------------------------------------------------------------------------
(* Types                                                                   *)

Timers == [time : Int, kind : {"normal", "DATA", "ACK"}, id : Nat, cwnd : Nat]
Arrivals == [time : Int, kind : {"DATA", "ACK"}, id : Nat, cwnd : Nat]

MapsOK ==
    /\ timer_map \in Seq(Timers) /\ Sorted(timer_map)
    /\ packet_map \in Seq(Arrivals) /\ Sorted(packet_map)

\* Nothing was sent yet.
Fresh ==
    /\ sent_so_far = 0 /\ ~done_transmission /\ packet_map = <<>>
    /\ \A e \in ToSet(timer_map) : e.kind = "normal"

TypeInv ==
    /\ MapsOK
    /\ clock \in Int /\ path \in Paths /\ free \in Int
    /\ rtt_in_host \in Int /\ queue_for_rtt \in Seq(Int)
    /\ rtt_estimation \in Int \cup {Unwritten}
    /\ not_first_time_rtt \in BOOLEAN
    /\ sent_so_far \in 0 .. FileLength /\ lastest_ack_rec \in Int
    /\ cwnd_host \in Nat \ {0} /\ done_transmission \in BOOLEAN
    /\ packet_expected \in Nat \ {0} /\ order_packet_map \in SUBSET Nat

\* Without a sample nothing was sent, unless one was remembered.
SampleInv == rtt_estimation = Unwritten /\ queue_for_rtt = <<>> => Fresh

LEMMA TimesOfMaps ==
    /\ \A r \in Timers : r.time \in Int
    /\ \A r \in Arrivals : r.time \in Int
BY DEF Timers, Arrivals

LEMMA PathOK ==
    ASSUME NEW p \in Paths
    PROVE  p.length \in Nat /\ p.there \in Nat \ {0} /\ p.back \in Nat \ {0}
BY PathsAssumption

LEMMA WrappedInt ==
    ASSUME NEW x \in Int
    PROVE  Wrapped(x) \in Int
<1>1. IntSize \in Nat /\ IntSize \div 2 \in Int /\ x + IntSize \div 2 \in Int
  BY SizesAssumption
<1>2. (x + IntSize \div 2) % IntSize \in Int
  BY <1>1, SizesAssumption
<1> QED
  BY <1>1, <1>2 DEF Wrapped

(* Max and Min of two numbers.                                             *)
LEMMA MaxOfTwo ==
    ASSUME NEW a \in Int, NEW b \in Int
    PROVE  Max({a, b}) = IF a >= b THEN a ELSE b
<1>1. {a, b} \in SUBSET Int
  OBVIOUS
<1>2. CASE a >= b
  <2>1. a \in {a, b} /\ \A n \in {a, b} : n <= a
    BY <1>2
  <2> QED
    BY <1>1, <1>2, <2>1, MaxIs
<1>3. CASE ~(a >= b)
  <2>1. b \in {a, b} /\ \A n \in {a, b} : n <= b
    BY <1>3
  <2> QED
    BY <1>1, <1>3, <2>1, MaxIs
<1> QED
  BY <1>2, <1>3

LEMMA MinOfTwo ==
    ASSUME NEW a \in Int, NEW b \in Int
    PROVE  Min({a, b}) = IF a <= b THEN a ELSE b
<1>1. \E z \in {a, b} : \A u \in {a, b} : z <= u
  OBVIOUS
<1> QED
  BY <1>1 DEF Min

(* The first timer, or the first arrival, is one of its map.               *)
LEMMA FirstOK ==
    ASSUME MapsOK
    PROVE  /\ \A e : Fires(e) =>
                 /\ timer_map # <<>> /\ e \in Timers /\ e = Head(timer_map)
                 /\ e \in ToSet(timer_map)
                 /\ Tail(timer_map) \in Seq(Timers) /\ Sorted(Tail(timer_map))
                 /\ ToSet(timer_map) = ToSet(Tail(timer_map)) \cup {e}
           /\ \A e : Arrives(e) =>
                 /\ packet_map # <<>> /\ e \in Arrivals /\ e = Head(packet_map)
                 /\ e \in ToSet(packet_map)
                 /\ Tail(packet_map) \in Seq(Arrivals) /\ Sorted(Tail(packet_map))
                 /\ ToSet(packet_map) = ToSet(Tail(packet_map)) \cup {e}
<1>1. ASSUME NEW e, Fires(e)
      PROVE  timer_map # <<>> /\ e = Head(timer_map)
  BY <1>1 DEF Fires, TimerFirst, NextTime
<1>2. ASSUME NEW e, Arrives(e)
      PROVE  packet_map # <<>> /\ e = Head(packet_map)
  BY <1>2 DEF Arrives, PacketFirst, NextTime
<1>3. timer_map # <<>> =>
        /\ Tail(timer_map) \in Seq(Timers) /\ Sorted(Tail(timer_map)) /\ Head(timer_map) \in Timers
        /\ ToSet(timer_map) = ToSet(Tail(timer_map)) \cup {Head(timer_map)}
  BY TimesOfMaps, TailHolds DEF MapsOK
<1>4. packet_map # <<>> =>
        /\ Tail(packet_map) \in Seq(Arrivals) /\ Sorted(Tail(packet_map))
        /\ Head(packet_map) \in Arrivals
        /\ ToSet(packet_map) = ToSet(Tail(packet_map)) \cup {Head(packet_map)}
  BY TimesOfMaps, TailHolds DEF MapsOK
<1> QED
  BY <1>1, <1>2, <1>3, <1>4

\* The map an event e or none is put into.
LEMMA TimerPut ==
    ASSUME NEW map \in Seq(Timers), Sorted(map), NEW e \in Timers
    PROVE  /\ Schedule(map, e) \in Seq(Timers) /\ Sorted(Schedule(map, e))
           /\ ToSet(Schedule(map, e)) = ToSet(map) \cup {e}
BY TimesOfMaps, ScheduleHolds

LEMMA ArrivalPut ==
    ASSUME NEW map \in Seq(Arrivals), Sorted(map), NEW e \in Arrivals
    PROVE  /\ Schedule(map, e) \in Seq(Arrivals) /\ Sorted(Schedule(map, e))
           /\ ToSet(Schedule(map, e)) = ToSet(map) \cup {e}
BY TimesOfMaps, ScheduleHolds

LEMMA TimersPut ==
    ASSUME NEW map \in Seq(Timers), Sorted(map), NEW I \in SUBSET (1 .. FileLength),
           NEW at, \A i \in I : at[i] \in Timers
    PROVE  /\ ScheduleAll(map, at, I) \in Seq(Timers) /\ Sorted(ScheduleAll(map, at, I))
           /\ ToSet(ScheduleAll(map, at, I)) = ToSet(map) \cup {at[i] : i \in I}
           /\ \A K : Single(map, K) /\ (\A i \in I : at[i] \notin K)
                       => Single(ScheduleAll(map, at, I), K)
<1>1. FileLength \in Nat
  BY SizesAssumption
<1> QED
  BY <1>1, TimesOfMaps, ScheduleAllHolds, Zenon

LEMMA ArrivalsPut ==
    ASSUME NEW map \in Seq(Arrivals), Sorted(map), NEW I \in SUBSET (1 .. FileLength),
           NEW at, \A i \in I : at[i] \in Arrivals
    PROVE  /\ ScheduleAll(map, at, I) \in Seq(Arrivals) /\ Sorted(ScheduleAll(map, at, I))
           /\ ToSet(ScheduleAll(map, at, I)) = ToSet(map) \cup {at[i] : i \in I}
           /\ \A K : Single(map, K) /\ (\A i \in I : at[i] \notin K)
                       => Single(ScheduleAll(map, at, I), K)
<1>1. FileLength \in Nat
  BY SizesAssumption
<1> QED
  BY <1>1, TimesOfMaps, ScheduleAllHolds, Zenon

LEMMA DeliverPuts ==
    ASSUME NEW map \in Seq(Arrivals), Sorted(map), NEW e \in Arrivals, Deliver(map, e)
    PROVE  /\ packet_map' \in Seq(Arrivals) /\ Sorted(packet_map')
           /\ ToSet(packet_map') = ToSet(map) \/ ToSet(packet_map') = ToSet(map) \cup {e}
BY ArrivalPut DEF Deliver

(* A copy and its timer.                                                   *)
LEMMA KeepPuts ==
    ASSUME NEW map \in Seq(Timers), Sorted(map), NEW now \in Int, NEW wait \in Int,
           NEW kind \in {"DATA", "ACK"}, NEW id \in Nat, NEW cwnd \in Nat
    PROVE  /\ Event(Wrapped(now + wait), kind, id, cwnd) \in Timers
           /\ Keep(map, now, kind, id, cwnd, wait) \in Seq(Timers)
           /\ Sorted(Keep(map, now, kind, id, cwnd, wait))
           /\ ToSet(Keep(map, now, kind, id, cwnd, wait)) =
                ToSet(map) \cup {Event(Wrapped(now + wait), kind, id, cwnd)}
<1>1. Wrapped(now + wait) \in Int
  BY WrappedInt
<1>2. Event(Wrapped(now + wait), kind, id, cwnd) \in Timers
  BY <1>1 DEF Event, Timers
<1> QED
  BY <1>2, TimerPut DEF Keep

LEMMA NormalPuts ==
    ASSUME NEW map \in Seq(Timers), Sorted(map), NEW now \in Int
    PROVE  /\ Event(now, "normal", 0, 0) \in Timers
           /\ Normal(map, now) \in Seq(Timers) /\ Sorted(Normal(map, now))
           /\ ToSet(Normal(map, now)) = ToSet(map) \cup {Event(now, "normal", 0, 0)}
<1>1. Event(now, "normal", 0, 0) \in Timers
  BY DEF Event, Timers
<1> QED
  BY <1>1, TimerPut DEF Normal

LEMMA ForgetKeeps ==
    ASSUME NEW map \in Seq(Timers), Sorted(map), NEW copies
    PROVE  /\ Forget(map, copies) \in Seq(Timers) /\ Sorted(Forget(map, copies))
           /\ ToSet(Forget(map, copies)) =
                {e \in ToSet(map) : <<e.kind, e.id>> \notin copies}
           /\ \A K : Single(map, K) => Single(Forget(map, copies), K)
<1> DEFINE I == {i \in DOMAIN map : <<map[i].kind, map[i].id>> \notin copies}
<1>1. I \in SUBSET (DOMAIN map)
  OBVIOUS
<1>2. /\ Kept(map, I) \in Seq(Timers) /\ Sorted(Kept(map, I))
      /\ ToSet(Kept(map, I)) = {map[i] : i \in I}
      /\ \A K : Single(map, K) => Single(Kept(map, I), K)
  <2> HIDE DEF I
  <2> QED
    BY <1>1, TimesOfMaps, KeptHolds
<1>3. {map[i] : i \in I} = {e \in ToSet(map) : <<e.kind, e.id>> \notin copies}
  BY DEF ToSet
<1> QED
  BY <1>2, <1>3 DEF Forget

(* The numbers of a burst.                                                 *)
LEMMA BurstIs ==
    ASSUME sent_so_far \in 0 .. FileLength, cwnd_host \in Nat \ {0}
    PROVE  \E n \in Nat :
             /\ Burst = sent_so_far + 1 .. sent_so_far + n
             /\ Burst \in SUBSET (1 .. FileLength)
             /\ Cardinality(Burst) = n /\ sent_so_far + n <= FileLength
             /\ sent_so_far = 0 => n >= 1
<1> DEFINE to == Min({sent_so_far + cwnd_host, FileLength})
<1>1. /\ to = IF sent_so_far + cwnd_host <= FileLength
              THEN sent_so_far + cwnd_host ELSE FileLength
      /\ sent_so_far \in Nat /\ FileLength \in Nat \ {0}
  BY SizesAssumption, MinOfTwo
<1> HIDE DEF to
<1> DEFINE n == to - sent_so_far
<1>2. n \in Nat /\ to = sent_so_far + n /\ to <= FileLength /\ to \in Nat
  BY <1>1
<1>3. sent_so_far = 0 => n >= 1
  BY <1>1
<1>4. Burst = sent_so_far + 1 .. sent_so_far + n
  BY <1>2 DEF Burst, to
<1>5. Cardinality(Burst) = n
  <2>1. sent_so_far + 1 \in Int /\ sent_so_far + n \in Int
    BY <1>1, <1>2
  <2>2. Cardinality(sent_so_far + 1 .. sent_so_far + n) =
          IF sent_so_far + 1 <= sent_so_far + n
          THEN (sent_so_far + n) - (sent_so_far + 1) + 1 ELSE 0
    BY <2>1, FS_Interval
  <2> HIDE DEF n
  <2> QED
    BY <1>1, <1>2, <1>4, <2>2
<1>6. Burst \in SUBSET (1 .. FileLength)
  <2> HIDE DEF n
  <2> QED
    BY <1>1, <1>2, <1>4
<1> QED
  BY <1>2, <1>3, <1>4, <1>5, <1>6

LEMMA ProductInt ==
    ASSUME NEW a \in Int, NEW b \in Int
    PROVE  a * b \in Int
OBVIOUS

LEMMA WaitsInt ==
    ASSUME TypeInv
    PROVE  /\ BurstWait \in Int /\ InitialRtt \in Nat \ {0}
           /\ \A e : ResendWait(e) \in Int
<1>1. rtt_in_host \in Int /\ cwnd_host + 2 \in Int
  BY DEF TypeInv
<1>2. BurstWait \in Int
  BY <1>1, ProductInt DEF BurstWait
<1> QED
  BY <1>1, <1>2, SizesAssumption DEF ResendWait

\* The copy and the arrival of packet id of a burst at time now.
CopyOf(now, id) == Event(Wrapped(now + BurstWait), "DATA", id, 0)
ArrivalOf(now, id) ==
    Event(Max({now, free}) + (id - sent_so_far) * path.length + path.there, "DATA", id, 0)

\* The samples q after n packets were sent at time now.
Sampled(q, now, n) == q \o [k \in 1 .. n |-> now]

(* What sending a burst changes.                                           *)
LEMMA BurstSends ==
    ASSUME TypeInv, NEW e, SendBurst(e)
    PROVE  \E n \in Nat :
             /\ Burst = sent_so_far + 1 .. sent_so_far + n /\ sent_so_far + n <= FileLength
             /\ sent_so_far = 0 => n >= 1
             /\ sent_so_far' = sent_so_far + n /\ clock' = e.time
             /\ queue_for_rtt' = Sampled(queue_for_rtt, clock', n)
             /\ free' = Max({clock', free}) + n * path.length
             /\ done_transmission' \in BOOLEAN
<1>1. PICK n \in Nat :
        /\ Burst = sent_so_far + 1 .. sent_so_far + n
        /\ Cardinality(Burst) = n /\ sent_so_far + n <= FileLength
        /\ sent_so_far = 0 => n >= 1
  BY BurstIs DEF TypeInv
<1> QED
  BY <1>1 DEF SendBurst, Fires, Sampled

LEMMA BurstTimers ==
    ASSUME TypeInv, NEW e, SendBurst(e)
    PROVE  /\ timer_map' \in Seq(Timers) /\ Sorted(timer_map')
           /\ ToSet(timer_map') = ToSet(Tail(timer_map)) \cup {CopyOf(clock', id) : id \in Burst}
           /\ \A K : Single(Tail(timer_map), K) /\ (\A id \in Burst : CopyOf(clock', id) \notin K)
                       => Single(timer_map', K)
<1> DEFINE copy == [id \in Burst |-> Event(Wrapped(clock' + BurstWait), "DATA", id, 0)]
<1>1. /\ Tail(timer_map) \in Seq(Timers) /\ Sorted(Tail(timer_map))
      /\ e \in Timers /\ clock' = e.time
  BY FirstOK DEF SendBurst, TypeInv, Fires
<1>2. timer_map' = ScheduleAll(Tail(timer_map), copy, Burst)
  BY DEF SendBurst
<1>3. Burst \in SUBSET (1 .. FileLength) /\ FileLength \in Nat
  BY BurstIs, SizesAssumption DEF TypeInv
<1>4. \A id \in Burst : copy[id] \in Timers /\ copy[id] = CopyOf(clock', id)
  <2>1. clock' + BurstWait \in Int
    BY <1>1, TimesOfMaps, WaitsInt
  <2>2. Wrapped(clock' + BurstWait) \in Int
    BY <2>1, WrappedInt
  <2> QED
    BY <1>3, <2>2 DEF Timers, Event, CopyOf
<1> HIDE DEF copy
<1>5. {copy[id] : id \in Burst} = {CopyOf(clock', id) : id \in Burst}
  BY <1>4
<1> QED
  <2>1. \A id \in Burst : copy[id] \in Timers
    BY <1>4
  <2>2. /\ timer_map' \in Seq(Timers) /\ Sorted(timer_map')
        /\ ToSet(timer_map') = ToSet(Tail(timer_map)) \cup {copy[id] : id \in Burst}
        /\ \A K : Single(Tail(timer_map), K) /\ (\A id \in Burst : copy[id] \notin K)
                    => Single(timer_map', K)
    BY <1>1, <1>2, <1>3, <2>1, TimersPut
  <2> QED
    BY <1>4, <1>5, <2>2

LEMMA BurstArrivals ==
    ASSUME TypeInv, NEW e, SendBurst(e)
    PROVE  /\ packet_map' \in Seq(Arrivals) /\ Sorted(packet_map')
           /\ ToSet(packet_map') \subseteq
                ToSet(packet_map) \cup {ArrivalOf(clock', id) : id \in Burst}
           /\ ToSet(packet_map) \subseteq ToSet(packet_map')
           /\ \A K : Single(packet_map, K) /\ (\A id \in Burst : ArrivalOf(clock', id) \notin K)
                       => Single(packet_map', K)
<1> DEFINE after(k) == Max({clock', free}) + k * path.length
           arrival == [id \in Burst |->
                         Event(after(id - sent_so_far) + path.there, "DATA", id, 0)]
<1>1. PICK dropped \in SUBSET Burst :
        packet_map' = ScheduleAll(packet_map, arrival, Burst \ dropped)
  BY DEF SendBurst
<1>2. /\ packet_map \in Seq(Arrivals) /\ Sorted(packet_map)
      /\ e \in Timers /\ clock' = e.time /\ clock' \in Int
  BY FirstOK, TimesOfMaps DEF SendBurst, TypeInv, MapsOK, Fires
<1>3. Burst \in SUBSET (1 .. FileLength) /\ FileLength \in Nat
      /\ Burst \ dropped \in SUBSET (1 .. FileLength)
  BY BurstIs, SizesAssumption DEF TypeInv
<1>4. \A id \in Burst : arrival[id] \in Arrivals /\ arrival[id] = ArrivalOf(clock', id)
  <2> SUFFICES ASSUME NEW id \in Burst
               PROVE  arrival[id] \in Arrivals /\ arrival[id] = ArrivalOf(clock', id)
    OBVIOUS
  <2>1. Max({clock', free}) \in Int /\ path.length \in Int /\ path.there \in Int
    BY <1>2, MaxOfTwo, PathOK DEF TypeInv
  <2>2. id - sent_so_far \in Int /\ id \in Nat
    BY <1>3 DEF TypeInv
  <2>3. (id - sent_so_far) * path.length \in Int
    BY <2>1, <2>2, ProductInt
  <2>4. after(id - sent_so_far) + path.there \in Int
    BY <2>1, <2>3
  <2>5. arrival[id] = Event(after(id - sent_so_far) + path.there, "DATA", id, 0)
    OBVIOUS
  <2> QED
    BY <2>2, <2>4, <2>5 DEF Arrivals, Event, ArrivalOf
<1> HIDE DEF arrival
<1>5. \A id \in Burst \ dropped : arrival[id] \in Arrivals
  BY <1>4
<1>6. /\ packet_map' \in Seq(Arrivals) /\ Sorted(packet_map')
      /\ ToSet(packet_map') = ToSet(packet_map) \cup {arrival[id] : id \in Burst \ dropped}
      /\ \A K : Single(packet_map, K) /\ (\A id \in Burst \ dropped : arrival[id] \notin K)
                  => Single(packet_map', K)
  BY <1>1, <1>2, <1>3, <1>5, ArrivalsPut
<1>7. {arrival[id] : id \in Burst \ dropped} \subseteq {ArrivalOf(clock', id) : id \in Burst}
  BY <1>4
<1> QED
  BY <1>4, <1>6, <1>7

-----------------------------------------------------------------------------
(* Types and samples: each action                                          *)

(* The samples of a burst.                                                 *)
LEMMA SamplesAdded ==
    ASSUME NEW q \in Seq(Int), NEW now \in Int, NEW n \in Nat
    PROVE  /\ Sampled(q, now, n) \in Seq(Int) /\ Len(Sampled(q, now, n)) = Len(q) + n
           /\ \A i \in 1 .. Len(q) : Sampled(q, now, n)[i] = q[i]
           /\ \A i \in Len(q) + 1 .. Len(q) + n : Sampled(q, now, n)[i] = now
           /\ Sampled(q, now, n) = <<>> => q = <<>> /\ n = 0
<1> DEFINE s == [k \in 1 .. n |-> now]
<1>1. s \in Seq(Int) /\ Len(s) = n /\ \A k \in 1 .. n : s[k] = now
  OBVIOUS
<1> HIDE DEF s
<1>2. /\ q \o s \in Seq(Int) /\ Len(q \o s) = Len(q) + n
      /\ \A i \in 1 .. Len(q) : (q \o s)[i] = q[i]
      /\ \A i \in Len(q) + 1 .. Len(q) + n : (q \o s)[i] = s[i - Len(q)]
  BY <1>1
<1>3. \A i \in Len(q) + 1 .. Len(q) + n : i - Len(q) \in 1 .. n
  OBVIOUS
<1>4. q \o s = <<>> => q = <<>> /\ n = 0
  BY <1>1, <1>2
<1> QED
  BY <1>1, <1>2, <1>3, <1>4 DEF s, Sampled

LEMMA SendBurstTyped ==
    ASSUME TypeInv, SampleInv, NEW e, SendBurst(e)
    PROVE  TypeInv' /\ SampleInv'
<1>1. PICK n \in Nat :
        /\ sent_so_far + n <= FileLength /\ (sent_so_far = 0 => n >= 1)
        /\ sent_so_far' = sent_so_far + n /\ clock' = e.time
        /\ queue_for_rtt' = Sampled(queue_for_rtt, clock', n)
        /\ free' = Max({clock', free}) + n * path.length
        /\ done_transmission' \in BOOLEAN
  BY BurstSends
<1>2. MapsOK'
  BY BurstTimers, BurstArrivals DEF MapsOK
<1>3. e \in Timers /\ clock' \in Int
  BY <1>1, FirstOK, TimesOfMaps DEF SendBurst, TypeInv
<1>4. /\ queue_for_rtt' \in Seq(Int)
      /\ queue_for_rtt' = <<>> => queue_for_rtt = <<>> /\ n = 0
  BY <1>1, <1>3, SamplesAdded DEF TypeInv
<1>5. free' \in Int
  <2>1. free \in Int /\ path.length \in Int
    BY PathOK DEF TypeInv
  <2>2. n * path.length \in Int
    BY <2>1, ProductInt
  <2>3. Max({clock', free}) \in Int
    BY <1>3, <2>1, MaxOfTwo
  <2> QED
    BY <1>1, <2>2, <2>3
<1>6. /\ path' = path /\ rtt_in_host' = rtt_in_host /\ rtt_estimation' = rtt_estimation
      /\ not_first_time_rtt' = not_first_time_rtt /\ lastest_ack_rec' = lastest_ack_rec
      /\ cwnd_host' = cwnd_host
      /\ packet_expected' = packet_expected /\ order_packet_map' = order_packet_map
  BY DEF SendBurst, Fires, destination
<1>7. sent_so_far' \in 0 .. FileLength
  BY <1>1, SizesAssumption DEF TypeInv
<1>8. TypeInv'
  BY <1>1, <1>2, <1>3, <1>4, <1>5, <1>6, <1>7 DEF TypeInv
<1>9. SampleInv'
  BY <1>1, <1>4, <1>6 DEF SampleInv, Fresh
<1> QED
  BY <1>8, <1>9

LEMMA SendNothingTyped ==
    ASSUME TypeInv, SampleInv, NEW e, SendNothing(e)
    PROVE  TypeInv' /\ SampleInv'
<1>1. /\ e \in Timers /\ timer_map' = Tail(timer_map) /\ clock' = e.time /\ clock' \in Int
      /\ Tail(timer_map) \in Seq(Timers) /\ Sorted(Tail(timer_map))
      /\ ToSet(timer_map) = ToSet(Tail(timer_map)) \cup {e}
  BY FirstOK, TimesOfMaps DEF SendNothing, Fires, TypeInv
<1>2. UNCHANGED <<packet_map, path, free, estimate, source, destination>>
  BY DEF SendNothing, Fires, estimate, source, destination
<1> QED
  BY <1>1, <1>2 DEF TypeInv, SampleInv, Fresh, MapsOK, estimate, source, destination

LEMMA ResendTyped ==
    ASSUME TypeInv, SampleInv, NEW e, Resend(e)
    PROVE  TypeInv' /\ SampleInv'
<1>1. /\ e \in Timers /\ clock' = e.time /\ e.time \in Int /\ e.kind \in {"DATA", "ACK"}
      /\ e.id \in Nat /\ e.cwnd \in Nat /\ e \in ToSet(timer_map)
      /\ Tail(timer_map) \in Seq(Timers) /\ Sorted(Tail(timer_map))
  BY FirstOK DEF Resend, Fires, TypeInv, Timers
<1>2. timer_map' \in Seq(Timers) /\ Sorted(timer_map')
  BY <1>1, WaitsInt, KeepPuts DEF Resend
<1>3. packet_map' \in Seq(Arrivals) /\ Sorted(packet_map') /\ free' \in Int
  <2>1. packet_map \in Seq(Arrivals) /\ Sorted(packet_map)
    BY DEF TypeInv, MapsOK
  <2>2. /\ Leaves(e.time, free) \in Int
        /\ path.there \in Int /\ path.back \in Int /\ free \in Int
    <3>1. path.length \in Int /\ path.there \in Int /\ path.back \in Int /\ free \in Int
      BY PathOK DEF TypeInv
    <3>2. Max({e.time, free}) \in Int
      BY <1>1, <3>1, MaxOfTwo
    <3> QED
      BY <3>1, <3>2 DEF Leaves
  <2>3. CASE e.kind = "DATA"
    <3>1. SendData(packet_map, e.time, e.id)
      BY <2>3 DEF Resend
    <3>2. Event(Leaves(e.time, free) + path.there, "DATA", e.id, 0) \in Arrivals
      BY <1>1, <2>2 DEF Event, Arrivals
    <3> QED
      BY <2>1, <2>2, <3>1, <3>2, DeliverPuts DEF SendData
  <2>4. CASE e.kind = "ACK"
    <3>1. SendAck(packet_map, e.time, e.id, e.cwnd)
      BY <2>4 DEF Resend
    <3>2. Event(e.time + path.back, "ACK", e.id, e.cwnd) \in Arrivals
      BY <1>1, <2>2 DEF Event, Arrivals
    <3> QED
      BY <2>1, <2>2, <3>1, <3>2, DeliverPuts DEF SendAck
  <2> QED
    BY <1>1, <2>3, <2>4
<1>4. UNCHANGED <<path, estimate, source, destination>>
  BY DEF Resend, Fires, estimate, source, destination
<1>5. TypeInv'
  BY <1>1, <1>2, <1>3, <1>4 DEF TypeInv, MapsOK, estimate, source, destination
<1>6. SampleInv'
  <2>1. ~Fresh
    BY <1>1 DEF Fresh
  <2> QED
    BY <1>4, <2>1 DEF SampleInv, estimate
<1> QED
  BY <1>5, <1>6

(* What an arrival finds.                                                  *)
LEMMA ArrivesTyped ==
    ASSUME TypeInv, SampleInv, NEW e, Arrives(e)
    PROVE  /\ e \in Arrivals /\ clock' = e.time /\ clock' \in Int /\ e.id \in Nat /\ e.cwnd \in Nat
           /\ e \in ToSet(packet_map)
           /\ Tail(packet_map) \in Seq(Arrivals) /\ Sorted(Tail(packet_map))
           /\ timer_map \in Seq(Timers) /\ Sorted(timer_map)
           /\ path' = path /\ sent_so_far' = sent_so_far
           /\ rtt_estimation = Unwritten => queue_for_rtt # <<>>
<1>1. packet_map # <<>> /\ e \in Arrivals
      /\ Tail(packet_map) \in Seq(Arrivals) /\ Sorted(Tail(packet_map))
      /\ e \in ToSet(packet_map)
  BY FirstOK DEF TypeInv
<1>2. clock' = e.time /\ path' = path /\ sent_so_far' = sent_so_far
  BY DEF Arrives
<1>3. timer_map \in Seq(Timers) /\ Sorted(timer_map)
  BY DEF TypeInv, MapsOK
<1>4. rtt_estimation = Unwritten => queue_for_rtt # <<>>
  BY <1>1 DEF SampleInv, Fresh
<1> QED
  BY <1>1, <1>2, <1>3, <1>4 DEF Arrivals

LEMMA NextIs ==
    ASSUME NEW id \in Nat, NEW next \in NextExpected(id)
    PROVE  /\ next \in id + 1 .. FileLength + 1 /\ next \in Nat \ {0}
           /\ id + 1 .. next - 1 \subseteq order_packet_map
<1>1. FileLength \in Nat
  BY SizesAssumption
<1>2. /\ next \in id + 1 .. FileLength + 1
      /\ next > id + 1 => id + 1 .. next - 1 \subseteq order_packet_map
  BY DEF NextExpected
<1>3. next = id + 1 => id + 1 .. next - 1 = {}
  BY <1>1, <1>2
<1> QED
  BY <1>1, <1>2, <1>3

LEMMA DataInOrderTyped ==
    ASSUME TypeInv, SampleInv, NEW e, DataInOrder(e)
    PROVE  TypeInv' /\ SampleInv'
<1>1. Arrives(e) /\ e.kind = "DATA"
  BY DEF DataInOrder
<1>2. /\ e \in Arrivals /\ clock' = e.time /\ clock' \in Int /\ e.id \in Nat
      /\ Tail(packet_map) \in Seq(Arrivals) /\ Sorted(Tail(packet_map))
      /\ timer_map \in Seq(Timers) /\ Sorted(timer_map)
      /\ path' = path /\ sent_so_far' = sent_so_far
      /\ rtt_estimation = Unwritten => queue_for_rtt # <<>>
  BY <1>1, ArrivesTyped
<1>3. PICK next \in NextExpected(e.id), w \in Windows :
        /\ packet_expected' = next
        /\ order_packet_map' = order_packet_map \ (e.id + 1 .. next - 1)
        /\ timer_map' = Keep(timer_map, e.time, "ACK", next, w, InitialRtt)
        /\ SendAck(Tail(packet_map), e.time, next, w)
  BY DEF DataInOrder
<1>4. next \in Nat \ {0} /\ w \in Nat
  BY <1>2, NextIs, SizesAssumption
<1>5. timer_map' \in Seq(Timers) /\ Sorted(timer_map')
  <2>1. InitialRtt \in Int /\ next \in Nat
    BY <1>4, SizesAssumption
  <2> QED
    BY <1>2, <1>3, <1>4, <2>1, KeepPuts
<1>6. packet_map' \in Seq(Arrivals) /\ Sorted(packet_map') /\ free' = free
  <2>1. path.back \in Int
    BY PathOK DEF TypeInv
  <2>2. Event(e.time + path.back, "ACK", next, w) \in Arrivals
    BY <1>2, <1>4, <2>1 DEF Event, Arrivals
  <2> QED
    BY <1>2, <1>3, <2>2, DeliverPuts DEF SendAck
<1>7. UNCHANGED <<estimate, lastest_ack_rec, cwnd_host, done_transmission>>
  BY DEF DataInOrder
<1>8. TypeInv'
  BY <1>2, <1>3, <1>4, <1>5, <1>6, <1>7 DEF TypeInv, MapsOK, estimate
<1> QED
  BY <1>2, <1>7, <1>8 DEF SampleInv, estimate

LEMMA DataAheadTyped ==
    ASSUME TypeInv, SampleInv, NEW e, DataAhead(e)
    PROVE  TypeInv' /\ SampleInv'
<1>1. Arrives(e)
  BY DEF DataAhead
<1>2. /\ e \in Arrivals /\ clock' = e.time /\ clock' \in Int /\ e.id \in Nat
      /\ Tail(packet_map) \in Seq(Arrivals) /\ Sorted(Tail(packet_map))
      /\ path' = path /\ sent_so_far' = sent_so_far
      /\ rtt_estimation = Unwritten => queue_for_rtt # <<>>
  BY <1>1, ArrivesTyped
<1>3. /\ packet_map' = Tail(packet_map) /\ order_packet_map' = order_packet_map \cup {e.id}
      /\ UNCHANGED <<timer_map, free, estimate, lastest_ack_rec, cwnd_host, done_transmission,
                     packet_expected>>
  BY DEF DataAhead
<1>4. TypeInv'
  BY <1>2, <1>3 DEF TypeInv, MapsOK, estimate
<1> QED
  BY <1>2, <1>3, <1>4 DEF SampleInv, estimate

LEMMA DataRepeatedTyped ==
    ASSUME TypeInv, SampleInv, NEW e, DataRepeated(e)
    PROVE  TypeInv' /\ SampleInv'
<1>1. Arrives(e)
  BY DEF DataRepeated
<1>2. /\ e \in Arrivals /\ clock' = e.time /\ clock' \in Int /\ e.id \in Nat
      /\ Tail(packet_map) \in Seq(Arrivals) /\ Sorted(Tail(packet_map))
      /\ timer_map \in Seq(Timers) /\ Sorted(timer_map)
      /\ path' = path /\ sent_so_far' = sent_so_far
      /\ rtt_estimation = Unwritten => queue_for_rtt # <<>>
  BY <1>1, ArrivesTyped
<1>3. /\ packet_map' = Tail(packet_map) /\ timer_map' = Forget(timer_map, {<<"DATA", e.id>>})
      /\ UNCHANGED <<free, estimate, lastest_ack_rec, cwnd_host, done_transmission, destination>>
  BY DEF DataRepeated
<1>4. timer_map' \in Seq(Timers) /\ Sorted(timer_map')
  BY <1>2, <1>3, ForgetKeeps
<1>5. TypeInv'
  BY <1>2, <1>3, <1>4 DEF TypeInv, MapsOK, estimate, destination
<1> QED
  BY <1>2, <1>3, <1>5 DEF SampleInv, estimate

LEMMA SmoothedInt ==
    ASSUME NEW r \in Int, NEW s \in Int
    PROVE  Smoothed(r, s) \in Int
BY DEF Smoothed

LEMMA EstimateTyped ==
    ASSUME TypeInv, NEW now \in Int, Estimate(now),
           rtt_estimation = Unwritten => queue_for_rtt # <<>>
    PROVE  /\ rtt_in_host' \in Int /\ queue_for_rtt' \in Seq(Int) /\ not_first_time_rtt' \in BOOLEAN
           /\ rtt_estimation' \in Int
           /\ IF queue_for_rtt # <<>>
              THEN /\ rtt_estimation' = Head(queue_for_rtt) /\ queue_for_rtt' = Tail(queue_for_rtt)
                   /\ \/ rtt_in_host' = Smoothed(rtt_in_host, now - Head(queue_for_rtt))
                      \/ rtt_in_host' = now - Head(queue_for_rtt)
              ELSE /\ rtt_estimation' = rtt_estimation /\ queue_for_rtt' = queue_for_rtt
                   /\ rtt_in_host' = Smoothed(rtt_in_host, now - rtt_estimation)
<1>1. CASE queue_for_rtt # <<>>
  <2>1. Head(queue_for_rtt) \in Int /\ Tail(queue_for_rtt) \in Seq(Int)
    BY <1>1 DEF TypeInv
  <2>2. /\ rtt_estimation' = Head(queue_for_rtt) /\ queue_for_rtt' = Tail(queue_for_rtt)
        /\ not_first_time_rtt' = TRUE
        /\ \/ rtt_in_host' = Smoothed(rtt_in_host, now - Head(queue_for_rtt))
           \/ rtt_in_host' = now - Head(queue_for_rtt)
    BY <1>1 DEF Estimate
  <2>3. rtt_in_host \in Int /\ now - Head(queue_for_rtt) \in Int
    BY <2>1 DEF TypeInv
  <2>4. rtt_in_host' \in Int
    BY <2>2, <2>3, SmoothedInt
  <2> QED
    BY <1>1, <2>1, <2>2, <2>4
<1>2. CASE queue_for_rtt = <<>>
  <2>1. rtt_estimation \in Int /\ rtt_estimation # Unwritten
    BY <1>2 DEF TypeInv
  <2>2. /\ rtt_in_host' = Smoothed(rtt_in_host, now - rtt_estimation)
        /\ queue_for_rtt' = queue_for_rtt /\ rtt_estimation' = rtt_estimation
        /\ not_first_time_rtt' = not_first_time_rtt
    BY <1>2, <2>1 DEF Estimate
  <2>3. rtt_in_host \in Int /\ now - rtt_estimation \in Int /\ queue_for_rtt \in Seq(Int)
        /\ not_first_time_rtt \in BOOLEAN
    BY <2>1 DEF TypeInv
  <2>4. rtt_in_host' \in Int
    BY <2>2, <2>3, SmoothedInt
  <2> QED
    BY <1>2, <2>1, <2>2, <2>3, <2>4
<1> QED
  BY <1>1, <1>2

\* What an ACK deletes.
Acknowledged(e) ==
    {<<"DATA", id>> : id \in lastest_ack_rec + 1 .. e.id - 1} \cup {<<"ACK", e.id>>}

LEMMA AckTyped ==
    ASSUME TypeInv, SampleInv, NEW e, Ack(e)
    PROVE  TypeInv' /\ SampleInv'
<1>1. Arrives(e) /\ Estimate(e.time)
  BY DEF Ack
<1>2. /\ e \in Arrivals /\ clock' = e.time /\ clock' \in Int /\ e.id \in Nat
      /\ Tail(packet_map) \in Seq(Arrivals) /\ Sorted(Tail(packet_map))
      /\ timer_map \in Seq(Timers) /\ Sorted(timer_map)
      /\ path' = path /\ sent_so_far' = sent_so_far
      /\ rtt_estimation = Unwritten => queue_for_rtt # <<>>
  BY <1>1, ArrivesTyped
<1>3. /\ packet_map' = Tail(packet_map) /\ lastest_ack_rec' = e.id - 1
      /\ timer_map' = Normal(Forget(timer_map, Acknowledged(e)), e.time)
      /\ cwnd_host' \in Windows
      /\ done_transmission' = (done_transmission \/ e.id = FileLength + 1)
      /\ UNCHANGED <<free, destination>>
  BY DEF Ack, Acknowledged
<1>4. timer_map' \in Seq(Timers) /\ Sorted(timer_map')
  BY <1>2, <1>3, ForgetKeeps, NormalPuts
<1>5. /\ rtt_in_host' \in Int /\ queue_for_rtt' \in Seq(Int) /\ not_first_time_rtt' \in BOOLEAN
      /\ rtt_estimation' \in Int
  BY <1>1, <1>2, EstimateTyped
<1>6. cwnd_host' \in Nat \ {0}
  BY <1>3, SizesAssumption
<1>7. TypeInv'
  BY <1>2, <1>3, <1>4, <1>5, <1>6 DEF TypeInv, MapsOK, destination
<1> QED
  BY <1>5, <1>7, SizesAssumption DEF SampleInv

LEMMA InitTyped == Init => TypeInv /\ SampleInv
<1> SUFFICES ASSUME Init
             PROVE  TypeInv /\ SampleInv
  OBVIOUS
<1>1. /\ clock = 0 /\ timer_map = Normal(<<>>, 0) /\ packet_map = <<>> /\ path \in Paths
      /\ free = 0 /\ rtt_in_host = InitialRtt /\ queue_for_rtt \in Seq(Int)
      /\ rtt_estimation = Unwritten /\ not_first_time_rtt \in BOOLEAN
      /\ sent_so_far = 0 /\ lastest_ack_rec = 0 /\ cwnd_host = 1 /\ done_transmission = FALSE
      /\ packet_expected = 1 /\ order_packet_map = {}
  BY LeftoversAssumption DEF Init
<1>2. \A S : <<>> \in Seq(S) /\ Sorted(<<>>) /\ ToSet(<<>>) = {}
  BY DEF Sorted, ToSet
<1>3. /\ timer_map \in Seq(Timers) /\ Sorted(timer_map)
      /\ ToSet(timer_map) = {Event(0, "normal", 0, 0)}
  <2>1. <<>> \in Seq(Timers) /\ Sorted(<<>>) /\ ToSet(<<>>) = {} /\ 0 \in Int
    BY <1>2
  <2> QED
    BY <1>1, <2>1, NormalPuts
<1>4. MapsOK
  BY <1>1, <1>2, <1>3 DEF MapsOK
<1>5. TypeInv
  <2>1. InitialRtt \in Int /\ FileLength \in Nat
    BY SizesAssumption
  <2>2. 0 \in 0 .. FileLength /\ 0 \in Int /\ 1 \in Nat \ {0} /\ {} \in SUBSET Nat
        /\ FALSE \in BOOLEAN
    BY <2>1
  <2> QED
    BY <1>1, <1>4, <2>1, <2>2 DEF TypeInv
<1>6. Fresh
  BY <1>1, <1>3 DEF Fresh, Event
<1> QED
  BY <1>5, <1>6 DEF SampleInv

LEMMA NextTyped ==
    ASSUME TypeInv, SampleInv, [Next]_vars
    PROVE  TypeInv' /\ SampleInv'
<1>1. CASE UNCHANGED vars
  BY <1>1 DEF vars, estimate, source, destination, TypeInv, SampleInv, MapsOK, Fresh
<1>2. CASE Next
  BY <1>2, SendBurstTyped, SendNothingTyped, ResendTyped, DataInOrderTyped, DataAheadTyped,
     DataRepeatedTyped, AckTyped DEF Next
<1> QED
  BY <1>1, <1>2

LEMMA AlwaysTyped == Spec => [](TypeInv /\ SampleInv)
<1>1. TypeInv /\ SampleInv /\ [Next]_vars => (TypeInv /\ SampleInv)'
  BY NextTyped
<1> QED
  BY InitTyped, <1>1, PTL DEF Spec

(* rtt_estimation is never used before it was written: an ACK either finds *)
(* a sample of a packet or an earlier ACK has found one.                   *)
THEOREM SampleAlwaysAtHand == Spec => []SampleAtHand
<1>1. TypeInv /\ SampleInv => SampleAtHand
  BY DEF SampleInv, SampleAtHand, Fresh
<1> QED
  BY AlwaysTyped, <1>1, PTL

-----------------------------------------------------------------------------
(* Virtual time                                                            *)

\* The times of the timers that may be set at this moment are those of an int.
NoOverflow ==
    /\ clock + BurstWait < IntSize \div 2
    /\ clock + 2 * rtt_in_host < IntSize \div 2
    /\ clock + 2 * InitialRtt < IntSize \div 2

\* Events are to come, samples are past.
TimeInv ==
    /\ clock \in Nat /\ rtt_in_host \in Nat
    /\ \A e \in ToSet(timer_map) : clock <= e.time
    /\ \A e \in ToSet(packet_map) : clock <= e.time
    /\ \A i \in 1 .. Len(queue_for_rtt) : queue_for_rtt[i] <= clock
    /\ rtt_estimation # Unwritten => rtt_estimation <= clock

LEMMA SmallRemainder ==
    ASSUME NEW n \in Nat \ {0}, NEW x \in Nat, x < n
    PROVE  x % n = x
OBVIOUS

LEMMA WrappedSame ==
    ASSUME NEW x \in Nat, x < IntSize \div 2
    PROVE  Wrapped(x) = x
<1>1. IntSize \in Nat \ {0} /\ IntSize \div 2 \in Nat /\ 2 * (IntSize \div 2) <= IntSize
  BY SizesAssumption
<1>2. x + IntSize \div 2 \in Nat /\ x + IntSize \div 2 < IntSize
  BY <1>1
<1>3. (x + IntSize \div 2) % IntSize = x + IntSize \div 2
  BY <1>1, <1>2, SmallRemainder
<1> QED
  BY <1>1, <1>3 DEF Wrapped

(* The event that Scheduler::run takes is the first one of both maps.      *)
LEMMA FirstOfAll ==
    ASSUME TypeInv, TimeInv
    PROVE  /\ \A e : Fires(e) =>
                /\ e.time \in Nat /\ clock <= e.time /\ clock' = e.time
                /\ \A d \in ToSet(timer_map) : e.time <= d.time
                /\ \A d \in ToSet(packet_map) : e.time <= d.time
           /\ \A e : Arrives(e) =>
                /\ e.time \in Nat /\ clock <= e.time /\ clock' = e.time
                /\ \A d \in ToSet(timer_map) : e.time < d.time
                /\ \A d \in ToSet(packet_map) : e.time <= d.time
<1>1. MapsOK /\ clock \in Nat
  BY DEF TypeInv, TimeInv
<1>2. /\ timer_map # <<>> => /\ \A d \in ToSet(timer_map) : Head(timer_map).time <= d.time
                             /\ Head(timer_map) \in ToSet(timer_map)
      /\ packet_map # <<>> => /\ \A d \in ToSet(packet_map) : Head(packet_map).time <= d.time
                              /\ Head(packet_map) \in ToSet(packet_map)
  <2>1. timer_map # <<>> => \A d \in ToSet(timer_map) : Head(timer_map).time <= d.time
    BY <1>1, TimesOfMaps, SortedIs DEF MapsOK
  <2>2. packet_map # <<>> => \A d \in ToSet(packet_map) : Head(packet_map).time <= d.time
    BY <1>1, TimesOfMaps, SortedIs DEF MapsOK
  <2>3. timer_map # <<>> => Head(timer_map) \in ToSet(timer_map)
    BY <1>1, TimesOfMaps, TailHolds DEF MapsOK
  <2>4. packet_map # <<>> => Head(packet_map) \in ToSet(packet_map)
    BY <1>1, TimesOfMaps, TailHolds DEF MapsOK
  <2> QED
    BY <2>1, <2>2, <2>3, <2>4
<1>3. /\ timer_map = <<>> => ToSet(timer_map) = {}
      /\ packet_map = <<>> => ToSet(packet_map) = {}
  BY DEF ToSet
<1>4. /\ \A d \in ToSet(timer_map) : d.time \in Int /\ clock <= d.time
      /\ \A d \in ToSet(packet_map) : d.time \in Int /\ clock <= d.time
  <2>1. ToSet(timer_map) \subseteq Timers /\ ToSet(packet_map) \subseteq Arrivals
    BY <1>1, Holds DEF MapsOK
  <2> QED
    BY <2>1, TimesOfMaps DEF TimeInv
<1>5. ASSUME NEW e, Fires(e)
      PROVE  /\ e.time \in Nat /\ clock <= e.time /\ clock' = e.time
             /\ \A d \in ToSet(timer_map) : e.time <= d.time
             /\ \A d \in ToSet(packet_map) : e.time <= d.time
  <2>1. timer_map # <<>> /\ e = Head(timer_map) /\ e \in ToSet(timer_map) /\ clock' = e.time
    BY <1>1, <1>2, <1>5, FirstOK DEF Fires
  <2>2. e.time \in Nat /\ clock <= e.time
    BY <1>1, <1>4, <2>1
  <2>3. packet_map # <<>> => e.time <= Head(packet_map).time
    <3>1. NextTime(packet_map) # -1 => NextTime(timer_map) <= NextTime(packet_map)
      BY <1>5 DEF Fires, TimerFirst
    <3>2. packet_map # <<>> => Head(packet_map).time \in Int /\ clock <= Head(packet_map).time
      BY <1>2, <1>4
    <3> QED
      BY <1>1, <2>1, <3>1, <3>2 DEF NextTime
  <2>4. \A d \in ToSet(packet_map) : e.time <= d.time
    <3> SUFFICES ASSUME NEW d \in ToSet(packet_map)
                 PROVE  e.time <= d.time
      OBVIOUS
    <3>1. packet_map # <<>> /\ Head(packet_map).time <= d.time
      BY <1>2, <1>3
    <3>2. d.time \in Int /\ Head(packet_map).time \in Int
      BY <1>2, <1>4, <3>1
    <3> QED
      BY <2>2, <2>3, <3>1, <3>2
  <2> QED
    BY <1>2, <2>1, <2>2, <2>4
<1>6. ASSUME NEW e, Arrives(e)
      PROVE  /\ e.time \in Nat /\ clock <= e.time /\ clock' = e.time
             /\ \A d \in ToSet(timer_map) : e.time < d.time
             /\ \A d \in ToSet(packet_map) : e.time <= d.time
  <2>1. packet_map # <<>> /\ e = Head(packet_map) /\ e \in ToSet(packet_map) /\ clock' = e.time
    BY <1>1, <1>2, <1>6, FirstOK DEF Arrives
  <2>2. e.time \in Nat /\ clock <= e.time
    BY <1>1, <1>4, <2>1
  <2>3. timer_map # <<>> => e.time < Head(timer_map).time
    <3>1. NextTime(timer_map) # -1 => NextTime(packet_map) < NextTime(timer_map)
      BY <1>6 DEF Arrives, PacketFirst
    <3>2. timer_map # <<>> => Head(timer_map).time \in Int /\ clock <= Head(timer_map).time
      BY <1>2, <1>4
    <3> QED
      BY <1>1, <2>1, <3>1, <3>2 DEF NextTime
  <2>4. \A d \in ToSet(timer_map) : e.time < d.time
    <3> SUFFICES ASSUME NEW d \in ToSet(timer_map)
                 PROVE  e.time < d.time
      OBVIOUS
    <3>1. timer_map # <<>> /\ Head(timer_map).time <= d.time
      BY <1>2, <1>3
    <3>2. d.time \in Int /\ Head(timer_map).time \in Int
      BY <1>2, <1>4, <3>1
    <3> QED
      BY <2>2, <2>3, <3>1, <3>2
  <2> QED
    BY <1>2, <2>1, <2>2, <2>4
<1> QED
  BY <1>5, <1>6

\* What is true of time when the step sets no timer in the past.
LEMMA TimeGoes ==
    ASSUME TimeInv, clock' \in Nat, clock <= clock', rtt_in_host' \in Nat,
           \A e \in ToSet(timer_map') : clock' <= e.time,
           \A e \in ToSet(packet_map') : clock' <= e.time,
           TypeInv, rtt_estimation' = rtt_estimation, queue_for_rtt' = queue_for_rtt
    PROVE  TimeInv'
<1>1. \A i \in 1 .. Len(queue_for_rtt) : queue_for_rtt[i] \in Int
  BY DEF TypeInv
<1>2. rtt_estimation # Unwritten => rtt_estimation \in Int
  BY DEF TypeInv
<1>3. clock \in Nat
  BY DEF TimeInv
<1>4. \A i \in 1 .. Len(queue_for_rtt) : queue_for_rtt[i] <= clock'
  BY <1>1, <1>3 DEF TimeInv
<1>5. rtt_estimation # Unwritten => rtt_estimation <= clock'
  BY <1>2, <1>3 DEF TimeInv
<1> QED
  BY <1>4, <1>5 DEF TimeInv

(* A copy set at the present time, whose wait is not negative.             *)
LEMMA CopyLater ==
    ASSUME NEW now \in Nat, NEW wait \in Nat, now + wait < IntSize \div 2
    PROVE  Wrapped(now + wait) = now + wait /\ now <= Wrapped(now + wait)
<1>1. now + wait \in Nat
  OBVIOUS
<1>2. Wrapped(now + wait) = now + wait
  BY <1>1, WrappedSame
<1> QED
  BY <1>2

LEMMA ProductNat ==
    ASSUME NEW a \in Nat, NEW b \in Nat
    PROVE  a * b \in Nat
OBVIOUS

LEMMA SendBurstTime ==
    ASSUME TypeInv, SampleInv, TimeInv, NoOverflow', NEW e, SendBurst(e)
    PROVE  TimeInv'
<1>1. PICK n \in Nat :
        /\ Burst = sent_so_far + 1 .. sent_so_far + n
        /\ clock' = e.time
        /\ queue_for_rtt' = Sampled(queue_for_rtt, clock', n)
  BY BurstSends
<1>2. /\ clock' \in Nat /\ clock <= clock'
      /\ \A d \in ToSet(timer_map) : clock' <= d.time
      /\ \A d \in ToSet(packet_map) : clock' <= d.time
  BY <1>1, FirstOfAll DEF SendBurst
<1>3. rtt_in_host' = rtt_in_host /\ cwnd_host' = cwnd_host /\ rtt_estimation' = rtt_estimation
  BY DEF SendBurst, Fires
<1>4. BurstWait \in Nat /\ clock' + BurstWait < IntSize \div 2
  <2>1. rtt_in_host \in Nat /\ cwnd_host + 2 \in Nat
    BY DEF TypeInv, TimeInv
  <2>2. BurstWait \in Nat
    BY <2>1, ProductNat DEF BurstWait
  <2>3. BurstWait' = BurstWait
    BY <1>3 DEF BurstWait
  <2> QED
    BY <2>2, <2>3 DEF NoOverflow
<1>5. \A d \in ToSet(timer_map') : clock' <= d.time
  <2>1. ToSet(Tail(timer_map)) \subseteq ToSet(timer_map)
    BY FirstOK DEF SendBurst, TypeInv
  <2>2. \A id : clock' <= CopyOf(clock', id).time
    BY <1>2, <1>4, CopyLater DEF CopyOf, Event
  <2> QED
    BY <1>2, <2>1, <2>2, BurstTimers
<1>6. \A d \in ToSet(packet_map') : clock' <= d.time
  <2>1. ASSUME NEW id \in Burst
        PROVE  clock' <= ArrivalOf(clock', id).time
    <3>1. free \in Int /\ path.length \in Nat /\ path.there \in Nat
      BY PathOK DEF TypeInv
    <3>2. Max({clock', free}) \in Int /\ clock' <= Max({clock', free})
      BY <1>2, <3>1, MaxOfTwo
    <3>3. id - sent_so_far \in Nat
      BY <1>1 DEF TypeInv
    <3>4. (id - sent_so_far) * path.length \in Nat
      BY <3>1, <3>3, ProductNat
    <3>5. ArrivalOf(clock', id).time =
            Max({clock', free}) + (id - sent_so_far) * path.length + path.there
      BY DEF ArrivalOf, Event
    <3> QED
      BY <1>2, <3>1, <3>2, <3>4, <3>5
  <2> QED
    BY <1>2, <2>1, BurstArrivals
<1>7. \A i \in 1 .. Len(queue_for_rtt') : queue_for_rtt'[i] <= clock'
  <2>1. /\ Len(queue_for_rtt') = Len(queue_for_rtt) + n
        /\ \A i \in 1 .. Len(queue_for_rtt) :
              queue_for_rtt'[i] = queue_for_rtt[i] /\ queue_for_rtt[i] \in Int
        /\ \A i \in Len(queue_for_rtt) + 1 .. Len(queue_for_rtt) + n :
              queue_for_rtt'[i] = clock'
    <3>1. queue_for_rtt \in Seq(Int) /\ clock' \in Int /\ n \in Nat
      BY <1>2 DEF TypeInv
    <3>2. \A i \in 1 .. Len(queue_for_rtt) : queue_for_rtt[i] \in Int
      BY <3>1
    <3>3. LET r == Sampled(queue_for_rtt, clock', n)
          IN  /\ Len(r) = Len(queue_for_rtt) + n
              /\ \A i \in 1 .. Len(queue_for_rtt) : r[i] = queue_for_rtt[i]
              /\ \A i \in Len(queue_for_rtt) + 1 .. Len(queue_for_rtt) + n : r[i] = clock'
      BY <3>1, SamplesAdded
    <3> QED
      BY <1>1, <3>2, <3>3
  <2>2. Len(queue_for_rtt) \in Nat
    BY DEF TypeInv
  <2>3. \A i \in 1 .. Len(queue_for_rtt) : queue_for_rtt'[i] <= clock'
    BY <1>2, <2>1 DEF TimeInv
  <2>4. \A i \in 1 .. Len(queue_for_rtt) + n :
          \/ i \in 1 .. Len(queue_for_rtt)
          \/ i \in Len(queue_for_rtt) + 1 .. Len(queue_for_rtt) + n
    BY <2>2
  <2> QED
    BY <1>2, <2>1, <2>3, <2>4
<1>8. rtt_estimation' # Unwritten => rtt_estimation' <= clock'
  BY <1>2, <1>3 DEF TimeInv, TypeInv
<1>9. rtt_in_host' \in Nat
  BY <1>3 DEF TimeInv
<1> QED
  BY <1>2, <1>5, <1>6, <1>7, <1>8, <1>9 DEF TimeInv

LEMMA SendNothingTime ==
    ASSUME TypeInv, TimeInv, NEW e, SendNothing(e)
    PROVE  TimeInv'
<1>1. /\ clock' \in Nat /\ clock <= clock'
      /\ \A d \in ToSet(timer_map) : clock' <= d.time
      /\ \A d \in ToSet(packet_map) : clock' <= d.time
  BY FirstOfAll DEF SendNothing
<1>2. ToSet(timer_map') \subseteq ToSet(timer_map)
  BY FirstOK DEF SendNothing, TypeInv
<1>3. /\ packet_map' = packet_map /\ rtt_in_host' = rtt_in_host
      /\ rtt_estimation' = rtt_estimation /\ queue_for_rtt' = queue_for_rtt
  BY DEF SendNothing, Fires
<1>4. rtt_in_host' \in Nat
  BY <1>3 DEF TimeInv
<1> QED
  BY <1>1, <1>2, <1>3, <1>4, TimeGoes

(* What Leaves returns.                                                    *)
LEMMA LeavesIs ==
    ASSUME TypeInv, NEW now \in Nat
    PROVE  Leaves(now, free) \in Int /\ now + path.length <= Leaves(now, free)
<1>1. free \in Int /\ path.length \in Nat
  BY PathOK DEF TypeInv
<1>2. Max({now, free}) \in Int /\ now <= Max({now, free})
  BY <1>1, MaxOfTwo
<1> QED
  BY <1>1, <1>2 DEF Leaves

\* The times of the copy and of the packet when e is sent again.
LEMMA ResendTimes ==
    ASSUME TypeInv, TimeInv, NoOverflow', NEW e, Resend(e)
    PROVE  /\ e \in Timers /\ e \in ToSet(timer_map) /\ clock' = e.time /\ e.time \in Nat
           /\ ResendWait(e) \in Nat
           /\ e.kind = "ACK" => ResendWait(e) = 2 * InitialRtt
           /\ Event(e.time + ResendWait(e), e.kind, e.id, e.cwnd) \in Timers
           /\ timer_map' = Schedule(Tail(timer_map),
                                    Event(e.time + ResendWait(e), e.kind, e.id, e.cwnd))
           /\ ToSet(timer_map') = ToSet(Tail(timer_map))
                \cup {Event(e.time + ResendWait(e), e.kind, e.id, e.cwnd)}
           /\ ToSet(timer_map) = ToSet(Tail(timer_map)) \cup {e}
           /\ e.kind = "DATA" =>
                /\ Event(Leaves(e.time, free) + path.there, "DATA", e.id, 0) \in Arrivals
                /\ Deliver(packet_map, Event(Leaves(e.time, free) + path.there, "DATA", e.id, 0))
           /\ e.kind = "ACK" =>
                /\ Event(e.time + path.back, "ACK", e.id, e.cwnd) \in Arrivals
                /\ Deliver(packet_map, Event(e.time + path.back, "ACK", e.id, e.cwnd))
           /\ e.kind = "DATA" => ToSet(packet_map') \subseteq ToSet(packet_map)
                \cup {Event(Leaves(e.time, free) + path.there, "DATA", e.id, 0)}
           /\ e.kind = "ACK" => ToSet(packet_map') \subseteq ToSet(packet_map)
                \cup {Event(e.time + path.back, "ACK", e.id, e.cwnd)}
<1>1. /\ e \in Timers /\ e \in ToSet(timer_map) /\ clock' = e.time
      /\ Tail(timer_map) \in Seq(Timers) /\ Sorted(Tail(timer_map))
      /\ ToSet(timer_map) = ToSet(Tail(timer_map)) \cup {e}
  BY FirstOK DEF Resend, Fires, TypeInv
<1>2. e.time \in Nat
  BY FirstOfAll DEF Resend
<1>3. e.id \in Nat /\ e.cwnd \in Nat /\ e.kind \in {"DATA", "ACK"}
  BY <1>1 DEF Timers, Resend
<1>4. /\ ResendWait(e) \in Nat /\ e.time + ResendWait(e) < IntSize \div 2
      /\ e.kind = "ACK" => ResendWait(e) = 2 * InitialRtt
  <2>1. rtt_in_host' = rtt_in_host /\ rtt_in_host \in Nat /\ InitialRtt \in Nat
    BY SizesAssumption DEF Resend, Fires, TimeInv
  <2>2. /\ e.time + 2 * rtt_in_host < IntSize \div 2
        /\ e.time + 2 * InitialRtt < IntSize \div 2
    BY <1>1, <2>1 DEF NoOverflow
  <2> QED
    BY <2>1, <2>2 DEF ResendWait
<1>5. Wrapped(e.time + ResendWait(e)) = e.time + ResendWait(e)
  BY <1>2, <1>4, CopyLater
<1>6. /\ Event(e.time + ResendWait(e), e.kind, e.id, e.cwnd) \in Timers
      /\ timer_map' = Schedule(Tail(timer_map),
                               Event(e.time + ResendWait(e), e.kind, e.id, e.cwnd))
      /\ ToSet(timer_map') = ToSet(Tail(timer_map))
           \cup {Event(e.time + ResendWait(e), e.kind, e.id, e.cwnd)}
  <2>1. timer_map' = Keep(Tail(timer_map), e.time, e.kind, e.id, e.cwnd, ResendWait(e))
    BY DEF Resend
  <2>2. ResendWait(e) \in Int /\ e.time \in Int
    BY <1>2, <1>4
  <2> DEFINE copy == Event(e.time + ResendWait(e), e.kind, e.id, e.cwnd)
  <2>3. copy \in Timers
    BY <1>3, <2>2 DEF Event, Timers
  <2>4. timer_map' = Schedule(Tail(timer_map), copy)
    BY <1>5, <2>1 DEF Keep
  <2> HIDE DEF copy
  <2>5. ToSet(timer_map') = ToSet(Tail(timer_map)) \cup {copy}
    BY <1>1, <2>3, <2>4, TimerPut
  <2> QED
    BY <2>3, <2>4, <2>5 DEF copy
<1>7. packet_map \in Seq(Arrivals) /\ Sorted(packet_map)
  BY DEF TypeInv, MapsOK
<1>8. path.there \in Nat /\ path.back \in Nat
  BY PathOK DEF TypeInv
<1>9. ASSUME e.kind = "DATA"
      PROVE  /\ Event(Leaves(e.time, free) + path.there, "DATA", e.id, 0) \in Arrivals
             /\ Deliver(packet_map, Event(Leaves(e.time, free) + path.there, "DATA", e.id, 0))
             /\ ToSet(packet_map') \subseteq ToSet(packet_map)
                  \cup {Event(Leaves(e.time, free) + path.there, "DATA", e.id, 0)}
  <2>1. Deliver(packet_map, Event(Leaves(e.time, free) + path.there, "DATA", e.id, 0))
    BY <1>9 DEF Resend, SendData
  <2>2. Leaves(e.time, free) \in Int
    BY <1>2, LeavesIs
  <2>3. Event(Leaves(e.time, free) + path.there, "DATA", e.id, 0) \in Arrivals
    BY <1>3, <1>8, <2>2 DEF Event, Arrivals
  <2> QED
    BY <1>7, <2>1, <2>3, DeliverPuts
<1>10. ASSUME e.kind = "ACK"
       PROVE  /\ Event(e.time + path.back, "ACK", e.id, e.cwnd) \in Arrivals
              /\ Deliver(packet_map, Event(e.time + path.back, "ACK", e.id, e.cwnd))
              /\ ToSet(packet_map') \subseteq ToSet(packet_map)
                   \cup {Event(e.time + path.back, "ACK", e.id, e.cwnd)}
  <2>1. Deliver(packet_map, Event(e.time + path.back, "ACK", e.id, e.cwnd))
    BY <1>10 DEF Resend, SendAck
  <2>2. Event(e.time + path.back, "ACK", e.id, e.cwnd) \in Arrivals
    BY <1>2, <1>3, <1>8 DEF Event, Arrivals
  <2> QED
    BY <1>7, <2>1, <2>2, DeliverPuts
<1> QED
  BY <1>1, <1>2, <1>4, <1>6, <1>9, <1>10

LEMMA ResendTime ==
    ASSUME TypeInv, TimeInv, NoOverflow', NEW e, Resend(e)
    PROVE  TimeInv'
<1>1. /\ clock' \in Nat /\ clock <= clock' /\ clock' = e.time
      /\ \A d \in ToSet(timer_map) : clock' <= d.time
      /\ \A d \in ToSet(packet_map) : clock' <= d.time
  BY FirstOfAll DEF Resend
<1>2. e.kind \in {"DATA", "ACK"} /\ ResendWait(e) \in Nat
  BY ResendTimes DEF Resend
<1>3. \A d \in ToSet(timer_map') : clock' <= d.time
  <2>1. /\ ToSet(timer_map') = ToSet(Tail(timer_map))
             \cup {Event(e.time + ResendWait(e), e.kind, e.id, e.cwnd)}
        /\ ToSet(Tail(timer_map)) \subseteq ToSet(timer_map)
    BY ResendTimes
  <2>2. clock' <= Event(e.time + ResendWait(e), e.kind, e.id, e.cwnd).time
    BY <1>1, <1>2 DEF Event
  <2> QED
    BY <1>1, <2>1, <2>2
<1>4. \A d \in ToSet(packet_map') : clock' <= d.time
  <2>1. path.there \in Nat /\ path.back \in Nat /\ path.length \in Nat
    BY PathOK DEF TypeInv
  <2>2. Leaves(e.time, free) \in Int /\ e.time + path.length <= Leaves(e.time, free)
    BY <1>1, LeavesIs
  <2>3. clock' <= Event(Leaves(e.time, free) + path.there, "DATA", e.id, 0).time
    BY <1>1, <2>1, <2>2 DEF Event
  <2>4. clock' <= Event(e.time + path.back, "ACK", e.id, e.cwnd).time
    BY <1>1, <2>1 DEF Event
  <2> QED
    BY <1>1, <1>2, <2>3, <2>4, ResendTimes
<1>5. /\ rtt_in_host' = rtt_in_host
      /\ rtt_estimation' = rtt_estimation /\ queue_for_rtt' = queue_for_rtt
  BY DEF Resend, Fires
<1>6. rtt_in_host' \in Nat
  BY <1>5 DEF TimeInv
<1> QED
  BY <1>1, <1>3, <1>4, <1>5, <1>6, TimeGoes

\* What arrives in order and its ACK.
LEMMA InOrderTimes ==
    ASSUME TypeInv, SampleInv, TimeInv, NoOverflow', NEW e, DataInOrder(e)
    PROVE  \E next \in NextExpected(e.id), w \in Windows :
             LET copy == Event(e.time + InitialRtt, "ACK", next, w)
                 ack == Event(e.time + path.back, "ACK", next, w)
             IN  /\ packet_expected' = next /\ next \in Nat \ {0} /\ w \in Nat
                 /\ order_packet_map' = order_packet_map \ (e.id + 1 .. next - 1)
                 /\ timer_map' = Schedule(timer_map, copy) /\ copy \in Timers
                 /\ ToSet(timer_map') = ToSet(timer_map) \cup {copy}
                 /\ Deliver(Tail(packet_map), ack) /\ ack \in Arrivals
                 /\ ToSet(packet_map') \subseteq ToSet(Tail(packet_map)) \cup {ack}
<1>1. Arrives(e) /\ e.kind = "DATA"
  BY DEF DataInOrder
<1>2. /\ clock' = e.time /\ e.id \in Nat
      /\ Tail(packet_map) \in Seq(Arrivals) /\ Sorted(Tail(packet_map))
      /\ timer_map \in Seq(Timers) /\ Sorted(timer_map)
  BY <1>1, ArrivesTyped
<1>3. e.time \in Nat
  BY <1>1, FirstOfAll
<1>4. PICK next \in NextExpected(e.id), w \in Windows :
        /\ packet_expected' = next
        /\ order_packet_map' = order_packet_map \ (e.id + 1 .. next - 1)
        /\ timer_map' = Keep(timer_map, e.time, "ACK", next, w, InitialRtt)
        /\ SendAck(Tail(packet_map), e.time, next, w)
  BY DEF DataInOrder
<1>5. next \in Nat \ {0} /\ w \in Nat
  BY <1>2, NextIs, SizesAssumption
<1>6. Wrapped(e.time + InitialRtt) = e.time + InitialRtt
  <2>1. InitialRtt \in Nat /\ e.time + 2 * InitialRtt < IntSize \div 2
    BY <1>2, SizesAssumption DEF NoOverflow
  <2>2. e.time + InitialRtt < IntSize \div 2
    <3>1. IntSize \div 2 \in Int
      BY SizesAssumption
    <3> QED
      BY <1>3, <2>1, <3>1
  <2> QED
    BY <1>3, <2>1, <2>2, CopyLater
<1> DEFINE copy == Event(e.time + InitialRtt, "ACK", next, w)
           ack == Event(e.time + path.back, "ACK", next, w)
<1>7. copy \in Timers /\ ack \in Arrivals
  <2>1. InitialRtt \in Nat /\ path.back \in Nat
    BY SizesAssumption, PathOK DEF TypeInv
  <2> QED
    BY <1>3, <1>5, <2>1 DEF Event, Timers, Arrivals
<1>8. timer_map' = Schedule(timer_map, copy)
  BY <1>4, <1>6 DEF Keep
<1>9. Deliver(Tail(packet_map), ack)
  BY <1>4 DEF SendAck
<1> HIDE DEF copy, ack
<1>10. ToSet(timer_map') = ToSet(timer_map) \cup {copy}
  BY <1>2, <1>7, <1>8, TimerPut
<1>11. ToSet(packet_map') \subseteq ToSet(Tail(packet_map)) \cup {ack}
  BY <1>2, <1>7, <1>9, DeliverPuts
<1> QED
  BY <1>4, <1>5, <1>7, <1>8, <1>9, <1>10, <1>11 DEF copy, ack

LEMMA ReceiveTime ==
    ASSUME TypeInv, SampleInv, TimeInv, NoOverflow', NEW e,
           DataInOrder(e) \/ DataAhead(e) \/ DataRepeated(e)
    PROVE  TimeInv'
<1>1. Arrives(e) /\ UNCHANGED estimate
  BY DEF DataInOrder, DataAhead, DataRepeated
<1>2. /\ clock' \in Nat /\ clock <= clock' /\ clock' = e.time
      /\ \A d \in ToSet(timer_map) : clock' <= d.time
      /\ \A d \in ToSet(packet_map) : clock' <= d.time
  <2>1. /\ clock' \in Nat /\ clock <= clock' /\ clock' = e.time
        /\ \A d \in ToSet(timer_map) : clock' < d.time
        /\ \A d \in ToSet(packet_map) : clock' <= d.time
    BY <1>1, FirstOfAll
  <2>2. \A d \in ToSet(timer_map) : d.time \in Int
    BY Holds, TimesOfMaps DEF TypeInv, MapsOK
  <2> QED
    BY <2>1, <2>2
<1>3. ToSet(Tail(packet_map)) \subseteq ToSet(packet_map)
  BY <1>1, FirstOK DEF TypeInv
<1>4. \A d \in ToSet(timer_map') : clock' <= d.time
  <2>1. CASE DataInOrder(e)
    <3>1. PICK next, w :
            ToSet(timer_map') = ToSet(timer_map) \cup {Event(e.time + InitialRtt, "ACK", next, w)}
      BY <2>1, InOrderTimes
    <3>2. clock' <= Event(e.time + InitialRtt, "ACK", next, w).time
      BY <1>2, SizesAssumption DEF Event
    <3> QED
      BY <1>2, <3>1, <3>2
  <2>2. CASE DataAhead(e)
    BY <1>2, <2>2 DEF DataAhead
  <2>3. CASE DataRepeated(e)
    <3>1. timer_map' = Forget(timer_map, {<<"DATA", e.id>>})
      BY <2>3 DEF DataRepeated
    <3>2. ToSet(timer_map') \subseteq ToSet(timer_map)
      BY <3>1, ForgetKeeps DEF TypeInv, MapsOK
    <3> QED
      BY <1>2, <3>2
  <2> QED
    BY <2>1, <2>2, <2>3
<1>5. \A d \in ToSet(packet_map') : clock' <= d.time
  <2>1. CASE DataInOrder(e)
    <3>1. PICK next, w :
            ToSet(packet_map') \subseteq
              ToSet(Tail(packet_map)) \cup {Event(e.time + path.back, "ACK", next, w)}
      BY <2>1, InOrderTimes
    <3>2. path.back \in Nat
      BY PathOK DEF TypeInv
    <3>3. clock' <= Event(e.time + path.back, "ACK", next, w).time
      BY <1>2, <3>2 DEF Event
    <3> QED
      BY <1>2, <1>3, <3>1, <3>3
  <2>2. CASE DataAhead(e) \/ DataRepeated(e)
    <3>1. packet_map' = Tail(packet_map)
      BY <2>2 DEF DataAhead, DataRepeated
    <3> QED
      BY <1>2, <1>3, <3>1
  <2> QED
    BY <2>1, <2>2
<1>6. /\ rtt_in_host' = rtt_in_host
      /\ rtt_estimation' = rtt_estimation /\ queue_for_rtt' = queue_for_rtt
  BY <1>1 DEF estimate
<1>7. rtt_in_host' \in Nat
  BY <1>6 DEF TimeInv
<1> QED
  BY <1>2, <1>4, <1>5, <1>6, <1>7, TimeGoes

LEMMA SmoothedNat ==
    ASSUME NEW r \in Nat, NEW s \in Nat
    PROVE  Smoothed(r, s) \in Nat
BY DEF Smoothed

\* The timers and arrivals after an ACK.
LEMMA AckMaps ==
    ASSUME TypeInv, SampleInv, NEW e, Ack(e)
    PROVE  /\ ToSet(timer_map') =
                {d \in ToSet(timer_map) : <<d.kind, d.id>> \notin Acknowledged(e)}
                  \cup {Event(e.time, "normal", 0, 0)}
           /\ packet_map' = Tail(packet_map)
<1>1. Arrives(e)
  BY DEF Ack
<1>2. e.time \in Int /\ timer_map \in Seq(Timers) /\ Sorted(timer_map)
  BY <1>1, ArrivesTyped
<1>3. timer_map' = Normal(Forget(timer_map, Acknowledged(e)), e.time)
      /\ packet_map' = Tail(packet_map)
  BY DEF Ack, Acknowledged
<1> DEFINE rest == Forget(timer_map, Acknowledged(e))
<1>4. /\ rest \in Seq(Timers) /\ Sorted(rest)
      /\ ToSet(rest) = {d \in ToSet(timer_map) : <<d.kind, d.id>> \notin Acknowledged(e)}
  BY <1>2, ForgetKeeps, Zenon
<1> HIDE DEF rest
<1>5. ToSet(Normal(rest, e.time)) = ToSet(rest) \cup {Event(e.time, "normal", 0, 0)}
  BY <1>2, <1>4, NormalPuts, Zenon
<1> QED
  BY <1>3, <1>4, <1>5 DEF rest

LEMMA AckTime ==
    ASSUME TypeInv, SampleInv, TimeInv, NEW e, Ack(e)
    PROVE  TimeInv'
<1>1. Arrives(e) /\ Estimate(e.time)
  BY DEF Ack
<1>2. /\ clock' \in Nat /\ clock <= clock' /\ clock' = e.time
      /\ \A d \in ToSet(timer_map) : clock' < d.time
      /\ \A d \in ToSet(packet_map) : clock' <= d.time
  BY <1>1, FirstOfAll
<1>3. \A d \in ToSet(timer_map') : clock' <= d.time
  <2>1. \A d \in ToSet(timer_map) : d.time \in Int
    BY Holds, TimesOfMaps DEF TypeInv, MapsOK
  <2>2. clock' <= Event(e.time, "normal", 0, 0).time
    BY <1>2 DEF Event
  <2>3. \A d \in ToSet(timer_map') :
          d \in ToSet(timer_map) \/ d = Event(e.time, "normal", 0, 0)
    BY AckMaps
  <2>4. \A d \in ToSet(timer_map) : clock' <= d.time
    BY <1>2, <2>1
  <2> QED
    BY <2>2, <2>3, <2>4
<1>4. \A d \in ToSet(packet_map') : clock' <= d.time
  <2>1. ToSet(Tail(packet_map)) \subseteq ToSet(packet_map)
    BY <1>1, FirstOK DEF TypeInv
  <2> QED
    BY <1>2, <2>1, AckMaps
<1>5. rtt_estimation = Unwritten => queue_for_rtt # <<>>
  BY <1>1, ArrivesTyped
<1>6. queue_for_rtt \in Seq(Int) /\ rtt_in_host \in Nat /\ clock \in Nat
      /\ \A i \in 1 .. Len(queue_for_rtt) : queue_for_rtt[i] <= clock
  BY DEF TypeInv, TimeInv
<1>7. /\ rtt_in_host' \in Nat /\ rtt_estimation' <= clock'
      /\ \A i \in 1 .. Len(queue_for_rtt') : queue_for_rtt'[i] <= clock'
  <2>1. CASE queue_for_rtt # <<>>
    <3> DEFINE q == queue_for_rtt
    <3>1. /\ Head(q) \in Int /\ Head(q) = q[1] /\ 1 \in 1 .. Len(q)
          /\ Len(Tail(q)) = Len(q) - 1
          /\ \A i \in 1 .. Len(Tail(q)) : Tail(q)[i] = q[i + 1] /\ i + 1 \in 1 .. Len(q)
          /\ \A i \in 1 .. Len(q) : q[i] \in Int
      BY <1>6, <2>1
    <3>2. /\ rtt_estimation' = Head(q) /\ queue_for_rtt' = Tail(q)
          /\ \/ rtt_in_host' = Smoothed(rtt_in_host, e.time - Head(q))
             \/ rtt_in_host' = e.time - Head(q)
      BY <1>1, <1>2, <1>5, <2>1, EstimateTyped
    <3> HIDE DEF q
    <3>3. \A i \in 1 .. Len(q) : q[i] <= clock'
      BY <1>2, <1>6, <3>1 DEF q
    <3>4. e.time - Head(q) \in Nat
      BY <1>2, <3>1, <3>3
    <3>5. rtt_in_host' \in Nat
      BY <1>6, <3>2, <3>4, SmoothedNat
    <3> QED
      BY <3>1, <3>2, <3>3, <3>5
  <2>2. CASE queue_for_rtt = <<>>
    <3>1. /\ rtt_estimation' = rtt_estimation /\ queue_for_rtt' = queue_for_rtt
          /\ rtt_in_host' = Smoothed(rtt_in_host, e.time - rtt_estimation)
          /\ rtt_estimation' \in Int
      BY <1>1, <1>2, <1>5, <2>2, EstimateTyped
    <3>2. rtt_estimation <= clock
      BY <1>5, <2>2 DEF TimeInv
    <3>3. e.time - rtt_estimation \in Nat /\ rtt_estimation' <= clock'
      BY <1>2, <1>6, <3>1, <3>2
    <3>4. rtt_in_host' \in Nat
      BY <1>6, <3>1, <3>3, SmoothedNat
    <3>5. Len(queue_for_rtt') = 0
      BY <2>2, <3>1
    <3> QED
      BY <3>3, <3>4, <3>5
  <2> QED
    BY <2>1, <2>2
<1> QED
  BY <1>2, <1>3, <1>4, <1>7 DEF TimeInv

LEMMA InitTime == Init => TimeInv
<1> SUFFICES ASSUME Init
             PROVE  TimeInv
  OBVIOUS
<1>1. /\ clock = 0 /\ timer_map = Normal(<<>>, 0) /\ packet_map = <<>>
      /\ rtt_in_host = InitialRtt /\ queue_for_rtt \in Seq(Int)
      /\ \A i \in DOMAIN queue_for_rtt : queue_for_rtt[i] < 0
      /\ rtt_estimation = Unwritten
  BY LeftoversAssumption DEF Init
<1>2. ToSet(timer_map) = {Event(0, "normal", 0, 0)}
  <2>1. <<>> \in Seq(Timers) /\ Sorted(<<>>) /\ ToSet(<<>>) = {} /\ 0 \in Int
    BY DEF Sorted, ToSet
  <2> QED
    BY <1>1, <2>1, NormalPuts
<1>3. \A d \in ToSet(timer_map) : clock <= d.time
  BY <1>1, <1>2 DEF Event
<1>4. \A d \in ToSet(packet_map) : clock <= d.time
  BY <1>1 DEF ToSet
<1>5. \A i \in 1 .. Len(queue_for_rtt) : queue_for_rtt[i] <= clock
  BY <1>1
<1> QED
  BY <1>1, <1>3, <1>4, <1>5, SizesAssumption DEF TimeInv

LEMMA NextInTime ==
    ASSUME TypeInv, SampleInv, TimeInv, NoOverflow', [Next]_vars
    PROVE  TimeInv'
<1>1. CASE UNCHANGED vars
  BY <1>1 DEF vars, estimate, TimeInv
<1>2. CASE Next
  BY <1>2, SendBurstTime, SendNothingTime, ResendTime, ReceiveTime, AckTime DEF Next
<1> QED
  BY <1>1, <1>2

LEMMA AlwaysInTime == Spec /\ []NoOverflow => []TimeInv
<1>1. TypeInv /\ SampleInv /\ TimeInv /\ NoOverflow' /\ [Next]_vars => TimeInv'
  BY NextInTime
<1> QED
  BY InitTime, AlwaysTyped, <1>1, PTL DEF Spec

(* As long as the times of the timers stay within an int no event is in    *)
(* the past: set_clock, which takes any time, only advances virtual time,  *)
(* and no estimate becomes negative.                                       *)
THEOREM NeverOverdue == Spec /\ []NoOverflow => []NothingOverdue
<1>1. TypeInv /\ TimeInv => NothingOverdue
  BY DEF TimeInv, NothingOverdue, ToSet
<1> QED
  BY AlwaysTyped, AlwaysInTime, <1>1, PTL

-----------------------------------------------------------------------------
(* The estimate                                                            *)

\* What a DATA packet needs from the source to the destination, at least.
Way == path.length + path.there

\* The sample of packet m, when it still is in the queue q after n packets were
\* sent, is not later than t.
SentBy(q, n, m, t) == \A i \in 1 .. Len(q) : n - Len(q) + i = m => q[i] <= t

\* The numbers of the ACKs among some timers, and those up to m of a set.
Pending(timers) == {k \in Nat : \E d \in timers : d.kind = "ACK" /\ d.id = k}
Upto(S, m) == {k \in S : k <= m}

\* The events of ACK k.
Acks(k) == {d \in Timers : d.kind = "ACK" /\ d.id = k}

\* A sample before the first one of this flow was left by an earlier one.
Estimates ==
    /\ Min({InitialRtt, ShortestTrip}) <= rtt_in_host
    /\ rtt_estimation # Unwritten => rtt_estimation + ShortestTrip <= clock
    /\ \A i \in 1 .. Len(queue_for_rtt) :
          sent_so_far - Len(queue_for_rtt) + i <= 0 => queue_for_rtt[i] < 0

\* A DATA packet on its way has left the source early enough.
OutwardInv ==
    /\ \A d \in ToSet(timer_map) : d.kind = "DATA" => d.id \in 1 .. sent_so_far
    /\ \A a \in ToSet(packet_map) : a.kind = "DATA" =>
          /\ a.id \in 1 .. sent_so_far /\ Way <= a.time
          /\ SentBy(queue_for_rtt, sent_so_far, a.id, a.time - Way)

\* So have the packets the destination has got.
ReceivedInv ==
    /\ packet_expected <= sent_so_far + 1 /\ order_packet_map \subseteq 1 .. sent_so_far
    /\ packet_expected > 1 => Way <= clock
    /\ \A m \in 1 .. sent_so_far : m < packet_expected \/ m \in order_packet_map =>
          SentBy(queue_for_rtt, sent_so_far, m, clock - Way)

\* And those that an ACK on its way answers.
AnswerInv ==
    /\ \A d \in ToSet(timer_map) : d.kind = "ACK" => d.id \in 2 .. packet_expected
    /\ \A a \in ToSet(packet_map) : a.kind = "ACK" =>
          /\ a.id \in 2 .. packet_expected /\ ShortestTrip <= a.time
          /\ \A m \in 1 .. a.id - 1 :
                SentBy(queue_for_rtt, sent_so_far, m, a.time - ShortestTrip)

\* An ACK comes once, before its copy is sent again.
CopyInv ==
    /\ \A a \in ToSet(packet_map) : a.kind = "ACK" =>
          /\ a.id \in Pending(ToSet(timer_map))
          /\ \A d \in ToSet(timer_map) : d.kind = "ACK" /\ d.id = a.id => a.time < d.time
    /\ \A k \in Nat : Single(timer_map, Acks(k)) /\ Single(packet_map, Acks(k))

\* There are no more ACKs to come than samples for them: not in all, and not
\* before the ACK that answers a packet which is too new to have been answered.
CountInv ==
    /\ sent_so_far - Len(queue_for_rtt) + Cardinality(Pending(ToSet(timer_map)))
          < packet_expected
    /\ \A m \in 1 .. sent_so_far :
          \/ SentBy(queue_for_rtt, sent_so_far, m, clock - ShortestTrip)
          \/ sent_so_far - Len(queue_for_rtt)
               + Cardinality(Upto(Pending(ToSet(timer_map)), m)) < m

(* Durations of the path.                                                  *)
LEMMA Ways ==
    ASSUME TypeInv
    PROVE  /\ path.length \in Nat /\ path.there \in Nat \ {0} /\ path.back \in Nat \ {0}
           /\ Way \in Nat \ {0} /\ ShortestTrip \in Nat \ {0}
           /\ Way = path.length + path.there /\ ShortestTrip = Way + path.back
<1>1. path.length \in Nat /\ path.there \in Nat \ {0} /\ path.back \in Nat \ {0}
  BY PathOK DEF TypeInv
<1>2. Way = path.length + path.there /\ ShortestTrip = path.length + path.there + path.back
  BY DEF Way, ShortestTrip
<1> QED
  BY <1>1, <1>2

LEMMA Shifted ==
    ASSUME NEW a \in Int, NEW b \in Int, NEW w \in Int, a <= b
    PROVE  a - w \in Int /\ b - w \in Int /\ a - w <= b - w
OBVIOUS

(* Samples of packets that were sent long ago.                             *)
LEMMA SentLater ==
    ASSUME NEW q \in Seq(Int), NEW n \in Nat, NEW m \in Int, NEW t \in Int, NEW u \in Int,
           t <= u, SentBy(q, n, m, t)
    PROVE  SentBy(q, n, m, u)
<1>1. \A i \in 1 .. Len(q) : q[i] \in Int
  OBVIOUS
<1> QED
  BY <1>1 DEF SentBy

LEMMA SentNow ==
    ASSUME NEW q \in Seq(Int), NEW n \in Nat, NEW m \in Int, NEW t \in Int, NEW u \in Int,
           t <= u, \A i \in 1 .. Len(q) : q[i] <= t
    PROVE  SentBy(q, n, m, u)
<1>1. \A i \in 1 .. Len(q) : q[i] \in Int
  OBVIOUS
<1> QED
  BY <1>1 DEF SentBy

LEMMA SentMore ==
    ASSUME NEW q \in Seq(Int), NEW n \in Nat, NEW m \in Int, NEW t \in Int,
           NEW now \in Int, NEW k \in Nat, m <= n, SentBy(q, n, m, t)
    PROVE  SentBy(Sampled(q, now, k), n + k, m, t)
<1> DEFINE r == Sampled(q, now, k)
<1>1. Len(q) \in Nat /\ Len(r) = Len(q) + k /\ \A i \in 1 .. Len(q) : r[i] = q[i]
  BY SamplesAdded
<1> HIDE DEF r
<1>2. ASSUME NEW i \in 1 .. Len(r), (n + k) - Len(r) + i = m
      PROVE  r[i] <= t
  <2>1. n - Len(q) + i = m
    BY <1>1, <1>2
  <2>2. i \in 1 .. Len(q)
    BY <1>1, <1>2, <2>1
  <2> QED
    BY <1>1, <2>1, <2>2 DEF SentBy
<1> QED
  BY <1>2 DEF SentBy, r

LEMMA SentLess ==
    ASSUME NEW q \in Seq(Int), NEW n \in Nat, NEW m \in Int, NEW t \in Int,
           q # <<>>, SentBy(q, n, m, t)
    PROVE  SentBy(Tail(q), n, m, t)
<1> DEFINE r == Tail(q)
<1>1. Len(q) \in Nat \ {0} /\ Len(r) = Len(q) - 1 /\ \A i \in 1 .. Len(r) : r[i] = q[i + 1]
  OBVIOUS
<1> HIDE DEF r
<1>2. ASSUME NEW i \in 1 .. Len(r), n - Len(r) + i = m
      PROVE  r[i] <= t
  <2>1. i + 1 \in 1 .. Len(q) /\ n - Len(q) + (i + 1) = m
    BY <1>1, <1>2
  <2> QED
    BY <1>1, <2>1 DEF SentBy
<1> QED
  BY <1>2 DEF SentBy, r

\* What no step takes away.
Carried ==
    \A m, t, u \in Int :
        m <= sent_so_far /\ t <= u /\ SentBy(queue_for_rtt, sent_so_far, m, t)
            => SentBy(queue_for_rtt', sent_so_far', m, u)

Steady ==
    /\ clock \in Nat /\ clock' \in Nat /\ clock <= clock'
    /\ path' = path /\ Way' = Way /\ ShortestTrip' = ShortestTrip
    /\ sent_so_far \in Nat /\ sent_so_far' \in Nat /\ sent_so_far <= sent_so_far'
    /\ queue_for_rtt \in Seq(Int) /\ queue_for_rtt' \in Seq(Int)
    /\ \A i \in 1 .. Len(queue_for_rtt') : queue_for_rtt'[i] <= clock'
    /\ Carried

LEMMA CarriedSame ==
    ASSUME TypeInv, queue_for_rtt' = queue_for_rtt, sent_so_far' = sent_so_far
    PROVE  Carried
<1>1. queue_for_rtt \in Seq(Int) /\ sent_so_far \in Nat
  BY SizesAssumption DEF TypeInv
<1> QED
  BY <1>1, SentLater DEF Carried

LEMMA StepSteady ==
    ASSUME TypeInv, SampleInv, TimeInv, TypeInv', TimeInv', Next
    PROVE  Steady
<1>1. /\ sent_so_far \in Nat /\ queue_for_rtt \in Seq(Int) /\ queue_for_rtt' \in Seq(Int)
      /\ clock \in Nat /\ clock' \in Nat
      /\ \A i \in 1 .. Len(queue_for_rtt') : queue_for_rtt'[i] <= clock'
  BY SizesAssumption DEF TypeInv, TimeInv
<1>2. clock <= clock' /\ path' = path
  BY FirstOfAll DEF Next, SendBurst, SendNothing, Resend, Fires, DataInOrder, DataAhead,
     DataRepeated, Ack, Arrives
<1>3. sent_so_far' \in Nat /\ sent_so_far <= sent_so_far' /\ Carried
  <2>1. CASE \E e : SendBurst(e)
    <3>1. PICK n \in Nat : /\ sent_so_far' = sent_so_far + n
                           /\ queue_for_rtt' = Sampled(queue_for_rtt, clock', n)
      BY <2>1, BurstSends
    <3>2. ASSUME NEW m \in Int, NEW t \in Int, NEW u \in Int, m <= sent_so_far, t <= u,
                 SentBy(queue_for_rtt, sent_so_far, m, t)
          PROVE  SentBy(queue_for_rtt', sent_so_far', m, u)
      <4>1. SentBy(queue_for_rtt, sent_so_far, m, u)
        BY <1>1, <3>2, SentLater
      <4>2. clock' \in Int
        BY <1>1
      <4> QED
        BY <1>1, <3>1, <3>2, <4>1, <4>2, SentMore
    <3> QED
      BY <1>1, <3>1, <3>2 DEF Carried
  <2>2. CASE \E e : SendNothing(e) \/ Resend(e) \/ DataInOrder(e) \/ DataAhead(e) \/ DataRepeated(e)
    <3>1. queue_for_rtt' = queue_for_rtt /\ sent_so_far' = sent_so_far
      BY <2>2 DEF SendNothing, Resend, DataInOrder, DataAhead, DataRepeated, Arrives, estimate
    <3> QED
      BY <1>1, <3>1, CarriedSame
  <2>3. CASE \E e : Ack(e)
    <3>1. PICK e : Ack(e)
      BY <2>3
    <3>2. /\ sent_so_far' = sent_so_far
          /\ \/ queue_for_rtt' = queue_for_rtt
             \/ queue_for_rtt # <<>> /\ queue_for_rtt' = Tail(queue_for_rtt)
      BY <3>1 DEF Ack, Arrives, Estimate
    <3>3. CASE queue_for_rtt' = queue_for_rtt
      BY <1>1, <3>2, <3>3, CarriedSame
    <3>4. CASE queue_for_rtt # <<>> /\ queue_for_rtt' = Tail(queue_for_rtt)
      <4>1. ASSUME NEW m \in Int, NEW t \in Int, NEW u \in Int, m <= sent_so_far, t <= u,
                   SentBy(queue_for_rtt, sent_so_far, m, t)
            PROVE  SentBy(queue_for_rtt', sent_so_far', m, u)
        <5>1. SentBy(queue_for_rtt, sent_so_far, m, u)
          BY <1>1, <4>1, SentLater
        <5> QED
          BY <1>1, <3>2, <3>4, <5>1, SentLess
      <4> QED
        BY <1>1, <3>2, <4>1 DEF Carried
    <3> QED
      BY <3>2, <3>3, <3>4
  <2> QED
    BY <2>1, <2>2, <2>3 DEF Next
<1>4. Way' = Way /\ ShortestTrip' = ShortestTrip
  BY <1>2 DEF Way, ShortestTrip
<1> QED
  BY <1>1, <1>2, <1>3, <1>4 DEF Steady

(* What stays true when the step adds nothing wrong.                       *)
LEMMA EstimatesStay ==
    ASSUME TypeInv, Estimates, Steady, rtt_in_host' = rtt_in_host,
           rtt_estimation' = rtt_estimation, queue_for_rtt' = queue_for_rtt,
           sent_so_far' = sent_so_far
    PROVE  Estimates'
<1>1. rtt_estimation # Unwritten => rtt_estimation \in Int
  BY DEF TypeInv
<1>2. ShortestTrip \in Nat
  BY Ways
<1>3. rtt_estimation # Unwritten => rtt_estimation + ShortestTrip <= clock'
  BY <1>1, <1>2 DEF Estimates, Steady
<1> QED
  BY <1>3 DEF Estimates, Steady

LEMMA OutwardStays ==
    ASSUME TypeInv, OutwardInv, Steady,
           \A d \in ToSet(timer_map') : d.kind = "DATA" =>
               d \in ToSet(timer_map) \/ d.id \in 1 .. sent_so_far',
           \A a \in ToSet(packet_map') : a.kind = "DATA" =>
               \/ a \in ToSet(packet_map)
               \/ a.time \in Int /\ a.id \in 1 .. sent_so_far' /\ clock' + Way <= a.time
    PROVE  OutwardInv'
<1>1. /\ Way \in Nat /\ sent_so_far \in Nat /\ sent_so_far' \in Nat /\ sent_so_far <= sent_so_far'
      /\ Way' = Way /\ clock' \in Nat
      /\ queue_for_rtt' \in Seq(Int)
      /\ \A i \in 1 .. Len(queue_for_rtt') : queue_for_rtt'[i] <= clock'
  BY Ways DEF Steady
<1>2. \A d \in ToSet(timer_map') : d.kind = "DATA" => d.id \in 1 .. sent_so_far'
  BY <1>1 DEF OutwardInv
<1>3. ASSUME NEW a \in ToSet(packet_map'), a.kind = "DATA"
      PROVE  /\ a.id \in 1 .. sent_so_far' /\ Way <= a.time
             /\ SentBy(queue_for_rtt', sent_so_far', a.id, a.time - Way)
  <2>1. CASE a \in ToSet(packet_map)
    <3>1. a.id \in 1 .. sent_so_far /\ Way <= a.time
          /\ SentBy(queue_for_rtt, sent_so_far, a.id, a.time - Way)
      BY <1>3, <2>1 DEF OutwardInv
    <3>2. a.time \in Int
      BY <2>1, Holds, TimesOfMaps DEF TypeInv, MapsOK
    <3>3. a.id \in Int /\ a.id <= sent_so_far
          /\ a.time - Way \in Int /\ a.time - Way <= a.time - Way
      BY <1>1, <3>1, <3>2
    <3>4. SentBy(queue_for_rtt', sent_so_far', a.id, a.time - Way)
      BY <3>1, <3>3 DEF Steady, Carried
    <3> QED
      BY <1>1, <3>1, <3>4
  <2>2. CASE a.time \in Int /\ a.id \in 1 .. sent_so_far' /\ clock' + Way <= a.time
    <3>1. a.id \in Int /\ a.time - Way \in Int /\ clock' <= a.time - Way /\ clock' \in Int
          /\ Way <= a.time
      BY <1>1, <2>2
    <3>2. SentBy(queue_for_rtt', sent_so_far', a.id, a.time - Way)
      BY <1>1, <3>1, SentNow
    <3> QED
      BY <2>2, <3>1, <3>2
  <2> QED
    BY <1>3, <2>1, <2>2
<1> QED
  BY <1>1, <1>2, <1>3 DEF OutwardInv

LEMMA ReceivedStays ==
    ASSUME TypeInv, ReceivedInv, Steady, UNCHANGED destination
    PROVE  ReceivedInv'
<1> DEFINE now == clock'
           sent == sent_so_far'
<1>1. /\ Way' = Way /\ packet_expected' = packet_expected /\ order_packet_map' = order_packet_map
  BY DEF Steady, destination
<1>2. /\ Way \in Int /\ clock \in Int /\ now \in Int /\ clock <= now
      /\ sent_so_far \in Int /\ sent \in Int /\ sent_so_far <= sent
      /\ packet_expected \in Int
  BY Ways DEF Steady, TypeInv
<1> HIDE DEF now, sent
<1>3. ASSUME NEW m \in 1 .. sent, m < packet_expected \/ m \in order_packet_map
      PROVE  SentBy(queue_for_rtt', sent, m, now - Way)
  <2>1. m \in 1 .. sent_so_far
    BY <1>2, <1>3 DEF ReceivedInv
  <2>2. SentBy(queue_for_rtt, sent_so_far, m, clock - Way)
    BY <1>3, <2>1 DEF ReceivedInv
  <2>3. m \in Int /\ m <= sent_so_far
    BY <1>2, <2>1
  <2>4. clock - Way \in Int /\ now - Way \in Int /\ clock - Way <= now - Way
    BY <1>2, Shifted
  <2> QED
    BY <2>2, <2>3, <2>4 DEF Steady, Carried, sent
<1>4. packet_expected <= sent + 1 /\ order_packet_map \subseteq 1 .. sent
  <2>1. packet_expected <= sent_so_far + 1 /\ order_packet_map \subseteq 1 .. sent_so_far
    BY DEF ReceivedInv
  <2>2. packet_expected <= sent + 1
    BY <1>2, <2>1
  <2>3. 1 .. sent_so_far \subseteq 1 .. sent
    BY <1>2
  <2> QED
    BY <2>1, <2>2, <2>3
<1>5. packet_expected > 1 => Way <= now
  BY <1>2 DEF ReceivedInv
<1> QED
  BY <1>1, <1>3, <1>4, <1>5 DEF ReceivedInv, now, sent

LEMMA AnswerStays ==
    ASSUME TypeInv, ReceivedInv, AnswerInv, Steady, packet_expected' \in Nat,
           packet_expected <= packet_expected',
           \A d \in ToSet(timer_map') : d.kind = "ACK" =>
               d \in ToSet(timer_map) \/ d.id \in 2 .. packet_expected',
           \A a \in ToSet(packet_map') : a.kind = "ACK" =>
               \/ a \in ToSet(packet_map)
               \/ /\ a.id \in 2 .. packet_expected' /\ ShortestTrip <= a.time
                  /\ \A m \in 1 .. a.id - 1 :
                        SentBy(queue_for_rtt', sent_so_far', m, a.time - ShortestTrip)
    PROVE  AnswerInv'
<1>1. /\ ShortestTrip \in Nat /\ ShortestTrip' = ShortestTrip /\ packet_expected \in Nat
      /\ sent_so_far \in Nat /\ packet_expected <= sent_so_far + 1
  BY Ways DEF Steady, TypeInv, ReceivedInv
<1>2. \A d \in ToSet(timer_map') : d.kind = "ACK" => d.id \in 2 .. packet_expected'
  BY <1>1 DEF AnswerInv
<1>3. ASSUME NEW a \in ToSet(packet_map), a.kind = "ACK"
      PROVE  /\ a.id \in 2 .. packet_expected' /\ ShortestTrip <= a.time
             /\ \A m \in 1 .. a.id - 1 :
                   SentBy(queue_for_rtt', sent_so_far', m, a.time - ShortestTrip)
  <2>1. /\ a.id \in 2 .. packet_expected /\ ShortestTrip <= a.time
        /\ \A m \in 1 .. a.id - 1 :
              SentBy(queue_for_rtt, sent_so_far, m, a.time - ShortestTrip)
    BY <1>3 DEF AnswerInv
  <2>2. a.time \in Int
    BY <1>3, Holds, TimesOfMaps DEF TypeInv, MapsOK
  <2>3. ASSUME NEW m \in 1 .. a.id - 1
        PROVE  SentBy(queue_for_rtt', sent_so_far', m, a.time - ShortestTrip)
    <3>1. m \in Int /\ m <= sent_so_far /\ a.time - ShortestTrip \in Int
          /\ a.time - ShortestTrip <= a.time - ShortestTrip
      BY <1>1, <2>1, <2>2
    <3> QED
      BY <2>1, <3>1 DEF Steady, Carried
  <2>4. a.id \in 2 .. packet_expected'
    BY <1>1, <2>1
  <2> QED
    BY <2>1, <2>3, <2>4
<1>4. \A a \in ToSet(packet_map') : a.kind = "ACK" =>
          /\ a.id \in 2 .. packet_expected' /\ ShortestTrip <= a.time
          /\ \A m \in 1 .. a.id - 1 :
                SentBy(queue_for_rtt', sent_so_far', m, a.time - ShortestTrip)
  BY <1>3
<1> QED
  BY <1>1, <1>2, <1>4 DEF AnswerInv

\* The ACKs pending stay the same ones, and none comes on its way.
LEMMA CopyStays ==
    ASSUME CopyInv,
           \A d : d.kind = "ACK" => (d \in ToSet(timer_map') <=> d \in ToSet(timer_map)),
           \A a \in ToSet(packet_map') : a.kind = "ACK" => a \in ToSet(packet_map),
           \A k \in Nat : /\ Single(timer_map, Acks(k)) => Single(timer_map', Acks(k))
                          /\ Single(packet_map, Acks(k)) => Single(packet_map', Acks(k))
    PROVE  CopyInv' /\ Pending(ToSet(timer_map')) = Pending(ToSet(timer_map))
<1>1. Pending(ToSet(timer_map')) = Pending(ToSet(timer_map))
  BY DEF Pending
<1>2. \A k \in Nat : Single(timer_map', Acks(k)) /\ Single(packet_map', Acks(k))
  BY DEF CopyInv
<1>3. \A a \in ToSet(packet_map') : a.kind = "ACK" =>
          /\ a.id \in Pending(ToSet(timer_map'))
          /\ \A d \in ToSet(timer_map') : d.kind = "ACK" /\ d.id = a.id => a.time < d.time
  BY <1>1 DEF CopyInv
<1> QED
  BY <1>1, <1>2, <1>3 DEF CopyInv

LEMMA ProductGrows ==
    ASSUME NEW a \in Nat \ {0}, NEW b \in Nat
    PROVE  a * b \in Nat /\ b <= a * b
<1>1. a - 1 \in Nat /\ a = (a - 1) + 1
  OBVIOUS
<1>2. (a - 1) * b \in Nat
  BY <1>1, ProductNat
<1>3. a * b = (a - 1) * b + b
  OBVIOUS
<1> QED
  BY <1>2, <1>3

(* How many numbers up to m a set has when a number is added or removed.   *)
LEMMA UptoFinite ==
    ASSUME NEW S \in SUBSET Int, IsFiniteSet(S), NEW m \in Int
    PROVE  /\ Cardinality(S) \in Nat
           /\ IsFiniteSet(Upto(S, m)) /\ Cardinality(Upto(S, m)) \in Nat
           /\ Cardinality(Upto(S, m)) <= Cardinality(S)
           /\ \A x \in S : x <= m => 1 <= Cardinality(Upto(S, m))
<1>1. Upto(S, m) \in SUBSET S
  BY DEF Upto
<1>2. /\ Cardinality(S) \in Nat
      /\ IsFiniteSet(Upto(S, m)) /\ Cardinality(Upto(S, m)) \in Nat
      /\ Cardinality(Upto(S, m)) <= Cardinality(S)
  BY <1>1, FS_Subset, FS_CardinalityType
<1>3. ASSUME NEW x \in S, x <= m
      PROVE  1 <= Cardinality(Upto(S, m))
  <2>1. x \in Upto(S, m)
    BY <1>3 DEF Upto
  <2>2. Cardinality(Upto(S, m)) # 0
    BY <1>2, <2>1, FS_EmptySet
  <2> QED
    BY <1>2, <2>2
<1> QED
  BY <1>2, <1>3

LEMMA UptoAll ==
    ASSUME NEW n \in Nat, NEW S \in SUBSET (2 .. n), NEW m \in Int, n <= m
    PROVE  Upto(S, m) = S
<1>1. \A k \in S : k \in Int /\ k <= n
  OBVIOUS
<1>2. \A k \in S : k <= m
  BY <1>1
<1> QED
  BY <1>2 DEF Upto

LEMMA UptoAdd ==
    ASSUME NEW S \in SUBSET Int, IsFiniteSet(S), NEW x \in Int, x \notin S
    PROVE  /\ Cardinality(S \cup {x}) = Cardinality(S) + 1
           /\ \A m \in Int : Cardinality(Upto(S \cup {x}, m)) =
                 IF x <= m THEN Cardinality(Upto(S, m)) + 1 ELSE Cardinality(Upto(S, m))
<1>1. Cardinality(S \cup {x}) = Cardinality(S) + 1
  BY FS_AddElement
<1>2. ASSUME NEW m \in Int
      PROVE  Cardinality(Upto(S \cup {x}, m)) =
               IF x <= m THEN Cardinality(Upto(S, m)) + 1 ELSE Cardinality(Upto(S, m))
  <2>1. IsFiniteSet(Upto(S, m)) /\ x \notin Upto(S, m)
    BY UptoFinite DEF Upto
  <2>2. CASE x <= m
    <3>1. Upto(S \cup {x}, m) = Upto(S, m) \cup {x}
      BY <2>2 DEF Upto
    <3>2. Cardinality(Upto(S, m) \cup {x}) = Cardinality(Upto(S, m)) + 1
      BY <2>1, FS_AddElement
    <3> QED
      BY <2>2, <3>1, <3>2
  <2>3. CASE ~(x <= m)
    <3>1. Upto(S \cup {x}, m) = Upto(S, m)
      BY <2>3 DEF Upto
    <3> QED
      BY <2>3, <3>1
  <2> QED
    BY <2>2, <2>3
<1> QED
  BY <1>1, <1>2

LEMMA UptoRemove ==
    ASSUME NEW S \in SUBSET Int, IsFiniteSet(S), NEW x \in S
    PROVE  /\ Cardinality(S) = Cardinality(S \ {x}) + 1
           /\ \A m \in Int : Cardinality(Upto(S, m)) =
                 IF x <= m THEN Cardinality(Upto(S \ {x}, m)) + 1
                           ELSE Cardinality(Upto(S \ {x}, m))
<1> DEFINE R == S \ {x}
<1>1. /\ R \in SUBSET Int /\ x \in Int /\ x \notin R /\ R \cup {x} = S
  OBVIOUS
<1>2. IsFiniteSet(R)
  BY FS_Subset
<1> HIDE DEF R
<1>3. /\ Cardinality(R \cup {x}) = Cardinality(R) + 1
      /\ \A m \in Int : Cardinality(Upto(R \cup {x}, m)) =
            IF x <= m THEN Cardinality(Upto(R, m)) + 1 ELSE Cardinality(Upto(R, m))
  BY <1>1, <1>2, UptoAdd
<1> QED
  BY <1>1, <1>3 DEF R

LEMMA PendingIs ==
    ASSUME TypeInv, AnswerInv
    PROVE  /\ Pending(ToSet(timer_map)) \in SUBSET (2 .. packet_expected)
           /\ Pending(ToSet(timer_map)) \in SUBSET Int
           /\ IsFiniteSet(Pending(ToSet(timer_map))) /\ packet_expected \in Nat
<1>1. packet_expected \in Nat /\ 2 \in Int
  BY DEF TypeInv
<1>2. Pending(ToSet(timer_map)) \in SUBSET (2 .. packet_expected)
  BY DEF Pending, AnswerInv
<1>3. IsFiniteSet(2 .. packet_expected)
  BY <1>1, FS_Interval
<1> QED
  BY <1>1, <1>2, <1>3, FS_Subset

\* No ACK comes or goes; there may be new samples.
LEMMA CountStays ==
    ASSUME TypeInv, ReceivedInv, AnswerInv, CountInv, Steady,
           Pending(ToSet(timer_map')) = Pending(ToSet(timer_map)),
           sent_so_far' - Len(queue_for_rtt') = sent_so_far - Len(queue_for_rtt),
           packet_expected' = packet_expected
    PROVE  CountInv'
<1> DEFINE now == clock'
           sent == sent_so_far'
           q == queue_for_rtt'
           P == Pending(ToSet(timer_map))
           c == sent_so_far - Len(queue_for_rtt)
<1>1. ShortestTrip \in Int /\ clock \in Int /\ now \in Int /\ clock <= now
      /\ sent_so_far \in Nat /\ sent \in Nat /\ c \in Int
  BY Ways DEF Steady
<1>2. /\ P \in SUBSET (2 .. packet_expected) /\ P \in SUBSET Int /\ IsFiniteSet(P)
      /\ packet_expected \in Nat /\ packet_expected <= sent_so_far + 1
  BY PendingIs DEF ReceivedInv
<1>3. /\ c + Cardinality(P) < packet_expected
      /\ \A m \in 1 .. sent_so_far :
            \/ SentBy(queue_for_rtt, sent_so_far, m, clock - ShortestTrip)
            \/ c + Cardinality(Upto(P, m)) < m
  BY DEF CountInv
<1>4. Carried
  BY DEF Steady
<1>5. /\ ShortestTrip' = ShortestTrip /\ Pending(ToSet(timer_map')) = P
      /\ sent - Len(q) = c /\ packet_expected' = packet_expected
  BY DEF Steady
<1> HIDE DEF now, P, c, sent, q
<1>6. ASSUME NEW m \in 1 .. sent
      PROVE  SentBy(q, sent, m, now - ShortestTrip) \/ c + Cardinality(Upto(P, m)) < m
  <2>1. CASE m <= sent_so_far
    <3>1. m \in 1 .. sent_so_far /\ m \in Int
      BY <1>1, <2>1
    <3>2. clock - ShortestTrip \in Int /\ now - ShortestTrip \in Int
          /\ clock - ShortestTrip <= now - ShortestTrip
      BY <1>1, Shifted
    <3>3. SentBy(queue_for_rtt, sent_so_far, m, clock - ShortestTrip)
             => SentBy(q, sent, m, now - ShortestTrip)
      BY <1>4, <2>1, <3>1, <3>2 DEF Carried, q, sent
    <3> QED
      BY <1>3, <3>1, <3>3
  <2>2. CASE ~(m <= sent_so_far)
    <3>1. packet_expected <= m /\ m \in Int
      BY <1>1, <1>2, <2>2
    <3>2. Upto(P, m) = P
      BY <1>2, <3>1, UptoAll
    <3>3. Cardinality(P) \in Nat
      BY <1>2, FS_CardinalityType
    <3> QED
      BY <1>1, <1>2, <1>3, <3>1, <3>2, <3>3
  <2> QED
    BY <2>1, <2>2
<1> QED
  BY <1>3, <1>5, <1>6 DEF CountInv, now, P, c, sent, q

(* At most one event of a set in a map.                                    *)
LEMMA FirstSingle ==
    ASSUME TypeInv
    PROVE  /\ \A e : Fires(e) =>
                \A K : Single(timer_map, K) =>
                    /\ Single(Tail(timer_map), K)
                    /\ e \in K => ToSet(Tail(timer_map)) \cap K = {}
           /\ \A e : Arrives(e) =>
                \A K : Single(packet_map, K) =>
                    /\ Single(Tail(packet_map), K)
                    /\ e \in K => ToSet(Tail(packet_map)) \cap K = {}
<1>1. /\ timer_map # <<>> =>
           \A K : Single(timer_map, K) =>
              /\ Single(Tail(timer_map), K)
              /\ Head(timer_map) \in K => ToSet(Tail(timer_map)) \cap K = {}
      /\ packet_map # <<>> =>
           \A K : Single(packet_map, K) =>
              /\ Single(Tail(packet_map), K)
              /\ Head(packet_map) \in K => ToSet(Tail(packet_map)) \cap K = {}
  BY TimesOfMaps, TailHolds DEF TypeInv, MapsOK
<1>2. /\ \A e : Fires(e) => timer_map # <<>> /\ e = Head(timer_map)
      /\ \A e : Arrives(e) => packet_map # <<>> /\ e = Head(packet_map)
  BY FirstOK DEF TypeInv
<1> QED
  BY <1>1, <1>2

LEMMA TimerSingle ==
    ASSUME NEW map \in Seq(Timers), Sorted(map), NEW e \in Timers
    PROVE  \A K : Single(map, K) /\ (e \in K => ToSet(map) \cap K = {})
                     => Single(Schedule(map, e), K)
BY TimesOfMaps, ScheduleHolds

LEMMA DeliverSingle ==
    ASSUME NEW map \in Seq(Arrivals), Sorted(map), NEW e \in Arrivals, Deliver(map, e)
    PROVE  \A K : Single(map, K) /\ (e \in K => ToSet(map) \cap K = {})
                     => Single(packet_map', K)
<1>1. \A K : Single(map, K) /\ (e \in K => ToSet(map) \cap K = {})
                => Single(Schedule(map, e), K)
  BY TimesOfMaps, ScheduleHolds
<1> QED
  BY <1>1 DEF Deliver

Covered == Estimates /\ OutwardInv /\ ReceivedInv /\ AnswerInv /\ CopyInv /\ CountInv

LEMMA SendBurstCovers ==
    ASSUME TypeInv, TypeInv', Steady, NEW e, SendBurst(e), Covered
    PROVE  Covered'
<1>1. PICK n \in Nat :
        /\ Burst = sent_so_far + 1 .. sent_so_far + n
        /\ sent_so_far' = sent_so_far + n
        /\ queue_for_rtt' = Sampled(queue_for_rtt, clock', n)
  BY BurstSends
<1>2. /\ rtt_in_host' = rtt_in_host /\ rtt_estimation' = rtt_estimation
      /\ UNCHANGED destination /\ packet_expected' = packet_expected
  BY DEF SendBurst, Fires, destination
<1>3. /\ e.kind = "normal" /\ ToSet(timer_map) = ToSet(Tail(timer_map)) \cup {e}
      /\ Fires(e)
  BY FirstOK DEF SendBurst, TypeInv
<1>4. /\ \A id : CopyOf(clock', id).kind = "DATA" /\ CopyOf(clock', id).id = id
      /\ \A id : ArrivalOf(clock', id).kind = "DATA" /\ ArrivalOf(clock', id).id = id
  BY DEF CopyOf, ArrivalOf, Event
<1>5. /\ \A d \in ToSet(timer_map') :
            d \in ToSet(timer_map) \/ \E id \in Burst : d = CopyOf(clock', id)
      /\ \A d \in ToSet(timer_map) : d \in ToSet(timer_map') \/ d.kind = "normal"
  BY <1>3, BurstTimers
<1>6. \A a \in ToSet(packet_map') :
         a \in ToSet(packet_map) \/ \E id \in Burst : a = ArrivalOf(clock', id)
  BY BurstArrivals
<1>7. /\ sent_so_far \in Nat /\ queue_for_rtt \in Seq(Int) /\ Len(queue_for_rtt) \in Nat
      /\ clock' \in Nat /\ Way \in Nat
  BY Ways DEF Steady
<1>8. OutwardInv'
  <2>1. \A id \in Burst : id \in 1 .. sent_so_far'
    BY <1>1, <1>7
  <2>2. ASSUME NEW id \in Burst
        PROVE  ArrivalOf(clock', id).time \in Int /\ clock' + Way <= ArrivalOf(clock', id).time
    <3> DEFINE top == Max({clock', free})
               k == id - sent_so_far
    <3>1. path.length \in Nat /\ path.there \in Nat /\ Way = path.length + path.there
      BY Ways
    <3>2. free \in Int /\ clock' \in Int
      BY <1>7 DEF TypeInv
    <3>3. top \in Int /\ clock' <= top
      BY <3>2, MaxOfTwo
    <3>4. k \in Nat \ {0}
      BY <1>1, <1>7
    <3>5. ArrivalOf(clock', id).time = top + k * path.length + path.there
      BY DEF ArrivalOf, Event
    <3> HIDE DEF top, k
    <3>6. k * path.length \in Nat /\ path.length <= k * path.length
      BY <3>1, <3>4, ProductGrows
    <3> QED
      BY <3>1, <3>2, <3>3, <3>5, <3>6
  <2>3. \A d \in ToSet(timer_map') : d.kind = "DATA" =>
            d \in ToSet(timer_map) \/ d.id \in 1 .. sent_so_far'
    BY <1>4, <1>5, <2>1
  <2>4. \A a \in ToSet(packet_map') : a.kind = "DATA" =>
            \/ a \in ToSet(packet_map)
            \/ a.time \in Int /\ a.id \in 1 .. sent_so_far' /\ clock' + Way <= a.time
    BY <1>4, <1>6, <2>1, <2>2
  <2> QED
    BY <2>3, <2>4, OutwardStays DEF Covered
<1>9. ReceivedInv'
  BY <1>2, ReceivedStays DEF Covered
<1>10. AnswerInv'
  <2>1. packet_expected' \in Nat /\ packet_expected <= packet_expected'
    BY <1>2 DEF TypeInv
  <2>2. \A d \in ToSet(timer_map') : d.kind = "ACK" => d \in ToSet(timer_map)
    BY <1>4, <1>5
  <2>3. \A a \in ToSet(packet_map') : a.kind = "ACK" => a \in ToSet(packet_map)
    BY <1>4, <1>6
  <2> QED
    BY <2>1, <2>2, <2>3, AnswerStays DEF Covered
<1>11. CopyInv' /\ Pending(ToSet(timer_map')) = Pending(ToSet(timer_map))
  <2>1. \A d : d.kind = "ACK" => (d \in ToSet(timer_map') <=> d \in ToSet(timer_map))
    BY <1>4, <1>5
  <2>2. \A a \in ToSet(packet_map') : a.kind = "ACK" => a \in ToSet(packet_map)
    BY <1>4, <1>6
  <2>3. \A k \in Nat, id \in Burst :
           CopyOf(clock', id) \notin Acks(k) /\ ArrivalOf(clock', id) \notin Acks(k)
    BY <1>4 DEF Acks
  <2>4. \A k \in Nat : Single(timer_map, Acks(k)) => Single(timer_map', Acks(k))
    BY <1>3, <2>3, FirstSingle, BurstTimers
  <2>5. \A k \in Nat : Single(packet_map, Acks(k)) => Single(packet_map', Acks(k))
    BY <2>3, BurstArrivals
  <2> QED
    BY <2>1, <2>2, <2>4, <2>5, CopyStays DEF Covered
<1>12. /\ Len(queue_for_rtt') = Len(queue_for_rtt) + n
       /\ \A i \in 1 .. Len(queue_for_rtt) : queue_for_rtt'[i] = queue_for_rtt[i]
  <2>1. clock' \in Int
    BY <1>7
  <2> QED
    BY <1>1, <1>7, <2>1, SamplesAdded
<1>13. CountInv'
  <2>1. sent_so_far' - Len(queue_for_rtt') = sent_so_far - Len(queue_for_rtt)
    BY <1>1, <1>7, <1>12
  <2> QED
    BY <1>2, <1>11, <2>1, CountStays DEF Covered
<1>14. Estimates'
  <2> DEFINE q == queue_for_rtt'
             sent == sent_so_far'
  <2>1. Len(q) = Len(queue_for_rtt) + n /\ sent = sent_so_far + n
        /\ \A i \in 1 .. Len(queue_for_rtt) : q[i] = queue_for_rtt[i]
    BY <1>1, <1>12
  <2> HIDE DEF q, sent
  <2>2. ASSUME NEW i \in 1 .. Len(q), sent - Len(q) + i <= 0
        PROVE  q[i] < 0
    <3>1. sent_so_far - Len(queue_for_rtt) + i <= 0
      BY <1>7, <2>1, <2>2
    <3>2. i \in 1 .. Len(queue_for_rtt)
      BY <1>7, <2>1, <3>1
    <3> QED
      BY <2>1, <3>1, <3>2 DEF Covered, Estimates
  <2>3. rtt_estimation # Unwritten => rtt_estimation \in Int
    BY DEF TypeInv
  <2>4. ShortestTrip \in Nat /\ ShortestTrip' = ShortestTrip
        /\ clock \in Int /\ clock' \in Int /\ clock <= clock'
    BY Ways DEF Steady
  <2>5. rtt_estimation # Unwritten => rtt_estimation + ShortestTrip <= clock'
    BY <2>3, <2>4 DEF Covered, Estimates
  <2> QED
    BY <1>2, <2>2, <2>4, <2>5 DEF Covered, Estimates, q, sent
<1> QED
  BY <1>8, <1>9, <1>10, <1>11, <1>13, <1>14 DEF Covered

\* No packet of the source, no ACK: a timer or an arrival less.
LEMMA QuietCovers ==
    ASSUME TypeInv, TypeInv', Steady, NEW e,
           SendNothing(e) \/ DataAhead(e) \/ DataRepeated(e), Covered
    PROVE  Covered'
<1>1. /\ rtt_in_host' = rtt_in_host /\ rtt_estimation' = rtt_estimation
      /\ queue_for_rtt' = queue_for_rtt /\ sent_so_far' = sent_so_far
      /\ packet_expected' = packet_expected
  BY DEF SendNothing, DataAhead, DataRepeated, Fires, Arrives, estimate, destination
<1>2. /\ ToSet(timer_map') \subseteq ToSet(timer_map)
      /\ ToSet(packet_map') \subseteq ToSet(packet_map)
      /\ \A d \in ToSet(timer_map) : d.kind = "ACK" => d \in ToSet(timer_map')
      /\ \A K : Single(timer_map, K) => Single(timer_map', K)
      /\ \A K : Single(packet_map, K) => Single(packet_map', K)
  <2>1. CASE SendNothing(e)
    <3>1. Fires(e) /\ e.kind = "normal" /\ timer_map' = Tail(timer_map) /\ packet_map' = packet_map
      BY <2>1 DEF SendNothing
    <3>2. ToSet(timer_map) = ToSet(Tail(timer_map)) \cup {e}
      BY <3>1, FirstOK DEF TypeInv
    <3>3. \A K : Single(timer_map, K) => Single(Tail(timer_map), K)
      BY <3>1, FirstSingle
    <3> QED
      BY <3>1, <3>2, <3>3
  <2>2. CASE DataAhead(e) \/ DataRepeated(e)
    <3>1. /\ Arrives(e) /\ packet_map' = Tail(packet_map)
          /\ timer_map' = timer_map \/ timer_map' = Forget(timer_map, {<<"DATA", e.id>>})
      BY <2>2 DEF DataAhead, DataRepeated
    <3>2. ToSet(packet_map) = ToSet(Tail(packet_map)) \cup {e}
      BY <3>1, FirstOK DEF TypeInv
    <3>3. \A K : Single(packet_map, K) => Single(Tail(packet_map), K)
      BY <3>1, FirstSingle
    <3>4. timer_map \in Seq(Timers) /\ Sorted(timer_map)
      BY DEF TypeInv, MapsOK
    <3> DEFINE rest == Forget(timer_map, {<<"DATA", e.id>>})
    <3>5. /\ ToSet(rest) = {d \in ToSet(timer_map) : <<d.kind, d.id>> \notin {<<"DATA", e.id>>}}
          /\ \A K : Single(timer_map, K) => Single(rest, K)
      BY <3>4, ForgetKeeps
    <3> HIDE DEF rest
    <3>6. /\ ToSet(rest) \subseteq ToSet(timer_map)
          /\ \A d \in ToSet(timer_map) : d.kind = "ACK" => d \in ToSet(rest)
      BY <3>5
    <3> QED
      BY <3>1, <3>2, <3>3, <3>5, <3>6 DEF rest
  <2> QED
    BY <2>1, <2>2
<1>3. Estimates'
  BY <1>1, EstimatesStay DEF Covered
<1>4. OutwardInv'
  BY <1>2, OutwardStays DEF Covered
<1>5. AnswerInv'
  <2>1. packet_expected' \in Nat /\ packet_expected <= packet_expected'
    BY <1>1 DEF TypeInv
  <2> QED
    BY <1>2, <2>1, AnswerStays DEF Covered
<1>6. CopyInv' /\ Pending(ToSet(timer_map')) = Pending(ToSet(timer_map))
  BY <1>2, CopyStays DEF Covered
<1>7. CountInv'
  BY <1>1, <1>6, CountStays DEF Covered
<1>8. ReceivedInv'
  <2>1. CASE SendNothing(e) \/ DataRepeated(e)
    BY <2>1, ReceivedStays DEF Covered, SendNothing, DataRepeated, Fires
  <2>2. CASE DataAhead(e)
    <3> DEFINE now == clock'
    <3>1. /\ order_packet_map' = order_packet_map \cup {e.id} /\ e.kind = "DATA"
          /\ Arrives(e) /\ now = e.time
      BY <2>2 DEF DataAhead, Arrives
    <3>2. /\ Way' = Way /\ Way \in Int /\ clock \in Int /\ now \in Int /\ clock <= now
          /\ sent_so_far \in Nat
      BY Ways DEF Steady
    <3>3. e \in ToSet(packet_map)
      BY <3>1, FirstOK DEF TypeInv
    <3>4. e.id \in 1 .. sent_so_far /\ SentBy(queue_for_rtt, sent_so_far, e.id, now - Way)
      BY <3>1, <3>3 DEF Covered, OutwardInv
    <3> HIDE DEF now
    <3>5. clock - Way \in Int /\ now - Way \in Int /\ clock - Way <= now - Way
      BY <3>2, Shifted
    <3>6. ASSUME NEW m \in 1 .. sent_so_far, m < packet_expected \/ m \in order_packet_map
          PROVE  SentBy(queue_for_rtt, sent_so_far, m, now - Way)
      <4>1. SentBy(queue_for_rtt, sent_so_far, m, clock - Way)
        BY <3>6 DEF Covered, ReceivedInv
      <4>2. queue_for_rtt \in Seq(Int) /\ m \in Int
        BY DEF Steady
      <4> QED
        BY <3>2, <3>5, <4>1, <4>2, SentLater
    <3>7. packet_expected > 1 => Way <= now
      <4>1. packet_expected > 1 => Way <= clock
        BY DEF Covered, ReceivedInv
      <4> QED
        BY <3>2, <4>1
    <3>8. packet_expected <= sent_so_far + 1 /\ order_packet_map' \subseteq 1 .. sent_so_far
      BY <3>1, <3>4 DEF Covered, ReceivedInv
    <3> QED
      BY <1>1, <3>1, <3>2, <3>4, <3>6, <3>7, <3>8 DEF ReceivedInv, now
  <2> QED
    BY <2>1, <2>2
<1> QED
  BY <1>3, <1>4, <1>5, <1>6, <1>7, <1>8 DEF Covered

LEMMA ResendCovers ==
    ASSUME TypeInv, TypeInv', TimeInv, NoOverflow', Steady, path.back < InitialRtt,
           NEW e, Resend(e), Covered
    PROVE  Covered'
<1> DEFINE copy == Event(e.time + ResendWait(e), e.kind, e.id, e.cwnd)
           data == Event(Leaves(e.time, free) + path.there, "DATA", e.id, 0)
           ack == Event(e.time + path.back, "ACK", e.id, e.cwnd)
           now == clock'
<1>1. /\ rtt_in_host' = rtt_in_host /\ rtt_estimation' = rtt_estimation
      /\ queue_for_rtt' = queue_for_rtt /\ sent_so_far' = sent_so_far
      /\ packet_expected' = packet_expected /\ UNCHANGED destination
      /\ e.kind \in {"DATA", "ACK"} /\ Fires(e)
  BY DEF Resend, Fires, destination
<1>2. /\ e \in Timers /\ e \in ToSet(timer_map) /\ now = e.time /\ e.time \in Nat
      /\ ResendWait(e) \in Nat
      /\ e.kind = "ACK" => ResendWait(e) = 2 * InitialRtt
      /\ copy \in Timers /\ timer_map' = Schedule(Tail(timer_map), copy)
      /\ ToSet(timer_map') = ToSet(Tail(timer_map)) \cup {copy}
      /\ ToSet(timer_map) = ToSet(Tail(timer_map)) \cup {e}
  BY ResendTimes
<1>3. /\ e.kind = "DATA" => /\ data \in Arrivals /\ Deliver(packet_map, data)
                            /\ ToSet(packet_map') \subseteq ToSet(packet_map) \cup {data}
      /\ e.kind = "ACK" => /\ ack \in Arrivals /\ Deliver(packet_map, ack)
                           /\ ToSet(packet_map') \subseteq ToSet(packet_map) \cup {ack}
  BY ResendTimes
<1>4. /\ copy.kind = e.kind /\ copy.id = e.id /\ copy.time = e.time + ResendWait(e)
      /\ data.kind = "DATA" /\ data.id = e.id
      /\ data.time = Leaves(e.time, free) + path.there
      /\ ack.kind = "ACK" /\ ack.id = e.id /\ ack.time = e.time + path.back
  BY DEF Event
<1>5. \A d \in ToSet(packet_map) : e.time <= d.time
  BY <1>1, FirstOfAll
<1>6. /\ Way \in Nat /\ path.back \in Nat /\ path.there \in Nat /\ path.length \in Nat
      /\ Way = path.length + path.there /\ ShortestTrip = Way + path.back
      /\ clock \in Nat /\ clock <= now /\ InitialRtt \in Nat /\ e.id \in Nat
      /\ Way' = Way
  BY <1>2, Ways, SizesAssumption DEF Steady, Timers
<1>7. /\ packet_map \in Seq(Arrivals) /\ Sorted(packet_map)
      /\ Tail(timer_map) \in Seq(Timers) /\ Sorted(Tail(timer_map))
      /\ \A d \in ToSet(timer_map) : d.time \in Int /\ d.id \in Nat
      /\ \A d \in ToSet(packet_map) : d.time \in Int
  <2>1. packet_map \in Seq(Arrivals) /\ Sorted(packet_map)
        /\ timer_map \in Seq(Timers) /\ Sorted(timer_map)
    BY DEF TypeInv, MapsOK
  <2>2. ToSet(timer_map) \subseteq Timers /\ ToSet(packet_map) \subseteq Arrivals
    BY <2>1, Holds
  <2>3. Tail(timer_map) \in Seq(Timers) /\ Sorted(Tail(timer_map))
    BY <1>1, FirstOK DEF TypeInv
  <2> QED
    BY <2>1, <2>2, <2>3 DEF Timers, Arrivals
<1> HIDE DEF copy, data, ack, now
<1>8. ASSUME e.kind = "DATA"
      PROVE  data.time \in Int /\ now + Way <= data.time
  <2>1. Leaves(e.time, free) \in Int /\ e.time + path.length <= Leaves(e.time, free)
    BY <1>2, LeavesIs
  <2> QED
    BY <1>2, <1>4, <1>6, <2>1
<1>9. OutwardInv'
  <2>1. e.kind = "DATA" => e.id \in 1 .. sent_so_far'
    BY <1>1, <1>2 DEF Covered, OutwardInv
  <2>2. \A d \in ToSet(timer_map') : d.kind = "DATA" =>
            d \in ToSet(timer_map) \/ d.id \in 1 .. sent_so_far'
    BY <1>2, <1>4, <2>1
  <2>3. \A a \in ToSet(packet_map') : a.kind = "DATA" =>
            \/ a \in ToSet(packet_map)
            \/ a.time \in Int /\ a.id \in 1 .. sent_so_far' /\ now + Way <= a.time
    BY <1>1, <1>3, <1>4, <1>8, <2>1
  <2> QED
    BY <2>2, <2>3, OutwardStays DEF Covered, now
<1>10. ReceivedInv'
  BY <1>1, ReceivedStays DEF Covered
<1>11. e.kind = "ACK" => e.id \in 2 .. packet_expected
  BY <1>2 DEF Covered, AnswerInv
<1>12. packet_expected \in Nat /\ packet_expected <= sent_so_far + 1 /\ sent_so_far \in Nat
  BY DEF TypeInv, Covered, ReceivedInv, Steady
<1>13. ASSUME e.kind = "ACK"
       PROVE  /\ ShortestTrip <= ack.time
              /\ \A m \in 1 .. e.id - 1 :
                    SentBy(queue_for_rtt', sent_so_far', m, ack.time - ShortestTrip)
  <2>1. e.id \in 2 .. packet_expected
    BY <1>11, <1>13
  <2>2. Way <= clock
    BY <1>12, <2>1 DEF Covered, ReceivedInv
  <2>3. ack.time - ShortestTrip = now - Way /\ ShortestTrip <= ack.time
    BY <1>2, <1>4, <1>6, <2>2
  <2>4. ASSUME NEW m \in 1 .. e.id - 1
        PROVE  SentBy(queue_for_rtt', sent_so_far', m, now - Way)
    <3>1. m \in 1 .. sent_so_far /\ m < packet_expected
      BY <1>12, <2>1
    <3> QED
      BY <1>1, <1>6, <1>10, <3>1 DEF ReceivedInv, now
  <2> QED
    BY <2>3, <2>4
<1>14. AnswerInv'
  <2>1. packet_expected' \in Nat /\ packet_expected <= packet_expected'
    BY <1>1, <1>12
  <2>2. \A d \in ToSet(timer_map') : d.kind = "ACK" =>
            d \in ToSet(timer_map) \/ d.id \in 2 .. packet_expected'
    BY <1>1, <1>2, <1>4, <1>11
  <2>3. \A a \in ToSet(packet_map') : a.kind = "ACK" =>
            \/ a \in ToSet(packet_map)
            \/ /\ a.id \in 2 .. packet_expected' /\ ShortestTrip <= a.time
               /\ \A m \in 1 .. a.id - 1 :
                     SentBy(queue_for_rtt', sent_so_far', m, a.time - ShortestTrip)
    <3>1. CASE e.kind = "ACK"
      BY <1>1, <1>3, <1>4, <1>11, <1>13, <3>1
    <3>2. CASE e.kind = "DATA"
      BY <1>3, <1>4, <3>2
    <3> QED
      BY <1>1, <3>1, <3>2
  <2> QED
    BY <2>1, <2>2, <2>3, AnswerStays DEF Covered
<1>15. Pending(ToSet(timer_map')) = Pending(ToSet(timer_map))
  BY <1>2, <1>4 DEF Pending
<1>16. \A k \in Nat : Single(timer_map, Acks(k)) /\ Single(packet_map, Acks(k))
  BY DEF Covered, CopyInv
<1>17. ASSUME e.kind = "ACK"
       PROVE  /\ \A d \in ToSet(Tail(timer_map)) : d.kind = "ACK" => d.id # e.id
              /\ \A a \in ToSet(packet_map) : a.kind = "ACK" => a.id # e.id
  <2>1. \A d \in ToSet(Tail(timer_map)) : d.kind = "ACK" => d.id # e.id
    <3>1. e \in Acks(e.id)
      BY <1>2, <1>17 DEF Acks
    <3>2. ToSet(Tail(timer_map)) \cap Acks(e.id) = {}
      BY <1>1, <1>6, <1>16, <3>1, FirstSingle
    <3>3. ToSet(Tail(timer_map)) \subseteq Timers
      BY <1>7, Holds
    <3> QED
      BY <3>2, <3>3 DEF Acks
  <2>2. ASSUME NEW a \in ToSet(packet_map), a.kind = "ACK", a.id = e.id
        PROVE  FALSE
    <3>1. a.time < e.time
      BY <1>2, <1>17, <2>2 DEF Covered, CopyInv
    <3>2. e.time <= a.time /\ a.time \in Int
      BY <1>5, <1>7
    <3> QED
      BY <1>2, <3>1, <3>2
  <2> QED
    BY <2>1, <2>2
<1>18. CopyInv'
  <2>1. ASSUME NEW a \in ToSet(packet_map'), a.kind = "ACK"
        PROVE  /\ a.id \in Pending(ToSet(timer_map))
               /\ \A d \in ToSet(timer_map') : d.kind = "ACK" /\ d.id = a.id => a.time < d.time
    <3>1. CASE a \in ToSet(packet_map)
      <4>1. /\ a.id \in Pending(ToSet(timer_map))
            /\ \A d \in ToSet(timer_map) : d.kind = "ACK" /\ d.id = a.id => a.time < d.time
        BY <2>1, <3>1 DEF Covered, CopyInv
      <4>2. ~(copy.kind = "ACK" /\ copy.id = a.id)
        BY <1>4, <1>17, <2>1, <3>1
      <4> QED
        BY <1>2, <4>1, <4>2
    <3>2. CASE a \notin ToSet(packet_map)
      <4>1. e.kind = "ACK" /\ a = ack
        BY <1>1, <1>3, <1>4, <2>1, <3>2
      <4>2. a.id \in Pending(ToSet(timer_map))
        BY <1>2, <1>4, <1>6, <4>1 DEF Pending
      <4>3. a.time < copy.time
        <5>1. a.time = e.time + path.back /\ copy.time = e.time + 2 * InitialRtt
          BY <1>2, <1>4, <4>1
        <5>2. e.time + path.back < e.time + 2 * InitialRtt
          BY <1>2, <1>6
        <5> QED
          BY <5>1, <5>2
      <4> QED
        BY <1>2, <1>4, <1>17, <4>1, <4>2, <4>3
    <3> QED
      BY <3>1, <3>2
  <2>2. ASSUME NEW k \in Nat
        PROVE  Single(timer_map', Acks(k)) /\ Single(packet_map', Acks(k))
    <3>1. Single(timer_map', Acks(k))
      <4>1. copy \in Acks(k) => e \in Acks(k)
        BY <1>2, <1>4 DEF Acks
      <4>2. Single(Tail(timer_map), Acks(k))
            /\ (e \in Acks(k) => ToSet(Tail(timer_map)) \cap Acks(k) = {})
        BY <1>1, <1>16, FirstSingle
      <4> QED
        BY <1>2, <1>7, <4>1, <4>2, TimerSingle
    <3>2. Single(packet_map', Acks(k))
      <4>1. CASE e.kind = "DATA"
        <5>1. data \notin Acks(k)
          BY <1>4 DEF Acks
        <5> QED
          BY <1>3, <1>7, <1>16, <4>1, <5>1, DeliverSingle
      <4>2. CASE e.kind = "ACK"
        <5>1. ack \in Acks(k) => ToSet(packet_map) \cap Acks(k) = {}
          BY <1>4, <1>17, <4>2 DEF Acks
        <5> QED
          BY <1>3, <1>7, <1>16, <4>2, <5>1, DeliverSingle
      <4> QED
        BY <1>1, <4>1, <4>2
    <3> QED
      BY <3>1, <3>2
  <2> QED
    BY <1>15, <2>1, <2>2 DEF CopyInv
<1>19. CountInv'
  BY <1>1, <1>15, CountStays DEF Covered
<1>20. Estimates'
  BY <1>1, EstimatesStay DEF Covered
<1> QED
  BY <1>9, <1>10, <1>14, <1>18, <1>19, <1>20 DEF Covered

LEMMA DataInOrderCovers ==
    ASSUME TypeInv, TypeInv', SampleInv, TimeInv, NoOverflow', Steady, path.back < InitialRtt,
           NEW e, DataInOrder(e), Covered
    PROVE  Covered'
<1>1. PICK next \in NextExpected(e.id), w \in Windows :
        LET copy == Event(e.time + InitialRtt, "ACK", next, w)
            ack == Event(e.time + path.back, "ACK", next, w)
        IN  /\ packet_expected' = next /\ next \in Nat \ {0} /\ w \in Nat
            /\ order_packet_map' = order_packet_map \ (e.id + 1 .. next - 1)
            /\ timer_map' = Schedule(timer_map, copy) /\ copy \in Timers
            /\ ToSet(timer_map') = ToSet(timer_map) \cup {copy}
            /\ Deliver(Tail(packet_map), ack) /\ ack \in Arrivals
            /\ ToSet(packet_map') \subseteq ToSet(Tail(packet_map)) \cup {ack}
  BY InOrderTimes
<1> DEFINE copy == Event(e.time + InitialRtt, "ACK", next, w)
           ack == Event(e.time + path.back, "ACK", next, w)
           now == clock'
           sent == sent_so_far'
           P == Pending(ToSet(timer_map))
<1>2. /\ packet_expected' = next /\ next \in Nat \ {0}
      /\ order_packet_map' = order_packet_map \ (e.id + 1 .. next - 1)
      /\ timer_map' = Schedule(timer_map, copy) /\ copy \in Timers
      /\ ToSet(timer_map') = ToSet(timer_map) \cup {copy}
      /\ Deliver(Tail(packet_map), ack) /\ ack \in Arrivals
      /\ ToSet(packet_map') \subseteq ToSet(Tail(packet_map)) \cup {ack}
  BY <1>1
<1>3. /\ copy.kind = "ACK" /\ copy.id = next /\ copy.time = e.time + InitialRtt
      /\ ack.kind = "ACK" /\ ack.id = next /\ ack.time = e.time + path.back
  BY DEF Event
<1>4. /\ Arrives(e) /\ e.kind = "DATA" /\ e.id = packet_expected
      /\ queue_for_rtt' = queue_for_rtt /\ sent = sent_so_far
      /\ rtt_in_host' = rtt_in_host /\ rtt_estimation' = rtt_estimation
  BY DEF DataInOrder, Arrives, estimate
<1>5. /\ Way' = Way /\ Way \in Nat /\ path.back \in Nat /\ ShortestTrip = Way + path.back
      /\ clock \in Nat /\ now \in Nat /\ clock <= now /\ sent_so_far \in Nat
      /\ InitialRtt \in Nat /\ queue_for_rtt \in Seq(Int)
      /\ ShortestTrip' = ShortestTrip /\ ShortestTrip \in Nat
  BY Ways, SizesAssumption DEF Steady
<1>6. /\ now = e.time /\ e \in ToSet(packet_map)
      /\ Tail(packet_map) \in Seq(Arrivals) /\ Sorted(Tail(packet_map))
      /\ timer_map \in Seq(Timers) /\ Sorted(timer_map)
      /\ ToSet(packet_map) = ToSet(Tail(packet_map)) \cup {e}
  BY <1>4, FirstOK DEF TypeInv, MapsOK, Arrives
<1>7. /\ e.id \in 1 .. sent_so_far /\ Way <= now
      /\ SentBy(queue_for_rtt, sent_so_far, e.id, now - Way)
  BY <1>4, <1>6 DEF Covered, OutwardInv
<1>8. next \in e.id + 1 .. FileLength + 1 /\ e.id + 1 .. next - 1 \subseteq order_packet_map
  <2>1. e.id \in Nat
    BY <1>7
  <2> QED
    BY <2>1, NextIs
<1>9. /\ packet_expected \in Nat /\ packet_expected <= sent_so_far + 1
      /\ order_packet_map \subseteq 1 .. sent_so_far
      /\ packet_expected + 1 <= next
  BY <1>4, <1>7, <1>8 DEF TypeInv, Covered, ReceivedInv
<1> HIDE DEF copy, ack, now, sent, P
<1>10. next <= sent_so_far + 1
  <2>1. CASE next = e.id + 1
    BY <1>5, <1>7, <2>1
  <2>2. CASE next # e.id + 1
    <3>1. next - 1 \in e.id + 1 .. next - 1
      BY <1>2, <1>7, <1>8, <2>2
    <3>2. next - 1 \in 1 .. sent_so_far
      BY <1>8, <1>9, <3>1
    <3> QED
      BY <1>2, <1>5, <3>2
  <2> QED
    BY <2>1, <2>2
<1>11. ASSUME NEW m \in 1 .. sent_so_far, m < next \/ m \in order_packet_map
       PROVE  SentBy(queue_for_rtt, sent_so_far, m, now - Way)
  <2>1. CASE m < packet_expected \/ m \in order_packet_map
    <3>1. SentBy(queue_for_rtt, sent_so_far, m, clock - Way)
      BY <2>1 DEF Covered, ReceivedInv
    <3>2. clock - Way \in Int /\ now - Way \in Int /\ clock - Way <= now - Way /\ m \in Int
      BY <1>5, Shifted
    <3> QED
      BY <1>5, <3>1, <3>2, SentLater
  <2>2. CASE m = e.id
    BY <1>7, <2>2
  <2>3. CASE ~(m < packet_expected) /\ m # e.id /\ m < next
    <3>1. m \in e.id + 1 .. next - 1
      BY <1>2, <1>4, <1>7, <2>3
    <3> QED
      BY <1>8, <2>1, <3>1
  <2> QED
    BY <1>11, <2>1, <2>2, <2>3
<1>12. ReceivedInv'
  <2>1. order_packet_map' \subseteq 1 .. sent /\ order_packet_map' \subseteq order_packet_map
    BY <1>2, <1>4, <1>9
  <2>2. \A m \in 1 .. sent : m < next \/ m \in order_packet_map' =>
           SentBy(queue_for_rtt, sent, m, now - Way)
    BY <1>4, <1>11, <2>1
  <2> QED
    BY <1>2, <1>4, <1>5, <1>7, <1>10, <2>1, <2>2 DEF ReceivedInv, now, sent
<1>13. OutwardInv'
  <2>1. \A d \in ToSet(timer_map') : d.kind = "DATA" => d \in ToSet(timer_map)
    BY <1>2, <1>3
  <2>2. \A a \in ToSet(packet_map') : a.kind = "DATA" => a \in ToSet(packet_map)
    BY <1>2, <1>3, <1>6
  <2> QED
    BY <2>1, <2>2, OutwardStays DEF Covered
<1>14. /\ next \in 2 .. next /\ ShortestTrip <= ack.time
       /\ \A m \in 1 .. next - 1 :
             SentBy(queue_for_rtt', sent_so_far', m, ack.time - ShortestTrip)
  <2>1. ack.time - ShortestTrip = now - Way /\ ShortestTrip <= ack.time
    <3>1. ack.time = now + path.back
      BY <1>3, <1>6
    <3>2. /\ (now + path.back) - ShortestTrip = now - Way
          /\ ShortestTrip <= now + path.back
      BY <1>5, <1>7
    <3> QED
      BY <3>1, <3>2
  <2>2. \A m \in 1 .. next - 1 : m \in 1 .. sent_so_far /\ m < next
    BY <1>2, <1>5, <1>10
  <2>3. next \in 2 .. next
    BY <1>2, <1>4, <1>7, <1>9
  <2> QED
    BY <1>4, <1>11, <2>1, <2>2, <2>3 DEF sent
<1>15. AnswerInv'
  <2>1. packet_expected' \in Nat /\ packet_expected <= packet_expected'
    BY <1>2, <1>9
  <2>2. \A d \in ToSet(timer_map') : d.kind = "ACK" =>
            d \in ToSet(timer_map) \/ d.id \in 2 .. packet_expected'
    BY <1>2, <1>3, <1>14
  <2>3. \A a \in ToSet(packet_map') : a.kind = "ACK" =>
            \/ a \in ToSet(packet_map)
            \/ /\ a.id \in 2 .. packet_expected' /\ ShortestTrip <= a.time
               /\ \A m \in 1 .. a.id - 1 :
                     SentBy(queue_for_rtt', sent_so_far', m, a.time - ShortestTrip)
    BY <1>2, <1>3, <1>6, <1>14
  <2> QED
    BY <2>1, <2>2, <2>3, AnswerStays DEF Covered
<1>16. /\ \A d \in ToSet(timer_map) : d.kind = "ACK" => d.id # next
       /\ \A a \in ToSet(packet_map) : a.kind = "ACK" => a.id # next
  <2>1. next \notin 2 .. packet_expected
    BY <1>2, <1>9
  <2> QED
    BY <2>1 DEF Covered, AnswerInv
<1>17. Pending(ToSet(timer_map')) = P \cup {next}
  BY <1>2, <1>3 DEF Pending, P
<1>18. CopyInv'
  <2>1. ASSUME NEW a \in ToSet(packet_map'), a.kind = "ACK"
        PROVE  /\ a.id \in P \cup {next}
               /\ \A d \in ToSet(timer_map') : d.kind = "ACK" /\ d.id = a.id => a.time < d.time
    <3>1. CASE a \in ToSet(packet_map)
      <4>1. /\ a.id \in P
            /\ \A d \in ToSet(timer_map) : d.kind = "ACK" /\ d.id = a.id => a.time < d.time
        BY <2>1, <3>1 DEF Covered, CopyInv, P
      <4>2. copy.id # a.id
        BY <1>3, <1>16, <2>1, <3>1
      <4> QED
        BY <1>2, <4>1, <4>2
    <3>2. CASE a = ack
      <4>1. a.time < copy.time
        <5>1. a.time = e.time + path.back /\ copy.time = e.time + InitialRtt
          BY <1>3, <3>2
        <5>2. e.time + path.back < e.time + InitialRtt
          BY <1>5, <1>6
        <5> QED
          BY <5>1, <5>2
      <4> QED
        BY <1>2, <1>3, <1>16, <3>2, <4>1
    <3> QED
      BY <1>2, <1>6, <3>1, <3>2
  <2>2. ASSUME NEW k \in Nat
        PROVE  Single(timer_map', Acks(k)) /\ Single(packet_map', Acks(k))
    <3>1. Single(timer_map, Acks(k)) /\ Single(packet_map, Acks(k))
      BY DEF Covered, CopyInv
    <3>2. copy \in Acks(k) => ToSet(timer_map) \cap Acks(k) = {}
      BY <1>3, <1>16 DEF Acks
    <3>3. ack \in Acks(k) => ToSet(Tail(packet_map)) \cap Acks(k) = {}
      BY <1>3, <1>6, <1>16 DEF Acks
    <3>4. Single(timer_map', Acks(k))
      BY <1>2, <1>6, <3>1, <3>2, TimerSingle
    <3>5. Single(Tail(packet_map), Acks(k))
      BY <1>4, <3>1, FirstSingle
    <3>6. Single(packet_map', Acks(k))
      BY <1>2, <1>6, <3>3, <3>5, DeliverSingle
    <3> QED
      BY <3>4, <3>6
  <2> QED
    BY <1>17, <2>1, <2>2 DEF CopyInv
<1>19. CountInv'
  <2> DEFINE c == sent_so_far - Len(queue_for_rtt)
             Q == P \cup {next}
  <2>1. /\ P \in SUBSET (2 .. packet_expected) /\ P \in SUBSET Int /\ IsFiniteSet(P)
        /\ c \in Int
    BY <1>5, PendingIs DEF Covered, P
  <2>2. next \in Int /\ next \notin P
    BY <1>2, <1>9, <2>1
  <2>3. /\ Cardinality(Q) = Cardinality(P) + 1
        /\ \A m \in Int : Cardinality(Upto(Q, m)) =
              IF next <= m THEN Cardinality(Upto(P, m)) + 1 ELSE Cardinality(Upto(P, m))
    BY <2>1, <2>2, UptoAdd
  <2>4. /\ c + Cardinality(P) < packet_expected
        /\ \A m \in 1 .. sent_so_far :
              \/ SentBy(queue_for_rtt, sent_so_far, m, clock - ShortestTrip)
              \/ c + Cardinality(Upto(P, m)) < m
    BY DEF Covered, CountInv, P
  <2> HIDE DEF c, Q
  <2>5. Cardinality(P) \in Nat
    BY <2>1, UptoFinite
  <2>6. c + Cardinality(Q) < next
    BY <1>2, <1>9, <2>1, <2>3, <2>4, <2>5
  <2>7. ASSUME NEW m \in 1 .. sent_so_far
        PROVE  \/ SentBy(queue_for_rtt, sent_so_far, m, now - ShortestTrip)
               \/ c + Cardinality(Upto(Q, m)) < m
    <3>1. m \in Int
      OBVIOUS
    <3>2. SentBy(queue_for_rtt, sent_so_far, m, clock - ShortestTrip)
             => SentBy(queue_for_rtt, sent_so_far, m, now - ShortestTrip)
      <4>1. clock - ShortestTrip \in Int /\ now - ShortestTrip \in Int
            /\ clock - ShortestTrip <= now - ShortestTrip
        BY <1>5, Shifted
      <4> QED
        BY <1>5, <3>1, <4>1, SentLater
    <3>3. CASE next <= m
      <4>1. Upto(P, m) = P
        <5>1. packet_expected <= m
          BY <1>2, <1>9, <3>1, <3>3
        <5> QED
          BY <1>9, <2>1, <3>1, <5>1, UptoAll
      <4>2. Cardinality(Upto(Q, m)) = Cardinality(P) + 1
        BY <2>3, <3>1, <3>3, <4>1
      <4> QED
        BY <1>2, <1>9, <2>1, <2>4, <2>5, <3>1, <3>3, <4>2
    <3>4. CASE ~(next <= m)
      BY <2>3, <2>4, <3>1, <3>2, <3>4
    <3> QED
      BY <3>3, <3>4
  <2> QED
    BY <1>2, <1>4, <1>5, <1>17, <2>6, <2>7 DEF CountInv, c, Q, now, sent
<1>20. Estimates'
  BY <1>4, EstimatesStay DEF Covered, sent
<1> QED
  BY <1>12, <1>13, <1>15, <1>18, <1>19, <1>20 DEF Covered

(* Neither the sample nor the old estimate, smoothed, falls below a bound. *)
LEMMA SmoothedCovers ==
    ASSUME NEW r \in Int, NEW s \in Int, NEW b \in Nat \ {0}, b <= r, b <= s
    PROVE  b <= Smoothed(r, s)
<1> DEFINE x == (9 * r + 9) \div 10
           y == s \div 10
<1>1. x \in Int /\ y \in Int
  OBVIOUS
<1>2. 9 * r <= 10 * x
  OBVIOUS
<1>3. s < 10 * y + 10
  OBVIOUS
<1>4. s # 0
  OBVIOUS
<1>5. Smoothed(r, s) = x + (y + 1)
  BY <1>4 DEF Smoothed
<1> HIDE DEF x, y
<1>6. 10 * b <= 10 * (x + (y + 1))
  BY <1>1, <1>2, <1>3
<1> QED
  BY <1>1, <1>5, <1>6

(* The oldest sample when an ACK arrives.                                  *)
LEMMA SampleCovers ==
    ASSUME TypeInv, Covered, NEW e \in ToSet(packet_map), e.kind = "ACK",
           clock \in Nat, clock <= e.time, queue_for_rtt # <<>>
    PROVE  queue_for_rtt[1] <= e.time - ShortestTrip
<1> DEFINE q == queue_for_rtt
           c == sent_so_far - Len(q)
           P == Pending(ToSet(timer_map))
           m == c + 1
<1>1. /\ q \in Seq(Int) /\ Len(q) \in Nat \ {0} /\ q[1] \in Int /\ 1 \in 1 .. Len(q)
      /\ sent_so_far \in Nat /\ c \in Int /\ m \in Int /\ ShortestTrip \in Nat
      /\ packet_expected \in Nat
  BY Ways, SizesAssumption DEF TypeInv
<1>2. e.time \in Int
  BY Holds, TimesOfMaps DEF TypeInv, MapsOK
<1>3. /\ e.id \in 2 .. packet_expected /\ ShortestTrip <= e.time
      /\ \A k \in 1 .. e.id - 1 : SentBy(q, sent_so_far, k, e.time - ShortestTrip)
  BY DEF Covered, AnswerInv
<1>4. e.id \in P
  BY DEF Covered, CopyInv
<1>5. P \in SUBSET Int /\ IsFiniteSet(P)
  BY PendingIs DEF Covered
<1>6. CASE m <= 0
  <2>1. q[1] < 0
    BY <1>1, <1>6 DEF Covered, Estimates
  <2> QED
    BY <1>1, <1>2, <1>3, <2>1
<1>7. CASE ~(m <= 0) /\ m < e.id
  <2>1. SentBy(q, sent_so_far, m, e.time - ShortestTrip)
    BY <1>1, <1>3, <1>7
  <2> QED
    BY <1>1, <2>1 DEF SentBy
<1>8. CASE ~(m <= 0) /\ ~(m < e.id)
  <2>1. m \in 1 .. sent_so_far
    BY <1>1, <1>8
  <2>2. 1 <= Cardinality(Upto(P, m)) /\ Cardinality(Upto(P, m)) \in Nat
    <3>1. e.id <= m
      BY <1>1, <1>3, <1>8
    <3> QED
      BY <1>1, <1>4, <1>5, <3>1, UptoFinite
  <2>3. ~(c + Cardinality(Upto(P, m)) < m)
    BY <1>1, <2>2
  <2>4. SentBy(q, sent_so_far, m, clock - ShortestTrip)
    BY <2>1, <2>3 DEF Covered, CountInv
  <2>5. q[1] <= clock - ShortestTrip
    BY <1>1, <2>4 DEF SentBy
  <2>6. clock - ShortestTrip <= e.time - ShortestTrip
        /\ clock - ShortestTrip \in Int /\ e.time - ShortestTrip \in Int
    BY <1>1, <1>2, Shifted
  <2> QED
    BY <1>1, <2>5, <2>6
<1> QED
  BY <1>6, <1>7, <1>8

LEMMA AckCovers ==
    ASSUME TypeInv, TypeInv', SampleInv, TimeInv, Steady, NEW e, Ack(e), Covered
    PROVE  Covered'
<1> DEFINE now == clock'
           P == Pending(ToSet(timer_map))
           q == queue_for_rtt'
           rtt == rtt_in_host'
           least == Min({InitialRtt, ShortestTrip})
<1>1. /\ Arrives(e) /\ e.kind = "ACK" /\ Estimate(e.time) /\ UNCHANGED destination
      /\ packet_expected' = packet_expected /\ sent_so_far' = sent_so_far
  BY DEF Ack, Arrives, destination
<1>2. /\ now = e.time /\ e \in ToSet(packet_map) /\ packet_map' = Tail(packet_map)
      /\ ToSet(packet_map) = ToSet(Tail(packet_map)) \cup {e}
      /\ packet_map \in Seq(Arrivals) /\ timer_map \in Seq(Timers) /\ Sorted(timer_map)
  BY <1>1, FirstOK, AckMaps DEF TypeInv, MapsOK, Arrives
<1>3. /\ clock \in Nat /\ now \in Nat /\ clock <= now /\ sent_so_far \in Nat
      /\ ShortestTrip' = ShortestTrip /\ ShortestTrip \in Nat \ {0}
      /\ queue_for_rtt \in Seq(Int) /\ q \in Seq(Int)
      /\ Len(queue_for_rtt) \in Nat /\ Len(q) \in Nat
  BY Ways DEF Steady
<1>4. /\ ToSet(timer_map') = {d \in ToSet(timer_map) : <<d.kind, d.id>> \notin Acknowledged(e)}
             \cup {Event(e.time, "normal", 0, 0)}
  BY AckMaps
<1>5. /\ \A d \in ToSet(timer_map') : d \in ToSet(timer_map) \/ d.kind = "normal"
      /\ \A d : d.kind = "ACK" =>
            (d \in ToSet(timer_map') <=> d \in ToSet(timer_map) /\ d.id # e.id)
  BY <1>4 DEF Acknowledged, Event
<1>6. OutwardInv'
  <2>1. \A d \in ToSet(timer_map') : d.kind = "DATA" => d \in ToSet(timer_map)
    BY <1>5
  <2>2. \A a \in ToSet(packet_map') : a \in ToSet(packet_map)
    BY <1>2
  <2> QED
    BY <2>1, <2>2, OutwardStays DEF Covered
<1>7. ReceivedInv'
  BY <1>1, ReceivedStays DEF Covered
<1>8. AnswerInv'
  <2>1. packet_expected' \in Nat /\ packet_expected <= packet_expected'
    BY <1>1 DEF TypeInv
  <2>2. \A d \in ToSet(timer_map') : d.kind = "ACK" => d \in ToSet(timer_map)
    BY <1>5
  <2>3. \A a \in ToSet(packet_map') : a \in ToSet(packet_map)
    BY <1>2
  <2> QED
    BY <2>1, <2>2, <2>3, AnswerStays DEF Covered
<1>9. \A k \in Nat : Single(timer_map, Acks(k)) /\ Single(packet_map, Acks(k))
  BY DEF Covered, CopyInv
<1>10. e.id \in P /\ e.id \in Nat /\ ShortestTrip <= e.time
       /\ e \in Acks(e.id)
  <2>1. e \in Arrivals
    BY <1>2, Holds
  <2> QED
    BY <1>1, <1>2, <2>1 DEF Covered, CopyInv, AnswerInv, P, Acks, Arrivals, Timers
<1>11. \A a \in ToSet(packet_map') : a.kind = "ACK" => a.id # e.id
  <2>1. ToSet(Tail(packet_map)) \cap Acks(e.id) = {}
    BY <1>1, <1>9, <1>10, FirstSingle
  <2>2. ToSet(packet_map) \subseteq Arrivals
    BY <1>2, Holds
  <2>3. Arrivals \subseteq Timers
    BY DEF Timers, Arrivals
  <2> QED
    BY <1>2, <2>1, <2>2, <2>3 DEF Acks
<1>12. Pending(ToSet(timer_map')) = P \ {e.id}
  BY <1>5 DEF Pending, P
<1>13. CopyInv'
  <2>1. ASSUME NEW a \in ToSet(packet_map'), a.kind = "ACK"
        PROVE  /\ a.id \in P \ {e.id}
               /\ \A d \in ToSet(timer_map') : d.kind = "ACK" /\ d.id = a.id => a.time < d.time
    <3>1. a \in ToSet(packet_map)
      BY <1>2
    <3> QED
      BY <1>5, <1>11, <2>1, <3>1 DEF Covered, CopyInv, P
  <2>2. ASSUME NEW k \in Nat
        PROVE  Single(timer_map', Acks(k)) /\ Single(packet_map', Acks(k))
    <3> DEFINE rest == Forget(timer_map, Acknowledged(e))
               cookie == Event(e.time, "normal", 0, 0)
    <3>1. rest \in Seq(Timers) /\ Sorted(rest) /\ Single(rest, Acks(k))
      BY <1>2, <1>9, ForgetKeeps
    <3>2. cookie \in Timers /\ cookie \notin Acks(k)
      BY <1>2, <1>3 DEF Event, Timers, Acks
    <3>3. timer_map' = Schedule(rest, cookie)
      BY DEF Ack, Acknowledged, Normal
    <3> HIDE DEF rest, cookie
    <3>4. Single(timer_map', Acks(k))
      BY <3>1, <3>2, <3>3, TimerSingle
    <3>5. Single(packet_map', Acks(k))
      BY <1>1, <1>2, <1>9, FirstSingle
    <3> QED
      BY <3>4, <3>5
  <2> QED
    BY <1>12, <2>1, <2>2 DEF CopyInv
<1>14. rtt_estimation = Unwritten => queue_for_rtt # <<>>
  BY <1>1, ArrivesTyped
<1>15. Len(queue_for_rtt) - 1 <= Len(q)
  BY <1>1, <1>3 DEF Estimate
<1>16. least \in Nat \ {0} /\ least <= ShortestTrip
  <2>1. InitialRtt \in Nat \ {0} /\ ShortestTrip \in Nat \ {0}
    BY <1>3, SizesAssumption
  <2>2. InitialRtt \in Int /\ ShortestTrip \in Int
    BY <2>1
  <2> HIDE DEF least
  <2>3. least = IF InitialRtt <= ShortestTrip THEN InitialRtt ELSE ShortestTrip
    BY <2>2, MinOfTwo DEF least
  <2> QED
    BY <2>1, <2>3
<1> HIDE DEF now, P, q, rtt, least
<1>17. CountInv'
  <2> DEFINE c == sent_so_far - Len(queue_for_rtt)
             d == sent_so_far - Len(q)
             Q == P \ {e.id}
  <2>1. P \in SUBSET Int /\ IsFiniteSet(P) /\ packet_expected \in Nat
    BY PendingIs DEF Covered, P
  <2>2. /\ Cardinality(P) = Cardinality(Q) + 1
        /\ \A m \in Int : Cardinality(Upto(P, m)) =
              IF e.id <= m THEN Cardinality(Upto(Q, m)) + 1 ELSE Cardinality(Upto(Q, m))
    BY <1>10, <2>1, UptoRemove
  <2>3. /\ c + Cardinality(P) < packet_expected
        /\ \A m \in 1 .. sent_so_far :
              \/ SentBy(queue_for_rtt, sent_so_far, m, clock - ShortestTrip)
              \/ c + Cardinality(Upto(P, m)) < m
    BY DEF Covered, CountInv, P
  <2>4. Q \in SUBSET Int /\ IsFiniteSet(Q)
    BY <2>1, FS_Subset
  <2>5. c \in Int /\ d \in Int /\ d <= c + 1
    BY <1>3, <1>15
  <2> HIDE DEF c, d, Q
  <2>6. Cardinality(Q) \in Nat /\ \A m \in Int : Cardinality(Upto(Q, m)) \in Nat
    BY <2>4, UptoFinite
  <2>7. d + Cardinality(Q) < packet_expected
    BY <2>1, <2>2, <2>3, <2>5, <2>6
  <2>8. ASSUME NEW m \in 1 .. sent_so_far
        PROVE  SentBy(q, sent_so_far, m, now - ShortestTrip) \/ d + Cardinality(Upto(Q, m)) < m
    <3>0. m \in Int
      OBVIOUS
    <3>1. m \in Int /\ m <= sent_so_far /\ Cardinality(Upto(Q, m)) \in Nat
      <4>1. m <= sent_so_far
        BY <1>3
      <4>2. Cardinality(Upto(Q, m)) \in Nat
        BY <2>6, <3>0
      <4> QED
        BY <3>0, <4>1, <4>2
    <3>2. clock - ShortestTrip \in Int /\ now - ShortestTrip \in Int
          /\ clock - ShortestTrip <= now - ShortestTrip
          /\ now - ShortestTrip <= now - ShortestTrip
      BY <1>3, Shifted
    <3>3. \A t \in Int : t <= now - ShortestTrip /\ SentBy(queue_for_rtt, sent_so_far, m, t)
                          => SentBy(q, sent_so_far, m, now - ShortestTrip)
      BY <1>1, <3>1, <3>2 DEF Steady, Carried, q
    <3>4. CASE m < e.id
      <4>1. m \in 1 .. e.id - 1
        BY <1>10, <3>1, <3>4
      <4>2. SentBy(queue_for_rtt, sent_so_far, m, now - ShortestTrip)
        BY <1>1, <1>2, <4>1 DEF Covered, AnswerInv
      <4> QED
        BY <3>2, <3>3, <4>2
    <3>5. CASE ~(m < e.id)
      <4>1. Cardinality(Upto(P, m)) = Cardinality(Upto(Q, m)) + 1
        BY <1>10, <2>2, <3>1, <3>5
      <4>2. CASE c + Cardinality(Upto(P, m)) < m
        <5>1. d + Cardinality(Upto(Q, m)) < m
          BY <2>5, <3>1, <4>1, <4>2
        <5> QED
          BY <5>1
      <4>3. CASE SentBy(queue_for_rtt, sent_so_far, m, clock - ShortestTrip)
        BY <3>2, <3>3, <4>3
      <4> QED
        BY <2>3, <4>2, <4>3
    <3> QED
      BY <3>4, <3>5
  <2> QED
    BY <1>1, <1>3, <1>12, <2>7, <2>8 DEF CountInv, d, Q, now, q
<1>18. least <= rtt_in_host /\ rtt_in_host \in Int
       /\ (rtt_estimation # Unwritten =>
             rtt_estimation \in Int /\ rtt_estimation + ShortestTrip <= clock)
  BY DEF Covered, Estimates, least, TypeInv
<1>19. /\ least <= rtt /\ rtt_estimation' \in Int
       /\ rtt_estimation' + ShortestTrip <= now
       /\ \A i \in 1 .. Len(q) : sent_so_far - Len(q) + i <= 0 => q[i] < 0
  <2>1. CASE queue_for_rtt # <<>>
    <3> DEFINE r == queue_for_rtt
               first == r[1]
    <3>1. /\ first \in Int /\ Head(r) = first /\ Len(Tail(r)) = Len(r) - 1
          /\ \A i \in 1 .. Len(Tail(r)) : Tail(r)[i] = r[i + 1] /\ i + 1 \in 1 .. Len(r)
      BY <1>3, <2>1
    <3>2. first <= now - ShortestTrip
      BY <1>1, <1>2, <1>3, <2>1, SampleCovers
    <3>3. /\ rtt_estimation' = first /\ q = Tail(r)
          /\ \/ rtt = Smoothed(rtt_in_host, now - first)
             \/ rtt = now - first
      BY <1>1, <1>2, <1>3, <1>14, <2>1, <3>1, EstimateTyped DEF q, rtt
    <3>4. \A i \in 1 .. Len(r) : sent_so_far - Len(r) + i <= 0 => r[i] < 0
      BY DEF Covered, Estimates
    <3> HIDE DEF first, r
    <3>5. now - first \in Int /\ least <= now - first /\ first + ShortestTrip <= now
      BY <1>3, <1>16, <3>1, <3>2
    <3>6. least <= rtt
      BY <1>16, <1>18, <3>3, <3>5, SmoothedCovers
    <3>7. ASSUME NEW i \in 1 .. Len(q), sent_so_far - Len(q) + i <= 0
          PROVE  q[i] < 0
      <4>1. q[i] = r[i + 1] /\ i + 1 \in 1 .. Len(r)
        BY <3>1, <3>3
      <4>2. Len(q) = Len(r) - 1 /\ Len(r) \in Nat
        BY <1>3, <3>1, <3>3 DEF r
      <4>3. sent_so_far - Len(r) + (i + 1) <= 0
        BY <1>3, <3>7, <4>2
      <4> QED
        BY <3>4, <4>1, <4>3
    <3> QED
      BY <3>1, <3>3, <3>5, <3>6, <3>7
  <2>2. CASE queue_for_rtt = <<>>
    <3>1. /\ rtt_estimation' = rtt_estimation /\ q = queue_for_rtt
          /\ rtt = Smoothed(rtt_in_host, now - rtt_estimation)
      BY <1>1, <1>2, <1>3, <1>14, <2>2, EstimateTyped DEF q, rtt
    <3>2. /\ rtt_estimation \in Int /\ rtt_estimation + ShortestTrip <= clock
      BY <1>14, <1>18, <2>2
    <3>3. now - rtt_estimation \in Int /\ least <= now - rtt_estimation
          /\ rtt_estimation + ShortestTrip <= now
      BY <1>3, <1>16, <3>2
    <3>4. least <= rtt
      BY <1>16, <1>18, <3>1, <3>3, SmoothedCovers
    <3>5. Len(q) = 0
      BY <2>2, <3>1
    <3> QED
      BY <3>1, <3>2, <3>3, <3>4, <3>5
  <2> QED
    BY <2>1, <2>2
<1>20. Estimates'
  BY <1>1, <1>3, <1>19 DEF Estimates, now, q, rtt, least
<1> QED
  BY <1>6, <1>7, <1>8, <1>13, <1>17, <1>20 DEF Covered

-----------------------------------------------------------------------------
(* From the first state on                                                 *)

CoverInv == path.back < InitialRtt => Covered

LEMMA InitCovers == Init => CoverInv
<1> SUFFICES ASSUME Init
             PROVE  Covered
  BY DEF CoverInv
<1>1. /\ clock = 0 /\ timer_map = Normal(<<>>, 0) /\ packet_map = <<>>
      /\ rtt_in_host = InitialRtt /\ queue_for_rtt \in Seq(Int)
      /\ \A i \in DOMAIN queue_for_rtt : queue_for_rtt[i] < 0
      /\ rtt_estimation = Unwritten
      /\ sent_so_far = 0 /\ packet_expected = 1 /\ order_packet_map = {}
  BY LeftoversAssumption DEF Init
<1>2. <<>> \in Seq(Timers) /\ Sorted(<<>>) /\ ToSet(<<>>) = {} /\ 0 \in Int
  BY DEF Sorted, ToSet
<1>3. ToSet(timer_map) = {Event(0, "normal", 0, 0)} /\ ToSet(packet_map) = {}
  BY <1>1, <1>2, NormalPuts
<1>4. /\ \A d \in ToSet(timer_map) : d.kind = "normal"
      /\ \A a \in ToSet(packet_map) : FALSE
      /\ 1 .. 0 = {}
  BY <1>3 DEF Event
<1>5. TypeInv
  BY InitTyped
<1>6. Estimates
  <2>1. InitialRtt \in Nat \ {0} /\ ShortestTrip \in Nat \ {0}
    BY <1>5, Ways, SizesAssumption
  <2>2. InitialRtt \in Int /\ ShortestTrip \in Int
    BY <2>1
  <2>3. Min({InitialRtt, ShortestTrip})
          = IF InitialRtt <= ShortestTrip THEN InitialRtt ELSE ShortestTrip
    BY <2>2, MinOfTwo
  <2>4. Min({InitialRtt, ShortestTrip}) <= rtt_in_host
    <3> HIDE DEF ShortestTrip
    <3> QED
      BY <1>1, <2>2, <2>3
  <2> QED
    BY <1>1, <2>4 DEF Estimates
<1>7. OutwardInv /\ ReceivedInv /\ AnswerInv
  BY <1>1, <1>4 DEF OutwardInv, ReceivedInv, AnswerInv
<1>8. Pending(ToSet(timer_map)) = {}
  BY <1>4 DEF Pending
<1>9. CopyInv
  <2>1. ASSUME NEW k \in Nat
        PROVE  Single(timer_map, Acks(k)) /\ Single(packet_map, Acks(k))
    <3> DEFINE cookie == Event(0, "normal", 0, 0)
    <3>1. cookie \in Timers /\ cookie \notin Acks(k)
      BY DEF Event, Timers, Acks
    <3>2. timer_map = Schedule(<<>>, cookie)
      BY <1>1 DEF Normal
    <3>3. Single(<<>>, Acks(k))
      BY DEF Single
    <3> HIDE DEF cookie
    <3> QED
      BY <1>1, <1>2, <3>1, <3>2, <3>3, TimerSingle
  <2> QED
    BY <1>4, <2>1 DEF CopyInv
<1>10. CountInv
  <2>1. Len(queue_for_rtt) \in Nat /\ Cardinality({}) = 0
    BY <1>1, FS_EmptySet
  <2> DEFINE n == Len(queue_for_rtt)
  <2>2. sent_so_far - n + Cardinality(Pending(ToSet(timer_map))) < packet_expected
    <3> HIDE DEF n
    <3>1. n \in Nat
      BY <2>1 DEF n
    <3>2. Cardinality(Pending(ToSet(timer_map))) = 0
      BY <1>8, <2>1
    <3> QED
      BY <1>1, <3>1, <3>2
  <2>3. 1 .. sent_so_far = {}
    BY <1>1
  <2> QED
    BY <2>2, <2>3 DEF CountInv
<1> QED
  BY <1>6, <1>7, <1>9, <1>10 DEF Covered

LEMMA NextCovers ==
    ASSUME TypeInv, SampleInv, TimeInv, TypeInv', TimeInv', NoOverflow', CoverInv, [Next]_vars
    PROVE  CoverInv'
<1>1. CASE UNCHANGED vars
  BY <1>1 DEF vars, estimate, source, destination, CoverInv, Covered, Estimates, OutwardInv,
     ReceivedInv, AnswerInv, CopyInv, CountInv, SentBy, Way, ShortestTrip
<1>2. CASE Next
  <2>1. Steady
    BY <1>2, StepSteady
  <2>2. SUFFICES ASSUME path.back < InitialRtt
                 PROVE  Covered'
    BY <2>1 DEF CoverInv, Steady
  <2>3. Covered
    BY <2>2 DEF CoverInv
  <2>4. CASE \E e : SendBurst(e)
    BY <2>1, <2>3, <2>4, SendBurstCovers
  <2>5. CASE \E e : SendNothing(e) \/ DataAhead(e) \/ DataRepeated(e)
    BY <2>1, <2>3, <2>5, QuietCovers
  <2>6. CASE \E e : Resend(e)
    BY <2>1, <2>2, <2>3, <2>6, ResendCovers
  <2>7. CASE \E e : DataInOrder(e)
    BY <2>1, <2>2, <2>3, <2>7, DataInOrderCovers
  <2>8. CASE \E e : Ack(e)
    BY <2>1, <2>3, <2>8, AckCovers
  <2> QED
    BY <1>2, <2>4, <2>5, <2>6, <2>7, <2>8 DEF Next
<1> QED
  BY <1>1, <1>2

LEMMA AlwaysCovered == Spec /\ []NoOverflow => []CoverInv
<1>1. /\ TypeInv /\ SampleInv /\ TimeInv /\ NoOverflow' /\ CoverInv
      /\ TypeInv' /\ TimeInv' /\ [Next]_vars
      => CoverInv'
  BY NextCovers
<1> QED
  BY InitCovers, AlwaysTyped, AlwaysInTime, <1>1, PTL DEF Spec

(* With a way back shorter than the first estimate, and no overflow of an  *)
(* int, no loss, no reordering and no cumulative ACK makes process_ack     *)
(* take the sample of a packet that is not acknowledged yet: rtt_in_host   *)
(* stays at or above the shortest round trip, or the first estimate.       *)
THEOREM EstimateAlwaysCovers == Spec /\ []NoOverflow => []EstimateCovers
<1>1. TypeInv /\ CoverInv => EstimateCovers
  <2> SUFFICES ASSUME TypeInv, CoverInv, path.back < InitialRtt
               PROVE  rtt_in_host >= Min({InitialRtt, ShortestTrip})
    BY DEF EstimateCovers
  <2> DEFINE least == Min({InitialRtt, ShortestTrip})
  <2>1. least <= rtt_in_host
    BY DEF CoverInv, Covered, Estimates
  <2>2. InitialRtt \in Int /\ ShortestTrip \in Int
    BY Ways, SizesAssumption
  <2>3. least \in Int /\ rtt_in_host \in Int
    BY <2>2, MinOfTwo DEF TypeInv
  <2> HIDE DEF least
  <2>4. rtt_in_host >= least
    BY <2>1, <2>3
  <2> QED
    BY <2>4 DEF least
<1> QED
  BY AlwaysTyped, AlwaysCovered, <1>1, PTL
-----------------------------------------------------------------------------
(* Copies that are not sent again                                          *)

DataEvents == {d \in Timers : d.kind = "DATA"}

\* The whole file could queue up within the least wait.
Short ==
    /\ path.back < InitialRtt
    /\ FileLength * path.length + path.there + path.back < 3 * Min({InitialRtt, ShortestTrip})

\* Arrival a, of the packet or of its ACK, takes the copy d away in time.
Answers(a, d) ==
    \/ a.kind = "DATA" /\ a.id = d.id /\ a.time + path.back < d.time
    \/ a.kind = "ACK" /\ a.id = d.id + 1 /\ a.time < d.time

\* The packets that the destination has not got are on their way in order.
InOrderInv ==
    /\ order_packet_map = {}
    /\ InTurn(packet_map, DataEvents)
    /\ \A a \in ToSet(packet_map) : a.kind = "DATA" => packet_expected <= a.id
    /\ \A m \in packet_expected .. sent_so_far :
          \E a \in ToSet(packet_map) : a.kind = "DATA" /\ a.id = m

\* The queue of the link is no longer than what was sent.
QueueInv ==
    /\ free <= clock + sent_so_far * path.length
    /\ \A a \in ToSet(packet_map) : a.kind = "DATA" => a.time <= free + path.there

\* Each copy is of a packet that is not acknowledged, but will be in time.
AnsweredInv ==
    /\ lastest_ack_rec <= sent_so_far
    /\ \A d \in ToSet(timer_map) : d.kind = "DATA" =>
          lastest_ack_rec < d.id /\ \E a \in ToSet(packet_map) : Answers(a, d)

Prompt == resent = 0 /\ InOrderInv /\ QueueInv /\ AnsweredInv

LEMMA ProductMore ==
    ASSUME NEW a \in Nat, NEW b \in Nat, NEW c \in Nat, a <= b
    PROVE  a * c \in Nat /\ b * c \in Nat /\ a * c <= b * c
<1>1. b - a \in Nat /\ b = a + (b - a)
  OBVIOUS
<1>2. (b - a) * c \in Nat /\ a * c \in Nat /\ b * c \in Nat
  BY <1>1, ProductNat
<1>3. b * c = a * c + (b - a) * c
  OBVIOUS
<1> QED
  BY <1>2, <1>3

(* Without a loss each packet sent is on its way.                          *)
LEMMA LossStays ==
    ASSUME TypeInv, lost \in Nat, Next
    PROVE  lost' \in Nat /\ lost <= lost'
<1>1. \A map, e : Deliver(map, e) => lost' = lost \/ lost' = lost + 1
  BY DEF Deliver
<1>2. CASE \E e : SendBurst(e)
  <2>1. PICK e : SendBurst(e)
    BY <1>2
  <2>2. PICK dropped \in SUBSET Burst : lost' = lost + Cardinality(dropped)
    BY <2>1 DEF SendBurst
  <2>3. PICK n \in Nat : Burst = sent_so_far + 1 .. sent_so_far + n
    BY <2>1, BurstSends
  <2>4. IsFiniteSet(Burst)
    BY <2>3, FS_Interval DEF TypeInv
  <2>5. Cardinality(dropped) \in Nat
    BY <2>4, FS_Subset, FS_CardinalityType
  <2> QED
    BY <2>2, <2>5
<1>3. CASE \E e : SendNothing(e) \/ DataAhead(e) \/ DataRepeated(e) \/ Ack(e)
  BY <1>3 DEF SendNothing, DataAhead, DataRepeated, Ack
<1>4. CASE \E e : Resend(e)
  BY <1>1, <1>4 DEF Resend, SendData, SendAck
<1>5. CASE \E e : DataInOrder(e)
  BY <1>1, <1>5 DEF DataInOrder, SendAck
<1> QED
  BY <1>2, <1>3, <1>4, <1>5 DEF Next

LEMMA WholeBurst ==
    ASSUME TypeInv, NEW e, SendBurst(e), lost = 0, lost' = 0
    PROVE  /\ ToSet(packet_map') =
                ToSet(packet_map) \cup {ArrivalOf(clock', id) : id \in Burst}
           /\ \A id \in Burst : ArrivalOf(clock', id) \in Arrivals
           /\ InTurn(packet_map, DataEvents)
              /\ (\A id \in Burst : Behind(packet_map, DataEvents, ArrivalOf(clock', id)))
              /\ (\A i, j \in Burst : i < j =>
                     /\ ArrivalOf(clock', i).time <= ArrivalOf(clock', j).time
                     /\ ArrivalOf(clock', i).id < ArrivalOf(clock', j).id)
              => InTurn(packet_map', DataEvents)
<1> DEFINE after(k) == Max({clock', free}) + k * path.length
           arrival == [id \in Burst |->
                         Event(after(id - sent_so_far) + path.there, "DATA", id, 0)]
<1>1. PICK dropped \in SUBSET Burst :
        /\ packet_map' = ScheduleAll(packet_map, arrival, Burst \ dropped)
        /\ lost' = lost + Cardinality(dropped)
  BY DEF SendBurst
<1>2. /\ packet_map \in Seq(Arrivals) /\ Sorted(packet_map)
      /\ e \in Timers /\ clock' = e.time /\ clock' \in Int
  BY FirstOK, TimesOfMaps DEF SendBurst, TypeInv, MapsOK, Fires
<1>3. Burst \in SUBSET (1 .. FileLength) /\ FileLength \in Nat
  BY BurstIs, SizesAssumption DEF TypeInv
<1>4. \A id \in Burst : arrival[id] \in Arrivals /\ arrival[id] = ArrivalOf(clock', id)
  <2> SUFFICES ASSUME NEW id \in Burst
               PROVE  arrival[id] \in Arrivals /\ arrival[id] = ArrivalOf(clock', id)
    OBVIOUS
  <2>0. free \in Int /\ path \in Paths
    BY DEF TypeInv
  <2>1. Max({clock', free}) \in Int /\ path.length \in Int /\ path.there \in Int
    <3>1. Max({clock', free}) = IF clock' >= free THEN clock' ELSE free
      BY <1>2, <2>0, MaxOfTwo
    <3> QED
      BY <1>2, <2>0, <3>1, PathOK
  <2>2. id - sent_so_far \in Int /\ id \in Nat
    BY <1>3 DEF TypeInv
  <2>3. (id - sent_so_far) * path.length \in Int
    BY <2>1, <2>2, ProductInt
  <2>4. after(id - sent_so_far) + path.there \in Int
    BY <2>1, <2>3
  <2>5. arrival[id] = Event(after(id - sent_so_far) + path.there, "DATA", id, 0)
    OBVIOUS
  <2> QED
    BY <2>2, <2>4, <2>5 DEF Arrivals, Event, ArrivalOf
<1> HIDE DEF arrival
<1>5. dropped = {}
  <2>1. IsFiniteSet(Burst)
    <3>1. PICK n \in Nat : Burst = sent_so_far + 1 .. sent_so_far + n
      BY BurstSends
    <3> QED
      BY <3>1, FS_Interval DEF TypeInv
  <2>2. IsFiniteSet(dropped)
    BY <2>1, FS_Subset
  <2>3. Cardinality(dropped) \in Nat
    BY <2>2, FS_CardinalityType
  <2>4. Cardinality(dropped) = 0
    BY <1>1, <2>3
  <2> QED
    BY <2>2, <2>4, FS_EmptySet
<1>6. packet_map' = ScheduleAll(packet_map, arrival, Burst)
  <2>1. Burst \ dropped = Burst
    BY <1>5
  <2> QED
    BY <1>1, <2>1
<1>7. \A id \in Burst : arrival[id] \in Arrivals
  BY <1>4
<1>8. ToSet(packet_map') = ToSet(packet_map) \cup {arrival[id] : id \in Burst}
  BY <1>2, <1>3, <1>6, <1>7, ArrivalsPut
<1>9. {arrival[id] : id \in Burst} = {ArrivalOf(clock', id) : id \in Burst}
  BY <1>4
<1>10. ASSUME InTurn(packet_map, DataEvents),
              \A id \in Burst : Behind(packet_map, DataEvents, ArrivalOf(clock', id)),
              \A i, j \in Burst : i < j =>
                 /\ ArrivalOf(clock', i).time <= ArrivalOf(clock', j).time
                 /\ ArrivalOf(clock', i).id < ArrivalOf(clock', j).id
       PROVE  InTurn(packet_map', DataEvents)
  <2>1. \A id \in Burst : Behind(packet_map, DataEvents, arrival[id])
    BY <1>4, <1>10
  <2>2. \A i, j \in Burst : i < j => /\ arrival[i].time <= arrival[j].time
                                     /\ arrival[i].id < arrival[j].id
    BY <1>4, <1>10
  <2>3. \A r \in Arrivals : r.time \in Int
    BY TimesOfMaps
  <2> QED
    BY <1>2, <1>3, <1>6, <1>7, <1>10, <2>1, <2>2, <2>3, ScheduleAllInTurn
<1> QED
  BY <1>4, <1>8, <1>9, <1>10

LEMMA BurstPrompt ==
    ASSUME TypeInv, TimeInv, NoOverflow', Steady, Covered, Short, Prompt,
           NEW e, SendBurst(e), lost = 0, lost' = 0
    PROVE  Prompt'
<1> DEFINE top == Max({clock', free})
           L == path.length
           s == sent_so_far
           now == clock'
<1>1. PICK n \in Nat :
        /\ Burst = s + 1 .. s + n /\ s + n <= FileLength
        /\ sent_so_far' = s + n
        /\ free' = top + n * L
  BY BurstSends
<1>2. /\ packet_expected' = packet_expected /\ order_packet_map' = order_packet_map
      /\ rtt_in_host' = rtt_in_host /\ cwnd_host' = cwnd_host
      /\ lastest_ack_rec' = lastest_ack_rec /\ resent' = resent /\ path' = path
  BY DEF SendBurst, Fires, destination
<1>3. /\ L \in Nat /\ path.there \in Nat /\ path.back \in Nat /\ s \in Nat
      /\ clock \in Nat /\ now \in Nat /\ clock <= now /\ free \in Int
      /\ FileLength \in Nat
  BY Ways, SizesAssumption DEF Steady, TypeInv
<1>4. s * L \in Nat /\ n * L \in Nat /\ (s + n) * L = s * L + n * L
      /\ FileLength * L \in Nat /\ (s + n) * L <= FileLength * L
  <2>1. s + n \in Nat
    BY <1>3
  <2> HIDE DEF L, s
  <2> QED
    BY <1>1, <1>3, <2>1, ProductMore
<1>5. top \in Int /\ now <= top /\ free <= top /\ top <= now + s * L
  <2>1. free <= clock + s * L
    BY DEF Prompt, QueueInv
  <2>2. top = IF now >= free THEN now ELSE free
    BY <1>3, MaxOfTwo
  <2> HIDE DEF top, L, s, now
  <2> QED
    BY <1>3, <1>4, <2>1, <2>2
<1>6. \A id \in Burst : /\ ArrivalOf(now, id).kind = "DATA" /\ ArrivalOf(now, id).id = id
                        /\ ArrivalOf(now, id).time = top + (id - s) * L + path.there
                        /\ CopyOf(now, id).kind = "DATA" /\ CopyOf(now, id).id = id
                        /\ CopyOf(now, id).time = Wrapped(now + BurstWait)
  BY DEF ArrivalOf, CopyOf, Event
<1>7. /\ ToSet(timer_map') \subseteq ToSet(timer_map) \cup {CopyOf(now, id) : id \in Burst}
  <2>1. ToSet(Tail(timer_map)) \subseteq ToSet(timer_map)
    BY FirstOK DEF SendBurst, TypeInv
  <2> QED
    BY <2>1, BurstTimers
<1>8. /\ BurstWait \in Nat /\ Wrapped(now + BurstWait) = now + BurstWait
      /\ FileLength * L + path.there + path.back < BurstWait
  <2> DEFINE least == Min({InitialRtt, ShortestTrip})
             c == cwnd_host + 2
  <2>1. rtt_in_host \in Nat /\ c \in Nat /\ 3 <= c
    BY DEF TypeInv, TimeInv
  <2>2. InitialRtt \in Int /\ ShortestTrip \in Int
    BY Ways, SizesAssumption
  <2>3. least \in Int /\ least <= rtt_in_host
    BY <2>2, MinOfTwo DEF Covered, Estimates
  <2>4. FileLength * L + path.there + path.back < 3 * least
    BY DEF Short
  <2>5. BurstWait = rtt_in_host * c
    BY DEF BurstWait
  <2>6. BurstWait' = BurstWait
    BY <1>2 DEF BurstWait
  <2> HIDE DEF least, c, L
  <2>7. rtt_in_host * c = c * rtt_in_host
    BY <2>1
  <2>8. BurstWait \in Nat /\ 3 * rtt_in_host <= BurstWait
    BY <2>1, <2>5, <2>7, ProductMore
  <2>9. now + BurstWait < IntSize \div 2
    BY <2>6 DEF NoOverflow
  <2> HIDE DEF now
  <2>10. Wrapped(now + BurstWait) = now + BurstWait
    BY <1>3, <2>8, <2>9, CopyLater
  <2>11. FileLength * L + path.there + path.back < BurstWait
    BY <1>3, <1>4, <2>1, <2>3, <2>4, <2>8
  <2> QED
    BY <2>8, <2>10, <2>11
<1>9. ASSUME NEW id \in Burst
      PROVE  /\ ArrivalOf(now, id).time \in Int /\ s < id /\ id \in Nat
             /\ free + path.there <= ArrivalOf(now, id).time
             /\ ArrivalOf(now, id).time <= free' + path.there
             /\ ArrivalOf(now, id).time + path.back < CopyOf(now, id).time
  <2> DEFINE k == id - s
  <2>1. k \in Nat /\ k <= n /\ s < id /\ id \in Nat
    BY <1>1, <1>3
  <2>2. k * L \in Nat /\ k * L <= n * L
    BY <1>3, <2>1, ProductMore
  <2>3. ArrivalOf(now, id).time = top + k * L + path.there
        /\ CopyOf(now, id).time = now + BurstWait
    BY <1>6, <1>8
  <2> HIDE DEF k, L, s, top, now
  <2>4. ArrivalOf(now, id).time \in Int /\ free + path.there <= ArrivalOf(now, id).time
    BY <1>3, <1>5, <2>2, <2>3
  <2>5. ArrivalOf(now, id).time <= free' + path.there
    BY <1>1, <1>3, <1>4, <1>5, <2>2, <2>3
  <2>6. ArrivalOf(now, id).time <= now + FileLength * L + path.there
    BY <1>3, <1>4, <1>5, <2>2, <2>3
  <2>7. ArrivalOf(now, id).time + path.back < CopyOf(now, id).time
    BY <1>3, <1>4, <1>8, <2>3, <2>4, <2>6
  <2> QED
    BY <2>1, <2>4, <2>5, <2>7
<1>10. ToSet(packet_map') = ToSet(packet_map) \cup {ArrivalOf(now, id) : id \in Burst}
  BY WholeBurst
<1>11. \A a \in ToSet(packet_map) : a.kind = "DATA" =>
          /\ a.time \in Int /\ a.id \in Nat /\ a.id <= s /\ packet_expected <= a.id
          /\ a.time <= free + path.there
  <2>1. ToSet(packet_map) \subseteq Arrivals
    BY Holds DEF TypeInv, MapsOK
  <2>2. \A a \in ToSet(packet_map) : a.kind = "DATA" => a.id \in 1 .. s
    BY DEF Covered, OutwardInv
  <2>3. \A a \in ToSet(packet_map) : a.kind = "DATA" =>
            packet_expected <= a.id /\ a.time <= free + path.there
    BY DEF Prompt, InOrderInv, QueueInv
  <2> QED
    BY <1>3, <2>1, <2>2, <2>3 DEF Arrivals
<1>12. packet_expected \in Nat /\ packet_expected <= s + 1
  BY DEF Covered, ReceivedInv, TypeInv
<1>13. InOrderInv'
  <2>1. InTurn(packet_map', DataEvents)
    <3>1. InTurn(packet_map, DataEvents)
      BY DEF Prompt, InOrderInv
    <3>2. ASSUME NEW id \in Burst
          PROVE  Behind(packet_map, DataEvents, ArrivalOf(now, id))
      <4> SUFFICES ASSUME NEW d \in ToSet(packet_map), d.kind = "DATA"
                   PROVE  d.time <= ArrivalOf(now, id).time /\ d.id < id
        BY <1>6 DEF Behind, DataEvents
      <4>1. /\ d.time \in Int /\ d.id \in Nat /\ d.id <= s /\ d.time <= free + path.there
            /\ ArrivalOf(now, id).time \in Int /\ s < id /\ id \in Nat
            /\ free + path.there <= ArrivalOf(now, id).time
        BY <1>9, <1>11
      <4> QED
        BY <1>3, <4>1
    <3>3. ASSUME NEW i \in Burst, NEW j \in Burst, i < j
          PROVE  /\ ArrivalOf(now, i).time <= ArrivalOf(now, j).time
                 /\ ArrivalOf(now, i).id < ArrivalOf(now, j).id
      <4> DEFINE k == i - s
                 l == j - s
      <4>1. k \in Nat /\ l \in Nat /\ k <= l
        BY <1>1, <1>3, <3>3
      <4>2. k * L \in Nat /\ l * L \in Nat /\ k * L <= l * L
        BY <1>3, <4>1, ProductMore
      <4>3. ArrivalOf(now, i).time = top + k * L + path.there
            /\ ArrivalOf(now, j).time = top + l * L + path.there
        BY <1>6
      <4> HIDE DEF k, l, L, s, top, now
      <4>4. ArrivalOf(now, i).time <= ArrivalOf(now, j).time
        BY <1>3, <1>5, <4>2, <4>3
      <4> QED
        BY <1>6, <3>3, <4>4
    <3> QED
      BY <3>1, <3>2, <3>3, WholeBurst
  <2>2. ASSUME NEW a \in ToSet(packet_map'), a.kind = "DATA"
        PROVE  packet_expected <= a.id
    <3>1. CASE a \in ToSet(packet_map)
      BY <1>11, <2>2, <3>1
    <3>2. CASE \E id \in Burst : a = ArrivalOf(now, id)
      <4>1. PICK id \in Burst : a = ArrivalOf(now, id)
        BY <3>2
      <4>2. a.id = id /\ s < id /\ id \in Nat
        BY <1>6, <1>9, <4>1
      <4> QED
        BY <1>3, <1>12, <4>2
    <3> QED
      BY <1>10, <2>2, <3>1, <3>2
  <2>3. ASSUME NEW m \in packet_expected .. s + n
        PROVE  \E a \in ToSet(packet_map') : a.kind = "DATA" /\ a.id = m
    <3>1. CASE m <= s
      <4>1. m \in packet_expected .. s
        BY <1>3, <1>12, <2>3, <3>1
      <4>2. PICK a \in ToSet(packet_map) : a.kind = "DATA" /\ a.id = m
        BY <4>1 DEF Prompt, InOrderInv
      <4> QED
        BY <1>10, <4>2
    <3>2. CASE ~(m <= s)
      <4>1. m \in Burst
        BY <1>1, <1>3, <1>12, <2>3, <3>2
      <4> QED
        BY <1>6, <1>10, <4>1
    <3> QED
      BY <3>1, <3>2
  <2>4. order_packet_map' = {}
    BY <1>2 DEF Prompt, InOrderInv
  <2>5. DataEvents' = DataEvents
    BY DEF DataEvents, Timers
  <2> QED
    BY <1>1, <1>2, <2>1, <2>2, <2>3, <2>4, <2>5 DEF InOrderInv
<1>14. QueueInv'
  <2>1. free' <= now + (s + n) * L
    <3> HIDE DEF top, now, s, L
    <3> QED
      BY <1>1, <1>3, <1>4, <1>5
  <2>2. free' \in Int /\ free <= free'
    <3> HIDE DEF top, now, s, L
    <3> QED
      BY <1>1, <1>3, <1>4, <1>5
  <2>3. ASSUME NEW a \in ToSet(packet_map'), a.kind = "DATA"
        PROVE  a.time <= free' + path.there
    <3>1. CASE a \in ToSet(packet_map)
      <4>1. a.time \in Int /\ a.time <= free + path.there
        BY <1>11, <2>3, <3>1
      <4> QED
        BY <1>3, <2>2, <4>1
    <3>2. CASE \E id \in Burst : a = ArrivalOf(now, id)
      BY <1>9, <3>2
    <3> QED
      BY <1>10, <2>3, <3>1, <3>2
  <2> QED
    BY <1>1, <1>2, <2>1, <2>3 DEF QueueInv
<1>15. AnsweredInv'
  <2>1. lastest_ack_rec \in Int /\ lastest_ack_rec <= s
    BY DEF Prompt, AnsweredInv, TypeInv
  <2>2. lastest_ack_rec <= s + n
    BY <1>3, <2>1
  <2>3. \A a, d : Answers(a, d)' <=> Answers(a, d)
    BY <1>2 DEF Answers
  <2>4. ASSUME NEW d \in ToSet(timer_map'), d.kind = "DATA"
        PROVE  lastest_ack_rec < d.id /\ \E a \in ToSet(packet_map') : Answers(a, d)
    <3>1. CASE d \in ToSet(timer_map)
      BY <1>10, <2>4, <3>1 DEF Prompt, AnsweredInv
    <3>2. CASE \E id \in Burst : d = CopyOf(now, id)
      <4>1. PICK id \in Burst : d = CopyOf(now, id)
        BY <3>2
      <4>2. d.id = id /\ s < id /\ id \in Nat
        BY <1>6, <1>9, <4>1
      <4>3. Answers(ArrivalOf(now, id), d)
        BY <1>6, <1>9, <4>1 DEF Answers
      <4> QED
        BY <1>3, <1>10, <2>1, <4>2, <4>3
    <3> QED
      BY <1>7, <2>4, <3>1, <3>2
  <2> QED
    BY <1>1, <1>2, <2>2, <2>3, <2>4 DEF AnsweredInv, Answers
<1> QED
  BY <1>2, <1>13, <1>14, <1>15 DEF Prompt

(* Steps that leave the DATA packets alone.                                *)
LEMMA InOrderStays ==
    ASSUME Prompt, sent_so_far' = sent_so_far, UNCHANGED destination,
           InTurn(packet_map', DataEvents),
           \A a : a.kind = "DATA" => (a \in ToSet(packet_map') <=> a \in ToSet(packet_map))
    PROVE  InOrderInv'
<1>1. DataEvents' = DataEvents
  BY DEF DataEvents, Timers
<1>2. packet_expected' = packet_expected /\ order_packet_map' = order_packet_map
  BY DEF destination
<1> QED
  BY <1>1, <1>2 DEF Prompt, InOrderInv

LEMMA QueueStays ==
    ASSUME TypeInv, Prompt, Steady, free' = free, sent_so_far' = sent_so_far,
           \A a \in ToSet(packet_map') : a.kind = "DATA" => a \in ToSet(packet_map)
    PROVE  QueueInv'
<1>1. /\ path' = path /\ clock \in Nat /\ clock' \in Nat /\ clock <= clock' /\ free \in Int
      /\ path.length \in Nat /\ sent_so_far \in Nat
  BY Ways DEF Steady, TypeInv
<1>2. sent_so_far * path.length \in Nat
  BY <1>1, ProductNat
<1>3. free <= clock + sent_so_far * path.length
  BY DEF Prompt, QueueInv
<1> DEFINE w == sent_so_far * path.length
           now == clock'
<1>4. free <= now + w
  <2> HIDE DEF now, w
  <2> QED
    BY <1>1, <1>2, <1>3 DEF now, w
<1> QED
  BY <1>1, <1>4 DEF Prompt, QueueInv

LEMMA AnsweredStays ==
    ASSUME Prompt, Steady, sent_so_far' = sent_so_far, lastest_ack_rec' = lastest_ack_rec,
           \A d \in ToSet(timer_map') : d.kind = "DATA" => d \in ToSet(timer_map),
           ToSet(packet_map) \subseteq ToSet(packet_map')
    PROVE  AnsweredInv'
<1>1. \A a, d : Answers(a, d)' <=> Answers(a, d)
  BY DEF Answers, Steady
<1> QED
  BY <1>1 DEF Prompt, AnsweredInv

LEMMA NothingPrompt ==
    ASSUME TypeInv, Steady, Prompt, NEW e, SendNothing(e)
    PROVE  Prompt'
<1>1. /\ packet_map' = packet_map /\ free' = free /\ sent_so_far' = sent_so_far
      /\ resent' = resent /\ lastest_ack_rec' = lastest_ack_rec /\ UNCHANGED destination
      /\ ToSet(timer_map') \subseteq ToSet(timer_map)
  BY FirstOK DEF SendNothing, Fires, TypeInv
<1>2. InTurn(packet_map', DataEvents)
  BY <1>1 DEF Prompt, InOrderInv
<1> QED
  BY <1>1, <1>2, InOrderStays, QueueStays, AnsweredStays DEF Prompt

(* A packet that leaves without a loss.                                    *)
LEMMA Delivered ==
    ASSUME NEW map \in Seq(Arrivals), Sorted(map), NEW e \in Arrivals, e.kind = "ACK",
           Deliver(map, e), lost = 0, lost' = 0, InTurn(map, DataEvents)
    PROVE  /\ ToSet(packet_map') = ToSet(map) \cup {e}
           /\ InTurn(packet_map', DataEvents)
<1>1. packet_map' = Schedule(map, e)
  BY DEF Deliver
<1>2. \A r \in Arrivals : r.time \in Int
  BY TimesOfMaps
<1>3. Behind(map, DataEvents, e)
  BY DEF Behind, DataEvents
<1>4. InTurn(Schedule(map, e), DataEvents)
  BY <1>2, <1>3, ScheduleInTurn
<1> QED
  BY <1>1, <1>4, ArrivalPut

\* A copy of DATA never fires: its packet or ACK comes before.
LEMMA ResendPrompt ==
    ASSUME TypeInv, TimeInv, NoOverflow', Steady, Prompt, NEW e, Resend(e),
           lost = 0, lost' = 0
    PROVE  Prompt'
<1> DEFINE ack == Event(e.time + path.back, "ACK", e.id, e.cwnd)
<1>1. /\ e \in ToSet(timer_map) /\ Fires(e) /\ e.kind \in {"DATA", "ACK"}
      /\ e \in Timers /\ ToSet(timer_map) = ToSet(Tail(timer_map)) \cup {e}
  BY FirstOK DEF Resend, TypeInv
<1>2. /\ \A a \in ToSet(packet_map) : e.time <= a.time /\ a.time \in Int
      /\ e.time \in Int
  <2>1. ToSet(packet_map) \subseteq Arrivals
    BY Holds DEF TypeInv, MapsOK
  <2> QED
    BY <1>1, <2>1, FirstOfAll, TimesOfMaps
<1>3. e.kind = "ACK"
  <2> SUFFICES ASSUME e.kind = "DATA"
               PROVE  FALSE
    BY <1>1
  <2>1. PICK a \in ToSet(packet_map) : Answers(a, e)
    BY <1>1 DEF Prompt, AnsweredInv
  <2>2. path.back \in Nat
    BY Ways
  <2>3. a.time < e.time
    <3>1. a.time \in Int
      BY <1>2
    <3> QED
      BY <1>2, <2>1, <2>2, <3>1 DEF Answers
  <2>4. e.time <= a.time /\ a.time \in Int
    BY <1>2
  <2> QED
    BY <1>2, <2>3, <2>4
<1>4. /\ ack \in Arrivals /\ Deliver(packet_map, ack)
  BY <1>3, ResendTimes
<1>5. /\ free' = free /\ resent' = resent /\ sent_so_far' = sent_so_far
      /\ lastest_ack_rec' = lastest_ack_rec /\ UNCHANGED destination
  BY <1>3 DEF Resend, Fires, SendAck
<1>6. ack.kind = "ACK"
  BY DEF Event
<1>7. \A d \in ToSet(timer_map') : d.kind = "DATA" => d \in ToSet(timer_map)
  <2> DEFINE copy == Event(e.time + ResendWait(e), e.kind, e.id, e.cwnd)
  <2>1. ToSet(timer_map') = ToSet(Tail(timer_map)) \cup {copy}
    BY ResendTimes
  <2>2. copy.kind = "ACK"
    BY <1>3 DEF Event
  <2> HIDE DEF copy
  <2> QED
    BY <1>1, <2>1, <2>2
<1> HIDE DEF ack
<1>8. /\ ToSet(packet_map') = ToSet(packet_map) \cup {ack}
      /\ InTurn(packet_map', DataEvents)
  <2>1. InTurn(packet_map, DataEvents) /\ packet_map \in Seq(Arrivals) /\ Sorted(packet_map)
    BY DEF Prompt, InOrderInv, TypeInv, MapsOK
  <2> QED
    BY <1>4, <1>6, <2>1, Delivered
<1>9. \A a : a.kind = "DATA" => (a \in ToSet(packet_map') <=> a \in ToSet(packet_map))
  BY <1>6, <1>8
<1>10. InOrderInv'
  BY <1>5, <1>8, <1>9, InOrderStays
<1>11. QueueInv'
  BY <1>5, <1>9, QueueStays
<1>12. AnsweredInv'
  BY <1>5, <1>7, <1>8, AnsweredStays
<1> QED
  BY <1>5, <1>10, <1>11, <1>12 DEF Prompt

\* DATA comes in order.
LEMMA DataIsExpected ==
    ASSUME TypeInv, Covered, Prompt, NEW e, Arrives(e), e.kind = "DATA"
    PROVE  e.id = packet_expected /\ \A d \in ToSet(Tail(packet_map)) :
                                        d.kind = "DATA" => e.id < d.id
<1>1. /\ packet_map # <<>> /\ e \in Arrivals /\ e = Head(packet_map)
      /\ e \in ToSet(packet_map) /\ packet_map \in Seq(Arrivals)
      /\ ToSet(packet_map) = ToSet(Tail(packet_map)) \cup {e}
  BY FirstOK DEF TypeInv, MapsOK
<1>2. ToSet(packet_map) \subseteq Timers
  <2>1. ToSet(packet_map) \subseteq Arrivals
    BY <1>1, Holds
  <2> QED
    BY <2>1 DEF Arrivals, Timers
<1>3. \A d \in ToSet(packet_map) : d.kind = "DATA" => d \in DataEvents
  BY <1>2 DEF DataEvents
<1>4. \A d \in ToSet(Tail(packet_map)) : d.kind = "DATA" => e.id < d.id
  <2>1. InTurn(packet_map, DataEvents)
    BY DEF Prompt, InOrderInv
  <2>2. Head(packet_map) \in DataEvents =>
          \A d \in ToSet(Tail(packet_map)) : d \in DataEvents => Head(packet_map).id < d.id
    BY <1>1, <2>1, TailInTurn
  <2> QED
    BY <1>1, <1>3, <2>2
<1>5. e.id \in Nat /\ packet_expected \in Nat /\ sent_so_far \in Nat
      /\ packet_expected <= e.id /\ e.id \in 1 .. sent_so_far
  BY <1>1, SizesAssumption DEF Arrivals, TypeInv, Prompt, InOrderInv, Covered, OutwardInv
<1>6. ~(packet_expected < e.id)
  <2> SUFFICES ASSUME packet_expected < e.id
               PROVE  FALSE
    OBVIOUS
  <2>1. packet_expected \in packet_expected .. sent_so_far
    BY <1>5
  <2>2. PICK b \in ToSet(packet_map) : b.kind = "DATA" /\ b.id = packet_expected
    BY <2>1 DEF Prompt, InOrderInv
  <2>3. b \in ToSet(Tail(packet_map))
    BY <1>1, <1>5, <2>2
  <2>4. e.id < b.id
    BY <1>4, <2>2, <2>3
  <2> QED
    BY <1>5, <2>2, <2>4
<1> QED
  BY <1>4, <1>5, <1>6

LEMMA DataPrompt ==
    ASSUME TypeInv, SampleInv, TimeInv, NoOverflow', Steady, Covered, Prompt,
           NEW e, DataInOrder(e), lost = 0, lost' = 0
    PROVE  Prompt'
<1>1. PICK next \in NextExpected(e.id), w \in Windows :
        LET copy == Event(e.time + InitialRtt, "ACK", next, w)
            ack == Event(e.time + path.back, "ACK", next, w)
        IN  /\ packet_expected' = next /\ next \in Nat \ {0} /\ w \in Nat
            /\ order_packet_map' = order_packet_map \ (e.id + 1 .. next - 1)
            /\ timer_map' = Schedule(timer_map, copy) /\ copy \in Timers
            /\ ToSet(timer_map') = ToSet(timer_map) \cup {copy}
            /\ Deliver(Tail(packet_map), ack) /\ ack \in Arrivals
            /\ ToSet(packet_map') \subseteq ToSet(Tail(packet_map)) \cup {ack}
  BY InOrderTimes
<1> DEFINE copy == Event(e.time + InitialRtt, "ACK", next, w)
           ack == Event(e.time + path.back, "ACK", next, w)
<1>2. /\ packet_expected' = next /\ next \in Nat
      /\ order_packet_map' = order_packet_map \ (e.id + 1 .. next - 1)
      /\ ToSet(timer_map') = ToSet(timer_map) \cup {copy}
      /\ Deliver(Tail(packet_map), ack) /\ ack \in Arrivals
  BY <1>1
<1>3. copy.kind = "ACK" /\ ack.kind = "ACK" /\ ack.id = next /\ ack.time = e.time + path.back
  BY DEF Event
<1> HIDE DEF copy, ack
<1>4. /\ Arrives(e) /\ e.kind = "DATA"
      /\ free' = free /\ resent' = resent /\ sent_so_far' = sent_so_far
      /\ lastest_ack_rec' = lastest_ack_rec
  BY DEF DataInOrder, Arrives, SendAck
<1>5. /\ packet_map # <<>> /\ packet_map \in Seq(Arrivals) /\ e = Head(packet_map)
      /\ Tail(packet_map) \in Seq(Arrivals) /\ Sorted(Tail(packet_map))
      /\ ToSet(packet_map) = ToSet(Tail(packet_map)) \cup {e} /\ e \in Arrivals
  BY <1>4, FirstOK DEF TypeInv, MapsOK
<1>6. /\ e.id = packet_expected /\ e.id \in Nat
      /\ \A d \in ToSet(Tail(packet_map)) : d.kind = "DATA" => e.id < d.id
  BY <1>4, <1>5, DataIsExpected DEF Arrivals
<1>7. /\ order_packet_map = {} /\ InTurn(packet_map, DataEvents)
      /\ \A m \in packet_expected .. sent_so_far :
            \E a \in ToSet(packet_map) : a.kind = "DATA" /\ a.id = m
  BY DEF Prompt, InOrderInv
<1>8. next = e.id + 1
  <2>1. next \in e.id + 1 .. FileLength + 1 /\ e.id + 1 .. next - 1 \subseteq order_packet_map
    BY <1>6, NextIs
  <2>2. FileLength \in Nat
    BY SizesAssumption
  <2>3. ~(next > e.id + 1)
    <3> SUFFICES ASSUME next > e.id + 1
                 PROVE  FALSE
      OBVIOUS
    <3>1. e.id + 1 \in e.id + 1 .. next - 1
      BY <1>2, <1>6
    <3> QED
      BY <1>7, <2>1, <3>1
  <2> QED
    BY <1>2, <1>6, <2>1, <2>2, <2>3
<1>9. /\ ToSet(packet_map') = ToSet(Tail(packet_map)) \cup {ack}
      /\ InTurn(packet_map', DataEvents)
  <2>1. InTurn(Tail(packet_map), DataEvents)
    BY <1>5, <1>7, TailInTurn
  <2> QED
    BY <1>2, <1>3, <1>5, <2>1, Delivered
<1>10. InOrderInv'
  <2>1. \A a \in ToSet(packet_map') : a.kind = "DATA" => next <= a.id
    <3>1. ASSUME NEW a \in ToSet(packet_map'), a.kind = "DATA"
          PROVE  next <= a.id
      <4>1. a \in ToSet(Tail(packet_map))
        BY <1>3, <1>9, <3>1
      <4>2. e.id < a.id
        BY <1>6, <3>1, <4>1
      <4>3. a.id \in Nat
        <5>1. ToSet(Tail(packet_map)) \subseteq Arrivals
          BY <1>5, Holds
        <5> QED
          BY <4>1, <5>1 DEF Arrivals
      <4> QED
        BY <1>6, <1>8, <4>2, <4>3
    <3> QED
      BY <3>1
  <2>2. ASSUME NEW m \in next .. sent_so_far
        PROVE  \E a \in ToSet(packet_map') : a.kind = "DATA" /\ a.id = m
    <3>1. sent_so_far \in Nat
      BY SizesAssumption DEF TypeInv
    <3>2. m \in packet_expected .. sent_so_far /\ m # e.id
      BY <1>6, <1>8, <2>2, <3>1
    <3>3. PICK a \in ToSet(packet_map) : a.kind = "DATA" /\ a.id = m
      BY <1>7, <3>2
    <3>4. a \in ToSet(Tail(packet_map))
      BY <1>5, <3>2, <3>3
    <3> QED
      BY <1>9, <3>3, <3>4
  <2>3. DataEvents' = DataEvents
    BY DEF DataEvents, Timers
  <2>4. order_packet_map' = {}
    BY <1>2, <1>7
  <2> QED
    BY <1>2, <1>4, <1>9, <2>1, <2>2, <2>3, <2>4 DEF InOrderInv
<1>11. QueueInv'
  <2>1. \A a \in ToSet(packet_map') : a.kind = "DATA" => a \in ToSet(packet_map)
    BY <1>3, <1>5, <1>9
  <2> QED
    BY <1>4, <2>1, QueueStays
<1>12. AnsweredInv'
  <2>1. \A a, d : Answers(a, d)' <=> Answers(a, d)
    BY DEF Answers, Steady
  <2>2. ASSUME NEW d \in ToSet(timer_map'), d.kind = "DATA"
        PROVE  lastest_ack_rec < d.id /\ \E a \in ToSet(packet_map') : Answers(a, d)
    <3>1. d \in ToSet(timer_map)
      BY <1>2, <1>3, <2>2
    <3>2. PICK a \in ToSet(packet_map) : Answers(a, d)
      BY <2>2, <3>1 DEF Prompt, AnsweredInv
    <3>3. lastest_ack_rec < d.id
      BY <2>2, <3>1 DEF Prompt, AnsweredInv
    <3>4. CASE a = e
      <4>1. e.id = d.id /\ e.time + path.back < d.time
        BY <1>4, <3>2, <3>4 DEF Answers
      <4>2. Answers(ack, d)
        BY <1>3, <1>8, <4>1 DEF Answers
      <4> QED
        BY <1>9, <3>3, <4>2
    <3>5. CASE a # e
      BY <1>5, <1>9, <3>2, <3>3, <3>5
    <3> QED
      BY <3>4, <3>5
  <2>3. lastest_ack_rec <= sent_so_far
    BY DEF Prompt, AnsweredInv
  <2> QED
    BY <1>4, <2>1, <2>2, <2>3 DEF AnsweredInv
<1> QED
  BY <1>4, <1>10, <1>11, <1>12 DEF Prompt

\* An ACK takes the copies away that it answers.
LEMMA AckPrompt ==
    ASSUME TypeInv, SampleInv, TimeInv, Steady, Covered, Prompt, NEW e, Ack(e)
    PROVE  Prompt'
<1>1. /\ Arrives(e) /\ e.kind = "ACK" /\ lastest_ack_rec' = e.id - 1
      /\ free' = free /\ resent' = resent /\ sent_so_far' = sent_so_far
      /\ UNCHANGED destination
  BY DEF Ack, Arrives
<1>2. /\ packet_map # <<>> /\ packet_map \in Seq(Arrivals) /\ e \in ToSet(packet_map)
      /\ ToSet(packet_map) = ToSet(Tail(packet_map)) \cup {e} /\ e \in Arrivals
  BY <1>1, FirstOK DEF TypeInv, MapsOK
<1>3. packet_map' = Tail(packet_map)
      /\ ToSet(timer_map') = {d \in ToSet(timer_map) : <<d.kind, d.id>> \notin Acknowledged(e)}
            \cup {Event(e.time, "normal", 0, 0)}
  BY AckMaps
<1>4. e.id \in Nat /\ e.id - 1 \in Int /\ e.id - 1 <= sent_so_far
  <2>1. e.id \in 2 .. packet_expected
    BY <1>1, <1>2 DEF Covered, AnswerInv
  <2>2. packet_expected \in Nat /\ packet_expected <= sent_so_far + 1 /\ sent_so_far \in Nat
    BY SizesAssumption DEF Covered, ReceivedInv, TypeInv
  <2> QED
    BY <2>1, <2>2
<1>5. \A a : a.kind = "DATA" => (a \in ToSet(packet_map') <=> a \in ToSet(packet_map))
  BY <1>1, <1>2, <1>3
<1>6. InOrderInv'
  <2>1. InTurn(packet_map, DataEvents)
    BY DEF Prompt, InOrderInv
  <2>2. InTurn(Tail(packet_map), DataEvents)
    BY <1>2, <2>1, TailInTurn
  <2> QED
    BY <1>1, <1>3, <1>5, <2>2, InOrderStays
<1>7. QueueInv'
  BY <1>1, <1>5, QueueStays
<1>8. AnsweredInv'
  <2>1. \A a, d : Answers(a, d)' <=> Answers(a, d)
    BY DEF Answers, Steady
  <2>2. ASSUME NEW d \in ToSet(timer_map'), d.kind = "DATA"
        PROVE  e.id - 1 < d.id /\ \E a \in ToSet(packet_map') : Answers(a, d)
    <3>1. d \in ToSet(timer_map) /\ <<d.kind, d.id>> \notin Acknowledged(e)
      BY <1>3, <2>2 DEF Event
    <3>2. PICK a \in ToSet(packet_map) : Answers(a, d)
      BY <2>2, <3>1 DEF Prompt, AnsweredInv
    <3>3. lastest_ack_rec < d.id /\ lastest_ack_rec \in Int /\ d.id \in Nat
      <4>1. ToSet(timer_map) \subseteq Timers
        BY Holds DEF TypeInv, MapsOK
      <4> QED
        BY <2>2, <3>1, <4>1 DEF Prompt, AnsweredInv, TypeInv, Timers
    <3>4. ~(d.id <= e.id - 1)
      <4> SUFFICES ASSUME d.id <= e.id - 1
                   PROVE  FALSE
        OBVIOUS
      <4>1. d.id \in lastest_ack_rec + 1 .. e.id - 1
        BY <1>4, <3>3
      <4> QED
        BY <2>2, <3>1, <4>1 DEF Acknowledged
    <3>5. e.id - 1 < d.id
      BY <1>4, <3>3, <3>4
    <3>6. a # e
      <4> SUFFICES ASSUME a = e
                   PROVE  FALSE
        OBVIOUS
      <4>1. e.id = d.id + 1
        BY <1>1, <3>2 DEF Answers
      <4> QED
        BY <1>4, <3>3, <3>5, <4>1
    <3> QED
      BY <1>2, <1>3, <3>2, <3>5, <3>6
  <2> QED
    BY <1>1, <1>4, <2>1, <2>2 DEF AnsweredInv
<1> QED
  BY <1>1, <1>6, <1>7, <1>8 DEF Prompt

PromptInv == lost \in Nat /\ (lost = 0 /\ Short => Prompt)

LEMMA InitPrompt == Init => PromptInv
<1> SUFFICES ASSUME Init
             PROVE  lost \in Nat /\ Prompt
  BY DEF PromptInv
<1>1. /\ clock = 0 /\ timer_map = Normal(<<>>, 0) /\ packet_map = <<>> /\ free = 0
      /\ sent_so_far = 0 /\ lastest_ack_rec = 0 /\ packet_expected = 1
      /\ order_packet_map = {} /\ lost = 0 /\ resent = 0
  BY DEF Init
<1>2. ToSet(timer_map) = {Event(0, "normal", 0, 0)} /\ ToSet(packet_map) = {}
  <2>1. <<>> \in Seq(Timers) /\ Sorted(<<>>) /\ ToSet(<<>>) = {} /\ 0 \in Int
    BY DEF Sorted, ToSet
  <2> QED
    BY <1>1, <2>1, NormalPuts
<1>3. \A d \in ToSet(timer_map) : d.kind = "normal"
  BY <1>2 DEF Event
<1>4. InOrderInv
  <2>1. 1 .. 0 = {} /\ Len(<<>>) = 0
    OBVIOUS
  <2> QED
    BY <1>1, <1>2, <2>1 DEF InOrderInv, InTurn
<1>5. QueueInv
  <2>1. path.length \in Nat
    BY InitTyped, Ways
  <2>2. 0 * path.length = 0
    BY <2>1
  <2> QED
    BY <1>1, <1>2, <2>2 DEF QueueInv
<1>6. AnsweredInv
  BY <1>1, <1>3 DEF AnsweredInv
<1> QED
  BY <1>1, <1>4, <1>5, <1>6 DEF Prompt

LEMMA NextPrompt ==
    ASSUME TypeInv, SampleInv, TimeInv, CoverInv, TypeInv', TimeInv', NoOverflow',
           PromptInv, [Next]_vars
    PROVE  PromptInv'
<1>1. CASE UNCHANGED vars
  BY <1>1 DEF vars, source, destination, PromptInv, Short, ShortestTrip, Prompt, InOrderInv,
     QueueInv, AnsweredInv, Answers, InTurn, DataEvents, Timers
<1>2. CASE Next
  <2>1. Steady
    BY <1>2, StepSteady
  <2>2. lost \in Nat /\ lost' \in Nat /\ lost <= lost'
    BY <1>2, LossStays DEF PromptInv
  <2>3. Short' <=> Short
    BY <2>1 DEF Short, Steady
  <2>4. SUFFICES ASSUME lost' = 0, Short
                 PROVE  Prompt'
    BY <2>2, <2>3 DEF PromptInv
  <2>5. lost = 0
    BY <2>2, <2>4
  <2>6. Prompt /\ Covered
    BY <2>4, <2>5 DEF PromptInv, CoverInv, Short
  <2>7. CASE \E e : SendBurst(e)
    BY <2>1, <2>4, <2>5, <2>6, <2>7, BurstPrompt
  <2>8. CASE \E e : SendNothing(e)
    BY <2>1, <2>6, <2>8, NothingPrompt
  <2>9. CASE \E e : Resend(e)
    BY <2>1, <2>4, <2>5, <2>6, <2>9, ResendPrompt
  <2>10. CASE \E e : DataInOrder(e)
    BY <2>1, <2>4, <2>5, <2>6, <2>10, DataPrompt
  <2>11. CASE \E e : DataAhead(e) \/ DataRepeated(e)
    <3>1. PICK e : Arrives(e) /\ e.kind = "DATA"
                   /\ (e.id > packet_expected \/ e.id < packet_expected)
      BY <2>11 DEF DataAhead, DataRepeated
    <3>2. e.id = packet_expected /\ packet_expected \in Nat
      BY <2>6, <3>1, DataIsExpected DEF TypeInv
    <3> QED
      BY <3>1, <3>2
  <2>12. CASE \E e : Ack(e)
    BY <2>1, <2>6, <2>12, AckPrompt
  <2> QED
    BY <1>2, <2>7, <2>8, <2>9, <2>10, <2>11, <2>12 DEF Next
<1> QED
  BY <1>1, <1>2

(* As long as the times of the timers stay within an int: without a loss,  *)
(* with ACKs that are back before they are sent again, and a file that is  *)
(* short enough to queue up within the least wait, no timer of a DATA      *)
(* packet fires.                                                           *)
THEOREM NeverNeedlessResend == Spec /\ []NoOverflow => []NoNeedlessResend
<1>1. /\ TypeInv /\ SampleInv /\ TimeInv /\ CoverInv /\ TypeInv' /\ TimeInv' /\ NoOverflow'
      /\ PromptInv /\ [Next]_vars
      => PromptInv'
  BY NextPrompt
<1>2. PromptInv => NoNeedlessResend
  BY DEF PromptInv, Prompt, Short, NoNeedlessResend
<1> QED
  BY InitPrompt, AlwaysTyped, AlwaysInTime, AlwaysCovered, <1>1, <1>2, PTL DEF Spec
=============================================================================
