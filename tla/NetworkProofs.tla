---------------------------- MODULE NetworkProofs ----------------------------
(***************************************************************************)
(* Proofs about Network: its types, the rules of the links, the order of   *)
(* virtual time and the windows the hosts receive, for every network and   *)
(* everything the hosts may send.  About CbrApp: every run of the          *)
(* application is a run of Network, whose invariants it inherits, and the  *)
(* timers keep the rate.  And that Network implements Channels, by way of  *)
(* the routes, of what each link holds, and of what that makes together    *)
(* along a route.  The same routes and links at last give the times at     *)
(* which the packets of an undisturbed CbrSender arrive.                   *)
(***************************************************************************)
EXTENDS CbrApp, EventMapProofs

-----------------------------------------------------------------------------
(* The inductive invariant                                                 *)

Events == [time : Nat, link : Links, packet : Packet, trans : BOOLEAN]

\* A link has at most one completion scheduled.
AtMostOne(map) ==
    \A i, j \in 1 .. Len(map) :
        map[i].trans /\ map[j].trans /\ map[i].link = map[j].link => i = j

\* The links with a completion scheduled.
Completing(map) == {l \in Links : \E i \in 1 .. Len(map) : map[i].trans /\ map[i].link = l}

\* The events map holds at time now, while the links in busy are in use.
EventsOK(map, now, busy) ==
    /\ map \in Seq(Events)
    /\ now \in Nat /\ \A i \in 1 .. Len(map) : now <= map[i].time
    /\ Sorted(map)
    /\ AtMostOne(map)
    /\ Completing(map) = busy

\* No queue waits at an idle link or outgrows its node.
QueuesOK(queue, busy) ==
    /\ queue \in [Links -> Seq(Packet)]
    /\ \A l \in Links : queue[l] # <<>> => l \in busy
    /\ \A l \in Links : Len(queue[l]) <= Capacity[l[1]]

IInv ==
    /\ EventsOK(packet_map, clock, pending_send)
    /\ QueuesOK(packet_queue, pending_send)
    /\ source_holder \in [{l \in Links : l[1] \in Routers} -> SUBSET Hosts]
    /\ unsent \subseteq Packets

-----------------------------------------------------------------------------
(* The multimap of events                                                  *)

(* A new event leaves the events in order; a completion is for a link that *)
(* has none.                                                               *)
LEMMA ScheduleOK ==
    ASSUME NEW map, NEW now, NEW busy, EventsOK(map, now, busy),
           NEW e \in Events, now <= e.time, e.trans => e.link \notin busy
    PROVE  EventsOK(Schedule(map, e), now, IF e.trans THEN busy \cup {e.link} ELSE busy)
<1> DEFINE s == Schedule(map, e)
<1>1. /\ map \in Seq(Events) /\ Sorted(map) /\ now \in Nat /\ Len(map) \in Nat
      /\ \A i \in 1 .. Len(map) : map[i] \in Events /\ now <= map[i].time
  BY DEF EventsOK
<1>0. \A r \in Events : r.time \in Int
  BY DEF Events
<1>2. PICK k \in 1 .. Len(map) + 1 :
        /\ s \in Seq(Events) /\ Len(s) = Len(map) + 1
        /\ \A i \in 1 .. Len(map) + 1 :
             s[i] = IF i < k THEN map[i] ELSE IF i = k THEN e ELSE map[i - 1]
        /\ \A i \in 1 .. Len(map) : IF i < k THEN map[i].time <= e.time
                                             ELSE map[i].time > e.time
  BY <1>0, <1>1, ScheduleShape
<1> HIDE DEF s
<1>3. \A i \in 1 .. Len(s) : now <= s[i].time
  <2> TAKE i \in 1 .. Len(s)
  <2>1. CASE i < k
    BY <2>1, <1>1, <1>2
  <2>2. CASE i = k
    BY <2>2, <1>1, <1>2
  <2>3. CASE i > k
    <3>1. i - 1 \in 1 .. Len(map) /\ s[i] = map[i - 1]
      BY <2>3, <1>1, <1>2
    <3> QED
      BY <3>1, <1>1
  <2> QED
    BY <2>1, <2>2, <2>3, <1>2, <1>1
<1>4. Sorted(s)
  BY <1>0, <1>1, ScheduleSorted DEF s
<1>5. AtMostOne(s)
  <2> SUFFICES ASSUME NEW i \in 1 .. Len(s), NEW j \in 1 .. Len(s),
                      s[i].trans, s[j].trans, s[i].link = s[j].link
               PROVE  i = j
    BY DEF AtMostOne
  <2> DEFINE from(n) == IF n < k THEN n ELSE n - 1
  <2>1. \A n \in 1 .. Len(s) : n # k => from(n) \in 1 .. Len(map) /\ s[n] = map[from(n)]
    BY <1>1, <1>2
  <2>2. CASE i # k /\ j # k
    <3>1. from(i) = from(j)
      BY <2>1, <2>2 DEF AtMostOne, EventsOK
    <3> QED
      BY <2>2, <3>1, <1>1, <1>2
  <2>3. ASSUME NEW n \in 1 .. Len(s), n # k, s[n].trans, e.trans
        PROVE  s[n].link # e.link
    <3>1. map[from(n)].trans /\ map[from(n)].link \in Links /\ from(n) \in 1 .. Len(map)
      BY <2>1, <2>3, <1>1 DEF Events
    <3>2. map[from(n)].link \in Completing(map)
      BY <3>1 DEF Completing
    <3> QED
      BY <2>1, <2>3, <3>2 DEF EventsOK
  <2>4. s[k] = e
    BY <1>1, <1>2
  <2> QED
    BY <2>2, <2>3, <2>4
<1>6. Completing(s) = IF e.trans THEN busy \cup {e.link} ELSE busy
  <2>1. \A i \in 1 .. Len(s) : s[i] = e \/ \E j \in 1 .. Len(map) : map[j] = s[i]
    BY <1>1, <1>2
  <2>2. \A j \in 1 .. Len(map) : \E i \in 1 .. Len(s) : s[i] = map[j]
    <3> TAKE j \in 1 .. Len(map)
    <3>1. s[IF j < k THEN j ELSE j + 1] = map[j]
      BY <1>1, <1>2
    <3>2. (IF j < k THEN j ELSE j + 1) \in 1 .. Len(s)
      BY <1>1, <1>2
    <3> QED
      BY <3>1, <3>2
  <2>3. k \in 1 .. Len(s) /\ s[k] = e
    BY <1>1, <1>2
  <2>4. e.link \in Links
    BY DEF Events
  <2>5. Completing(s) = Completing(map) \cup (IF e.trans THEN {e.link} ELSE {})
    BY <2>1, <2>2, <2>3, <2>4 DEF Completing
  <2> QED
    BY <2>5 DEF EventsOK
<1> QED
  BY <1>1, <1>2, <1>3, <1>4, <1>5, <1>6 DEF EventsOK, s

(* A link needs a natural number of time units for a packet.               *)
LEMMA LinkTimes ==
    ASSUME NEW link \in Links, NEW p, p.length \in Nat
    PROVE  /\ TransTime(link, p) \in Nat /\ Latency[link] \in Nat
           /\ LinkDelay(link, p) = Latency[link] + TransTime(link, p)
<1>1. BitTime[link] \in Nat /\ Latency[link] \in Nat
  BY TimesAssumption
<1>2. PICK b \in Nat : b = BitTime[link]
  BY <1>1
<1>3. p.length * b \in Nat
  OBVIOUS
<1> QED
  BY <1>1, <1>2, <1>3 DEF TransTime, LinkDelay

(* A transmission begins on an idle link.                                  *)
LEMMA TransmitOK ==
    ASSUME NEW map, NEW now, NEW busy, EventsOK(map, now, busy),
           NEW link \in Links \ busy, NEW p \in Packet
    PROVE  EventsOK(Transmit(map, now, link, p), now, busy \cup {link})
<1> DEFINE arrival == Event(now + LinkDelay(link, p), link, p, FALSE)
           completion == Event(now + TransTime(link, p), link, p, TRUE)
<1>1. now \in Nat /\ Latency[link] \in Nat /\ TransTime(link, p) \in Nat
      /\ LinkDelay(link, p) = Latency[link] + TransTime(link, p)
  BY LinkTimes DEF EventsOK, Packet
<1>2. /\ arrival \in Events /\ now <= arrival.time /\ ~arrival.trans
      /\ completion \in Events /\ now <= completion.time /\ completion.trans
      /\ completion.link = link
  BY <1>1 DEF Events, Event
<1> HIDE DEF arrival, completion
<1>3. EventsOK(Schedule(map, arrival), now, busy)
  BY <1>2, ScheduleOK
<1>4. EventsOK(Schedule(Schedule(map, arrival), completion), now, busy \cup {link})
  BY <1>2, <1>3, ScheduleOK
<1> QED
  BY <1>4 DEF Transmit, arrival, completion

(* The first event is taken out, at its time.                              *)
LEMMA TakeFirst ==
    ASSUME NEW map, NEW now, NEW busy, EventsOK(map, now, busy), map # <<>>
    PROVE  LET e == Head(map)
           IN  /\ e \in Events /\ now <= e.time
               /\ e.trans => e.link \in busy
               /\ EventsOK(Tail(map), e.time, IF e.trans THEN busy \ {e.link} ELSE busy)
<1> DEFINE e == Head(map)
           t == Tail(map)
<1>1. /\ map \in Seq(Events) /\ Len(map) \in Nat \ {0} /\ e = map[1] /\ 1 \in 1 .. Len(map)
      /\ \A i \in 1 .. Len(map) : map[i] \in Events
  BY DEF EventsOK
<1>2. /\ t \in Seq(Events) /\ Len(t) = Len(map) - 1
      /\ \A i \in 1 .. Len(t) : t[i] = map[i + 1] /\ i + 1 \in 1 .. Len(map)
  BY <1>1
<1> HIDE DEF e, t
<1>3. e \in Events /\ now <= e.time
  BY <1>1 DEF EventsOK
<1>4. e.time \in Nat /\ e.link \in Links /\ e.trans \in BOOLEAN
  BY <1>3 DEF Events
<1>5. \A i \in 1 .. Len(t) : e.time <= t[i].time
  <2> TAKE i \in 1 .. Len(t)
  <2>1. 1 <= i + 1 /\ i + 1 \in 1 .. Len(map)
    BY <1>1, <1>2
  <2> QED
    BY <2>1, <1>1, <1>2 DEF EventsOK, Sorted
<1>6. Sorted(t)
  <2> SUFFICES ASSUME NEW i \in 1 .. Len(t), NEW j \in 1 .. Len(t), i <= j
               PROVE  t[i].time <= t[j].time
    BY DEF Sorted
  <2>1. i + 1 <= j + 1
    BY <1>1, <1>2
  <2> QED
    BY <2>1, <1>2 DEF EventsOK, Sorted
<1>7. AtMostOne(t)
  <2> SUFFICES ASSUME NEW i \in 1 .. Len(t), NEW j \in 1 .. Len(t),
                      t[i].trans, t[j].trans, t[i].link = t[j].link
               PROVE  i = j
    BY DEF AtMostOne
  <2>1. i + 1 = j + 1
    BY <1>2 DEF EventsOK, AtMostOne
  <2> QED
    BY <2>1, <1>1, <1>2
<1>8. e.trans => e.link \in busy
  BY <1>1, <1>4 DEF EventsOK, Completing
<1>9. Completing(t) = IF e.trans THEN busy \ {e.link} ELSE busy
  <2>1. \A i \in 1 .. Len(map) : i = 1 \/ \E j \in 1 .. Len(t) : t[j] = map[i]
    <3> SUFFICES ASSUME NEW i \in 1 .. Len(map), i # 1
                 PROVE  \E j \in 1 .. Len(t) : t[j] = map[i]
      OBVIOUS
    <3>1. i - 1 \in 1 .. Len(t) /\ t[i - 1] = map[i]
      BY <1>1, <1>2
    <3> QED
      BY <3>1
  <2>2. \A j \in 1 .. Len(t) : \E i \in 1 .. Len(map) : i # 1 /\ t[j] = map[i]
    <3> TAKE j \in 1 .. Len(t)
    <3>1. j + 1 # 1
      BY <1>1, <1>2
    <3> QED
      BY <3>1, <1>2
  <2>3. \A i \in 1 .. Len(map) :
          i # 1 /\ map[i].trans /\ e.trans => map[i].link # e.link
    BY <1>1 DEF EventsOK, AtMostOne
  <2>4. ASSUME NEW l \in Links
        PROVE  (\E j \in 1 .. Len(t) : t[j].trans /\ t[j].link = l)
               <=> /\ \E i \in 1 .. Len(map) : map[i].trans /\ map[i].link = l
                   /\ e.trans => l # e.link
    <3>1. ASSUME NEW j \in 1 .. Len(t), t[j].trans, t[j].link = l
          PROVE  /\ \E i \in 1 .. Len(map) : map[i].trans /\ map[i].link = l
                 /\ e.trans => l # e.link
      BY <2>2, <2>3, <3>1
    <3>2. ASSUME NEW i \in 1 .. Len(map), map[i].trans, map[i].link = l,
                 e.trans => l # e.link
          PROVE  \E j \in 1 .. Len(t) : t[j].trans /\ t[j].link = l
      <4>1. i # 1
        BY <3>2, <1>1
      <4>2. PICK j \in 1 .. Len(t) : t[j] = map[i]
        BY <2>1, <4>1
      <4> QED
        BY <3>2, <4>2
    <3> QED
      BY <3>1, <3>2
  <2>5. \A l \in Links : l \in Completing(t) <=> l \in Completing(map) /\ (e.trans => l # e.link)
    BY <2>4 DEF Completing
  <2>6. Completing(t) \subseteq Links /\ busy = Completing(map) /\ busy \subseteq Links
    BY DEF EventsOK, Completing
  <2>7. Completing(t) = {l \in busy : e.trans => l # e.link}
    BY <2>5, <2>6
  <2> QED
    BY <2>7
<1> QED
  BY <1>2, <1>3, <1>4, <1>5, <1>6, <1>7, <1>8, <1>9 DEF EventsOK, e, t

(* Time passes up to the first event.                                      *)
LEMMA TimePasses ==
    ASSUME NEW map, NEW now, NEW busy, EventsOK(map, now, busy), NEW t \in Nat,
           map # <<>> => t <= Head(map).time
    PROVE  EventsOK(map, t, busy)
<1>1. /\ map \in Seq(Events) /\ Len(map) \in Nat
      /\ \A i \in 1 .. Len(map) : map[i] \in Events
  BY DEF EventsOK
<1>2. \A i \in 1 .. Len(map) : t <= map[i].time
  <2> TAKE i \in 1 .. Len(map)
  <2>1. map # <<>> /\ Head(map) = map[1] /\ 1 \in 1 .. Len(map) /\ 1 <= i
    BY <1>1
  <2>2. t <= map[1].time /\ map[1].time <= map[i].time
    BY <2>1 DEF EventsOK, Sorted
  <2>3. map[1].time \in Nat /\ map[i].time \in Nat
    BY <2>1, <1>1 DEF Events
  <2> QED
    BY <2>2, <2>3
<1> QED
  BY <1>2 DEF EventsOK

-----------------------------------------------------------------------------
(* Queues                                                                  *)

(* Max and Min of two numbers.                                             *)
LEMMA MaxOfTwo ==
    ASSUME NEW x \in Int, NEW y \in Int
    PROVE  Max({x, y}) = IF x >= y THEN x ELSE y
<1>1. \E z \in {x, y} : \A u \in {x, y} : z >= u
  OBVIOUS
<1> QED
  BY <1>1 DEF Max

LEMMA MinOfTwo ==
    ASSUME NEW x \in Int, NEW y \in Int
    PROVE  Min({x, y}) = IF x <= y THEN x ELSE y
<1>1. \E z \in {x, y} : \A u \in {x, y} : z <= u
  OBVIOUS
<1> QED
  BY <1>1 DEF Min

(* send_it for a link whose queue became q, the other queues being served. *)
LEMMA SendItOK ==
    ASSUME NEW map, NEW now, NEW busy, EventsOK(map, now, busy),
           NEW link \in Links, NEW q \in Seq(Packet), Len(q) <= Capacity[link[1]],
           packet_queue \in [Links -> Seq(Packet)],
           \A l \in Links : Len(packet_queue[l]) <= Capacity[l[1]],
           \A l \in Links \ {link} : packet_queue[l] # <<>> => l \in busy,
           SendIt(now, map, link, q, busy)
    PROVE  EventsOK(packet_map', now, pending_send') /\ QueuesOK(packet_queue', pending_send')
<1>1. CASE link \in busy \/ q = <<>>
  <2>1. /\ packet_map' = map
        /\ packet_queue' = [packet_queue EXCEPT ![link] = q]
        /\ pending_send' = busy
    BY <1>1 DEF SendIt
  <2>2. QueuesOK(packet_queue', pending_send')
    BY <1>1, <2>1 DEF QueuesOK
  <2> QED
    BY <2>1, <2>2
<1>2. CASE ~(link \in busy \/ q = <<>>)
  <2>1. /\ packet_map' = Transmit(map, now, link, Head(q))
        /\ packet_queue' = [packet_queue EXCEPT ![link] = Tail(q)]
        /\ pending_send' = busy \cup {link}
    BY <1>2 DEF SendIt
  <2>2. Head(q) \in Packet /\ Tail(q) \in Seq(Packet) /\ Len(Tail(q)) = Len(q) - 1
    BY <1>2
  <2>3. link[1] \in Nodes
    BY NodesAssumption
  <2>4. Len(Tail(q)) <= Capacity[link[1]]
    BY <2>2, <2>3, TimesAssumption
  <2>5. EventsOK(packet_map', now, pending_send')
    BY <1>2, <2>1, <2>2, TransmitOK
  <2>6. QueuesOK(packet_queue', pending_send')
    BY <2>1, <2>2, <2>4 DEF QueuesOK
  <2> QED
    BY <2>5, <2>6
<1> QED
  BY <1>1, <1>2

(* A packet joins the queue of a link or is deleted.                       *)
LEMMA EnqueueOK ==
    ASSUME NEW map, NEW now, EventsOK(map, now, pending_send),
           QueuesOK(packet_queue, pending_send),
           NEW link \in Links, NEW p \in Packet, Enqueue(now, map, link, p)
    PROVE  EventsOK(packet_map', now, pending_send') /\ QueuesOK(packet_queue', pending_send')
<1>1. /\ packet_queue \in [Links -> Seq(Packet)]
      /\ \A l \in Links : packet_queue[l] # <<>> => l \in pending_send
      /\ \A l \in Links : Len(packet_queue[l]) <= Capacity[l[1]]
  BY DEF QueuesOK
<1>2. CASE Len(packet_queue[link]) < Capacity[link[1]]
  <2> DEFINE q == Append(packet_queue[link], p)
  <2>1. Capacity[link[1]] \in Nat /\ packet_queue[link] \in Seq(Packet)
    BY <1>1, NodesAssumption, TimesAssumption
  <2>2. q \in Seq(Packet) /\ Len(q) <= Capacity[link[1]]
    BY <1>2, <2>1
  <2>3. SendIt(now, map, link, q, pending_send)
    BY <1>2 DEF Enqueue
  <2> QED
    BY <1>1, <2>2, <2>3, SendItOK
<1>3. CASE ~(Len(packet_queue[link]) < Capacity[link[1]])
  BY <1>3 DEF Enqueue
<1> QED
  BY <1>2, <1>3

(* The room that is shared out is no more than the queue has.              *)
LEMMA RoomOK ==
    ASSUME NEW link \in Links
    PROVE  /\ Room(link[1]) \in Nat /\ Room(link[1]) <= Capacity[link[1]]
           /\ Capacity[link[1]] \in Nat
<1>1. PICK size \in Nat : size = Capacity[link[1]]
  BY NodesAssumption, TimesAssumption
<1> QED
  BY <1>1 DEF Room

(* The sources of a queue are hosts, and a mark leaves a packet a packet.  *)
LEMMA MarkOK ==
    ASSUME NEW link \in Links, link[1] \in Routers, NEW p \in Packet,
           source_holder \in [{l \in Links : l[1] \in Routers} -> SUBSET Hosts]
    PROVE  SourcesAfter(link, p) \in SUBSET Hosts /\ Mark(link, p) \in Packet
<1>1. SourcesAfter(link, p) \in SUBSET Hosts
  BY DEF SourcesAfter, Packet
<1> DEFINE n == Cardinality(SourcesAfter(link, p))
           room == Room(link[1])
           count == Max({1, n})
<1>2. n \in Nat
  BY <1>1, NodesAssumption, FS_Subset, FS_CardinalityType
<1> HIDE DEF n
<1>4. room \in Nat
  BY RoomOK
<1>5. count = IF 1 >= n THEN 1 ELSE n
  BY <1>2, MaxOfTwo
<1>6. count \in Nat \ {0}
  BY <1>2, <1>5
<1> HIDE DEF room, count
<1>7. room \div count \in Nat
  BY <1>4, <1>6
<1>8. Share(link, p) = Max({1, room \div count})
  BY DEF Share, room, count, n
<1>9. Share(link, p) = IF 1 >= room \div count THEN 1 ELSE room \div count
  BY <1>7, <1>8, MaxOfTwo
<1>10. Share(link, p) \in Nat /\ Share(link, p) % UShort \in 0 .. UShort - 1
  BY <1>7, <1>9, ShortAssumption
<1>11. p.cwnd \in 0 .. UShort - 1
  BY DEF Packet
<1>12. Min({p.cwnd, Share(link, p)}) \in 0 .. UShort - 1
  <2>1. Min({p.cwnd, Share(link, p)}) =
          IF p.cwnd <= Share(link, p) THEN p.cwnd ELSE Share(link, p)
    BY <1>10, <1>11, MinOfTwo, ShortAssumption
  <2> QED
    BY <1>10, <1>11, <2>1, ShortAssumption
<1>13. Mark(link, p) \in Packet
  BY <1>10, <1>12 DEF Mark, Packet
<1> QED
  BY <1>1, <1>13

-----------------------------------------------------------------------------
(* The actions                                                             *)

LEMMA InitOK == Init => IInv
<1> SUFFICES ASSUME Init
             PROVE  IInv
  OBVIOUS
<1>1. EventsOK(packet_map, clock, pending_send)
  <2>1. packet_map = <<>> /\ packet_map \in Seq(Events) /\ Len(packet_map) = 0
    BY DEF Init
  <2>2. \A i \in 1 .. Len(packet_map) : FALSE
    BY <2>1
  <2>3. clock \in Nat /\ pending_send = {}
    BY DEF Init
  <2> QED
    BY <2>1, <2>2, <2>3 DEF EventsOK, Sorted, AtMostOne, Completing
<1>2. QueuesOK(packet_queue, pending_send)
  <2>1. packet_queue \in [Links -> Seq(Packet)]
    BY DEF Init
  <2>2. \A l \in Links : packet_queue[l] = <<>> /\ Len(packet_queue[l]) = 0
    BY DEF Init
  <2>3. \A l \in Links : Capacity[l[1]] \in Nat
    BY NodesAssumption, TimesAssumption
  <2> QED
    BY <2>1, <2>2, <2>3 DEF QueuesOK
<1>3. source_holder \in [{l \in Links : l[1] \in Routers} -> SUBSET Hosts]
  BY DEF Init
<1> QED
  BY <1>1, <1>2, <1>3 DEF IInv, Init

(* The next hop of a node is over one of its links.                        *)
LEMMA HopIsLink ==
    ASSUME NEW n \in Nodes, NEW d \in Nodes, n # d
    PROVE  <<n, NextHop[<<n, d>>]>> \in Links
BY RoutingAssumption

LEMMA HostSendOK ==
    ASSUME IInv, NEW p \in Packets, NEW t \in 0 .. MaxTime, HostSend(p, t)
    PROVE  IInv' /\ clock' >= clock
<1> DEFINE link == <<p.source, NextHop[<<p.source, p.destination>>]>>
<1>1. p \in Packet /\ p.source \in Nodes /\ p.destination \in Nodes /\ p.source # p.destination
  BY PacketsAssumption DEF Packet, Nodes
<1>2. link \in Links
  BY <1>1, HopIsLink
<1>3. t \in Nat /\ clock <= t /\ clock' = t /\ (packet_map # <<>> => t <= Head(packet_map).time)
  BY TimesAssumption DEF HostSend
<1>4. EventsOK(packet_map, t, pending_send)
  BY <1>3, TimePasses DEF IInv
<1>5. Enqueue(t, packet_map, link, p)
  BY DEF HostSend
<1>6. EventsOK(packet_map', t, pending_send') /\ QueuesOK(packet_queue', pending_send')
  BY <1>1, <1>2, <1>4, <1>5, EnqueueOK DEF IInv
<1>7. source_holder' = source_holder /\ unsent' \subseteq unsent
  BY DEF HostSend
<1>8. clock \in Nat
  BY DEF IInv, EventsOK
<1> QED
  BY <1>3, <1>6, <1>7, <1>8 DEF IInv

(* What every packet event has in common.                                  *)
LEMMA ProcessOK ==
    ASSUME IInv, NEW e, Process(e)
    PROVE  /\ e \in Events /\ clock' = e.time /\ clock' >= clock
           /\ e.trans => e.link \in pending_send
           /\ EventsOK(Tail(packet_map), e.time,
                       IF e.trans THEN pending_send \ {e.link} ELSE pending_send)
           /\ unsent' \subseteq Packets
<1>1. packet_map # <<>> /\ e = Head(packet_map) /\ clock' = e.time /\ unsent' = unsent
  BY DEF Process
<1>2. EventsOK(packet_map, clock, pending_send) /\ unsent \subseteq Packets
  BY DEF IInv
<1>3. /\ e \in Events /\ clock <= e.time
      /\ e.trans => e.link \in pending_send
      /\ EventsOK(Tail(packet_map), e.time,
                  IF e.trans THEN pending_send \ {e.link} ELSE pending_send)
  BY <1>1, <1>2, TakeFirst
<1>4. clock \in Nat /\ e.time \in Nat
  BY <1>2, <1>3 DEF EventsOK, Events
<1> QED
  BY <1>1, <1>2, <1>3, <1>4

LEMMA SendDoneOK ==
    ASSUME IInv, NEW e, SendDone(e)
    PROVE  IInv' /\ clock' >= clock
<1> DEFINE busy == pending_send \ {e.link}
<1>1. Process(e) /\ e.trans
  BY DEF SendDone
<1>2. /\ e \in Events /\ clock' = e.time /\ clock' >= clock
      /\ EventsOK(Tail(packet_map), e.time, busy) /\ unsent' \subseteq Packets
  BY <1>1, ProcessOK
<1>3. e.link \in Links
  BY <1>2 DEF Events
<1>4. /\ packet_queue \in [Links -> Seq(Packet)]
      /\ \A l \in Links : Len(packet_queue[l]) <= Capacity[l[1]]
      /\ \A l \in Links \ {e.link} : packet_queue[l] # <<>> => l \in busy
  BY DEF IInv, QueuesOK
<1>5. packet_queue[e.link] \in Seq(Packet)
  BY <1>3, <1>4
<1>6. SendIt(e.time, Tail(packet_map), e.link, packet_queue[e.link], busy)
  BY DEF SendDone
<1>7. EventsOK(packet_map', e.time, pending_send') /\ QueuesOK(packet_queue', pending_send')
  BY <1>2, <1>3, <1>4, <1>5, <1>6, SendItOK
<1>8. source_holder' = source_holder
  BY DEF SendDone
<1> QED
  BY <1>2, <1>7, <1>8 DEF IInv

LEMMA TakenOK ==
    ASSUME IInv, NEW e, Process(e), ~e.trans, packet_map' = Tail(packet_map),
           UNCHANGED <<packet_queue, pending_send, source_holder>>
    PROVE  IInv' /\ clock' >= clock
<1>1. /\ clock' = e.time /\ clock' >= clock
      /\ EventsOK(Tail(packet_map), e.time, pending_send) /\ unsent' \subseteq Packets
  BY ProcessOK
<1> QED
  BY <1>1 DEF IInv

(* A packet that is not for the node goes on over one of its links.        *)
LEMMA OnwardLink ==
    ASSUME NEW e \in Events, NEW n \in Nodes, e.packet.destination # n
    PROVE  <<n, NextHop[<<n, e.packet.destination>>]>> \in Links
BY HopIsLink DEF Events, Packet

LEMMA RelayOK ==
    ASSUME IInv, NEW n \in Relays, NEW e, Relay(n, e)
    PROVE  IInv' /\ clock' >= clock
<1> DEFINE link == <<n, NextHop[<<n, e.packet.destination>>]>>
<1>1. Process(e) /\ ~e.trans /\ e.packet.destination # n /\ n \in Nodes
  BY DEF Relay, Arrives, Nodes
<1>2. /\ e \in Events /\ clock' = e.time /\ clock' >= clock
      /\ EventsOK(Tail(packet_map), e.time, pending_send) /\ unsent' \subseteq Packets
  BY <1>1, ProcessOK
<1>3. link \in Links /\ e.packet \in Packet
  BY <1>1, <1>2, OnwardLink DEF Events
<1>4. Enqueue(e.time, Tail(packet_map), link, e.packet) /\ source_holder' = source_holder
  BY DEF Relay
<1>5. EventsOK(packet_map', e.time, pending_send') /\ QueuesOK(packet_queue', pending_send')
  BY <1>2, <1>3, <1>4, EnqueueOK DEF IInv
<1> QED
  BY <1>2, <1>4, <1>5 DEF IInv

LEMMA RouteOK ==
    ASSUME IInv, NEW n \in Routers, NEW e, Route(n, e)
    PROVE  IInv' /\ clock' >= clock
<1> DEFINE link == <<n, NextHop[<<n, e.packet.destination>>]>>
<1>1. Process(e) /\ ~e.trans /\ e.packet.destination # n /\ n \in Nodes
  BY DEF Route, Arrives, Nodes
<1>2. /\ e \in Events /\ clock' = e.time /\ clock' >= clock
      /\ EventsOK(Tail(packet_map), e.time, pending_send) /\ unsent' \subseteq Packets
  BY <1>1, ProcessOK
<1>3. link \in Links /\ e.packet \in Packet /\ link[1] \in Routers
  BY <1>1, <1>2, OnwardLink DEF Events
<1>4. /\ Enqueue(e.time, Tail(packet_map), link, Mark(link, e.packet))
      /\ source_holder' = [source_holder EXCEPT ![link] = SourcesAfter(link, e.packet)]
  BY DEF Route
<1>5. SourcesAfter(link, e.packet) \in SUBSET Hosts /\ Mark(link, e.packet) \in Packet
  BY <1>3, MarkOK DEF IInv
<1> HIDE DEF link
<1>6. EventsOK(packet_map', e.time, pending_send') /\ QueuesOK(packet_queue', pending_send')
  BY <1>2, <1>3, <1>4, <1>5, EnqueueOK DEF IInv
<1>7. source_holder' \in [{l \in Links : l[1] \in Routers} -> SUBSET Hosts]
  BY <1>4, <1>5 DEF IInv
<1> QED
  BY <1>2, <1>6, <1>7 DEF IInv

(* Every step keeps the invariant, and time does not run backwards.        *)
LEMMA NextOK ==
    ASSUME IInv, [Next]_vars
    PROVE  IInv' /\ clock' >= clock
<1>1. ASSUME NEW p \in Packets, NEW t \in 0 .. MaxTime, HostSend(p, t)
      PROVE  IInv' /\ clock' >= clock
  BY <1>1, HostSendOK
<1>2. ASSUME NEW e, SendDone(e)
      PROVE  IInv' /\ clock' >= clock
  BY <1>2, SendDoneOK
<1>3. ASSUME NEW h \in Hosts, NEW e, HostReceive(h, e)
      PROVE  IInv' /\ clock' >= clock
  BY <1>3, TakenOK DEF HostReceive, Arrives
<1>4. ASSUME NEW n \in Routers \cup Relays, NEW e, Discard(n, e)
      PROVE  IInv' /\ clock' >= clock
  BY <1>4, TakenOK DEF Discard, Arrives
<1>5. ASSUME NEW n \in Relays, NEW e, Relay(n, e)
      PROVE  IInv' /\ clock' >= clock
  BY <1>5, RelayOK
<1>6. ASSUME NEW n \in Routers, NEW e, Route(n, e)
      PROVE  IInv' /\ clock' >= clock
  BY <1>6, RouteOK
<1>7. CASE UNCHANGED vars
  <2>1. clock' = clock /\ clock \in Nat
    BY <1>7 DEF vars, IInv, EventsOK
  <2>2. IInv'
    BY <1>7 DEF vars, IInv
  <2> QED
    BY <2>1, <2>2
<1> QED
  BY <1>1, <1>2, <1>3, <1>4, <1>5, <1>6, <1>7 DEF Next, ProcessPacket

LEMMA Inductive == Spec => []IInv
<1>1. IInv /\ [Next]_vars => IInv'
  BY NextOK
<1> QED
  BY InitOK, <1>1, PTL DEF Spec

-----------------------------------------------------------------------------
(* Results                                                                 *)

(* The events, queues, sets of sources and the clock hold values of their  *)
(* types (PacketScheduler, FIFONode, dtpRouter), in every network.         *)
THEOREM NetworkTyped == Spec => []TypeOK
<1>1. IInv => TypeOK
  <2> SUFFICES ASSUME IInv
               PROVE  TypeOK
    OBVIOUS
  <2>1. packet_map \in Seq([time : Nat, link : Links, packet : Packet, trans : BOOLEAN])
    BY DEF IInv, EventsOK, Events
  <2>2. pending_send \subseteq Links
    BY DEF IInv, EventsOK, Completing
  <2> QED
    BY <2>1, <2>2 DEF IInv, EventsOK, QueuesOK, TypeOK
<1> QED
  BY Inductive, <1>1, PTL

(* send_it and send_done, in every network: a link is in use exactly while *)
(* one completion is scheduled for it, and no queue waits at an idle link  *)
(* or outgrows its node.                                                   *)
THEOREM LinksAlwaysWork == Spec => []LinksWork
<1>1. IInv => LinksWork
  <2> SUFFICES ASSUME IInv, NEW l \in Links
               PROVE  /\ Cardinality(Completions(l)) = IF l \in pending_send THEN 1 ELSE 0
                      /\ packet_queue[l] # <<>> => l \in pending_send
                      /\ Len(packet_queue[l]) <= Capacity[l[1]]
    BY DEF LinksWork
  <2>1. DOMAIN packet_map = 1 .. Len(packet_map)
    BY DEF IInv, EventsOK
  <2>2. \A i, j \in Completions(l) : i = j
    BY <2>1 DEF Completions, IInv, EventsOK, AtMostOne
  <2>3. l \in pending_send <=> Completions(l) # {}
    BY <2>1 DEF Completions, IInv, EventsOK, Completing
  <2>4. CASE l \in pending_send
    <3>1. PICK i : i \in Completions(l)
      BY <2>3, <2>4
    <3>2. Completions(l) = {i}
      BY <2>2, <3>1
    <3> QED
      BY <2>4, <3>2, FS_Singleton DEF IInv, QueuesOK
  <2>5. CASE l \notin pending_send
    BY <2>3, <2>5, FS_EmptySet DEF IInv, QueuesOK
  <2> QED
    BY <2>4, <2>5
<1> QED
  BY Inductive, <1>1, PTL

(* Scheduler::set_clock, in every network: it takes the time of the first  *)
(* event, and no event was ever scheduled in the past.                     *)
THEOREM TimeGoesOn == Spec => ClockGoesOn
<1>1. IInv /\ [Next]_vars => [clock' >= clock]_vars
  BY NextOK
<1> QED
  BY Inductive, <1>1, PTL DEF Spec, ClockGoesOn

-----------------------------------------------------------------------------
(* The windows                                                             *)

Largest == Max({1} \cup {Capacity[n] : n \in Routers})

Fit(p) == p.cwnd \in 1 .. Largest

\* A packet on link l has a window that fits, or is on its way to a router.
Good(Access, l, p) ==
    /\ p.source # p.destination
    /\ Fit(p) \/ l[2] \in (Access[p.source] \ Hosts) \cup Routers

GoodPackets(Access, l) == {p \in Packet : Good(Access, l, p)}
GoodEvents(Access) == {e \in Events : Good(Access, e.link, e.packet)}

WInv(Access) ==
    /\ packet_map \in Seq(GoodEvents(Access))
    /\ \A l \in Links : packet_queue[l] \in Seq(GoodPackets(Access, l))
    /\ received \in [Hosts \X Hosts -> Seq({p \in Packet : Fit(p)})]

-----------------------------------------------------------------------------
(* The share of a source                                                   *)

(* A finite nonempty set of nodes has one of the greatest capacity.        *)
LEMMA GreatestCapacity ==
    ASSUME NEW S \in SUBSET Nodes, IsFiniteSet(S), S # {}
    PROVE  \E n \in S : \A k \in S : Capacity[k] <= Capacity[n]
<1> DEFINE Topped(T) == \E n \in T : \A k \in T : Capacity[k] <= Capacity[n]
           Bad == {T \in SUBSET S : T # {} /\ ~Topped(T)}
           Sizes == {Cardinality(T) : T \in Bad}
<1>1. \A T \in SUBSET S : IsFiniteSet(T) /\ Cardinality(T) \in Nat
  BY FS_Subset, FS_CardinalityType
<1>2. \A n \in S : Capacity[n] \in Nat
  BY TimesAssumption
<1>3. ASSUME Bad # {}
      PROVE  FALSE
  <2>1. Sizes \in SUBSET Nat /\ Sizes # {}
    BY <1>1, <1>3
  <2>2. PICK size \in Sizes : \A n \in Sizes : size <= n
    BY <2>1, LeastNumber
  <2>3. PICK T \in Bad : size = Cardinality(T)
    BY <2>2
  <2>4. PICK x \in T : TRUE
    BY <2>3
  <2> DEFINE U == T \ {x}
  <2>5. Cardinality(U) = Cardinality(T) - 1 /\ U \in SUBSET S
    BY <1>1, <2>3, <2>4, FS_RemoveElement
  <2>6. U \notin Bad
    <3>1. U \in Bad => Cardinality(U) \in Sizes
      OBVIOUS
    <3>2. ~(size <= Cardinality(U))
      BY <1>1, <2>3, <2>5
    <3> QED
      BY <2>2, <3>1, <3>2
  <2>7. CASE U = {}
    <3>1. T = {x}
      BY <2>4, <2>7
    <3>2. Topped(T)
      BY <1>2, <2>3, <3>1
    <3> QED
      BY <2>3, <3>2
  <2>8. CASE U # {}
    <3>1. PICK y \in U : \A k \in U : Capacity[k] <= Capacity[y]
      BY <2>5, <2>6, <2>8
    <3>2. \A k \in T : k = x \/ k \in U
      OBVIOUS
    <3>3. x \in S /\ y \in S /\ U \subseteq S /\ y \in T
      BY <2>3, <2>4, <3>1
    <3>4. Capacity[x] <= Capacity[y] => \A k \in T : Capacity[k] <= Capacity[y]
      BY <3>1, <3>2
    <3>5. ~(Capacity[x] <= Capacity[y]) => \A k \in T : Capacity[k] <= Capacity[x]
      BY <1>2, <3>1, <3>2, <3>3
    <3>6. Topped(T)
      BY <2>4, <3>3, <3>4, <3>5
    <3> QED
      BY <2>3, <3>6
  <2> QED
    BY <2>7, <2>8
<1> QED
  BY <1>3

(* The largest window is no smaller than any router's queue.               *)
LEMMA LargestOK ==
    ASSUME IsFiniteSet(Routers)
    PROVE  /\ Largest \in Nat \ {0}
           /\ \A n \in Routers : Capacity[n] <= Largest
<1> DEFINE S == {1} \cup {Capacity[n] : n \in Routers}
<1>1. Routers \in SUBSET Nodes /\ \A n \in Routers : Capacity[n] \in Nat
  BY TimesAssumption DEF Nodes
<1>2. \E m \in S : \A k \in S : m >= k
  <2>1. CASE Routers = {}
    BY <2>1
  <2>2. CASE Routers # {}
    <3>1. PICK n \in Routers : \A k \in Routers : Capacity[k] <= Capacity[n]
      BY <1>1, <2>2, GreatestCapacity
    <3>2. CASE Capacity[n] >= 1
      <4>1. \A k \in S : Capacity[n] >= k
        BY <1>1, <3>1, <3>2
      <4> QED
        BY <4>1
    <3>3. CASE ~(Capacity[n] >= 1)
      <4>1. \A k \in S : 1 >= k
        BY <1>1, <3>1, <3>3
      <4> QED
        BY <4>1
    <3> QED
      BY <3>2, <3>3
  <2> QED
    BY <2>1, <2>2
<1>3. Largest \in S /\ \A k \in S : Largest >= k
  <2> DEFINE M == CHOOSE m \in S : \A k \in S : m >= k
  <2>1. Largest = M
    BY DEF Largest, Max
  <2> HIDE DEF S
  <2>2. M \in S /\ \A k \in S : M >= k
    BY <1>2
  <2> QED
    BY <2>1, <2>2
<1>4. 1 \in S /\ \A n \in Routers : Capacity[n] \in S
  OBVIOUS
<1>5. S \subseteq Nat
  BY <1>1
<1> HIDE DEF S
<1> QED
  BY <1>3, <1>4, <1>5, <1>1

(* A division by a positive number makes nothing greater.                  *)
LEMMA QuotientSmaller ==
    ASSUME NEW x \in Nat, NEW y \in Nat \ {0}
    PROVE  x \div y \in Nat /\ x \div y <= x
OBVIOUS

(* What a router with a room that fits marks fits.                         *)
LEMMA MarkFits ==
    ASSUME IsFiniteSet(Routers), RoomFits,
           NEW link \in Links, link[1] \in Routers, NEW p \in Packet,
           source_holder \in [{l \in Links : l[1] \in Routers} -> SUBSET Hosts]
    PROVE  Fit(Mark(link, p)) /\ Mark(link, p).source = p.source
             /\ Mark(link, p).destination = p.destination
<1>1. SourcesAfter(link, p) \in SUBSET Hosts
  BY MarkOK
<1> DEFINE n == Cardinality(SourcesAfter(link, p))
           size == Capacity[link[1]]
           room == Room(link[1])
           count == Max({1, n})
           share == room \div count
<1>2. n \in Nat
  BY <1>1, NodesAssumption, FS_Subset, FS_CardinalityType
<1>3. size \in Nat /\ size <= Largest /\ Largest \in Nat \ {0}
  BY NodesAssumption, TimesAssumption, LargestOK
<1>4. room \in Nat /\ room <= size /\ room < UShort /\ UShort \in Nat /\ UShort > 1
  BY RoomOK, ShortAssumption DEF RoomFits
<1> HIDE DEF n, size
<1>5. count \in Nat \ {0}
  <2>1. count = IF 1 >= n THEN 1 ELSE n
    BY <1>2, MaxOfTwo
  <2> QED
    BY <1>2, <2>1
<1> HIDE DEF room, count
<1>6. share \in Nat /\ share <= room
  BY <1>4, <1>5, QuotientSmaller
<1>7. Share(link, p) = Max({1, share})
  BY DEF Share, share, room, count, n
<1> HIDE DEF share
<1>8. Share(link, p) = IF 1 >= share THEN 1 ELSE share
  BY <1>6, <1>7, MaxOfTwo
<1>9. Share(link, p) \in 1 .. Largest /\ Share(link, p) < UShort
  BY <1>3, <1>4, <1>6, <1>8
<1>10. Share(link, p) % UShort = Share(link, p)
  BY <1>3, <1>4, <1>9
<1>11. p.cwnd \in Nat
  BY <1>4 DEF Packet
<1>12. p.cwnd # 0 => Min({p.cwnd, Share(link, p)}) \in 1 .. Largest
  <2>1. Min({p.cwnd, Share(link, p)}) =
          IF p.cwnd <= Share(link, p) THEN p.cwnd ELSE Share(link, p)
    BY <1>9, <1>11, MinOfTwo
  <2> QED
    BY <1>3, <1>9, <1>11, <2>1
<1>13. Mark(link, p).cwnd \in 1 .. Largest
  BY <1>9, <1>10, <1>12 DEF Mark, Packet
<1> QED
  BY <1>13 DEF Mark, Fit, Packet

-----------------------------------------------------------------------------
(* Queues                                                                  *)

(* The events of a transmission carry its packet over its link.            *)
LEMMA TransmitGood ==
    ASSUME NEW Access, NEW map \in Seq(GoodEvents(Access)), Sorted(map), NEW now \in Nat,
           NEW link \in Links, NEW p \in GoodPackets(Access, link)
    PROVE  Transmit(map, now, link, p) \in Seq(GoodEvents(Access))
<1> DEFINE arrival == Event(now + LinkDelay(link, p), link, p, FALSE)
           completion == Event(now + TransTime(link, p), link, p, TRUE)
<1>1. p \in Packet /\ Good(Access, link, p) /\ Latency[link] \in Nat /\ TransTime(link, p) \in Nat
      /\ LinkDelay(link, p) = Latency[link] + TransTime(link, p)
  BY LinkTimes DEF GoodPackets, Packet
<1>2. arrival \in GoodEvents(Access) /\ completion \in GoodEvents(Access)
  BY <1>1 DEF GoodEvents, Events, Event
<1>3. \A e \in GoodEvents(Access) : e.time \in Int
  BY DEF GoodEvents, Events
<1> HIDE DEF arrival, completion
<1>4. Schedule(map, arrival) \in Seq(GoodEvents(Access)) /\ Sorted(Schedule(map, arrival))
  BY <1>2, <1>3, ScheduleShape, ScheduleSorted
<1>5. Schedule(Schedule(map, arrival), completion) \in Seq(GoodEvents(Access))
  BY <1>2, <1>3, <1>4, ScheduleShape
<1> QED
  BY <1>5 DEF Transmit, arrival, completion

LEMMA SendItGood ==
    ASSUME NEW Access, NEW map \in Seq(GoodEvents(Access)), Sorted(map), NEW now \in Nat,
           NEW busy, NEW link \in Links, NEW q \in Seq(GoodPackets(Access, link)),
           packet_queue \in [Links -> Seq(Packet)],
           \A l \in Links : packet_queue[l] \in Seq(GoodPackets(Access, l)),
           SendIt(now, map, link, q, busy)
    PROVE  /\ packet_map' \in Seq(GoodEvents(Access))
           /\ \A l \in Links : packet_queue'[l] \in Seq(GoodPackets(Access, l))
<1>1. CASE link \in busy \/ q = <<>>
  BY <1>1 DEF SendIt
<1>2. CASE ~(link \in busy \/ q = <<>>)
  <2>1. Head(q) \in GoodPackets(Access, link) /\ Tail(q) \in Seq(GoodPackets(Access, link))
    BY <1>2
  <2>2. /\ packet_map' = Transmit(map, now, link, Head(q))
        /\ packet_queue' = [packet_queue EXCEPT ![link] = Tail(q)]
    BY <1>2 DEF SendIt
  <2> QED
    BY <2>1, <2>2, TransmitGood
<1> QED
  BY <1>1, <1>2

LEMMA EnqueueGood ==
    ASSUME NEW Access, NEW map \in Seq(GoodEvents(Access)), Sorted(map), NEW now \in Nat,
           NEW link \in Links, NEW p \in GoodPackets(Access, link),
           packet_queue \in [Links -> Seq(Packet)],
           \A l \in Links : packet_queue[l] \in Seq(GoodPackets(Access, l)),
           Enqueue(now, map, link, p)
    PROVE  /\ packet_map' \in Seq(GoodEvents(Access))
           /\ \A l \in Links : packet_queue'[l] \in Seq(GoodPackets(Access, l))
<1>1. CASE Len(packet_queue[link]) < Capacity[link[1]]
  <2>1. Append(packet_queue[link], p) \in Seq(GoodPackets(Access, link))
    OBVIOUS
  <2>2. SendIt(now, map, link, Append(packet_queue[link], p), pending_send)
    BY <1>1 DEF Enqueue
  <2> QED
    BY <2>1, <2>2, SendItGood
<1>2. CASE ~(Len(packet_queue[link]) < Capacity[link[1]])
  BY <1>2 DEF Enqueue
<1> QED
  BY <1>1, <1>2

-----------------------------------------------------------------------------
(* The actions                                                             *)

(* From a node before the routers a packet goes on to one, or to a router. *)
LEMMA OnwardGood ==
    ASSUME NEW Access, RoutersBetween(Access), NEW p \in Packet, p.source # p.destination,
           NEW n \in Nodes, n # p.destination, Fit(p) \/ n \in Access[p.source]
    PROVE  p \in GoodPackets(Access, <<n, NextHop[<<n, p.destination>>]>>)
<1> DEFINE s == p.source
           d == p.destination
           hop == NextHop[<<n, d>>]
<1>1. s \in Hosts /\ d \in Nodes \ {s, n}
  BY DEF Packet
<1>2. CASE Fit(p)
  BY <1>2 DEF GoodPackets, Good
<1>3. CASE n \in Access[s]
  <2>1. hop \in Access[s] \cup Routers /\ Access[s] \cap Hosts = {s}
    BY <1>1, <1>3 DEF RoutersBetween
  <2>2. hop \in Hosts => hop = d
    BY <1>1, RoutingAssumption
  <2>3. hop \in (Access[s] \ Hosts) \cup Routers
    BY <1>1, <2>1, <2>2
  <2> QED
    BY <2>3 DEF GoodPackets, Good
<1> QED
  BY <1>2, <1>3

LEMMA HostSendGood ==
    ASSUME NEW Access, RoutersBetween(Access), IInv, WInv(Access),
           NEW p \in Packets, NEW t \in 0 .. MaxTime, HostSend(p, t)
    PROVE  WInv(Access)'
<1> DEFINE link == <<p.source, NextHop[<<p.source, p.destination>>]>>
<1>1. p \in Packet /\ p.source \in Hosts /\ p.source \in Nodes /\ p.destination \in Nodes
        /\ p.source # p.destination
  BY PacketsAssumption DEF Packet, Nodes
<1>2. p.source \in Access[p.source]
  BY <1>1 DEF RoutersBetween
<1>3. link \in Links /\ p \in GoodPackets(Access, link)
  BY <1>1, <1>2, HopIsLink, OnwardGood
<1>4. Enqueue(t, packet_map, link, p) /\ received' = received
  BY DEF HostSend
<1> HIDE DEF link
<1>5. t \in Nat /\ Sorted(packet_map) /\ packet_queue \in [Links -> Seq(Packet)]
  BY TimesAssumption DEF IInv, EventsOK, QueuesOK
<1>6. /\ packet_map' \in Seq(GoodEvents(Access))
      /\ \A l \in Links : packet_queue'[l] \in Seq(GoodPackets(Access, l))
  BY <1>3, <1>4, <1>5, EnqueueGood DEF WInv
<1> QED
  BY <1>4, <1>6 DEF WInv

(* What every packet event has in common.                                  *)
LEMMA ProcessGood ==
    ASSUME NEW Access, IInv, WInv(Access), NEW e, Process(e)
    PROVE  /\ e \in GoodEvents(Access) /\ e \in Events /\ e.time \in Nat /\ e.link \in Links
           /\ e.packet \in Packet /\ Good(Access, e.link, e.packet)
           /\ Tail(packet_map) \in Seq(GoodEvents(Access)) /\ Sorted(Tail(packet_map))
           /\ packet_queue \in [Links -> Seq(Packet)]
<1>1. packet_map # <<>> /\ e = Head(packet_map)
  BY DEF Process
<1>2. packet_map \in Seq(GoodEvents(Access))
  BY DEF WInv
<1>3. e \in GoodEvents(Access) /\ Tail(packet_map) \in Seq(GoodEvents(Access))
  BY <1>1, <1>2
<1>4. Sorted(Tail(packet_map))
  BY ProcessOK DEF EventsOK
<1> QED
  BY <1>3, <1>4 DEF GoodEvents, Events, IInv, QueuesOK

LEMMA SendDoneGood ==
    ASSUME NEW Access, IInv, WInv(Access), NEW e, SendDone(e)
    PROVE  WInv(Access)'
<1>1. Process(e) /\ received' = received
  BY DEF SendDone
<1>2. SendIt(e.time, Tail(packet_map), e.link, packet_queue[e.link], pending_send \ {e.link})
  BY DEF SendDone
<1>3. /\ packet_map' \in Seq(GoodEvents(Access))
      /\ \A l \in Links : packet_queue'[l] \in Seq(GoodPackets(Access, l))
  BY <1>1, <1>2, ProcessGood, SendItGood DEF WInv
<1> QED
  BY <1>1, <1>3 DEF WInv

(* Only packets with a fitting window come to a host.                      *)
LEMMA ReceiveGood ==
    ASSUME NEW Access, RoutersBetween(Access), IInv, WInv(Access),
           NEW h \in Hosts, NEW e, HostReceive(h, e)
    PROVE  WInv(Access)'
<1>1. Process(e) /\ e.link[2] = h /\ packet_map' = Tail(packet_map)
        /\ packet_queue' = packet_queue
  BY DEF HostReceive, Arrives
<1>2. /\ e.packet \in Packet /\ Good(Access, e.link, e.packet)
      /\ packet_map' \in Seq(GoodEvents(Access))
  BY <1>1, ProcessGood
<1>3. e.packet \in {p \in Packet : Fit(p)}
  BY <1>1, <1>2, NodesAssumption DEF Good
<1>4. received' \in [Hosts \X Hosts -> Seq({p \in Packet : Fit(p)})]
  <2>1. <<e.packet.source, h>> \in Hosts \X Hosts
    BY <1>2 DEF Packet
  <2>2. Append(received[<<e.packet.source, h>>], e.packet) \in Seq({p \in Packet : Fit(p)})
    BY <1>3, <2>1 DEF WInv
  <2> QED
    BY <2>1, <2>2 DEF WInv, HostReceive
<1> QED
  BY <1>1, <1>2, <1>4 DEF WInv

LEMMA DiscardGood ==
    ASSUME NEW Access, IInv, WInv(Access), NEW n, NEW e, Discard(n, e)
    PROVE  WInv(Access)'
<1>1. Process(e) /\ packet_map' = Tail(packet_map)
        /\ packet_queue' = packet_queue /\ received' = received
  BY DEF Discard, Arrives
<1>2. packet_map' \in Seq(GoodEvents(Access))
  BY <1>1, ProcessGood
<1> QED
  BY <1>1, <1>2 DEF WInv

LEMMA RelayGood ==
    ASSUME NEW Access, RoutersBetween(Access), IInv, WInv(Access),
           NEW n \in Relays, NEW e, Relay(n, e)
    PROVE  WInv(Access)'
<1> DEFINE link == <<n, NextHop[<<n, e.packet.destination>>]>>
<1>1. Process(e) /\ e.link[2] = n /\ e.packet.destination # n /\ received' = received
        /\ n \in Nodes
  BY DEF Relay, Arrives, Nodes
<1>2. /\ e \in Events /\ e.packet \in Packet /\ Good(Access, e.link, e.packet)
      /\ e.time \in Nat /\ packet_queue \in [Links -> Seq(Packet)]
      /\ Tail(packet_map) \in Seq(GoodEvents(Access)) /\ Sorted(Tail(packet_map))
  BY <1>1, ProcessGood
<1>3. Fit(e.packet) \/ n \in Access[e.packet.source]
  BY <1>1, <1>2, NodesAssumption DEF Good
<1>4. link \in Links /\ e.packet \in GoodPackets(Access, link)
  BY <1>1, <1>2, <1>3, OnwardLink, OnwardGood DEF Good
<1>5. Enqueue(e.time, Tail(packet_map), link, e.packet)
  BY DEF Relay
<1> HIDE DEF link
<1>6. /\ packet_map' \in Seq(GoodEvents(Access))
      /\ \A l \in Links : packet_queue'[l] \in Seq(GoodPackets(Access, l))
  BY <1>2, <1>4, <1>5, EnqueueGood DEF WInv
<1> QED
  BY <1>1, <1>6 DEF WInv

LEMMA RouteGood ==
    ASSUME NEW Access, IInv, WInv(Access), IsFiniteSet(Routers), RoomFits,
           NEW n \in Routers, NEW e, Route(n, e)
    PROVE  WInv(Access)'
<1> DEFINE link == <<n, NextHop[<<n, e.packet.destination>>]>>
           p == Mark(link, e.packet)
<1>1. Process(e) /\ e.packet.destination # n /\ received' = received /\ n \in Nodes
  BY DEF Route, Arrives, Nodes
<1>2. /\ e \in Events /\ e.packet \in Packet /\ Good(Access, e.link, e.packet)
      /\ e.time \in Nat /\ packet_queue \in [Links -> Seq(Packet)]
      /\ Tail(packet_map) \in Seq(GoodEvents(Access)) /\ Sorted(Tail(packet_map))
  BY <1>1, ProcessGood
<1>3. link \in Links /\ link[1] \in Routers
  BY <1>1, <1>2, OnwardLink
<1>4. Enqueue(e.time, Tail(packet_map), link, p)
  BY DEF Route
<1> HIDE DEF link
<1>5. p \in Packet /\ Fit(p) /\ p.source = e.packet.source
        /\ p.destination = e.packet.destination
  BY <1>2, <1>3, MarkOK, MarkFits DEF IInv
<1> HIDE DEF p
<1>6. p \in GoodPackets(Access, link)
  BY <1>2, <1>5 DEF GoodPackets, Good
<1>7. /\ packet_map' \in Seq(GoodEvents(Access))
      /\ \A l \in Links : packet_queue'[l] \in Seq(GoodPackets(Access, l))
  BY <1>2, <1>3, <1>4, <1>6, EnqueueGood DEF WInv
<1> QED
  BY <1>1, <1>7 DEF WInv

LEMMA NextGood ==
    ASSUME NEW Access, RoutersBetween(Access), IsFiniteSet(Routers), RoomFits,
           IInv, WInv(Access), [Next]_vars
    PROVE  WInv(Access)'
<1>1. ASSUME NEW p \in Packets, NEW t \in 0 .. MaxTime, HostSend(p, t)
      PROVE  WInv(Access)'
  BY <1>1, HostSendGood
<1>2. ASSUME NEW e, SendDone(e)
      PROVE  WInv(Access)'
  BY <1>2, SendDoneGood
<1>3. ASSUME NEW h \in Hosts, NEW e, HostReceive(h, e)
      PROVE  WInv(Access)'
  BY <1>3, ReceiveGood
<1>4. ASSUME NEW n, NEW e, Discard(n, e)
      PROVE  WInv(Access)'
  BY <1>4, DiscardGood
<1>5. ASSUME NEW n \in Relays, NEW e, Relay(n, e)
      PROVE  WInv(Access)'
  BY <1>5, RelayGood
<1>6. ASSUME NEW n \in Routers, NEW e, Route(n, e)
      PROVE  WInv(Access)'
  BY <1>6, RouteGood
<1>7. CASE UNCHANGED vars
  BY <1>7 DEF vars, WInv
<1> QED
  BY <1>1, <1>2, <1>3, <1>4, <1>5, <1>6, <1>7 DEF Next, ProcessPacket

-----------------------------------------------------------------------------
(* Result                                                                  *)

(* dtpRouter::receive, in every network with routers between its hosts     *)
(* whose room an unsigned short can hold: whatever the hosts put there, a  *)
(* packet's window is at least one packet at its receiver and no more than *)
(* the largest queue of a router.                                          *)
THEOREM WindowsAlwaysFit ==
    ASSUME NEW CONSTANT Access, RoutersBetween(Access), IsFiniteSet(Routers), RoomFits
    PROVE  Spec => []WindowsFit
<1>1. Init => WInv(Access)
  BY DEF Init, WInv
<1>2. IInv /\ WInv(Access) /\ [Next]_vars => WInv(Access)'
  BY NextGood
<1>3. WInv(Access) => WindowsFit
  <2> SUFFICES ASSUME WInv(Access), NEW c \in Hosts \X Hosts, NEW i \in DOMAIN received[c]
               PROVE  received[c][i].cwnd \in 1 .. Largest
    BY DEF WindowsFit, WInv, Largest
  <2>1. received[c] \in Seq({p \in Packet : Fit(p)})
    BY DEF WInv
  <2>2. received[c][i] \in {p \in Packet : Fit(p)}
    BY <2>1
  <2> QED
    BY <2>2 DEF Fit
<1> QED
  BY Inductive, <1>1, <1>2, <1>3, PTL DEF Spec

-----------------------------------------------------------------------------
(* The invariant of CbrApp                                                  *)

Timers(F) == [time : Nat, flow : F]

\* Timers of the flows F: in order, one of a flow at most.
TimersOK(map, F) ==
    /\ map \in Seq(Timers(F))
    /\ Sorted(map)
    /\ \A i, j \in 1 .. Len(map) : map[i].flow = map[j].flow => i = j

\* The timers are those of the flows that have packets left, at their times.
OnTime(map, sent) ==
    /\ \A i \in 1 .. Len(map) :
          LET f == map[i].flow
          IN  sent[f] < Total(senders[f]) /\ map[i].time = Due(senders[f], sent[f])
    /\ \A f \in Flows : sent[f] < Total(senders[f]) =>
          \E i \in 1 .. Len(map) : map[i].flow = f

NoneBefore(map, now) == \A i \in 1 .. Len(map) : now <= map[i].time

CbrInv ==
    /\ IInv
    /\ senders \in Configs
    /\ sent_so_far \in [Flows -> Nat]
    /\ TimersOK(timer_map, Flows)
    /\ OnTime(timer_map, sent_so_far)
    /\ NoneBefore(timer_map, clock)

-----------------------------------------------------------------------------
(* Configurations and timers                                               *)

(* What a configuration gives a sender.                                    *)
LEMMA SenderTyped ==
    ASSUME NEW C \in Configs, NEW f \in DOMAIN C
    PROVE  /\ C[f].start \in Nat /\ C[f].ip \in Nat /\ C[f].count \in Nat
           /\ Total(C[f]) \in Nat
           /\ Total(C[f]) = IF 1 >= C[f].count THEN 1 ELSE C[f].count
           /\ \A k \in 0 .. Total(C[f]) - 1 :
                 CbrPacket(C[f], k) \in Packets /\ Due(C[f], k) <= MaxTime
<1> DEFINE Sender == [source : Hosts, destination : Hosts, start : Nat,
                      ip : Nat, count : Nat, length : Nat \ {0}]
<1>1. C \in Seq(Sender)
  BY ConfigsAssumption
<1>2. C[f] \in Sender
  <2> HIDE DEF Sender
  <2> QED
    BY <1>1
<1>3. Total(C[f]) = IF 1 >= C[f].count THEN 1 ELSE C[f].count
  BY <1>2, MaxOfTwo DEF Total
<1>4. \A k \in 0 .. Total(C[f]) - 1 :
         CbrPacket(C[f], k) \in Packets /\ Due(C[f], k) <= MaxTime
  BY ConfigsAssumption
<1> QED
  BY <1>2, <1>3, <1>4

(* A sender's next packet is due one inter-packet time after the last.     *)
LEMMA DueNext ==
    ASSUME NEW C \in Configs, NEW f \in DOMAIN C, NEW k \in Nat
    PROVE  Due(C[f], k) \in Nat /\ Due(C[f], k + 1) = Due(C[f], k) + C[f].ip
<1>1. PICK s \in Nat, d \in Nat : s = C[f].start /\ d = C[f].ip
  BY SenderTyped
<1>2. (k + 1) * d = k * d + d /\ k * d \in Nat
  OBVIOUS
<1>3. s + (k + 1) * d = (s + k * d) + d /\ s + k * d \in Nat
  BY <1>2
<1> QED
  BY <1>1, <1>3 DEF Due

(* A timer of a flow that has none joins the others.                       *)
LEMMA SetTimerOK ==
    ASSUME NEW F, NEW map, TimersOK(map, F), NEW f \in F, NEW t \in Nat,
           \A i \in 1 .. Len(map) : map[i].flow # f
    PROVE  /\ TimersOK(SetTimer(map, f, t), F)
           /\ \A i \in 1 .. Len(SetTimer(map, f, t)) :
                 \/ SetTimer(map, f, t)[i] = [time |-> t, flow |-> f]
                 \/ \E j \in 1 .. Len(map) : SetTimer(map, f, t)[i] = map[j]
           /\ \E i \in 1 .. Len(SetTimer(map, f, t)) :
                 SetTimer(map, f, t)[i] = [time |-> t, flow |-> f]
<1> DEFINE R == Timers(F)
           e == [time |-> t, flow |-> f]
           m == Schedule(map, e)
<1>1. /\ \A r \in R : r.time \in Int
      /\ map \in Seq(R) /\ Sorted(map) /\ e \in R /\ e.flow = f
      /\ Len(map) \in Nat
  BY DEF TimersOK, Timers
<1> HIDE DEF R, e
<1>2. Sorted(m)
  BY <1>1, ScheduleSorted
<1>3. PICK k \in 1 .. Len(map) + 1 :
        /\ m \in Seq(R) /\ Len(m) = Len(map) + 1
        /\ \A i \in 1 .. Len(map) + 1 :
             m[i] = IF i < k THEN map[i] ELSE IF i = k THEN e ELSE map[i - 1]
  <2>1. \E k \in 1 .. Len(map) + 1 :
          /\ Schedule(map, e) \in Seq(R)
          /\ Len(Schedule(map, e)) = Len(map) + 1
          /\ \A i \in 1 .. Len(map) + 1 :
               Schedule(map, e)[i] = IF i < k THEN map[i]
                                     ELSE IF i = k THEN e ELSE map[i - 1]
          /\ \A i \in 1 .. Len(map) : IF i < k THEN map[i].time <= e.time
                                               ELSE map[i].time > e.time
    BY <1>1, ScheduleShape, Zenon
  <2> QED
    BY <2>1, Zenon
<1> HIDE DEF m
<1> DEFINE from(n) == IF n < k THEN n ELSE n - 1
<1>4. \A n \in 1 .. Len(m) : n # k => from(n) \in 1 .. Len(map) /\ m[n] = map[from(n)]
  BY <1>1, <1>3
<1>5. k \in 1 .. Len(m) /\ m[k] = e
  BY <1>1, <1>3
<1>7. ASSUME NEW i \in 1 .. Len(m), NEW j \in 1 .. Len(m), m[i].flow = m[j].flow
      PROVE  i = j
  <2>1. CASE i # k /\ j # k
    <3>1. from(i) = from(j)
      BY <1>4, <1>7, <2>1 DEF TimersOK
    <3> QED
      BY <2>1, <3>1, <1>1, <1>3
  <2>2. ASSUME NEW n \in 1 .. Len(m), n # k
        PROVE  m[n].flow # m[k].flow
    BY <1>1, <1>4, <1>5, <2>2
  <2> QED
    BY <1>7, <2>1, <2>2
<1>8. TimersOK(m, F)
  BY <1>2, <1>3, <1>7 DEF TimersOK, R
<1>9. \A i \in 1 .. Len(m) : m[i] = e \/ \E j \in 1 .. Len(map) : m[i] = map[j]
  BY <1>4, <1>5
<1> QED
  BY <1>5, <1>8, <1>9 DEF SetTimer, m, e

(* The timers that were set stay set.                                      *)
LEMMA SetTimerKeeps ==
    ASSUME NEW F, NEW map, TimersOK(map, F), NEW f \in F, NEW t \in Nat,
           \A i \in 1 .. Len(map) : map[i].flow # f, NEW j \in 1 .. Len(map)
    PROVE  \E i \in 1 .. Len(SetTimer(map, f, t)) : SetTimer(map, f, t)[i] = map[j]
<1> DEFINE R == Timers(F)
           e == [time |-> t, flow |-> f]
           m == Schedule(map, e)
<1>1. /\ \A r \in R : r.time \in Int
      /\ map \in Seq(R) /\ Sorted(map) /\ e \in R /\ Len(map) \in Nat
  BY DEF TimersOK, Timers
<1> HIDE DEF R, e
<1>2. PICK k \in 1 .. Len(map) + 1 :
        /\ Len(m) = Len(map) + 1
        /\ \A i \in 1 .. Len(map) + 1 :
             m[i] = IF i < k THEN map[i] ELSE IF i = k THEN e ELSE map[i - 1]
  <2>1. \E k \in 1 .. Len(map) + 1 :
          /\ Schedule(map, e) \in Seq(R)
          /\ Len(Schedule(map, e)) = Len(map) + 1
          /\ \A i \in 1 .. Len(map) + 1 :
               Schedule(map, e)[i] = IF i < k THEN map[i]
                                     ELSE IF i = k THEN e ELSE map[i - 1]
          /\ \A i \in 1 .. Len(map) : IF i < k THEN map[i].time <= e.time
                                               ELSE map[i].time > e.time
    BY <1>1, ScheduleShape, Zenon
  <2> QED
    BY <2>1, Zenon
<1> HIDE DEF m
<1> DEFINE i == IF j < k THEN j ELSE j + 1
<1>3. i \in 1 .. Len(m) /\ m[i] = map[j]
  BY <1>1, <1>2
<1> HIDE DEF i
<1> QED
  BY <1>3 DEF SetTimer, m, e

(* Without its first timer the map holds the others, none of them earlier  *)
(* and none of the same flow.                                              *)
LEMMA TakeTimer ==
    ASSUME NEW F, NEW map, TimersOK(map, F), map # <<>>
    PROVE  /\ Head(map) \in Timers(F) /\ 1 \in 1 .. Len(map) /\ Head(map) = map[1]
           /\ TimersOK(Tail(map), F)
           /\ \A i \in 1 .. Len(Tail(map)) :
                 /\ i + 1 \in 1 .. Len(map) /\ Tail(map)[i] = map[i + 1]
                 /\ Head(map).time <= Tail(map)[i].time
                 /\ Tail(map)[i].flow # Head(map).flow
           /\ \A j \in 1 .. Len(map) : j # 1 =>
                 j - 1 \in 1 .. Len(Tail(map)) /\ map[j] = Tail(map)[j - 1]
<1> DEFINE R == Timers(F)
           e == Head(map)
           m == Tail(map)
<1>1. map \in Seq(R) /\ Len(map) \in Nat \ {0} /\ e = map[1] /\ 1 \in 1 .. Len(map)
  BY DEF TimersOK
<1>2. /\ m \in Seq(R) /\ Len(m) = Len(map) - 1
      /\ \A i \in 1 .. Len(m) : m[i] = map[i + 1]
  BY <1>1
<1> HIDE DEF R, e, m
<1>3. e \in R
  BY <1>1
<1>4. \A i \in 1 .. Len(m) : i + 1 \in 1 .. Len(map) /\ i + 1 # 1 /\ 1 <= i + 1
  BY <1>1, <1>2
<1>5. \A i \in 1 .. Len(m) : e.time <= m[i].time /\ m[i].flow # e.flow
  BY <1>1, <1>2, <1>4 DEF TimersOK, Sorted
<1>6. Sorted(m)
  <2> SUFFICES ASSUME NEW i \in 1 .. Len(m), NEW j \in 1 .. Len(m), i <= j
               PROVE  m[i].time <= m[j].time
    BY DEF Sorted
  <2>1. i + 1 <= j + 1
    BY <1>1, <1>2
  <2> QED
    BY <2>1, <1>2, <1>4 DEF TimersOK, Sorted
<1>7. ASSUME NEW i \in 1 .. Len(m), NEW j \in 1 .. Len(m), m[i].flow = m[j].flow
      PROVE  i = j
  <2>1. i + 1 = j + 1
    BY <1>2, <1>4, <1>7 DEF TimersOK
  <2> QED
    BY <2>1, <1>1, <1>2
<1>8. \A j \in 1 .. Len(map) : j # 1 => j - 1 \in 1 .. Len(m) /\ map[j] = m[j - 1]
  BY <1>1, <1>2
<1> QED
  BY <1>1, <1>2, <1>3, <1>4, <1>5, <1>6, <1>7, <1>8 DEF TimersOK, R, e, m

-----------------------------------------------------------------------------
(* The first state                                                         *)

LEMMA CbrInitOK == CbrInit => CbrInv
<1> SUFFICES ASSUME CbrInit
             PROVE  CbrInv
  OBVIOUS
<1>1. IInv /\ senders \in Configs /\ clock = 0
  BY InitOK DEF CbrInit, Init
<1>2. PICK order \in Bijection(Flows, Flows) :
        /\ \A i, j \in Flows : i < j =>
              \/ senders[order[i]].start < senders[order[j]].start
              \/ senders[order[i]].start = senders[order[j]].start /\ order[i] < order[j]
        /\ timer_map =
              [i \in Flows |-> [time |-> senders[order[i]].start, flow |-> order[i]]]
  BY DEF CbrInit
<1>3. /\ order \in [Flows -> Flows]
      /\ \A i, j \in Flows : order[i] = order[j] => i = j
      /\ \A f \in Flows : \E i \in Flows : order[i] = f
  BY <1>2 DEF Bijection, Injection, IsInjective, Surjection
<1>4. Flows = 1 .. Len(senders) /\ Len(senders) \in Nat
  <2>1. senders \in Seq([source : Hosts, destination : Hosts, start : Nat,
                         ip : Nat, count : Nat, length : Nat \ {0}])
    BY <1>1, ConfigsAssumption
  <2> QED
    BY <2>1, LenProperties DEF Flows
<1>5. \A f \in Flows : /\ senders[f].start \in Nat /\ Total(senders[f]) >= 1
                        /\ senders[f].start = Due(senders[f], 0)
  <2> TAKE f \in Flows
  <2>1. /\ senders[f].start \in Nat /\ senders[f].ip \in Nat /\ senders[f].count \in Nat
        /\ Total(senders[f]) = IF 1 >= senders[f].count THEN 1 ELSE senders[f].count
    BY <1>1, SenderTyped DEF Flows
  <2> QED
    BY <2>1 DEF Due
<1>6. /\ \A i \in Flows : /\ timer_map[i] = [time |-> senders[order[i]].start, flow |-> order[i]]
                          /\ timer_map[i].time = senders[order[i]].start
                          /\ timer_map[i].flow = order[i]
                          /\ timer_map[i] \in Timers(Flows)
      /\ timer_map \in Seq(Timers(Flows)) /\ Len(timer_map) = Len(senders)
  <2>1. \A i \in Flows : [time |-> senders[order[i]].start, flow |-> order[i]] \in Timers(Flows)
    BY <1>3, <1>5 DEF Timers
  <2>2. timer_map \in [1 .. Len(senders) -> Timers(Flows)]
    BY <1>2, <1>4, <2>1, Zenon
  <2>3. timer_map \in Seq(Timers(Flows)) /\ Len(timer_map) = Len(senders)
    BY <1>4, <2>2, LenProperties
  <2> QED
    BY <1>2, <2>1, <2>3
<1>7. 1 .. Len(timer_map) = Flows
  BY <1>4, <1>6
<1>7a. \A i \in Flows : /\ timer_map[i].time = senders[order[i]].start
                        /\ timer_map[i].flow = order[i] /\ order[i] \in Flows
                        /\ timer_map[i].time \in Nat
  <2> TAKE i \in Flows
  <2>1. order[i] \in Flows /\ senders[order[i]].start \in Nat
    BY <1>3, <1>5
  <2>2. timer_map[i].time = senders[order[i]].start /\ timer_map[i].flow = order[i]
    BY <1>6, Zenon
  <2> QED
    BY <2>1, <2>2
<1>8. Sorted(timer_map)
  <2>1. \A i, j \in Flows : i < j => timer_map[i].time <= timer_map[j].time
    <3> TAKE i, j \in Flows
    <3> HAVE i < j
    <3>1. \/ senders[order[i]].start < senders[order[j]].start
          \/ senders[order[i]].start = senders[order[j]].start
      BY <1>2
    <3> QED
      BY <3>1, <1>7a
  <2>2. \A i, j \in Flows : i <= j => i < j \/ i = j
    BY <1>4
  <2>3. \A i \in Flows : timer_map[i].time <= timer_map[i].time
    BY <1>7a
  <2> QED
    BY <1>7, <2>1, <2>2, <2>3, Zenon DEF Sorted
<1>9. TimersOK(timer_map, Flows)
  <2>1. \A i, j \in Flows : timer_map[i].flow = timer_map[j].flow => i = j
    BY <1>3, <1>7a
  <2> QED
    BY <1>6, <1>7, <1>8, <2>1 DEF TimersOK
<1>10. sent_so_far = [f \in Flows |-> 0]
  BY DEF CbrInit
<1>11. OnTime(timer_map, sent_so_far)
  <2>1. \A f \in Flows : sent_so_far[f] = 0
    BY <1>10
  <2>2. \A f \in Flows : 0 < Total(senders[f])
    <3> TAKE f \in Flows
    <3>1. Total(senders[f]) \in Nat /\ Total(senders[f]) >= 1
      BY <1>1, <1>5, SenderTyped DEF Flows
    <3> QED
      BY <3>1
  <2>3. ASSUME NEW i \in Flows
        PROVE  LET f == timer_map[i].flow
               IN  sent_so_far[f] < Total(senders[f]) /\ timer_map[i].time = Due(senders[f], sent_so_far[f])
    BY <1>5, <1>7a, <2>1, <2>2
  <2>4. ASSUME NEW f \in Flows
        PROVE  \E i \in Flows : timer_map[i].flow = f
    BY <1>3, <1>7a
  <2> QED
    BY <1>7, <2>3, <2>4 DEF OnTime
<1>12. NoneBefore(timer_map, clock)
  BY <1>1, <1>7, <1>7a DEF NoneBefore
<1> QED
  BY <1>1, <1>9, <1>10, <1>11, <1>12 DEF CbrInv

-----------------------------------------------------------------------------
(* The steps                                                               *)

(* A timer that goes off is a host of Network sending in time.             *)
LEMMA TimerSends ==
    ASSUME CbrInv, NEW f \in Flows, HandleTimer(f)
    PROVE  /\ Next /\ sent_so_far[f] < Total(senders[f])
           /\ clock' = Due(senders[f], sent_so_far[f])
           /\ timer_map # <<>> /\ Head(timer_map).flow = f
           /\ clock' = Head(timer_map).time
<1> DEFINE e == Head(timer_map)
<1>1. timer_map # <<>> /\ e.flow = f
  BY DEF HandleTimer, TimerFirst, NextTime
<1>2. e = timer_map[1] /\ 1 \in 1 .. Len(timer_map) /\ e \in Timers(Flows)
  BY <1>1, TakeTimer DEF CbrInv
<1>3. sent_so_far[f] < Total(senders[f]) /\ e.time = Due(senders[f], sent_so_far[f])
  BY <1>1, <1>2 DEF CbrInv, OnTime
<1>4. sent_so_far[f] \in Nat /\ Total(senders[f]) \in Nat
  BY SenderTyped DEF CbrInv, Flows
<1>5. CbrPacket(senders[f], sent_so_far[f]) \in Packets /\ e.time <= MaxTime
  BY <1>3, <1>4, SenderTyped DEF CbrInv, Flows
<1>6. e.time \in 0 .. MaxTime
  BY <1>2, <1>5, TimesAssumption DEF Timers
<1>7. HostSend(CbrPacket(senders[f], sent_so_far[f]), e.time)
  BY DEF HandleTimer
<1>8. clock' = e.time
  BY <1>7 DEF HostSend
<1> QED
  BY <1>1, <1>3, <1>5, <1>6, <1>7, <1>8 DEF Next

LEMMA HandleTimerOK ==
    ASSUME CbrInv, NEW f \in Flows, HandleTimer(f)
    PROVE  CbrInv'
<1> DEFINE e == Head(timer_map)
           m == Tail(timer_map)
           k == sent_so_far[f]
<1>1. /\ Next /\ k < Total(senders[f]) /\ clock' = Due(senders[f], k)
      /\ timer_map # <<>> /\ e.flow = f /\ clock' = e.time
  BY TimerSends
<1>2. IInv'
  BY <1>1, NextOK DEF CbrInv
<1>3. /\ senders' = senders /\ timer_map' = Rearm(f, m)
      /\ sent_so_far' = [sent_so_far EXCEPT ![f] = @ + 1]
  BY DEF HandleTimer
<1>4. /\ senders \in Configs /\ Flows' = Flows /\ k \in Nat /\ k + 1 \in Nat
      /\ sent_so_far' \in [Flows -> Nat] /\ sent_so_far'[f] = k + 1
      /\ \A g \in Flows : g # f => sent_so_far'[g] = sent_so_far[g]
  BY <1>3 DEF CbrInv, Flows
<1>5. /\ senders[f].ip \in Nat /\ senders[f].count \in Nat
      /\ Total(senders[f]) = IF 1 >= senders[f].count THEN 1 ELSE senders[f].count
  BY <1>4, SenderTyped DEF Flows
<1>6. clock' \in Nat /\ Due(senders[f], k + 1) = clock' + senders[f].ip
  <2>1. f \in DOMAIN senders /\ senders \in Configs
    BY <1>4 DEF Flows
  <2>2. Due(senders[f], k) \in Nat /\ Due(senders[f], k + 1) = Due(senders[f], k) + senders[f].ip
    BY <1>4, <2>1, DueNext
  <2> QED
    BY <1>1, <2>2
<1>7. /\ e \in Timers(Flows) /\ TimersOK(m, Flows)
      /\ \A i \in 1 .. Len(m) : /\ i + 1 \in 1 .. Len(timer_map) /\ m[i] = timer_map[i + 1]
                                /\ e.time <= m[i].time /\ m[i].flow # f
      /\ \A j \in 1 .. Len(timer_map) : \/ timer_map[j] = e
                                        \/ \E i \in 1 .. Len(m) : m[i] = timer_map[j]
  <2>1. TimersOK(timer_map, Flows)
    BY DEF CbrInv
  <2>2. timer_map # <<>>
    BY <1>1
  <2>3. e \in Timers(Flows) /\ e = timer_map[1]
    BY <2>1, <2>2, TakeTimer
  <2>4. TimersOK(m, Flows)
    BY <2>1, <2>2, TakeTimer
  <2>5. \A i \in 1 .. Len(m) : /\ i + 1 \in 1 .. Len(timer_map) /\ m[i] = timer_map[i + 1]
                               /\ e.time <= m[i].time /\ m[i].flow # e.flow
    BY <2>1, <2>2, TakeTimer
  <2>6. \A j \in 1 .. Len(timer_map) : j # 1 =>
           j - 1 \in 1 .. Len(m) /\ timer_map[j] = m[j - 1]
    BY <2>1, <2>2, TakeTimer
  <2>7. \A j \in 1 .. Len(timer_map) : \/ timer_map[j] = e
                                      \/ \E i \in 1 .. Len(m) : m[i] = timer_map[j]
    <3> HIDE DEF e, m
    <3> QED
      BY <2>3, <2>6
  <2> QED
    BY <1>1, <2>3, <2>4, <2>5, <2>7
<1> HIDE DEF e, m, k
<1>8. \A i \in 1 .. Len(m) :
         /\ m[i].flow \in Flows
         /\ sent_so_far'[m[i].flow] < Total(senders[m[i].flow])
         /\ m[i].time = Due(senders[m[i].flow], sent_so_far'[m[i].flow])
  <2> TAKE i \in 1 .. Len(m)
  <2>1. m \in Seq(Timers(Flows)) /\ m[i].flow # f
    BY <1>7 DEF TimersOK
  <2>2. m[i] \in Timers(Flows)
    BY <2>1
  <2>3. m[i].flow \in Flows
    BY <2>2 DEF Timers
  <2>4. /\ sent_so_far[m[i].flow] < Total(senders[m[i].flow])
        /\ m[i].time = Due(senders[m[i].flow], sent_so_far[m[i].flow])
    <3>1. i + 1 \in 1 .. Len(timer_map) /\ m[i] = timer_map[i + 1]
      BY <1>7
    <3>2. LET g == timer_map[i + 1].flow
          IN  /\ sent_so_far[g] < Total(senders[g])
              /\ timer_map[i + 1].time = Due(senders[g], sent_so_far[g])
      BY <3>1 DEF CbrInv, OnTime
    <3> QED
      BY <3>1, <3>2
  <2>5. sent_so_far'[m[i].flow] = sent_so_far[m[i].flow]
    BY <1>4, <2>1, <2>3
  <2> QED
    BY <2>3, <2>4, <2>5
<1>9. \A g \in Flows \ {f} : sent_so_far'[g] < Total(senders[g]) =>
          \E i \in 1 .. Len(m) : m[i].flow = g
  <2> TAKE g \in Flows \ {f}
  <2> HAVE sent_so_far'[g] < Total(senders[g])
  <2>1. PICK j \in 1 .. Len(timer_map) : timer_map[j].flow = g
    BY <1>4 DEF CbrInv, OnTime
  <2> QED
    BY <1>1, <1>7, <2>1
<1>10. NoneBefore(m, clock')
  BY <1>1, <1>7 DEF NoneBefore
<1>11. /\ TimersOK(timer_map', Flows) /\ NoneBefore(timer_map', clock')
       /\ OnTime(timer_map, sent_so_far)'
  <2>1. CASE ~(k + 1 < senders[f].count)
    <3>1. timer_map' = m
      BY <1>3, <2>1 DEF Rearm, k
    <3>2. ~(sent_so_far'[f] < Total(senders[f]))
      BY <1>4, <1>5, <2>1
    <3>3. OnTime(timer_map, sent_so_far)'
      BY <1>3, <1>4, <1>8, <1>9, <3>1, <3>2 DEF OnTime
    <3> QED
      BY <1>7, <1>10, <3>1, <3>3
  <2>2. CASE k + 1 < senders[f].count
    <3> DEFINE t == clock' + senders[f].ip
               n == SetTimer(m, f, t)
    <3>1. timer_map' = n
      BY <1>3, <2>2 DEF Rearm, k
    <3>2. t \in Nat /\ clock' <= t
      BY <1>5, <1>6
    <3>3. /\ TimersOK(n, Flows)
          /\ \A i \in 1 .. Len(n) : \/ n[i] = [time |-> t, flow |-> f]
                                    \/ \E j \in 1 .. Len(m) : n[i] = m[j]
          /\ \A j \in 1 .. Len(m) : \E i \in 1 .. Len(n) : n[i] = m[j]
          /\ \E i \in 1 .. Len(n) : n[i] = [time |-> t, flow |-> f]
      <4>1. \A i \in 1 .. Len(m) : m[i].flow # f
        BY <1>7
      <4>2. TimersOK(m, Flows)
        BY <1>7
      <4> HIDE DEF t
      <4>3. TimersOK(n, Flows)
        BY <3>2, <4>1, <4>2, SetTimerOK
      <4>4. \A i \in 1 .. Len(n) : \/ n[i] = [time |-> t, flow |-> f]
                                   \/ \E j \in 1 .. Len(m) : n[i] = m[j]
        BY <3>2, <4>1, <4>2, SetTimerOK
      <4>5. \A j \in 1 .. Len(m) : \E i \in 1 .. Len(n) : n[i] = m[j]
        <5> TAKE j \in 1 .. Len(m)
        <5> QED
          BY <3>2, <4>1, <4>2, SetTimerKeeps
      <4>6. \E i \in 1 .. Len(n) : n[i] = [time |-> t, flow |-> f]
        BY <3>2, <4>1, <4>2, SetTimerOK
      <4> QED
        BY <4>3, <4>4, <4>5, <4>6
    <3>4. sent_so_far'[f] < Total(senders[f]) /\ t = Due(senders[f], sent_so_far'[f])
      BY <1>4, <1>5, <1>6, <2>2
    <3> HIDE DEF t, n
    <3>5. NoneBefore(n, clock')
      BY <1>10, <3>2, <3>3 DEF NoneBefore
    <3>6. ASSUME NEW i \in 1 .. Len(n)
          PROVE  /\ sent_so_far'[n[i].flow] < Total(senders[n[i].flow])
                 /\ n[i].time = Due(senders[n[i].flow], sent_so_far'[n[i].flow])
      BY <1>8, <3>3, <3>4
    <3>7. ASSUME NEW g \in Flows, sent_so_far'[g] < Total(senders[g])
          PROVE  \E i \in 1 .. Len(n) : n[i].flow = g
      <4>1. CASE g = f
        BY <3>3, <4>1
      <4>2. CASE g # f
        <5>1. PICK j \in 1 .. Len(m) : m[j].flow = g
          BY <1>9, <3>7, <4>2
        <5> QED
          BY <3>3, <5>1
      <4> QED
        BY <4>1, <4>2
    <3>8. OnTime(timer_map, sent_so_far)'
      BY <1>3, <1>4, <3>1, <3>6, <3>7 DEF OnTime
    <3> QED
      BY <3>1, <3>3, <3>5, <3>8
  <2> QED
    BY <2>1, <2>2
<1> QED
  BY <1>2, <1>3, <1>4, <1>11 DEF CbrInv

LEMMA HandlePacketOK ==
    ASSUME CbrInv, HandlePacket
    PROVE  CbrInv' /\ Next
<1>1. Next
  BY DEF HandlePacket, Next
<1>2. IInv'
  BY <1>1, NextOK DEF CbrInv
<1>3. senders' = senders /\ timer_map' = timer_map /\ sent_so_far' = sent_so_far
  BY DEF HandlePacket
<1>4. packet_map # <<>> /\ clock' = Head(packet_map).time
  <2>1. PICK e : Process(e)
    BY DEF HandlePacket, ProcessPacket, SendDone, HostReceive, Discard, Relay, Route, Arrives
  <2> QED
    BY <2>1 DEF Process
<1>5. clock' \in Nat
  BY <1>2 DEF IInv, EventsOK
<1>6. NoneBefore(timer_map, clock')
  <2> SUFFICES ASSUME NEW i \in 1 .. Len(timer_map)
               PROVE  clock' <= timer_map[i].time
    BY DEF NoneBefore
  <2>1. timer_map \in Seq(Timers(Flows)) /\ Sorted(timer_map)
    BY DEF CbrInv, TimersOK
  <2>2. /\ timer_map # <<>> /\ 1 \in 1 .. Len(timer_map) /\ 1 <= i
        /\ timer_map[1] \in Timers(Flows) /\ timer_map[i] \in Timers(Flows)
        /\ Head(timer_map) = timer_map[1]
    BY <2>1
  <2>3. timer_map[1].time \in Nat /\ timer_map[i].time \in Nat
    BY <2>2 DEF Timers
  <2>4. clock' < timer_map[1].time
    BY <1>4, <1>5, <2>2, <2>3 DEF HandlePacket, PacketFirst, NextTime
  <2>5. timer_map[1].time <= timer_map[i].time
    BY <2>1, <2>2 DEF Sorted
  <2> QED
    BY <1>5, <2>3, <2>4, <2>5
<1>7. OnTime(timer_map, sent_so_far)'
  BY <1>3 DEF CbrInv, OnTime, Flows
<1> QED
  BY <1>1, <1>2, <1>3, <1>6, <1>7 DEF CbrInv, Flows

(* Every step keeps the invariant and is a step of Network.                *)
LEMMA CbrNextOK ==
    ASSUME CbrInv, [CbrNext]_cbrVars
    PROVE  CbrInv' /\ [Next]_vars
<1>1. CASE UNCHANGED cbrVars
  <2>1. /\ UNCHANGED vars /\ senders' = senders /\ timer_map' = timer_map
        /\ sent_so_far' = sent_so_far /\ clock' = clock
    BY <1>1 DEF cbrVars, vars
  <2>2. IInv'
    BY <2>1, NextOK DEF CbrInv
  <2>3. OnTime(timer_map, sent_so_far)'
    BY <2>1 DEF CbrInv, OnTime, Flows
  <2> QED
    BY <2>1, <2>2, <2>3 DEF CbrInv, Flows
<1> QED
  BY <1>1, TimerSends, HandleTimerOK, HandlePacketOK DEF CbrNext

LEMMA CbrInductive == CbrSpec => []CbrInv
<1>1. CbrInv /\ [CbrNext]_cbrVars => CbrInv'
  BY CbrNextOK
<1> QED
  BY CbrInitOK, <1>1, PTL DEF CbrSpec

-----------------------------------------------------------------------------
(* Results                                                                 *)

(* CbrSender::handle_timer sends what and when Network lets its hosts send,*)
(* and Scheduler::run takes the events in Network's order: what holds of   *)
(* every run of Network holds with the application on top.                 *)
THEOREM CbrImplementsNetwork == CbrSpec => Spec
<1>1. CbrInit => Init
  BY DEF CbrInit
<1>2. CbrInv /\ [CbrNext]_cbrVars => [Next]_vars
  BY CbrNextOK
<1> QED
  BY <1>1, <1>2, CbrInductive, PTL DEF CbrSpec, Spec

(* CbrSender::handle_timer, over every network, in every configuration: a  *)
(* sender with packets left has one timer, at the time the rate asks for.  *)
THEOREM TimersAlwaysKeepRate == CbrSpec => []TimersKeepRate
<1>1. CbrInv => TimersKeepRate
  <2> SUFFICES ASSUME CbrInv
               PROVE  TimersKeepRate
    OBVIOUS
  <2>1. DOMAIN timer_map = 1 .. Len(timer_map)
    BY DEF CbrInv, TimersOK
  <2>2. ASSUME NEW i \in DOMAIN timer_map
        PROVE  LET f == timer_map[i].flow
               IN  /\ sent_so_far[f] < Total(senders[f])
                   /\ timer_map[i].time = Due(senders[f], sent_so_far[f])
    BY <2>1 DEF CbrInv, OnTime
  <2>3. ASSUME NEW f \in Flows
        PROVE  Cardinality({i \in DOMAIN timer_map : timer_map[i].flow = f}) =
                 IF sent_so_far[f] < Total(senders[f]) THEN 1 ELSE 0
    <3> DEFINE own == {i \in DOMAIN timer_map : timer_map[i].flow = f}
    <3>1. \A i, j \in own : i = j
      BY <2>1 DEF CbrInv, TimersOK
    <3>2. CASE sent_so_far[f] < Total(senders[f])
      <4>1. PICK i : i \in own
        BY <2>1, <3>2 DEF CbrInv, OnTime
      <4>2. own = {i}
        BY <3>1, <4>1
      <4> QED
        BY <3>2, <4>2, FS_Singleton
    <3>3. CASE ~(sent_so_far[f] < Total(senders[f]))
      <4>1. own = {}
        BY <2>2, <3>3
      <4> QED
        BY <3>3, <4>1, FS_EmptySet
    <3> QED
      BY <3>2, <3>3
  <2> QED
    BY <2>2, <2>3 DEF TimersKeepRate
<1> QED
  BY CbrInductive, <1>1, PTL

(* Scheduler::run, over every network, in every configuration: what it     *)
(* takes first leaves no timer and no packet event behind in the past.     *)
THEOREM NeverOverdue == CbrSpec => []NothingOverdue
<1>1. CbrInv => NothingOverdue
  <2> SUFFICES ASSUME CbrInv
               PROVE  NothingOverdue
    OBVIOUS
  <2>1. DOMAIN timer_map = 1 .. Len(timer_map) /\ DOMAIN packet_map = 1 .. Len(packet_map)
    BY DEF CbrInv, TimersOK, IInv, EventsOK
  <2> QED
    BY <2>1 DEF NothingOverdue, CbrInv, NoneBefore, IInv, EventsOK
<1> QED
  BY CbrInductive, <1>1, PTL

-----------------------------------------------------------------------------
(* Routes                                                                  *)

(* The next hop is a node, over a link.                                    *)
LEMMA HopIsNode ==
    ASSUME NEW n \in Nodes, NEW d \in Nodes, n # d
    PROVE  /\ <<n, NextHop[<<n, d>>]>> \in Links
           /\ NextHop[<<n, d>>] \in Nodes
<1>1. <<n, NextHop[<<n, d>>]>> \in Links
  BY RoutingAssumption
<1>2. <<n, NextHop[<<n, d>>]>> \in Nodes \X Nodes
  BY <1>1, NodesAssumption
<1> QED
  BY <1>1, <1>2

\* What a function says of the nodes on the way to d: base at d, and at any
\* other node what step makes of what it says of the next one.
Follows(f, d, base, step) ==
    f = [n \in Nodes |-> IF n = d THEN base ELSE step[<<n, f[NextHop[<<n, d>>]]>>]]

(* A definition along the routes is a definition.                          *)
LEMMA RouteFunction ==
    ASSUME NEW d \in Nodes, NEW V, NEW base \in V, NEW step \in [Nodes \X V -> V]
    PROVE  \E f \in [Nodes -> V] : Follows(f, d, base, step)
<1> DEFINE All == Nodes \X V
           next(n) == NextHop[<<n, d>>]
           Closed(Q) ==
              /\ <<d, base>> \in Q
              /\ \A n \in Nodes \ {d} : \A s \in V :
                    <<next(n), s>> \in Q => <<n, step[<<n, s>>]>> \in Q
           G == {x \in All : \A Q \in SUBSET All : Closed(Q) => x \in Q}
<1>1. \A n \in Nodes : \A s \in V : step[<<n, s>>] \in V
  OBVIOUS
<1>2. \A n \in Nodes \ {d} : next(n) \in Nodes
  BY HopIsNode
<1> HIDE DEF next
<1>3. Closed(G) /\ G \in SUBSET All
  <2>1. <<d, base>> \in G
    OBVIOUS
  <2>2. ASSUME NEW n \in Nodes \ {d}, NEW s \in V, <<next(n), s>> \in G
        PROVE  <<n, step[<<n, s>>]>> \in G
    BY <1>1, <2>2
  <2> HIDE DEF G
  <2>3. Closed(G)
    BY <2>1, <2>2
  <2> QED
    BY <2>3 DEF G
<1>4. ASSUME NEW Q, Q \in SUBSET All, Closed(Q)
      PROVE  G \subseteq Q
  BY <1>4
<1> HIDE DEF G
<1>5. \A n \in Nodes : \E s \in V : <<n, s>> \in G
  <2> DEFINE S == {n \in Nodes : ~\E s \in V : <<n, s>> \in G}
  <2>1. d \notin S
    BY <1>3
  <2>2. CASE S # {}
    <3>1. S \in SUBSET (Nodes \ {d})
      BY <2>1
    <3> HIDE DEF S
    <3>2. PICK n \in S : next(n) \notin S
      BY <2>2, <3>1, RoutesEndAssumption DEF next
    <3>3. n \in Nodes \ {d}
      BY <3>1
    <3>4. PICK s \in V : <<next(n), s>> \in G
      BY <1>2, <3>2, <3>3 DEF S
    <3>5. <<n, step[<<n, s>>]>> \in G /\ step[<<n, s>>] \in V
      BY <1>1, <1>3, <3>3, <3>4
    <3> QED
      BY <3>2, <3>3, <3>5 DEF S
  <2> QED
    BY <2>2
<1>6. \A s \in V : <<d, s>> \in G => s = base
  <2> DEFINE Q == {x \in G : x[1] = d => x[2] = base}
  <2>1. Q \in SUBSET All
    BY <1>3
  <2>2. <<d, base>> \in Q
    BY <1>3
  <2>3. ASSUME NEW n \in Nodes \ {d}, NEW s \in V, <<next(n), s>> \in Q
        PROVE  <<n, step[<<n, s>>]>> \in Q
    <3>1. <<n, step[<<n, s>>]>> \in G
      BY <1>3, <2>3
    <3> QED
      BY <3>1
  <2> HIDE DEF Q
  <2>4. G \subseteq Q
    BY <1>4, <2>1, <2>2, <2>3
  <2> QED
    BY <2>4 DEF Q
<1>7. ASSUME NEW n \in Nodes \ {d}, NEW s \in V, <<n, s>> \in G
      PROVE  \E t \in V : <<next(n), t>> \in G /\ s = step[<<n, t>>]
  <2> DEFINE Q == {x \in G : x[1] = n => \E t \in V : <<next(n), t>> \in G /\ x[2] = step[<<n, t>>]}
  <2>1. Q \in SUBSET All
    BY <1>3
  <2>2. <<d, base>> \in Q
    BY <1>3
  <2>3. ASSUME NEW m \in Nodes \ {d}, NEW t \in V, <<next(m), t>> \in Q
        PROVE  <<m, step[<<m, t>>]>> \in Q
    <3>1. <<m, step[<<m, t>>]>> \in G /\ <<next(m), t>> \in G
      BY <1>3, <2>3
    <3> QED
      BY <3>1
  <2> HIDE DEF Q
  <2>4. G \subseteq Q
    BY <1>4, <2>1, <2>2, <2>3
  <2> QED
    BY <1>7, <2>4 DEF Q
<1>8. \A n \in Nodes : \A s, t \in V : <<n, s>> \in G /\ <<n, t>> \in G => s = t
  <2> DEFINE S == {n \in Nodes : \E s, t \in V : <<n, s>> \in G /\ <<n, t>> \in G /\ s # t}
  <2>1. d \notin S
    BY <1>6
  <2>2. CASE S # {}
    <3>1. S \in SUBSET (Nodes \ {d})
      BY <2>1
    <3> HIDE DEF S
    <3>2. PICK n \in S : next(n) \notin S
      BY <2>2, <3>1, RoutesEndAssumption DEF next
    <3>3. n \in Nodes \ {d}
      BY <3>1
    <3>4. PICK s \in V, t \in V : <<n, s>> \in G /\ <<n, t>> \in G /\ s # t
      BY <3>2 DEF S
    <3>5. PICK u \in V : <<next(n), u>> \in G /\ s = step[<<n, u>>]
      BY <1>7, <3>3, <3>4
    <3>6. PICK w \in V : <<next(n), w>> \in G /\ t = step[<<n, w>>]
      BY <1>7, <3>3, <3>4
    <3>7. u = w
      BY <1>2, <3>2, <3>3, <3>5, <3>6 DEF S
    <3> QED
      BY <3>4, <3>5, <3>6, <3>7
  <2> QED
    BY <2>2
<1> DEFINE f == [n \in Nodes |-> CHOOSE s \in V : <<n, s>> \in G]
<1>9. \A n \in Nodes : f[n] \in V /\ <<n, f[n]>> \in G
  BY <1>5
<1>10. f \in [Nodes -> V]
  BY <1>9
<1> DEFINE g == [n \in Nodes |-> IF n = d THEN base ELSE step[<<n, f[next(n)]>>]]
<1>11. g = [n \in Nodes |-> g[n]]
  OBVIOUS
<1>14. ASSUME NEW n \in Nodes
       PROVE  g[n] = IF n = d THEN base ELSE step[<<n, f[next(n)]>>]
  OBVIOUS
<1> HIDE DEF f, g
<1>12. ASSUME NEW n \in Nodes
       PROVE  f[n] = g[n]
  <2>1. CASE n = d
    BY <1>6, <1>9, <1>14, <2>1
  <2>2. CASE n # d
    <3>1. next(n) \in Nodes /\ f[next(n)] \in V /\ <<next(n), f[next(n)]>> \in G
      BY <1>2, <1>9, <2>2
    <3>2. <<n, step[<<n, f[next(n)]>>]>> \in G /\ step[<<n, f[next(n)]>>] \in V
      BY <1>1, <1>3, <2>2, <3>1
    <3> QED
      BY <1>8, <1>9, <1>14, <2>2, <3>2
  <2> QED
    BY <2>1, <2>2
<1>16. f = [n \in Nodes |-> f[n]]
  BY <1>10
<1>13. f = g
  BY <1>11, <1>12, <1>16, Zenon
<1>15. Follows(f, d, base, step)
  BY <1>13, Zenon DEF Follows, g, next
<1> QED
  BY <1>10, <1>15

\* What f says of a node: H of the links from it to d, the last one first.
RouteSums(f, H, d) ==
    /\ f[d] = <<>>
    /\ \A n \in Nodes \ {d} : f[n] = f[NextHop[<<n, d>>]] \o H[<<n, NextHop[<<n, d>>]>>]

Flow(T) == [Links -> Seq(T)]

\* f tells what H says along the routes to d, all of it at s.
SumsUp(T, f, H, s, d) ==
    /\ f \in [Nodes -> Seq(T)] /\ RouteSums(f, H, d)
    /\ AlongRoute(H, <<s, d>>) = f[s]

(* AlongRoute is what its definition says: at each node, what is told from *)
(* the next hop on and then what is told of the link to it.                *)
LEMMA AlongRouteSums ==
    ASSUME NEW T, NEW H \in Flow(T), NEW s \in Nodes, NEW d \in Nodes
    PROVE  \E f : SumsUp(T, f, H, s, d)
<1> DEFINE V == Seq(T)
           h(n) == IF n = d THEN <<>> ELSE H[<<n, NextHop[<<n, d>>]>>]
           step == [x \in Nodes \X V |-> x[2] \o h(x[1])]
           Is(f) == f = [n \in Nodes |-> IF n = d THEN <<>>
                          ELSE f[NextHop[<<n, d>>]] \o H[<<n, NextHop[<<n, d>>]>>]]
<1>17. H \in [Links -> Seq(T)]
  BY DEF Flow
<1>1. \A n \in Nodes : h(n) \in Seq(T)
  <2>1. \A n \in Nodes \ {d} : <<n, NextHop[<<n, d>>]>> \in Links
    BY HopIsNode
  <2>2. <<>> \in Seq(T)
    OBVIOUS
  <2> QED
    BY <1>17, <2>1, <2>2
<1>10. \A n \in Nodes \ {d} : h(n) = H[<<n, NextHop[<<n, d>>]>>]
  OBVIOUS
<1> HIDE DEF h
<1>3. step \in [Nodes \X V -> V] /\ <<>> \in V
  <2>1. \A x \in Nodes \X V : x[2] \o h(x[1]) \in V
    BY <1>1
  <2>2. <<>> \in V
    OBVIOUS
  <2> QED
    BY <2>1, <2>2
<1>2. \A n \in Nodes : \A v \in V : step[<<n, v>>] = v \o h(n)
  <2> HIDE DEF V
  <2>1. \A x \in Nodes \X V : step[x] = x[2] \o h(x[1])
    BY Zenon
  <2>2. ASSUME NEW n \in Nodes, NEW v \in V
        PROVE  step[<<n, v>>] = v \o h(n)
    <3>1. <<n, v>> \in Nodes \X V
      OBVIOUS
    <3> HIDE DEF step
    <3> QED
      BY <2>1, <3>1
  <2> QED
    BY <2>2
<1> HIDE DEF step
<1>4. \E f \in [Nodes -> V] : Follows(f, d, <<>>, step)
  <2> HIDE DEF V
  <2> QED
    BY <1>3, RouteFunction
<1>5. PICK f \in [Nodes -> V] : Follows(f, d, <<>>, step)
  BY <1>4
<1>6. Is(f)
  <2>1. \A n \in Nodes \ {d} : NextHop[<<n, d>>] \in Nodes
    BY HopIsNode
  <2>2. ASSUME NEW n \in Nodes, n # d
        PROVE  step[<<n, f[NextHop[<<n, d>>]]>>]
               = f[NextHop[<<n, d>>]] \o H[<<n, NextHop[<<n, d>>]>>]
    <3>1. f[NextHop[<<n, d>>]] \in V
      <4> HIDE DEF V
      <4> QED
        BY <2>1, <2>2
    <3>2. h(n) = H[<<n, NextHop[<<n, d>>]>>]
      BY <1>10, <2>2
    <3> HIDE DEF V
    <3> QED
      BY <1>2, <3>1, <3>2
  <2>3. f = [n \in Nodes |-> IF n = d THEN <<>> ELSE step[<<n, f[NextHop[<<n, d>>]]>>]]
    BY <1>5, Zenon DEF Follows
  <2>5. \A n \in Nodes : (IF n = d THEN <<>> ELSE step[<<n, f[NextHop[<<n, d>>]]>>])
            = (IF n = d THEN <<>>
                          ELSE f[NextHop[<<n, d>>]] \o H[<<n, NextHop[<<n, d>>]>>])
    BY <2>2
  <2> QED
    BY <2>3, <2>5, Zenon
<1>7. PICK k : k = CHOOSE g : Is(g)
  OBVIOUS
<1>8. AlongRoute(H, <<s, d>>) = k[s]
  BY <1>7 DEF AlongRoute
<1>9. Is(k)
  BY <1>6, <1>7, Zenon
<1>11. k[d] = <<>>
  BY <1>9
<1>12. \A n \in Nodes \ {d} : k[n] = k[NextHop[<<n, d>>]] \o H[<<n, NextHop[<<n, d>>]>>]
  BY <1>9
<1>13. k = [n \in Nodes |-> k[n]]
  BY <1>9
<1> HIDE DEF Is
<1>16. <<>> \in V /\ \A a, b \in V : a \o b \in V
  OBVIOUS
<1>14. \A n \in Nodes : k[n] \in V
  <2> DEFINE S == {n \in Nodes : k[n] \notin V}
  <2> HIDE DEF V
  <2>1. d \notin S
    BY <1>11, <1>16
  <2>2. CASE S # {}
    <3>1. S \in SUBSET (Nodes \ {d})
      BY <2>1
    <3> HIDE DEF S
    <3>2. PICK n \in S : NextHop[<<n, d>>] \notin S
      BY <2>2, <3>1, RoutesEndAssumption
    <3>3. n \in Nodes \ {d}
      BY <3>1
    <3>4. k[NextHop[<<n, d>>]] \in V
      BY <3>2, <3>3, HopIsNode DEF S
    <3>5. H[<<n, NextHop[<<n, d>>]>>] \in V
      BY <1>17, <3>3, HopIsNode DEF V
    <3>6. k[n] \in V
      BY <1>16, <1>12, <3>3, <3>4, <3>5
    <3> QED
      BY <3>2, <3>6 DEF S
  <2> QED
    BY <2>2
<1>15. k \in [Nodes -> Seq(T)]
  BY <1>13, <1>14
<1> QED
  BY <1>8, <1>11, <1>12, <1>15 DEF RouteSums, SumsUp

\* S holds with a node the next one on the way to d.
Onward(S, d) == \A n \in S \ {d} : NextHop[<<n, d>>] \in S

\* The nodes on the route from x to d.
RouteFrom(x, d) ==
    {n \in Nodes : \A S \in SUBSET Nodes : x \in S /\ Onward(S, d) => n \in S}

(* A property of d, kept by every node whose next hop has it, holds of all *)
(* nodes: every route ends.                                                *)
LEMMA BackFromEnd ==
    ASSUME NEW d \in Nodes, NEW G, d \in G,
           \A n \in Nodes \ {d} : NextHop[<<n, d>>] \in G => n \in G
    PROVE  \A n \in Nodes : n \in G
<1> DEFINE S == {n \in Nodes : n \notin G}
<1>1. CASE S # {}
  <2>1. S \in SUBSET (Nodes \ {d})
    OBVIOUS
  <2>2. PICK n \in S : NextHop[<<n, d>>] \notin S
    BY <1>1, <2>1, RoutesEndAssumption
  <2>3. n \in Nodes \ {d} /\ NextHop[<<n, d>>] \in Nodes
    BY <2>1, HopIsNode
  <2> QED
    BY <2>2, <2>3
<1> QED
  BY <1>1

(* The route goes on from node to node, and to nothing else.               *)
LEMMA RouteSteps ==
    ASSUME NEW x \in Nodes, NEW d \in Nodes
    PROVE  /\ x \in RouteFrom(x, d)
           /\ Onward(RouteFrom(x, d), d)
           /\ \A S \in SUBSET Nodes : x \in S /\ Onward(S, d) => RouteFrom(x, d) \subseteq S
<1>1. x \in RouteFrom(x, d)
  BY DEF RouteFrom
<1>2. ASSUME NEW n \in RouteFrom(x, d) \ {d}
      PROVE  NextHop[<<n, d>>] \in RouteFrom(x, d)
  <2>1. n \in Nodes /\ NextHop[<<n, d>>] \in Nodes
    BY HopIsNode DEF RouteFrom
  <2>2. ASSUME NEW S \in SUBSET Nodes, x \in S, Onward(S, d)
        PROVE  NextHop[<<n, d>>] \in S
    BY <2>2 DEF RouteFrom, Onward
  <2> QED
    BY <2>1, <2>2 DEF RouteFrom
<1>3. ASSUME NEW S \in SUBSET Nodes, x \in S, Onward(S, d)
      PROVE  RouteFrom(x, d) \subseteq S
  BY <1>3 DEF RouteFrom
<1> QED
  BY <1>1, <1>2, <1>3 DEF Onward

(* The route from a node is the node and the route from the next one.      *)
LEMMA RouteFirst ==
    ASSUME NEW x \in Nodes, NEW d \in Nodes
    PROVE  /\ x = d => RouteFrom(x, d) = {d}
           /\ x # d => RouteFrom(x, d) = {x} \cup RouteFrom(NextHop[<<x, d>>], d)
<1>1. CASE x = d
  <2>1. {d} \in SUBSET Nodes /\ Onward({d}, d)
    BY DEF Onward
  <2>2. RouteFrom(x, d) \subseteq {d} /\ x \in RouteFrom(x, d)
    BY <1>1, <2>1, RouteSteps
  <2> QED
    BY <1>1, <2>2
<1>2. CASE x # d
  <2> DEFINE h == NextHop[<<x, d>>]
             A == RouteFrom(x, d)
             B == RouteFrom(h, d)
  <2>1. h \in Nodes
    BY <1>2, HopIsNode
  <2> HIDE DEF h
  <2>2. x \in A /\ Onward(A, d) /\ h \in B /\ Onward(B, d)
    BY <2>1, RouteSteps
  <2>3. h \in A
    BY <1>2, <2>2 DEF Onward, h
  <2>4. A \in SUBSET Nodes /\ B \in SUBSET Nodes
    BY DEF RouteFrom
  <2>5. B \subseteq A
    <3> HIDE DEF A, B
    <3> QED
      BY <2>1, <2>2, <2>3, <2>4, RouteSteps DEF B
  <2>6. Onward({x} \cup B, d)
    BY <2>2 DEF Onward, h
  <2>7. A \subseteq {x} \cup B
    <3> HIDE DEF A, B
    <3>1. {x} \cup B \in SUBSET Nodes /\ x \in {x} \cup B
      BY <2>4
    <3> QED
      BY <2>6, <3>1, RouteSteps DEF A
  <2> QED
    BY <1>2, <2>2, <2>5, <2>7 DEF h
<1> QED
  BY <1>1, <1>2

(* A route does not come back to a node, nor to the one before.            *)
LEMMA NoReturn ==
    ASSUME NEW n \in Nodes, NEW d \in Nodes, n # d
    PROVE  n \notin RouteFrom(NextHop[<<n, d>>], d)
<1> DEFINE G == {x \in Nodes : n \in RouteFrom(x, d) => n \notin RouteFrom(NextHop[<<n, d>>], d)}
<1>1. d \in G
  <2>1. RouteFrom(d, d) = {d}
    BY RouteFirst
  <2> QED
    BY <2>1
<1>2. ASSUME NEW x \in Nodes \ {d}, NextHop[<<x, d>>] \in G
      PROVE  x \in G
  <2>1. CASE x = n
    BY <1>2, <2>1
  <2>2. CASE x # n
    <3>1. RouteFrom(x, d) = {x} \cup RouteFrom(NextHop[<<x, d>>], d)
      BY RouteFirst
    <3> QED
      BY <1>2, <2>2, <3>1
  <2> QED
    BY <2>1, <2>2
<1> HIDE DEF G
<1>3. n \in G
  BY <1>1, <1>2, BackFromEnd
<1>4. n \in RouteFrom(n, d)
  BY RouteSteps
<1> QED
  BY <1>3, <1>4 DEF G

\* H and K say the same of the links on the route from x.
Agree(H, K, x, d) ==
    \A n \in RouteFrom(x, d) \ {d} :
        K[<<n, NextHop[<<n, d>>]>>] = H[<<n, NextHop[<<n, d>>]>>]

(* Two ways of telling that agree from x on give the same sum at x.        *)
LEMMA SameSums ==
    ASSUME NEW d \in Nodes, NEW x \in Nodes, NEW f, NEW g, NEW H, NEW K,
           RouteSums(f, H, d), RouteSums(g, K, d),
           Agree(H, K, x, d)
    PROVE  g[x] = f[x]
<1> DEFINE G == {y \in Nodes : y \in RouteFrom(x, d) => g[y] = f[y]}
<1>1. d \in G
  BY DEF RouteSums
<1>2. ASSUME NEW y \in Nodes \ {d}, NextHop[<<y, d>>] \in G
      PROVE  y \in G
  <2>1. SUFFICES ASSUME y \in RouteFrom(x, d)
                 PROVE  g[y] = f[y]
    OBVIOUS
  <2>2. NextHop[<<y, d>>] \in RouteFrom(x, d)
    BY <2>1, RouteSteps DEF Onward
  <2>3. g[NextHop[<<y, d>>]] = f[NextHop[<<y, d>>]]
    BY <1>2, <2>2
  <2> QED
    BY <2>1, <2>3 DEF RouteSums, Agree
<1> HIDE DEF G
<1>3. x \in G
  BY <1>1, <1>2, BackFromEnd
<1>4. x \in RouteFrom(x, d)
  BY RouteSteps
<1> QED
  BY <1>3, <1>4 DEF G

\* f and g end alike after what they say of m.
EndAlike(T, f, g, x, m) == \E z \in Seq(T) : f[x] = f[m] \o z /\ g[x] = g[m] \o z

LEMMA GrowAlike ==
    ASSUME NEW T, NEW f, NEW g, NEW m, NEW x, NEW y, f[m] \in Seq(T), g[m] \in Seq(T),
           EndAlike(T, f, g, x, m), NEW w \in Seq(T), f[y] = f[x] \o w, g[y] = g[x] \o w
    PROVE  EndAlike(T, f, g, y, m)
<1>1. PICK z \in Seq(T) : f[x] = f[m] \o z /\ g[x] = g[m] \o z
  BY DEF EndAlike
<1> DEFINE a == f[m]
           b == g[m]
           v == z \o w
<1>2. a \in Seq(T) /\ b \in Seq(T)
  OBVIOUS
<1> HIDE DEF a, b
<1>3. v \in Seq(T) /\ \A u \in Seq(T) : (u \o z) \o w = u \o v
  OBVIOUS
<1>4. (a \o z) \o w = a \o v /\ (b \o z) \o w = b \o v
  BY <1>2, <1>3
<1>5. f[y] = a \o v /\ g[y] = b \o v
  BY <1>1, <1>3, <1>4 DEF a, b
<1> HIDE DEF v
<1> QED
  BY <1>3, <1>5 DEF EndAlike, a, b

\* The link from n towards d.
Onto(n, d) == <<n, NextHop[<<n, d>>]>>

\* H and K say the same except of the links from m and the next node to d.
ChangedAt(H, K, m, d) ==
    \A n \in Nodes \ {d} : n # m /\ n # NextHop[<<m, d>>] => K[Onto(n, d)] = H[Onto(n, d)]

(* A change at node m and the next one: what was told before stays, and so *)
(* does what is told later.                                                *)
LEMMA ChangedSums ==
    ASSUME NEW T, NEW d \in Nodes, NEW m \in Nodes, m # d, NEW x \in Nodes,
           m \in RouteFrom(x, d),
           NEW H \in Flow(T), NEW K \in Flow(T), NEW f, NEW g,
           SumsUp(T, f, H, x, d), SumsUp(T, g, K, x, d), ChangedAt(H, K, m, d)
    PROVE  /\ EndAlike(T, f, g, x, m)
           /\ NextHop[<<m, d>>] # d =>
                 g[NextHop[<<NextHop[<<m, d>>], d>>]] = f[NextHop[<<NextHop[<<m, d>>], d>>]]
<1> DEFINE h == NextHop[<<m, d>>]
<1>8. H \in [Links -> Seq(T)] /\ K \in [Links -> Seq(T)]
  BY DEF Flow
<1>9. /\ f \in [Nodes -> Seq(T)] /\ g \in [Nodes -> Seq(T)]
      /\ RouteSums(f, H, d) /\ RouteSums(g, K, d)
  BY DEF SumsUp
<1>1. h \in Nodes
  BY HopIsNode
<1>2. m \notin RouteFrom(h, d)
  BY NoReturn
<1>3. ASSUME h # d
      PROVE  g[NextHop[<<h, d>>]] = f[NextHop[<<h, d>>]]
  <2> DEFINE k == NextHop[<<h, d>>]
  <2>1. k \in Nodes
    BY <1>1, <1>3, HopIsNode
  <2>2. h \notin RouteFrom(k, d) /\ RouteFrom(h, d) = {h} \cup RouteFrom(k, d)
    BY <1>1, <1>3, NoReturn, RouteFirst
  <2>3. ASSUME NEW n \in RouteFrom(k, d) \ {d}
        PROVE  K[<<n, NextHop[<<n, d>>]>>] = H[<<n, NextHop[<<n, d>>]>>]
    <3>1. n \in Nodes /\ n # m /\ n # h
      BY <1>2, <2>2 DEF RouteFrom
    <3> QED
      BY <3>1 DEF ChangedAt, Onto
  <2>5. Agree(H, K, k, d)
    BY <2>3 DEF Agree
  <2> HIDE DEF h, k
  <2>4. g[k] = f[k]
    BY <1>9, <2>1, <2>5, SameSums
  <2> QED
    BY <2>4 DEF k
<1> DEFINE V == Seq(T)
           G == {y \in Nodes : m \in RouteFrom(y, d) => EndAlike(T, f, g, y, m)}
<1>4. d \in G
  <2>1. RouteFrom(d, d) = {d}
    BY RouteFirst
  <2> QED
    BY <2>1
<1>5. ASSUME NEW y \in Nodes \ {d}, NextHop[<<y, d>>] \in G
      PROVE  y \in G
  <2>1. SUFFICES ASSUME m \in RouteFrom(y, d)
                 PROVE  EndAlike(T, f, g, y, m)
    OBVIOUS
  <2>2. CASE y = m
    <3>1. f[m] \in Seq(T) /\ g[m] \in Seq(T) /\ <<>> \in Seq(T)
      BY <1>9
    <3>2. f[m] = f[m] \o <<>> /\ g[m] = g[m] \o <<>>
      BY <3>1, ConcatEmptySeq
    <3> QED
      BY <2>2, <3>1, <3>2 DEF EndAlike
  <2>3. CASE y # m
    <3> DEFINE j == NextHop[<<y, d>>]
               w == H[<<y, j>>]
    <3>1. RouteFrom(y, d) = {y} \cup RouteFrom(j, d)
      BY RouteFirst
    <3>2. m \in RouteFrom(j, d)
      BY <2>1, <2>3, <3>1
    <3>3. EndAlike(T, f, g, j, m)
      BY <1>5, <3>2
    <3>4. y # h
      BY <1>2, <2>1
    <3>5. w \in Seq(T) /\ K[<<y, j>>] = w
      BY <1>8, <2>3, <3>4, HopIsNode DEF ChangedAt, Onto
    <3>6. f[y] = f[j] \o w /\ g[y] = g[j] \o w
      BY <1>9, <3>5 DEF RouteSums
    <3>7. f[m] \in Seq(T) /\ g[m] \in Seq(T)
      BY <1>9
    <3> HIDE DEF j, w
    <3> QED
      BY <3>3, <3>5, <3>6, <3>7, GrowAlike
  <2> QED
    BY <2>2, <2>3
<1> HIDE DEF G
<1>6. x \in G
  BY <1>4, <1>5, BackFromEnd
<1> QED
  BY <1>3, <1>6 DEF G

-----------------------------------------------------------------------------
(* What a change on the links does to what is told along a route           *)

\* K is H but for a packet y that was put at the end of link l.
Added(H, K, l, y) == K = [H EXCEPT ![l] = Append(@, y)]

\* K is H but for the first packet on link l.
Taken(H, K, l) == H[l] # <<>> /\ K = [H EXCEPT ![l] = Tail(@)]

\* The first packet on link l went to the end of link k.
Shifted(H, K, l, k) ==
    H[l] # <<>> /\ K = [H EXCEPT ![l] = Tail(@), ![k] = Append(@, Head(H[l]))]

LEMMA AppendLast ==
    ASSUME NEW T, NEW a \in Seq(T), NEW b \in Seq(T), NEW y \in T
    PROVE  a \o Append(b, y) = Append(a \o b, y)
OBVIOUS

\* Along the route from s to d, K tells what H tells and then y.
ThenAlong(H, K, s, d, y) == AlongRoute(K, <<s, d>>) = Append(AlongRoute(H, <<s, d>>), y)

(* What is put on the first link of a route comes last.                    *)
LEMMA AddedAlong ==
    ASSUME NEW T, NEW s \in Nodes, NEW d \in Nodes, s # d,
           NEW H \in Flow(T), NEW y \in T, NEW K, Added(H, K, Onto(s, d), y)
    PROVE  ThenAlong(H, K, s, d, y)
<1> DEFINE l == Onto(s, d)
           h == NextHop[<<s, d>>]
<1>1. l \in Links /\ h \in Nodes
  BY HopIsNode DEF Onto
<1>2. H \in [Links -> Seq(T)] /\ K \in Flow(T)
      /\ K[l] = Append(H[l], y) /\ \A k \in Links : k # l => K[k] = H[k]
  BY <1>1 DEF Flow, Added
<1>3. PICK f : SumsUp(T, f, H, s, d)
  BY AlongRouteSums
<1>4. PICK g : SumsUp(T, g, K, s, d)
  BY <1>2, AlongRouteSums
<1>5. \A n \in Nodes \ {d} : n # s => K[<<n, NextHop[<<n, d>>]>>] = H[<<n, NextHop[<<n, d>>]>>]
  BY <1>2, HopIsNode DEF Onto
<1>6. s \notin RouteFrom(h, d) /\ RouteFrom(h, d) \subseteq Nodes
  BY NoReturn DEF RouteFrom
<1>7. Agree(H, K, h, d)
  BY <1>5, <1>6 DEF Agree
<1>8. g[h] = f[h]
  <2> HIDE DEF h
  <2> QED
    BY <1>1, <1>3, <1>4, <1>7, SameSums DEF SumsUp
<1>9. f[s] = f[h] \o H[l] /\ g[s] = g[h] \o K[l]
  BY <1>3, <1>4 DEF SumsUp, RouteSums, Onto
<1>10. f[h] \in Seq(T) /\ H[l] \in Seq(T)
  BY <1>1, <1>2, <1>3 DEF SumsUp
<1> DEFINE a == f[h]
           b == H[l]
<1>12. a \in Seq(T) /\ b \in Seq(T)
  BY <1>10
<1> HIDE DEF h, l
<1>11. f[h] \o Append(H[l], y) = Append(f[h] \o H[l], y)
  <2> HIDE DEF a, b
  <2>1. a \o Append(b, y) = Append(a \o b, y)
    BY <1>12, AppendLast
  <2> QED
    BY <2>1 DEF a, b
<1> QED
  BY <1>2, <1>3, <1>4, <1>8, <1>9, <1>11 DEF SumsUp, ThenAlong

\* f and g tell of a flow before and after a change at node m.
Sums(T, f, g, H, K, s, m, d) ==
    /\ f \in [Nodes -> Seq(T)] /\ g \in [Nodes -> Seq(T)]
    /\ RouteSums(f, H, d) /\ RouteSums(g, K, d)
    /\ AlongRoute(H, <<s, d>>) = f[s] /\ AlongRoute(K, <<s, d>>) = g[s]
    /\ EndAlike(T, f, g, s, m)
    /\ f[m] = f[NextHop[<<m, d>>]] \o H[Onto(m, d)]
    /\ g[m] = g[NextHop[<<m, d>>]] \o K[Onto(m, d)]

(* What is told before and after a change at a node of the route.          *)
LEMMA SumsThere ==
    ASSUME NEW T, NEW s \in Nodes, NEW d \in Nodes, NEW m \in Nodes, m # d,
           m \in RouteFrom(s, d), NEW H \in Flow(T), NEW K \in Flow(T), ChangedAt(H, K, m, d)
    PROVE  \E f, g : /\ Sums(T, f, g, H, K, s, m, d)
                     /\ NextHop[<<m, d>>] # d =>
                          g[NextHop[<<NextHop[<<m, d>>], d>>]] = f[NextHop[<<NextHop[<<m, d>>], d>>]]
<1>3. PICK f : SumsUp(T, f, H, s, d)
  BY AlongRouteSums
<1>4. PICK g : SumsUp(T, g, K, s, d)
  BY AlongRouteSums
<1>6. /\ EndAlike(T, f, g, s, m)
      /\ NextHop[<<m, d>>] # d =>
            g[NextHop[<<NextHop[<<m, d>>], d>>]] = f[NextHop[<<NextHop[<<m, d>>], d>>]]
  BY <1>3, <1>4, ChangedSums
<1>7. /\ f[m] = f[NextHop[<<m, d>>]] \o H[Onto(m, d)]
      /\ g[m] = g[NextHop[<<m, d>>]] \o K[Onto(m, d)]
  BY <1>3, <1>4 DEF SumsUp, RouteSums, Onto
<1>8. Sums(T, f, g, H, K, s, m, d)
  BY <1>3, <1>4, <1>6, <1>7 DEF Sums, SumsUp
<1> QED
  BY <1>6, <1>8

(* The first packet on the last link of a route is the first of all.       *)
LEMMA TakenAlong ==
    ASSUME NEW T, NEW s \in Nodes, NEW d \in Nodes, NEW m \in Nodes, m # d,
           m \in RouteFrom(s, d), NextHop[<<m, d>>] = d,
           NEW H \in Flow(T), NEW K, Taken(H, K, Onto(m, d))
    PROVE  /\ AlongRoute(H, <<s, d>>) \in Seq(T) /\ AlongRoute(H, <<s, d>>) # <<>>
           /\ Head(AlongRoute(H, <<s, d>>)) = Head(H[Onto(m, d)])
           /\ AlongRoute(K, <<s, d>>) = Tail(AlongRoute(H, <<s, d>>))
<1> DEFINE l == Onto(m, d)
           b == H[l]
<1>1. l \in Links
  BY HopIsNode DEF Onto
<1>2. b \in Seq(T) /\ b # <<>> /\ K \in Flow(T) /\ K[l] = Tail(b)
      /\ \A k \in Links : k # l => K[k] = H[k]
  BY <1>1 DEF Flow, Taken
<1>3. ChangedAt(H, K, m, d)
  <2> SUFFICES ASSUME NEW n \in Nodes \ {d}, n # m
               PROVE  K[Onto(n, d)] = H[Onto(n, d)]
    BY DEF ChangedAt
  <2>1. Onto(n, d) \in Links /\ Onto(n, d) # l
    BY HopIsNode DEF Onto
  <2> QED
    BY <1>2, <2>1
<1> HIDE DEF l, b
<1>4. PICK f, g : Sums(T, f, g, H, K, s, m, d)
  BY <1>2, <1>3, SumsThere
<1>5. f[d] = <<>> /\ g[d] = <<>>
  BY <1>4 DEF Sums, RouteSums
<1>6. f[m] = f[d] \o b /\ g[m] = g[d] \o Tail(b)
  BY <1>2, <1>4 DEF Sums, b, l
<1>7. PICK z \in Seq(T) : f[s] = f[m] \o z /\ g[s] = g[m] \o z
  BY <1>4 DEF Sums, EndAlike
<1>8. f[m] = b /\ g[m] = Tail(b)
  BY <1>2, <1>5, <1>6
<1>9. b \o z \in Seq(T) /\ b \o z # <<>> /\ Head(b \o z) = Head(b) /\ Tail(b) \o z = Tail(b \o z)
  BY <1>2, <1>7, TakeFromFirst
<1>10. AlongRoute(H, <<s, d>>) = b \o z /\ AlongRoute(K, <<s, d>>) = Tail(b) \o z
  BY <1>4, <1>7, <1>8 DEF Sums
<1> QED
  BY <1>9, <1>10 DEF b, l

(* A packet that goes on from one link of a route to the next keeps its    *)
(* place.                                                                  *)
LEMMA ShiftedAlong ==
    ASSUME NEW T, NEW s \in Nodes, NEW d \in Nodes, NEW m \in Nodes, m # d,
           m \in RouteFrom(s, d), NEW h \in Nodes, h = NextHop[<<m, d>>], h # d,
           NEW H \in Flow(T), NEW K, Shifted(H, K, Onto(m, d), Onto(h, d))
    PROVE  AlongRoute(K, <<s, d>>) = AlongRoute(H, <<s, d>>)
<1> DEFINE l == Onto(m, d)
           k == Onto(h, d)
           b == H[l]
           v == H[k]
           j == NextHop[<<h, d>>]
<1>1. l \in Links /\ k \in Links /\ j \in Nodes /\ m # h
  <2>1. m \notin RouteFrom(h, d) /\ h \in RouteFrom(h, d)
    BY NoReturn, RouteSteps
  <2> QED
    BY <2>1, HopIsNode DEF Onto
<1>2. b \in Seq(T) /\ b # <<>> /\ v \in Seq(T)
  BY <1>1 DEF Flow, Shifted
<1>3. l # k
  BY <1>1 DEF Onto
<1>4. K \in Flow(T) /\ K[l] = Tail(b) /\ K[k] = Append(v, Head(b))
      /\ \A i \in Links : i # l /\ i # k => K[i] = H[i]
  <2>1. Tail(b) \in Seq(T) /\ Append(v, Head(b)) \in Seq(T)
    BY <1>2
  <2> HIDE DEF l, k
  <2> QED
    BY <1>1, <1>3, <2>1 DEF Flow, Shifted, l, k
<1>5. ChangedAt(H, K, m, d)
  <2> SUFFICES ASSUME NEW n \in Nodes \ {d}, n # m, n # h
               PROVE  K[Onto(n, d)] = H[Onto(n, d)]
    BY DEF ChangedAt
  <2>1. Onto(n, d) \in Links /\ Onto(n, d) # l /\ Onto(n, d) # k
    BY HopIsNode DEF Onto
  <2> QED
    BY <1>4, <2>1
<1> HIDE DEF l, k, b, v, j
<1>6. PICK f, g : Sums(T, f, g, H, K, s, m, d) /\ g[j] = f[j]
  BY <1>4, <1>5, SumsThere DEF j
<1>7. f[h] = f[j] \o v /\ g[h] = f[j] \o Append(v, Head(b)) /\ f[j] \in Seq(T)
  BY <1>1, <1>4, <1>6 DEF Sums, RouteSums, v, k, j, Onto
<1>8. f[m] = f[h] \o b /\ g[m] = g[h] \o Tail(b)
  BY <1>4, <1>6 DEF Sums, b, l
<1> DEFINE a == f[j]
<1>11. a \in Seq(T) /\ g[m] = (a \o Append(v, Head(b))) \o Tail(b) /\ f[m] = (a \o v) \o b
  BY <1>7, <1>8
<1> HIDE DEF a
<1>12. (a \o Append(v, Head(b))) \o Tail(b) = (a \o v) \o b
  BY <1>2, <1>11, MoveToNext
<1>9. g[m] = f[m]
  BY <1>11, <1>12
<1>10. g[s] = f[s]
  BY <1>6, <1>9 DEF Sums, EndAlike
<1> QED
  BY <1>6, <1>10 DEF Sums

\* Along the route from s to d, K tells what H tells but for one packet.
LessAlong(H, K, s, d) ==
    \E i \in DOMAIN AlongRoute(H, <<s, d>>) :
        AlongRoute(K, <<s, d>>) = RemoveAt(AlongRoute(H, <<s, d>>), i)

(* A packet taken from a link of a route is taken from the whole.          *)
LEMMA LostAlong ==
    ASSUME NEW T, NEW s \in Nodes, NEW d \in Nodes, NEW m \in Nodes, m # d,
           m \in RouteFrom(s, d),
           NEW H \in Flow(T), NEW K, Taken(H, K, Onto(m, d))
    PROVE  LessAlong(H, K, s, d)
<1> DEFINE l == Onto(m, d)
           b == H[l]
           h == NextHop[<<m, d>>]
<1>1. l \in Links /\ h \in Nodes
  BY HopIsNode DEF Onto
<1>2. b \in Seq(T) /\ b # <<>> /\ K \in Flow(T) /\ K[l] = Tail(b)
      /\ \A k \in Links : k # l => K[k] = H[k]
  BY <1>1 DEF Flow, Taken
<1>3. \A n \in Nodes \ {d} : n # m => K[Onto(n, d)] = H[Onto(n, d)]
  <2> SUFFICES ASSUME NEW n \in Nodes \ {d}, n # m
               PROVE  K[Onto(n, d)] = H[Onto(n, d)]
    OBVIOUS
  <2>1. Onto(n, d) \in Links /\ Onto(n, d) # l
    BY HopIsNode DEF Onto
  <2> QED
    BY <1>2, <2>1
<1>4. ChangedAt(H, K, m, d)
  BY <1>3 DEF ChangedAt
<1>5. Agree(H, K, h, d)
  <2>1. m \notin RouteFrom(h, d) /\ RouteFrom(h, d) \subseteq Nodes
    BY NoReturn DEF RouteFrom
  <2> QED
    BY <1>3, <2>1 DEF Agree, Onto
<1> HIDE DEF l, b, h
<1>6. PICK f, g : Sums(T, f, g, H, K, s, m, d)
  BY <1>2, <1>4, SumsThere
<1>7. g[h] = f[h] /\ f[h] \in Seq(T)
  BY <1>1, <1>5, <1>6, SameSums DEF Sums
<1>8. f[m] = f[h] \o b /\ g[m] = f[h] \o Tail(b)
  BY <1>2, <1>6, <1>7 DEF Sums, b, l, h
<1>9. PICK z \in Seq(T) : f[s] = f[m] \o z /\ g[s] = g[m] \o z
  BY <1>6 DEF Sums, EndAlike
<1> DEFINE a == f[h]
<1>10. a \in Seq(T) /\ f[s] = (a \o b) \o z /\ g[s] = (a \o Tail(b)) \o z
  BY <1>7, <1>8, <1>9
<1> HIDE DEF a
<1>11. Len(a) + 1 \in DOMAIN ((a \o b) \o z)
       /\ (a \o Tail(b)) \o z = RemoveAt((a \o b) \o z, Len(a) + 1)
  BY <1>2, <1>9, <1>10, LoseNext
<1>12. Len(a) + 1 \in DOMAIN f[s] /\ g[s] = RemoveAt(f[s], Len(a) + 1)
  BY <1>10, <1>11
<1> QED
  BY <1>6, <1>12 DEF Sums, LessAlong

-----------------------------------------------------------------------------
(* Flights: what travels and waits on each link                            *)

\* What travels over link l from c[1] to c[2].
Arrivals(c, l) == {e \in Events : ~e.trans /\ e.link = l /\ IsOf(e.packet, c)}
PacketsOf(c) == {p \in Packet : IsOf(p, c)}
EventId == [e \in Events |-> e.packet.id]
PacketId == [p \in Packet |-> p.id]

(* What travels on a link is chosen among the events, oldest first.        *)
LEMMA FlyingChosen ==
    ASSUME NEW map \in Seq(Events), NEW c, NEW l
    PROVE  Flying(map, c, l) = Chosen(map, Arrivals(c, l), EventId) /\ Tells(EventId, map, Events, Nat)
<1>1. \A i \in DOMAIN map : map[i] \in Events
  OBVIOUS
<1>2. \A e \in Events : EventId[e] = e.packet.id
  BY DEF EventId
<1>3. [i \in DOMAIN map |-> map[i].packet.id] = [i \in DOMAIN map |-> EventId[map[i]]]
  BY <1>1, <1>2
<1>4. {i \in DOMAIN map : ~map[i].trans /\ map[i].link = l /\ IsOf(map[i].packet, c)}
      = {i \in DOMAIN map : map[i] \in Arrivals(c, l)}
  BY <1>1 DEF Arrivals
<1>5. EventId \in [Events -> Nat]
  BY DEF EventId, Events, Packet
<1> QED
  BY <1>3, <1>4, <1>5 DEF Flying, Chosen, Tells

(* What waits in a queue is chosen among its packets.                      *)
LEMMA WaitingChosen ==
    ASSUME NEW q \in Seq(Packet), NEW c
    PROVE  Waiting(q, c) = Chosen(q, PacketsOf(c), PacketId) /\ Tells(PacketId, q, Packet, Nat)
<1>1. \A i \in DOMAIN q : q[i] \in Packet
  OBVIOUS
<1>2. \A p \in Packet : PacketId[p] = p.id
  BY DEF PacketId
<1>3. Ids(q) = [i \in DOMAIN q |-> PacketId[q[i]]]
  BY <1>1, <1>2 DEF Ids
<1>4. {i \in DOMAIN q : IsOf(q[i], c)} = {i \in DOMAIN q : q[i] \in PacketsOf(c)}
  BY <1>1 DEF PacketsOf
<1>5. PacketId \in [Packet -> Nat]
  BY DEF PacketId, Packet
<1> QED
  BY <1>3, <1>4, <1>5 DEF Waiting, Chosen, Tells

\* What travels and waits on each link from c[1] to c[2].
Flights(map, queue, c) ==
    [l \in Links |-> Flying(map, c, l) \o Waiting(queue[l], c)]

LEMMA FlightsTyped ==
    ASSUME NEW map \in Seq(Events), NEW queue \in [Links -> Seq(Packet)], NEW c, NEW l \in Links
    PROVE  /\ Flying(map, c, l) \in Seq(Nat) /\ Waiting(queue[l], c) \in Seq(Nat)
           /\ Flights(map, queue, c) \in Flow(Nat)
           /\ Flights(map, queue, c)[l] = Flying(map, c, l) \o Waiting(queue[l], c)
<1>1. \A k \in Links : Flying(map, c, k) \in Seq(Nat)
  BY FlyingChosen, ChosenSeq
<1>2. \A k \in Links : Waiting(queue[k], c) \in Seq(Nat)
  <2>1. \A k \in Links : queue[k] \in Seq(Packet)
    OBVIOUS
  <2> QED
    BY <2>1, WaitingChosen, ChosenSeq
<1>3. \A k \in Links : Flying(map, c, k) \o Waiting(queue[k], c) \in Seq(Nat)
  BY <1>1, <1>2
<1>4. Flights(map, queue, c) \in Flow(Nat)
  BY <1>3, Zenon DEF Flights, Flow
<1>5. Flights(map, queue, c)[l] = Flying(map, c, l) \o Waiting(queue[l], c)
  BY DEF Flights
<1> QED
  BY <1>1, <1>2, <1>4, <1>5

-----------------------------------------------------------------------------
(* Transmissions                                                           *)

\* On each link the packets arrive in the order they were transmitted.
InOrder(map, now, busy) ==
    \A e \in ToSet(map) : ~e.trans =>
        /\ e.link \notin busy => e.time <= now + Latency[e.link]
        /\ \A k \in ToSet(map) : k.trans /\ k.link = e.link => e.time <= k.time + Latency[e.link]

(* An arrival that is the latest of its flow comes last.                   *)
LEMMA FlyingSchedule ==
    ASSUME NEW map \in Seq(Events), Sorted(map), NEW e \in Events, NEW c, NEW l,
           LatestOf(map, e, Arrivals(c, l))
    PROVE  Flying(Schedule(map, e), c, l) =
              IF e \in Arrivals(c, l) THEN Append(Flying(map, c, l), e.packet.id)
              ELSE Flying(map, c, l)
<1>1. \A r \in Events : r.time \in Int
  BY DEF Events
<1>7. Timed(Events)
  BY <1>1 DEF Timed
<1>2. Schedule(map, e) \in Seq(Events)
  BY <1>1, ScheduleShape
<1>3. Flying(Schedule(map, e), c, l) = Chosen(Schedule(map, e), Arrivals(c, l), EventId)
  BY <1>2, FlyingChosen
<1>4. Flying(map, c, l) = Chosen(map, Arrivals(c, l), EventId) /\ Tells(EventId, map, Events, Nat)
  BY FlyingChosen
<1>5. EventId[e] = e.packet.id
  BY DEF EventId
<1>6. Chosen(Schedule(map, e), Arrivals(c, l), EventId) =
        IF e \in Arrivals(c, l) THEN Append(Chosen(map, Arrivals(c, l), EventId), EventId[e])
        ELSE Chosen(map, Arrivals(c, l), EventId)
  <2> DEFINE K == Arrivals(c, l)
  <2>1. Tells(EventId, map, Events, Nat) /\ LatestOf(map, e, K)
    BY <1>4
  <2> HIDE DEF K
  <2>2. Chosen(Schedule(map, e), K, EventId) =
          IF e \in K THEN Append(Chosen(map, K, EventId), EventId[e])
          ELSE Chosen(map, K, EventId)
    BY <1>7, <2>1, ChosenSchedule
  <2> QED
    BY <2>2 DEF K
<1> QED
  BY <1>3, <1>4, <1>5, <1>6

(* A transmission on an idle link: its packet comes last of those there.   *)
LEMMA FlyingTransmit ==
    ASSUME NEW map, NEW now, NEW busy, EventsOK(map, now, busy), InOrder(map, now, busy),
           NEW link \in Links \ busy, NEW p \in Packet, NEW c, NEW l
    PROVE  Flying(Transmit(map, now, link, p), c, l) =
              IF link = l /\ IsOf(p, c) THEN Append(Flying(map, c, l), p.id)
              ELSE Flying(map, c, l)
<1> DEFINE arrival == Event(now + LinkDelay(link, p), link, p, FALSE)
           completion == Event(now + TransTime(link, p), link, p, TRUE)
           mid == Schedule(map, arrival)
           K == Arrivals(c, l)
<1>1. now \in Nat /\ Latency[link] \in Nat /\ TransTime(link, p) \in Nat
      /\ LinkDelay(link, p) = Latency[link] + TransTime(link, p)
      /\ map \in Seq(Events) /\ Sorted(map)
  BY LinkTimes DEF EventsOK, Packet
<1>2. /\ arrival \in Events /\ ~arrival.trans /\ arrival.link = link /\ arrival.packet = p
      /\ arrival.time = now + LinkDelay(link, p)
      /\ completion \in Events /\ completion.trans
  BY <1>1 DEF Events, Event
<1> HIDE DEF arrival, completion
<1>3. arrival \in K <=> link = l /\ IsOf(p, c)
  BY <1>2 DEF Arrivals
<1>4. completion \notin K
  BY <1>2 DEF Arrivals
<1>5. LatestOf(map, arrival, K)
  <2> SUFFICES ASSUME arrival \in K, NEW i \in DOMAIN map, map[i] \in K
               PROVE  map[i].time <= arrival.time
    BY DEF LatestOf
  <2>1. i \in 1 .. Len(map) /\ ~map[i].trans /\ map[i].link = link /\ map[i].time \in Nat
    BY <1>1, <1>3 DEF Arrivals, Events
  <2>3. map[i] \in ToSet(map)
    BY <1>1, <2>1, Holds
  <2>2. map[i].time <= now + Latency[link]
    BY <2>1, <2>3 DEF InOrder
  <2> QED
    BY <1>1, <1>2, <2>1, <2>2
<1>6. Flying(mid, c, l) = IF arrival \in K THEN Append(Flying(map, c, l), arrival.packet.id)
                          ELSE Flying(map, c, l)
  BY <1>1, <1>2, <1>5, FlyingSchedule
<1>7. mid \in Seq(Events) /\ Sorted(mid)
  <2>1. \A r \in Events : r.time \in Int
    BY DEF Events
  <2> QED
    BY <1>1, <1>2, <2>1, ScheduleShape, ScheduleSorted
<1>8. LatestOf(mid, completion, K)
  BY <1>4 DEF LatestOf
<1> HIDE DEF mid, K
<1>9. Flying(Schedule(mid, completion), c, l) = Flying(mid, c, l)
  BY <1>2, <1>4, <1>7, <1>8, FlyingSchedule DEF K
<1>10. Transmit(map, now, link, p) = Schedule(mid, completion)
  BY DEF Transmit, mid, arrival, completion
<1> QED
  BY <1>2, <1>3, <1>6, <1>9, <1>10

(* The first event is taken.                                               *)
LEMMA FlyingTail ==
    ASSUME NEW map \in Seq(Events), map # <<>>, NEW c, NEW l
    PROVE  Flying(map, c, l) =
              IF Head(map) \in Arrivals(c, l)
              THEN Before(Head(map).packet.id, Flying(Tail(map), c, l))
              ELSE Flying(Tail(map), c, l)
<1>1. Tail(map) \in Seq(Events) /\ Head(map) \in Events
  OBVIOUS
<1>2. Flying(Tail(map), c, l) = Chosen(Tail(map), Arrivals(c, l), EventId)
  BY <1>1, FlyingChosen
<1>3. Flying(map, c, l) = Chosen(map, Arrivals(c, l), EventId) /\ Tells(EventId, map, Events, Nat)
  BY FlyingChosen
<1>4. EventId[Head(map)] = Head(map).packet.id
  BY <1>1 DEF EventId
<1> QED
  BY <1>2, <1>3, <1>4, ChosenTail

(* A packet that joins a queue is the last one of its pair.                *)
LEMMA WaitingAppend ==
    ASSUME NEW q \in Seq(Packet), NEW p \in Packet, NEW c
    PROVE  Waiting(Append(q, p), c) = IF IsOf(p, c) THEN Append(Waiting(q, c), p.id)
                                                    ELSE Waiting(q, c)
<1>1. Append(q, p) \in Seq(Packet)
  OBVIOUS
<1>2. Waiting(Append(q, p), c) = Chosen(Append(q, p), PacketsOf(c), PacketId)
  BY <1>1, WaitingChosen
<1>3. Waiting(q, c) = Chosen(q, PacketsOf(c), PacketId) /\ Tells(PacketId, q, Packet, Nat)
  BY WaitingChosen
<1>4. PacketId[p] = p.id /\ (p \in PacketsOf(c) <=> IsOf(p, c))
  BY DEF PacketId, PacketsOf
<1> QED
  BY <1>2, <1>3, <1>4, ChosenAppend

(* The head of a queue leaves it.                                          *)
LEMMA WaitingTail ==
    ASSUME NEW q \in Seq(Packet), q # <<>>, NEW c
    PROVE  Waiting(q, c) = IF IsOf(Head(q), c) THEN Before(Head(q).id, Waiting(Tail(q), c))
                                               ELSE Waiting(Tail(q), c)
<1>1. Tail(q) \in Seq(Packet) /\ Head(q) \in Packet
  OBVIOUS
<1>2. Waiting(Tail(q), c) = Chosen(Tail(q), PacketsOf(c), PacketId)
  BY <1>1, WaitingChosen
<1>3. Waiting(q, c) = Chosen(q, PacketsOf(c), PacketId) /\ Tells(PacketId, q, Packet, Nat)
  BY WaitingChosen
<1>4. PacketId[Head(q)] = Head(q).id /\ (Head(q) \in PacketsOf(c) <=> IsOf(Head(q), c))
  BY <1>1 DEF PacketId, PacketsOf
<1> QED
  BY <1>2, <1>3, <1>4, ChosenTail

-----------------------------------------------------------------------------
(* What a link carries                                                     *)

\* Packet p goes over link l on its way.
Routed(l, p) ==
    /\ <<p.source, p.destination>> \in Pairs
    /\ l[1] # p.destination /\ l[1] \in RouteFrom(p.source, p.destination)
    /\ l = Onto(l[1], p.destination)

\* The events of map at time now, while the links in busy are in use.
MapOK(map, now, busy) ==
    /\ EventsOK(map, now, busy)
    /\ \A e \in ToSet(map) : Routed(e.link, e.packet)
    /\ InOrder(map, now, busy)

QueuesRouted(queue) == \A l \in Links : \A p \in ToSet(queue[l]) : Routed(l, p)

PathInv ==
    /\ MapOK(packet_map, clock, pending_send)
    /\ QueuesRouted(packet_queue)
    /\ received \in [Hosts \X Hosts -> Seq(Packet)]

LEMMA EventTimes == \A e \in Events : e.time \in Int
BY DEF Events

LEMMA ScheduleEvents ==
    ASSUME NEW map \in Seq(Events), Sorted(map), NEW e \in Events
    PROVE  /\ Schedule(map, e) \in Seq(Events) /\ Sorted(Schedule(map, e))
           /\ ToSet(Schedule(map, e)) = ToSet(map) \cup {e}
BY EventTimes, ScheduleHolds

(* A transmission on an idle link keeps the events on their routes and in  *)
(* the order they were sent.                                               *)
LEMMA TransmitCarries ==
    ASSUME NEW map, NEW now, NEW busy, MapOK(map, now, busy),
           NEW link \in Links \ busy, NEW p \in Packet, Routed(link, p)
    PROVE  MapOK(Transmit(map, now, link, p), now, busy \cup {link})
<1> DEFINE arrival == Event(now + LinkDelay(link, p), link, p, FALSE)
           completion == Event(now + TransTime(link, p), link, p, TRUE)
           mid == Schedule(map, arrival)
           new == Schedule(mid, completion)
<1>1. now \in Nat /\ Latency[link] \in Nat /\ TransTime(link, p) \in Nat
      /\ LinkDelay(link, p) = Latency[link] + TransTime(link, p)
      /\ map \in Seq(Events) /\ Sorted(map) /\ EventsOK(map, now, busy)
  BY LinkTimes DEF EventsOK, Packet, MapOK
<1>2. /\ arrival \in Events /\ ~arrival.trans /\ arrival.link = link /\ arrival.packet = p
      /\ arrival.time = now + LinkDelay(link, p)
      /\ completion \in Events /\ completion.trans /\ completion.link = link
      /\ completion.packet = p /\ completion.time = now + TransTime(link, p)
  BY <1>1 DEF Events, Event
<1>3. Transmit(map, now, link, p) = new
  BY DEF Transmit
<1> HIDE DEF arrival, completion
<1>4. mid \in Seq(Events) /\ Sorted(mid) /\ ToSet(mid) = ToSet(map) \cup {arrival}
  BY <1>1, <1>2, ScheduleEvents
<1> HIDE DEF mid
<1>5. ToSet(new) = ToSet(mid) \cup {completion}
  BY <1>2, <1>4, ScheduleEvents
<1> HIDE DEF new
<1>6. EventsOK(new, now, busy \cup {link})
  BY <1>1, <1>3, TransmitOK
<1>7. \A e \in ToSet(new) : Routed(e.link, e.packet)
  BY <1>2, <1>4, <1>5 DEF MapOK
<1>8. InOrder(new, now, busy \cup {link})
  <2> SUFFICES ASSUME NEW e \in ToSet(map) \cup {arrival}, ~e.trans
               PROVE  /\ e.link \notin busy \cup {link} => e.time <= now + Latency[e.link]
                      /\ \A k \in ToSet(map) \cup {completion} :
                           k.trans /\ k.link = e.link => e.time <= k.time + Latency[e.link]
    BY <1>2, <1>4, <1>5 DEF InOrder
  <2>1. ToSet(map) \in SUBSET Events
    BY <1>1, Holds
  <2>2. CASE e \in ToSet(map) /\ e.link # link
    BY <1>2, <2>2 DEF MapOK, InOrder
  <2>3. CASE e \in ToSet(map) /\ e.link = link
    <3>1. e.time <= now + Latency[link] /\ e.time \in Nat
      BY <2>1, <2>3 DEF MapOK, InOrder, Events
    <3>2. e.time <= completion.time + Latency[link]
      BY <1>1, <1>2, <3>1
    <3> QED
      BY <2>3, <3>2 DEF MapOK, InOrder
  <2>4. CASE e = arrival
    <3>1. \A k \in ToSet(map) : k.trans => k.link # link
      <4> SUFFICES ASSUME NEW k \in ToSet(map), k.trans
                   PROVE  k.link # link
        OBVIOUS
      <4>1. PICK i \in 1 .. Len(map) : k = map[i]
        BY <1>1, Holds
      <4>2. k.link \in Completing(map)
        BY <2>1, <4>1 DEF Completing, Events
      <4> QED
        BY <1>1, <4>2 DEF EventsOK
    <3>2. arrival.time <= completion.time + Latency[link]
      BY <1>1, <1>2
    <3> QED
      BY <1>2, <2>4, <3>1, <3>2
  <2> QED
    BY <2>2, <2>3, <2>4
<1> QED
  BY <1>3, <1>6, <1>7, <1>8 DEF MapOK

(* So does taking the first event.                                         *)
LEMMA FirstCarries ==
    ASSUME NEW map, NEW now, NEW busy, MapOK(map, now, busy), map # <<>>, NEW e, e = Head(map)
    PROVE  /\ e \in Events /\ Routed(e.link, e.packet) /\ map \in Seq(Events)
           /\ MapOK(Tail(map), e.time, IF e.trans THEN busy \ {e.link} ELSE busy)
<1> DEFINE free == IF e.trans THEN busy \ {e.link} ELSE busy
<1>1. map \in Seq(Events) /\ Sorted(map) /\ now \in Nat /\ EventsOK(map, now, busy)
  BY DEF MapOK, EventsOK
<1>2. e \in Events /\ now <= e.time /\ EventsOK(Tail(map), e.time, free)
  BY <1>1, TakeFirst
<1>3. ToSet(map) = ToSet(Tail(map)) \cup {e}
  BY <1>1, EventTimes, TailHolds
<1>4. InOrder(Tail(map), e.time, free)
  <2> SUFFICES ASSUME NEW a \in ToSet(Tail(map)), ~a.trans
               PROVE  /\ a.link \notin free => a.time <= e.time + Latency[a.link]
                      /\ \A k \in ToSet(Tail(map)) :
                           k.trans /\ k.link = a.link => a.time <= k.time + Latency[a.link]
    BY DEF InOrder
  <2>1. a \in ToSet(map) /\ e \in ToSet(map)
    BY <1>3
  <2>5. a \in Events
    BY <1>1, <2>1, Holds
  <2>2. a.time \in Nat /\ Latency[a.link] \in Nat /\ e.time \in Nat
    BY <1>2, <2>5, TimesAssumption DEF Events
  <2>3. \A k \in ToSet(map) : k.trans /\ k.link = a.link => a.time <= k.time + Latency[a.link]
    BY <2>1 DEF MapOK, InOrder
  <2>4. ASSUME a.link \notin free
        PROVE  a.time <= e.time + Latency[a.link]
    <3>1. CASE a.link \notin busy
      <4>1. a.time <= now + Latency[a.link]
        BY <2>1, <3>1 DEF MapOK, InOrder
      <4> QED
        BY <1>1, <1>2, <2>2, <4>1
    <3>2. CASE a.link \in busy
      BY <2>1, <2>3, <2>4, <3>2
    <3> QED
      BY <3>1, <3>2
  <2> QED
    BY <1>3, <2>3, <2>4
<1> QED
  BY <1>1, <1>2, <1>3, <1>4 DEF MapOK

(* And so does time that passes before the first event.                    *)
LEMMA LaterCarries ==
    ASSUME NEW map, NEW now, NEW busy, MapOK(map, now, busy), NEW t \in Nat, now <= t,
           map # <<>> => t <= Head(map).time
    PROVE  MapOK(map, t, busy)
<1>1. map \in Seq(Events) /\ now \in Nat /\ EventsOK(map, now, busy)
  BY DEF MapOK, EventsOK
<1>2. EventsOK(map, t, busy)
  BY <1>1, TimePasses
<1>3. InOrder(map, t, busy)
  <2> SUFFICES ASSUME NEW a \in ToSet(map), ~a.trans, a.link \notin busy
               PROVE  a.time <= t + Latency[a.link]
    BY DEF MapOK, InOrder
  <2>1. a.time <= now + Latency[a.link]
    BY DEF MapOK, InOrder
  <2>3. a \in Events
    BY <1>1, Holds
  <2>2. a.time \in Nat /\ Latency[a.link] \in Nat
    BY <2>3, TimesAssumption DEF Events
  <2> QED
    BY <1>1, <2>1, <2>2
<1> QED
  BY <1>2, <1>3 DEF MapOK

-----------------------------------------------------------------------------
(* The flows                                                               *)

LEMMA BeforeTyped ==
    ASSUME NEW T, NEW x \in T, NEW s \in Seq(T)
    PROVE  /\ Before(x, s) \in Seq(T) /\ Before(x, s) # <<>>
           /\ Head(Before(x, s)) = x /\ Tail(Before(x, s)) = s
BY DEF Before

LEMMA AppendBefore ==
    ASSUME NEW T, NEW a \in Seq(T), NEW x \in T, NEW b \in Seq(T)
    PROVE  Append(a, x) \o b = a \o Before(x, b)
BY DEF Before

LEMMA TailElements ==
    ASSUME NEW T, NEW q \in Seq(T), q # <<>>
    PROVE  /\ Head(q) \in T /\ Tail(q) \in Seq(T)
           /\ Head(q) \in ToSet(q) /\ ToSet(Tail(q)) \subseteq ToSet(q)
<1> DEFINE t == Tail(q)
<1>1. Len(q) \in Nat \ {0} /\ Len(t) = Len(q) - 1 /\ Head(q) = q[1]
      /\ Head(q) \in T /\ t \in Seq(T)
      /\ \A i \in 1 .. Len(q) - 1 : t[i] = q[i + 1]
  OBVIOUS
<1> HIDE DEF t
<1>2. ToSet(q) = {q[i] : i \in 1 .. Len(q)}
  BY Holds
<1>3. ToSet(t) = {t[i] : i \in 1 .. Len(t)}
  BY <1>1, Holds
<1>4. 1 \in 1 .. Len(q) /\ \A i \in 1 .. Len(t) : i + 1 \in 1 .. Len(q) /\ i \in 1 .. Len(q) - 1
  BY <1>1
<1>5. \A i \in 1 .. Len(t) : t[i] \in ToSet(q)
  BY <1>1, <1>2, <1>4
<1>6. ToSet(t) \subseteq ToSet(q) /\ Head(q) \in ToSet(q)
  BY <1>1, <1>2, <1>3, <1>4, <1>5
<1> QED
  BY <1>1, <1>6 DEF t

LEMMA AppendElements ==
    ASSUME NEW T, NEW q \in Seq(T), NEW x \in T
    PROVE  Append(q, x) \in Seq(T) /\ \A y \in ToSet(Append(q, x)) : y = x \/ y \in ToSet(q)
<1> DEFINE a == Append(q, x)
<1>1. a \in Seq(T) /\ Len(q) \in Nat /\ Len(a) = Len(q) + 1
      /\ \A i \in 1 .. Len(q) + 1 : a[i] = IF i = Len(q) + 1 THEN x ELSE q[i]
  OBVIOUS
<1> HIDE DEF a
<1>2. ToSet(q) = {q[i] : i \in 1 .. Len(q)}
  BY Holds
<1>3. ToSet(a) = {a[i] : i \in 1 .. Len(a)}
  BY <1>1, Holds
<1>4. \A i \in 1 .. Len(q) + 1 : i = Len(q) + 1 \/ i \in 1 .. Len(q)
  BY <1>1
<1>5. \A i \in 1 .. Len(a) : a[i] = x \/ a[i] \in ToSet(q)
  BY <1>1, <1>2, <1>4
<1>6. \A y \in ToSet(a) : y = x \/ y \in ToSet(q)
  BY <1>3, <1>5
<1> QED
  BY <1>1, <1>6 DEF a

(* send_it moves a packet from the queue to the link: the flow stays.      *)
LEMMA SendItFlows ==
    ASSUME NEW map, NEW now, NEW busy, MapOK(map, now, busy),
           NEW link \in Links, NEW q \in Seq(Packet), \A p \in ToSet(q) : Routed(link, p),
           packet_queue \in [Links -> Seq(Packet)], QueuesRouted(packet_queue),
           SendIt(now, map, link, q, busy)
    PROVE  /\ MapOK(packet_map', now, pending_send')
           /\ packet_queue' \in [Links -> Seq(Packet)] /\ QueuesRouted(packet_queue')
           /\ \A c : Flights(packet_map', packet_queue', c)
                     = Flights(map, [packet_queue EXCEPT ![link] = q], c)
<1>1. CASE link \in busy \/ q = <<>>
  <2>1. /\ packet_map' = map
        /\ packet_queue' = [packet_queue EXCEPT ![link] = q]
        /\ pending_send' = busy
    BY <1>1 DEF SendIt
  <2> QED
    BY <2>1 DEF QueuesRouted
<1>2. CASE ~(link \in busy \/ q = <<>>)
  <2> DEFINE p == Head(q)
             new == Transmit(map, now, link, p)
             before == [packet_queue EXCEPT ![link] = q]
             after == [packet_queue EXCEPT ![link] = Tail(q)]
  <2>1. packet_map' = new /\ packet_queue' = after /\ pending_send' = busy \cup {link}
    BY <1>2 DEF SendIt
  <2>2. p \in Packet /\ Tail(q) \in Seq(Packet) /\ p \in ToSet(q)
        /\ ToSet(Tail(q)) \subseteq ToSet(q)
    BY <1>2, TailElements
  <2>3. Routed(link, p)
    BY <2>2
  <2>4. MapOK(new, now, busy \cup {link})
    BY <1>2, <2>2, <2>3, TransmitCarries
  <2>5. after \in [Links -> Seq(Packet)] /\ before \in [Links -> Seq(Packet)]
        /\ after[link] = Tail(q) /\ before[link] = q
        /\ \A l \in Links : l # link => after[l] = before[l]
    BY <2>2
  <2>6. QueuesRouted(after)
    BY <2>2, <2>5 DEF QueuesRouted
  <2> HIDE DEF before, after, p
  <2>7. ASSUME NEW c, NEW l \in Links
        PROVE  Flying(new, c, l) \o Waiting(after[l], c) = Flying(map, c, l) \o Waiting(before[l], c)
    <3>1. Flying(new, c, l) = IF link = l /\ IsOf(p, c) THEN Append(Flying(map, c, l), p.id)
                              ELSE Flying(map, c, l)
      BY <1>2, <2>2, FlyingTransmit DEF MapOK
    <3>2. Waiting(q, c) = IF IsOf(p, c) THEN Before(p.id, Waiting(Tail(q), c))
                                        ELSE Waiting(Tail(q), c)
      BY <1>2, WaitingTail DEF p
    <3>3. Flying(map, c, l) \in Seq(Nat) /\ Waiting(Tail(q), c) \in Seq(Nat) /\ p.id \in Nat
      <4>1. map \in Seq(Events)
        BY DEF MapOK, EventsOK
      <4>2. Flying(map, c, l) \in Seq(Nat)
        BY <2>5, <4>1, FlightsTyped
      <4>3. Waiting(after[link], c) \in Seq(Nat)
        BY <2>5, <4>1, FlightsTyped
      <4> QED
        BY <2>2, <2>5, <4>2, <4>3 DEF Packet
    <3>4. Append(Flying(map, c, l), p.id) \o Waiting(Tail(q), c)
          = Flying(map, c, l) \o Before(p.id, Waiting(Tail(q), c))
      <4> DEFINE F == Flying(map, c, l)
                 W == Waiting(Tail(q), c)
                 x == p.id
      <4>1. F \in Seq(Nat) /\ W \in Seq(Nat) /\ x \in Nat
        BY <3>3
      <4> HIDE DEF F, W, x
      <4>2. Append(F, x) \o W = F \o Before(x, W)
        BY <4>1 DEF Before
      <4> QED
        BY <4>2 DEF F, W, x
    <3>5. CASE l = link /\ IsOf(p, c)
      BY <2>5, <3>1, <3>2, <3>4, <3>5
    <3>6. CASE ~(l = link /\ IsOf(p, c))
      BY <2>5, <3>1, <3>2, <3>6
    <3> QED
      BY <3>5, <3>6
  <2>8. \A c : Flights(new, after, c) = Flights(map, before, c)
    BY <2>7 DEF Flights
  <2> HIDE DEF new
  <2> QED
    BY <2>1, <2>4, <2>5, <2>6, <2>8 DEF before
<1> QED
  BY <1>1, <1>2

\* The queue of link l takes no packet.
Full(l) == ~(Len(packet_queue[l]) < Capacity[l[1]])

(* A packet that joins a queue is the last of its flow on the link.        *)
LEMMA EnqueueFlows ==
    ASSUME NEW map, NEW now, MapOK(map, now, pending_send),
           packet_queue \in [Links -> Seq(Packet)], QueuesRouted(packet_queue),
           NEW link \in Links, NEW p \in Packet, Routed(link, p), Enqueue(now, map, link, p)
    PROVE  /\ MapOK(packet_map', now, pending_send') /\ QueuesRouted(packet_queue')
           /\ \/ /\ Full(link)
                 /\ \A c : Flights(packet_map', packet_queue', c) = Flights(map, packet_queue, c)
              \/ \A c : IF IsOf(p, c)
                        THEN Added(Flights(map, packet_queue, c),
                                   Flights(packet_map', packet_queue', c), link, p.id)
                        ELSE Flights(packet_map', packet_queue', c) = Flights(map, packet_queue, c)
<1>1. CASE Len(packet_queue[link]) < Capacity[link[1]]
  <2> DEFINE q == Append(packet_queue[link], p)
             after == [packet_queue EXCEPT ![link] = q]
  <2>1. packet_queue[link] \in Seq(Packet) /\ q \in Seq(Packet)
    OBVIOUS
  <2>2. \A x \in ToSet(q) : Routed(link, x)
    <3>1. \A x \in ToSet(q) : x = p \/ x \in ToSet(packet_queue[link])
      BY <2>1, AppendElements
    <3> HIDE DEF q
    <3> QED
      BY <3>1 DEF QueuesRouted
  <2>3. SendIt(now, map, link, q, pending_send)
    BY <1>1 DEF Enqueue
  <2> HIDE DEF q
  <2>4. /\ MapOK(packet_map', now, pending_send') /\ QueuesRouted(packet_queue')
        /\ \A c : Flights(packet_map', packet_queue', c) = Flights(map, after, c)
    BY <2>1, <2>2, <2>3, SendItFlows
  <2>5. after \in [Links -> Seq(Packet)] /\ after[link] = q
        /\ \A l \in Links : l # link => after[l] = packet_queue[l]
    BY <2>1
  <2>6. map \in Seq(Events)
    BY DEF MapOK, EventsOK
  <2>7. ASSUME NEW c
        PROVE  IF IsOf(p, c) THEN Added(Flights(map, packet_queue, c), Flights(map, after, c),
                                        link, p.id)
               ELSE Flights(map, after, c) = Flights(map, packet_queue, c)
    <3> DEFINE H == Flights(map, packet_queue, c)
               K == Flights(map, after, c)
               F == Flying(map, c, link)
               W == Waiting(packet_queue[link], c)
    <3>1. /\ \A l \in Links : K[l] = Flying(map, c, l) \o Waiting(after[l], c)
          /\ \A l \in Links : H[l] = Flying(map, c, l) \o Waiting(packet_queue[l], c)
          /\ H = [l \in Links |-> H[l]] /\ K = [l \in Links |-> K[l]]
      BY DEF Flights
    <3>2. F \in Seq(Nat) /\ W \in Seq(Nat) /\ p.id \in Nat
      BY <2>6, FlightsTyped DEF Packet
    <3>3. Waiting(q, c) = IF IsOf(p, c) THEN Append(W, p.id) ELSE W
      BY <2>1, WaitingAppend DEF q
    <3>4. \A l \in Links : l # link => K[l] = H[l]
      BY <2>5, <3>1
    <3>5. H[link] = F \o W /\ K[link] = F \o Waiting(q, c)
      BY <2>5, <3>1
    <3> HIDE DEF H, K, F, W
    <3>6. F \o Append(W, p.id) = Append(F \o W, p.id)
      BY <3>2, AppendLast
    <3>7. CASE IsOf(p, c)
      <4>1. K[link] = Append(H[link], p.id)
        BY <3>3, <3>5, <3>6, <3>7
      <4>2. K = [H EXCEPT ![link] = Append(@, p.id)]
        BY <3>1, <3>4, <4>1
      <4> QED
        BY <3>7, <4>2 DEF Added, H, K
    <3>8. CASE ~IsOf(p, c)
      <4>1. K[link] = H[link]
        BY <3>3, <3>5, <3>8
      <4>2. K = H
        BY <3>1, <3>4, <4>1
      <4> QED
        BY <3>8, <4>2 DEF H, K
    <3> QED
      BY <3>7, <3>8
  <2> HIDE DEF after
  <2> QED
    BY <2>4, <2>7
<1>2. CASE ~(Len(packet_queue[link]) < Capacity[link[1]])
  <2>1. packet_map' = map /\ packet_queue' = packet_queue /\ pending_send' = pending_send
    BY <1>2 DEF Enqueue
  <2> QED
    BY <1>2, <2>1 DEF Full
<1> QED
  BY <1>1, <1>2

(* The first event is taken: if it is an arrival, from its flow.           *)
LEMMA FirstFlows ==
    ASSUME NEW map \in Seq(Events), map # <<>>, NEW e, e = Head(map),
           NEW queue \in [Links -> Seq(Packet)], NEW c
    PROVE  IF ~e.trans /\ IsOf(e.packet, c)
           THEN /\ Taken(Flights(map, queue, c), Flights(Tail(map), queue, c), e.link)
                /\ Head(Flights(map, queue, c)[e.link]) = e.packet.id
           ELSE Flights(Tail(map), queue, c) = Flights(map, queue, c)
<1> DEFINE H == Flights(map, queue, c)
           K == Flights(Tail(map), queue, c)
           l == e.link
           F == Flying(Tail(map), c, l)
           W == Waiting(queue[l], c)
           x == e.packet.id
<1>1. /\ \A k \in Links : K[k] = Flying(Tail(map), c, k) \o Waiting(queue[k], c)
      /\ \A k \in Links : H[k] = Flying(map, c, k) \o Waiting(queue[k], c)
      /\ H = [k \in Links |-> H[k]] /\ K = [k \in Links |-> K[k]]
  BY DEF Flights
<1>2. e \in Events /\ Tail(map) \in Seq(Events)
  OBVIOUS
<1>3. l \in Links /\ x \in Nat
  BY <1>2 DEF Events, Packet
<1>4. F \in Seq(Nat) /\ W \in Seq(Nat)
  BY <1>2, <1>3, FlightsTyped
<1>5. \A k \in Links : Flying(map, c, k) = IF e \in Arrivals(c, k)
                                           THEN Before(e.packet.id, Flying(Tail(map), c, k))
                                           ELSE Flying(Tail(map), c, k)
  BY FlyingTail
<1>6. CASE ~e.trans /\ IsOf(e.packet, c)
  <2>1. \A k \in Links : e \in Arrivals(c, k) <=> k = l
    BY <1>2, <1>6 DEF Arrivals
  <2>2. \A k \in Links : k # l => K[k] = H[k]
    BY <1>1, <1>5, <2>1
  <2>3. H[l] = Before(x, F) \o W /\ K[l] = F \o W
    BY <1>1, <1>3, <1>5, <2>1
  <2> DEFINE b == Before(x, F)
  <2>4. b \in Seq(Nat) /\ b # <<>> /\ Head(b) = x /\ Tail(b) = F
    BY <1>3, <1>4, BeforeTyped
  <2> HIDE DEF H, K, F, W, x, l, b
  <2>5. b \o W # <<>> /\ Head(b \o W) = Head(b) /\ Tail(b) \o W = Tail(b \o W)
    BY <1>4, <2>4, TakeFromFirst
  <2>6. H[l] # <<>> /\ Head(H[l]) = x /\ K[l] = Tail(H[l])
    BY <2>3, <2>4, <2>5 DEF b
  <2>7. K = [H EXCEPT ![l] = Tail(@)]
    BY <1>1, <2>2, <2>6
  <2>8. Taken(H, K, l) /\ Head(H[l]) = x
    BY <2>6, <2>7 DEF Taken
  <2> QED
    BY <1>6, <2>8 DEF H, K, l, x
<1>7. CASE ~(~e.trans /\ IsOf(e.packet, c))
  <2>1. \A k \in Links : e \notin Arrivals(c, k)
    BY <1>7 DEF Arrivals
  <2>2. \A k \in Links : K[k] = H[k]
    BY <1>1, <1>5, <2>1
  <2> HIDE DEF H, K
  <2>3. K = H
    BY <1>1, <2>2
  <2> QED
    BY <1>7, <2>3 DEF H, K
<1> QED
  BY <1>6, <1>7

-----------------------------------------------------------------------------
(* The channels                                                            *)

Chan == [c \in Pairs |-> UnderWay(c)]
Got == [c \in Pairs |-> IF c[2] \in Hosts THEN Ids(received[c]) ELSE <<>>]
Flight(c) == Flights(packet_map, packet_queue, c)

LEMMA UnderWayIs ==
    /\ \A c : UnderWay(c) = AlongRoute(Flight(c), c)
    /\ \A c : UnderWay(c)' = AlongRoute(Flight(c)', c)
    /\ \A c : Flight(c)' = Flights(packet_map', packet_queue', c)
    /\ \A c \in Pairs : Chan[c] = UnderWay(c) /\ Chan'[c] = UnderWay(c)'
    /\ Chan = [c \in Pairs |-> Chan[c]] /\ Chan' = [c \in Pairs |-> Chan'[c]]
BY DEF UnderWay, OnLinks, Flight, Flights, Chan

(* The pair of a packet is the only one whose channel it is in.            *)
LEMMA PairOf ==
    ASSUME NEW p, <<p.source, p.destination>> \in Pairs
    PROVE  /\ p.source \in Nodes /\ p.destination \in Nodes /\ p.source # p.destination
           /\ p.source \in Hosts
           /\ \A c \in Pairs : IsOf(p, c) <=> c = <<p.source, p.destination>>
<1>1. PICK q \in Packets : <<p.source, p.destination>> = <<q.source, q.destination>>
  BY DEF Pairs
<1>2. q \in Packet /\ q.source # q.destination
  BY PacketsAssumption
<1>3. q.source \in Hosts /\ q.destination \in Nodes
  BY <1>2 DEF Packet
<1>4. p.source = q.source /\ p.destination = q.destination
  BY <1>1
<1>5. p.source \in Nodes /\ p.destination \in Nodes /\ p.source # p.destination /\ p.source \in Hosts
  BY <1>2, <1>3, <1>4 DEF Nodes
<1>6. \A c \in Pairs : c = <<c[1], c[2]>>
  BY DEF Pairs
<1> QED
  BY <1>5, <1>6 DEF IsOf

\* Only the channel of p's pair may change.
OnlyPairOf(p) ==
    \A c \in Pairs : c # <<p.source, p.destination>> => UnderWay(c)' = UnderWay(c)

(* A step that concerns packet p leaves the other channels alone.          *)
LEMMA OthersStay ==
    ASSUME NEW p, <<p.source, p.destination>> \in Pairs,
           \A c : ~IsOf(p, c) => Flight(c)' = Flight(c)
    PROVE  OnlyPairOf(p)
BY PairOf, UnderWayIs DEF OnlyPairOf

LEMMA ChanStays ==
    ASSUME NEW p, <<p.source, p.destination>> \in Pairs, OnlyPairOf(p),
           UnderWay(<<p.source, p.destination>>)' = UnderWay(<<p.source, p.destination>>)
    PROVE  Chan' = Chan
<1>1. \A c \in Pairs : UnderWay(c)' = UnderWay(c)
  BY DEF OnlyPairOf
<1> QED
  BY <1>1, UnderWayIs

\* The channel of pair c holds v next.
Becomes(c, v) == Chan' = [Chan EXCEPT ![c] = v]

LEMMA ChanBecomes ==
    ASSUME NEW p, <<p.source, p.destination>> \in Pairs, OnlyPairOf(p), NEW v,
           UnderWay(<<p.source, p.destination>>)' = v
    PROVE  Becomes(<<p.source, p.destination>>, v)
<1> DEFINE c0 == <<p.source, p.destination>>
<1>1. \A c \in Pairs : c # c0 => Chan'[c] = Chan[c]
  BY UnderWayIs DEF OnlyPairOf
<1>2. Chan'[c0] = v
  BY UnderWayIs
<1>3. Chan = [c \in Pairs |-> Chan[c]] /\ Chan' = [c \in Pairs |-> Chan'[c]]
  BY UnderWayIs
<1> HIDE DEF c0
<1>4. Chan' = [Chan EXCEPT ![c0] = v]
  BY <1>1, <1>2, <1>3
<1> QED
  BY <1>4 DEF c0, Becomes

-----------------------------------------------------------------------------
(* The actions                                                             *)

LEMMA FlightsNow ==
    ASSUME IInv, PathInv
    PROVE  /\ packet_map \in Seq(Events) /\ packet_queue \in [Links -> Seq(Packet)]
           /\ \A c : Flight(c) \in Flow(Nat)
<1>1. packet_map \in Seq(Events) /\ packet_queue \in [Links -> Seq(Packet)]
  BY DEF IInv, EventsOK, QueuesOK
<1>2. ASSUME NEW c
      PROVE  Flight(c) \in Flow(Nat)
  <2>1. CASE Links = {}
    BY <2>1 DEF Flight, Flights, Flow
  <2>2. CASE Links # {}
    <3>1. PICK l \in Links : TRUE
      BY <2>2
    <3> QED
      BY <1>1, <3>1, FlightsTyped DEF Flight
  <2> QED
    BY <2>1, <2>2
<1> QED
  BY <1>1, <1>2

(* What a host sends comes last in its channel, or the queue is full.      *)
LEMMA HostSendPath ==
    ASSUME IInv, PathInv, IInv', NEW p \in Packets, NEW t \in 0 .. MaxTime, HostSend(p, t)
    PROVE  /\ PathInv' /\ received' = received
           /\ \/ Full(Onto(p.source, p.destination)) /\ Chan' = Chan
              \/ Becomes(<<p.source, p.destination>>,
                         Append(Chan[<<p.source, p.destination>>], p.id))
<1> DEFINE s == p.source
           d == p.destination
           link == <<s, NextHop[<<s, d>>]>>
           c0 == <<s, d>>
<1>1. p \in Packet /\ c0 \in Pairs
  BY PacketsAssumption DEF Pairs
<1>2. s \in Nodes /\ d \in Nodes /\ s # d
  BY <1>1, PairOf
<1>3. link \in Links /\ Routed(link, p) /\ link = Onto(s, d)
  <2>1. s \in RouteFrom(s, d)
    BY <1>2, RouteSteps
  <2> QED
    BY <1>1, <1>2, <2>1, HopIsNode DEF Routed, Onto
<1>4. t \in Nat /\ clock <= t /\ clock' = t /\ (packet_map # <<>> => t <= Head(packet_map).time)
  BY TimesAssumption DEF HostSend
<1>5. MapOK(packet_map, t, pending_send)
  BY <1>4, LaterCarries DEF PathInv
<1>6. Enqueue(t, packet_map, link, p) /\ received' = received
  BY DEF HostSend
<1>7. packet_map \in Seq(Events) /\ packet_queue \in [Links -> Seq(Packet)]
      /\ \A c : Flight(c) \in Flow(Nat)
  BY FlightsNow
<1> HIDE DEF link
<1>8. /\ MapOK(packet_map', t, pending_send') /\ QueuesRouted(packet_queue')
      /\ \/ Full(link) /\ \A c : Flight(c)' = Flight(c)
         \/ \A c : IF IsOf(p, c) THEN Added(Flight(c), Flight(c)', link, p.id)
                   ELSE Flight(c)' = Flight(c)
  BY <1>1, <1>3, <1>5, <1>6, <1>7, EnqueueFlows, UnderWayIs DEF PathInv, Flight
<1>9. PathInv'
  BY <1>4, <1>6, <1>8 DEF PathInv
<1>10. CASE Full(link) /\ \A c : Flight(c)' = Flight(c)
  <2>1. Chan' = Chan
    BY <1>10, UnderWayIs
  <2> QED
    BY <1>3, <1>6, <1>9, <1>10, <2>1
<1>11. CASE \A c : IF IsOf(p, c) THEN Added(Flight(c), Flight(c)', link, p.id)
                   ELSE Flight(c)' = Flight(c)
  <2>1. OnlyPairOf(p)
    BY <1>1, <1>11, OthersStay
  <2>2. Added(Flight(c0), Flight(c0)', Onto(s, d), p.id)
    BY <1>1, <1>3, <1>11 DEF IsOf
  <2>3. p.id \in Nat
    BY <1>1 DEF Packet
  <2>4. AlongRoute(Flight(c0)', <<s, d>>) = Append(AlongRoute(Flight(c0), <<s, d>>), p.id)
    <3> DEFINE H == Flight(c0)
               K == Flight(c0)'
               x == p.id
    <3>1. H \in Flow(Nat) /\ Added(H, K, Onto(s, d), x) /\ x \in Nat
      BY <1>7, <2>2, <2>3
    <3> HIDE DEF H, K, x, c0, s, d
    <3>2. ThenAlong(H, K, s, d, x)
      BY <1>2, <3>1, AddedAlong
    <3> QED
      BY <3>2 DEF H, K, x, ThenAlong
  <2>5. UnderWay(c0)' = Append(Chan[c0], p.id)
    BY <1>1, <2>4, UnderWayIs
  <2>6. Becomes(c0, Append(Chan[c0], p.id))
    BY <1>1, <2>1, <2>5, ChanBecomes
  <2> QED
    BY <1>6, <1>9, <2>6
<1> QED
  BY <1>8, <1>10, <1>11

(* What every packet event has in common.                                  *)
LEMMA ProcessPath ==
    ASSUME IInv, PathInv, NEW e, Process(e)
    PROVE  /\ e \in Events /\ clock' = e.time /\ Routed(e.link, e.packet)
           /\ packet_map # <<>> /\ e = Head(packet_map) /\ packet_map \in Seq(Events)
           /\ MapOK(Tail(packet_map), e.time,
                    IF e.trans THEN pending_send \ {e.link} ELSE pending_send)
           /\ <<e.packet.source, e.packet.destination>> \in Pairs
<1>1. packet_map # <<>> /\ e = Head(packet_map) /\ clock' = e.time
  BY DEF Process
<1>2. MapOK(packet_map, clock, pending_send)
  BY DEF PathInv
<1>3. /\ e \in Events /\ Routed(e.link, e.packet) /\ packet_map \in Seq(Events)
      /\ MapOK(Tail(packet_map), e.time,
               IF e.trans THEN pending_send \ {e.link} ELSE pending_send)
  BY <1>1, <1>2, FirstCarries
<1> QED
  BY <1>1, <1>3 DEF Routed

(* A packet that goes from the queue to the link keeps its place.          *)
LEMMA SendDonePath ==
    ASSUME IInv, PathInv, NEW e, SendDone(e)
    PROVE  PathInv' /\ received' = received /\ Chan' = Chan
<1> DEFINE busy == pending_send \ {e.link}
           q == packet_queue[e.link]
<1>1. Process(e) /\ e.trans /\ received' = received
      /\ SendIt(e.time, Tail(packet_map), e.link, q, busy)
  BY DEF SendDone
<1>2. /\ e \in Events /\ clock' = e.time /\ packet_map # <<>> /\ e = Head(packet_map)
      /\ packet_map \in Seq(Events) /\ MapOK(Tail(packet_map), e.time, busy)
  BY <1>1, ProcessPath
<1>3. packet_queue \in [Links -> Seq(Packet)]
  BY FlightsNow
<1>4. e.link \in Links /\ q \in Seq(Packet) /\ QueuesRouted(packet_queue)
  BY <1>2, <1>3 DEF Events, PathInv
<1>5. \A p \in ToSet(q) : Routed(e.link, p)
  BY <1>4 DEF QueuesRouted
<1>6. [packet_queue EXCEPT ![e.link] = q] = packet_queue
  BY <1>3, <1>4
<1> HIDE DEF q, busy
<1>7. /\ MapOK(packet_map', e.time, pending_send') /\ QueuesRouted(packet_queue')
      /\ \A c : Flights(packet_map', packet_queue', c) = Flights(Tail(packet_map), packet_queue, c)
  BY <1>1, <1>2, <1>3, <1>4, <1>5, <1>6, SendItFlows
<1>8. \A c : Flights(Tail(packet_map), packet_queue, c) = Flights(packet_map, packet_queue, c)
  BY <1>1, <1>2, <1>3, FirstFlows
<1>9. \A c : Flight(c)' = Flight(c)
  BY <1>7, <1>8, UnderWayIs DEF Flight
<1>10. Chan' = Chan
  BY <1>9, UnderWayIs
<1> QED
  BY <1>1, <1>2, <1>7, <1>10 DEF PathInv

LEMMA RemoveFirstOf ==
    ASSUME NEW T, NEW u \in Seq(T), u # <<>>
    PROVE  1 \in DOMAIN u /\ RemoveAt(u, 1) = Tail(u)
<1> DEFINE x == <<>>
           r == Tail(u)
           y == Head(u)
<1>1. y \in T /\ r \in Seq(T) /\ u = <<y>> \o r
  BY HeadAndTail
<1>2. x \in Seq(T) /\ x \o (<<y>> \o r) = <<y>> \o r /\ Len(x) + 1 = 1 /\ x \o r = r
  BY <1>1
<1>3. Between(u, x, y, r)
  BY <1>1, <1>2 DEF Between
<1> HIDE DEF x, r, y
<1>4. Len(x) + 1 \in DOMAIN u /\ RemoveAt(u, Len(x) + 1) = x \o r
  BY <1>1, <1>2, <1>3, RemoveMiddle
<1> QED
  BY <1>2, <1>4 DEF r

(* A packet that comes to its destination is the first of its channel.     *)
LEMMA ArrivalPath ==
    ASSUME IInv, PathInv, NEW e, Process(e), ~e.trans, e.link[2] = e.packet.destination,
           packet_map' = Tail(packet_map), packet_queue' = packet_queue,
           pending_send' = pending_send
    PROVE  /\ MapOK(packet_map', clock', pending_send') /\ QueuesRouted(packet_queue')
           /\ Chan[<<e.packet.source, e.packet.destination>>] \in Seq(Nat)
           /\ Chan[<<e.packet.source, e.packet.destination>>] # <<>>
           /\ Head(Chan[<<e.packet.source, e.packet.destination>>]) = e.packet.id
           /\ Becomes(<<e.packet.source, e.packet.destination>>,
                      Tail(Chan[<<e.packet.source, e.packet.destination>>]))
<1> DEFINE p == e.packet
           s == p.source
           d == p.destination
           m == e.link[1]
           c0 == <<s, d>>
           H == Flight(c0)
           K == Flight(c0)'
<1>1. /\ e \in Events /\ clock' = e.time /\ Routed(e.link, p) /\ c0 \in Pairs
      /\ packet_map # <<>> /\ e = Head(packet_map) /\ packet_map \in Seq(Events)
      /\ MapOK(Tail(packet_map), e.time, pending_send)
  BY ProcessPath
<1>2. s \in Nodes /\ d \in Nodes /\ IsOf(p, c0)
  BY <1>1, PairOf
<1>3. e.link = Onto(m, d) /\ m # d /\ m \in RouteFrom(s, d)
  BY <1>1 DEF Routed
<1>4. m \in Nodes /\ NextHop[<<m, d>>] = d
  BY <1>2, <1>3 DEF Onto, RouteFrom
<1>5. packet_queue \in [Links -> Seq(Packet)] /\ \A c : Flight(c) \in Flow(Nat)
  BY FlightsNow
<1>6. \A c : IF IsOf(p, c) THEN Taken(Flight(c), Flight(c)', e.link) /\ Head(Flight(c)[e.link]) = p.id
             ELSE Flight(c)' = Flight(c)
  BY <1>1, <1>5, FirstFlows, UnderWayIs DEF Flight
<1>7. OnlyPairOf(p)
  BY <1>1, <1>6, OthersStay
<1>8. H \in Flow(Nat) /\ Taken(H, K, Onto(m, d)) /\ Head(H[Onto(m, d)]) = p.id
  BY <1>2, <1>3, <1>5, <1>6
<1>9. /\ AlongRoute(H, <<s, d>>) \in Seq(Nat) /\ AlongRoute(H, <<s, d>>) # <<>>
      /\ Head(AlongRoute(H, <<s, d>>)) = Head(H[Onto(m, d)])
      /\ AlongRoute(K, <<s, d>>) = Tail(AlongRoute(H, <<s, d>>))
  <2> HIDE DEF H, K, c0, s, d, m, p
  <2> QED
    BY <1>2, <1>3, <1>4, <1>8, TakenAlong
<1>10. Chan[c0] = AlongRoute(H, <<s, d>>) /\ UnderWay(c0)' = AlongRoute(K, <<s, d>>)
  BY <1>1, UnderWayIs
<1> HIDE DEF H, K
<1>11. Chan[c0] \in Seq(Nat) /\ Chan[c0] # <<>> /\ Head(Chan[c0]) = p.id
       /\ UnderWay(c0)' = Tail(Chan[c0])
  BY <1>8, <1>9, <1>10
<1>12. Becomes(c0, Tail(Chan[c0]))
  BY <1>1, <1>7, <1>11, ChanBecomes
<1> QED
  BY <1>1, <1>11, <1>12 DEF PathInv

(* A host takes the first packet of the channel.                           *)
LEMMA ReceivePath ==
    ASSUME IInv, PathInv, NEW h \in Hosts, NEW e, HostReceive(h, e)
    PROVE  /\ PathInv'
           /\ \E c \in Pairs : /\ Chan[c] # <<>> /\ Becomes(c, Tail(Chan[c]))
                              /\ Got' = [Got EXCEPT ![c] = Append(@, Head(Chan[c]))]
<1> DEFINE p == e.packet
           s == p.source
           d == p.destination
           m == e.link[1]
           c0 == <<s, d>>
<1>1. /\ Process(e) /\ ~e.trans /\ e.link[2] = h
      /\ packet_map' = Tail(packet_map) /\ packet_queue' = packet_queue
      /\ pending_send' = pending_send
      /\ received' = [received EXCEPT ![<<s, h>>] = Append(@, p)]
  BY DEF HostReceive, Arrives
<1>2. /\ e \in Events /\ Routed(e.link, p) /\ c0 \in Pairs
  BY <1>1, ProcessPath
<1>3. s \in Nodes /\ d \in Nodes /\ s \in Hosts
  BY <1>2, PairOf
<1>4. h = d
  <2>1. m \in Nodes /\ m # d /\ h = NextHop[<<m, d>>]
    BY <1>1, <1>2 DEF Routed, Onto, RouteFrom
  <2> QED
    BY <1>3, <2>1, RoutingAssumption
<1>5. /\ MapOK(packet_map', clock', pending_send') /\ QueuesRouted(packet_queue')
      /\ Chan[c0] # <<>> /\ Head(Chan[c0]) = p.id /\ Becomes(c0, Tail(Chan[c0]))
  BY <1>1, <1>4, ArrivalPath
<1>6. p \in Packet /\ received \in [Hosts \X Hosts -> Seq(Packet)] /\ c0 \in Hosts \X Hosts
  BY <1>2, <1>3, <1>4 DEF Events, PathInv
<1> HIDE DEF c0, p
<1>7. received' = [received EXCEPT ![c0] = Append(@, p)]
  BY <1>1, <1>4 DEF c0
<1>8. received' \in [Hosts \X Hosts -> Seq(Packet)] /\ received'[c0] = Append(received[c0], p)
      /\ \A c \in Hosts \X Hosts : c # c0 => received'[c] = received[c]
  <2>1. received[c0] \in Seq(Packet)
    BY <1>6
  <2>2. Append(received[c0], p) \in Seq(Packet)
    BY <1>6, <2>1
  <2> QED
    BY <1>6, <1>7, <2>2
<1>9. Ids(Append(received[c0], p)) = Append(Ids(received[c0]), p.id)
  <2> DEFINE q == received[c0]
             a == Append(q, p)
  <2>1. q \in Seq(Packet)
    BY <1>6
  <2>2. a \in Seq(Packet) /\ Len(q) \in Nat /\ Len(a) = Len(q) + 1
        /\ \A i \in 1 .. Len(q) + 1 : a[i] = IF i = Len(q) + 1 THEN p ELSE q[i]
    BY <1>6, <2>1
  <2> HIDE DEF q, a
  <2>3. \A i \in 1 .. Len(q) : q[i].id \in Nat
    <3>1. \A i \in 1 .. Len(q) : q[i] \in Packet
      BY <2>1
    <3> QED
      BY <3>1 DEF Packet
  <2>4. DOMAIN q = 1 .. Len(q) /\ DOMAIN a = 1 .. Len(q) + 1 /\ p.id \in Nat
    BY <1>6, <2>1, <2>2 DEF Packet
  <2>5. Ids(q) = [i \in 1 .. Len(q) |-> q[i].id] /\ Ids(a) = [i \in 1 .. Len(q) + 1 |-> a[i].id]
    BY <2>4 DEF Ids
  <2> DEFINE iq == Ids(q)
             ia == Ids(a)
             b == Append(iq, p.id)
  <2>6. iq \in Seq(Nat) /\ Len(iq) = Len(q) /\ \A i \in 1 .. Len(q) : iq[i] = q[i].id
    BY <2>2, <2>3, <2>5
  <2>7. \A i \in 1 .. Len(q) + 1 : ia[i] = a[i].id
    BY <2>5
  <2>8. ia = [i \in 1 .. Len(q) + 1 |-> ia[i]]
    BY <2>5
  <2> HIDE DEF iq, ia
  <2>9. b \in Seq(Nat) /\ Len(b) = Len(q) + 1
        /\ \A i \in 1 .. Len(q) + 1 : b[i] = IF i = Len(q) + 1 THEN p.id ELSE iq[i]
    BY <2>2, <2>4, <2>6
  <2> HIDE DEF b
  <2>10. b = [i \in 1 .. Len(q) + 1 |-> b[i]]
    BY <2>9
  <2>11. \A i \in 1 .. Len(q) + 1 : ia[i] = b[i]
    <3> SUFFICES ASSUME NEW i \in 1 .. Len(q) + 1
                 PROVE  ia[i] = b[i]
      OBVIOUS
    <3>1. CASE i = Len(q) + 1
      BY <2>2, <2>7, <2>9, <3>1
    <3>2. CASE i # Len(q) + 1
      <4>1. i \in 1 .. Len(q)
        BY <2>2, <3>2
      <4> QED
        BY <2>2, <2>6, <2>7, <2>9, <3>2, <4>1
    <3> QED
      BY <3>1, <3>2
  <2>12. ia = b
    BY <2>8, <2>10, <2>11
  <2> QED
    BY <2>12 DEF ia, b, iq, a, q
<1>10. Got' = [Got EXCEPT ![c0] = Append(@, Head(Chan[c0]))]
  <2>1. \A c \in Pairs : c[2] \in Hosts => c \in Hosts \X Hosts
    <3> SUFFICES ASSUME NEW c \in Pairs, c[2] \in Hosts
                 PROVE  c \in Hosts \X Hosts
      OBVIOUS
    <3>1. PICK x \in Packets : c = <<x.source, x.destination>>
      BY DEF Pairs
    <3> QED
      BY <3>1, PacketsAssumption DEF Packet
  <2>2. c0[2] \in Hosts
    BY <1>6
  <2>3. Got'[c0] = Append(Got[c0], Head(Chan[c0]))
    BY <1>2, <1>5, <1>8, <1>9, <2>2 DEF Got
  <2>4. \A c \in Pairs : c # c0 => Got'[c] = Got[c]
    BY <1>8, <2>1 DEF Got
  <2>5. Got = [c \in Pairs |-> Got[c]] /\ Got' = [c \in Pairs |-> Got'[c]]
    BY DEF Got
  <2> QED
    BY <1>2, <2>3, <2>4, <2>5
<1>11. PathInv'
  BY <1>5, <1>8 DEF PathInv
<1> QED
  BY <1>2, <1>5, <1>10, <1>11

(* A node that is not a host drops what is sent to it.                     *)
LEMMA DiscardPath ==
    ASSUME IInv, PathInv, NEW n, NEW e, Discard(n, e)
    PROVE  /\ PathInv' /\ received' = received
           /\ \E c \in Pairs : \E i \in DOMAIN Chan[c] : Becomes(c, RemoveAt(Chan[c], i))
<1> DEFINE p == e.packet
           c0 == <<p.source, p.destination>>
           u == Chan[c0]
<1>1. /\ Process(e) /\ ~e.trans /\ e.link[2] = p.destination
      /\ packet_map' = Tail(packet_map) /\ packet_queue' = packet_queue
      /\ pending_send' = pending_send /\ received' = received
  BY DEF Discard, Arrives
<1>2. c0 \in Pairs
  BY <1>1, ProcessPath
<1>3. /\ MapOK(packet_map', clock', pending_send') /\ QueuesRouted(packet_queue')
      /\ u \in Seq(Nat) /\ u # <<>> /\ Becomes(c0, Tail(u))
  BY <1>1, ArrivalPath
<1> HIDE DEF u
<1>4. 1 \in DOMAIN u /\ RemoveAt(u, 1) = Tail(u)
  BY <1>3, RemoveFirstOf
<1> QED
  BY <1>1, <1>2, <1>3, <1>4 DEF PathInv, u

\* One packet is dropped from the channel of pair c.
LosesOne(c) == c \in Pairs /\ \E i \in DOMAIN Chan[c] : Becomes(c, RemoveAt(Chan[c], i))

(* A packet that a node passes on keeps its place in its channel, or is    *)
(* dropped from it when the queue is full.                                 *)
LEMMA OnwardPath ==
    ASSUME IInv, PathInv, NEW e, Process(e), ~e.trans,
           NEW n \in Nodes, n = e.link[2], n # e.packet.destination,
           NEW x \in Packet, x.id = e.packet.id,
           x.source = e.packet.source, x.destination = e.packet.destination,
           Enqueue(e.time, Tail(packet_map), Onto(n, e.packet.destination), x)
    PROVE  /\ MapOK(packet_map', clock', pending_send') /\ QueuesRouted(packet_queue')
           /\ \/ Chan' = Chan
              \/ /\ Full(Onto(n, e.packet.destination))
                 /\ LosesOne(<<e.packet.source, e.packet.destination>>)
<1> DEFINE p == e.packet
           s == p.source
           d == p.destination
           m == e.link[1]
           c0 == <<s, d>>
           k == Onto(n, d)
           mid(c) == Flights(Tail(packet_map), packet_queue, c)
<1>1. /\ e \in Events /\ clock' = e.time /\ Routed(e.link, p) /\ c0 \in Pairs
      /\ packet_map # <<>> /\ e = Head(packet_map) /\ packet_map \in Seq(Events)
      /\ MapOK(Tail(packet_map), e.time, pending_send)
  BY ProcessPath
<1>2. s \in Nodes /\ d \in Nodes /\ IsOf(p, c0)
  BY <1>1, PairOf
<1>3. e.link = Onto(m, d) /\ m # d /\ m \in RouteFrom(s, d) /\ m \in Nodes
      /\ n = NextHop[<<m, d>>]
  BY <1>1 DEF Routed, Onto, RouteFrom
<1>4. k \in Links /\ Routed(k, x)
  <2>1. n \in RouteFrom(s, d)
    BY <1>2, <1>3, RouteSteps DEF Onward
  <2>2. k \in Links /\ k = Onto(k[1], d) /\ k[1] = n
    BY <1>2, HopIsNode DEF Onto
  <2> QED
    BY <1>1, <2>1, <2>2 DEF Routed
<1>5. packet_queue \in [Links -> Seq(Packet)] /\ \A c : Flight(c) \in Flow(Nat)
  BY FlightsNow
<1>6. \A c : IF IsOf(p, c) THEN Taken(Flight(c), mid(c), e.link) /\ Head(Flight(c)[e.link]) = p.id
             ELSE mid(c) = Flight(c)
  BY <1>1, <1>5, FirstFlows DEF Flight
<1>7. \A c : IsOf(x, c) <=> IsOf(p, c)
  BY DEF IsOf
<1> DEFINE tail == Tail(packet_map)
<1>8. /\ MapOK(tail, e.time, pending_send) /\ QueuesRouted(packet_queue)
      /\ Enqueue(e.time, tail, k, x)
  BY <1>1 DEF PathInv
<1> HIDE DEF k, tail
<1>9. /\ MapOK(packet_map', e.time, pending_send') /\ QueuesRouted(packet_queue')
      /\ \/ /\ Full(k)
            /\ \A c : Flights(packet_map', packet_queue', c) = Flights(tail, packet_queue, c)
         \/ \A c : IF IsOf(x, c)
                   THEN Added(Flights(tail, packet_queue, c),
                              Flights(packet_map', packet_queue', c), k, x.id)
                   ELSE Flights(packet_map', packet_queue', c) = Flights(tail, packet_queue, c)
  BY <1>4, <1>5, <1>8, EnqueueFlows
<1> DEFINE H == Flight(c0)
           M == mid(c0)
           K == Flight(c0)'
<1>10. H \in Flow(Nat) /\ Taken(H, M, Onto(m, d)) /\ Head(H[Onto(m, d)]) = p.id
  BY <1>2, <1>3, <1>5, <1>6
<1>11. Chan[c0] = AlongRoute(H, <<s, d>>) /\ UnderWay(c0)' = AlongRoute(K, <<s, d>>)
  BY <1>1, UnderWayIs
<1>12. CASE /\ Full(k)
             /\ \A c : Flights(packet_map', packet_queue', c) = Flights(tail, packet_queue, c)
  <2>1. \A c : Flight(c)' = mid(c)
    BY <1>12, UnderWayIs DEF tail
  <2>2. OnlyPairOf(p)
    BY <1>1, <1>6, <2>1, OthersStay
  <2>3. K = M
    BY <2>1
  <2>4. LessAlong(H, K, s, d)
    <3> HIDE DEF H, K, M, c0, s, d, m, p
    <3> QED
      BY <1>2, <1>3, <1>10, <2>3, LostAlong
  <2> HIDE DEF H, K, M, mid
  <2>5. PICK i \in DOMAIN AlongRoute(H, <<s, d>>) :
           AlongRoute(K, <<s, d>>) = RemoveAt(AlongRoute(H, <<s, d>>), i)
    BY <2>4 DEF LessAlong
  <2>6. i \in DOMAIN Chan[c0] /\ UnderWay(c0)' = RemoveAt(Chan[c0], i)
    BY <1>11, <2>5
  <2>7. Becomes(c0, RemoveAt(Chan[c0], i))
    BY <1>1, <2>2, <2>6, ChanBecomes
  <2>8. LosesOne(c0) /\ Full(Onto(n, d))
    BY <1>1, <1>12, <2>6, <2>7 DEF LosesOne, k
  <2> QED
    BY <1>1, <1>9, <2>8
<1>13. CASE \A c : IF IsOf(x, c)
                   THEN Added(Flights(tail, packet_queue, c),
                              Flights(packet_map', packet_queue', c), k, x.id)
                   ELSE Flights(packet_map', packet_queue', c) = Flights(tail, packet_queue, c)
  <2>1. \A c : IF IsOf(p, c) THEN Added(mid(c), Flight(c)', k, p.id) ELSE Flight(c)' = mid(c)
    BY <1>7, <1>13, UnderWayIs DEF tail
  <2>2. OnlyPairOf(p)
    BY <1>1, <1>6, <2>1, OthersStay
  <2>3. Added(M, K, k, p.id)
    BY <1>2, <2>1
  <2>4. Shifted(H, K, Onto(m, d), k)
    <3> DEFINE l == Onto(m, d)
    <3>1. H[l] # <<>> /\ M = [H EXCEPT ![l] = Tail(@)] /\ K = [M EXCEPT ![k] = Append(@, Head(H[l]))]
      BY <1>10, <2>3 DEF Taken, Added
    <3>3. l # k
      <4>1. m \notin RouteFrom(n, d) /\ n \in RouteFrom(n, d)
        BY <1>2, <1>3, NoReturn, RouteSteps
      <4> QED
        BY <4>1 DEF Onto, k
    <3>4. l \in Links /\ k \in Links
      BY <1>2, <1>3, <1>4, HopIsNode DEF Onto
    <3>5. H = [i \in Links |-> H[i]]
      BY <1>10 DEF Flow
    <3> HIDE DEF H, M, K, l
    <3>2. K = [H EXCEPT ![l] = Tail(@), ![k] = Append(@, Head(H[l]))]
      BY <3>1, <3>3, <3>4, <3>5
    <3> QED
      BY <3>1, <3>2 DEF Shifted, l
  <2>5. AlongRoute(K, <<s, d>>) = AlongRoute(H, <<s, d>>)
    <3>1. Shifted(H, K, Onto(m, d), Onto(n, d))
      BY <2>4 DEF k
    <3> HIDE DEF H, K, M, c0, s, d, m, p
    <3> QED
      BY <1>2, <1>3, <1>10, <3>1, ShiftedAlong DEF p, d
  <2>6. UnderWay(c0)' = UnderWay(c0)
    BY <1>1, <1>11, <2>5, UnderWayIs
  <2>7. Chan' = Chan
    BY <1>1, <2>2, <2>6, ChanStays
  <2> QED
    BY <1>1, <1>9, <2>7
<1> QED
  BY <1>9, <1>12, <1>13

\* Nothing is handed over; the packet that arrived is dropped, if at all, by a
\* full queue.
Passes(e) ==
    /\ PathInv' /\ received' = received
    /\ \/ Chan' = Chan
       \/ /\ Full(Onto(e.link[2], e.packet.destination))
          /\ LosesOne(<<e.packet.source, e.packet.destination>>)

(* A FIFONode passes a packet on.                                          *)
LEMMA RelayPath ==
    ASSUME IInv, PathInv, NEW n \in Relays, NEW e, Relay(n, e)
    PROVE  Passes(e)
<1> DEFINE d == e.packet.destination
<1>1. /\ Process(e) /\ ~e.trans /\ e.link[2] = n /\ n # d /\ n \in Nodes
      /\ Enqueue(e.time, Tail(packet_map), Onto(n, d), e.packet) /\ received' = received
  BY DEF Relay, Arrives, Nodes, Onto
<1>2. e.packet \in Packet
  BY <1>1, ProcessPath DEF Events
<1>3. /\ MapOK(packet_map', clock', pending_send') /\ QueuesRouted(packet_queue')
      /\ \/ Chan' = Chan
         \/ Full(Onto(n, d)) /\ LosesOne(<<e.packet.source, d>>)
  BY <1>1, <1>2, OnwardPath
<1> QED
  BY <1>1, <1>3 DEF Passes, PathInv

(* A router marks a packet, which keeps its id and its pair.               *)
LEMMA RoutePath ==
    ASSUME IInv, PathInv, NEW n \in Routers, NEW e, Route(n, e)
    PROVE  Passes(e)
<1> DEFINE d == e.packet.destination
           x == Mark(Onto(n, d), e.packet)
<1>1. /\ Process(e) /\ ~e.trans /\ e.link[2] = n /\ n # d /\ n \in Nodes
      /\ Enqueue(e.time, Tail(packet_map), Onto(n, d), x) /\ received' = received
  BY DEF Route, Arrives, Nodes, Onto
<1>2. e.packet \in Packet /\ d \in Nodes
  <2>1. e \in Events /\ <<e.packet.source, d>> \in Pairs
    BY <1>1, ProcessPath
  <2> QED
    BY <2>1, PairOf DEF Events
<1>3. Onto(n, d) \in Links /\ Onto(n, d)[1] = n
  BY <1>1, <1>2, HopIsNode DEF Onto
<1>4. x \in Packet
  BY <1>2, <1>3, MarkOK DEF IInv
<1>5. x.id = e.packet.id /\ x.source = e.packet.source /\ x.destination = e.packet.destination
  BY <1>2 DEF Mark, Packet
<1> HIDE DEF x
<1>6. /\ MapOK(packet_map', clock', pending_send') /\ QueuesRouted(packet_queue')
      /\ \/ Chan' = Chan
         \/ Full(Onto(n, d)) /\ LosesOne(<<e.packet.source, d>>)
  BY <1>1, <1>4, <1>5, OnwardPath
<1> QED
  BY <1>1, <1>6 DEF Passes, PathInv

-----------------------------------------------------------------------------
(* The refinement                                                          *)

(* No packets on the links, none along a route.                            *)
LEMMA EmptyAlong ==
    ASSUME NEW T, NEW s \in Nodes, NEW d \in Nodes, NEW H \in Flow(T),
           \A l \in Links : H[l] = <<>>
    PROVE  AlongRoute(H, <<s, d>>) = <<>>
<1>1. PICK f : SumsUp(T, f, H, s, d)
  BY AlongRouteSums
<1> DEFINE G == {n \in Nodes : f[n] = <<>>}
<1>2. d \in G
  BY <1>1 DEF SumsUp, RouteSums
<1>3. ASSUME NEW n \in Nodes \ {d}, NextHop[<<n, d>>] \in G
      PROVE  n \in G
  <2>1. f[n] = f[NextHop[<<n, d>>]] \o H[<<n, NextHop[<<n, d>>]>>]
    BY <1>1 DEF SumsUp, RouteSums
  <2>2. f[NextHop[<<n, d>>]] = <<>> /\ H[<<n, NextHop[<<n, d>>]>>] = <<>>
    BY <1>3, HopIsNode
  <2> QED
    BY <2>1, <2>2
<1> HIDE DEF G
<1>4. s \in G
  BY <1>2, <1>3, BackFromEnd
<1> QED
  BY <1>1, <1>4 DEF SumsUp, G

LEMMA PairsAreNodes ==
    \A c \in Pairs : c = <<c[1], c[2]>> /\ c[1] \in Hosts /\ c[1] \in Nodes /\ c[2] \in Nodes
<1> SUFFICES ASSUME NEW c \in Pairs
             PROVE  c = <<c[1], c[2]>> /\ c[1] \in Hosts /\ c[1] \in Nodes /\ c[2] \in Nodes
  OBVIOUS
<1>1. PICK q \in Packets : c = <<q.source, q.destination>>
  BY DEF Pairs
<1>2. q \in Packet
  BY PacketsAssumption
<1> QED
  BY <1>1, <1>2 DEF Packet, Nodes

(* All channels are empty at first.                                        *)
LEMMA InitPath == Init => PathInv /\ Path!CInit
<1> SUFFICES ASSUME Init
             PROVE  PathInv /\ Path!CInit
  OBVIOUS
<1>1. /\ packet_map = <<>> /\ pending_send = {} /\ clock = 0
      /\ packet_queue = [l \in Links |-> <<>>] /\ unsent = Packets
      /\ received = [c \in Hosts \X Hosts |-> <<>>]
  BY DEF Init
<1>2. IInv
  BY InitOK
<1>3. packet_map \in Seq(Events) /\ packet_queue \in [Links -> Seq(Packet)]
  BY <1>2 DEF IInv, EventsOK, QueuesOK
<1>4. ToSet(packet_map) = {} /\ \A l \in Links : ToSet(packet_queue[l]) = {}
  BY <1>1 DEF ToSet
<1>5. PathInv
  <2>1. <<>> \in Seq(Packet)
    OBVIOUS
  <2>2. received \in [Hosts \X Hosts -> Seq(Packet)]
    BY <1>1, <2>1
  <2> QED
    BY <1>2, <1>4, <2>2 DEF PathInv, MapOK, InOrder, QueuesRouted, IInv
<1>6. \A c : \A l \in Links : Flight(c)[l] = <<>>
  <2> SUFFICES ASSUME NEW c, NEW l \in Links
               PROVE  Flight(c)[l] = <<>>
    OBVIOUS
  <2>1. \A i \in DOMAIN packet_map : packet_map[i] \notin Arrivals(c, l)
    BY <1>1
  <2>2. Flying(packet_map, c, l) = <<>>
    <3> DEFINE K == Arrivals(c, l)
    <3>1. Flying(packet_map, c, l) = Chosen(packet_map, K, EventId)
          /\ Tells(EventId, packet_map, Events, Nat)
      BY <1>3, FlyingChosen
    <3>2. \A i \in DOMAIN packet_map : packet_map[i] \notin K
      BY <2>1
    <3> HIDE DEF K
    <3>3. Chosen(packet_map, K, EventId) = <<>>
      BY <3>1, <3>2, ChosenSeq
    <3> QED
      BY <3>1, <3>3
  <2>3. packet_queue[l] \in Seq(Packet) /\ packet_queue[l] = <<>>
    BY <1>1, <1>3
  <2>4. \A i \in DOMAIN packet_queue[l] : packet_queue[l][i] \notin PacketsOf(c)
    BY <2>3
  <2>5. Waiting(packet_queue[l], c) = <<>>
    <3> DEFINE K == PacketsOf(c)
               q == packet_queue[l]
    <3>1. Waiting(q, c) = Chosen(q, K, PacketId) /\ Tells(PacketId, q, Packet, Nat)
      BY <2>3, WaitingChosen
    <3>2. \A i \in DOMAIN q : q[i] \notin K
      BY <2>4
    <3> HIDE DEF K, q
    <3>3. Chosen(q, K, PacketId) = <<>>
      BY <3>1, <3>2, ChosenSeq
    <3> QED
      BY <3>1, <3>3 DEF q
  <2>6. Flight(c)[l] = Flying(packet_map, c, l) \o Waiting(packet_queue[l], c)
    BY <1>3, FlightsTyped DEF Flight
  <2> QED
    BY <2>2, <2>5, <2>6
<1>7. \A c \in Pairs : UnderWay(c) = <<>>
  <2> SUFFICES ASSUME NEW c \in Pairs
               PROVE  UnderWay(c) = <<>>
    OBVIOUS
  <2>1. Flight(c) \in Flow(Nat)
    BY <1>2, <1>5, FlightsNow
  <2>2. AlongRoute(Flight(c), <<c[1], c[2]>>) = <<>>
    <3> DEFINE H == Flight(c)
    <3>1. H \in Flow(Nat) /\ \A l \in Links : H[l] = <<>>
      BY <1>6, <2>1
    <3> HIDE DEF H
    <3>2. AlongRoute(H, <<c[1], c[2]>>) = <<>>
      BY <3>1, PairsAreNodes, EmptyAlong
    <3> QED
      BY <3>2 DEF H
  <2> QED
    BY <2>2, PairsAreNodes, UnderWayIs
<1>8. Chan = [c \in Pairs |-> <<>>]
  BY <1>7 DEF Chan
<1>9. Got = [c \in Pairs |-> <<>>]
  <2>1. Ids(<<>>) = <<>>
    BY DEF Ids
  <2>2. \A c \in Pairs : c[2] \in Hosts => received[c] = <<>>
    BY <1>1, PairsAreNodes
  <2> QED
    BY <2>1, <2>2 DEF Got
<1>10. Path!CInit
  BY <1>1, <1>8, <1>9 DEF Path!CInit, Chan, Got
<1> QED
  BY <1>5, <1>10

(* Every step of the network is one of the channels, or changes nothing    *)
(* that they show.                                                         *)
LEMMA NextPath ==
    ASSUME IInv, PathInv, [Next]_vars
    PROVE  PathInv' /\ [Path!CNext]_Path!cvars
<1>0. IInv'
  BY NextOK
<1> DEFINE Dropped == \E c \in Pairs : \E i \in DOMAIN Chan[c] : Becomes(c, RemoveAt(Chan[c], i))
<1>1. ASSUME received' = received
      PROVE  Got' = Got
  BY <1>1 DEF Got
<1>2. ASSUME unsent' = unsent, received' = received, Chan' = Chan
      PROVE  UNCHANGED Path!cvars
  BY <1>1, <1>2 DEF Path!cvars, Chan, Got
<1>3. ASSUME unsent' = unsent, received' = received, Dropped
      PROVE  Path!CNext
  <2>3. PICK c \in Pairs : \E i \in DOMAIN Chan[c] : Becomes(c, RemoveAt(Chan[c], i))
    BY <1>3
  <2>1. PICK i \in DOMAIN Chan[c] : Becomes(c, RemoveAt(Chan[c], i))
    BY <2>3
  <2>4. Chan' = [Chan EXCEPT ![c] = RemoveAt(Chan[c], i)]
    BY <2>1 DEF Becomes
  <2>5. unsent' = unsent /\ Got' = Got
    BY <1>1, <1>3
  <2>2. Path!Drop(c, i)
    <3>1. RemoveAt(Chan[c], i) = Path!RemoveAt(Chan[c], i)
      BY DEF RemoveAt, Path!RemoveAt
    <3> QED
      BY <2>4, <2>5, <3>1 DEF Path!Drop, Chan, Got
  <2> QED
    BY <2>1, <2>2 DEF Path!CNext, Chan
<1>4. ASSUME NEW p \in Packets, NEW t \in 0 .. MaxTime, HostSend(p, t)
      PROVE  PathInv' /\ [Path!CNext]_Path!cvars
  <2>1. /\ PathInv' /\ received' = received
        /\ \/ Chan' = Chan
           \/ Becomes(<<p.source, p.destination>>, Append(Chan[<<p.source, p.destination>>], p.id))
    BY <1>0, <1>4, HostSendPath
  <2>2. p \in unsent /\ unsent' = unsent \ {p}
    BY <1>4 DEF HostSend
  <2>3. Path!Send(p)
    BY <1>1, <2>1, <2>2 DEF Path!Send, Becomes, Chan, Got
  <2> QED
    BY <2>1, <2>3 DEF Path!CNext
<1>5. ASSUME NEW e, SendDone(e)
      PROVE  PathInv' /\ [Path!CNext]_Path!cvars
  <2>1. unsent' = unsent
    BY <1>5 DEF SendDone, Process
  <2> QED
    BY <1>2, <1>5, <2>1, SendDonePath
<1>6. ASSUME NEW h \in Hosts, NEW e, HostReceive(h, e)
      PROVE  PathInv' /\ [Path!CNext]_Path!cvars
  <2>1. unsent' = unsent
    BY <1>6 DEF HostReceive, Arrives, Process
  <2>2. PathInv'
    BY <1>6, ReceivePath
  <2>3. PICK c \in Pairs : /\ Chan[c] # <<>> /\ Becomes(c, Tail(Chan[c]))
                           /\ Got' = [Got EXCEPT ![c] = Append(@, Head(Chan[c]))]
    BY <1>6, ReceivePath
  <2>4. Path!HandOver(c)
    BY <2>1, <2>3 DEF Path!HandOver, Becomes, Chan, Got
  <2> QED
    BY <2>2, <2>4 DEF Path!CNext
<1>7. ASSUME NEW n \in Routers \cup Relays, NEW e, Discard(n, e)
      PROVE  PathInv' /\ [Path!CNext]_Path!cvars
  <2>1. unsent' = unsent
    BY <1>7 DEF Discard, Arrives, Process
  <2>2. PathInv' /\ received' = received /\ Dropped
    BY <1>7, DiscardPath
  <2> QED
    BY <1>3, <2>1, <2>2
<1>8. ASSUME NEW e, Passes(e), unsent' = unsent
      PROVE  PathInv' /\ [Path!CNext]_Path!cvars
  <2>1. PathInv' /\ received' = received /\ (Chan' = Chan \/ Dropped)
    BY <1>8 DEF Passes, LosesOne
  <2> QED
    BY <1>2, <1>3, <1>8, <2>1
<1>9. ASSUME NEW n \in Relays, NEW e, Relay(n, e)
      PROVE  PathInv' /\ [Path!CNext]_Path!cvars
  <2>1. unsent' = unsent
    BY <1>9 DEF Relay, Arrives, Process
  <2> QED
    BY <1>8, <1>9, <2>1, RelayPath
<1>10. ASSUME NEW n \in Routers, NEW e, Route(n, e)
       PROVE  PathInv' /\ [Path!CNext]_Path!cvars
  <2>1. unsent' = unsent
    BY <1>10 DEF Route, Arrives, Process
  <2> QED
    BY <1>8, <1>10, <2>1, RoutePath
<1>11. CASE UNCHANGED vars
  <2>1. /\ clock' = clock /\ packet_map' = packet_map /\ packet_queue' = packet_queue
        /\ pending_send' = pending_send /\ received' = received /\ unsent' = unsent
    BY <1>11 DEF vars
  <2>2. PathInv'
    BY <2>1 DEF PathInv
  <2>3. \A c : Flight(c)' = Flight(c)
    BY <2>1, UnderWayIs DEF Flight
  <2>4. Chan' = Chan
    BY <2>3, UnderWayIs
  <2> QED
    BY <1>2, <2>1, <2>2, <2>4
<1>12. CASE ProcessPacket
  BY <1>5, <1>6, <1>7, <1>9, <1>10, <1>12 DEF ProcessPacket
<1> QED
  BY <1>4, <1>11, <1>12 DEF Next

(* FIFONode, dtpRouter and PacketScheduler, in every network whose routes  *)
(* end and whatever the queues, the latencies and the packets: between two *)
(* nodes packets may be dropped, but are neither reordered nor duplicated, *)
(* which is the network the protocol of DtpHost is built on.               *)
THEOREM NetworkIsChannels == Spec => ActsAsChannels
<1>1. Init => PathInv /\ Path!CInit
  BY InitPath
<1>2. IInv /\ PathInv /\ [Next]_vars => PathInv' /\ [Path!CNext]_Path!cvars
  BY NextPath
<1> QED
  BY Inductive, <1>1, <1>2, PTL DEF Spec, ActsAsChannels, Path!CSpec

-----------------------------------------------------------------------------
(* The way of a sender's packets                                           *)

Sender == [source : Hosts, destination : Hosts, start : Nat, ip : Nat, count : Nat,
           length : Nat \ {0}]

\* What is left of the way to d at d and, for packets of s, at another node.
RestSums(k, d, s) ==
    /\ k \in [Nodes -> Nat] /\ k[d] = 0
    /\ \A n \in Nodes \ {d} : k[n] = k[NextHop[<<n, d>>]] + LinkDelay(Onto(n, d), s)

(* Rest is what its definition says: at each node, what is left from the   *)
(* next hop on and the time the link to it takes.                          *)
LEMMA RestSteps ==
    ASSUME NEW s \in Sender
    PROVE  RestSums(Rest(s), s.destination, s)
<1> DEFINE d == s.destination
           h(n) == IF n = d THEN 0 ELSE LinkDelay(<<n, NextHop[<<n, d>>]>>, s)
           step == [x \in Nodes \X Nat |-> x[2] + h(x[1])]
           Is(f) == f = [n \in Nodes |-> IF n = d THEN 0
                          ELSE LET hop == NextHop[<<n, d>>]
                               IN  f[hop] + LinkDelay(<<n, hop>>, s)]
<1>1. d \in Nodes /\ s.length \in Nat
  BY DEF Sender, Nodes
<1>2. \A n \in Nodes \ {d} : /\ NextHop[<<n, d>>] \in Nodes
                             /\ LinkDelay(<<n, NextHop[<<n, d>>]>>, s) \in Nat
  <2> SUFFICES ASSUME NEW n \in Nodes \ {d}
               PROVE  /\ NextHop[<<n, d>>] \in Nodes
                      /\ LinkDelay(<<n, NextHop[<<n, d>>]>>, s) \in Nat
    OBVIOUS
  <2> DEFINE l == <<n, NextHop[<<n, d>>]>>
  <2>1. NextHop[<<n, d>>] \in Nodes /\ l \in Links
    BY <1>1, HopIsNode
  <2> HIDE DEF l, d
  <2>2. /\ TransTime(l, s) \in Nat /\ Latency[l] \in Nat
        /\ LinkDelay(l, s) = Latency[l] + TransTime(l, s)
    BY <1>1, <2>1, LinkTimes
  <2> QED
    BY <2>1, <2>2 DEF l
<1>3. \A n \in Nodes : h(n) \in Nat
  BY <1>1, <1>2
<1>4. \A n \in Nodes \ {d} : h(n) = LinkDelay(<<n, NextHop[<<n, d>>]>>, s)
  OBVIOUS
<1> HIDE DEF h
<1>5. step \in [Nodes \X Nat -> Nat]
  <2>1. \A x \in Nodes \X Nat : x[2] + h(x[1]) \in Nat
    BY <1>3
  <2> QED
    BY <2>1
<1>6. \A n \in Nodes, v \in Nat : step[<<n, v>>] = v + h(n)
  <2>1. \A x \in Nodes \X Nat : step[x] = x[2] + h(x[1])
    BY Zenon
  <2> SUFFICES ASSUME NEW n \in Nodes, NEW v \in Nat
               PROVE  step[<<n, v>>] = v + h(n)
    OBVIOUS
  <2>2. <<n, v>> \in Nodes \X Nat
    OBVIOUS
  <2> HIDE DEF step
  <2> QED
    BY <2>1, <2>2
<1> HIDE DEF step
<1>7. PICK f \in [Nodes -> Nat] : Follows(f, d, 0, step)
  <2> HIDE DEF d
  <2>1. 0 \in Nat
    OBVIOUS
  <2> QED
    BY <1>1, <1>5, <2>1, RouteFunction
<1>8. Is(f)
  <2>1. f = [n \in Nodes |-> IF n = d THEN 0 ELSE step[<<n, f[NextHop[<<n, d>>]]>>]]
    BY <1>7, Zenon DEF Follows
  <2>2. ASSUME NEW n \in Nodes, n # d
        PROVE  step[<<n, f[NextHop[<<n, d>>]]>>]
               = f[NextHop[<<n, d>>]] + LinkDelay(<<n, NextHop[<<n, d>>]>>, s)
    <3> DEFINE hop == NextHop[<<n, d>>]
               lat == LinkDelay(<<n, hop>>, s)
    <3>1. hop \in Nodes /\ lat \in Nat
      BY <1>2, <2>2
    <3>2. f[hop] \in Nat
      BY <1>7, <3>1
    <3>3. h(n) = lat
      BY <1>4, <2>2
    <3> HIDE DEF hop, lat
    <3>4. step[<<n, f[hop]>>] = f[hop] + h(n)
      BY <1>6, <3>2
    <3> QED
      BY <3>3, <3>4 DEF hop, lat
  <2>3. \A n \in Nodes : (IF n = d THEN 0 ELSE step[<<n, f[NextHop[<<n, d>>]]>>])
            = (IF n = d THEN 0
               ELSE f[NextHop[<<n, d>>]] + LinkDelay(<<n, NextHop[<<n, d>>]>>, s))
    BY <2>2
  <2> QED
    BY <2>1, <2>3, Zenon
<1>9. PICK k : k = CHOOSE g : Is(g)
  OBVIOUS
<1>10. Rest(s) = k
  BY <1>9 DEF Rest
<1>11. Is(k)
  BY <1>8, <1>9, Zenon
<1>12. /\ k[d] = 0 /\ k = [n \in Nodes |-> k[n]]
       /\ \A n \in Nodes \ {d} :
             k[n] = k[NextHop[<<n, d>>]] + LinkDelay(<<n, NextHop[<<n, d>>]>>, s)
  BY <1>1, <1>11
<1> HIDE DEF Is
<1> DEFINE G == {n \in Nodes : k[n] \in Nat}
<1>13. \A n \in Nodes : n \in G
  <2>1. d \in G
    BY <1>1, <1>12
  <2>2. \A n \in Nodes \ {d} : NextHop[<<n, d>>] \in G => n \in G
    <3> SUFFICES ASSUME NEW n \in Nodes \ {d}, NextHop[<<n, d>>] \in G
                 PROVE  n \in G
      OBVIOUS
    <3>1. k[n] = k[NextHop[<<n, d>>]] + LinkDelay(<<n, NextHop[<<n, d>>]>>, s)
      BY <1>12
    <3>2. k[NextHop[<<n, d>>]] \in Nat /\ LinkDelay(<<n, NextHop[<<n, d>>]>>, s) \in Nat
      BY <1>2
    <3> QED
      BY <1>1, <3>1, <3>2
  <2> HIDE DEF G, d
  <2> QED
    BY <1>1, <2>1, <2>2, BackFromEnd
<1>14. k \in [Nodes -> Nat]
  BY <1>12, <1>13
<1> QED
  BY <1>10, <1>12, <1>14 DEF RestSums, Onto

(* The links of LinksOf are those that packets of the sender go over.      *)
LEMMA LinksOfRoute ==
    ASSUME NEW s \in Sender, NEW n \in RouteFrom(s.source, s.destination), n # s.destination
    PROVE  Onto(n, s.destination) \in LinksOf(s)
<1> DEFINE d == s.destination
           V == SUBSET Links
           step == [x \in Nodes \X V |-> IF x[1] = d THEN {} ELSE x[2] \cup {Onto(x[1], d)}]
           Is(f) == f = [x \in Nodes |-> IF x = d THEN {}
                          ELSE f[NextHop[<<x, d>>]] \cup {<<x, NextHop[<<x, d>>]>>}]
<1>1. d \in Nodes /\ s.source \in Nodes
  BY DEF Sender, Nodes
<1>2. \A x \in Nodes \ {d} : NextHop[<<x, d>>] \in Nodes /\ Onto(x, d) \in Links
  BY <1>1, HopIsNode DEF Onto
<1>3. step \in [Nodes \X V -> V]
  <2>1. \A x \in Nodes \X V : (IF x[1] = d THEN {} ELSE x[2] \cup {Onto(x[1], d)}) \in V
    BY <1>2
  <2> QED
    BY <2>1
<1>4. \A x \in Nodes \ {d}, v \in V : step[<<x, v>>] = v \cup {Onto(x, d)}
  OBVIOUS
<1> HIDE DEF step
<1>5. PICK f \in [Nodes -> V] : Follows(f, d, {}, step)
  <2> HIDE DEF d
  <2>1. {} \in V
    OBVIOUS
  <2> HIDE DEF V
  <2> QED
    BY <1>1, <1>3, <2>1, RouteFunction
<1>6. Is(f)
  <2>1. f = [x \in Nodes |-> IF x = d THEN {} ELSE step[<<x, f[NextHop[<<x, d>>]]>>]]
    BY <1>5, Zenon DEF Follows
  <2>2. \A x \in Nodes \ {d} : step[<<x, f[NextHop[<<x, d>>]]>>]
           = f[NextHop[<<x, d>>]] \cup {<<x, NextHop[<<x, d>>]>>}
    <3> SUFFICES ASSUME NEW x \in Nodes \ {d}
                 PROVE  step[<<x, f[NextHop[<<x, d>>]]>>]
                        = f[NextHop[<<x, d>>]] \cup {<<x, NextHop[<<x, d>>]>>}
      OBVIOUS
    <3>1. f[NextHop[<<x, d>>]] \in V
      <4> HIDE DEF V
      <4> QED
        BY <1>2, <1>5
    <3> QED
      BY <1>4, <3>1 DEF Onto
  <2>3. \A x \in Nodes : (IF x = d THEN {} ELSE step[<<x, f[NextHop[<<x, d>>]]>>])
           = (IF x = d THEN {} ELSE f[NextHop[<<x, d>>]] \cup {<<x, NextHop[<<x, d>>]>>})
    BY <2>2
  <2> QED
    BY <2>1, <2>3, Zenon
<1>7. PICK k : k = CHOOSE g : Is(g)
  OBVIOUS
<1>8. LinksOf(s) = k[s.source]
  BY <1>7 DEF LinksOf
<1>9. Is(k)
  BY <1>6, <1>7, Zenon
<1>10. \A x \in Nodes \ {d} : k[x] = k[NextHop[<<x, d>>]] \cup {Onto(x, d)}
  BY <1>9 DEF Onto
<1> HIDE DEF Is
<1> DEFINE S == {x \in Nodes : k[x] \subseteq k[s.source]}
<1>11. S \in SUBSET Nodes /\ s.source \in S
  BY <1>1
<1>12. Onward(S, d)
  BY <1>2, <1>10 DEF Onward
<1>13. n \in S
  <2> HIDE DEF S, d
  <2>1. RouteFrom(s.source, d) \subseteq S
    BY <1>1, <1>11, <1>12, RouteSteps
  <2> QED
    BY <2>1 DEF d
<1> QED
  BY <1>8, <1>10, <1>13

(* Of two nodes on a route one is on the route from the other.             *)
LEMMA RouteInLine ==
    ASSUME NEW x \in Nodes, NEW d \in Nodes
    PROVE  \A n, m \in RouteFrom(x, d) : n \in RouteFrom(m, d) \/ m \in RouteFrom(n, d)
<1> DEFINE G == {y \in Nodes : \A n, m \in RouteFrom(y, d) :
                                  n \in RouteFrom(m, d) \/ m \in RouteFrom(n, d)}
<1>1. d \in G
  <2>1. RouteFrom(d, d) = {d}
    BY RouteFirst
  <2> QED
    BY <2>1
<1>2. ASSUME NEW y \in Nodes \ {d}, NextHop[<<y, d>>] \in G
      PROVE  y \in G
  <2>1. RouteFrom(y, d) = {y} \cup RouteFrom(NextHop[<<y, d>>], d)
    BY RouteFirst
  <2> QED
    BY <1>2, <2>1
<1> HIDE DEF G
<1>3. x \in G
  BY <1>1, <1>2, BackFromEnd
<1> QED
  BY <1>3 DEF G

(* A route comes to each of its nodes from one other.                      *)
LEMMA OneWayIn ==
    ASSUME NEW x \in Nodes, NEW d \in Nodes, NEW n \in RouteFrom(x, d) \ {d},
           NEW m \in RouteFrom(x, d) \ {d}, NextHop[<<n, d>>] = NextHop[<<m, d>>]
    PROVE  n = m
<1>1. n \in Nodes /\ m \in Nodes
  BY DEF RouteFrom
<1>2. ASSUME NEW y \in Nodes \ {d}, NEW z \in RouteFrom(y, d), z # y, z # d
      PROVE  NextHop[<<y, d>>] # NextHop[<<z, d>>]
  <2>1. RouteFrom(y, d) = {y} \cup RouteFrom(NextHop[<<y, d>>], d)
    BY RouteFirst
  <2>2. z \in Nodes /\ z \in RouteFrom(NextHop[<<y, d>>], d)
    BY <1>2, <2>1 DEF RouteFrom
  <2> QED
    BY <1>2, <2>2, NoReturn
<1>3. n \in RouteFrom(m, d) \/ m \in RouteFrom(n, d)
  BY RouteInLine
<1> QED
  BY <1>1, <1>2, <1>3

-----------------------------------------------------------------------------
(* The invariant of smooth flows                                           *)

\* Packet p is one of sender s, and at node n at time t it keeps the pace.
OfSender(s, p) == p.source = s.source /\ p.destination = s.destination
OnPace(s, p, t, n) == t + Rest(s)[n] = Due(s, p.id) + PathDelay(s)

\* Sender s has sent p, and sent packets so far.
Known(s, p, sent) == p.length = s.length /\ p.id < sent

\* The packets of s that arrive somewhere, and those a completion is for.
Arriving(s, map) == {e \in ToSet(map) : ~e.trans /\ OfSender(s, e.packet)}
Leaving(s, map) == {e \in ToSet(map) : e.trans /\ OfSender(s, e.packet)}

\* The links on the route of s.
Track(s) == Links \cap LinksOf(s)

\* Every packet of s is where its pace wants it at time now: on its way to a
\* node, in transmission since it came to one, or just come to one and waiting
\* for a transmission that ends now.
Paced(s, map, queue, now, sent) ==
    /\ \A e \in Arriving(s, map) :
          Known(s, e.packet, sent) /\ OnPace(s, e.packet, e.time, e.link[2])
    /\ \A e \in Leaving(s, map) :
          /\ Known(s, e.packet, sent) /\ e.time <= now + TransTime(e.link, s)
          /\ OnPace(s, e.packet, e.time - TransTime(e.link, s), e.link[1])
    /\ \A l \in Track(s) : \A p \in ToSet(queue[l]) :
          Known(s, p, sent) /\ OnPace(s, p, now, l[1]) /\ Len(queue[l]) = 1

\* The arrivals of packet k over link l.
Same(s, l, k) ==
    {e \in Events : ~e.trans /\ e.link = l /\ OfSender(s, e.packet) /\ e.packet.id = k}

\* No packet arrives at a node it has come to already.
Once(s, map, queue) ==
    /\ \A l \in Links, k \in Nat : Single(map, Same(s, l, k))
    /\ \A k \in Leaving(s, map) : \A r \in Arriving(s, map) :
          r.link[2] = k.link[1] => k.packet.id # r.packet.id
    /\ \A l \in Track(s) : \A p \in ToSet(queue[l]) :
          /\ \A r \in Arriving(s, map) : r.link[2] = l[1] => r.packet.id # p.id
          /\ \A k \in Leaving(s, map) : k.link = l => k.packet.id # p.id

Calm(s, map, queue, now, sent) ==
    Paced(s, map, queue, now, sent) /\ Once(s, map, queue)

\* The numbers from lo on, up to the one before hi.
Consecutive(q, lo, hi) == lo <= hi /\ q = [i \in 1 .. hi - lo |-> lo + i - 1]

\* Where the packets of s go from and to.
PairOfSender(s) == <<s.source, s.destination>>

\* The packets in the network.
InNetwork(map, queue) ==
    {e.packet : e \in ToSet(map)} \cup UNION {ToSet(queue[l]) : l \in Links}

\* Every packet of flow f is received, in its turn, or under way at its pace.
OnCourse(f) ==
    /\ Calm(senders[f], packet_map, packet_queue, clock, sent_so_far[f])
    /\ Consecutive(Chan[PairOfSender(senders[f])], Len(received[PairOfSender(senders[f])]),
                   sent_so_far[f])

\* The packets in the network are the senders', and smooth flows on course.
SmoothInv ==
    /\ \A p \in InNetwork(packet_map, packet_queue) : \E f \in Flows : OfSender(senders[f], p)
    /\ \A f \in Flows : Smooth(f) => OnCourse(f)

\* Sender s may go on at its rate, and does on a route with room at each node.
Steady(s) ==
    /\ s \in Sender /\ s.source # s.destination
    /\ \A l \in LinksOf(s) : Capacity[l[1]] > 0 /\ TransTime(l, s) \in 1 .. s.ip

\* The route of s carries only packets of s.
Alone(s, map, queue) ==
    /\ \A e \in ToSet(map) : e.link \in Track(s) => OfSender(s, e.packet)
    /\ \A l \in Track(s) : \A p \in ToSet(queue[l]) : OfSender(s, p)

-----------------------------------------------------------------------------
(* Pace                                                                    *)

(* A packet is due at least an inter-packet time after each earlier one.   *)
LEMMA DueOrder ==
    ASSUME NEW s \in Sender, NEW j \in Nat, NEW k \in Nat
    PROVE  /\ Due(s, j) \in Nat /\ Due(s, k) \in Nat
           /\ j < k => Due(s, j) + s.ip <= Due(s, k)
<1>1. PICK a \in Nat, d \in Nat : a = s.start /\ d = s.ip
  BY DEF Sender
<1>2. Due(s, j) = a + j * d /\ Due(s, k) = a + k * d
  BY <1>1 DEF Due
<1>3. j * d \in Nat /\ k * d \in Nat
  OBVIOUS
<1>4. ASSUME j < k
      PROVE  j * d + d <= k * d
  <2>1. PICK i \in Nat : i = k - (j + 1)
    BY <1>4
  <2>2. k = j + 1 + i
    BY <2>1
  <2>3. (j + 1 + i) * d = j * d + d + i * d /\ i * d \in Nat
    OBVIOUS
  <2>4. PICK u \in Nat, v \in Nat, w \in Nat : u = j * d /\ v = k * d /\ w = i * d
    BY <1>3, <2>3
  <2>5. v = u + d + w
    BY <2>2, <2>3, <2>4
  <2> QED
    BY <2>4, <2>5
<1>5. PICK u \in Nat, v \in Nat : u = j * d /\ v = k * d
  BY <1>3
<1>6. j < k => u + d <= v
  BY <1>4, <1>5
<1> QED
  BY <1>1, <1>2, <1>5, <1>6

\* The numbers that tell the pace of s.
LEMMA PaceTyped ==
    ASSUME NEW s \in Sender
    PROVE  /\ \A n \in Nodes : Rest(s)[n] \in Nat
           /\ PathDelay(s) \in Nat /\ s.length \in Nat \ {0} /\ s.ip \in Nat
           /\ PathDelay(s) = Rest(s)[s.source] /\ Rest(s)[s.destination] = 0
           /\ s.source \in Nodes /\ s.destination \in Nodes
<1>1. Rest(s) \in [Nodes -> Nat] /\ Rest(s)[s.destination] = 0
  BY RestSteps DEF RestSums
<1>2. s.source \in Nodes /\ s.destination \in Nodes /\ s.length \in Nat \ {0} /\ s.ip \in Nat
  BY DEF Sender, Nodes
<1> QED
  BY <1>1, <1>2 DEF PathDelay

\* The route of s starts with a link, and each one is done with a packet before
\* the next.
LEMMA SteadyRate ==
    ASSUME NEW s, Steady(s)
    PROVE  /\ s \in Sender /\ s.ip \in Nat \ {0}
           /\ \A l \in Track(s) : TransTime(l, s) \in Nat \ {0} /\ TransTime(l, s) <= s.ip
<1>1. /\ s \in Sender /\ s.source # s.destination /\ s.ip \in Nat
      /\ s.source \in Nodes /\ s.destination \in Nodes
  BY PaceTyped DEF Steady
<1>2. s.source \in RouteFrom(s.source, s.destination)
  BY <1>1, RouteSteps
<1>3. Onto(s.source, s.destination) \in LinksOf(s)
  BY <1>1, <1>2, LinksOfRoute
<1>4. \A l \in LinksOf(s) : TransTime(l, s) \in 1 .. s.ip
  BY DEF Steady
<1>5. PICK x : x = TransTime(Onto(s.source, s.destination), s)
  OBVIOUS
<1>6. x \in 1 .. s.ip
  BY <1>3, <1>4, <1>5
<1>7. s.ip # 0
  BY <1>1, <1>6
<1>8. ASSUME NEW l \in Track(s)
      PROVE  TransTime(l, s) \in Nat \ {0} /\ TransTime(l, s) <= s.ip
  <2>1. TransTime(l, s) \in 1 .. s.ip
    BY <1>4 DEF Track
  <2> QED
    BY <1>1, <2>1
<1> QED
  BY <1>1, <1>7, <1>8

(* Packets that keep the pace at the same node: the one that is earlier by *)
(* less than an inter-packet time is the same one or a later one.          *)
LEMMA PaceOrder ==
    ASSUME NEW s, Steady(s), NEW n \in Nodes, NEW p \in Packet, NEW q \in Packet,
           NEW t \in Int, NEW u \in Int, OnPace(s, p, t, n), OnPace(s, q, u, n)
    PROVE  /\ p.id < q.id => t + s.ip <= u
           /\ p.id = q.id <=> t = u
<1>1. s \in Sender /\ p.id \in Nat /\ q.id \in Nat
  BY DEF Steady, Packet
<1>2. PICK r \in Nat, D \in Nat, a \in Nat, b \in Nat, d \in Nat \ {0} :
         r = Rest(s)[n] /\ D = PathDelay(s) /\ a = Due(s, p.id) /\ b = Due(s, q.id) /\ d = s.ip
  <2>1. s.ip \in Nat \ {0}
    BY SteadyRate
  <2> QED
    BY <1>1, <2>1, PaceTyped, DueOrder
<1>3. t + r = a + D /\ u + r = b + D
  BY <1>2 DEF OnPace
<1>4. (p.id < q.id => a + d <= b) /\ (q.id < p.id => b + d <= a)
  BY <1>1, <1>2, DueOrder
<1>5. p.id = q.id => a = b
  BY <1>2
<1>6. p.id < q.id => t + d <= u
  BY <1>3, <1>4
<1>7. p.id = q.id <=> t = u
  BY <1>1, <1>3, <1>4, <1>5
<1> QED
  BY <1>2, <1>6, <1>7

\* The same with the types, for use by name.
Meets(s, p, t, n) == p \in Packet /\ t \in Int /\ n \in Nodes /\ OnPace(s, p, t, n)

LEMMA MeetOnce ==
    ASSUME NEW s, Steady(s), NEW n, NEW p, NEW q, NEW t, NEW u,
           Meets(s, p, t, n), Meets(s, q, u, n)
    PROVE  /\ p.id = q.id <=> t = u
           /\ u < t => u + s.ip <= t
<1>1. p.id = q.id <=> t = u
  BY PaceOrder DEF Meets
<1>2. (p.id < q.id => t + s.ip <= u) /\ (q.id < p.id => u + s.ip <= t)
  BY PaceOrder DEF Meets
<1>3. p.id \in Nat /\ q.id \in Nat /\ t \in Int /\ u \in Int /\ s.ip \in Nat
  BY DEF Meets, Packet, Steady, Sender
<1>4. u < t => u + s.ip <= t
  BY <1>1, <1>2, <1>3
<1> QED
  BY <1>1, <1>4

(* A link that carries a packet of s is on its route, and takes its time.  *)
LEMMA OnTrack ==
    ASSUME NEW s \in Sender, NEW p, NEW l \in Links, Routed(l, p), OfSender(s, p)
    PROVE  /\ l \in Track(s) /\ l[1] \in Nodes /\ l[2] \in Nodes
           /\ l[1] \in RouteFrom(s.source, s.destination) /\ l[1] # s.destination
           /\ l = Onto(l[1], s.destination) /\ Latency[l] \in Nat
           /\ TransTime(l, s) \in Nat /\ LinkDelay(l, s) = Latency[l] + TransTime(l, s)
           /\ Rest(s)[l[1]] = Rest(s)[l[2]] + LinkDelay(l, s)
<1> DEFINE d == s.destination
<1>1. l[1] \in RouteFrom(s.source, d) /\ l[1] # d /\ l = Onto(l[1], d)
  BY DEF Routed, OfSender
<1>2. l[1] \in Nodes /\ l[2] = NextHop[<<l[1], d>>] /\ d \in Nodes
  BY <1>1, PaceTyped DEF RouteFrom, Onto
<1>3. l[2] \in Nodes
  BY <1>1, <1>2, HopIsNode
<1>4. l \in LinksOf(s)
  BY <1>1, LinksOfRoute
<1>5. Rest(s)[l[1]] = Rest(s)[l[2]] + LinkDelay(l, s)
  BY <1>1, <1>2, RestSteps DEF RestSums
<1>6. s.length \in Nat
  BY PaceTyped
<1>7. /\ TransTime(l, s) \in Nat /\ Latency[l] \in Nat
      /\ LinkDelay(l, s) = Latency[l] + TransTime(l, s)
  BY <1>6, LinkTimes
<1> QED
  BY <1>1, <1>2, <1>3, <1>4, <1>5, <1>7 DEF Track

(* A packet is not again at the node a link of its way begins at, when it  *)
(* has come to the end of the link.                                        *)
LEMMA OneLinkIn ==
    ASSUME NEW s \in Sender, NEW p, NEW q, NEW k \in Links, NEW l \in Links, Routed(k, p), Routed(l, q),
           OfSender(s, p), OfSender(s, q), k[2] = l[2]
    PROVE  k = l
<1>1. /\ k[1] \in RouteFrom(s.source, s.destination) /\ k[1] # s.destination
      /\ k = Onto(k[1], s.destination)
      /\ l[1] \in RouteFrom(s.source, s.destination) /\ l[1] # s.destination
      /\ l = Onto(l[1], s.destination)
      /\ s.source \in Nodes /\ s.destination \in Nodes
  BY OnTrack, PaceTyped
<1>2. NextHop[<<k[1], s.destination>>] = NextHop[<<l[1], s.destination>>]
  BY <1>1 DEF Onto
<1>3. k[1] = l[1]
  BY <1>1, <1>2, OneWayIn
<1> QED
  BY <1>1, <1>3

-----------------------------------------------------------------------------
(* Transmissions of a smooth flow                                          *)

(* A packet that has just come to an idle link keeps the pace over it.     *)
LEMMA TransmitCalm ==
    ASSUME NEW s, Steady(s), NEW map, NEW now, NEW busy, MapOK(map, now, busy),
           NEW queue \in [Links -> Seq(Packet)], NEW sent, Calm(s, map, queue, now, sent),
           NEW l \in Links \ busy, NEW p \in Packet, Routed(l, p), OfSender(s, p),
           Known(s, p, sent), OnPace(s, p, now, l[1]),
           \A r \in Arriving(s, map) : r.link[2] = l[1] => r.packet.id # p.id,
           \A x \in ToSet(queue[l]) : x.id # p.id
    PROVE  Calm(s, Transmit(map, now, l, p), queue, now, sent)
<1> DEFINE arrival == Event(now + LinkDelay(l, p), l, p, FALSE)
           completion == Event(now + TransTime(l, p), l, p, TRUE)
           mid == Schedule(map, arrival)
           new == Schedule(mid, completion)
           R == Rest(s)
<1>1. /\ s \in Sender /\ now \in Nat /\ map \in Seq(Events) /\ Sorted(map)
      /\ p.length = s.length /\ p.id \in Nat
      /\ InOrder(map, now, busy) /\ \A e \in ToSet(map) : Routed(e.link, e.packet)
      /\ ToSet(map) \in SUBSET Events
  <2>1. now \in Nat /\ map \in Seq(Events) /\ Sorted(map)
    BY DEF MapOK, EventsOK
  <2>2. ToSet(map) \in SUBSET Events
    BY <2>1, Holds
  <2> QED
    BY <2>1, <2>2 DEF MapOK, Steady, Known, Packet
<1>2. /\ l \in Track(s) /\ l[1] \in Nodes /\ l[2] \in Nodes /\ Latency[l] \in Nat
      /\ R[l[1]] = R[l[2]] + LinkDelay(l, s) /\ LinkDelay(l, s) = Latency[l] + TransTime(l, s)
      /\ R[l[1]] \in Nat /\ R[l[2]] \in Nat /\ TransTime(l, s) \in Nat \ {0}
  BY <1>1, OnTrack, PaceTyped, SteadyRate
<1>0. TransTime(l, p) = TransTime(l, s) /\ LinkDelay(l, p) = LinkDelay(l, s)
  BY <1>1 DEF TransTime, LinkDelay
<1>3. /\ arrival \in Events /\ ~arrival.trans /\ arrival.link = l /\ arrival.packet = p
      /\ arrival.time = now + LinkDelay(l, s)
      /\ completion \in Events /\ completion.trans /\ completion.link = l
      /\ completion.packet = p /\ completion.time = now + TransTime(l, s)
  BY <1>0, <1>1, <1>2 DEF Events, Event
<1>4. Transmit(map, now, l, p) = new
  BY DEF Transmit
<1> HIDE DEF arrival, completion
<1>5. /\ mid \in Seq(Events) /\ Sorted(mid) /\ ToSet(mid) = ToSet(map) \cup {arrival}
      /\ \A K : Single(map, K) /\ (arrival \in K => ToSet(map) \cap K = {}) => Single(mid, K)
  <2>1. map \in Seq(Events) /\ Sorted(map) /\ arrival \in Events
    BY <1>1, <1>3
  <2> HIDE DEF mid, new, R
  <2> QED
    BY <2>1, EventTimes, ScheduleHolds DEF mid
<1> HIDE DEF mid
<1>6. /\ ToSet(new) = ToSet(map) \cup {arrival, completion}
      /\ \A K : Single(mid, K) /\ completion \notin K => Single(new, K)
  <2>1. /\ ToSet(new) = ToSet(mid) \cup {completion}
        /\ \A K : Single(mid, K) /\ (completion \in K => ToSet(mid) \cap K = {}) => Single(new, K)
    BY <1>3, <1>5, EventTimes, ScheduleHolds
  <2> QED
    BY <1>5, <2>1
<1> HIDE DEF new
<1>7. Arriving(s, new) = Arriving(s, map) \cup {arrival}
      /\ Leaving(s, new) = Leaving(s, map) \cup {completion}
  BY <1>3, <1>6 DEF Arriving, Leaving
<1>8. OnPace(s, p, arrival.time, l[2])
  <2>1. now + R[l[1]] = arrival.time + R[l[2]]
    BY <1>1, <1>2, <1>3
  <2> QED
    BY <2>1 DEF OnPace
<1>9. Paced(s, map, queue, now, sent) /\ Once(s, map, queue)
  BY DEF Calm
<1>10. arrival.time \in Int /\ arrival.time > now + Latency[l] /\ arrival.time > now /\ now \in Int
  BY <1>1, <1>2, <1>3
<1> HIDE DEF R
<1>11. Paced(s, new, queue, now, sent)
  <2>1. ASSUME NEW e \in Arriving(s, new)
        PROVE  Known(s, e.packet, sent) /\ OnPace(s, e.packet, e.time, e.link[2])
    BY <1>3, <1>7, <1>8, <1>9 DEF Paced
  <2>2. completion.time - TransTime(l, s) = now
    BY <1>1, <1>2, <1>3
  <2>3. completion.time <= now + TransTime(l, s)
    BY <1>1, <1>2, <1>3
  <2>4. ASSUME NEW e \in Leaving(s, new)
        PROVE  /\ Known(s, e.packet, sent) /\ e.time <= now + TransTime(e.link, s)
               /\ OnPace(s, e.packet, e.time - TransTime(e.link, s), e.link[1])
    <3>1. CASE e = completion
      BY <1>3, <2>2, <2>3, <3>1
    <3>2. CASE e \in Leaving(s, map)
      BY <1>9, <3>2 DEF Paced
    <3> QED
      BY <1>7, <3>1, <3>2
  <2> QED
    BY <1>9, <2>1, <2>4 DEF Paced
<1>12. ASSUME NEW k \in Links, NEW i \in Nat
       PROVE  Single(new, Same(s, k, i))
  <2>1. completion \notin Same(s, k, i)
    BY <1>3 DEF Same
  <2>2. ASSUME arrival \in Same(s, k, i), NEW e \in ToSet(map), e \in Same(s, k, i)
        PROVE  FALSE
    <3>1. e \in Events /\ ~e.trans /\ e.link = l /\ OfSender(s, e.packet) /\ e.packet.id = p.id
      BY <1>3, <2>2 DEF Same
    <3>2. e.time \in Int /\ e.packet \in Packet
      BY <3>1 DEF Events
    <3>3. OnPace(s, e.packet, e.time, l[2])
      BY <1>9, <2>2, <3>1 DEF Paced, Arriving
    <3>4. e.time = arrival.time
      <4> DEFINE t == arrival.time
                 u == e.time
                 q == e.packet
                 n == l[2]
      <4>1. q.id = p.id /\ Meets(s, p, t, n) /\ Meets(s, q, u, n)
        BY <1>2, <1>8, <1>10, <3>1, <3>2, <3>3 DEF Meets
      <4> HIDE DEF t, u, q, n
      <4>2. t = u
        BY <4>1, MeetOnce
      <4> QED
        BY <4>2 DEF t, u
    <3>5. e.time <= now + Latency[l]
      BY <1>1, <2>2, <3>1 DEF InOrder
    <3> QED
      BY <1>1, <1>2, <1>10, <3>4, <3>5
  <2>3. Single(mid, Same(s, k, i))
    <3>1. Single(map, Same(s, k, i))
      BY <1>9 DEF Once
    <3>2. arrival \in Same(s, k, i) => ToSet(map) \cap Same(s, k, i) = {}
      BY <2>2
    <3> QED
      BY <1>5, <3>1, <3>2
  <2> QED
    BY <1>6, <2>1, <2>3
<1>13. ASSUME NEW k \in Leaving(s, new), NEW r \in Arriving(s, new), r.link[2] = k.link[1]
       PROVE  k.packet.id # r.packet.id
  <2>1. CASE k \in Leaving(s, map) /\ r \in Arriving(s, map)
    BY <1>9, <1>13, <2>1 DEF Once
  <2>2. CASE k \in Leaving(s, map) /\ r = arrival
    <3> DEFINE far == TransTime(k.link, s)
    <3>1. k \in Events /\ k.packet \in Packet /\ k.time \in Nat /\ k.link \in Links
      BY <1>1, <2>2 DEF Leaving, Events
    <3>0. far \in Nat
      <4>1. s.length \in Nat
        BY <1>1, PaceTyped
      <4> QED
        BY <3>1, <4>1, LinkTimes
    <3> HIDE DEF far
    <3>2. OnPace(s, k.packet, k.time - far, l[2]) /\ k.time <= now + far
      BY <1>3, <1>9, <1>13, <2>2 DEF Paced, far
    <3>3. k.time - far \in Int /\ k.time - far # arrival.time
      <4>1. PICK a \in Nat, b \in Nat, v \in Int, w \in Int :
               a = k.time /\ b = far /\ v = arrival.time /\ w = now
        BY <1>10, <3>0, <3>1
      <4>2. a <= w + b /\ v > w
        BY <1>10, <3>2, <4>1
      <4>3. a - b \in Int /\ a - b # v
        BY <4>2
      <4> QED
        BY <4>1, <4>3
    <3>4. k.packet.id # p.id
      <4> DEFINE t == arrival.time
                 u == k.time - far
                 q == k.packet
                 n == l[2]
      <4>1. t # u /\ Meets(s, p, t, n) /\ Meets(s, q, u, n)
        BY <1>2, <1>8, <1>10, <3>1, <3>2, <3>3 DEF Meets
      <4> HIDE DEF t, u, q, n
      <4>2. q.id # p.id
        BY <4>1, MeetOnce
      <4> QED
        BY <4>2 DEF q
    <3> QED
      BY <1>3, <2>2, <3>4
  <2>3. CASE k = completion /\ r \in Arriving(s, map)
    BY <1>3, <1>13, <2>3
  <2>4. CASE k = completion /\ r = arrival
    <3>1. l[2] = l[1]
      BY <1>3, <1>13, <2>4
    <3> QED
      BY <1>2, <3>1
  <2> QED
    BY <1>7, <2>1, <2>2, <2>3, <2>4
<1>14. ASSUME NEW k \in Track(s), NEW x \in ToSet(queue[k])
       PROVE  /\ \A r \in Arriving(s, new) : r.link[2] = k[1] => r.packet.id # x.id
              /\ \A c \in Leaving(s, new) : c.link = k => c.packet.id # x.id
  <2>1. k \in Links /\ queue[k] \in Seq(Packet)
    BY DEF Track
  <2>2. x \in Packet
    BY <2>1, Holds
  <2>3. OnPace(s, x, now, k[1])
    BY <1>9 DEF Paced
  <2>4. ASSUME l[2] = k[1]
        PROVE  p.id # x.id
    <3> DEFINE t == arrival.time
               n == l[2]
    <3>1. t # now /\ Meets(s, p, t, n) /\ Meets(s, x, now, n)
      BY <1>2, <1>8, <1>10, <2>2, <2>3, <2>4 DEF Meets
    <3> HIDE DEF t, n
    <3> QED
      BY <3>1, MeetOnce
  <2>5. \A r \in Arriving(s, map) : r.link[2] = k[1] => r.packet.id # x.id
    BY <1>9 DEF Once
  <2>6. \A c \in Leaving(s, map) : c.link = k => c.packet.id # x.id
    BY <1>9 DEF Once
  <2> QED
    BY <1>3, <1>7, <2>4, <2>5, <2>6
<1>15. Once(s, new, queue)
  BY <1>12, <1>13, <1>14 DEF Once
<1> QED
  BY <1>4, <1>11, <1>15 DEF Calm

(* A packet that another sender's link takes up is none of s.              *)
LEMMA TransmitOther ==
    ASSUME NEW s, NEW map, NEW now, NEW busy, MapOK(map, now, busy),
           NEW queue, NEW sent, Calm(s, map, queue, now, sent),
           NEW l \in Links, NEW p \in Packet, ~OfSender(s, p)
    PROVE  Calm(s, Transmit(map, now, l, p), queue, now, sent)
<1> DEFINE arrival == Event(now + LinkDelay(l, p), l, p, FALSE)
           completion == Event(now + TransTime(l, p), l, p, TRUE)
           mid == Schedule(map, arrival)
           new == Schedule(mid, completion)
<1>1. now \in Nat /\ map \in Seq(Events) /\ Sorted(map)
  BY DEF MapOK, EventsOK
<1>2. LinkDelay(l, p) \in Nat /\ TransTime(l, p) \in Nat
  <2>1. /\ TransTime(l, p) \in Nat /\ Latency[l] \in Nat
        /\ LinkDelay(l, p) = Latency[l] + TransTime(l, p)
    BY LinkTimes DEF Packet
  <2> QED
    BY <2>1
<1>3. /\ arrival \in Events /\ arrival.packet = p
      /\ completion \in Events /\ completion.packet = p
  BY <1>1, <1>2 DEF Events, Event
<1>4. Transmit(map, now, l, p) = new
  BY DEF Transmit
<1> HIDE DEF arrival, completion
<1>5. /\ mid \in Seq(Events) /\ Sorted(mid) /\ ToSet(mid) = ToSet(map) \cup {arrival}
      /\ \A K : Single(map, K) /\ (arrival \in K => ToSet(map) \cap K = {}) => Single(mid, K)
  BY <1>1, <1>3, EventTimes, ScheduleHolds
<1> HIDE DEF mid
<1>6. /\ ToSet(new) = ToSet(mid) \cup {completion}
      /\ \A K : Single(mid, K) /\ (completion \in K => ToSet(mid) \cap K = {}) => Single(new, K)
  BY <1>3, <1>5, EventTimes, ScheduleHolds
<1> HIDE DEF new
<1>7. Arriving(s, new) = Arriving(s, map) /\ Leaving(s, new) = Leaving(s, map)
  BY <1>3, <1>5, <1>6 DEF Arriving, Leaving
<1>8. \A k, i : arrival \notin Same(s, k, i) /\ completion \notin Same(s, k, i)
  BY <1>3 DEF Same
<1>9. \A k \in Links, i \in Nat : Single(new, Same(s, k, i))
  <2> SUFFICES ASSUME NEW k \in Links, NEW i \in Nat
               PROVE  Single(new, Same(s, k, i))
    OBVIOUS
  <2>1. Single(map, Same(s, k, i))
    BY DEF Calm, Once
  <2>2. Single(mid, Same(s, k, i))
    BY <1>5, <1>8, <2>1
  <2> QED
    BY <1>6, <1>8, <2>2
<1>10. Paced(s, new, queue, now, sent)
  BY <1>7 DEF Calm, Paced
<1>11. Once(s, new, queue)
  BY <1>7, <1>9 DEF Calm, Once
<1> QED
  BY <1>4, <1>10, <1>11 DEF Calm

-----------------------------------------------------------------------------
(* The steps of a smooth flow                                              *)

(* Fewer packets in the queues, or more sent, change nothing.              *)
LEMMA CalmWithLess ==
    ASSUME NEW s, NEW map, NEW queue, NEW now, NEW sent \in Nat, Calm(s, map, queue, now, sent),
           NEW new, \A l \in Track(s) : new[l] = queue[l] \/ ToSet(new[l]) = {},
           NEW more \in Nat, sent <= more, map \in Seq(Events),
           \A l \in Track(s) : queue[l] \in Seq(Packet)
    PROVE  Calm(s, map, new, now, more)
<1>1. ASSUME NEW p \in Packet, Known(s, p, sent)
      PROVE  Known(s, p, more)
  BY <1>1 DEF Known, Packet
<1>2. Paced(s, map, new, now, more)
  <2>1. ToSet(map) \in SUBSET Events
    BY Holds
  <2>2. \A e \in Events : e.packet \in Packet
    BY DEF Events
  <2>3. \A e \in Arriving(s, map) :
          Known(s, e.packet, more) /\ OnPace(s, e.packet, e.time, e.link[2])
    BY <1>1, <2>1, <2>2 DEF Arriving, Calm, Paced
  <2>4. \A e \in Leaving(s, map) :
          /\ Known(s, e.packet, more) /\ e.time <= now + TransTime(e.link, s)
          /\ OnPace(s, e.packet, e.time - TransTime(e.link, s), e.link[1])
    BY <1>1, <2>1, <2>2 DEF Leaving, Calm, Paced
  <2>5. ASSUME NEW l \in Track(s), NEW p \in ToSet(new[l])
        PROVE  Known(s, p, more) /\ OnPace(s, p, now, l[1]) /\ Len(new[l]) = 1
    <3>1. new[l] = queue[l] /\ queue[l] \in Seq(Packet)
      BY <2>5
    <3>2. p \in Packet
      BY <2>5, <3>1, Holds
    <3> QED
      BY <1>1, <2>5, <3>1, <3>2 DEF Calm, Paced
  <2> QED
    BY <2>3, <2>4, <2>5 DEF Paced
<1>3. Once(s, map, new)
  BY DEF Calm, Once
<1> QED
  BY <1>2, <1>3 DEF Calm

(* A packet waits for a transmission that ends at once.                    *)
LEMMA WaitEnds ==
    ASSUME NEW s, Steady(s), NEW map, NEW now, NEW busy, MapOK(map, now, busy),
           NEW queue, QueuesOK(queue, busy), Alone(s, map, queue),
           NEW sent, Calm(s, map, queue, now, sent),
           NEW l \in Track(s), NEW x \in ToSet(queue[l])
    PROVE  \E e \in ToSet(map) : e.time <= now
<1>1. l \in Links /\ queue[l] \in Seq(Packet) /\ (queue[l] # <<>> => l \in busy)
  BY DEF Track, QueuesOK
<1>2. x \in Packet /\ queue[l] # <<>>
  <2>1. x \in {queue[l][i] : i \in 1 .. Len(queue[l])} /\ x \in Packet
    BY <1>1, Holds
  <2> QED
    BY <1>1, <2>1
<1>3. now \in Nat /\ map \in Seq(Events) /\ Completing(map) = busy
  BY DEF MapOK, EventsOK
<1>4. PICK i \in 1 .. Len(map) : map[i].trans /\ map[i].link = l
  BY <1>1, <1>2, <1>3 DEF Completing
<1>5. PICK e \in ToSet(map) : e.trans /\ e.link = l
  BY <1>3, <1>4, Holds
<1>6. e \in Events /\ e.packet \in Packet /\ e.time \in Nat
  <2>1. ToSet(map) \in SUBSET Events
    BY <1>3, Holds
  <2> QED
    BY <1>5, <2>1 DEF Events
<1>7. e \in Leaving(s, map)
  BY <1>5 DEF Alone, Leaving
<1> DEFINE far == TransTime(l, s)
           u == e.time - far
<1>8. e.time <= now + far /\ OnPace(s, e.packet, e.time - far, l[1])
      /\ e.packet.id # x.id /\ OnPace(s, x, now, l[1])
  BY <1>5, <1>7 DEF Calm, Paced, Once
<1>9. l[1] \in Nodes /\ far \in Nat /\ s.ip \in Nat /\ far <= s.ip
  <2>1. l[1] \in Nodes
    BY <1>1, NodesAssumption
  <2> QED
    BY <2>1, SteadyRate
<1> HIDE DEF far
<1>10. PICK t \in Nat, d \in Nat : t = e.time /\ d = far
  BY <1>6, <1>9
<1>11. u \in Int /\ u = t - d
  BY <1>10
<1>12. Meets(s, e.packet, u, l[1]) /\ Meets(s, x, now, l[1])
  BY <1>2, <1>3, <1>6, <1>8, <1>9, <1>11 DEF Meets
<1> HIDE DEF u
<1>13. u # now /\ (u < now => u + s.ip <= now)
  BY <1>8, <1>12, MeetOnce
<1>14. u <= now
  BY <1>3, <1>8, <1>10, <1>11
<1>15. t <= now
  BY <1>3, <1>9, <1>10, <1>11, <1>13, <1>14
<1> QED
  BY <1>5, <1>10, <1>15

(* Time does not pass a packet that waits.                                 *)
LEMMA LaterCalm ==
    ASSUME NEW s, Steady(s), NEW map, NEW now, NEW busy, MapOK(map, now, busy),
           NEW queue, QueuesOK(queue, busy), Alone(s, map, queue),
           NEW sent, Calm(s, map, queue, now, sent),
           NEW t \in Nat, now <= t, map # <<>> => t <= Head(map).time
    PROVE  Calm(s, map, queue, t, sent)
<1>1. now \in Nat /\ map \in Seq(Events) /\ Sorted(map) /\ s.length \in Nat
  BY DEF MapOK, EventsOK, Steady, Sender
<1>2. ASSUME NEW e \in Leaving(s, map)
      PROVE  e.time <= t + TransTime(e.link, s)
  <2> DEFINE far == TransTime(e.link, s)
  <2>1. e.time <= now + far
    BY DEF Calm, Paced
  <2>2. e \in ToSet(map)
    BY DEF Leaving
  <2>4. ToSet(map) \in SUBSET Events
    BY <1>1, Holds
  <2>3. e.time \in Nat /\ e.link \in Links
    BY <2>2, <2>4 DEF Events
  <2>5. far \in Nat
    BY <1>1, <2>3, LinkTimes
  <2> HIDE DEF far
  <2> QED
    BY <1>1, <2>1, <2>3, <2>5 DEF far
<1>3. ASSUME NEW l \in Track(s), NEW x \in ToSet(queue[l])
      PROVE  t = now
  <2>1. PICK e \in ToSet(map) : e.time <= now
    BY <1>3, WaitEnds
  <2>2. ToSet(map) = {map[i] : i \in 1 .. Len(map)} /\ ToSet(map) \in SUBSET Events
    BY <1>1, Holds
  <2>3. map # <<>>
    BY <2>1, <2>2, <1>1
  <2>4. Head(map).time <= e.time
    BY <1>1, <2>1, <2>3, SortedIs, EventTimes
  <2>5. e.time \in Nat /\ Head(map).time \in Nat
    BY <1>1, <2>1, <2>2, <2>3 DEF Events
  <2>6. t <= Head(map).time
    BY <2>3
  <2> QED
    BY <1>1, <2>1, <2>4, <2>5, <2>6
<1>4. Paced(s, map, queue, t, sent)
  BY <1>2, <1>3 DEF Calm, Paced
<1> QED
  BY <1>4 DEF Calm

(* When the first event is taken, no other one brings its packet there.    *)
LEMMA FirstCalm ==
    ASSUME NEW s \in Sender, NEW map \in Seq(Events), Sorted(map), map # <<>>,
           \A e \in ToSet(map) : Routed(e.link, e.packet),
           NEW queue, NEW now, NEW sent, Calm(s, map, queue, now, sent)
    PROVE  /\ Calm(s, Tail(map), queue, now, sent)
           /\ Head(map) \in Arriving(s, map) =>
                 \A r \in Arriving(s, Tail(map)) :
                    r.link[2] = Head(map).link[2] => r.packet.id # Head(map).packet.id
<1> DEFINE t == Tail(map)
           e == Head(map)
<1>1. /\ t \in Seq(Events) /\ e \in Events /\ ToSet(map) = ToSet(t) \cup {e}
      /\ \A K : Single(map, K) => Single(t, K) /\ (e \in K => ToSet(t) \cap K = {})
  BY EventTimes, TailHolds
<1>2. ToSet(map) \in SUBSET Events
  BY Holds
<1> HIDE DEF t, e
<1>3. Arriving(s, t) \subseteq Arriving(s, map) /\ Leaving(s, t) \subseteq Leaving(s, map)
  BY <1>1 DEF Arriving, Leaving
<1>4. Calm(s, t, queue, now, sent)
  BY <1>1, <1>3 DEF Calm, Paced, Once
<1>5. ASSUME e \in Arriving(s, map), NEW r \in Arriving(s, t), r.link[2] = e.link[2],
             r.packet.id = e.packet.id
      PROVE  FALSE
  <2>1. r \in ToSet(map) /\ e \in ToSet(map) /\ OfSender(s, r.packet) /\ OfSender(s, e.packet)
        /\ ~r.trans /\ ~e.trans /\ r \in ToSet(t)
    BY <1>1, <1>5 DEF Arriving
  <2>2. r \in Events /\ e \in Events /\ r.link \in Links /\ e.link \in Links
        /\ e.packet.id \in Nat
    BY <1>2, <2>1 DEF Events, Packet
  <2>3. r.link = e.link
    BY <1>5, <2>1, <2>2, OneLinkIn
  <2> DEFINE K == Same(s, e.link, e.packet.id)
  <2>4. r \in K /\ e \in K
    BY <1>5, <2>1, <2>2, <2>3 DEF Same
  <2>5. Single(map, K)
    BY <2>2 DEF Calm, Once
  <2> HIDE DEF K
  <2> QED
    BY <1>1, <2>1, <2>4, <2>5
<1> QED
  BY <1>4, <1>5 DEF t, e

(* What another sender's link transmits.                                   *)
LEMMA SendItOther ==
    ASSUME NEW s \in Sender, NEW map, NEW now, NEW busy, MapOK(map, now, busy),
           packet_queue \in [Links -> Seq(Packet)],
           NEW sent \in Nat, Calm(s, map, packet_queue, now, sent),
           NEW l \in Links, l \notin Track(s), NEW q \in Seq(Packet),
           \A x \in ToSet(q) : Routed(l, x), SendIt(now, map, l, q, busy)
    PROVE  Calm(s, packet_map', packet_queue', now, sent)
<1>1. map \in Seq(Events)
  BY DEF MapOK, EventsOK
<1>2. \A k \in Track(s) : k \in Links /\ k # l /\ packet_queue[k] \in Seq(Packet)
  BY DEF Track
<1>3. ASSUME NEW r, packet_queue' = [packet_queue EXCEPT ![l] = r]
      PROVE  Calm(s, map, packet_queue', now, sent)
  <2>1. \A k \in Track(s) : packet_queue'[k] = packet_queue[k]
    BY <1>2, <1>3
  <2>2. sent <= sent
    OBVIOUS
  <2> QED
    BY <1>1, <1>2, <2>1, <2>2, CalmWithLess
<1>4. CASE l \in busy \/ q = <<>>
  BY <1>3, <1>4 DEF SendIt
<1>5. CASE ~(l \in busy \/ q = <<>>)
  <2>1. packet_map' = Transmit(map, now, l, Head(q))
        /\ packet_queue' = [packet_queue EXCEPT ![l] = Tail(q)]
    BY <1>5 DEF SendIt
  <2>2. Head(q) \in Packet /\ Head(q) \in ToSet(q)
    BY <1>5, TailElements
  <2>3. ~OfSender(s, Head(q))
    BY <2>2, OnTrack
  <2>4. Calm(s, map, packet_queue', now, sent)
    BY <1>3, <2>1
  <2>5. Calm(s, Transmit(map, now, l, Head(q)), packet_queue', now, sent)
    BY <2>2, <2>3, <2>4, TransmitOther
  <2> QED
    BY <2>1, <2>5
<1> QED
  BY <1>4, <1>5

(* The packet that waited for the end of a transmission goes on at once.   *)
LEMMA NextCalm ==
    ASSUME NEW s, Steady(s), NEW map, NEW now, NEW busy, MapOK(map, now, busy),
           packet_queue \in [Links -> Seq(Packet)], QueuesRouted(packet_queue),
           Alone(s, map, packet_queue),
           NEW sent \in Nat, Calm(s, map, packet_queue, now, sent),
           NEW l \in Links, l \notin busy, SendIt(now, map, l, packet_queue[l], busy)
    PROVE  Calm(s, packet_map', packet_queue', now, sent)
<1> DEFINE q == packet_queue[l]
<1>1. map \in Seq(Events) /\ s \in Sender /\ q \in Seq(Packet)
      /\ \A x \in ToSet(q) : Routed(l, x)
  BY DEF MapOK, EventsOK, Steady, QueuesRouted
<1>2. CASE l \notin Track(s)
  BY <1>1, <1>2, SendItOther
<1>3. CASE l \in Track(s) /\ q = <<>>
  <2>1. packet_map' = map /\ packet_queue' = packet_queue
    BY <1>3 DEF SendIt
  <2> QED
    BY <2>1
<1>4. CASE l \in Track(s) /\ q # <<>>
  <2> DEFINE p == Head(q)
  <2>1. p \in Packet /\ p \in ToSet(q) /\ Tail(q) \in Seq(Packet)
    BY <1>1, <1>4, TailElements
  <2>2. /\ Routed(l, p) /\ OfSender(s, p) /\ Known(s, p, sent) /\ OnPace(s, p, now, l[1])
        /\ Len(q) = 1
        /\ \A r \in Arriving(s, map) : r.link[2] = l[1] => r.packet.id # p.id
    BY <1>1, <1>4, <2>1 DEF Alone, Calm, Paced, Once
  <2>3. packet_map' = Transmit(map, now, l, p)
        /\ packet_queue' = [packet_queue EXCEPT ![l] = Tail(q)]
    BY <1>4 DEF SendIt
  <2>4. Len(Tail(q)) = 0
    BY <1>1, <1>4, <2>2
  <2>5. ToSet(Tail(q)) = {}
    <3> DEFINE r == Tail(q)
    <3>1. r \in Seq(Packet) /\ Len(r) = 0
      BY <2>1, <2>4
    <3> HIDE DEF r
    <3>2. ToSet(r) = {}
      BY <3>1 DEF ToSet
    <3> QED
      BY <3>2 DEF r
  <2> HIDE DEF p, q
  <2> DEFINE t == Tail(q)
  <2>6. /\ packet_queue' \in [Links -> Seq(Packet)] /\ ToSet(packet_queue'[l]) = {}
        /\ \A k \in Track(s) : packet_queue'[k] = packet_queue[k] \/ ToSet(packet_queue'[k]) = {}
    <3>1. t \in Seq(Packet) /\ ToSet(t) = {} /\ packet_queue' = [packet_queue EXCEPT ![l] = t]
      BY <2>1, <2>3, <2>5
    <3> HIDE DEF t
    <3> QED
      BY <3>1 DEF Track
  <2>7. Calm(s, map, packet_queue', now, sent)
    <3>1. sent <= sent /\ \A k \in Track(s) : packet_queue[k] \in Seq(Packet)
      BY DEF Track
    <3> QED
      BY <1>1, <2>6, <3>1, CalmWithLess
  <2>8. Calm(s, Transmit(map, now, l, p), packet_queue', now, sent)
    BY <2>1, <2>2, <2>6, <2>7, TransmitCalm
  <2> QED
    BY <2>3, <2>8
<1> QED
  BY <1>2, <1>3, <1>4

\* Packet p, that is now at node n, is in no other place after the links to n.
FirstAt(s, map, queue, p, l) ==
    /\ \A r \in Arriving(s, map) : r.link[2] = l[1] => r.packet.id # p.id
    /\ \A k \in Leaving(s, map) : k.link = l => k.packet.id # p.id
    /\ \A x \in ToSet(queue[l]) : x.id # p.id

(* A packet that comes to a node finds the queue of its next link empty,   *)
(* is not dropped and goes on at the pace.                                 *)
LEMMA EnqueueCalm ==
    ASSUME NEW s, Steady(s), NEW map, NEW now, MapOK(map, now, pending_send),
           packet_queue \in [Links -> Seq(Packet)], Alone(s, map, packet_queue),
           NEW sent \in Nat, Calm(s, map, packet_queue, now, sent),
           NEW l \in Links, NEW p \in Packet, Routed(l, p), OfSender(s, p),
           Known(s, p, sent), OnPace(s, p, now, l[1]), FirstAt(s, map, packet_queue, p, l),
           Enqueue(now, map, l, p)
    PROVE  ~Full(l) /\ Calm(s, packet_map', packet_queue', now, sent)
<1>1. map \in Seq(Events) /\ s \in Sender /\ now \in Nat
  BY DEF MapOK, EventsOK, Steady
<1>2. l \in Track(s) /\ l[1] \in Nodes /\ packet_queue[l] \in Seq(Packet)
  BY <1>1, OnTrack
<1>3. packet_queue[l] = <<>>
  <2> SUFFICES ASSUME packet_queue[l] # <<>>
               PROVE  FALSE
    OBVIOUS
  <2> DEFINE x == Head(packet_queue[l])
             n == l[1]
  <2>1. x \in Packet /\ x \in ToSet(packet_queue[l])
    BY <1>2, TailElements
  <2>2. OnPace(s, x, now, n) /\ x.id # p.id
    BY <1>2, <2>1 DEF Calm, Paced, FirstAt
  <2>3. Meets(s, x, now, n) /\ Meets(s, p, now, n)
    BY <1>1, <1>2, <2>1, <2>2 DEF Meets
  <2> HIDE DEF x, n
  <2> QED
    BY <2>2, <2>3, MeetOnce
<1>4. ~Full(l) /\ SendIt(now, map, l, <<p>>, pending_send)
  <2>1. Capacity[l[1]] > 0
    BY <1>2 DEF Steady, Track
  <2>2. Len(packet_queue[l]) = 0 /\ Append(packet_queue[l], p) = <<p>>
    BY <1>3
  <2> QED
    BY <2>1, <2>2 DEF Full, Enqueue
<1>5. CASE l \in pending_send
  <2>1. packet_map' = map /\ packet_queue' = [packet_queue EXCEPT ![l] = <<p>>]
    BY <1>4, <1>5 DEF SendIt
  <2>2. packet_queue'[l] = <<p>> /\ \A k \in Track(s) : k # l => packet_queue'[k] = packet_queue[k]
    BY <2>1 DEF Track
  <2>3. ToSet(<<p>>) = {p} /\ Len(<<p>>) = 1
    BY DEF ToSet
  <2>4. Paced(s, map, packet_queue', now, sent)
    <3>1. ASSUME NEW k \in Track(s), NEW x \in ToSet(packet_queue'[k])
          PROVE  Known(s, x, sent) /\ OnPace(s, x, now, k[1]) /\ Len(packet_queue'[k]) = 1
      <4>1. CASE k = l
        BY <2>2, <2>3, <3>1, <4>1
      <4>2. CASE k # l
        BY <2>2, <3>1, <4>2 DEF Calm, Paced
      <4> QED
        BY <4>1, <4>2
    <3> QED
      BY <3>1 DEF Calm, Paced
  <2>5. Once(s, map, packet_queue')
    <3>1. ASSUME NEW k \in Track(s), NEW x \in ToSet(packet_queue'[k])
          PROVE  /\ \A r \in Arriving(s, map) : r.link[2] = k[1] => r.packet.id # x.id
                 /\ \A c \in Leaving(s, map) : c.link = k => c.packet.id # x.id
      <4>1. CASE k = l
        BY <2>2, <2>3, <3>1, <4>1 DEF FirstAt
      <4>2. CASE k # l
        BY <2>2, <3>1, <4>2 DEF Calm, Once
      <4> QED
        BY <4>1, <4>2
    <3> QED
      BY <3>1 DEF Calm, Once
  <2> QED
    BY <1>4, <2>1, <2>4, <2>5 DEF Calm
<1>6. CASE l \notin pending_send
  <2>1. packet_map' = Transmit(map, now, l, p)
        /\ packet_queue' = [packet_queue EXCEPT ![l] = <<>>]
    BY <1>4, <1>6 DEF SendIt
  <2>2. packet_queue' = packet_queue
    BY <1>3, <2>1
  <2>3. Calm(s, Transmit(map, now, l, p), packet_queue, now, sent)
    BY <1>6, TransmitCalm DEF FirstAt
  <2> QED
    BY <1>4, <2>1, <2>2, <2>3
<1> QED
  BY <1>5, <1>6

(* A packet of another sender joins the queue of another link.             *)
LEMMA EnqueueOther ==
    ASSUME NEW s \in Sender, NEW map, NEW now, MapOK(map, now, pending_send),
           packet_queue \in [Links -> Seq(Packet)], QueuesRouted(packet_queue),
           NEW sent \in Nat, Calm(s, map, packet_queue, now, sent),
           NEW l \in Links, l \notin Track(s), NEW p \in Packet, Routed(l, p),
           Enqueue(now, map, l, p)
    PROVE  Calm(s, packet_map', packet_queue', now, sent)
<1>1. CASE Len(packet_queue[l]) < Capacity[l[1]]
  <2> DEFINE q == Append(packet_queue[l], p)
  <2>1. q \in Seq(Packet) /\ \A x \in ToSet(q) : x = p \/ x \in ToSet(packet_queue[l])
    BY AppendElements
  <2>2. SendIt(now, map, l, q, pending_send)
    BY <1>1 DEF Enqueue
  <2> HIDE DEF q
  <2>3. \A x \in ToSet(q) : Routed(l, x)
    BY <2>1 DEF QueuesRouted
  <2> QED
    BY <2>1, <2>2, <2>3, SendItOther
<1>2. CASE ~(Len(packet_queue[l]) < Capacity[l[1]])
  BY <1>2 DEF Enqueue
<1> QED
  BY <1>1, <1>2

-----------------------------------------------------------------------------
(* The flows of the application                                            *)

(* Consecutive numbers, one more at the end or one less at the beginning.  *)
LEMMA MoreConsecutive ==
    ASSUME NEW q, NEW lo \in Nat, NEW hi \in Nat, Consecutive(q, lo, hi)
    PROVE  /\ Consecutive(Append(q, hi), lo, hi + 1)
           /\ q # <<>> => Head(q) = lo /\ Consecutive(Tail(q), lo + 1, hi)
<1>1. /\ lo <= hi /\ q = [i \in 1 .. hi - lo |-> lo + i - 1]
      /\ q \in Seq(Nat) /\ Len(q) = hi - lo
  BY DEF Consecutive
<1>2. \A i \in 1 .. hi - lo : q[i] = lo + i - 1
  BY <1>1
<1>3. PICK n \in Nat : n = hi - lo
  BY <1>1
<1>4. Consecutive(Append(q, hi), lo, hi + 1)
  <2> DEFINE r == Append(q, hi)
  <2>1. r \in Seq(Nat) /\ Len(r) = Len(q) + 1 /\ r[Len(q) + 1] = hi
    BY <1>1
  <2>2. \A i \in 1 .. Len(q) : r[i] = q[i]
    BY <1>1
  <2> HIDE DEF r
  <2>3. r = [i \in 1 .. Len(r) |-> r[i]]
    BY <2>1
  <2>4. r = [i \in 1 .. n + 1 |-> r[i]]
    BY <1>1, <1>3, <2>1, <2>3
  <2>5. hi = lo + n /\ Len(q) = n
    BY <1>1, <1>3
  <2>6. ASSUME NEW i \in 1 .. n + 1
        PROVE  r[i] = lo + i - 1
    <3>1. CASE i = n + 1
      BY <2>1, <2>5, <3>1
    <3>2. CASE i # n + 1
      <4>1. i \in 1 .. n
        BY <3>2
      <4> QED
        BY <1>2, <1>3, <2>2, <2>5, <4>1
    <3> QED
      BY <3>1, <3>2
  <2>7. r = [i \in 1 .. n + 1 |-> lo + i - 1]
    BY <2>4, <2>6
  <2>8. hi + 1 - lo = n + 1 /\ lo <= hi + 1
    BY <2>5
  <2> QED
    BY <2>7, <2>8 DEF Consecutive, r
<1>5. ASSUME q # <<>>
      PROVE  Head(q) = lo /\ Consecutive(Tail(q), lo + 1, hi)
  <2>1. n # 0 /\ hi = lo + n /\ Len(q) = n
    BY <1>1, <1>3, <1>5
  <2>2. lo + 1 <= hi /\ hi - (lo + 1) = n - 1 /\ 1 \in 1 .. n
    BY <2>1
  <2>3. Head(q) = lo
    BY <1>1, <1>2, <1>3, <2>2
  <2> DEFINE t == Tail(q)
  <2>4. t \in Seq(Nat) /\ Len(t) = Len(q) - 1
    BY <1>1, <1>5
  <2>5. \A i \in 1 .. Len(q) - 1 : t[i] = q[i + 1]
    BY <1>1, <1>5
  <2> HIDE DEF t
  <2>6. t = [i \in 1 .. Len(t) |-> t[i]]
    BY <2>4
  <2>7. t = [i \in 1 .. n - 1 |-> t[i]]
    BY <2>1, <2>4, <2>6
  <2>8. ASSUME NEW i \in 1 .. n - 1
        PROVE  t[i] = lo + 1 + i - 1
    <3>1. i + 1 \in 1 .. n
      OBVIOUS
    <3>2. q[i + 1] = lo + (i + 1) - 1
      BY <1>2, <1>3, <3>1
    <3> QED
      BY <2>1, <2>5, <3>2
  <2>9. t = [i \in 1 .. n - 1 |-> lo + 1 + i - 1]
    BY <2>7, <2>8
  <2> QED
    BY <2>2, <2>3, <2>9 DEF Consecutive, t
<1> QED
  BY <1>4, <1>5

(* What a step adds to the network is the packet it is about.              *)
LEMMA SendItAdds ==
    ASSUME NEW map \in Seq(Events), Sorted(map), NEW now \in Nat, NEW busy,
           packet_queue \in [Links -> Seq(Packet)],
           NEW l \in Links, NEW q \in Seq(Packet), SendIt(now, map, l, q, busy)
    PROVE  InNetwork(packet_map', packet_queue') \subseteq InNetwork(map, packet_queue) \cup ToSet(q)
<1>1. CASE l \in busy \/ q = <<>>
  <2>1. packet_map' = map /\ packet_queue' = [packet_queue EXCEPT ![l] = q]
    BY <1>1 DEF SendIt
  <2> QED
    BY <2>1 DEF InNetwork
<1>2. CASE ~(l \in busy \/ q = <<>>)
  <2> DEFINE p == Head(q)
             t == Tail(q)
             arrival == Event(now + LinkDelay(l, p), l, p, FALSE)
             completion == Event(now + TransTime(l, p), l, p, TRUE)
             mid == Schedule(map, arrival)
             new == Schedule(mid, completion)
  <2>1. packet_map' = new /\ packet_queue' = [packet_queue EXCEPT ![l] = t]
    BY <1>2 DEF SendIt, Transmit
  <2>2. p \in Packet /\ p \in ToSet(q) /\ ToSet(t) \subseteq ToSet(q)
    BY <1>2, TailElements
  <2> HIDE DEF p, t
  <2>3. LinkDelay(l, p) \in Nat /\ TransTime(l, p) \in Nat
    <3>1. /\ TransTime(l, p) \in Nat /\ Latency[l] \in Nat
          /\ LinkDelay(l, p) = Latency[l] + TransTime(l, p)
      BY <2>2, LinkTimes DEF Packet
    <3> QED
      BY <3>1
  <2>4. /\ arrival \in Events /\ arrival.packet = p
        /\ completion \in Events /\ completion.packet = p
    BY <2>2, <2>3 DEF Events, Event
  <2> HIDE DEF arrival, completion
  <2>5. mid \in Seq(Events) /\ Sorted(mid) /\ ToSet(mid) = ToSet(map) \cup {arrival}
    BY <2>4, ScheduleEvents
  <2> HIDE DEF mid
  <2>6. ToSet(new) = ToSet(mid) \cup {completion}
    BY <2>4, <2>5, ScheduleEvents
  <2> HIDE DEF new
  <2>7. {e.packet : e \in ToSet(new)} \subseteq {e.packet : e \in ToSet(map)} \cup {p}
    BY <2>4, <2>5, <2>6
  <2>8. \A k \in Links : ToSet(packet_queue'[k]) \subseteq ToSet(packet_queue[k]) \cup ToSet(q)
    BY <2>1, <2>2
  <2> QED
    BY <2>1, <2>2, <2>7, <2>8 DEF InNetwork
<1> QED
  BY <1>1, <1>2

(* And so what a queue takes.                                              *)
LEMMA EnqueueAdds ==
    ASSUME NEW map \in Seq(Events), Sorted(map), NEW now \in Nat,
           packet_queue \in [Links -> Seq(Packet)],
           NEW l \in Links, NEW p \in Packet, Enqueue(now, map, l, p)
    PROVE  InNetwork(packet_map', packet_queue') \subseteq InNetwork(map, packet_queue) \cup {p}
<1>1. CASE Len(packet_queue[l]) < Capacity[l[1]]
  <2> DEFINE q == Append(packet_queue[l], p)
  <2>1. q \in Seq(Packet) /\ \A x \in ToSet(q) : x = p \/ x \in ToSet(packet_queue[l])
    BY AppendElements
  <2>2. SendIt(now, map, l, q, pending_send)
    BY <1>1 DEF Enqueue
  <2> HIDE DEF q
  <2>3. ToSet(q) \subseteq InNetwork(map, packet_queue) \cup {p}
    BY <2>1 DEF InNetwork
  <2> QED
    BY <2>1, <2>2, <2>3, SendItAdds
<1>2. CASE ~(Len(packet_queue[l]) < Capacity[l[1]])
  BY <1>2 DEF Enqueue
<1> QED
  BY <1>1, <1>2

(* What a configuration says of the senders.                               *)
LEMMA FlowFacts ==
    ASSUME CbrInv, NEW f \in Flows
    PROVE  /\ senders[f] \in Sender /\ senders[f].source # senders[f].destination
           /\ PairOfSender(senders[f]) \in Pairs /\ senders[f].destination \in Hosts
           /\ sent_so_far[f] \in Nat
           /\ Smooth(f) => Steady(senders[f])
           /\ \A g \in Flows : g # f =>
                 /\ senders[g].source # senders[f].source
                 /\ Smooth(f) => Track(senders[f]) \cap Track(senders[g]) = {}
<1> DEFINE C == senders
           s == senders[f]
<1>1. C \in Configs /\ f \in DOMAIN C /\ sent_so_far[f] \in Nat
  BY DEF CbrInv, Flows
<1>2. s \in Sender
  <2>1. C \in Seq(Sender)
    BY <1>1, ConfigsAssumption DEF Sender
  <2> HIDE DEF C
  <2> QED
    BY <1>1, <2>1 DEF C
<1>3. CbrPacket(s, 0) \in Packets
  <2>1. Total(s) \in Nat /\ Total(s) >= 1
    BY <1>1, SenderTyped
  <2>2. 0 \in 0 .. Total(s) - 1
    BY <2>1
  <2> QED
    BY <1>1, <2>2, SenderTyped
<1>4. s.source # s.destination /\ PairOfSender(s) \in Pairs
  BY <1>3, PacketsAssumption DEF CbrPacket, Pairs, PairOfSender
<1>5. \A g \in Flows : g # f => senders[g].source # s.source
  BY <1>1, ConfigsAssumption DEF Flows
<1>6. Smooth(f) => Steady(s)
  BY <1>2, <1>4 DEF Smooth, Steady
<1>7. \A g \in Flows : g # f => (Smooth(f) => Track(s) \cap Track(senders[g]) = {})
  BY DEF Smooth, Track
<1> QED
  BY <1>1, <1>2, <1>4, <1>5, <1>6, <1>7 DEF Sender

(* Only its own packets go over the route of a smooth flow.                *)
LEMMA SmoothAlone ==
    ASSUME CbrInv, PathInv, SmoothInv, NEW f \in Flows, Smooth(f)
    PROVE  Alone(senders[f], packet_map, packet_queue)
<1>1. ASSUME NEW l \in Track(senders[f]), NEW p \in InNetwork(packet_map, packet_queue), Routed(l, p)
      PROVE  OfSender(senders[f], p)
  <2>1. PICK g \in Flows : OfSender(senders[g], p)
    BY DEF SmoothInv
  <2>2. l \in Links
    BY DEF Track
  <2>3. l \in Track(senders[g])
    BY <1>1, <2>1, <2>2, FlowFacts, OnTrack
  <2>4. g = f
    BY <2>3, FlowFacts
  <2> QED
    BY <2>1, <2>4
<1>2. \A e \in ToSet(packet_map) : e.packet \in InNetwork(packet_map, packet_queue)
                                    /\ Routed(e.link, e.packet)
  BY DEF InNetwork, PathInv, MapOK
<1>3. \A l \in Track(senders[f]) : \A p \in ToSet(packet_queue[l]) :
         p \in InNetwork(packet_map, packet_queue) /\ Routed(l, p)
  BY DEF InNetwork, PathInv, QueuesRouted, Track
<1> QED
  BY <1>1, <1>2, <1>3 DEF Alone

-----------------------------------------------------------------------------
(* The steps of smooth flows                                               *)

(* The invariant of the next state, put together.                          *)
LEMMA SmoothNext ==
    ASSUME senders' = senders,
           \A p \in InNetwork(packet_map', packet_queue') : \E f \in Flows : OfSender(senders[f], p),
           \A f \in Flows : Smooth(f) => OnCourse(f)'
    PROVE  SmoothInv'
<1>1. Flows' = Flows /\ \A f : Smooth(f)' <=> Smooth(f)
  BY DEF Flows, Smooth
<1>2. \A p \in InNetwork(packet_map', packet_queue') : \E f \in Flows' : OfSender(senders'[f], p)
  BY <1>1
<1> QED
  BY <1>1, <1>2 DEF SmoothInv

(* Time that passes before the first event.                                *)
LEMMA LaterFlow ==
    ASSUME CbrInv, PathInv, SmoothInv, NEW f \in Flows, Smooth(f), NEW t \in Nat, clock <= t,
           packet_map # <<>> => t <= Head(packet_map).time
    PROVE  /\ Steady(senders[f]) /\ senders[f] \in Sender /\ sent_so_far[f] \in Nat
           /\ Alone(senders[f], packet_map, packet_queue)
           /\ Calm(senders[f], packet_map, packet_queue, t, sent_so_far[f])
<1>1. Steady(senders[f]) /\ senders[f] \in Sender /\ sent_so_far[f] \in Nat
  BY FlowFacts
<1>2. Alone(senders[f], packet_map, packet_queue)
  BY SmoothAlone
<1>3. Calm(senders[f], packet_map, packet_queue, clock, sent_so_far[f])
  BY DEF SmoothInv, OnCourse
<1>4. MapOK(packet_map, clock, pending_send) /\ QueuesOK(packet_queue, pending_send)
  BY DEF PathInv, CbrInv, IInv
<1> QED
  BY <1>1, <1>2, <1>3, <1>4, LaterCalm

(* The events that are left when the first one is taken, and the packet it *)
(* is about, when that comes to a node.                                    *)
LEMMA FirstFlow ==
    ASSUME CbrInv, PathInv, SmoothInv, NEW e, Process(e), NEW f \in Flows, Smooth(f)
    PROVE  /\ Steady(senders[f]) /\ senders[f] \in Sender /\ sent_so_far[f] \in Nat
           /\ Alone(senders[f], Tail(packet_map), packet_queue)
           /\ Calm(senders[f], Tail(packet_map), packet_queue, e.time, sent_so_far[f])
           /\ ~e.trans /\ OfSender(senders[f], e.packet) =>
                 /\ Known(senders[f], e.packet, sent_so_far[f])
                 /\ OnPace(senders[f], e.packet, e.time, e.link[2])
                 /\ \A l \in Track(senders[f]) : l[1] = e.link[2] =>
                       FirstAt(senders[f], Tail(packet_map), packet_queue, e.packet, l)
<1> DEFINE s == senders[f]
           sent == sent_so_far[f]
           tail == Tail(packet_map)
<1>1. /\ e \in Events /\ clock' = e.time /\ packet_map # <<>> /\ e = Head(packet_map)
      /\ packet_map \in Seq(Events)
  BY ProcessPath DEF CbrInv
<1>2. /\ Sorted(packet_map) /\ MapOK(packet_map, clock, pending_send)
      /\ \A a \in ToSet(packet_map) : Routed(a.link, a.packet)
  BY DEF PathInv, MapOK, EventsOK
<1>3. e.time \in Nat /\ clock <= e.time
  <2>1. EventsOK(packet_map, clock, pending_send)
    BY DEF CbrInv, IInv
  <2> QED
    BY <1>1, <2>1, TakeFirst DEF Events, EventsOK
<1>4. /\ Steady(s) /\ s \in Sender /\ sent \in Nat
      /\ Alone(s, packet_map, packet_queue) /\ Calm(s, packet_map, packet_queue, e.time, sent)
  BY <1>1, <1>3, LaterFlow
<1>5. ToSet(packet_map) = ToSet(tail) \cup {e}
  BY <1>1, <1>2, EventTimes, TailHolds
<1> HIDE DEF s, sent
<1>6. /\ Calm(s, tail, packet_queue, e.time, sent)
      /\ e \in Arriving(s, packet_map) =>
            \A r \in Arriving(s, tail) : r.link[2] = e.link[2] => r.packet.id # e.packet.id
  BY <1>1, <1>2, <1>4, FirstCalm
<1> HIDE DEF tail
<1>7. Alone(s, tail, packet_queue)
  BY <1>4, <1>5 DEF Alone
<1>8. ASSUME ~e.trans, OfSender(s, e.packet)
      PROVE  /\ Known(s, e.packet, sent)
             /\ OnPace(s, e.packet, e.time, e.link[2])
             /\ \A l \in Track(s) : l[1] = e.link[2] => FirstAt(s, tail, packet_queue, e.packet, l)
  <2>1. e \in Arriving(s, packet_map)
    BY <1>5, <1>8 DEF Arriving
  <2>2. Known(s, e.packet, sent) /\ OnPace(s, e.packet, e.time, e.link[2])
    BY <1>4, <2>1 DEF Calm, Paced
  <2>3. ASSUME NEW l \in Track(s), l[1] = e.link[2]
        PROVE  FirstAt(s, tail, packet_queue, e.packet, l)
    <3>1. \A r \in Arriving(s, tail) : r.link[2] = l[1] => r.packet.id # e.packet.id
      BY <1>6, <2>1, <2>3
    <3>2. Leaving(s, tail) \subseteq Leaving(s, packet_map)
      BY <1>5 DEF Leaving
    <3>3. \A k \in Leaving(s, tail) : k.link = l => k.packet.id # e.packet.id
      BY <1>4, <2>1, <2>3, <3>2 DEF Calm, Once
    <3>4. \A x \in ToSet(packet_queue[l]) : x.id # e.packet.id
      BY <1>4, <2>1, <2>3 DEF Calm, Once
    <3> QED
      BY <3>1, <3>3, <3>4 DEF FirstAt
  <2> QED
    BY <2>2, <2>3
<1> QED
  BY <1>4, <1>6, <1>7, <1>8 DEF s, sent, tail

(* The packets of two flows are different ones.                            *)
LEMMA OtherPair ==
    ASSUME CbrInv, NEW f \in Flows, NEW g \in Flows, f # g, NEW p, OfSender(senders[g], p)
    PROVE  ~OfSender(senders[f], p) /\ PairOfSender(senders[f]) # <<p.source, p.destination>>
           /\ <<p.source, p.destination>> = PairOfSender(senders[g])
<1>1. senders[g].source # senders[f].source
  BY FlowFacts
<1> QED
  BY <1>1 DEF OfSender, PairOfSender

(* A flow whose packets a step calms, and neither sends nor receives, goes *)
(* on where it was.                                                        *)
LEMMA StillOnCourse ==
    ASSUME SmoothInv, NEW f \in Flows, Smooth(f), senders' = senders,
           Calm(senders[f], packet_map', packet_queue', clock', sent_so_far'[f]),
           sent_so_far'[f] = sent_so_far[f], received' = received,
           Chan'[PairOfSender(senders[f])] = Chan[PairOfSender(senders[f])]
    PROVE  OnCourse(f)'
BY DEF SmoothInv, OnCourse

(* What a timer of flow g sends: packet k, when it is due, to the first    *)
(* link of its route.                                                      *)
LEMMA TimerPath ==
    ASSUME CbrInv, PathInv, NEW g \in Flows, HandleTimer(g),
           NEW s, s = senders[g], NEW k, k = sent_so_far[g], NEW p, p = CbrPacket(s, k),
           NEW l, l = Onto(s.source, s.destination)
    PROVE  /\ s \in Sender /\ k \in Nat /\ p \in Packet /\ OfSender(s, p) /\ p.id = k /\ p.length = s.length
           /\ l \in Links /\ Routed(l, p) /\ l \in Track(s)
           /\ senders' = senders /\ sent_so_far' = [sent_so_far EXCEPT ![g] = k + 1]
           /\ clock' = Due(s, k) /\ clock' \in Nat /\ clock <= clock'
           /\ packet_map # <<>> => clock' <= Head(packet_map).time
           /\ MapOK(packet_map, clock', pending_send) /\ QueuesRouted(packet_queue)
           /\ packet_map \in Seq(Events) /\ Sorted(packet_map)
           /\ packet_queue \in [Links -> Seq(Packet)]
           /\ Enqueue(clock', packet_map, l, p)
           /\ received' = received
           /\ \/ Full(l) /\ Chan' = Chan
              \/ Becomes(PairOfSender(s), Append(Chan[PairOfSender(s)], k))
<1> DEFINE t == Head(timer_map).time
<1>1. /\ Next /\ k < Total(s) /\ clock' = Due(s, k) /\ clock' = t /\ timer_map # <<>>
  BY TimerSends
<1>2. HostSend(p, t) /\ senders' = senders /\ sent_so_far' = [sent_so_far EXCEPT ![g] = k + 1]
  BY DEF HandleTimer
<1>3. s \in Sender /\ k \in Nat
  BY FlowFacts
<1>4. p \in Packets /\ Due(s, k) <= MaxTime
  <2>1. g \in DOMAIN senders /\ senders \in Configs
    BY DEF CbrInv, Flows
  <2>2. Total(s) \in Nat
    BY <2>1, SenderTyped
  <2>3. k \in 0 .. Total(s) - 1
    BY <1>1, <1>3, <2>2
  <2> QED
    BY <2>1, <2>3, SenderTyped
<1>5. t \in 0 .. MaxTime
  <2>1. Due(s, k) \in Nat /\ t = Due(s, k)
    BY <1>1, <1>3, DueOrder
  <2> HIDE DEF t
  <2> QED
    BY <1>4, <2>1, TimesAssumption
<1>6. IInv'
  BY <1>1, NextOK DEF CbrInv
<1>7. /\ p.source = s.source /\ p.destination = s.destination /\ p.id = k /\ p.length = s.length
      /\ OfSender(s, p) /\ <<p.source, p.destination>> = PairOfSender(s)
  BY DEF CbrPacket, OfSender, PairOfSender
<1> HIDE DEF t
<1>8. /\ received' = received
      /\ \/ Full(l) /\ Chan' = Chan
         \/ Becomes(PairOfSender(s), Append(Chan[PairOfSender(s)], k))
  BY <1>2, <1>4, <1>5, <1>6, <1>7, HostSendPath DEF CbrInv
<1>9. p \in Packet /\ PairOfSender(s) \in Pairs
  BY <1>4, <1>7, PacketsAssumption DEF Pairs
<1>10. s.source \in Nodes /\ s.destination \in Nodes /\ s.source # s.destination
  BY <1>7, <1>9, PairOf
<1>11. l \in Links /\ Routed(l, p)
  <2>1. s.source \in RouteFrom(s.source, s.destination)
    BY <1>10, RouteSteps
  <2> QED
    BY <1>7, <1>9, <1>10, <2>1, HopIsNode DEF Routed, Onto
<1>12. l \in Track(s)
  BY <1>3, <1>7, <1>11, OnTrack
<1>13. /\ clock' = t /\ t \in Nat /\ clock <= t /\ (packet_map # <<>> => t <= Head(packet_map).time)
       /\ Enqueue(t, packet_map, l, p)
  BY <1>2, <1>5, <1>7, TimesAssumption DEF HostSend, Onto
<1>14. MapOK(packet_map, t, pending_send) /\ QueuesRouted(packet_queue)
  BY <1>13, LaterCarries DEF PathInv
<1>15. /\ packet_map \in Seq(Events) /\ Sorted(packet_map)
       /\ packet_queue \in [Links -> Seq(Packet)]
  BY DEF CbrInv, IInv, EventsOK, QueuesOK
<1> QED
  BY <1>1, <1>2, <1>3, <1>7, <1>8, <1>9, <1>11, <1>12, <1>13, <1>14, <1>15

(* The packet a smooth flow sends keeps it on course.                      *)
LEMMA TimerOwn ==
    ASSUME CbrInv, PathInv, SmoothInv, NEW g \in Flows, HandleTimer(g), Smooth(g)
    PROVE  OnCourse(g)'
<1> DEFINE s == senders[g]
           k == sent_so_far[g]
           p == CbrPacket(s, k)
           l == Onto(s.source, s.destination)
           c == PairOfSender(s)
<1>1. /\ s \in Sender /\ k \in Nat /\ p \in Packet /\ OfSender(s, p) /\ p.id = k /\ p.length = s.length
      /\ l \in Links /\ Routed(l, p) /\ l \in Track(s)
      /\ senders' = senders /\ sent_so_far' = [sent_so_far EXCEPT ![g] = k + 1]
      /\ clock' = Due(s, k) /\ clock' \in Nat /\ clock <= clock'
      /\ packet_map # <<>> => clock' <= Head(packet_map).time
      /\ MapOK(packet_map, clock', pending_send)
      /\ packet_map \in Seq(Events)
      /\ packet_queue \in [Links -> Seq(Packet)]
      /\ Enqueue(clock', packet_map, l, p)
      /\ received' = received
      /\ \/ Full(l) /\ Chan' = Chan
         \/ Becomes(c, Append(Chan[c], k))
  BY TimerPath
<1>2. /\ Steady(s) /\ Alone(s, packet_map, packet_queue)
      /\ Calm(s, packet_map, packet_queue, clock', k)
  BY <1>1, LaterFlow
<1>3. /\ Consecutive(Chan[c], Len(received[c]), k) /\ sent_so_far'[g] = k + 1
      /\ c \in Pairs /\ Len(received[c]) \in Nat
  <2>1. c \in Hosts \X Hosts /\ c \in Pairs
    BY <1>1, FlowFacts DEF PairOfSender, Sender
  <2>2. received[c] \in Seq(Packet)
    BY <2>1 DEF PathInv
  <2>3. sent_so_far'[g] = k + 1
    BY <1>1 DEF CbrInv
  <2> HIDE DEF c
  <2>4. Len(received[c]) \in Nat
    BY <2>2
  <2> QED
    BY <2>1, <2>3, <2>4 DEF SmoothInv, OnCourse, c
<1> HIDE DEF s, k, p, l, c
<1>4. Calm(s, packet_map, packet_queue, clock', k + 1) /\ k + 1 \in Nat
  <2>1. \A x \in Track(s) : packet_queue[x] \in Seq(Packet)
    BY <1>1 DEF Track
  <2>2. k <= k + 1 /\ k + 1 \in Nat
    BY <1>1
  <2> QED
    BY <1>1, <1>2, <2>1, <2>2, CalmWithLess
<1>5. Known(s, p, k + 1)
  BY <1>1 DEF Known
<1>6. OnPace(s, p, clock', l[1])
  <2>1. Rest(s)[s.source] = PathDelay(s) /\ l[1] = s.source
    BY DEF PathDelay, Onto, l
  <2> QED
    BY <1>1, <2>1 DEF OnPace
<1>7. FirstAt(s, packet_map, packet_queue, p, l)
  <2>1. ASSUME NEW x \in Packet, Known(s, x, k)
        PROVE  x.id # p.id
    BY <1>1, <2>1 DEF Known, Packet
  <2>2. ToSet(packet_map) \in SUBSET Events
    BY <1>1, Holds
  <2>3. \A e \in Events : e.packet \in Packet
    BY DEF Events
  <2>4. \A r \in Arriving(s, packet_map) : r.packet \in Packet /\ Known(s, r.packet, k)
    BY <1>2, <2>2, <2>3 DEF Calm, Paced, Arriving
  <2>5. \A r \in Leaving(s, packet_map) : r.packet \in Packet /\ Known(s, r.packet, k)
    BY <1>2, <2>2, <2>3 DEF Calm, Paced, Leaving
  <2>6. \A x \in ToSet(packet_queue[l]) : x \in Packet /\ Known(s, x, k)
    <3>1. packet_queue[l] \in Seq(Packet)
      BY <1>1
    <3>2. ToSet(packet_queue[l]) \in SUBSET Packet
      BY <3>1, Holds
    <3> QED
      BY <1>1, <1>2, <3>2 DEF Calm, Paced
  <2> QED
    BY <2>1, <2>4, <2>5, <2>6 DEF FirstAt
<1>8. ~Full(l) /\ Calm(s, packet_map', packet_queue', clock', k + 1)
  BY <1>1, <1>2, <1>4, <1>5, <1>6, <1>7, EnqueueCalm
<1>9. Chan'[c] = Append(Chan[c], k)
  <2>1. Becomes(c, Append(Chan[c], k))
    BY <1>1, <1>8
  <2> QED
    BY <1>3, <2>1 DEF Becomes, Chan
<1>10. Consecutive(Chan'[c], Len(received[c]), k + 1)
  <2> DEFINE q == Chan[c]
             lo == Len(received[c])
  <2>1. lo \in Nat /\ k \in Nat /\ Consecutive(q, lo, k) /\ Chan'[c] = Append(q, k)
    BY <1>1, <1>3, <1>9
  <2> HIDE DEF q, lo
  <2>2. Consecutive(Append(q, k), lo, k + 1)
    BY <2>1, MoreConsecutive
  <2> QED
    BY <2>1, <2>2 DEF lo
<1> QED
  BY <1>1, <1>3, <1>8, <1>10 DEF OnCourse, s, c

(* A timer that goes off keeps smooth flows on course.                     *)
LEMMA TimerSmooth ==
    ASSUME CbrInv, PathInv, SmoothInv, NEW g \in Flows, HandleTimer(g)
    PROVE  SmoothInv'
<1> DEFINE s == senders[g]
           k == sent_so_far[g]
           p == CbrPacket(s, k)
           l == Onto(s.source, s.destination)
           c == PairOfSender(s)
<1>1. /\ s \in Sender /\ k \in Nat /\ p \in Packet /\ OfSender(s, p)
      /\ l \in Links /\ Routed(l, p) /\ l \in Track(s)
      /\ senders' = senders /\ sent_so_far' = [sent_so_far EXCEPT ![g] = k + 1]
      /\ clock' \in Nat /\ clock <= clock'
      /\ packet_map # <<>> => clock' <= Head(packet_map).time
      /\ MapOK(packet_map, clock', pending_send) /\ QueuesRouted(packet_queue)
      /\ packet_map \in Seq(Events) /\ Sorted(packet_map)
      /\ packet_queue \in [Links -> Seq(Packet)]
      /\ Enqueue(clock', packet_map, l, p)
      /\ received' = received
      /\ Chan' = Chan \/ Becomes(c, Append(Chan[c], k))
  BY TimerPath
<1> HIDE DEF k, p, l
<1>2. InNetwork(packet_map', packet_queue') \subseteq InNetwork(packet_map, packet_queue) \cup {p}
  BY <1>1, EnqueueAdds
<1>3. \A x \in InNetwork(packet_map', packet_queue') : \E f \in Flows : OfSender(senders[f], x)
  BY <1>1, <1>2 DEF SmoothInv
<1>4. ASSUME NEW f \in Flows, Smooth(f), f # g
      PROVE  OnCourse(f)'
  <2>1. senders[f] \in Sender /\ sent_so_far[f] \in Nat
        /\ Calm(senders[f], packet_map, packet_queue, clock', sent_so_far[f])
    BY <1>1, <1>4, LaterFlow
  <2>2. l \notin Track(senders[f])
    BY <1>1, <1>4, FlowFacts
  <2>3. Calm(senders[f], packet_map', packet_queue', clock', sent_so_far[f])
    BY <1>1, <2>1, <2>2, EnqueueOther
  <2>4. Chan'[PairOfSender(senders[f])] = Chan[PairOfSender(senders[f])]
    <3>1. PairOfSender(senders[f]) # c /\ PairOfSender(senders[f]) \in Pairs
      <4>1. c = <<p.source, p.destination>>
        BY <1>1 DEF OfSender, PairOfSender
      <4> QED
        BY <1>1, <1>4, <4>1, OtherPair, FlowFacts
    <3> HIDE DEF c
    <3> QED
      BY <1>1, <3>1 DEF Becomes, Chan
  <2>5. sent_so_far'[f] = sent_so_far[f]
    BY <1>1, <1>4 DEF CbrInv
  <2> QED
    BY <1>1, <1>4, <2>3, <2>4, <2>5, StillOnCourse
<1> QED
  BY <1>1, <1>3, <1>4, TimerOwn, SmoothNext

(* The end of a transmission keeps smooth flows on course.                 *)
LEMMA SendDoneSmooth ==
    ASSUME CbrInv, PathInv, SmoothInv, NEW e, SendDone(e), senders' = senders,
           sent_so_far' = sent_so_far
    PROVE  SmoothInv'
<1> DEFINE busy == pending_send \ {e.link}
           tail == Tail(packet_map)
           q == packet_queue[e.link]
<1>1. /\ Process(e) /\ e.trans /\ SendIt(e.time, tail, e.link, q, busy)
      /\ received' = received /\ Chan' = Chan
  BY SendDonePath DEF SendDone, CbrInv
<1>2. /\ e \in Events /\ clock' = e.time /\ packet_map # <<>> /\ e = Head(packet_map)
      /\ packet_map \in Seq(Events) /\ MapOK(tail, e.time, busy)
  BY <1>1, ProcessPath DEF CbrInv
<1>3. packet_queue \in [Links -> Seq(Packet)] /\ QueuesRouted(packet_queue) /\ Sorted(packet_map)
  BY DEF CbrInv, IInv, QueuesOK, EventsOK, PathInv
<1>4. e.link \in Links /\ e.link \notin busy /\ q \in Seq(Packet) /\ e.time \in Nat
      /\ tail \in Seq(Events) /\ Sorted(tail)
  BY <1>2, <1>3 DEF Events, MapOK, EventsOK
<1>5. ToSet(packet_map) = ToSet(tail) \cup {e}
  BY <1>2, <1>3, EventTimes, TailHolds
<1>6. InNetwork(packet_map', packet_queue') \subseteq InNetwork(tail, packet_queue) \cup ToSet(q)
  <2> HIDE DEF tail, busy, q
  <2> QED
    BY <1>1, <1>3, <1>4, SendItAdds
<1>7. InNetwork(tail, packet_queue) \cup ToSet(q) \subseteq InNetwork(packet_map, packet_queue)
  <2> HIDE DEF tail
  <2> QED
    BY <1>4, <1>5 DEF InNetwork
<1>8. ASSUME NEW f \in Flows, Smooth(f)
      PROVE  OnCourse(f)'
  <2>1. /\ Steady(senders[f]) /\ sent_so_far[f] \in Nat
        /\ Alone(senders[f], tail, packet_queue)
        /\ Calm(senders[f], tail, packet_queue, e.time, sent_so_far[f])
    BY <1>1, <1>8, FirstFlow
  <2>2. Calm(senders[f], packet_map', packet_queue', e.time, sent_so_far[f])
    <3> HIDE DEF tail, busy
    <3> QED
      BY <1>1, <1>2, <1>3, <1>4, <2>1, NextCalm
  <2> QED
    BY <1>1, <1>2, <1>8, <2>2, StillOnCourse
<1> QED
  BY <1>6, <1>7, <1>8, SmoothNext DEF SmoothInv

(* A packet that is handed over was in its turn.                           *)
LEMMA ReceiveSmooth ==
    ASSUME CbrInv, PathInv, SmoothInv, NEW h \in Hosts, NEW e, HostReceive(h, e),
           senders' = senders, sent_so_far' = sent_so_far
    PROVE  /\ SmoothInv'
           /\ \E g \in Flows :
                 /\ \A c \in Hosts \X Hosts : c # PairOfSender(senders[g]) => received'[c] = received[c]
                 /\ Smooth(g) => clock' = Due(senders[g], Len(received[PairOfSender(senders[g])]))
                                            + PathDelay(senders[g])
<1> DEFINE p == e.packet
           c0 == <<p.source, p.destination>>
           tail == Tail(packet_map)
<1>1. /\ Process(e) /\ ~e.trans /\ e.link[2] = h
      /\ packet_map' = tail /\ packet_queue' = packet_queue /\ pending_send' = pending_send
      /\ received' = [received EXCEPT ![<<p.source, h>>] = Append(@, p)]
  BY DEF HostReceive, Arrives
<1>2. /\ e \in Events /\ Routed(e.link, p) /\ c0 \in Pairs /\ clock' = e.time
      /\ packet_map # <<>> /\ e = Head(packet_map) /\ packet_map \in Seq(Events)
  BY <1>1, ProcessPath DEF CbrInv
<1>3. h = p.destination
  <2>1. p.source \in Nodes /\ p.destination \in Nodes
    BY <1>2, PairOf
  <2>2. e.link[1] \in Nodes /\ e.link[1] # p.destination /\ h = NextHop[<<e.link[1], p.destination>>]
    BY <1>1, <1>2 DEF Routed, Onto, RouteFrom
  <2> QED
    BY <2>1, <2>2, RoutingAssumption
<1>4. /\ Chan[c0] \in Seq(Nat) /\ Chan[c0] # <<>> /\ Head(Chan[c0]) = p.id
      /\ Becomes(c0, Tail(Chan[c0]))
  BY <1>1, <1>3, ArrivalPath DEF CbrInv
<1>5. p \in InNetwork(packet_map, packet_queue)
      /\ InNetwork(packet_map', packet_queue') \subseteq InNetwork(packet_map, packet_queue)
  <2>1. Sorted(packet_map)
    BY DEF CbrInv, IInv, EventsOK
  <2>2. ToSet(packet_map) = ToSet(tail) \cup {e}
    BY <1>2, <2>1, EventTimes, TailHolds
  <2> QED
    BY <1>1, <2>2 DEF InNetwork
<1>6. PICK g \in Flows : OfSender(senders[g], p)
  BY <1>5 DEF SmoothInv
<1>7. /\ c0 = PairOfSender(senders[g]) /\ received \in [Hosts \X Hosts -> Seq(Packet)]
      /\ c0 \in Hosts \X Hosts /\ p \in Packet
  <2>1. p.source \in Hosts
    BY <1>2, PairOf
  <2> QED
    BY <1>2, <1>3, <1>6, <2>1 DEF OfSender, PairOfSender, PathInv, Events
<1> HIDE DEF p, c0, tail
<1>8. received' = [received EXCEPT ![c0] = Append(@, p)]
  BY <1>1, <1>3 DEF c0
<1>9. /\ Len(received[c0]) \in Nat /\ Len(received'[c0]) = Len(received[c0]) + 1
      /\ \A c \in Hosts \X Hosts : c # c0 => received'[c] = received[c]
  <2>1. received[c0] \in Seq(Packet) /\ received'[c0] = Append(received[c0], p)
    BY <1>7, <1>8
  <2> QED
    BY <1>7, <1>8, <2>1
<1>10. ASSUME NEW f \in Flows, Smooth(f)
       PROVE  Calm(senders[f], packet_map', packet_queue', clock', sent_so_far'[f])
  <2>1. Calm(senders[f], tail, packet_queue, e.time, sent_so_far[f])
    BY <1>1, <1>10, FirstFlow DEF tail
  <2> QED
    BY <1>1, <1>2, <2>1
<1>11. ASSUME NEW f \in Flows, Smooth(f), f # g
       PROVE  OnCourse(f)'
  <2>1. PairOfSender(senders[f]) # c0 /\ PairOfSender(senders[f]) \in Pairs
        /\ PairOfSender(senders[f]) \in Hosts \X Hosts
    BY <1>6, <1>11, OtherPair, FlowFacts DEF c0, PairOfSender, Sender
  <2> DEFINE c == PairOfSender(senders[f])
  <2> HIDE DEF c
  <2>2. Chan'[c] = Chan[c] /\ received'[c] = received[c]
    BY <1>4, <1>9, <2>1 DEF Becomes, Chan, c
  <2>3. Consecutive(Chan[c], Len(received[c]), sent_so_far[f])
    BY <1>11 DEF SmoothInv, OnCourse, c
  <2> QED
    BY <1>10, <1>11, <2>2, <2>3 DEF OnCourse, c
<1>12. ASSUME Smooth(g)
       PROVE  /\ OnCourse(g)'
              /\ clock' = Due(senders[g], Len(received[c0])) + PathDelay(senders[g])
  <2> DEFINE q == Chan[c0]
             lo == Len(received[c0])
             hi == sent_so_far[g]
  <2>1. lo \in Nat /\ hi \in Nat /\ Consecutive(q, lo, hi) /\ q # <<>> /\ Head(q) = p.id
    BY <1>4, <1>6, <1>7, <1>9, <1>12, FlowFacts DEF SmoothInv, OnCourse
  <2>2. Chan'[c0] = Tail(q) /\ sent_so_far'[g] = hi /\ Len(received'[c0]) = lo + 1
    BY <1>2, <1>4, <1>9 DEF Becomes, Chan, c0
  <2> HIDE DEF q, lo, hi
  <2>3. lo = p.id /\ Consecutive(Tail(q), lo + 1, hi)
    BY <2>1, MoreConsecutive
  <2>4. OnPace(senders[g], p, e.time, e.link[2]) /\ senders[g] \in Sender
    BY <1>1, <1>6, <1>12, FirstFlow DEF p
  <2>5. Rest(senders[g])[e.link[2]] = 0
    BY <1>1, <1>3, <1>6, <2>4, PaceTyped DEF OfSender
  <2>6. clock' = Due(senders[g], lo) + PathDelay(senders[g])
    <3>1. e.time \in Nat
      BY <1>2 DEF Events
    <3> QED
      BY <1>2, <2>3, <2>4, <2>5, <3>1 DEF OnPace
  <2>7. OnCourse(g)'
    BY <1>7, <1>10, <1>12, <2>2, <2>3 DEF OnCourse
  <2> QED
    BY <2>6, <2>7 DEF lo
<1>13. SmoothInv'
  <2>1. \A x \in InNetwork(packet_map', packet_queue') : \E f \in Flows : OfSender(senders[f], x)
    BY <1>5 DEF SmoothInv
  <2> QED
    BY <1>11, <1>12, <2>1, SmoothNext
<1> QED
  BY <1>7, <1>9, <1>12, <1>13

(* A packet that a node passes on keeps smooth flows on course.            *)
LEMMA OnwardSmooth ==
    ASSUME CbrInv, PathInv, SmoothInv, NEW e, Passes(e), Process(e), ~e.trans,
           NEW n \in Nodes, n = e.link[2], n # e.packet.destination,
           NEW x \in Packet, x.id = e.packet.id, x.length = e.packet.length,
           x.source = e.packet.source, x.destination = e.packet.destination,
           Enqueue(e.time, Tail(packet_map), Onto(n, e.packet.destination), x),
           senders' = senders, sent_so_far' = sent_so_far
    PROVE  SmoothInv'
<1> DEFINE p == e.packet
           d == p.destination
           c0 == <<p.source, d>>
           l == Onto(n, d)
           tail == Tail(packet_map)
<1>1. /\ e \in Events /\ clock' = e.time /\ Routed(e.link, p) /\ c0 \in Pairs
      /\ packet_map # <<>> /\ e = Head(packet_map) /\ packet_map \in Seq(Events)
      /\ MapOK(tail, e.time, pending_send)
  BY ProcessPath DEF CbrInv
<1>2. l \in Links /\ Routed(l, x) /\ l[1] = n
  <2>1. p.source \in Nodes /\ d \in Nodes
    BY <1>1, PairOf
  <2>2. e.link[1] \in Nodes /\ e.link[1] # d /\ n = NextHop[<<e.link[1], d>>]
        /\ e.link[1] \in RouteFrom(p.source, d)
    BY <1>1 DEF Routed, Onto, RouteFrom
  <2>3. n \in RouteFrom(p.source, d)
    BY <2>1, <2>2, RouteSteps DEF Onward
  <2>4. l \in Links /\ l = Onto(l[1], d) /\ l[1] = n
    BY <2>1, HopIsNode DEF Onto
  <2> QED
    BY <1>1, <2>3, <2>4 DEF Routed
<1>3. /\ packet_queue \in [Links -> Seq(Packet)] /\ QueuesRouted(packet_queue)
      /\ Sorted(packet_map) /\ e.time \in Nat /\ tail \in Seq(Events) /\ Sorted(tail)
  BY <1>1 DEF CbrInv, IInv, QueuesOK, EventsOK, PathInv, MapOK
<1>4. p \in InNetwork(packet_map, packet_queue)
      /\ InNetwork(tail, packet_queue) \subseteq InNetwork(packet_map, packet_queue)
  <2>1. ToSet(packet_map) = ToSet(tail) \cup {e}
    BY <1>1, <1>3, EventTimes, TailHolds
  <2> QED
    BY <2>1 DEF InNetwork
<1>5. PICK g \in Flows : OfSender(senders[g], p)
  BY <1>4 DEF SmoothInv
<1>6. OfSender(senders[g], x) /\ senders[g] \in Sender
  BY <1>5, FlowFacts DEF OfSender
<1>7. l \in Track(senders[g])
  BY <1>2, <1>6, OnTrack
<1>8. received' = received /\ (Chan' = Chan \/ (Full(l) /\ LosesOne(c0)))
  BY DEF Passes
<1> HIDE DEF p, c0, l, tail
<1>9. Enqueue(e.time, tail, l, x)
  BY DEF tail, l, d, p
<1>10. InNetwork(packet_map', packet_queue') \subseteq InNetwork(tail, packet_queue) \cup {x}
  BY <1>2, <1>3, <1>9, EnqueueAdds
<1>11. \A y \in InNetwork(packet_map', packet_queue') : \E f \in Flows : OfSender(senders[f], y)
  BY <1>4, <1>6, <1>10 DEF SmoothInv
<1>12. ASSUME NEW f \in Flows, Smooth(f), f # g
       PROVE  OnCourse(f)'
  <2>1. senders[f] \in Sender /\ sent_so_far[f] \in Nat
        /\ Calm(senders[f], tail, packet_queue, e.time, sent_so_far[f])
    BY <1>12, FirstFlow DEF tail
  <2>2. l \notin Track(senders[f])
    BY <1>7, <1>12, FlowFacts
  <2>3. Calm(senders[f], packet_map', packet_queue', e.time, sent_so_far[f])
    BY <1>1, <1>2, <1>3, <1>9, <2>1, <2>2, EnqueueOther
  <2>4. Chan'[PairOfSender(senders[f])] = Chan[PairOfSender(senders[f])]
    <3>1. PairOfSender(senders[f]) # c0 /\ PairOfSender(senders[f]) \in Pairs
      BY <1>5, <1>12, OtherPair, FlowFacts DEF c0
    <3> QED
      BY <1>8, <3>1 DEF LosesOne, Becomes, Chan
  <2> QED
    BY <1>1, <1>8, <1>12, <2>3, <2>4, StillOnCourse
<1>13. ASSUME Smooth(g)
       PROVE  OnCourse(g)'
  <2> DEFINE s == senders[g]
             sent == sent_so_far[g]
  <2>1. /\ Steady(s) /\ s \in Sender /\ sent \in Nat
        /\ Alone(s, tail, packet_queue) /\ Calm(s, tail, packet_queue, e.time, sent)
        /\ Known(s, p, sent) /\ OnPace(s, p, e.time, e.link[2])
        /\ \A k \in Track(s) : k[1] = e.link[2] => FirstAt(s, tail, packet_queue, p, k)
    BY <1>5, <1>13, FirstFlow DEF tail, p
  <2>2. Known(s, x, sent) /\ OnPace(s, x, e.time, l[1]) /\ FirstAt(s, tail, packet_queue, x, l)
    BY <1>2, <1>7, <2>1 DEF Known, OnPace, FirstAt, p
  <2> HIDE DEF s, sent
  <2>3. ~Full(l) /\ Calm(s, packet_map', packet_queue', e.time, sent)
    BY <1>1, <1>2, <1>3, <1>6, <1>9, <2>1, <2>2, EnqueueCalm DEF s
  <2>4. Chan' = Chan
    BY <1>8, <2>3
  <2> QED
    BY <1>1, <1>8, <1>13, <2>3, <2>4, StillOnCourse DEF s, sent
<1> QED
  BY <1>11, <1>12, <1>13, SmoothNext

(* FIFONode passes a packet on as it is, dtpRouter marks it.               *)
LEMMA RelaySmooth ==
    ASSUME CbrInv, PathInv, SmoothInv, NEW n \in Relays, NEW e, Relay(n, e),
           senders' = senders, sent_so_far' = sent_so_far
    PROVE  SmoothInv' /\ received' = received
<1> DEFINE d == e.packet.destination
<1>1. /\ Process(e) /\ ~e.trans /\ e.link[2] = n /\ n # d /\ n \in Nodes
      /\ Enqueue(e.time, Tail(packet_map), Onto(n, d), e.packet) /\ received' = received
  BY DEF Relay, Arrives, Nodes, Onto
<1>2. e.packet \in Packet
  <2>1. e \in Events
    BY <1>1, ProcessPath DEF CbrInv
  <2> QED
    BY <2>1 DEF Events
<1>3. Passes(e)
  BY RelayPath DEF CbrInv
<1> QED
  BY <1>1, <1>2, <1>3, OnwardSmooth

LEMMA RouteSmooth ==
    ASSUME CbrInv, PathInv, SmoothInv, NEW n \in Routers, NEW e, Route(n, e),
           senders' = senders, sent_so_far' = sent_so_far
    PROVE  SmoothInv' /\ received' = received
<1> DEFINE d == e.packet.destination
           x == Mark(Onto(n, d), e.packet)
<1>1. /\ Process(e) /\ ~e.trans /\ e.link[2] = n /\ n # d /\ n \in Nodes
      /\ Enqueue(e.time, Tail(packet_map), Onto(n, d), x) /\ received' = received
  BY DEF Route, Arrives, Nodes, Onto
<1>2. e.packet \in Packet /\ d \in Nodes
  <2>1. e \in Events /\ <<e.packet.source, d>> \in Pairs
    BY <1>1, ProcessPath DEF CbrInv
  <2> QED
    BY <2>1, PairOf DEF Events
<1>3. Onto(n, d) \in Links /\ Onto(n, d)[1] = n
  BY <1>1, <1>2, HopIsNode DEF Onto
<1>4. x \in Packet
  BY <1>2, <1>3, MarkOK DEF CbrInv, IInv
<1>5. /\ x.id = e.packet.id /\ x.length = e.packet.length
      /\ x.source = e.packet.source /\ x.destination = e.packet.destination
  BY <1>2 DEF Mark, Packet
<1>6. Passes(e)
  BY RoutePath DEF CbrInv
<1> HIDE DEF x
<1> QED
  BY <1>1, <1>4, <1>5, <1>6, OnwardSmooth

(* The flows end at hosts: no node in between is a packet's destination.   *)
LEMMA NoDiscard ==
    ASSUME CbrInv, PathInv, SmoothInv, NEW n \in Routers \cup Relays, NEW e
    PROVE  ~Discard(n, e)
<1> SUFFICES ASSUME Discard(n, e)
             PROVE  FALSE
  OBVIOUS
<1>1. Process(e) /\ e.packet.destination = n
  BY DEF Discard, Arrives
<1>2. packet_map \in Seq(Events) /\ packet_map # <<>> /\ e = Head(packet_map)
  BY <1>1, ProcessPath DEF CbrInv
<1>3. e \in ToSet(packet_map)
  BY <1>2, TailElements
<1>4. PICK g \in Flows : OfSender(senders[g], e.packet)
  BY <1>3 DEF SmoothInv, InNetwork
<1> QED
  BY <1>1, <1>4, FlowFacts, NodesAssumption DEF OfSender

-----------------------------------------------------------------------------
(* Smooth flows                                                            *)

\* A step hands a packet of flow f over only when it is due.
HandsOverDue(f) ==
    received'[PairOfSender(senders[f])] # received[PairOfSender(senders[f])] =>
        clock' = Due(senders[f], Len(received[PairOfSender(senders[f])]))
                    + PathDelay(senders[f])

(* At first nothing is under way, sent or received.                        *)
LEMMA SmoothInit == CbrInit /\ CbrInv /\ PathInv => SmoothInv
<1> SUFFICES ASSUME CbrInit, CbrInv, PathInv
             PROVE  SmoothInv
  OBVIOUS
<1>1. /\ packet_map = <<>> /\ packet_queue = [l \in Links |-> <<>>] /\ clock = 0
      /\ received = [c \in Hosts \X Hosts |-> <<>>]
      /\ sent_so_far = [f \in Flows |-> 0] /\ Init
  BY DEF CbrInit, Init
<1>2. \A T : ToSet(<<>>) = {}
  BY DEF ToSet
<1>3. InNetwork(packet_map, packet_queue) = {}
  BY <1>1, <1>2 DEF InNetwork
<1>4. ASSUME NEW f \in Flows
      PROVE  OnCourse(f)
  <2> DEFINE s == senders[f]
             c == PairOfSender(s)
  <2>1. Arriving(s, packet_map) = {} /\ Leaving(s, packet_map) = {}
    BY <1>1, <1>2 DEF Arriving, Leaving
  <2>2. \A l \in Track(s) : ToSet(packet_queue[l]) = {}
    BY <1>1, <1>2 DEF Track
  <2>3. \A l \in Links, k \in Nat : Single(packet_map, Same(s, l, k))
    BY <1>1 DEF Single
  <2>4. Calm(s, packet_map, packet_queue, clock, sent_so_far[f])
    BY <2>1, <2>2, <2>3 DEF Calm, Paced, Once
  <2>5. c \in Pairs /\ c \in Hosts \X Hosts
    BY FlowFacts DEF PairOfSender, Sender
  <2> HIDE DEF c
  <2>6. Chan[c] = <<>>
    BY <1>1, <2>5, InitPath DEF Path!CInit, Chan
  <2>7. received[c] = <<>> /\ sent_so_far[f] = 0
    BY <1>1, <2>5
  <2>8. Consecutive(<<>>, 0, 0)
    BY DEF Consecutive
  <2> QED
    BY <2>4, <2>6, <2>7, <2>8 DEF OnCourse, c
<1> QED
  BY <1>2, <1>3, <1>4 DEF SmoothInv

(* Every step keeps smooth flows on course, and hands over their packets   *)
(* when these are due.                                                     *)
LEMMA SmoothStep ==
    ASSUME CbrInv, PathInv, SmoothInv, [CbrNext]_cbrVars
    PROVE  SmoothInv' /\ \A f \in Flows : Smooth(f) => HandsOverDue(f)
<1>1. ASSUME received' = received
      PROVE  \A f \in Flows : HandsOverDue(f)
  BY <1>1 DEF HandsOverDue
<1>2. ASSUME NEW g \in Flows, HandleTimer(g)
      PROVE  SmoothInv' /\ received' = received
  BY <1>2, TimerSmooth, TimerPath
<1>3. ASSUME HandlePacket
      PROVE  SmoothInv' /\ \A f \in Flows : Smooth(f) => HandsOverDue(f)
  <2>1. ProcessPacket /\ senders' = senders /\ sent_so_far' = sent_so_far
    BY <1>3 DEF HandlePacket
  <2>2. ASSUME NEW e, SendDone(e)
        PROVE  SmoothInv' /\ received' = received
    BY <2>1, <2>2, SendDoneSmooth DEF SendDone
  <2>3. ASSUME NEW h \in Hosts, NEW e, HostReceive(h, e)
        PROVE  SmoothInv' /\ \A f \in Flows : Smooth(f) => HandsOverDue(f)
    <3>1. SmoothInv'
      BY <2>1, <2>3, ReceiveSmooth
    <3>2. PICK g \in Flows :
             /\ \A c \in Hosts \X Hosts : c # PairOfSender(senders[g]) => received'[c] = received[c]
             /\ Smooth(g) => clock' = Due(senders[g], Len(received[PairOfSender(senders[g])]))
                                         + PathDelay(senders[g])
      BY <2>1, <2>3, ReceiveSmooth
    <3>3. ASSUME NEW f \in Flows, Smooth(f)
          PROVE  HandsOverDue(f)
      <4>1. CASE f = g
        BY <3>2, <3>3, <4>1 DEF HandsOverDue
      <4>2. CASE f # g
        <5>1. PairOfSender(senders[f]) # PairOfSender(senders[g])
          BY <4>2, FlowFacts DEF PairOfSender
        <5>2. PairOfSender(senders[f]) \in Hosts \X Hosts
          BY FlowFacts DEF PairOfSender, Sender
        <5> QED
          BY <3>2, <5>1, <5>2 DEF HandsOverDue
      <4> QED
        BY <4>1, <4>2
    <3> QED
      BY <3>1, <3>3
  <2>4. ASSUME NEW n \in Relays, NEW e, Relay(n, e)
        PROVE  SmoothInv' /\ received' = received
    BY <2>1, <2>4, RelaySmooth
  <2>5. ASSUME NEW n \in Routers, NEW e, Route(n, e)
        PROVE  SmoothInv' /\ received' = received
    BY <2>1, <2>5, RouteSmooth
  <2> QED
    BY <1>1, <2>1, <2>2, <2>3, <2>4, <2>5, NoDiscard DEF ProcessPacket
<1>4. CASE UNCHANGED cbrVars
  <2>1. /\ clock' = clock /\ packet_map' = packet_map /\ packet_queue' = packet_queue
        /\ received' = received /\ senders' = senders /\ sent_so_far' = sent_so_far
    BY <1>4 DEF cbrVars, vars
  <2>2. \A c : Flight(c)' = Flight(c)
    BY <2>1, UnderWayIs DEF Flight
  <2>3. Chan' = Chan
    BY <2>2, UnderWayIs
  <2>4. \A f \in Flows : Smooth(f) => OnCourse(f)'
    BY <2>1, <2>3 DEF SmoothInv, OnCourse
  <2>5. SmoothInv'
    BY <2>1, <2>4, SmoothNext DEF SmoothInv
  <2> QED
    BY <1>1, <2>1, <2>5
<1> QED
  BY <1>1, <1>2, <1>3, <1>4 DEF CbrNext

(* CbrSender and CbrReceiver over FIFONode, dtpRouter and PacketScheduler, *)
(* in every network and every configuration: a flow that has its route for *)
(* itself, room at every node and no more than the rate of each link loses *)
(* no packet and gets each one the delays of its links after it was due.   *)
THEOREM FlowsWithoutJitter == CbrSpec => NoJitter
<1>1. CbrInit => CbrInv /\ PathInv /\ SmoothInv
  BY CbrInitOK, InitPath, SmoothInit DEF CbrInit
<1>2. CbrInv /\ PathInv /\ SmoothInv /\ [CbrNext]_cbrVars =>
         CbrInv' /\ PathInv' /\ SmoothInv'
  BY CbrNextOK, NextPath, SmoothStep DEF CbrInv
<1>3. CbrInv /\ PathInv /\ SmoothInv /\ [CbrNext]_cbrVars =>
         [\A f \in Flows : Smooth(f) =>
            LET pair == <<senders[f].source, senders[f].destination>>
            IN  received'[pair] # received[pair] =>
                    clock' = Due(senders[f], Len(received[pair])) + PathDelay(senders[f])]_cbrVars
  BY SmoothStep DEF HandsOverDue, PairOfSender
<1> QED
  BY <1>1, <1>2, <1>3, PTL DEF CbrSpec, NoJitter
=============================================================================
