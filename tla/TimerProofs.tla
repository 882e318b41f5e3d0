------------------------------ MODULE TimerProofs ------------------------------
(***************************************************************************)
(* Proofs about the retransmission timers of DtpHost: whatever flows and   *)
(* garbage there are, a kept packet and its timer are only separated by a  *)
(* FIN_ACK; with one flow they never are, and without an early timer no    *)
(* timer is cancelled that is not pending.                                 *)
(***************************************************************************)
EXTENDS DtpHostProofs

-----------------------------------------------------------------------------
(* Timers                                                                  *)

(* set_retransmission_cookie leaves every number timed that was, and times *)
(* the new ones.                                                           *)
LEMMA ArmTimes ==
    ASSUME TimersOK, NEW h \in Hosts, NEW ids, Arm(h, ids)
    PROVE  \A g \in Hosts : \A id :
              /\ Timed(g, id) => Timed(g, id)'
              /\ g = h /\ id \in ids => Timed(g, id)'
<1>1. /\ armed'[h] = armed[h] \cup ids
      /\ \A g \in Hosts \ {h} : armed'[g] = armed[g]
      /\ leaked'[h] = leaked[h] (+) SetToBag(armed[h] \cap ids)
      /\ \A g \in Hosts \ {h} : leaked'[g] = leaked[g]
  BY DEF Arm, TimersOK
<1>2. DOMAIN leaked[h] \subseteq DOMAIN leaked'[h]
  BY <1>1 DEF (+), BagToSet
<1>3. \A g \in Hosts : armed[g] \subseteq armed'[g] /\ DOMAIN leaked[g] \subseteq DOMAIN leaked'[g]
  BY <1>1, <1>2
<1> QED
  BY <1>1, <1>3 DEF Timed, BagIn, BagToSet

(* A number that is not deleted keeps its timer.                           *)
LEMMA CancelTimes ==
    ASSUME NEW gone, Cancel(gone)
    PROVE  \A g \in Hosts : \A id : id \notin gone[g] /\ Timed(g, id) => Timed(g, id)'
BY DEF Cancel, Timed

(* Removing one element of a bag leaves the others.                        *)
LEMMA OthersStay ==
    ASSUME NEW B, NEW id, NEW x \in DOMAIN B, x # id
    PROVE  x \in DOMAIN BagRemove(B, id)
BY DEF BagRemove

\* Every copy after the step is timed, or was kept before and its timer stays.
Covered ==
    \A h \in Hosts : \A p \in re_packet_map'[h] :
        p.kind \in {"DATA", "ACK"} =>
            \/ Timed(h, p.id)'
            \/ p \in re_packet_map[h] /\ (Timed(h, p.id) => Timed(h, p.id)')

LEMMA CoveredKeeps == Covered => KeepsTimed
BY DEF Covered, KeepsTimed

\* The step leaves the copies and the timers alone.
LEMMA IdleCovered ==
    ASSUME UNCHANGED <<re_packet_map, timers>>
    PROVE  Covered
BY DEF Covered, timers, Timed

\* The step keeps more packets at h and arms timers for their numbers.
LEMMA ArmCovered ==
    ASSUME TimersOK, NEW h \in Hosts, NEW ids, Arm(h, ids),
           \A g \in Hosts : \A p \in re_packet_map'[g] :
              p \in re_packet_map[g] \/ (g = h /\ p.id \in ids) \/ p.kind \notin {"DATA", "ACK"}
    PROVE  Covered
<1>1. \A g \in Hosts : \A id : /\ Timed(g, id) => Timed(g, id)'
                               /\ g = h /\ id \in ids => Timed(g, id)'
  BY ArmTimes, Zenon
<1> QED
  BY <1>1 DEF Covered

LEMMA SendKeptCovered ==
    ASSUME TimersOK, MapsOK, NEW h \in Hosts, NEW m, NEW p, SendKept(m, h, p)
    PROVE  Covered
<1>1. Arm(h, {p.id}) /\ re_packet_map' = [re_packet_map EXCEPT ![h] = Insert(@, p)]
  BY DEF SendKept
<1>2. \A g \in Hosts : \A q \in re_packet_map'[g] :
        q \in re_packet_map[g] \/ (g = h /\ q.id \in {p.id})
  BY <1>1 DEF Insert, MapsOK
<1> QED
  BY <1>1, <1>2, ArmCovered

(* A deleted number loses copy and timer together.                         *)
LEMMA ForgetCovered ==
    ASSUME NEW gone, Forget(gone)
    PROVE  Covered
<1>1. \A g \in Hosts : \A id : id \notin gone[g] /\ Timed(g, id) => Timed(g, id)'
  BY CancelTimes DEF Forget
<1>2. \A g \in Hosts : \A p \in re_packet_map'[g] : p \in re_packet_map[g] /\ p.id \notin gone[g]
  BY DEF Forget, Erase
<1> QED
  BY <1>1, <1>2 DEF Covered

-----------------------------------------------------------------------------
(* Steps                                                                   *)

LEMMA StartFlowCovered ==
    ASSUME TypeOK, NEW f \in Flows, StartFlow(f)
    PROVE  Covered
<1>1. f.source \in Hosts
  BY FlowsAssumption
<1>2. PICK p : SendKept(net, f.source, p)
  BY DEF StartFlow
<1> QED
  BY <1>1, <1>2, SendKeptCovered DEF TypeOK

LEMMA NormalTimerCovered ==
    ASSUME TypeOK, NEW h \in Hosts, NormalTimer(h)
    PROVE  Covered
<1>1. CASE SendSyn(h)
  <2>1. PICK p : SendKept(net, h, p)
    BY <1>1 DEF SendSyn
  <2> QED
    BY <2>1, SendKeptCovered DEF TypeOK
<1>2. CASE SendBurst(h)
  <2>1. PICK ps, ids : /\ ids = {p.id : p \in ps} /\ Arm(h, ids)
                       /\ re_packet_map' = [re_packet_map EXCEPT ![h] = InsertAll(@, ps)]
    BY <1>2 DEF SendBurst
  <2>2. \A g \in Hosts : \A p \in re_packet_map'[g] :
          p \in re_packet_map[g] \/ (g = h /\ p.id \in ids)
    BY <2>1 DEF InsertAll, TypeOK, MapsOK
  <2> QED
    BY <2>1, <2>2, ArmCovered DEF TypeOK
<1>3. CASE SendNothing(h) \/ SendUninitialised(h)
  BY <1>3, IdleCovered DEF SendNothing, SendUninitialised
<1>4. CASE SendFin(h)
  <2>1. PICK p : SendKept(net, h, p)
    BY <1>4 DEF SendFin
  <2> QED
    BY <2>1, SendKeptCovered DEF TypeOK
<1> QED
  BY <1>1, <1>2, <1>3, <1>4 DEF NormalTimer

LEMMA AbortCovered ==
    ASSUME NEW why, Abort(why)
    PROVE  Covered
BY IdleCovered DEF Abort

(* A timer that fires is set again, unless there is nothing left to send.  *)
LEMMA RetransmissionCovered ==
    ASSUME TypeOK, NEW h \in Hosts, NEW id, NEW owned, RetransmissionTimer(h, id, owned)
    PROVE  Covered
<1>0. re_packet_map' = re_packet_map /\ TimersOK
  BY DEF RetransmissionTimer, TypeOK
<1>1. SUFFICES ASSUME NEW g \in Hosts, NEW p \in re_packet_map[g], Timed(g, p.id)
               PROVE  Timed(g, p.id)'
  BY <1>0 DEF Covered
<1>2. CASE Resend(h, id, owned)
  <2>1. CASE owned
    BY <1>1, <1>2, <2>1 DEF Resend, timers, Timed
  <2>2. CASE ~owned
    <3>1. /\ armed' = [armed EXCEPT ![h] = @ \cup {id}]
          /\ leaked' = [leaked EXCEPT ![h] =
                          IF id \in armed[h] THEN @ ELSE BagRemove(@, id)]
      BY <1>2, <2>2 DEF Resend
    <3>2. armed[g] \subseteq armed'[g] /\ (g = h => id \in armed'[g])
      BY <1>0, <3>1 DEF TimersOK
    <3>3. /\ g # h => leaked'[g] = leaked[g]
          /\ leaked'[h] = leaked[h] \/ leaked'[h] = BagRemove(leaked[h], id)
      BY <1>0, <3>1 DEF TimersOK
    <3>4. p.id # id /\ p.id \in DOMAIN leaked[h] => p.id \in DOMAIN leaked'[h]
      BY <3>3, OthersStay
    <3> QED
      BY <1>1, <3>2, <3>3, <3>4 DEF Timed, BagIn, BagToSet
  <2> QED
    BY <2>1, <2>2
<1>3. CASE TimerFinds(h, id, owned)
  <2>1. g = h => p.id # id
    BY <1>3 DEF TimerFinds, Keys
  <2>2. CASE owned
    <3>1. armed' = [armed EXCEPT ![h] = @ \ {id}] /\ leaked' = leaked
      BY <1>3, <2>2 DEF TimerFinds
    <3> QED
      BY <1>0, <1>1, <2>1, <3>1 DEF TimersOK, Timed
  <2>3. CASE ~owned
    <3>1. leaked' = [leaked EXCEPT ![h] = BagRemove(@, id)] /\ armed' = armed
      BY <1>3, <2>3 DEF TimerFinds
    <3>2. leaked'[h] = BagRemove(leaked[h], id) /\ (g # h => leaked'[g] = leaked[g])
      BY <1>0, <3>1 DEF TimersOK
    <3>3. g = h /\ p.id \in DOMAIN leaked[h] => p.id \in DOMAIN leaked'[h]
      BY <2>1, <3>2, OthersStay
    <3> QED
      BY <1>1, <3>1, <3>2, <3>3 DEF Timed, BagIn, BagToSet
  <2> QED
    BY <2>2, <2>3
<1> QED
  BY <1>2, <1>3 DEF RetransmissionTimer

(* The branches of receive that delete copies and timers by the same       *)
(* numbers, arm timers, or do neither.                                     *)
LEMMA ReceiveCovered ==
    ASSUME TypeOK, NEW a \in Hosts, NEW b \in Hosts, NEW p,
           \/ ReceiveSyn(a, b, p) \/ ReceiveSynAck(a, b, p) \/ ReceiveInOrder(a, b, p)
           \/ ReceiveAhead(a, b, p) \/ ReceiveRepeated(a, b, p) \/ ReceiveAck(a, b, p)
           \/ ReceiveOther(a, b, p) \/ ReceiveDies(a, b, p) \/ ReceiveInOrderDies(a, b, p)
    PROVE  Covered
<1>1. CASE ReceiveSyn(a, b, p) \/ ReceiveAhead(a, b, p) \/ ReceiveOther(a, b, p)
  BY <1>1, IdleCovered DEF ReceiveSyn, ReceiveAhead, ReceiveOther
<1>2. CASE ReceiveSynAck(a, b, p) \/ ReceiveRepeated(a, b, p) \/ ReceiveAck(a, b, p)
  BY <1>2, ForgetCovered DEF ReceiveSynAck, ReceiveRepeated, ReceiveAck
<1>3. CASE ReceiveInOrder(a, b, p)
  <2>1. PICK q : SendKept(Consumed(a, b), b, q)
    BY <1>3 DEF ReceiveInOrder
  <2> QED
    BY <2>1, SendKeptCovered DEF TypeOK
<1>4. CASE ReceiveDies(a, b, p) \/ ReceiveInOrderDies(a, b, p)
  BY <1>4, AbortCovered DEF ReceiveDies, ReceiveInOrderDies
<1> QED
  BY <1>1, <1>2, <1>3, <1>4

(* FIN deletes the copy at the other end but not its timer.                *)
LEMMA ReceiveFinCovered ==
    ASSUME TypeOK, NEW a \in Hosts, NEW b \in Hosts, NEW p, ReceiveFin(a, b, p)
    PROVE  Covered
<1>1. PICK kept, answer :
        /\ kept = [re_packet_map EXCEPT ![destination[b]] = Erase(@, {p.id})]
        /\ answer.kind = "FIN_ACK" /\ Arm(b, {answer.id})
        /\ re_packet_map' = [kept EXCEPT ![b] = Insert(@, answer)]
  BY DEF ReceiveFin, Pkt
<1>2. /\ \A g \in Hosts : kept[g] \subseteq re_packet_map[g]
      /\ \A g \in Hosts : re_packet_map'[g] \subseteq kept[g] \cup {answer}
  BY <1>1 DEF Erase, Insert, TypeOK, MapsOK
<1>3. \A g \in Hosts : \A q \in re_packet_map'[g] :
        q \in re_packet_map[g] \/ q.kind \notin {"DATA", "ACK"}
  BY <1>1, <1>2
<1> QED
  BY <1>1, <1>3, ArmCovered DEF TypeOK

(* FIN_ACK cancels the timer of its number at the receiver, where the copy *)
(* stays, and at the other end, where it is deleted.                       *)
LEMMA ReceiveFinAckKeeps ==
    ASSUME TypeOK, NEW a \in Hosts, NEW b \in Hosts, NEW p, ReceiveFinAck(a, b, p),
           net[<<a, b>>] # <<>>, NEW w, p = Marked(Head(net[<<a, b>>]), w)
    PROVE  KeepsTimed
<1> DEFINE peer == destination[b]
           ids == IF p.id \in Keys(re_packet_map[peer]) THEN {p.id} ELSE {}
           gone == AtBoth(b, {p.id}, peer, ids)
<1>1. /\ ids \subseteq {p.id} /\ Cancel(gone)
      /\ re_packet_map' = [re_packet_map EXCEPT ![peer] = Erase(@, {p.id})]
      /\ net' = Consumed(a, b) /\ p.kind = "FIN_ACK"
  BY DEF ReceiveFinAck
<1> HIDE DEF ids
<1>2. \A g \in Hosts : \A id : id \notin gone[g] /\ Timed(g, id) => Timed(g, id)'
  BY <1>1, CancelTimes
<1>3. \A g \in Hosts : \A q \in re_packet_map'[g] :
        q \in re_packet_map[g] /\ (g = peer => q.id # p.id)
  BY <1>1 DEF Erase, TypeOK, MapsOK
<1>4. \A g \in Hosts : g \notin {b, peer} => gone[g] = {}
  BY <1>1 DEF AtBoth
<1>5. \A g \in Hosts : gone[g] \subseteq {p.id}
  BY <1>1 DEF AtBoth
<1>6. FinAckArrives(b, p.id)
  <2>1. Head(net[<<a, b>>]).kind = "FIN_ACK" /\ Head(net[<<a, b>>]).id = p.id
    <3>1. net[<<a, b>>] \in Seq(Packet)
      BY DEF TypeOK, NetOK
    <3>2. Head(net[<<a, b>>]) \in Packet
      BY <3>1
    <3> QED
      BY <1>1, <3>2 DEF Marked, Packet
  <2>2. net'[<<a, b>>] = Tail(net[<<a, b>>])
    BY <1>1 DEF Consumed, TypeOK, NetOK
  <2> QED
    BY <2>1, <2>2 DEF FinAckArrives
<1>7. \A g \in Hosts : \A q \in re_packet_map'[g] :
        q.id \in gone[g] => FinAckArrives(g, q.id)
  BY <1>3, <1>4, <1>5, <1>6
<1> QED
  BY <1>2, <1>3, <1>7 DEF KeepsTimed

LEMMA DeliveryKeeps ==
    ASSUME TypeOK, NEW a \in Hosts, NEW b \in Hosts, Delivery(a, b)
    PROVE  KeepsTimed
<1>1. PICK w \in Windows : LET p == Marked(Head(net[<<a, b>>]), w)
        IN \/ ReceiveSyn(a, b, p) \/ ReceiveSynAck(a, b, p) \/ ReceiveInOrder(a, b, p)
           \/ ReceiveAhead(a, b, p) \/ ReceiveRepeated(a, b, p) \/ ReceiveAck(a, b, p)
           \/ ReceiveFin(a, b, p) \/ ReceiveFinAck(a, b, p) \/ ReceiveOther(a, b, p)
           \/ ReceiveDies(a, b, p) \/ ReceiveInOrderDies(a, b, p)
  BY DEF Delivery, Receive
<1>2. PICK p : p = Marked(Head(net[<<a, b>>]), w)
  OBVIOUS
<1>3. net[<<a, b>>] # <<>>
  BY DEF Delivery
<1>4. CASE ReceiveFinAck(a, b, p)
  BY <1>2, <1>3, <1>4, ReceiveFinAckKeeps
<1>5. CASE ReceiveFin(a, b, p)
  BY <1>5, ReceiveFinCovered, CoveredKeeps
<1>6. CASE ~ReceiveFin(a, b, p) /\ ~ReceiveFinAck(a, b, p)
  BY <1>1, <1>2, <1>6, ReceiveCovered, CoveredKeeps
<1> QED
  BY <1>4, <1>5, <1>6

LEMMA StepKeeps ==
    ASSUME TypeOK, Next
    PROVE  KeepsTimed
<1>1. ASSUME NEW f \in Flows, StartFlow(f) PROVE KeepsTimed
  BY <1>1, StartFlowCovered, CoveredKeeps
<1>2. ASSUME NEW h \in Hosts, NormalTimer(h) \/ NormalTimerDies(h) PROVE KeepsTimed
  BY <1>2, NormalTimerCovered, AbortCovered, CoveredKeeps DEF NormalTimerDies
<1>3. ASSUME NEW h \in Hosts, TimerStep(h) \/ LeakedTimerStep(h) PROVE KeepsTimed
  BY <1>3, RetransmissionCovered, CoveredKeeps DEF TimerStep, LeakedTimerStep
<1>4. ASSUME NEW a \in Hosts, NEW b \in Hosts, Delivery(a, b) \/ Lose(a, b) PROVE KeepsTimed
  BY <1>4, DeliveryKeeps, IdleCovered, CoveredKeeps DEF Lose
<1> QED
  BY <1>1, <1>2, <1>3, <1>4 DEF Next

-----------------------------------------------------------------------------
(* Theorems                                                                *)

(* Whatever flows overlap and whatever uninitialised packets hold, only    *)
(* the FIN_ACK branch of receive separates a kept packet from its timer.   *)
THEOREM CopiesAlwaysTimed == Spec => CopiesStayTimed
<1>1. TypeOK /\ [Next]_vars => [KeepsTimed]_vars
  BY StepKeeps
<1> QED
  BY <1>1, TypeCorrect, PTL DEF Spec, CopiesStayTimed

(* With one flow the number of a FIN_ACK is beyond those of the file.      *)
LEMMA NoFinAckForFile ==
    ASSUME NEW f, Flows = {f}, TypeOK, FlowHolds(f),
           NEW h \in Hosts, NEW p \in re_packet_map[h], p.kind \in {"DATA", "ACK"}
    PROVE  ~FinAckArrives(h, p.id)
<1>1. PICK s, d, n : s = f.source /\ d = f.destination /\ n = f.packets
  OBVIOUS
<1>2. OneFlow(f, s, d, n) /\ FlowInv(f, s, d, n)
  BY <1>1 DEF OneFlow, FlowHolds
<1>3. Now(f, s, d, n)
  BY <1>2 DEF FlowInv, NotStarted, Now
<1>4. SUFFICES ASSUME NEW g \in Hosts, NEW q, net[<<g, h>>] # <<>>,
                      q = Head(net[<<g, h>>]), q.kind = "FIN_ACK", q.id = p.id
               PROVE  FALSE
  BY DEF FinAckArrives
<1>5. q \in RangeOf(net[<<g, h>>])
  <2>1. net[<<g, h>>] \in Seq(Packet)
    BY DEF TypeOK, NetOK
  <2> QED
    BY <1>4, <2>1 DEF RangeOf
<1>6. (g = s /\ h = d) \/ (g = d /\ h = s)
  BY <1>3, <1>4, UsedChannel DEF Now, Running
<1>7. h = s /\ q.id > n + 2
  BY <1>3, <1>4, <1>5, <1>6 DEF Now, Running, Path, Forth, Back, Data, Ack
<1>8. p.id \in 1 .. n
  BY <1>3, <1>7 DEF Now, Running, Kept, KeptAtSource, Data
<1> QED
  BY <1>3, <1>4, <1>7, <1>8, NowFacts

(* With one flow every kept DATA or ACK packet has a pending timer.        *)
THEOREM OneFlowStaysTimed ==
    ASSUME NEW CONSTANT f, Flows = {f}
    PROVE  Spec => []KeptIsTimed
<1>1. Init => KeptIsTimed
  BY DEF Init, KeptIsTimed
<1>2. TypeOK /\ FlowHolds(f) /\ KeptIsTimed /\ [Next]_vars => KeptIsTimed'
  <2> SUFFICES ASSUME TypeOK, FlowHolds(f), KeptIsTimed, [Next]_vars
               PROVE  KeptIsTimed'
    OBVIOUS
  <2>1. CASE UNCHANGED vars
    BY <2>1 DEF vars, timers, KeptIsTimed, Timed
  <2>2. CASE Next
    <3>1. KeepsTimed
      BY <2>2, StepKeeps
    <3>2. \A h \in Hosts : \A p \in re_packet_map[h] :
            p.kind \in {"DATA", "ACK"} => Timed(h, p.id) /\ ~FinAckArrives(h, p.id)
      BY NoFinAckForFile DEF KeptIsTimed
    <3> QED
      BY <3>1, <3>2 DEF KeepsTimed, KeptIsTimed
  <2> QED
    BY <2>1, <2>2
<1> QED
  BY <1>1, <1>2, FlowAlways, PTL DEF Spec

-----------------------------------------------------------------------------
(* Cancelled timers                                                        *)
(*                                                                         *)
(* Without an early timer every packet is under way at most once, so that  *)
(* the last ACK is received once, FIN is sent once, and the timer that the *)
(* destination leaves at the source when it deletes the copy of FIN is the *)
(* only one that can be spent.                                             *)

LastAck(n, p) == p.kind = "ACK" /\ p.id = n + 1
AtMostOnce(n, q) == \A i, j \in DOMAIN q : LastAck(n, q[i]) /\ LastAck(n, q[j]) => i = j

\* The packets that are, or may come, on the way from a to b.
Way(a, b) == RangeOf(net[<<a, b>>]) \cup re_packet_map[a]

\* Only the timer of FIN is pending without a copy, or spent.
FinTimer(s, n, h) == IF h = s THEN {n + 2} ELSE {}
TimersMeant(s, n) ==
    \A h \in Hosts : /\ armed[h] \subseteq Keys(re_packet_map[h]) \cup FinTimer(s, n, h)
                     /\ stale[h] \subseteq FinTimer(s, n, h)

Numbers(s, d, n) ==
    /\ \A p \in Way(s, d) : p.kind = "FIN" => p.id = n + 2
    /\ \A p \in Way(d, s) : /\ p.kind = "FIN_ACK" => p.id = n + 3
                            /\ p.kind = "ACK" /\ p.last => p.id = n + 1

OneFin(s, d, n) ==
    /\ sent_so_far[s] <= n + 1
    /\ sent_so_far[s] = n + 1 => Whole(d, n)
    /\ s \in normal /\ state[s] = "FIN" => sent_so_far[s] <= n

\* The last ACK is under way at most once, and not any more when FIN is.
OneLastAck(s, d, n) ==
    /\ AtMostOnce(n, net[<<d, s>>])
    /\ (\E p \in Way(d, s) : LastAck(n, p)) => sent_so_far[s] <= n /\ state[s] # "FIN"

Orderly(s, d, n) ==
    TimersMeant(s, n) /\ Numbers(s, d, n) /\ OneFin(s, d, n) /\ OneLastAck(s, d, n)

OrderlyInv(f) ==
    early = 0 => aborted # "cancel_timer" /\ Orderly(f.source, f.destination, f.packets)

(* Keys of maps that grow.                                                 *)
LEMMA KeysGrow ==
    ASSUME NEW map
    PROVE  /\ \A p : Keys(Insert(map, p)) = Keys(map) \cup {p.id}
           /\ \A p : \A q \in Insert(map, p) : q \in map \/ q = p
           /\ \A ps : /\ Keys(map) \subseteq Keys(InsertAll(map, ps))
                      /\ Keys(ps) \subseteq Keys(InsertAll(map, ps))
                      /\ InsertAll(map, ps) \subseteq map \cup ps
BY DEF Keys, Insert, InsertAll

LEMMA ArmMeant ==
    ASSUME TimersOK, NEW s, NEW n, TimersMeant(s, n), NEW h \in Hosts, NEW ids, Arm(h, ids),
           ids \subseteq Keys(re_packet_map'[h]),
           \A g \in Hosts :
              Keys(re_packet_map[g]) \subseteq Keys(re_packet_map'[g]) \cup FinTimer(s, n, g)
    PROVE  TimersMeant(s, n)'
<1>1. /\ armed'[h] = armed[h] \cup ids /\ stale'[h] = stale[h] \ ids
      /\ \A g \in Hosts \ {h} : armed'[g] = armed[g] /\ stale'[g] = stale[g]
  BY DEF Arm, TimersOK
<1>2. ASSUME NEW g \in Hosts
      PROVE  /\ armed'[g] \subseteq Keys(re_packet_map'[g]) \cup FinTimer(s, n, g)
             /\ stale'[g] \subseteq FinTimer(s, n, g)
  BY <1>1, <1>2 DEF TimersMeant
<1> QED
  BY <1>2 DEF TimersMeant, FinTimer, Keys

LEMMA SendKeptMeant ==
    ASSUME TimersOK, MapsOK, NEW s, NEW n, TimersMeant(s, n),
           NEW h \in Hosts, NEW m, NEW p, SendKept(m, h, p)
    PROVE  TimersMeant(s, n)'
<1>1. /\ Arm(h, {p.id}) /\ re_packet_map'[h] = Insert(re_packet_map[h], p)
      /\ \A g \in Hosts \ {h} : re_packet_map'[g] = re_packet_map[g]
  BY DEF SendKept, MapsOK
<1>2. Keys(re_packet_map'[h]) = Keys(re_packet_map[h]) \cup {p.id}
  BY <1>1, KeysGrow
<1>3. \A g \in Hosts : Keys(re_packet_map[g]) \subseteq Keys(re_packet_map'[g])
  BY <1>1, <1>2
<1> QED
  BY <1>1, <1>2, <1>3, ArmMeant

LEMMA CancelMeant ==
    ASSUME TimersOK, NEW s, NEW n, TimersMeant(s, n), NEW gone, Cancel(gone),
           \A h \in Hosts : Keys(re_packet_map[h]) \ gone[h] \subseteq Keys(re_packet_map'[h])
    PROVE  TimersMeant(s, n)'
<1>1. stale' = stale /\ \A h \in Hosts : armed'[h] = armed[h] \ gone[h]
  BY DEF Cancel
<1>2. ASSUME NEW h \in Hosts
      PROVE  /\ armed'[h] \subseteq Keys(re_packet_map'[h]) \cup FinTimer(s, n, h)
             /\ stale'[h] \subseteq FinTimer(s, n, h)
  BY <1>1, <1>2 DEF TimersMeant
<1> QED
  BY <1>2 DEF TimersMeant, FinTimer, Keys

LEMMA ForgetMeant ==
    ASSUME TimersOK, NEW s, NEW n, TimersMeant(s, n), NEW gone, Forget(gone)
    PROVE  TimersMeant(s, n)'
<1>1. \A h \in Hosts : Keys(re_packet_map[h]) \ gone[h] \subseteq Keys(re_packet_map'[h])
  BY DEF Forget, Erase, Keys
<1> QED
  BY <1>1, CancelMeant DEF Forget

LEMMA IdleMeant ==
    ASSUME NEW s, NEW n, TimersMeant(s, n), UNCHANGED <<re_packet_map, armed, stale>>
    PROVE  TimersMeant(s, n)'
BY DEF TimersMeant, FinTimer, Keys

(* A timer without a copy, which spends its entry, is the one of FIN.      *)
LEMMA RetransmissionMeant ==
    ASSUME TypeOK, NEW s, NEW n, TimersMeant(s, n), NEW h \in Hosts, NEW id, NEW owned,
           RetransmissionTimer(h, id, owned)
    PROVE  TimersMeant(s, n)'
<1>0. re_packet_map' = re_packet_map /\ TimersOK
  BY DEF RetransmissionTimer, TypeOK
<1>1. CASE Resend(h, id, owned)
  <2>1. CASE owned
    BY <1>0, <1>1, <2>1, IdleMeant DEF Resend, timers
  <2>2. CASE ~owned
    <3>1. /\ id \in Keys(re_packet_map[h])
          /\ armed' = [armed EXCEPT ![h] = @ \cup {id}]
          /\ stale' = [stale EXCEPT ![h] = @ \ {id}]
      BY <1>1, <2>2 DEF Resend, Keys
    <3>2. /\ armed'[h] = armed[h] \cup {id} /\ stale'[h] = stale[h] \ {id}
          /\ \A g \in Hosts \ {h} : armed'[g] = armed[g] /\ stale'[g] = stale[g]
      BY <1>0, <3>1 DEF TimersOK
    <3>3. ASSUME NEW g \in Hosts
          PROVE  /\ armed'[g] \subseteq Keys(re_packet_map[g]) \cup FinTimer(s, n, g)
                 /\ stale'[g] \subseteq FinTimer(s, n, g)
      BY <3>1, <3>2, <3>3 DEF TimersMeant
    <3> QED
      BY <1>0, <3>3 DEF TimersMeant, FinTimer, Keys
  <2> QED
    BY <2>1, <2>2
<1>2. CASE TimerFinds(h, id, owned)
  <2>1. id \notin Keys(re_packet_map[h])
    BY <1>2 DEF TimerFinds
  <2>2. CASE owned
    <3>1. /\ id \in armed[h] /\ armed' = [armed EXCEPT ![h] = @ \ {id}]
          /\ stale' = [stale EXCEPT ![h] = @ \cup {id}]
      BY <1>2, <2>2 DEF TimerFinds, RetransmissionTimer
    <3>2. /\ armed'[h] = armed[h] \ {id} /\ stale'[h] = stale[h] \cup {id}
          /\ \A g \in Hosts \ {h} : armed'[g] = armed[g] /\ stale'[g] = stale[g]
      BY <1>0, <3>1 DEF TimersOK
    <3>3. id \in FinTimer(s, n, h)
      BY <2>1, <3>1 DEF TimersMeant
    <3>4. ASSUME NEW g \in Hosts
          PROVE  /\ armed'[g] \subseteq Keys(re_packet_map[g]) \cup FinTimer(s, n, g)
                 /\ stale'[g] \subseteq FinTimer(s, n, g)
      BY <3>2, <3>3, <3>4 DEF TimersMeant
    <3> QED
      BY <1>0, <3>4 DEF TimersMeant, FinTimer, Keys
  <2>3. CASE ~owned
    BY <1>0, <1>2, <2>3, IdleMeant DEF TimerFinds
  <2> QED
    BY <2>2, <2>3
<1> QED
  BY <1>1, <1>2 DEF RetransmissionTimer

(* Taking the first packet of a channel, and adding one.                   *)
LEMMA OnceTail ==
    ASSUME NEW S, NEW q \in Seq(S), q # <<>>, NEW n, AtMostOnce(n, q)
    PROVE  /\ AtMostOnce(n, Tail(q))
           /\ LastAck(n, Head(q)) => \A e \in RangeOf(Tail(q)) : ~LastAck(n, e)
<1>1. /\ Len(q) \in Nat \ {0} /\ DOMAIN q = 1 .. Len(q) /\ Head(q) = q[1]
      /\ DOMAIN Tail(q) = 1 .. Len(q) - 1
      /\ \A i \in 1 .. Len(q) - 1 : Tail(q)[i] = q[i + 1]
  OBVIOUS
<1>2. \A i \in 1 .. Len(q) - 1 : i + 1 \in 1 .. Len(q) /\ 1 # i + 1 /\ 1 \in 1 .. Len(q)
  BY <1>1
<1>3. AtMostOnce(n, Tail(q))
  <2> SUFFICES ASSUME NEW i \in 1 .. Len(q) - 1, NEW j \in 1 .. Len(q) - 1,
                      LastAck(n, q[i + 1]), LastAck(n, q[j + 1])
               PROVE  i = j
    BY <1>1 DEF AtMostOnce
  <2>1. i + 1 = j + 1
    BY <1>1, <1>2 DEF AtMostOnce
  <2> QED
    BY <1>1, <2>1
<1>4. ASSUME LastAck(n, Head(q)), NEW e \in RangeOf(Tail(q)), LastAck(n, e) PROVE FALSE
  <2>1. PICK i \in 1 .. Len(q) - 1 : e = q[i + 1]
    BY <1>1, <1>4 DEF RangeOf
  <2> QED
    BY <1>1, <1>2, <1>4, <2>1 DEF AtMostOnce
<1> QED
  BY <1>3, <1>4

LEMMA OnceAppend ==
    ASSUME NEW S, NEW q \in Seq(S), NEW e \in S, NEW n, AtMostOnce(n, q),
           LastAck(n, e) => \A x \in RangeOf(q) : ~LastAck(n, x)
    PROVE  AtMostOnce(n, Append(q, e))
<1> DEFINE r == Append(q, e)
<1>1. /\ Len(q) \in Nat /\ DOMAIN q = 1 .. Len(q) /\ DOMAIN r = 1 .. Len(q) + 1
      /\ r[Len(q) + 1] = e /\ \A i \in 1 .. Len(q) : r[i] = q[i] /\ q[i] \in RangeOf(q)
  BY DEF RangeOf
<1> HIDE DEF r
<1>2. \A i \in 1 .. Len(q) + 1 : i \in 1 .. Len(q) \/ i = Len(q) + 1
  BY <1>1
<1> QED
  BY <1>1, <1>2 DEF AtMostOnce, r

(* Sending a packet adds it to one channel of its sender.                  *)
LEMMA SentElsewhere ==
    ASSUME NEW m \in [Hosts \X Hosts -> Seq(Packet)], NEW h, NEW p,
           NEW a \in Hosts, NEW b \in Hosts, a # h
    PROVE  \A q \in RangeOf(Sent(m, h, p)[<<a, b>>]) : q \in RangeOf(m[<<a, b>>])
<1>1. <<a, b>> \in DOMAIN m /\ <<a, b>> # <<h, p.destination>>
  OBVIOUS
<1> QED
  BY <1>1 DEF Sent

LEMMA SentWays ==
    ASSUME NEW m \in [Hosts \X Hosts -> Seq(Packet)], NEW h, NEW p \in Packet,
           NEW a \in Hosts, NEW b \in Hosts
    PROVE  \A q \in RangeOf(Sent(m, h, p)[<<a, b>>]) : q \in RangeOf(m[<<a, b>>]) \/ q = p
<1>1. <<a, b>> \in DOMAIN m /\ m[<<a, b>>] \in Seq(Packet)
  OBVIOUS
<1>2. CASE <<a, b>> = <<h, p.destination>>
  <2>1. Sent(m, h, p)[<<a, b>>] = Append(m[<<a, b>>], p)
    BY <1>1, <1>2 DEF Sent
  <2>2. RangeOf(Append(m[<<a, b>>], p)) = RangeOf(m[<<a, b>>]) \cup {p}
    BY <1>1, AppendShape
  <2> QED
    BY <2>1, <2>2
<1>3. CASE <<a, b>> # <<h, p.destination>>
  <2>1. Sent(m, h, p)[<<a, b>>] = m[<<a, b>>]
    BY <1>1, <1>3 DEF Sent
  <2> QED
    BY <2>1
<1> QED
  BY <1>2, <1>3

LEMMA SentOnce ==
    ASSUME NEW m \in [Hosts \X Hosts -> Seq(Packet)], NEW h, NEW p \in Packet,
           NEW a \in Hosts, NEW b \in Hosts, NEW n, AtMostOnce(n, m[<<a, b>>]),
           a = h /\ LastAck(n, p) => \A x \in RangeOf(m[<<a, b>>]) : ~LastAck(n, x)
    PROVE  AtMostOnce(n, Sent(m, h, p)[<<a, b>>])
<1>1. <<a, b>> \in DOMAIN m /\ m[<<a, b>>] \in Seq(Packet)
  OBVIOUS
<1>2. CASE <<a, b>> = <<h, p.destination>>
  <2>1. Sent(m, h, p)[<<a, b>>] = Append(m[<<a, b>>], p)
    BY <1>1, <1>2 DEF Sent
  <2>2. LastAck(n, p) => \A x \in RangeOf(m[<<a, b>>]) : ~LastAck(n, x)
    BY <1>2
  <2>3. AtMostOnce(n, Append(m[<<a, b>>], p))
    BY <1>1, <2>2, OnceAppend
  <2> QED
    BY <2>1, <2>3
<1>3. CASE <<a, b>> # <<h, p.destination>>
  <2>1. Sent(m, h, p)[<<a, b>>] = m[<<a, b>>]
    BY <1>1, <1>3 DEF Sent
  <2> QED
    BY <2>1
<1> QED
  BY <1>2, <1>3

(* A step that neither sends an ACK or FIN nor wakes the source up in FIN. *)
LEMMA CalmStep ==
    ASSUME NEW s, NEW d, NEW n, Orderly(s, d, n), TimersMeant(s, n)', OneFin(s, d, n)',
           AtMostOnce(n, net'[<<d, s>>]),
           state'[s] = "FIN" => state[s] = "FIN",
           sent_so_far'[s] <= n \/ sent_so_far'[s] = sent_so_far[s],
           \A p \in Way(s, d)' : p \in Way(s, d) \/ (p.kind = "FIN" => p.id = n + 2),
           \A p \in Way(d, s)' :
              \/ p \in Way(d, s)
              \/ p.kind # "ACK" /\ (p.kind = "FIN_ACK" => p.id = n + 3)
    PROVE  Orderly(s, d, n)'
<1>1. Numbers(s, d, n) /\ OneLastAck(s, d, n)
  BY DEF Orderly
<1>2. Numbers(s, d, n)'
  <2>1. \A p \in Way(s, d)' : p.kind = "FIN" => p.id = n + 2
    BY <1>1 DEF Numbers
  <2>2. \A p \in Way(d, s)' : /\ p.kind = "FIN_ACK" => p.id = n + 3
                              /\ p.kind = "ACK" /\ p.last => p.id = n + 1
    BY <1>1 DEF Numbers
  <2> QED
    BY <2>1, <2>2 DEF Numbers
<1>3. OneLastAck(s, d, n)'
  <2>1. (\E p \in Way(d, s)' : LastAck(n, p)) => \E p \in Way(d, s) : LastAck(n, p)
    BY DEF LastAck
  <2> QED
    BY <1>1, <2>1 DEF OneLastAck, LastAck, AtMostOnce
<1> QED
  BY <1>2, <1>3 DEF Orderly

\* A step that leaves the counters and, unless it goes on sending, the state
\* of the source alone.
CalmSource(s, d) ==
    /\ sent_so_far'[s] = sent_so_far[s] /\ packet_expected'[d] = packet_expected[d]
    /\ state'[s] = "FIN" => state[s] = "FIN" /\ (s \in normal' => s \in normal)

LEMMA CalmFin ==
    ASSUME NEW s, NEW d, NEW n, OneFin(s, d, n), CalmSource(s, d)
    PROVE  /\ OneFin(s, d, n)'
           /\ state'[s] = "FIN" => state[s] = "FIN"
           /\ sent_so_far'[s] <= n \/ sent_so_far'[s] = sent_so_far[s]
BY DEF OneFin, CalmSource, Whole

LEMMA FlowNet ==
    ASSUME NEW f, NEW s, NEW d, NEW n, Now(f, s, d, n)
    PROVE  /\ net \in [Hosts \X Hosts -> Seq(Packet)] /\ OnlyPath(net, s, d)
           /\ TimersOK /\ MapsOK /\ OneFlow(f, s, d, n)
BY DEF Now, TypeOK, NetOK, Running, Path

(* What is left when the first packet of a channel is taken out.           *)
LEMMA TakenOut ==
    ASSUME NEW f, NEW s, NEW d, NEW n, Now(f, s, d, n), Orderly(s, d, n),
           NEW a \in Hosts, NEW b \in Hosts, net[<<a, b>>] # <<>>
    PROVE  /\ Consumed(a, b) \in [Hosts \X Hosts -> Seq(Packet)]
           /\ RangeOf(Consumed(a, b)[<<s, d>>]) \subseteq RangeOf(net[<<s, d>>])
           /\ RangeOf(Consumed(a, b)[<<d, s>>]) \subseteq RangeOf(net[<<d, s>>])
           /\ Head(net[<<a, b>>]) \in RangeOf(net[<<a, b>>])
           /\ Head(net[<<a, b>>]) \in Packet
           /\ AtMostOnce(n, Consumed(a, b)[<<d, s>>])
           /\ a = d /\ LastAck(n, Head(net[<<a, b>>])) =>
                 \A e \in RangeOf(Consumed(a, b)[<<d, s>>]) : ~LastAck(n, e)
<1>1. (a = s /\ b = d) \/ (a = d /\ b = s)
  BY UsedChannel
<1>2. /\ net \in [Hosts \X Hosts -> Seq(Packet)] /\ OnlyPath(net, s, d) /\ OneFlow(f, s, d, n)
      /\ a \in {s, d} /\ b \in {s, d} /\ <<s, d>> # <<d, s>>
  BY <1>1, FlowNet, NowFacts
<1>3. /\ OnlyPath(Consumed(a, b), s, d)
      /\ RangeOf(Consumed(a, b)[<<s, d>>]) \subseteq RangeOf(net[<<s, d>>])
      /\ RangeOf(Consumed(a, b)[<<d, s>>]) \subseteq RangeOf(net[<<d, s>>])
      /\ Head(net[<<a, b>>]) \in RangeOf(net[<<a, b>>])
  BY <1>2, PathConsumed
<1>4. Consumed(a, b) \in [Hosts \X Hosts -> Seq(Packet)] /\ Head(net[<<a, b>>]) \in Packet
  BY <1>2, <1>3 DEF OnlyPath
<1>5. AtMostOnce(n, net[<<d, s>>])
  BY DEF Orderly, OneLastAck
<1>6. CASE a = s
  <2>1. Consumed(a, b)[<<d, s>>] = net[<<d, s>>]
    BY <1>1, <1>2, <1>6 DEF Consumed
  <2>2. a # d
    BY <1>6, NowFacts
  <2> QED
    BY <1>3, <1>4, <1>5, <2>1, <2>2
<1>7. CASE a = d
  <2>1. PICK q \in Seq(Packet) : q = net[<<d, s>>] /\ q # <<>>
    BY <1>1, <1>2, <1>7
  <2>2. Consumed(a, b)[<<d, s>>] = Tail(q) /\ Head(net[<<a, b>>]) = Head(q)
    BY <1>1, <1>2, <1>7, <2>1 DEF Consumed
  <2>3. /\ AtMostOnce(n, Tail(q))
        /\ LastAck(n, Head(q)) => \A e \in RangeOf(Tail(q)) : ~LastAck(n, e)
    BY <1>5, <2>1, OnceTail
  <2> QED
    BY <1>3, <1>4, <2>2, <2>3
<1> QED
  BY <1>1, <1>6, <1>7

(* What a packet that arrives may be.                                      *)
LEMMA ArrivedMeans ==
    ASSUME NEW f, NEW s, NEW d, NEW n, Now(f, s, d, n), Orderly(s, d, n),
           NEW a \in Hosts, NEW b \in Hosts, NEW p, Arrives(a, b, p)
    PROVE  /\ a = s => (p.kind = "FIN" => p.id = n + 2)
           /\ a = d => (p.kind = "FIN_ACK" => p.id = n + 3)
           /\ a = d => (p.kind = "ACK" /\ p.last => LastAck(n, p))
           /\ a = d => (LastAck(n, p) => sent_so_far[s] <= n)
<1>1. PICK h, w : w \in Windows /\ h = Head(net[<<a, b>>]) /\ p = Marked(h, w)
  BY DEF Arrives
<1>2. net[<<a, b>>] # <<>>
  BY DEF Arrives
<1>3. (a = s /\ b = d) \/ (a = d /\ b = s)
  BY <1>2, UsedChannel
<1>4. h \in RangeOf(net[<<a, b>>]) /\ h \in Packet
  BY <1>1, <1>2, TakenOut
<1>5. p.kind = h.kind /\ p.id = h.id /\ p.last = h.last
  BY <1>1, <1>4 DEF Marked, Packet
<1>6. Numbers(s, d, n) /\ OneLastAck(s, d, n) /\ s # d
  BY NowFacts DEF Orderly
<1>7. a = s => (h.kind = "FIN" => h.id = n + 2)
  BY <1>3, <1>4, <1>6 DEF Numbers, Way
<1>8. a = d => /\ h.kind = "FIN_ACK" => h.id = n + 3
               /\ h.kind = "ACK" /\ h.last => h.id = n + 1
               /\ LastAck(n, h) => sent_so_far[s] <= n
  BY <1>3, <1>4, <1>6 DEF Numbers, OneLastAck, Way
<1> QED
  BY <1>5, <1>7, <1>8 DEF LastAck

(* Behind the last ACK there is no other one.                              *)
LEMMA LastAckAlone ==
    ASSUME NEW f, NEW s, NEW d, NEW n, Now(f, s, d, n), Orderly(s, d, n),
           NEW b \in Hosts, NEW p, Arrives(d, b, p), LastAck(n, p)
    PROVE  \A e \in RangeOf(Consumed(d, b)[<<d, s>>]) : ~LastAck(n, e)
<1>1. PICK h, w : w \in Windows /\ h = Head(net[<<d, b>>]) /\ p = Marked(h, w)
  BY DEF Arrives
<1>2. d \in Hosts
  BY NowFacts
<1>3. /\ h \in Packet
      /\ LastAck(n, h) => \A e \in RangeOf(Consumed(d, b)[<<d, s>>]) : ~LastAck(n, e)
  BY <1>1, <1>2, TakenOut DEF Arrives
<1>4. p.kind = h.kind /\ p.id = h.id
  BY <1>1, <1>3 DEF Marked, Packet
<1> QED
  BY <1>3, <1>4 DEF LastAck

-----------------------------------------------------------------------------
(* Steps in order                                                          *)

LEMMA RetransmissionOrderly ==
    ASSUME TypeOK, NEW s \in Hosts, NEW d \in Hosts, NEW n, Orderly(s, d, n),
           NEW h \in Hosts, NEW id, NEW owned, RetransmissionTimer(h, id, owned),
           early \in Nat, early' = 0
    PROVE  early = 0 /\ aborted' = aborted /\ Orderly(s, d, n)'
<1>1. /\ UNCHANGED <<sent_so_far, packet_expected, state, normal, re_packet_map, aborted>>
      /\ net \in [Hosts \X Hosts -> Seq(Packet)]
  BY DEF RetransmissionTimer, progress, TypeOK, NetOK
<1>2. TimersMeant(s, n)'
  BY RetransmissionMeant DEF Orderly
<1>3. OneFin(s, d, n) /\ CalmSource(s, d)
  BY <1>1 DEF Orderly, CalmSource
<1>4. CASE Resend(h, id, owned)
  <2>1. PICK p \in re_packet_map[h] :
          net' = Sent(net, h, p) /\ early' = IF Stalled THEN early ELSE early + 1
    BY <1>4 DEF Resend
  <2>2. early = 0 /\ Stalled
    BY <2>1
  <2>3. p \in Packet
    BY DEF TypeOK, MapsOK
  <2>4. \A a, b \in Hosts : \A q \in RangeOf(net'[<<a, b>>]) :
          q \in RangeOf(net[<<a, b>>]) \/ (a = h /\ q = p)
    <3> SUFFICES ASSUME NEW a \in Hosts, NEW b \in Hosts
                 PROVE  \A q \in RangeOf(Sent(net, h, p)[<<a, b>>]) :
                           q \in RangeOf(net[<<a, b>>]) \/ (a = h /\ q = p)
      BY <2>1
    <3>1. CASE a = h
      <4>1. \A q \in RangeOf(Sent(net, h, p)[<<a, b>>]) :
               q \in RangeOf(net[<<a, b>>]) \/ q = p
        BY <1>1, <2>3, SentWays
      <4> QED
        BY <3>1, <4>1
    <3>2. CASE a # h
      <4>1. \A q \in RangeOf(Sent(net, h, p)[<<a, b>>]) : q \in RangeOf(net[<<a, b>>])
        BY <1>1, <3>2, SentElsewhere
      <4> QED
        BY <4>1
    <3> QED
      BY <3>1, <3>2
  <2>5. \A a, b \in Hosts : Way(a, b)' \subseteq Way(a, b)
    BY <1>1, <2>4 DEF Way
  <2>6. AtMostOnce(n, net'[<<d, s>>])
    <3>1. net[<<d, s>>] = <<>> /\ <<>> \in Seq(Packet)
      BY <1>1, <2>2 DEF Stalled
    <3>2. AtMostOnce(n, <<>>) /\ RangeOf(<<>>) = {}
      BY DEF AtMostOnce, RangeOf
    <3>3. AtMostOnce(n, Sent(net, h, p)[<<d, s>>])
      BY <1>1, <2>3, <3>1, <3>2, SentOnce
    <3> QED
      BY <2>1, <3>3
  <2> QED
    BY <1>1, <1>2, <1>3, <2>2, <2>5, <2>6, CalmFin, CalmStep
<1>5. CASE TimerFinds(h, id, owned)
  <2>1. net' = net /\ early' = early
    BY <1>5 DEF TimerFinds
  <2>2. \A a, b \in Hosts : Way(a, b)' = Way(a, b)
    BY <1>1, <2>1 DEF Way
  <2>3. AtMostOnce(n, net'[<<d, s>>])
    BY <2>1 DEF Orderly, OneLastAck
  <2> QED
    BY <1>1, <1>2, <1>3, <2>1, <2>2, <2>3, CalmFin, CalmStep
<1> QED
  BY <1>4, <1>5 DEF RetransmissionTimer

(* A step that takes the first packet out, deletes copies or none, and     *)
(* leaves the source in peace.                                             *)
LEMMA TakeOrderly ==
    ASSUME NEW f, NEW s, NEW d, NEW n, Now(f, s, d, n), Orderly(s, d, n),
           NEW a \in Hosts, NEW b \in Hosts, net[<<a, b>>] # <<>>,
           net' = Consumed(a, b), CalmSource(s, d), TimersMeant(s, n)',
           \A h \in Hosts : re_packet_map'[h] \subseteq re_packet_map[h]
    PROVE  Orderly(s, d, n)'
<1>1. /\ RangeOf(net'[<<s, d>>]) \subseteq RangeOf(net[<<s, d>>])
      /\ RangeOf(net'[<<d, s>>]) \subseteq RangeOf(net[<<d, s>>])
      /\ AtMostOnce(n, net'[<<d, s>>])
  BY TakenOut
<1>2. Way(s, d)' \subseteq Way(s, d) /\ Way(d, s)' \subseteq Way(d, s)
  BY <1>1, NowFacts DEF Way
<1>3. OneFin(s, d, n)
  BY DEF Orderly
<1> QED
  BY <1>1, <1>2, <1>3, CalmFin, CalmStep

LEMMA LoseOrderly ==
    ASSUME NEW f, NEW s, NEW d, NEW n, Now(f, s, d, n), Orderly(s, d, n),
           NEW a \in Hosts, NEW b \in Hosts, Lose(a, b)
    PROVE  aborted' = aborted /\ Orderly(s, d, n)'
<1>1. /\ net[<<a, b>>] # <<>> /\ net' = Consumed(a, b)
      /\ UNCHANGED <<state, sent_so_far, packet_expected, normal, re_packet_map, armed, stale,
                     aborted>>
  BY DEF Lose, progress, timers
<1>2. TimersMeant(s, n)' /\ CalmSource(s, d)
  BY <1>1, IdleMeant DEF Orderly, CalmSource
<1> QED
  BY <1>1, <1>2, TakeOrderly

(* No answer deletes the timer of FIN, so nothing spent is cancelled.      *)
LEMMA NoneSpentCancelled ==
    ASSUME NEW s, NEW d, NEW n, Orderly(s, d, n), NEW gone,
           \A h \in Hosts : n + 2 \notin gone[h]
    PROVE  ~CancelDies(gone)
BY DEF Orderly, TimersMeant, FinTimer, CancelDies

LEMMA NoCancelDies ==
    ASSUME NEW f, NEW s, NEW d, NEW n, Now(f, s, d, n), Orderly(s, d, n),
           NEW a \in Hosts, NEW b \in Hosts, NEW p, Arrives(a, b, p)
    PROVE  ~ReceiveDies(a, b, p)
<1>1. /\ \/ a = s /\ b = d /\ Forth(f, s, d, n, p)
         \/ a = d /\ b = s /\ Back(d, n, p)
      /\ p \in Packet
      /\ a = d /\ p.kind = "FIN_ACK" => p.id = n + 3
  <2>1. /\ \/ a = s /\ b = d /\ Forth(f, s, d, n, p)
           \/ a = d /\ b = s /\ Back(d, n, p)
        /\ p \in Packet
    BY Arrival, Zenon
  <2>2. a = d => (p.kind = "FIN_ACK" => p.id = n + 3)
    BY ArrivedMeans
  <2> QED
    BY <2>1, <2>2
<1>2. n \in Nat \ {0} /\ packet_expected[d] \in Nat /\ packet_expected[d] <= n + 1
  BY NowFacts DEF Now, Running, Counters
<1>3. \A h, g, ids, jds : n + 2 \notin ids /\ n + 2 \notin jds =>
        \A x \in Hosts : n + 2 \notin AtBoth(h, ids, g, jds)[x] /\ n + 2 \notin At(h, ids)[x]
  BY DEF AtBoth, At
<1>4. ASSUME p.kind = "SYN_ACK" PROVE ~CancelDies(AtBoth(b, {p.id}, destination[b], {p.id}))
  <2>1. n + 2 # p.id
    BY <1>1, <1>2, <1>4 DEF Forth, Data, Back, Ack
  <2>2. n + 2 \notin {p.id}
    BY <2>1
  <2> QED
    BY <1>3, <2>2, NoneSpentCancelled
<1>5. ASSUME p.kind = "DATA" PROVE ~CancelDies(At(destination[b], {p.id}))
  <2>1. n + 2 # p.id
    BY <1>1, <1>2, <1>5 DEF Forth, Data, Back, Ack
  <2>2. n + 2 \notin {p.id}
    BY <2>1
  <2> QED
    BY <1>3, <2>2, NoneSpentCancelled
<1>6. ASSUME p.kind = "ACK"
      PROVE  ~CancelDies(AtBoth(b, AckedIds(b, p.id), destination[b], {p.id}))
  <2>1. p.id \in Nat /\ p.id <= n + 1 /\ b = s
    BY <1>1, <1>2, <1>6 DEF Forth, Data, Back, Ack
  <2>2. lastest_ack_rec[s] \in Int
    BY NowFacts DEF FieldsOK
  <2>3. n + 2 \notin {p.id} /\ n + 2 \notin AckedIds(b, p.id)
    BY <1>2, <2>1, <2>2 DEF AckedIds
  <2> QED
    BY <1>3, <2>3, NoneSpentCancelled
<1>7. ASSUME p.kind = "FIN_ACK", NEW held
      PROVE  ~CancelDies(AtBoth(b, {p.id}, destination[b], IF held THEN {p.id} ELSE {}))
  <2>1. n + 2 # p.id
    BY <1>1, <1>2, <1>7 DEF Forth, Data
  <2>2. n + 2 \notin {p.id} /\ n + 2 \notin (IF held THEN {p.id} ELSE {})
    BY <2>1
  <2> QED
    BY <1>3, <2>2, NoneSpentCancelled
<1> QED
  BY <1>4, <1>5, <1>6, <1>7 DEF ReceiveDies

(* The branches of receive that send nothing and do not go on to FIN.      *)
LEMMA QuietReceiveOrderly ==
    ASSUME NEW f, NEW s, NEW d, NEW n, Now(f, s, d, n), Orderly(s, d, n),
           NEW a \in Hosts, NEW b \in Hosts, NEW p, Arrives(a, b, p),
           ReceiveSyn(a, b, p) \/ ReceiveSynAck(a, b, p) \/ ReceiveAhead(a, b, p)
             \/ ReceiveRepeated(a, b, p) \/ ReceiveFinAck(a, b, p)
    PROVE  aborted' = aborted /\ Orderly(s, d, n)'
<1>0. /\ \/ a = s /\ b = d /\ Forth(f, s, d, n, p)
         \/ a = d /\ b = s /\ Back(d, n, p)
      /\ s # d /\ net[<<a, b>>] # <<>> /\ normal = {}
      /\ TimersOK /\ MapsOK /\ state \in [Hosts -> States] /\ s \in Hosts /\ destination[s] = d
  <2>1. \/ a = s /\ b = d /\ Forth(f, s, d, n, p)
        \/ a = d /\ b = s /\ Back(d, n, p)
    BY Arrival, Zenon
  <2> QED
    BY <2>1, NowFacts, FlowNet DEF Arrives, FieldsOK
<1>00. TimersMeant(s, n)
  BY DEF Orderly
<1>1. ASSUME NEW gone, Forget(gone)
      PROVE  TimersMeant(s, n)' /\ \A h \in Hosts : re_packet_map'[h] \subseteq re_packet_map[h]
  <2>1. \A h \in Hosts : re_packet_map'[h] \subseteq re_packet_map[h]
    BY <1>1 DEF Forget, Erase
  <2> QED
    BY <1>0, <1>00, <1>1, <2>1, ForgetMeant
<1>2. CASE ReceiveSyn(a, b, p)
  <2>1. b = d
    BY <1>0, <1>2 DEF ReceiveSyn, Back, Ack
  <2>2. /\ net' = Consumed(a, b) /\ normal' = {d}
        /\ UNCHANGED <<state, sent_so_far, packet_expected, re_packet_map, armed, stale, aborted>>
    BY <1>2, <2>1 DEF ReceiveSyn, SetNormalCookie, progress, timers
  <2>3. TimersMeant(s, n)'
    BY <1>00, <2>2, IdleMeant
  <2> QED
    BY <1>0, <2>2, <2>3, TakeOrderly DEF CalmSource
<1>3. CASE ReceiveSynAck(a, b, p)
  <2>1. b = s
    BY <1>0, <1>3 DEF ReceiveSynAck, Forth, Data
  <2>2. /\ Forget(AtBoth(s, {p.id}, d, {p.id})) /\ net' = Consumed(a, b)
        /\ state' = [state EXCEPT ![s] = "sending", ![d] = "sending"]
        /\ UNCHANGED <<sent_so_far, packet_expected, aborted>>
    BY <1>0, <1>3, <2>1 DEF ReceiveSynAck, progress
  <2>3. state'[s] = "sending"
    BY <1>0, <2>2
  <2> QED
    BY <1>0, <1>1, <2>2, <2>3, TakeOrderly DEF CalmSource
<1>4. CASE ReceiveAhead(a, b, p)
  <2>1. b = d
    BY <1>0, <1>4 DEF ReceiveAhead, Back, Ack
  <2>2. /\ net' = Consumed(a, b) /\ state' = [state EXCEPT ![d] = "sending_ack_listening"]
        /\ UNCHANGED <<sent_so_far, packet_expected, normal, re_packet_map, armed, stale,
                       aborted>>
    BY <1>4, <2>1 DEF ReceiveAhead, progress, timers
  <2>3. state'[s] = state[s]
    BY <1>0, <2>2
  <2>4. TimersMeant(s, n)'
    BY <1>00, <2>2, IdleMeant
  <2> QED
    BY <1>0, <2>2, <2>3, <2>4, TakeOrderly DEF CalmSource
<1>5. CASE ReceiveRepeated(a, b, p)
  <2>1. b = d
    BY <1>0, <1>5 DEF ReceiveRepeated, Back, Ack
  <2>2. /\ net' = Consumed(a, b) /\ state' = [state EXCEPT ![d] = "sending_ack_listening"]
        /\ Forget(At(destination[d], {p.id}))
        /\ UNCHANGED <<sent_so_far, packet_expected, normal, aborted>>
    BY <1>5, <2>1 DEF ReceiveRepeated, progress
  <2>3. state'[s] = state[s]
    BY <1>0, <2>2
  <2> QED
    BY <1>0, <1>1, <2>2, <2>3, TakeOrderly DEF CalmSource
<1>6. CASE ReceiveFinAck(a, b, p)
  <2>1. b = s
    BY <1>0, <1>6 DEF ReceiveFinAck, Forth, Data
  <2> DEFINE held == p.id \in Keys(re_packet_map[d])
             gone == AtBoth(s, {p.id}, d, IF held THEN {p.id} ELSE {})
  <2>2. /\ Cancel(gone)
        /\ re_packet_map' = [re_packet_map EXCEPT ![d] = Erase(@, {p.id})]
        /\ net' = Consumed(a, b)
        /\ UNCHANGED <<state, sent_so_far, packet_expected, normal, aborted>>
    BY <1>0, <1>6, <2>1 DEF ReceiveFinAck, progress
  <2>3. \A h \in Hosts : /\ re_packet_map'[h] \subseteq re_packet_map[h]
                         /\ Keys(re_packet_map[h]) \ gone[h] \subseteq Keys(re_packet_map'[h])
    <3>0. d \in Hosts /\ d # s
      BY NowFacts
    <3>1. held => gone[d] = {p.id}
      BY <3>0 DEF AtBoth
    <3>2. re_packet_map'[d] = {q \in re_packet_map[d] : q.id # p.id}
      BY <1>0, <2>2, <3>0 DEF MapsOK, Erase
    <3>3. \A h \in Hosts \ {d} : re_packet_map'[h] = re_packet_map[h]
      BY <1>0, <2>2, <3>0 DEF MapsOK
    <3>4. Keys(re_packet_map[d]) \ gone[d] \subseteq Keys(re_packet_map'[d])
      BY <3>1, <3>2 DEF Keys
    <3> HIDE DEF gone, held
    <3> QED
      BY <3>2, <3>3, <3>4
  <2> HIDE DEF gone, held
  <2>4. TimersMeant(s, n)'
    BY <1>0, <1>00, <2>2, <2>3, CancelMeant
  <2> QED
    BY <1>0, <2>2, <2>3, <2>4, TakeOrderly DEF CalmSource
<1> QED
  BY <1>2, <1>3, <1>4, <1>5, <1>6

(* The copy of FIN goes, its timer stays, FIN_ACK has the next number.     *)
LEMMA ReceiveFinOrderly ==
    ASSUME NEW f, NEW s, NEW d, NEW n, Now(f, s, d, n), Orderly(s, d, n),
           NEW a \in Hosts, NEW b \in Hosts, NEW p, Arrives(a, b, p), ReceiveFin(a, b, p)
    PROVE  aborted' = aborted /\ Orderly(s, d, n)'
<1>0. \/ a = s /\ b = d /\ Forth(f, s, d, n, p)
      \/ a = d /\ b = s /\ Back(d, n, p)
  BY Arrival, Zenon
<1>1. a = s /\ b = d /\ p.kind = "FIN"
  BY <1>0 DEF ReceiveFin, Back, Ack
<1>2. p.id = n + 2
  BY <1>1, ArrivedMeans
<1> DEFINE peer == destination[d]
           kept == [re_packet_map EXCEPT ![peer] = Erase(@, {p.id})]
           m == Consumed(s, d)
<1>3. PICK answer : answer = Pkt(peer, "FIN_ACK", p.id + 1, TRUE, temp_cwnd_host[d], NoData)
  OBVIOUS
<1>4. /\ Arm(d, {answer.id})
      /\ re_packet_map' = [kept EXCEPT ![d] = Insert(@, answer)]
      /\ net' = Sent(m, d, answer)
      /\ UNCHANGED <<state, sent_so_far, packet_expected, normal, aborted>>
  BY <1>1, <1>3 DEF ReceiveFin, progress
<1>5. /\ n \in Nat /\ s \in Hosts /\ d \in Hosts /\ s # d /\ peer \in {NoHost, s}
      /\ NoHost \notin Hosts /\ MapsOK /\ TimersOK /\ temp_cwnd_host[d] \in UShorts
  BY NowFacts, FlowNet DEF FieldsOK
<1>6. answer \in Packet /\ answer.kind = "FIN_ACK" /\ answer.id = n + 3
  <2>1. peer \in Hosts \cup {NoHost} /\ "FIN_ACK" \in Kinds /\ p.id + 1 \in Nat
          /\ NoData \in {NoData} \cup (Flows \X Nat)
    BY <1>2, <1>5 DEF Kinds
  <2>2. answer \in Packet
    BY <1>3, <1>5, <2>1, PktTyped
  <2> QED
    BY <1>2, <1>3, <1>5, <2>2 DEF Pkt
<1>7. /\ \A q \in re_packet_map'[d] : q \in re_packet_map[d] \/ q = answer
      /\ re_packet_map'[s] \subseteq re_packet_map[s]
      /\ Keys(re_packet_map'[d]) = Keys(re_packet_map[d]) \cup {n + 3}
      /\ Keys(re_packet_map[s]) \subseteq Keys(re_packet_map'[s]) \cup {n + 2}
      /\ \A h \in Hosts \ {s, d} : re_packet_map'[h] = re_packet_map[h]
  <2>1. /\ kept \in [Hosts -> SUBSET Packet] /\ kept[d] = re_packet_map[d]
        /\ \A h \in Hosts \ {s} : kept[h] = re_packet_map[h]
        /\ kept[s] = re_packet_map[s] \/ kept[s] = Erase(re_packet_map[s], {p.id})
    <3>1. CASE peer = s
      BY <1>5, <3>1 DEF MapsOK, Erase
    <3>2. CASE peer = NoHost
      <4>1. \A v : [re_packet_map EXCEPT ![NoHost] = v] = re_packet_map
        BY <1>5 DEF MapsOK
      <4>2. kept = re_packet_map
        BY <3>2, <4>1
      <4> QED
        BY <1>5, <4>2 DEF MapsOK
    <3>3. peer = s \/ peer = NoHost
      BY <1>5
    <3> HIDE DEF kept, peer
    <3> QED
      BY <3>1, <3>2, <3>3, Zenon
  <2> HIDE DEF kept
  <2>2. /\ re_packet_map'[d] = Insert(re_packet_map[d], answer)
        /\ \A h \in Hosts \ {d} : re_packet_map'[h] = kept[h]
    BY <1>4, <1>5, <2>1
  <2>3. /\ Keys(re_packet_map'[d]) = Keys(re_packet_map[d]) \cup {n + 3}
        /\ \A q \in re_packet_map'[d] : q \in re_packet_map[d] \/ q = answer
    <3>1. /\ Keys(Insert(re_packet_map[d], answer)) = Keys(re_packet_map[d]) \cup {answer.id}
          /\ \A q \in Insert(re_packet_map[d], answer) : q \in re_packet_map[d] \/ q = answer
      BY KeysGrow
    <3> QED
      BY <1>6, <2>2, <3>1
  <2>4. /\ kept[s] \subseteq re_packet_map[s]
        /\ Keys(re_packet_map[s]) \subseteq Keys(kept[s]) \cup {n + 2}
    BY <1>2, <2>1 DEF Erase, Keys
  <2> QED
    BY <1>5, <2>1, <2>2, <2>3, <2>4
<1> HIDE DEF kept
<1>8. TimersMeant(s, n)'
  <2>1. {answer.id} \subseteq Keys(re_packet_map'[d])
    BY <1>6, <1>7
  <2>2. \A g \in Hosts :
          Keys(re_packet_map[g]) \subseteq Keys(re_packet_map'[g]) \cup FinTimer(s, n, g)
    BY <1>7 DEF FinTimer
  <2>3. TimersMeant(s, n)
    BY DEF Orderly
  <2> QED
    BY <1>4, <1>5, <2>1, <2>2, <2>3, ArmMeant
<1>9. /\ m \in [Hosts \X Hosts -> Seq(Packet)]
      /\ RangeOf(m[<<s, d>>]) \subseteq RangeOf(net[<<s, d>>])
      /\ RangeOf(m[<<d, s>>]) \subseteq RangeOf(net[<<d, s>>])
      /\ AtMostOnce(n, m[<<d, s>>])
  <2>1. net[<<s, d>>] # <<>>
    BY <1>1 DEF Arrives
  <2> QED
    BY <1>5, <2>1, TakenOut
<1> HIDE DEF m
<1>10. /\ \A q \in RangeOf(net'[<<s, d>>]) : q \in RangeOf(net[<<s, d>>])
       /\ \A q \in RangeOf(net'[<<d, s>>]) : q \in RangeOf(net[<<d, s>>]) \/ q = answer
  <2>1. \A q \in RangeOf(Sent(m, d, answer)[<<s, d>>]) : q \in RangeOf(m[<<s, d>>])
    BY <1>5, <1>9, SentElsewhere
  <2>2. \A q \in RangeOf(Sent(m, d, answer)[<<d, s>>]) :
           q \in RangeOf(m[<<d, s>>]) \/ q = answer
    BY <1>5, <1>6, <1>9, SentWays
  <2> QED
    BY <1>4, <1>5, <1>9, <2>1, <2>2
<1>11. AtMostOnce(n, net'[<<d, s>>])
  <2>1. ~LastAck(n, answer)
    BY <1>6 DEF LastAck
  <2>2. AtMostOnce(n, Sent(m, d, answer)[<<d, s>>])
    BY <1>5, <1>6, <1>9, <2>1, SentOnce
  <2> QED
    BY <1>4, <2>2
<1>12. /\ \A q \in Way(s, d)' : q \in Way(s, d)
       /\ \A q \in Way(d, s)' : q \in Way(d, s) \/ q = answer
  BY <1>7, <1>10 DEF Way
<1>13. /\ OneFin(s, d, n)' /\ (state'[s] = "FIN" => state[s] = "FIN")
       /\ sent_so_far'[s] <= n \/ sent_so_far'[s] = sent_so_far[s]
  BY <1>4, CalmFin DEF Orderly, CalmSource
<1> QED
  BY <1>4, <1>6, <1>8, <1>11, <1>12, <1>13, CalmStep

(* Packets in order: their ACK is the last one only once.                  *)
LEMMA ReceiveInOrderOrderly ==
    ASSUME NEW f, NEW s, NEW d, NEW n, Now(f, s, d, n), Orderly(s, d, n),
           NEW a \in Hosts, NEW b \in Hosts, NEW p, Arrives(a, b, p), ReceiveInOrder(a, b, p)
    PROVE  aborted' = aborted /\ Orderly(s, d, n)'
<1>0. /\ p \in Packet
      /\ \/ a = s /\ b = d /\ Forth(f, s, d, n, p)
         \/ a = d /\ b = s /\ Back(d, n, p)
  BY Arrival, Zenon
<1>1. a = s /\ b = d /\ Data(f, s, n, p) /\ p.id = packet_expected[d]
  BY <1>0 DEF ReceiveInOrder, Forth, Back, Ack
<1> DEFINE m == Consumed(s, d)
<1>2. PICK k \in IF p.last THEN {0} ELSE Drains(d, p.id + 1),
           w \in {p.cwnd} \cup {q.cwnd : q \in order_packet_map[d]} :
         LET r == InOrder(d, p, k, w)
         IN  /\ packet_expected' = [packet_expected EXCEPT ![d] = r.expected]
             /\ state' = [state EXCEPT ![d] =
                            IF r.last THEN "FIN" ELSE "sending_ack_listening"]
             /\ SendKept(m, d, r.ack)
  BY <1>1 DEF ReceiveInOrder
<1>3. w \in UShorts
  BY <1>0, NowFacts DEF MapsOK, Packet
<1>4. PICK r : r = InOrder(d, p, k, w)
  OBVIOUS
<1>5. /\ r.expected <= n + 1 /\ (r.last => r.expected = n + 1) /\ r.expected \in Int
      /\ r.ack \in Packet /\ r.ack.kind = "ACK" /\ r.ack.id = r.expected
      /\ r.ack.last = r.last
  BY <1>0, <1>1, <1>3, <1>4, InOrderShape, NowFacts
<1>6. /\ n \in Nat /\ s \in Hosts /\ d \in Hosts /\ s # d /\ MapsOK /\ TimersOK
      /\ state \in [Hosts -> States] /\ packet_expected \in [Hosts -> Nat \ {0}]
      /\ packet_expected[d] <= n /\ sent_so_far[s] \in Nat
  BY <1>1, NowFacts, FlowNet DEF FieldsOK, Data
<1>7. /\ packet_expected'[d] = r.expected /\ state'[s] = state[s] /\ SendKept(m, d, r.ack)
      /\ UNCHANGED <<sent_so_far, normal, aborted>>
  BY <1>1, <1>2, <1>4, <1>6 DEF ReceiveInOrder
<1>8. /\ re_packet_map'[s] = re_packet_map[s] /\ net' = Sent(m, d, r.ack)
      /\ \A q \in re_packet_map'[d] : q \in re_packet_map[d] \/ q = r.ack
  BY <1>6, <1>7 DEF SendKept, MapsOK, Insert
<1>9. TimersMeant(s, n)'
  BY <1>6, <1>7, SendKeptMeant DEF Orderly
<1>10. /\ m \in [Hosts \X Hosts -> Seq(Packet)]
       /\ RangeOf(m[<<s, d>>]) \subseteq RangeOf(net[<<s, d>>])
       /\ RangeOf(m[<<d, s>>]) \subseteq RangeOf(net[<<d, s>>])
       /\ AtMostOnce(n, m[<<d, s>>])
  <2>1. net[<<s, d>>] # <<>>
    BY <1>1 DEF Arrives
  <2> QED
    BY <1>6, <2>1, TakenOut
<1> HIDE DEF m
<1>11. \A q \in Way(d, s) : ~LastAck(n, q)
  <2>1. \A q \in RangeOf(net[<<d, s>>]) : Back(d, n, q)
    BY DEF Now, Running, Path
  <2>2. \A q \in re_packet_map[d] : KeptAtDestination(s, d, n, q)
    BY DEF Now, Running, Kept
  <2>3. \A q \in Way(d, s) : q.kind = "ACK" => Ack(d, n, q)
    BY <2>1, <2>2 DEF Way, Back, KeptAtDestination
  <2> QED
    BY <1>6, <2>3 DEF LastAck, Ack
<1>12. /\ \A q \in Way(s, d)' : q \in Way(s, d)
       /\ \A q \in Way(d, s)' : q \in Way(d, s) \/ q = r.ack
  <2>1. \A q \in RangeOf(Sent(m, d, r.ack)[<<s, d>>]) : q \in RangeOf(m[<<s, d>>])
    BY <1>6, <1>10, SentElsewhere
  <2>2. \A q \in RangeOf(Sent(m, d, r.ack)[<<d, s>>]) :
           q \in RangeOf(m[<<d, s>>]) \/ q = r.ack
    BY <1>5, <1>6, <1>10, SentWays
  <2> QED
    BY <1>6, <1>8, <1>10, <2>1, <2>2 DEF Way
<1>13. AtMostOnce(n, net'[<<d, s>>])
  <2>1. \A x \in RangeOf(m[<<d, s>>]) : ~LastAck(n, x)
    BY <1>10, <1>11 DEF Way
  <2>2. AtMostOnce(n, Sent(m, d, r.ack)[<<d, s>>])
    BY <1>5, <1>6, <1>10, <2>1, SentOnce
  <2> QED
    BY <1>8, <2>2
<1>14. sent_so_far[s] <= n /\ state[s] # "FIN"
  <2>1. /\ sent_so_far[s] <= n + 1
        /\ sent_so_far[s] = n + 1 => packet_expected[d] = n + 1
        /\ state[s] = "FIN" => packet_expected[d] = n + 1
    BY DEF Orderly, OneFin, Now, Running, Counters, Whole
  <2> QED
    BY <1>6, <2>1
<1>15. OneFin(s, d, n)' /\ OneLastAck(s, d, n)'
  BY <1>6, <1>7, <1>13, <1>14 DEF OneFin, OneLastAck, Whole
<1>16. Numbers(s, d, n)'
  BY <1>5, <1>12 DEF Numbers, Orderly
<1> QED
  BY <1>7, <1>9, <1>15, <1>16 DEF Orderly

(* The last ACK comes once, and when it has come it is not kept either.    *)
LEMMA ReceiveAckOrderly ==
    ASSUME NEW f, NEW s, NEW d, NEW n, Now(f, s, d, n), Orderly(s, d, n),
           NEW a \in Hosts, NEW b \in Hosts, NEW p, Arrives(a, b, p), ReceiveAck(a, b, p)
    PROVE  aborted' = aborted /\ Orderly(s, d, n)'
<1>0. \/ a = s /\ b = d /\ Forth(f, s, d, n, p)
      \/ a = d /\ b = s /\ Back(d, n, p)
  BY Arrival, Zenon
<1>1. a = d /\ b = s /\ p.kind = "ACK"
  BY <1>0 DEF ReceiveAck, Forth, Data
<1>2. /\ n \in Nat /\ s \in Hosts /\ d \in Hosts /\ s # d /\ TimersOK
      /\ state \in [Hosts -> States] /\ destination[s] = d /\ net[<<d, s>>] # <<>>
  BY <1>1, NowFacts, FlowNet DEF FieldsOK, Arrives
<1>3. PICK gone : gone = AtBoth(s, AckedIds(s, p.id), d, {p.id})
  OBVIOUS
<1>4. /\ Forget(gone) /\ net' = Consumed(d, s)
      /\ state' = [state EXCEPT ![s] = IF p.last THEN "FIN" ELSE "sending"]
      /\ UNCHANGED <<sent_so_far, packet_expected, aborted>>
  BY <1>1, <1>2, <1>3 DEF ReceiveAck, AfterAck
<1>5. /\ TimersMeant(s, n)'
      /\ \A h \in Hosts : re_packet_map'[h] = Erase(re_packet_map[h], gone[h])
      /\ \A h \in Hosts : re_packet_map'[h] \subseteq re_packet_map[h]
  BY <1>2, <1>4, ForgetMeant DEF Orderly, Forget, Erase
<1>6. CASE ~p.last
  <2>1. state'[s] = "sending"
    BY <1>2, <1>4, <1>6
  <2> QED
    BY <1>1, <1>2, <1>4, <1>5, <2>1, TakeOrderly DEF CalmSource
<1>7. CASE p.last
  <2>1. LastAck(n, p) /\ sent_so_far[s] <= n
    BY <1>1, <1>7, ArrivedMeans
  <2>2. \A q \in RangeOf(net'[<<d, s>>]) : ~LastAck(n, q)
    BY <1>1, <1>4, <2>1, LastAckAlone
  <2>3. \A q \in re_packet_map'[d] : ~LastAck(n, q)
    <3>1. p.id \in gone[d] /\ p.id = n + 1
      BY <1>2, <1>3, <2>1 DEF AtBoth, LastAck
    <3> QED
      BY <1>2, <1>5, <3>1 DEF Erase, LastAck
  <2>4. /\ RangeOf(net'[<<s, d>>]) \subseteq RangeOf(net[<<s, d>>])
        /\ RangeOf(net'[<<d, s>>]) \subseteq RangeOf(net[<<d, s>>])
        /\ AtMostOnce(n, net'[<<d, s>>])
    BY <1>2, <1>4, TakenOut
  <2>5. Way(s, d)' \subseteq Way(s, d) /\ Way(d, s)' \subseteq Way(d, s)
    BY <1>2, <1>5, <2>4 DEF Way
  <2>6. Numbers(s, d, n)'
    BY <2>5 DEF Numbers, Orderly
  <2>7. OneLastAck(s, d, n)'
    BY <2>2, <2>3, <2>4 DEF OneLastAck, Way
  <2>8. OneFin(s, d, n)'
    <3>1. sent_so_far'[s] <= n /\ sent_so_far'[s] \in Nat
      BY <1>4, <2>1, NowFacts
    <3> QED
      BY <1>2, <3>1 DEF OneFin
  <2> QED
    BY <1>4, <1>5, <2>6, <2>7, <2>8 DEF Orderly
<1> QED
  BY <1>6, <1>7

(* The normal cookie.                                                      *)
LEMMA SendSynOrderly ==
    ASSUME NEW f, NEW s, NEW d, NEW n, Now(f, s, d, n), Orderly(s, d, n),
           NEW h \in normal, SendSyn(h), normal' = normal \ {h},
           UNCHANGED <<state, packet_expected>>
    PROVE  aborted' = aborted /\ Orderly(s, d, n)'
<1>1. h = d
  BY DEF SendSyn, Now, Running, Turns
<1>2. PICK answer : answer = Pkt(destination[d], "SYN_ACK", 0, FALSE, 0, NoData)
  OBVIOUS
<1>3. SendKept(net, d, answer) /\ UNCHANGED <<sent_so_far, aborted>>
  BY <1>1, <1>2, NowFacts DEF SendSyn
<1>4. /\ n \in Nat /\ s \in Hosts /\ d \in Hosts /\ s # d /\ MapsOK /\ TimersOK
      /\ net \in [Hosts \X Hosts -> Seq(Packet)] /\ destination[d] \in {NoHost, s}
  BY NowFacts, FlowNet
<1>5. answer \in Packet /\ answer.kind = "SYN_ACK"
  <2>1. /\ "SYN_ACK" \in Kinds /\ NoData \in {NoData} \cup (Flows \X Nat)
        /\ destination[d] \in Hosts \cup {NoHost}
    BY <1>4 DEF Kinds
  <2>2. answer \in Packet
    BY <1>2, <1>4, <2>1, ZeroIsUShort, PktTyped
  <2> QED
    BY <1>2, <2>2 DEF Pkt
<1>6. /\ re_packet_map'[s] = re_packet_map[s] /\ net' = Sent(net, d, answer)
      /\ \A q \in re_packet_map'[d] : q \in re_packet_map[d] \/ q = answer
  BY <1>3, <1>4 DEF SendKept, MapsOK, Insert
<1>7. TimersMeant(s, n)'
  BY <1>3, <1>4, SendKeptMeant DEF Orderly
<1>8. /\ \A q \in Way(s, d)' : q \in Way(s, d)
      /\ \A q \in Way(d, s)' : q \in Way(d, s) \/ q = answer
  <2>1. \A q \in RangeOf(Sent(net, d, answer)[<<s, d>>]) : q \in RangeOf(net[<<s, d>>])
    BY <1>4, SentElsewhere
  <2>2. \A q \in RangeOf(Sent(net, d, answer)[<<d, s>>]) :
           q \in RangeOf(net[<<d, s>>]) \/ q = answer
    BY <1>4, <1>5, SentWays
  <2> QED
    BY <1>6, <2>1, <2>2 DEF Way
<1>9. AtMostOnce(n, net'[<<d, s>>])
  <2>1. ~LastAck(n, answer) /\ AtMostOnce(n, net[<<d, s>>])
    BY <1>5 DEF LastAck, Orderly, OneLastAck
  <2>2. AtMostOnce(n, Sent(net, d, answer)[<<d, s>>])
    BY <1>4, <1>5, <2>1, SentOnce
  <2> QED
    BY <1>6, <2>2
<1>10. CalmSource(s, d) /\ OneFin(s, d, n)
  BY <1>3 DEF CalmSource, Orderly
<1> QED
  BY <1>3, <1>5, <1>7, <1>8, <1>9, <1>10, CalmFin, CalmStep

LEMMA SendBurstOrderly ==
    ASSUME NEW f, NEW s, NEW d, NEW n, Now(f, s, d, n), Orderly(s, d, n),
           NEW h \in normal, SendBurst(h), normal' = normal \ {h},
           UNCHANGED <<state, packet_expected>>
    PROVE  aborted' = aborted /\ Orderly(s, d, n)'
<1>1. h = s /\ state[s] = "sending" /\ ~done_transmission[s] /\ cwnd_host[s] > 0
  BY NowFacts DEF SendBurst, Now, Running, Turns
<1>2. PICK burst, k, ids : burst = Burst(s) /\ k = Len(burst) /\ ids = {p.id : p \in RangeOf(burst)}
  OBVIOUS
<1>3. /\ burst \in Seq(Packet) /\ k \in Nat /\ sent_so_far[s] + k <= n
      /\ \A e \in RangeOf(burst) : e.kind = "DATA"
  BY <1>1, <1>2, BurstFlow DEF NextPackets
<1>4. /\ sent_so_far' = [sent_so_far EXCEPT ![s] = @ + k]
      /\ Arm(s, ids)
      /\ re_packet_map' = [re_packet_map EXCEPT ![s] = InsertAll(@, RangeOf(burst))]
      /\ net' = [net EXCEPT ![<<s, d>>] = @ \o burst]
      /\ aborted' = aborted
  BY <1>1, <1>2, NowFacts DEF SendBurst
<1>5. /\ n \in Nat /\ s \in Hosts /\ d \in Hosts /\ s # d /\ <<s, d>> # <<d, s>>
      /\ MapsOK /\ TimersOK /\ net \in [Hosts \X Hosts -> Seq(Packet)]
      /\ sent_so_far \in [Hosts -> Nat]
  BY NowFacts, FlowNet DEF FieldsOK
<1>6. /\ sent_so_far'[s] = sent_so_far[s] + k
      /\ re_packet_map'[s] = InsertAll(re_packet_map[s], RangeOf(burst))
      /\ \A g \in Hosts \ {s} : re_packet_map'[g] = re_packet_map[g]
      /\ net'[<<s, d>>] = net[<<s, d>>] \o burst
      /\ net'[<<d, s>>] = net[<<d, s>>]
  BY <1>4, <1>5 DEF MapsOK
<1>7. /\ Keys(re_packet_map[s]) \subseteq Keys(re_packet_map'[s])
      /\ ids \subseteq Keys(re_packet_map'[s])
      /\ re_packet_map'[s] \subseteq re_packet_map[s] \cup RangeOf(burst)
  <2>1. /\ Keys(re_packet_map[s]) \subseteq Keys(InsertAll(re_packet_map[s], RangeOf(burst)))
        /\ Keys(RangeOf(burst)) \subseteq Keys(InsertAll(re_packet_map[s], RangeOf(burst)))
        /\ InsertAll(re_packet_map[s], RangeOf(burst)) \subseteq
              re_packet_map[s] \cup RangeOf(burst)
    BY KeysGrow
  <2>2. Keys(RangeOf(burst)) = ids
    BY <1>2 DEF Keys
  <2> QED
    BY <1>6, <2>1, <2>2
<1>8. TimersMeant(s, n)'
  <2>1. \A g \in Hosts :
          Keys(re_packet_map[g]) \subseteq Keys(re_packet_map'[g]) \cup FinTimer(s, n, g)
    BY <1>6, <1>7
  <2>2. TimersMeant(s, n)
    BY DEF Orderly
  <2> QED
    BY <1>4, <1>5, <1>7, <2>1, <2>2, ArmMeant
<1>9. RangeOf(net'[<<s, d>>]) = RangeOf(net[<<s, d>>]) \cup RangeOf(burst)
  <2>1. net[<<s, d>>] \in Seq(Packet)
    BY <1>5
  <2>2. RangeOf(net[<<s, d>>] \o burst) = RangeOf(net[<<s, d>>]) \cup RangeOf(burst)
    BY <1>3, <2>1, ConcatShape
  <2> QED
    BY <1>6, <2>2
<1>10. /\ \A q \in Way(s, d)' : q \in Way(s, d) \/ q.kind = "DATA"
       /\ \A q \in Way(d, s)' : q \in Way(d, s)
  BY <1>3, <1>5, <1>6, <1>7, <1>9 DEF Way
<1>11. AtMostOnce(n, net'[<<d, s>>])
  BY <1>6 DEF Orderly, OneLastAck
<1>12. OneFin(s, d, n)' /\ sent_so_far'[s] <= n
  <2>1. sent_so_far'[s] \in Nat /\ sent_so_far'[s] <= n
    BY <1>3, <1>5, <1>6
  <2> QED
    BY <1>5, <2>1 DEF OneFin
<1> QED
  BY <1>4, <1>8, <1>10, <1>11, <1>12, CalmStep

LEMMA SendNothingOrderly ==
    ASSUME NEW f, NEW s, NEW d, NEW n, Now(f, s, d, n), Orderly(s, d, n),
           NEW h \in normal, SendNothing(h), normal' = normal \ {h},
           UNCHANGED <<state, packet_expected>>
    PROVE  aborted' = aborted /\ Orderly(s, d, n)'
<1>1. UNCHANGED <<sent_so_far, re_packet_map, armed, stale, net, aborted>>
  BY DEF SendNothing, timers
<1>2. TimersMeant(s, n)'
  BY <1>1, IdleMeant DEF Orderly
<1>3. \A q : (q \in Way(s, d)' => q \in Way(s, d)) /\ (q \in Way(d, s)' => q \in Way(d, s))
  BY <1>1 DEF Way
<1>4. AtMostOnce(n, net'[<<d, s>>])
  BY <1>1 DEF Orderly, OneLastAck
<1>5. CalmSource(s, d) /\ OneFin(s, d, n)
  BY <1>1 DEF CalmSource, Orderly
<1> QED
  BY <1>1, <1>2, <1>3, <1>4, <1>5, CalmFin, CalmStep

(* FIN is sent once, when the source has been told the last ACK once.      *)
LEMMA SendFinOrderly ==
    ASSUME NEW f, NEW s, NEW d, NEW n, Now(f, s, d, n), Orderly(s, d, n),
           NEW h \in normal, SendFin(h), normal' = normal \ {h},
           UNCHANGED <<state, packet_expected>>
    PROVE  aborted' = aborted /\ Orderly(s, d, n)'
<1>1. h = s /\ state[s] = "FIN"
  BY NowFacts DEF SendFin, Now, Running, Turns
<1>2. /\ n \in Nat /\ s \in Hosts /\ d \in Hosts /\ s # d /\ MapsOK /\ TimersOK
      /\ net \in [Hosts \X Hosts -> Seq(Packet)] /\ sent_so_far \in [Hosts -> Nat]
      /\ destination[s] = d
  BY NowFacts, FlowNet DEF FieldsOK
<1>3. Whole(d, n) /\ sent_so_far[s] = n
  <2>1. /\ packet_expected[d] = n + 1 /\ packet_expected[d] <= sent_so_far[s] + 1
        /\ sent_so_far[s] <= n
    BY <1>1 DEF Now, Running, Counters, Whole, Orderly, OneFin
  <2> QED
    BY <1>2, <2>1 DEF Whole
<1>4. PICK fin : fin = Pkt(d, "FIN", sent_so_far[s] + 2, FALSE, 0, NoData)
  OBVIOUS
<1>5. /\ SendKept(net, s, fin) /\ aborted' = aborted
      /\ sent_so_far' = [sent_so_far EXCEPT ![s] = @ + 1]
  BY <1>1, <1>2, <1>4 DEF SendFin
<1>6. fin \in Packet /\ fin.kind = "FIN" /\ fin.id = n + 2
  <2>1. d \in Hosts \cup {NoHost} /\ "FIN" \in Kinds /\ sent_so_far[s] + 2 \in Nat
          /\ NoData \in {NoData} \cup (Flows \X Nat)
    BY <1>2 DEF Kinds
  <2>2. fin \in Packet
    BY <1>4, <2>1, ZeroIsUShort, PktTyped
  <2> QED
    BY <1>2, <1>3, <1>4, <2>2 DEF Pkt
<1>7. /\ re_packet_map'[d] = re_packet_map[d] /\ net' = Sent(net, s, fin)
      /\ \A q \in re_packet_map'[s] : q \in re_packet_map[s] \/ q = fin
      /\ sent_so_far'[s] = n + 1
  BY <1>2, <1>3, <1>5 DEF SendKept, MapsOK, Insert
<1>8. TimersMeant(s, n)'
  BY <1>2, <1>5, SendKeptMeant DEF Orderly
<1>9. /\ \A q \in Way(s, d)' : q \in Way(s, d) \/ q = fin
      /\ \A q \in Way(d, s)' : q \in Way(d, s)
  <2>1. \A q \in RangeOf(Sent(net, s, fin)[<<d, s>>]) : q \in RangeOf(net[<<d, s>>])
    BY <1>2, SentElsewhere
  <2>2. \A q \in RangeOf(Sent(net, s, fin)[<<s, d>>]) :
           q \in RangeOf(net[<<s, d>>]) \/ q = fin
    BY <1>2, <1>6, SentWays
  <2> QED
    BY <1>7, <2>1, <2>2 DEF Way
<1>10. AtMostOnce(n, net'[<<d, s>>])
  <2>1. ~LastAck(n, fin) /\ AtMostOnce(n, net[<<d, s>>])
    BY <1>6 DEF LastAck, Orderly, OneLastAck
  <2>2. AtMostOnce(n, Sent(net, s, fin)[<<d, s>>])
    BY <1>2, <1>6, <2>1, SentOnce
  <2> QED
    BY <1>7, <2>2
<1>11. Numbers(s, d, n)'
  BY <1>6, <1>9 DEF Numbers, Orderly
<1>12. OneLastAck(s, d, n)'
  <2>1. \A q \in Way(d, s) : ~LastAck(n, q)
    BY <1>1 DEF Orderly, OneLastAck
  <2>2. \A q \in Way(d, s)' : ~LastAck(n, q)
    BY <1>9, <2>1
  <2> QED
    BY <1>10, <2>2 DEF OneLastAck
<1>13. OneFin(s, d, n)'
  BY <1>1, <1>2, <1>3, <1>7 DEF OneFin, Whole
<1> QED
  BY <1>5, <1>8, <1>11, <1>12, <1>13 DEF Orderly

LEMMA NormalTimerOrderly ==
    ASSUME NEW f, NEW s, NEW d, NEW n, Now(f, s, d, n), Orderly(s, d, n),
           NEW h \in Hosts, NormalTimer(h)
    PROVE  aborted' = aborted /\ Orderly(s, d, n)'
<1>1. h \in normal /\ normal' = normal \ {h} /\ UNCHANGED <<state, packet_expected>>
  BY DEF NormalTimer
<1>2. CASE SendSyn(h)
  BY <1>1, <1>2, SendSynOrderly
<1>3. CASE SendBurst(h)
  BY <1>1, <1>3, SendBurstOrderly
<1>4. CASE SendNothing(h)
  BY <1>1, <1>4, SendNothingOrderly
<1>5. CASE SendFin(h)
  BY <1>1, <1>5, SendFinOrderly
<1>6. ~SendUninitialised(h)
  BY <1>1 DEF SendUninitialised, Now, Running, Turns, Ends
<1> QED
  BY <1>2, <1>3, <1>4, <1>5, <1>6 DEF NormalTimer

LEMMA StartFlowOrderly ==
    ASSUME NEW f, NEW s, NEW d, NEW n, OneFlow(f, s, d, n), TypeOK, NotStarted(f, s, d),
           Orderly(s, d, n), StartFlow(f)
    PROVE  aborted' = aborted /\ Orderly(s, d, n)'
<1>1. /\ f \in Flows /\ s \in Hosts /\ d \in Hosts /\ s # d /\ n \in Nat \ {0}
      /\ s = f.source /\ d = f.destination
      /\ FieldsOK /\ MapsOK /\ TimersOK /\ net \in [Hosts \X Hosts -> Seq(Packet)]
  BY TheEnds DEF OneFlow, TypeOK, NetOK
<1>2. PICK syn : syn = Pkt(d, "SYN", 0, FALSE, 0, NoData)
  OBVIOUS
<1>3. /\ state' = [state EXCEPT ![s] = "SYN", ![d] = "SYN"]
      /\ sent_so_far' = [sent_so_far EXCEPT ![s] = 0, ![d] = 0]
      /\ SendKept(net, s, syn) /\ UNCHANGED <<normal, aborted>>
  BY <1>1, <1>2 DEF StartFlow
<1>4. syn \in Packet /\ syn.kind = "SYN"
  <2>1. d \in Hosts \cup {NoHost} /\ "SYN" \in Kinds /\ NoData \in {NoData} \cup (Flows \X Nat)
    BY <1>1 DEF Kinds
  <2>2. syn \in Packet
    BY <1>2, <2>1, ZeroIsUShort, PktTyped
  <2> QED
    BY <1>2, <2>2 DEF Pkt
<1>5. /\ re_packet_map'[d] = re_packet_map[d] /\ net' = Sent(net, s, syn)
      /\ \A q \in re_packet_map'[s] : q \in re_packet_map[s] \/ q = syn
      /\ sent_so_far'[s] = 0 /\ state'[s] = "SYN"
  BY <1>1, <1>3 DEF SendKept, MapsOK, Insert, FieldsOK
<1>6. TimersMeant(s, n)'
  BY <1>1, <1>3, SendKeptMeant DEF Orderly
<1>7. /\ \A q \in Way(s, d)' : q \in Way(s, d) \/ q = syn
      /\ \A q \in Way(d, s)' : q \in Way(d, s)
  <2>1. \A q \in RangeOf(Sent(net, s, syn)[<<d, s>>]) : q \in RangeOf(net[<<d, s>>])
    BY <1>1, SentElsewhere
  <2>2. \A q \in RangeOf(Sent(net, s, syn)[<<s, d>>]) :
           q \in RangeOf(net[<<s, d>>]) \/ q = syn
    BY <1>1, <1>4, SentWays
  <2> QED
    BY <1>5, <2>1, <2>2 DEF Way
<1>8. AtMostOnce(n, net'[<<d, s>>])
  <2>1. ~LastAck(n, syn) /\ AtMostOnce(n, net[<<d, s>>])
    BY <1>4 DEF LastAck, Orderly, OneLastAck
  <2>2. AtMostOnce(n, Sent(net, s, syn)[<<d, s>>])
    BY <1>1, <1>4, <2>1, SentOnce
  <2> QED
    BY <1>5, <2>2
<1>9. OneFin(s, d, n)' /\ sent_so_far'[s] <= n
  BY <1>1, <1>5 DEF OneFin
<1> QED
  BY <1>3, <1>4, <1>5, <1>6, <1>7, <1>8, <1>9, CalmStep

\* What Orderly is about stays as it is.
LEMMA OrderlySame ==
    ASSUME NEW s, NEW d, NEW n, Orderly(s, d, n),
           UNCHANGED <<state, sent_so_far, packet_expected, normal, re_packet_map, armed, stale,
                       net>>
    PROVE  Orderly(s, d, n)'
<1>1. TimersMeant(s, n)'
  BY IdleMeant DEF Orderly
<1>2. Numbers(s, d, n)' /\ OneFin(s, d, n)' /\ OneLastAck(s, d, n)'
  BY DEF Orderly, Numbers, OneFin, OneLastAck, Way, Whole
<1> QED
  BY <1>1, <1>2 DEF Orderly

LEMMA AbortOrderly ==
    ASSUME NEW s, NEW d, NEW n, Orderly(s, d, n), NEW why, Abort(why)
    PROVE  Orderly(s, d, n)'
BY OrderlySame DEF Abort, progress, timers

LEMMA DeliveryOrderly ==
    ASSUME NEW f, NEW s, NEW d, NEW n, Now(f, s, d, n), Orderly(s, d, n),
           NEW a \in Hosts, NEW b \in Hosts, Delivery(a, b)
    PROVE  early' = early /\ aborted' # "cancel_timer" /\ Orderly(s, d, n)'
<1>1. PICK p \in {Marked(Head(net[<<a, b>>]), w) : w \in Windows} :
        \/ /\ \/ ReceiveSyn(a, b, p)
              \/ ReceiveSynAck(a, b, p)
              \/ ReceiveInOrder(a, b, p)
              \/ ReceiveAhead(a, b, p)
              \/ ReceiveRepeated(a, b, p)
              \/ ReceiveAck(a, b, p)
              \/ ReceiveFin(a, b, p)
              \/ ReceiveFinAck(a, b, p)
              \/ ReceiveOther(a, b, p)
           /\ UNCHANGED <<waiting, early, lost>>
        \/ ReceiveInOrderDies(a, b, p)
        \/ ReceiveDies(a, b, p)
  BY DEF Delivery, Receive
<1>2. Arrives(a, b, p) /\ aborted = "no"
  BY DEF Delivery, Arrives
<1>3. CASE ReceiveInOrderDies(a, b, p)
  <2>1. PICK why \in {"window", "iterator"} : Abort(why)
    BY <1>3 DEF ReceiveInOrderDies
  <2> QED
    BY <2>1, AbortOrderly DEF Abort
<1>4. ASSUME ReceiveInOrder(a, b, p) PROVE aborted' = aborted /\ Orderly(s, d, n)'
  BY <1>2, <1>4, ReceiveInOrderOrderly
<1>5. ASSUME ReceiveAck(a, b, p) PROVE aborted' = aborted /\ Orderly(s, d, n)'
  BY <1>2, <1>5, ReceiveAckOrderly
<1>6. ASSUME ReceiveFin(a, b, p) PROVE aborted' = aborted /\ Orderly(s, d, n)'
  BY <1>2, <1>6, ReceiveFinOrderly
<1>7. ASSUME ReceiveSyn(a, b, p) \/ ReceiveSynAck(a, b, p) \/ ReceiveAhead(a, b, p)
               \/ ReceiveRepeated(a, b, p) \/ ReceiveFinAck(a, b, p)
      PROVE  aborted' = aborted /\ Orderly(s, d, n)'
  BY <1>2, <1>7, QuietReceiveOrderly
<1>8. ~ReceiveOther(a, b, p)
  BY <1>2, ReceiveOtherFlow
<1>9. ~ReceiveDies(a, b, p)
  BY <1>2, NoCancelDies
<1> QED
  BY <1>1, <1>2, <1>3, <1>4, <1>5, <1>6, <1>7, <1>8, <1>9

(* OrderlyInv is inductive, given the invariant of the flow.               *)
LEMMA OrderlyStep ==
    ASSUME NEW f, NEW s, NEW d, NEW n, OneFlow(f, s, d, n), TypeOK, FlowInv(f, s, d, n), Next,
           early = 0 => aborted # "cancel_timer" /\ Orderly(s, d, n)
    PROVE  early' = 0 => aborted' # "cancel_timer" /\ Orderly(s, d, n)'
<1> SUFFICES ASSUME early' = 0 PROVE aborted' # "cancel_timer" /\ Orderly(s, d, n)'
  OBVIOUS
<1>0. s \in Hosts /\ d \in Hosts /\ early \in Nat
  BY TheEnds DEF TypeOK
<1>1. ASSUME NEW g \in Flows, StartFlow(g) PROVE aborted' # "cancel_timer" /\ Orderly(s, d, n)'
  <2>1. g = f /\ early' = early /\ waiting # {}
    BY <1>1 DEF OneFlow, StartFlow
  <2>2. NotStarted(f, s, d)
    BY <2>1 DEF FlowInv, Running
  <2> QED
    BY <1>1, <2>1, <2>2, StartFlowOrderly
<1>2. ASSUME NEW h \in Hosts, NEW id, NEW owned, RetransmissionTimer(h, id, owned)
      PROVE  aborted' # "cancel_timer" /\ Orderly(s, d, n)'
  <2>1. early = 0
    <3>1. \/ early' = early
          \/ early' = early + 1
      BY <1>2 DEF RetransmissionTimer, Resend, TimerFinds
    <3> QED
      BY <1>0, <3>1
  <2> QED
    BY <1>0, <1>2, <2>1, RetransmissionOrderly
<1>3. ASSUME NEW h \in Hosts, TimerStep(h) \/ LeakedTimerStep(h)
      PROVE  aborted' # "cancel_timer" /\ Orderly(s, d, n)'
  BY <1>2, <1>3 DEF TimerStep, LeakedTimerStep
<1>4. ASSUME NEW h \in Hosts, NormalTimer(h) \/ NormalTimerDies(h)
      PROVE  aborted' # "cancel_timer" /\ Orderly(s, d, n)'
  <2>1. early' = early
    BY <1>4 DEF NormalTimer, NormalTimerDies, Abort
  <2>2. Now(f, s, d, n)
    BY <1>4 DEF FlowInv, NotStarted, NormalTimer, NormalTimerDies, Now
  <2>3. CASE NormalTimer(h)
    BY <2>1, <2>2, <2>3, NormalTimerOrderly
  <2>4. CASE NormalTimerDies(h)
    <3>1. Abort("window")
      BY <2>4 DEF NormalTimerDies
    <3> QED
      BY <2>1, <3>1, AbortOrderly DEF Abort
  <2> QED
    BY <1>4, <2>3, <2>4
<1>5. ASSUME NEW a \in Hosts, NEW b \in Hosts, Delivery(a, b) \/ Lose(a, b)
      PROVE  aborted' # "cancel_timer" /\ Orderly(s, d, n)'
  <2>1. early' = early
    BY <1>5 DEF Delivery, Receive, Lose, ReceiveInOrderDies, ReceiveDies, Abort
  <2>2. Now(f, s, d, n)
    BY <1>5 DEF FlowInv, NotStarted, Delivery, Lose, Now
  <2>3. CASE Delivery(a, b)
    BY <2>1, <2>2, <2>3, DeliveryOrderly
  <2>4. CASE Lose(a, b)
    BY <2>1, <2>2, <2>4, LoseOrderly
  <2> QED
    BY <1>5, <2>3, <2>4
<1> QED
  BY <1>1, <1>3, <1>4, <1>5 DEF Next

(* As long as no retransmission timer fires before the answer to its       *)
(* packet could have arrived, Timer::cancel_timer is only asked to cancel  *)
(* a timer that is pending, whatever is lost and however long the file is. *)
THEOREM OneFlowCancelsPending ==
    ASSUME NEW CONSTANT f, Flows = {f}
    PROVE  Spec => []CancelsPending
<1> DEFINE s == f.source
           d == f.destination
           n == f.packets
<1>0. OneFlow(f, s, d, n)
  BY DEF OneFlow
<1>1. Init => OrderlyInv(f)
  <2>1. Init => Orderly(s, d, n)
    <3> HIDE DEF s, d, n
    <3>1. s \in Hosts /\ d \in Hosts /\ n \in Nat
      BY <1>0, TheEnds
    <3>2. RangeOf(<<>>) = {} /\ DOMAIN <<>> = {}
      BY DEF RangeOf
    <3>3. Init => TimersMeant(s, n)
      BY DEF Init, TimersMeant
    <3>4. Init => Way(s, d) = {} /\ Way(d, s) = {} /\ AtMostOnce(n, net[<<d, s>>])
      BY <3>1, <3>2 DEF Init, Way, AtMostOnce
    <3>5. Init => OneFin(s, d, n)
      BY <3>1 DEF Init, OneFin
    <3> QED
      BY <3>3, <3>4, <3>5 DEF Orderly, Numbers, OneLastAck
  <2> QED
    BY <2>1 DEF OrderlyInv, Init
<1>2. TypeOK /\ FlowHolds(f) /\ OrderlyInv(f) /\ [Next]_vars => OrderlyInv(f)'
  <2> SUFFICES ASSUME TypeOK, FlowInv(f, s, d, n), [Next]_vars,
                      early = 0 => aborted # "cancel_timer" /\ Orderly(s, d, n)
               PROVE  early' = 0 => aborted' # "cancel_timer" /\ Orderly(s, d, n)'
    BY DEF FlowHolds, OrderlyInv
  <2> HIDE DEF s, d, n
  <2>1. CASE UNCHANGED vars
    BY <2>1, OrderlySame DEF vars, progress, timers
  <2>2. CASE Next
    BY <1>0, <2>2, OrderlyStep
  <2> QED
    BY <2>1, <2>2
<1>3. OrderlyInv(f) => CancelsPending
  BY DEF OrderlyInv, CancelsPending
<1> QED
  BY <1>1, <1>2, <1>3, FlowAlways, PTL DEF Spec
=============================================================================
