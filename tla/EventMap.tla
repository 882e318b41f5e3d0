------------------------------- MODULE EventMap -------------------------------
(***************************************************************************)
(* The multimaps of Scheduler: timer_map of Timer and packet_map of        *)
(* PacketScheduler.  A map is the sequence of its events, records with a   *)
(* field time, in the order in which the scheduler takes them.             *)
(***************************************************************************)
EXTENDS Integers, Sequences, FiniteSets, SequencesExt

\* Mutant of Schedule: a new event goes to the end.
ScheduleLast(map, e) == Append(map, e)

\* A multimap keyed by time: behind the events due no later.
Schedule(map, e) ==
    InsertAt(map, 1 + Cardinality({i \in DOMAIN map : map[i].time <= e.time}), e)

\* What erasing the other events leaves: those at the positions in I.
Kept(map, I) ==
    MapThenFoldSet(LAMBDA e, m : Append(m, e), <<>>, LAMBDA i : map[i],
                   LAMBDA S : Max(S), I)

\* The events at[i] for the numbers i in I, one after the other.
ScheduleAll(map, at, I) ==
    MapThenFoldSet(LAMBDA e, m : Schedule(m, e), map, LAMBDA i : at[i],
                   LAMBDA S : Max(S), I)

\* next_timer and next_packet: -1 tells that there is no event.
NextTime(map) == IF map = <<>> THEN -1 ELSE Head(map).time

\* Scheduler::run takes a timer unless a packet is due before it.
TimerFirst(timers, packets) ==
    /\ NextTime(timers) # -1
    /\ NextTime(packets) # -1 => NextTime(timers) <= NextTime(packets)

\* Mutant of PacketFirst: a packet need not wait for the timers.
PacketAnyway(timers, packets) == NextTime(packets) # -1

PacketFirst(timers, packets) ==
    /\ NextTime(packets) # -1
    /\ NextTime(timers) # -1 => NextTime(packets) < NextTime(timers)
=============================================================================
