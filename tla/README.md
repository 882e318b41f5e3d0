# FDTP in TLA+

The repository holds a discrete-event network simulator (`src/netsim`) and, on top of
it, a file transfer protocol, FDTP (`src/dtp`). This directory models both in TLA+,
checks the models with TLC on small instances and proves facts about them with TLAPS.

1. [The system](#1-the-system)
2. [Plan](#2-plan)
3. [Modules and the code they model](#3-modules-and-the-code-they-model)
4. [Runs](#4-runs)
5. [Bounds](#5-bounds)
6. [Fairness](#6-fairness)
7. [Proofs](#7-proofs)
8. [What the runs found](#8-what-the-runs-found)
9. [Not modelled](#9-not-modelled)

## 1. The system

One process, one thread. `Scheduler::run` takes the earliest of the pending timers and
packet events, sets the virtual clock to its time and calls a handler, until nothing is
pending. All interleaving is an interleaving of handlers; what makes the order of handlers
hard to foresee is link delays, queue losses and timer durations.

| part | state | operations | correct when |
|---|---|---|---|
| **FDTP host** `dtp/dtpHost.cpp` | connection fields, `state`, counters, window, `re_packet_map` (copies to send again), `order_packet_map` (DATA ahead of its turn), `cookie_retranmission_timmer` (number to timer) | start of a flow, normal cookie (send what the state asks for), retransmission cookie, one receive branch per kind of packet | the file arrives complete, once, in order; copies live exactly as long as needed; no assertion is reached; every flow ends |
| **Router** `dtp/dtpRouter.cpp` | a bounded queue per neighbour, the set of sources sharing it | forward, count sources, mark the window, `send_done` | the window lies between 1 and the room in the queue; sources that stopped are not counted |
| **FIFO node** `netsim/FIFONode.cpp` | a bounded queue and `pending_send` per neighbour | `send`, `receive`, `send_it`, `send_done` | one transmission per link at a time; no queue waits at an idle link; order is kept |
| **Packet scheduler** `netsim/PacketScheduler.cpp` | multimap of completions and arrivals by time | `send_packet`, `process_packet` | equal times stay in the order of insertion; nothing is lost |
| **Scheduler, Timer** `netsim/Scheduler.cpp`, `Timer.cpp` | clock, multimap of timers by time | `run`, `set_timer`, `cancel_timer` | time never runs back; only pending timers are cancelled |
| **Topology** `netsim/Topology.cpp` | multimap of links | `add_link`, `nexthop`, delays | links are symmetric; the next hop is on a shortest path; the search ends |
| **File chunking** (in `dtpHost.cpp`) | the files on disk, one counter | `file_handling`, copies of a packet's data, `blank`, `writing` | the output is a beginning of the file; when the flow is reported complete a text is there in full |
| **Round-trip estimation** (in `dtpHost.cpp`) | `queue_for_rtt`, `rtt_in_host`, `rtt_estimation` | a sample per DATA packet, an update per ACK, the duration of every timer | the estimate does not fall below the round trip; no timer is in the past |
| **Configuration** (`Config`, `parser.y`, `app_config`) | `config_args`, `config_argnum`; the nodes and flows it creates | one command after the other | links, nodes and flows are what the file says; a consistent file runs to the end |
| **CBR application** `cbr_app/` | a counter and a timer per sender | constructor, `handle_timer`, `receive` | constant rate; ends by itself |
| **SHA-1 tools** `sha1/` | the `SHA1` object (hash words, block, length words, two flags) | `Reset`, `Input`, `Result`; the loops of `sha` and `shacmp` | digests are the standard's; `shacmp` tells equal files from others |
| **Trace scripts** `scripts/` | none | | |

How they interact:

- A host sends through `FIFONode::send`; `Node::send` hands the packet to
  `PacketScheduler::send_packet`, which schedules its arrival at the next node and the
  completion at this one. `process_packet` calls `receive` or `send_done`.
- Timers call `handle_timer` of the node. A host has two kinds: normal cookies, set for the
  present moment, and one retransmission cookie per kept packet.
- **Hosts share memory.** `dtpHost::receive` gets the object of the other end from the
  scheduler and changes it directly: it deletes copies and timers there (SYN_ACK, repeated
  DATA, ACK, FIN, FIN_ACK) and sets its state (SYN_ACK); starting a flow resets both ends.
  These effects take no time and no message, and they meet packets still under way.
- Routers write the window into every packet; the receiver returns the smallest one in its ACK.

The hard behaviour, each item with its line in `PROJECT.json` under `hazards`: losses and
repeated packets against copies deleted at the other end; timers that fire early, or twice
because an entry was replaced while its timer was pending; old ACKs after newer ones; leftovers
of one flow (copies, entries, buffered packets, samples of the round trip) met by the next; flows
that overlap at a host; windows at the edges of `unsigned short` and `short`; a map walked with an
erased iterator; an estimate taken from samples of other packets; a timer and a packet event due at the
same instant; sources a router never stops counting; a search without visited marks; arguments
that earlier commands left behind; bytes that end a string.

## 2. Plan

The order was: the protocol first, then the network it assumes, then routing, then the arithmetic,
the files around it and the tools.

| step | modules | state |
|---|---|---|
| 1 | `DtpHost`, abstract `FileTransfer`, `MCDtpHost`: the protocol between any hosts and flows over lossy FIFO channels | done |
| 2 | `DtpHostProofs`: type correctness for every value of the constants | done |
| 3 | `Network`, abstract `Channels`, `MCNetwork`: queues, links, windows, clock | done |
| 4 | `NetworkProofs`: virtual time, one completion per busy link, bounded queues, windows, for every network | done |
| 5 | `Topology`: links and `nexthop` | done |
| 6 | `EventMap`, `CbrApp`, `MCCbrApp`, and in `NetworkProofs` what they add: `Scheduler::run` over both maps with ties, driving the CBR application over `Network` | done |
| 7 | `RoundTrip`, `MCRoundTrip`: samples, estimate and timer durations in virtual time | done |
| 8 | `FileCopy`, `FileCopyProofs`: the cut of a file into packets, byte by byte | done |
| 9 | `Configuration`, `MCConfiguration`: reading a file, and the first packet of a flow over what it built | done |
| 10 | `Sha1`, `FileTools`, `MCFileTools`: the digest and the tools that compare a copy with its file | done |
| 11 | `DtpHostProofs`: for one flow, `NothingLost`, `AcksAreHonest`, `FinAfterDelivery`, `SendsAreIntended` | done |
| 12 | `DtpHostProofs`: `DtpHost` implements `FileTransfer` for one flow | done |
| 13 | `TimerProofs`: `CopiesStayTimed` for any flows, `KeptIsTimed` and `CancelsPending` for one | done |
| 14 | `TopologyProofs`: `nexthop` finds a shortest path in every topology | done |
| 15 | `ConfigurationProofs`: links, nodes, flows and routes for every file, and that a consistent file runs | done |
| 16 | `WindowsPositive` for any flows, in `DtpHostProofs` | done |
| 17 | `EventMapProofs`, `RoundTripProofs`: all safety invariants of `RoundTrip`, for every path, file and loss | done |
| 18 | `NetworkProofs`: `Network` implements `Channels`, for every network whose routes end | done |
| 19 | `FileCopyProofs`: the digests and the verdict of `FileTools`, for files of any length | done |
| 20 | `NetworkProofs`: undisturbed flows of `CbrApp` have no jitter, in every network | done |

How they compose. `DtpHost` does not contain queues. It uses one FIFO channel per ordered pair
of hosts that may drop packets, and a set of windows a path may mark a packet with. `Network`
justifies this: it implements `Channels`, which states that channel (`ActsAsChannels`), and the
windows that come out of it lie in `1 .. Capacity` (`WindowsFit`), where the field of the packet can hold the room of a router
(`RoomFits`); with capacities below half of `UShort` they are what `WindowsAlwaysPositive` asks for (`SharesFit`). `Network` in turn takes routing as
a function; `Topology` shows that `nexthop` computes one that leads hop by hop to the destination, and
`Configuration` extends `Topology` with the commands that build the links. `CbrApp` extends `Network`
with the timers and the senders of one application, and is proved to implement it.
`RoundTrip` shares `EventMap` with `Network` and takes the protocol of `DtpHost` reduced to one data
transfer, in order to add time. `FileCopy` refines the chunks of `DtpHost` into bytes, and `FileTools` puts it
together with `Sha1`: the tools read what the transfer wrote.

## 3. Modules and the code they model

### DtpHost (`src/dtp/dtpHost.cpp`)

The variables carry the names of the fields of `dtpHost`, each a function of the host. Three
things are represented differently:

- `re_packet_map` and `order_packet_map` are sets of packets with at most one per number, as
  `map::insert` leaves them.
- `cookie_retranmission_timmer` together with the timers in `Timer` is `armed` (numbers with an
  entry whose timer is pending), `stale` (numbers with an entry whose timer has fired) and
  `leaked` (a bag of pending timers that no entry refers to any more, because
  `set_retransmission_cookie` erases the entry before looking for the old timer).
- The channels `net[<<s, d>>]` stand for all queues and links from `s` to `d`.

| action | code |
|---|---|
| `StartFlow` | `handle_timer`, `new_connection` cookie |
| `NormalTimer` = `SendSyn`, `SendBurst`, `SendNothing`, `SendFin`, `SendUninitialised` | `handle_timer`, normal cookie, one disjunct per state |
| `NormalTimerDies` | `ASSERT(cwnd_host>0)` |
| `TimerStep`, `LeakedTimerStep` | `handle_timer`, retransmission cookie, from the entry's timer or one left behind |
| `Delivery` = `ReceiveSyn`, `ReceiveSynAck`, `ReceiveInOrder`, `ReceiveAhead`, `ReceiveRepeated`, `ReceiveAck`, `ReceiveFin`, `ReceiveFinAck`, `ReceiveOther` | `receive`, one disjunct per branch, with all it does at the other end |
| `ReceiveInOrderDies`, `ReceiveDies` | `ASSERT`s in `send_immediately` and `Timer::cancel_timer`, a crash of the buffer walk |
| `Lose` | a full queue on the way |

Timing is abstracted to two facts. Normal cookies are due at once, so no packet moves while one is
pending. A retransmission timer may fire at any time, early ones (while a packet is under way or
a cookie pending) counted by `MaxEarly`. Undefined behaviour is a choice: `SendUninitialised` sends
a packet whose fields, the addresses aside, have any content of `Garbage`;
`check_inorder_packets` increments an erased iterator, which in `Drains` leads to the next entry or
the end of the walk, and in `ReceiveInOrderDies` to a crash.

`FileTransfer` is the promise: a flow starts, its chunks are written in order and once, it is torn
down when all are written. The refinement maps `waiting`, `output` and `torn_down` to themselves.

### EventMap and Network (`src/netsim`, `src/dtp/dtpRouter.cpp`)

A multimap of events is the sequence of its entries, ties in order of insertion (`Schedule`);
`TimerFirst` and `PacketFirst` are the choice `Scheduler::run` makes between two of them.
`packet_map` is the multimap of `PacketScheduler`.
A link `<<n, m>>` stands for the queue of `n` towards `m`: `packet_queue`, `pending_send`, and
`source_holder` at routers. `HostSend` is `FIFONode::send` at a time not after the next packet
event; `SendDone`, `HostReceive`, `Discard`, `Relay` and `Route` are the outcomes of
`process_packet`. What the hosts send is a constant set: protocol and network are checked apart.
`TransTime` and `LinkDelay` are `link_trans_delay` and `link_delay`: the length of a packet, in bits, times the bit time of the link at hand, and that plus its
latency. `Mark` stores the share, an `int`, in the `unsigned short` of the packet (`% UShort`), which only a share above 65535 changes: 65536 becomes 0.
`Channels` is the abstract network. The refinement reads a channel off the links of a route (`AlongRoute`, which
follows `NextHop` to the destination), the last one first, of each first what travels on it (`Flying`) and then what waits in
its queue (`Waiting`). That routes end is `RoutesEndAssumption`, which holds of what `nexthop` computes.

### CbrApp (`src/cbr_app`)

`Network` with senders: `timer_map` is the multimap of `Timer`. The constructors of the senders set
their timers in the order of the file (`CbrInit`), `HandleTimer` is `process_timer` with
`CbrSender::handle_timer`, `HandlePacket` is `process_packet`. What `Network` leaves open (who sends when) is now
determined by the file. `Smooth` and `Rest`, of which `NoJitter` speaks, go over the links of a route one by one, each with its own
latency and bit time: `cbr_app/examples/bigger_dumb_bell` has routes with bit times 2, 1 and 2.

### RoundTrip (`src/dtp/dtpHost.cpp`, lines 176-201 and the durations of timers)

One data transfer in virtual time, after SYN_ACK. `SendBurst`, `SendNothing` and `Resend` are `handle_timer`;
`DataInOrder`, `DataAhead`, `DataRepeated` and `Ack` are `receive` at either end. In this part of the protocol
a kept copy, its timer and the map entry are created and deleted together, so that one event of
`timer_map` stands for all three (that this is so is `KeptIsTimed` of `DtpHost`). `Estimate` is the update of
`rtt_in_host`. `alpha` is a `float`: `Smoothed` gives the exact result of the two `ceil`s for times up to a million, where
`1 - alpha` is a little more than 0.1 and rounds a multiple of ten up. `int` arithmetic wraps (`Wrapped`). The
path is reduced to a serialising link and a constant delay each way.

### Topology (`src/netsim/Topology.cpp`) and Configuration (`Config.cpp`, `parser.y`, `app_config.cpp`)

`linkMap` gives each address the sequence of its links. `AddLink` is one Link command. `Ask`
starts a call of `nexthop`, and `Answer`, `Expand` and `Dies` are turns of its loop. Nothing else runs during a
call, so links only change between calls.

`Configuration` reads a file, a sequence of commands with arguments. `config_args` keeps what it held, as in the
code, and `AddArg` counts beyond its end into `config_argnum`, which lies behind it. There is one action per
command (`Link`, `FIFONode`, `Host`, `Router`, `FDTPFlow`, `Unknown`), one for `FATAL` and one for memory
overwritten (`Overrun`). `Run` ends the reading; then `StartFlow`, `Forward`, `Route` and `Arrive` take the first
packet of a flow from node to node until it is delivered or the program stops. Nothing in `FIFONode::send` keeps a packet for the node itself: `Forward` asks for
its way as for any other, and `nexthop(s, s)` returns a neighbour.

### FileCopy, Sha1 and FileTools (`dtpHost.cpp`, `dtpPacket.cpp`, `src/sha1`)

Bytes are numbers. `FileHandling` is what `istream::get` with the delimiter 0xff leaves in the buffer, seen as a C string;
`SendChunk` is one round of the burst, `WriteChunk` the destination passing on the packet it waits for. `FDTP`
truncates both output files.

In `Sha1` a word is the set of its one bits. Every method of class `SHA1` is an operator from object to
object; the loops of `ProcessMessageBlock` are recursive functions of their counter (`WordSequence`, `Compressed`).
The reference definition `Digest` pads the whole message first and then cuts it, as the standard says.
The two words that count the bits are numbers below `limit`, 2^32 in the code.
`FileTools` are `sha` and `shacmp`: `Invoke`, `OpenFile`, `CannotOpen`, `OpenStdin`, `ReadByte`, `EndOfFile`, `Exit`.

## 4. Runs

| run | instance | shows |
|---|---|---|
| `one_flow` | one flow of 3 packets, 2 losses, 2 early timers, windows 1, 2, 40000 (negative as `short`) and 65536 (0 as `unsigned short`) | `NothingLost`, `KeptIsTimed`, `AcksAreHonest`, `FinAfterDelivery`, `SendsAreIntended`, `CancelsPending` (without an early timer no cancellation stops the program) and that the transfer implements `FileTransfer` |
| `one_flow_ends` | the same flow, 1 loss, 1 early timer, fairness | `EveryFlowEnds`: torn down, or the program has stopped itself |
| `in_turn` | three flows among three hosts, each started when the network is quiet, 2 losses | leftovers of one flow do not corrupt the next (without early timers); the assertions on the window are not reached |
| `overlapping` | two flows to one destination at once, of 1 and of 4 packets, uninitialised packets | `CopiesStayTimed`: whatever the interference, only a FIN_ACK takes the timer of a packet that stays kept |
| `small_queues` | a - r - q - c with b behind a relay m at r; routers r and q with 4 places and 1, one slow and one distant link, packets of different lengths, `UShort` 4 | `LinksWork`, `WindowsFit`, `ClockGoesOn`, `NetworkDrains`, and that the network implements `Channels` |
| `cbr` | three senders, two of them over a slow link with one place in the queue, one over links of bit times 2, 1 and 2, at the pace the slow ones just bear, in 36 files | `TimersKeepRate`, `NothingOverdue`, `NoJitter` (a flow alone on its links arrives at a constant latency, although a timer and a completion tie) and `SimulationEnds` |
| `round_trip` | 4 packets, 4 paths (short, the whole file just within a first wait, beyond it, ACKs slower than the initial estimate), 2 losses, samples left over or not | `EstimateCovers`, `SampleAtHand`, `NothingOverdue`, `NoNeedlessResend`, `AllAcknowledged` |
| `config_file` | links among five addresses in every sequence of up to 3 of 5 commands behind two fixed ones, with fourteen ways to declare nodes and flows before or after them, three with a flow from a host to itself | `LinksSymmetric`, `LinksAsWritten` ("the last one is used"), `RoutesShortest`, `DiesOnlyApart` (the search only ends in its assertion between addresses no path joins, or for an address without links that asks for itself), `FlowsOwnAddress`, `ConsistentRuns`, `PacketArrives` |
| `files` | 16 transfers: text around one and two packets and hash blocks, bytes 0 and 0xff first or in the middle of a packet, no file; seven command lines; length words below 32 and 2^24 | `CopyIsPrefix`, `TextArrives`, `DigestIsStandard` (the definition of the digest is itself held against the two short vectors of `shatest`, the assumption `VectorsMatch`), `VerdictIsEquality` |

Three runs end in a counterexample, see [section 8](#8-what-the-runs-found). In `PROJECT.json`
every property of a passing run is paired with a variant of a definition (a dropped
guard, a missing reset, an off-by-one) under which the run does find it violated; the variants
stand in the modules as `Mutant of ...`.

Deadlock is not checked: `Scheduler::run` returns when nothing is pending, an
assertion stops the program, and the tools exit.

## 5. Bounds

- `MaxLost` bounds losses, `MaxEarly` early retransmissions. Every lost packet is brought back by
  one timer, so two losses cover: loss of a packet and of its copy, of DATA and of the ACK of
  another, of an answer and of the repeated question. Two early retransmissions put two copies of
  one packet, or copies of two, into the channels at once, and make ACKs arrive old.
- Three packets are the least with a first, a middle and a last one: the middle one may
  arrive ahead, drain and be repeated while the last one is buffered.
- `Windows = {1, 2}`: stop and wait, and the least burst in which order matters. The
  protocol compares windows and counts packets, so larger ones add packets, not cases. `one_flow`
  adds a window above the file's length, which is negative as `short`, and the share that an `unsigned short` turns into 0.
- `overlapping`: `Windows = {2, 4}` let the source of four packets send all of them, so that the FIN_ACK of the one-packet
  flow, which has number 4, can meet the last one.
- `UShort` is the real 65536 in the runs of `DtpHost`. In `small_queues` it is 4: the room of router r, 3 of its 4 places, is the largest the field can hold, so that one
  more (or a share of all 4 places) comes out as 0.
- `MaxTime = 1` in `small_queues`: hosts send at 0 or 1, and six packets of lengths 1 and 3 over a link with latency 2 and one that takes three times as long for a
  bit meet at every queue; capacities 1 and 2 make queues overflow, q's in the middle of a flow. In `cbr`, `MaxTime = 10` is behind the
  last packet of every sender.
- `round_trip` counts in thousands: the initial estimate of 50000 is 50. Four packets in windows of one and
  two give a burst of each size twice, an ACK for two packets, and an ACK without a sample. `IntSize` is 65536 in that
  unit: no sum wraps on these paths, and with a small one (256) `NothingOverdue` fails, as it does in
  the code for estimates near `INT_MAX / (cwnd + 2)`.
- `config_file`: `MaxArgs` is 4 instead of 20 and an address one of five instead of 65536, so that
  arguments beyond the array and addresses cut off happen in short files. `MaxLinks` is above the links of any
  file; `MaxBfsq` stops a search that would never end, one for a node in another component.
- `files`: packets of 32 bytes instead of `MTU` less the header, hash blocks of the real 64. The least of `LengthLimits`, 32,
  makes a message of 128 octets overflow both length words, and one of 4 carry into the second.
- Flow lengths, windows, queue sizes, latencies, bit times, payload sizes, files and configurations are arbitrary in the theorems.

## 6. Fairness

Virtual time brings every scheduled event, since `Scheduler::run` always takes the earliest. So
in `DtpHost` start timers, normal cookies (those that end in an assertion included, `NormalTimerDies`), arrivals
and left-behind timers are weakly fair. The timers of
entries are strongly fair per host and number: such a timer is re-set by every
retransmission, and the model may have to hold it back while a packet is in flight once `MaxEarly`
is used up, so it is enabled only again and again. No fairness is assumed of `Lose`.

In `Network` `ProcessPacket` is weakly fair and the hosts need not send. In `CbrApp`, `RoundTrip` and
`Configuration` the whole step is: the loop of the scheduler, or the parser, goes on as long as it can. Which of
two events is taken is never a matter of fairness there, the maps decide it. In `RoundTrip` a packet is dropped
at most `MaxLost` times, so that `AllAcknowledged` needs no fairness of the path.

`EveryFlowEnds` admits `aborted # "no"`: `ReceiveInOrderDies` is possible whenever buffered packets are drained,
and an early timer can lead to the assertion of `cancel_timer`.

## 7. Proofs

`DtpHostProofs`, for any hosts, flows, windows and bounds:

- **`TypeCorrect`**: `Spec => []TypeOK`. `TypeOK` is inductive as it stands. It says more than
  the range of fields: each map holds one packet per number (`OnePerId`), no entry
  is pending and spent at once, the bag of left-behind timers is a bag, `sender[h]` implies that `h` has a
  file, and what is written is a chunk of a flow. There is one lemma per action; lemmas on `Insert`, `Erase`,
  `Arm`, `Cancel`, `Forget`, `Sent`, `Consumed` and `Burst` carry the shared work, and the receiver's
  drain (`InOrderTyped`) rests on `ChunkTyped`, that each drained number has a packet in the buffer.
  Assumptions: `HostsAssumption`, `FlowsAssumption`, `WindowsAssumption`, `BoundsAssumption`.
- **`WindowsAlwaysPositive`**: `Spec => []WindowsPositive`, `ASSERT(pack_cwnd>0)` never fails, for any flows, overlapping or
  not, any loss and garbage. Hypothesis `SharesFit`: the windows a path may mark with are below half
  of `UShort`, that is, each path has a router, and what it writes into the field is positive as a `short`. Both are needed:
  `UShort` itself stands for a path without a router, and a larger share turns negative when it is assigned.
  `PositiveInv` adds that `cwnd_host` is positive at every host.

`DtpHostProofs` also, for one flow (`Flows = {f}`) of any length between any two hosts, for any windows, bounds and
garbage, whether or not flows may overlap:

- **`OneFlowDeliversInOrder`**: `Spec => DeliversInOrder`, the protocol implements `FileTransfer`. Start, write
  and tear-down are steps of the promise (`DataWrites`, `FinAckTearsDown`); every other step is a stutter.
- **`OneFlowLosesNothing`**, **`OneFlowAcksAreHonest`**, **`OneFlowFinishesLast`**, **`OneFlowSendsAreIntended`**:
  `NothingLost`, `AcksAreHonest`, `FinAfterDelivery` and `SendsAreIntended` are invariants.

All five follow from **`FlowAlways`**: `FlowInv` is inductive, given `TypeOK`. None of the properties is inductive alone,
because what one end deletes or sends depends on what the other end and the channels hold. `FlowInv` says that either the
flow waits and all is empty (`NotStarted`), or (`Running`): the addresses and roles of the two ends are those of `f` (`Ends`); the
state of each end fits its role, and a cookie is pending at an end only in a state with a packet to send (`Turns`);
nothing is expected beyond the number after the file and after `sent_so_far`, and FIN comes after the whole file (`Counters`); a packet on
its way forth is SYN, DATA of the file with its number, or FIN after the whole file, a packet on its way back answers
no more than is written, and in the channel forth every SYN is in front of everything else (`Path`); what is
kept or buffered is of the same kinds (`Kept`); each number up to `sent_so_far` that is not written is kept at the
source (`Needed`); the output is the file up to `packet_expected - 1` (`Written`). That SYNs come first is needed
because `receive` of SYN sets a normal cookie whatever the state: after DATA it would find the destination in
`sending_ack_listening`, where `handle_timer` has nothing to send. The restriction to one flow is needed:
with two, the copies, timers and counters of one are used by the other ([section 8](#8-what-the-runs-found)).

`TimerProofs`:

- **`CopiesAlwaysTimed`**: `Spec => CopiesStayTimed`, for any flows, bounds and garbage. Each step either leaves copies and
  timers alone, arms a timer with each copy (`ArmCovered`), deletes both by the same numbers (`ForgetCovered`), or is the
  FIN_ACK branch (`ReceiveFinAckKeeps`). A left-behind timer counts, so that the bag `leaked` is followed through `Arm` and
  `Resend`.
- **`OneFlowStaysTimed`**: with one flow `KeptIsTimed` is an invariant. By `FlowInv` a FIN_ACK only arrives at the
  source, with a number above `n + 2`, while the DATA it keeps have numbers up to `n` (`NoFinAckForFile`).
- **`OneFlowCancelsPending`**: with one flow `CancelsPending` is an invariant, `cancel_timer` is only called on a pending timer until the
  first retransmission timer fires early. Its invariant `Orderly`, added to `FlowInv`, says which timer is meant by each call: only the one of FIN
  can be pending without a copy, or spent with it gone (`TimersMeant`); FIN has the number `n + 2`, its FIN_ACK `n + 3` and the last ACK `n + 1`
  (`Numbers`); one FIN is sent (`OneFin`), and the last ACK is under way at most once, and not any more when the
  source has answered it with FIN (`OneLastAck`). Until a timer fires early a resend only happens when nothing is under
  way in either direction (`Stalled`), so that it cannot double a packet: `RetransmissionOrderly`.

`EventMapProofs` holds what is true of every multimap of events, whatever they are; the proofs about networks and round trips use it. The core
lemmas are `DueFirst` (in an ordered map the events due by a time are a prefix; this
rests on the least element of a set of numbers) and `ScheduleShape` (inserting splits the map there), from which `ScheduleHolds` and `TailHolds` say that
inserting an event or taking the first keeps the order, the other events and `Single`, that at most one
event belongs to a given set. `ScheduleAll` and `Kept` are folds; `Building` describes a fold by the pairs of a set still to come
and a map so far, and `BuildingKeeps`, by `InductionOnSet`, carries a property from one to the next: `ScheduleAllHolds`, `KeptHolds`.

`NetworkProofs`, for any nodes, links, latencies, bit times, capacities, routing and packets:

- **`LinksAlwaysWork`**: `Spec => []LinksWork`, **`TimeGoesOn`**: `Spec => ClockGoesOn`,
  **`NetworkTyped`**: `Spec => []TypeOK`. None of the three is inductive alone. The invariant `IInv` adds that the
  multimap is in order of time, that no event lies before the clock, that a link has at
  most one completion scheduled, and that the links with one are those in `pending_send`. Order
  is what makes the clock go on: `set_clock` takes the time of the first event, and the rest are
  no earlier. The core lemmas are `ScheduleOK` (inserting keeps the order and adds at
  most one completion), `TakeFirst` (removing the first event), `SendItOK` and `EnqueueOK`; the actions follow
  from these. Assumptions: `NodesAssumption`, `RoutingAssumption`, `TimesAssumption`, `PacketsAssumption`.

For any such network with a finite number of routers:

- **`WindowsAlwaysFit`**: `WindowsFit` is an invariant when routing takes every packet to a router before any
  host other than its source (`RoutersBetween`) and each router's room fits an unsigned short (`RoomFits`); `MCNetwork` assumes both of its instance and TLC evaluates them.
  `RoomFits` is needed: a queue of 65537 places leaves 65536 to a single source, which the packet carries as 0 ([section 8](#8-what-the-runs-found)). The invariant
  `WInv` says of every packet, in a queue or on a link, that its window fits or that the link leads on to a
  router; `MarkFits` is the arithmetic of the share, `GreatestCapacity` that a largest queue exists.

For any such network, finite or not, whose routes end:

- **`NetworkIsChannels`**: `Spec => ActsAsChannels`, the network implements `Channels`: packets from one node to another may be
  dropped, but are neither reordered nor duplicated. Together with `DtpHostProofs` this says that the protocol is right over the
  network it has. The invariant `PathInv`, added to `IInv`, says that every packet, in a queue or on a link, is
  on the route of its addresses (`Routed`; the route is the least set of nodes closed under `NextHop`, `RouteFrom`), and that on each link packets arrive
  in the order they were sent (`InOrder`): an arrival is no later than the end of the transmission under way
  plus the latency, so that a packet sent from now on cannot overtake it, whatever the lengths.
  What is on a link for a pair of addresses is `Flights`; `AlongRoute` puts it together.
  Since the routes end, a property of the destination that passes from each next hop to its node holds of all nodes (`BackFromEnd`);
  this gives that the recursive definition of `AlongRoute` means something (`RouteFunction`, `AlongRouteSums`) and that no route
  comes back to a node (`NoReturn`). Then there is one lemma for each change: a packet put on the first link comes last (`AddedAlong`), one taken
  from the last link was first (`TakenAlong`), one that goes from a link to the next keeps its place (`ShiftedAlong`), one lost on the
  way is lost from the channel (`LostAlong`). `SendItFlows`, `EnqueueFlows` and `FirstFlows` say which of these the steps of the code are. That
  `Flying` and `Waiting` follow the sequences they are taken from is shown of `Kept` in `EventMapProofs` (`ChosenSchedule`, `ChosenAppend`, `ChosenTail`).
  Additional assumption: `RoutesEndAssumption`.

`NetworkProofs` also, for any network and any configuration of senders:

- **`CbrImplementsNetwork`**: `CbrSpec => Spec`, each step of the application is one of `Network`; so all that `NetworkProofs` shows
  holds of it. **`TimersAlwaysKeepRate`** and **`NeverOverdue`**: `TimersKeepRate` and `NothingOverdue`
  are invariants. `CbrInv` adds to `IInv` that both maps are in order, that no timer lies before the clock, and
  that each sender with packets left has one timer, at its due time. The tie matters: `HandleTimer` may only set the clock
  to the time of the first timer because no packet event is due before it. Additional assumption: `ConfigsAssumption`.
- **`FlowsWithoutJitter`**: `CbrSpec => NoJitter`, in every network whose routes end. `SmoothInv`, added to `PathInv` and `CbrInv`, says that every
  packet in the network is some sender's, and of a flow that has its links for itself, pauses no less than a transmission takes on each of them and has room at every
  node (`Smooth`) that it is on course (`OnCourse`). That is: of its packets the first are received, and the rest are in the channel, with none missing
  (`Consecutive`); each of those is where its pace wants it (`Paced`): the time it comes to a node, and what is left of its way (`Rest`), make the time it was due
  and the delays of its links; and none comes twice to a node (`Once`). A packet may only wait in a queue while the transmission before it ends in the same
  instant (`WaitEnds`), which is the tie of timer and completion; so one that comes to a node finds its queue empty and is not dropped (`EnqueueCalm`). There is
  one lemma for what a step does to the flow it is about and one for what it does to the others, whose links it does not touch
  (`EnqueueOther`). The steps on the channels are those of `NetworkIsChannels`, from which the order of the packets comes.

`TopologyProofs`, for any addresses and any order of links and calls:

- **`TopologySymmetric`**: a pair of addresses has at most one link, the same one seen from both ends. The
  invariant `LinksInv` speaks of every list of neighbours separately: what removing the first match and
  appending leave of the links to each neighbour (`Same`, `Sole`, `None`, `Has`).
- **`SearchFindsShortest`**: `RoutesShortest` is an invariant, the hop a call returns starts a shortest path; a node that asks for the way to itself gets a neighbour (`Returns`). The code has no visited
  marks, so that the queue may hold an address many times. `Searches` says what the queue looks like in the middle of a call:
  for some `k` its first elements are within `k` links of the destination, where the search starts, and the rest within `k + 1`;
  the source is not within `k`; what has been expanded (`Seen`) is not linked to the source, and its neighbours are expanded or wait in
  the queue; and all addresses within `k` are expanded or among the first. `LeastIs` and `DistanceIs` tie this to the distance `Distance`
  of `RoutesShortest`, the least number of a set; facts on all numbers of
  steps (`WithinSteps`) come from `InductionOnSet`, that a set of numbers with 0 and closed under successor is `Nat`.
- **`SearchDiesOnlyApart`**: `DiesOnlyApart` holds, the search ends in `ASSERT(false)` only when no path of at least one link
  leads from source to destination (`Apart`). **`TopologyTyped`**: `TypeOK`.

`ConfigurationProofs`, for any files and whatever `config_args` held before:

- **`LinksStaySymmetric`**, **`LinksAlwaysAsWritten`**: while a file is read the links are symmetric and, of each pair, the last
  Link command that names it counts. `WrittenInv` follows the commands read so far. `ReadArgsAll` says what `config_args` holds
  after the arguments of a command, by induction over the fold that stands for the loop of the parser.
- **`FlowsKeepTheirNode`**: a flow's timer belongs to the node that gets the packets of its source, or to no node. `FlowsInv`
  says besides that a registered class never changes.
- **`ConsistentFilesRun`**: `ConsistentRuns` is an invariant: when every command has its arguments, nodes come before
  flows, flows join two different hosts and hosts are linked through routers, the first packet of a flow meets no assertion, crash or FATAL, except the end of the search for a host that no path leads to. `NodesInv`
  says which commands the nodes come from, `ConsistentInv` adds that every flow has its node and another destination, and that `nexthop` is only asked at nodes other than the destination, and `HopClass` that a hop on
  a shortest path has a node, which is no host unless it is the destination.
- **`ConfiguredRoutesShortest`**, **`ConfiguredDiesOnlyApart`**, **`ConfiguredTyped`**: what holds of `Topology` holds when
  its links come from a file. Each step is shown to be one of `Topology` or to leave it alone.

The last four have the hypothesis `AnyCost`, that the costs of `Topology` include every pair of integers: a file may give a link any
numbers, and leftovers in `config_args` do. The costs of the run satisfy it. The assumption `4 <= MaxArgs` on the array is
met by the code's `CONFIG_MAX_ARGS`, 20.

`FileCopyProofs`, for any file, payload size and leftovers, and any command lines of the tools:

- **`CopyAlwaysPrefix`** and **`TextAlwaysArrives`**: `CopyIsPrefix` and `TextArrives` are invariants, from **`CopyInvariant`**. `CopyInv` says that the
  packets sent are the cut of the file into payloads (`SentRight`), that every packet before the last one is full (so
  that no stopping byte came before, `QuietBefore`) and that the output is the first
  `(packet_expected - 1) * PayloadSize` bytes, or all of the text once complete (`OutputRight`). Assumptions:
  `PayloadAssumption`, `CasesAssumption`.
- **`DigestAlwaysStandard`**: `ToolsSpec => []DigestIsStandard`, for files of any length and length words of any size that is a multiple of 8.
  The digest of the standard is over the message padded as a whole; `Input` hashes a block as soon as it is full. `HashedBlock` says that
  the hash of whole blocks is the one of all but the last, followed by the last (a recursive function agrees with its
  equation up to the least number where it would not, `LeastOf`). `Took` is the invariant of the object: the full blocks of the message are hashed, the rest waits in
  `block`, and the two length words hold the number of bits, or `corrupted` says that they cannot. `ResetTook` and `InputTakes` keep it (the carry
  from one length word into the other is `CountStep`), and `ResultIs` says what it gives at the end: `PadMessage` with one block or with two comes to
  `Padded` (`PaddedIs`, `PaddedWords`). `ToolsInv` ties this to the loops of the tools: the object took the first `at` bytes of the open file
  (`ReadingRight`), and the digests so far are right (`DigestsRight`). The tools start when the transfer is over, so no step changes
  a file that is being read (`AfterTransfer`).
- **`VerdictAlwaysEquality`**: `ToolsSpec => [](DigestsDiffer => VerdictIsEquality)`. `CompareRight` says that `shacmp` has the digests of the files it is done
  with in their order, and that the exit status is what the digests of the standard say (`Verdict`). The hypothesis `DigestsDiffer`, that no two of the
  files at hand have the same digest and different bytes, cannot be left out: a hash has collisions. TLC checks `VerdictIsEquality` itself on the files of the run.
  Assumptions of both: `LimitsAssumption`, `CommandsAssumption` and those of `CopyInvariant`. What `Compressed` computes of a block is not analysed, only
  held against the vectors of `shatest`.

`RoundTripProofs`, for any paths, windows, file length, leftover samples and number of losses:

- **`SampleAlwaysAtHand`**: `SampleAtHand` is an invariant, an ACK that finds `queue_for_rtt` empty finds an `rtt_estimation` that
  was written. `SampleInv` is enough beside the types: without either nothing was sent yet.
- **`NeverOverdue`**: `Spec /\ []NoOverflow => []NothingOverdue`, no timer and no arrival is ever in the past. `NoOverflow` says that the times at which
  timers may be set at this moment are below half of `IntSize`, as they are in every state of `round_trip`; without it `int` arithmetic
  does set timers in the past ([section 8](#8-what-the-runs-found)). `TimeInv` adds that no estimate is negative and no sample is later than the clock: a sample
  in the future would make the estimate negative, which would set the next timer in the past. `FirstOfAll` says that the event `Scheduler::run` takes is
  the earliest of both maps. Assumptions: `PathsAssumption`, `SizesAssumption`, `LeftoversAssumption`.
- **`EstimateAlwaysCovers`**: `Spec /\ []NoOverflow => []EstimateCovers`, the estimate stays at or above the shortest round trip (or the first estimate,
  when that is smaller) if the way back is shorter than the first estimate. What has to be shown is that `process_ack` never takes the sample of a packet
  that was sent less than a round trip ago. The invariant `Covered` says, beside the property: a packet that is on its way or has arrived, or that an ACK on its
  way answers, was sent the corresponding part of the round trip ago (`OutwardInv`, `ReceivedInv`, `AnswerInv`); an ACK on its way is the only one
  of its number, has its copy at the destination, and arrives before the copy is sent again (`CopyInv`: a copy waits for at least the first estimate,
  hence the condition on the way back); a sample left over from an earlier flow is from before time 0 (`Estimates`).
  `CountInv` then counts: fewer samples are used up than numbers are answered, even with all ACKs still to come; and when packet
  `m` is too new to have been answered, its sample is not taken by any of the ACKs up to number `m`. An ACK that is lost, or deletes the copies of others, uses up
  fewer samples than the packets it answers, so that the queue only gets longer. `UptoAdd` and `UptoRemove` are the facts on the cardinality of the pending ACKs,
  `StepSteady` carries what is known of samples over any step.
- **`NeverNeedlessResend`**: `Spec /\ []NoOverflow => []NoNeedlessResend`, without a loss no DATA packet is sent twice, if the way back is shorter than the
  first estimate and the file so short that all of it could queue up within the least wait, three times the estimate `EstimateCovers` speaks of. `Prompt`, added to
  `Covered`, says that the packets the destination has not got are on their way in order, also those that arrive at the same time (`InOrderInv`, with
  the lemmas on `InTurn` in `EventMapProofs`: a multimap puts an event behind those of the same time); that the link is idle again after what was sent (`QueueInv`);
  and that for each copy its packet arrives more than the way back before the copy fires, or an ACK with its number arrives before (`AnsweredInv`).
  So the events that would disturb this, DATA ahead or behind and the timer of a DATA packet, never come first.

Only model-checked: what `in_turn` shows of two flows one after the other. A theorem about several flows would need a
restriction of its own on them, as the counterexamples show (`in_turn_cancel` is one to `CancelsPending`). Also
that `Compressed` is the function of the standard, for which there are only test vectors (`VectorsMatch`); and every liveness property, which the provers cannot do under fairness.

## 8. What the runs found

| run | what happens |
|---|---|
| `in_turn_cancel` | `CancelsPending` fails: a flow of two packets from 1 to 2, then one of one packet from 1 to 3. `receive` of FIN deletes the copy at the source but not its timer entry; the timer fires, the entry stays; the FIN_ACK of the second flow has that number and `Timer::cancel_timer` "must have been called on a non-existent timer, so die". No loss is needed. |
| `in_turn_torn_down` | `TornDownIsDone` fails: the last ACK comes twice, so there are two FINs; one is lost and its copy stays. The next flow's DATA of that number is not stored over it, is lost, and the timer sends the old FIN instead: the flow is torn down without its packets. |
| `idle_sources` | `NoIdleSources` fails: FIN follows the packet that took its source out of a router's set and puts it back, so later flows get a smaller share. |

Not violations of something the repository states, but worth knowing:

- Without a router on the path the window of DATA is 0 and `ASSERT(pack_cwnd>0)` stops the program. Two flows to one
  host at a time reach "SHOULDN't come here" and send an unfilled packet. `DtpHost` contains both behaviours.
- A file with a byte 0 or 0xff is cut off there and reported complete (`TextArrives` says exactly how much
  arrives); `compare.sh` would then find the files different.
- Once an ACK takes longer than the initial estimate to come back, the destination sends it again, the second
  one takes a sample that belongs to a later packet, and the estimate may fall to almost nothing: `EstimateCovers` and
  `NoNeedlessResend` hold only for paths whose way back is shorter.
- Longer files are sent again without need on a slow link, although nothing is lost: each ACK starts a burst, so with windows above 1 the queue
  of the link grows, while a copy waits for `cwnd_host + 2` estimates and the estimate follows slowly. One path with `length` 100, `there` 1
  and `back` 45 is enough for the instance of `round_trip`, so that `NoNeedlessResend` has to bound the file, not only the round trip.
- `KeptIsTimed` does not hold when flows overlap: the FIN_ACK of a flow of one packet has number 4, and `receive` cancels
  the timer of whatever packet the host keeps as number 4, a DATA packet of the other flow. That packet
  stays in `re_packet_map` and is never sent again. `CopiesStayTimed` says that no other branch does this; in the
  instance of `overlapping` the exception occurs.
- `rtt_in_host*(cwnd_host+2)` overflows an `int` for large estimates and sets a timer in the past.
- A CBR sender configured with no packets sends one.
- A router whose queue has 65537 places writes the window 0 into the packets of a single source: the share 65536 does not fit the field. The next router takes it for unmarked;
  without one `ASSERT(pack_cwnd>0)` stops the program. In `small_queues`, a fifth place in r (with `UShort` 4) violates `WindowsFit`.
- A flow from a host to itself leaves the host: its packet goes to the first neighbour, a router sends it back, a host takes it as its own, and without a link the search ends in
  `ASSERT(false)`. `Consistent` excludes such files, `config_file` has some.

## 9. Not modelled

- Overflow of `Time`, an `int`, in `Network` and `CbrApp` (`length * 8 * bit_time` included); `RoundTrip` models it. Flows from a host to itself in `DtpHost`, `Network` and `CbrApp`;
  only `Configuration` has them.
- Traces, except "Tore down FDTP flow" (`torn_down`), and the scripts that read them. `process_packet` reads fields of a packet it has
  deleted, for a trace only.
- The characters of a configuration file (tokens, comments, hexadecimal numbers, strings longer than the
  token's buffer) and the generated `lex.yy.c` and `parser.cpp`; the options of the command line.
- The third test vector of `shatest`, a million octets, which is out of TLC's reach.
- Older copies of sources (`*~`) and the headers under `docs/STL_doc`, which are a copy of the standard library's
  documentation. These and the generated parser are about four fifths of the lines in the repository.
