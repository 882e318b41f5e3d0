---------------------------- MODULE Configuration ----------------------------
(***************************************************************************)
(* Reading a configuration file (class Config with the commands of dtp)    *)
(* and what the simulation then makes of it: the path of the first packet  *)
(* of each flow over the configured nodes and links.                       *)
(*                                                                         *)
(* A number in a command is a natural number; a string in quotes, whose    *)
(* pointer shares the memory of the numbers, is a negative one.            *)
(***************************************************************************)
EXTENDS Topology

CONSTANTS
    Files,          \* configuration files: sequences of [id, args]; the id
                    \* "error" stands for a syntax error, after args were read
    MaxArgs,        \* CONFIG_MAX_ARGS
    AddressSize,    \* number of values of an Address, 2^16
    Garbage         \* what a config_args that was never written may hold

ASSUME ConfigurationAssumption ==
    /\ MaxArgs \in Nat /\ 4 <= MaxArgs /\ AddressSize \in Nat \ {0} /\ Garbage \subseteq Int
    /\ Addresses = 0 .. AddressSize - 1
    /\ Files \subseteq Seq([id : STRING, args : Seq(Int)])

VARIABLES
    file, line,     \* the file, and the command to read next
    config_args, config_argnum,
    node_map,       \* addresses with a registered node, and its class
    flows,          \* FDTPFlow timers: [source, destination, start, node]
    mode,           \* "reading", "running", or why the program stopped
    packet          \* <<flow, node>>: the first packet of a flow at a node

config == <<file, line, config_args, config_argnum>>
confVars == <<vars, config, node_map, flows, mode, packet>>

-----------------------------------------------------------------------------
(* Arguments                                                               *)

\* add_arg.  The number behind config_args is config_argnum itself: one
\* argument too many overwrites it and is counted; what more arguments, or a
\* string there, overwrite is lost.
AddArg(st, v) ==
    CASE st.num \in 0 .. MaxArgs - 1  -> [args |-> [st.args EXCEPT ![st.num + 1] = v],
                                          num |-> st.num + 1]
      [] st.num = MaxArgs /\ v >= 0   -> [st EXCEPT !.num = v + 1]
      [] OTHER                        -> [st EXCEPT !.num = -1]

\* The actions of the rules for arglist.
ReadArgs(args) ==
    FoldLeft(AddArg, [args |-> config_args, num |-> config_argnum], args)

AsAddress(v) == v % AddressSize

\* How many arguments a command takes.
ArgCount == [Link |-> 4, FIFONode |-> 2, Host |-> 1, Router |-> 2, FDTPFlow |-> 4]

-----------------------------------------------------------------------------
(* Commands                                                                *)

ConfInit ==
    /\ Init
    /\ file \in Files /\ line = 1
    /\ config_args \in {[i \in 1 .. MaxArgs |-> g] : g \in Garbage}
    /\ config_argnum = 0
    /\ node_map = <<>> /\ flows = <<>>
    /\ mode = "reading" /\ packet = <<>>

\* Mutant of Register: the last node with an address gets its packets.
RegisterLast(a, class) ==
    [x \in DOMAIN node_map \cup {a} |-> IF x = a THEN class ELSE node_map[x]]

\* The constructor of Node, register_to_receive: the first node with an
\* address stays the one that gets its packets.
Register(a, class) ==
    [x \in DOMAIN node_map \cup {a} |-> IF x \in DOMAIN node_map THEN node_map[x] ELSE class]

\* The arguments of the next command are read; st tells what they left.
Reads(id, st) ==
    /\ mode = "reading" /\ line <= Len(file)
    /\ file[line].id = id
    /\ st = ReadArgs(file[line].args)
    /\ st.num # -1

\* Mutant of Done: the arguments stay counted.
DoneKeeps(st) ==
    /\ line' = line + 1
    /\ config_args' = st.args
    /\ config_argnum' = st.num
    /\ UNCHANGED <<file, packet>>

\* process_command is done with them.
Done(st) ==
    /\ line' = line + 1
    /\ config_args' = st.args
    /\ config_argnum' = 0
    /\ UNCHANGED <<file, packet>>

\* Link and FIFONode: another number of arguments is only reported, and
\* what earlier commands left in config_args is used for the missing ones.
Link(st) ==
    /\ Reads("Link", st) /\ Done(st)
    /\ AddLink(AsAddress(st.args[1]), AsAddress(st.args[2]),
               [plat |-> st.args[3], bit_time |-> st.args[4]])
    /\ UNCHANGED <<node_map, flows, mode>>
FIFONode(st) ==
    /\ Reads("FIFONode", st) /\ Done(st)
    /\ node_map' = Register(AsAddress(st.args[1]), "FIFONode")
    /\ UNCHANGED <<vars, flows, mode>>

Host(st) ==
    /\ Reads("Host", st) /\ Done(st)
    /\ st.num = ArgCount.Host
    /\ node_map' = Register(AsAddress(st.args[1]), "Host")
    /\ UNCHANGED <<vars, flows, mode>>
Router(st) ==
    /\ Reads("Router", st) /\ Done(st)
    /\ st.num = ArgCount.Router
    /\ node_map' = Register(AsAddress(st.args[1]), "Router")
    /\ UNCHANGED <<vars, flows, mode>>

\* get_node: the class of the node an address has, or NULL.
ClassOf(a) == IF a \in DOMAIN node_map THEN node_map[a] ELSE "NULL"

\* FDTPFlow: the timer is set for the node its source has by now.
FDTPFlow(st) ==
    /\ Reads("FDTPFlow", st) /\ Done(st)
    /\ st.num = ArgCount.FDTPFlow
    /\ LET s == AsAddress(st.args[1])
           flow == [source |-> s, destination |-> AsAddress(st.args[2]),
                    start |-> st.args[3], node |-> ClassOf(s)]
       IN  flows' = Append(flows, flow)
    /\ UNCHANGED <<vars, node_map, mode>>

\* No such command: nothing but the arguments is read.
Unknown(st) ==
    /\ mode = "reading" /\ line <= Len(file)
    /\ file[line].id \notin DOMAIN ArgCount \cup {"error"}
    /\ Reads(file[line].id, st) /\ Done(st)
    /\ UNCHANGED <<vars, node_map, flows, mode>>

\* The other three commands insist on their number of arguments.
Fatal(st) ==
    /\ \E id \in {"Host", "Router", "FDTPFlow"} : Reads(id, st) /\ st.num # ArgCount[id]
    /\ mode' = "arguments"
    /\ UNCHANGED <<vars, config, node_map, flows, packet>>

\* Memory that is not an argument was overwritten.
Overrun ==
    /\ mode = "reading" /\ line <= Len(file)
    /\ ReadArgs(file[line].args).num = -1
    /\ mode' = "overrun"
    /\ UNCHANGED <<vars, config, node_map, flows, packet>>

\* The end of the file, or a syntax error, which yyparse reports and main
\* does not look at: the scheduler runs.
Run ==
    /\ mode = "reading"
    /\ line <= Len(file) => file[line].id = "error"
    /\ mode' = "running"
    /\ UNCHANGED <<vars, config, node_map, flows, packet>>

-----------------------------------------------------------------------------
(* The run                                                                 *)

Stop(why) ==
    /\ mode' = why
    /\ UNCHANGED <<vars, config, node_map, flows, packet>>

\* handle_timer of a new connection, at the source's node: get_node finds
\* the destination's fields to set, and SYN is sent.
StartFlow(i) ==
    LET flow == flows[i]
    IN  /\ mode = "running" /\ packet = <<>>
        /\ \/ /\ flow.node = "Host" /\ ClassOf(flow.destination) = "Host"
              /\ packet' = <<flow, flow.source>>
              /\ UNCHANGED <<vars, config, node_map, flows, mode>>
           \/ /\ \/ flow.node = "NULL"
                 \/ flow.node = "Host" /\ ClassOf(flow.destination) # "Host"
              /\ Stop("bad_node")

\* FIFONode::send and dtpRouter::receive ask for the next hop, also of a node
\* to itself.
Forward ==
    /\ mode = "running" /\ packet # <<>> /\ answer = <<>>
    /\ Ask(packet[2], packet[1].destination)
    /\ UNCHANGED <<config, node_map, flows, mode, packet>>

\* process_packet: the next node takes the packet; a host keeps it.
Arrive ==
    /\ mode = "running" /\ packet # <<>> /\ answer # <<>>
    /\ packet' = [packet EXCEPT ![2] = answer[3]]
    /\ answer' = <<>>
    /\ mode' = IF ClassOf(answer[3]) = "NULL" THEN "no_node"
               ELSE IF answer[3] = packet[1].destination THEN "delivered"
               ELSE IF ClassOf(answer[3]) = "Host" THEN "taken"
               ELSE "running"
    /\ UNCHANGED <<linkMap, commands, query, bfsq, aborted, config, node_map, flows>>

Route ==
    /\ mode = "running"
    /\ Search
    /\ UNCHANGED <<config, node_map, flows, mode, packet>>

Command ==
    \/ \E st \in IF mode = "reading" /\ line <= Len(file)
                 THEN {ReadArgs(file[line].args)} ELSE {} :
          Link(st) \/ FIFONode(st) \/ Host(st) \/ Router(st) \/ FDTPFlow(st)
             \/ Unknown(st) \/ Fatal(st)
    \/ Overrun

ConfNext ==
    \/ Command
    \/ Run
    \/ \E i \in DOMAIN flows : StartFlow(i)
    \/ Forward
    \/ Route
    \/ Arrive

ConfSpec == ConfInit /\ [][ConfNext]_confVars /\ WF_confVars(ConfNext)

-----------------------------------------------------------------------------
(* Properties                                                              *)

\* The file says what it means: known commands with their arguments, each
\* address within the range of an Address.
WellFormed ==
    \A i \in DOMAIN file :
        LET c == file[i]
        IN  /\ c.id \in DOMAIN ArgCount /\ Len(c.args) = ArgCount[c.id]
            /\ \A k \in DOMAIN c.args : c.args[k] < 0 <=> c.id = "FDTPFlow" /\ k = 4
            /\ c.args[1] < AddressSize
            /\ c.id \in {"Link", "FDTPFlow"} => c.args[2] < AddressSize

ReadLines(ids) == {i \in 1 .. line - 1 : file[i].id \in ids}

\* "If duplicate link entries are specified, the last one is used": the links
\* are those of the file, at the costs of the last command for the two nodes.
LinksAsWritten ==
    WellFormed =>
        \A s, d \in Addresses : s # d =>
            LET mine == {i \in ReadLines({"Link"}) :
                           {file[i].args[1], file[i].args[2]} = {s, d}}
            IN  /\ HasLink(linkMap, s, d) <=> mine # {}
                /\ mine # {} =>
                     FindLink(linkMap, s, d).cost =
                        [plat |-> file[Max(mine)].args[3],
                         bit_time |-> file[Max(mine)].args[4]]

\* The timer of a flow is set for the node that gets the packets of its
\* source, wherever else in the file the address is used again.
FlowsOwnAddress ==
    \A i \in DOMAIN flows : flows[i].node \in {"NULL", ClassOf(flows[i].source)}

\* A file a reader would call consistent: a flow joins two different hosts, its
\* source declared above it, and all nodes with links are declared, the ones
\* between hosts not as hosts.
Declares(a, ids) ==
    LET mine == {i \in DOMAIN file : file[i].id \in {"Host", "Router", "FIFONode"}
                                     /\ file[i].args[1] = a}
    IN  IF mine = {} THEN 0 ELSE IF file[Min(mine)].id \in ids THEN Min(mine) ELSE 0
Consistent ==
    /\ WellFormed
    /\ \A i \in DOMAIN file : file[i].id = "FDTPFlow" =>
         /\ Declares(file[i].args[1], {"Host"}) \in 1 .. i
         /\ Declares(file[i].args[2], {"Host"}) # 0
         /\ file[i].args[1] # file[i].args[2]
    /\ \A i \in DOMAIN file : file[i].id = "Link" =>
         \A k \in {1, 2} :
            \/ Declares(file[i].args[k], {"Router", "FIFONode"}) # 0
            \/ /\ Declares(file[i].args[k], {"Host"}) # 0
               /\ \A j \in DOMAIN file :
                    file[j].id = "Link" /\ file[i].args[k] \in {file[j].args[1], file[j].args[2]}
                       => {file[j].args[1], file[j].args[2]} = {file[i].args[1], file[i].args[2]}

\* A consistent file stops the program at no assertion, crash or FATAL, and no
\* packet ends at a host it is not for; only a host without a route to the
\* other one is the end of the search.
ConsistentRuns ==
    Consistent => mode \in {"reading", "running", "delivered"}

\* Its packet gets to its destination, where there is a way.
PacketArrives ==
    (Consistent /\ packet # <<>> /\ Connected(packet[1].source, packet[1].destination))
        ~> mode = "delivered"
=============================================================================
