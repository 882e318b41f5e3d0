------------------------------ MODULE FileCopy ------------------------------
(***************************************************************************)
(* The bytes of a transfer: how the source cuts its file into the data of  *)
(* DATA packets (file_handling) and how the destination appends them to    *)
(* its output file (writing, writing2).                                    *)
(*                                                                         *)
(* A byte is a number from 0 to 255.  The data of a packet is a C string:  *)
(* every function that looks at it stops at the first 0.  Packets arrive   *)
(* again, late or never; that they are written in order and once each is   *)
(* what DtpHost checks, here the destination waits for the next one.       *)
(***************************************************************************)
EXTENDS Integers, Sequences, SequencesExt

CONSTANTS
    PayloadSize,    \* bytes of data in a full packet, MTU - sizeof(dtpPacket)
    NoFile,         \* what a name stands for that cannot be opened
    Cases           \* [file, receiver, left]: the file, the address of its
                    \* destination, the output files left by an earlier run

Byte == 0 .. 255
Eof == 255          \* EOF as the char delimiter of istream::get
write_host == 8
write_host2 == 9
Outputs == {"output.txt", "output1.txt"}

ASSUME PayloadAssumption == PayloadSize \in Nat \ {0}
ASSUME CasesAssumption ==
    /\ NoFile \notin Seq(Byte)
    /\ \A c \in Cases : /\ c.file \in Seq(Byte) \cup {NoFile}
                       /\ c.left \in Seq(Byte)

VARIABLES
    receiver,           \* address of the destination
    disk,               \* name -> contents
    commanded,          \* has the FDTPFlow command been run?
    sent_so_far, done_transmission,
    sent,               \* DATA packets sent so far, copies may still arrive
    packet_expected,
    complete            \* the destination has passed on the last packet

cvars == <<receiver, disk, commanded, sent_so_far, done_transmission, sent,
           packet_expected, complete>>

-----------------------------------------------------------------------------
\* The elements of s before the first one in stops.
Before(s, stops) ==
    LET at == {i \in DOMAIN s : s[i] \in stops} \cup {Len(s) + 1}
    IN  SubSeq(s, 1, (CHOOSE i \in at : \A j \in at : i <= j) - 1)

\* The C string that starts at s: strlen, strcpy and fwrite end at its NUL.
CString(s) == Before(s, {0})

\* Up to n bytes of the file after the first from.
Read(file, from, n) ==
    SubSeq(file, from + 1, IF from + n < Len(file) THEN from + n ELSE Len(file))

\* file_handling: get reads up to the delimiter, which it leaves unread.
FileHandling(file, packet_no) ==
    CString(Before(Read(file, packet_no * PayloadSize, PayloadSize), {Eof}))

\* Mutant of IsLast: the rest of a file is the last packet even when full.
IsLastOrFull(data) == data = NoFile \/ Len(data) <= PayloadSize

IsLast(data) == data = NoFile \/ Len(data) < PayloadSize

Init ==
    \E c \in Cases :
        /\ receiver = c.receiver
        /\ disk = [name \in Outputs \cup {"hello.txt"} |->
                      IF name = "hello.txt" THEN c.file ELSE c.left]
        /\ commanded = FALSE
        /\ sent_so_far = 0
        /\ done_transmission = FALSE
        /\ sent = {}
        /\ packet_expected = 1
        /\ complete = FALSE

\* Mutant of Blank: one of the two output files is forgotten.
BlankOne(files) == [files EXCEPT !["output.txt"] = <<>>]

\* blank: both output files are truncated, whoever the flow is for.
Blank(files) ==
    [name \in DOMAIN files |-> IF name \in Outputs THEN <<>> ELSE files[name]]

\* FDTP, from the configuration file.
FDTP ==
    /\ ~commanded
    /\ commanded' = TRUE
    /\ disk' = Blank(disk)
    /\ UNCHANGED <<receiver, sent_so_far, done_transmission, sent,
                   packet_expected, complete>>

\* One round of the loop of a burst.
SendChunk ==
    LET file == disk["hello.txt"]
        data == IF file = NoFile THEN NoFile ELSE FileHandling(file, sent_so_far)
    IN  /\ commanded
        /\ ~done_transmission
        /\ sent' = sent \cup {[id |-> sent_so_far + 1, data |-> data,
                               last_packet |-> IsLast(data)]}
        /\ sent_so_far' = sent_so_far + 1
        /\ done_transmission' = IsLast(data)
        /\ UNCHANGED <<receiver, disk, commanded, packet_expected, complete>>

Written(files, data) ==
    LET name == IF receiver = write_host THEN "output.txt" ELSE "output1.txt"
    IN  IF data = NoFile \/ receiver \notin {write_host, write_host2} THEN files
        ELSE [files EXCEPT ![name] = @ \o CString(data)]

\* The destination passes on the packet it waits for, from the network or
\* from order_packet_map.
WriteChunk ==
    \E p \in sent :
        /\ ~complete
        /\ p.id = packet_expected
        /\ disk' = Written(disk, p.data)
        /\ packet_expected' = packet_expected + 1
        /\ complete' = p.last_packet
        /\ UNCHANGED <<receiver, commanded, sent_so_far, done_transmission, sent>>

CopyNext == FDTP \/ SendChunk \/ WriteChunk

CopySpec == Init /\ [][CopyNext]_cvars

-----------------------------------------------------------------------------
(* Properties                                                              *)

Source == disk["hello.txt"]

\* The output file of this destination, none for a host that writes none.
Mine == IF receiver = write_host THEN {"output.txt"}
        ELSE IF receiver = write_host2 THEN {"output1.txt"} ELSE {}

\* Once a flow was commanded (blank) an output file is a beginning of the file
\* its host was sent, and the other one stays empty: no byte of an earlier run,
\* none twice and none out of place.
CopyIsPrefix ==
    commanded => \A name \in Outputs :
        IF name \in Mine /\ Source # NoFile THEN IsPrefix(disk[name], Source)
        ELSE disk[name] = <<>>

\* When the destination has passed on the last packet its output file is the
\* whole file, up to the first byte that file_handling or strlen stops at: a
\* file whose length is a multiple of the payload is complete as well.
TextArrives ==
    complete /\ Source # NoFile =>
        \A name \in Mine : disk[name] = Before(Source, {0, Eof})
=============================================================================
