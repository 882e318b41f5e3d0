--------------------------- MODULE FileCopyProofs ---------------------------
(***************************************************************************)
(* Proofs about FileCopy and the tools of FileTools: the copy is right for *)
(* every file, every size of a payload and every order of arrivals; a      *)
(* digest is the standard's for every file, and the verdict on two files   *)
(* is the comparison of their contents.                                    *)
(***************************************************************************)
EXTENDS FileTools, SequenceTheorems, WellFoundedInduction, TLAPS

Stops == {0, Eof}
FileNames == Outputs \cup {"hello.txt"}

\* o is the first n bytes of f, and none of them is a stop.
Starts(o, f, n) ==
    /\ o \in Seq(Byte)
    /\ Len(o) = n
    /\ n <= Len(f)
    /\ \A x \in 1 .. n : o[x] = f[x] /\ f[x] \notin Stops

\* o is all of f up to the first stop.
WholeText(o, f) ==
    /\ Starts(o, f, Len(o))
    /\ Len(o) < Len(f) => f[Len(o) + 1] \in Stops

-----------------------------------------------------------------------------
(* Lemmas about bytes and strings                                          *)

(* A set of natural numbers that is not empty has a least element.         *)
LEMMA LeastOf ==
    ASSUME NEW S \in SUBSET Nat, S # {}
    PROVE  \E k \in S : \A n \in S : k <= n
<1>1. PICK k \in S : \A n \in S : <<n, k>> \notin OpToRel(<, Nat)
  BY NatLessThanWellFounded, WFMin
<1>2. \A n \in S : ~(n < k)
  BY <1>1 DEF OpToRel
<1> QED
  BY <1>2

(* What Before returns: the elements up to the first stop or the end.      *)
LEMMA BeforeIs ==
    ASSUME NEW s \in Seq(Byte), NEW stops
    PROVE  LET b == Before(s, stops)
           IN  /\ b \in Seq(Byte)
               /\ Len(b) \in 0 .. Len(s)
               /\ \A x \in 1 .. Len(b) : b[x] = s[x] /\ s[x] \notin stops
               /\ Len(b) < Len(s) => s[Len(b) + 1] \in stops
<1> DEFINE stopsAt == {x \in DOMAIN s : s[x] \in stops} \cup {Len(s) + 1}
           first == CHOOSE x \in stopsAt : \A j \in stopsAt : x <= j
<1>1. Len(s) \in Nat /\ DOMAIN s = 1 .. Len(s) /\ stopsAt \subseteq 1 .. Len(s) + 1
  OBVIOUS
<1>2. \E x \in stopsAt : \A j \in stopsAt : x <= j
  <2>1. stopsAt \in SUBSET Nat /\ stopsAt # {}
    BY <1>1
  <2> QED
    BY <2>1, LeastOf
<1>3. first \in stopsAt /\ \A j \in stopsAt : first <= j
  BY <1>2
<1> HIDE DEF first
<1>4. first \in 1 .. Len(s) + 1 /\ \A x \in 1 .. first - 1 : s[x] \notin stops
  <2>1. first \in 1 .. Len(s) + 1
    BY <1>1, <1>3
  <2>2. ASSUME NEW x \in 1 .. first - 1, s[x] \in stops
        PROVE  FALSE
    <3>1. x \in stopsAt
      BY <1>1, <2>1, <2>2
    <3> QED
      BY <3>1, <1>3, <2>1
  <2> QED
    BY <2>1, <2>2
<1>5. first <= Len(s) => s[first] \in stops
  BY <1>1, <1>3
<1>6. /\ SubSeq(s, 1, first - 1) \in Seq(Byte)
      /\ Len(SubSeq(s, 1, first - 1)) = first - 1
      /\ \A x \in 1 .. first - 1 : SubSeq(s, 1, first - 1)[x] = s[x]
  <2>1. \A x \in 1 .. first - 1 : s[x] \in Byte
    BY <1>1, <1>4
  <2> HIDE DEF stopsAt
  <2> QED
    BY <2>1, <1>1, <1>4, SubSeqProperties, SMTT(30)
<1>7. Before(s, stops) = SubSeq(s, 1, first - 1)
  BY DEF Before, first
<1> HIDE DEF stopsAt
<1> QED
  BY <1>1, <1>4, <1>5, <1>6, <1>7

(* Up to PayloadSize bytes are read, fewer only at the end of the file.    *)
LEMMA ReadIs ==
    ASSUME NEW f \in Seq(Byte), NEW n \in 0 .. Len(f)
    PROVE  LET r == Read(f, n, PayloadSize)
           IN  /\ r \in Seq(Byte)
               /\ Len(r) <= PayloadSize /\ n + Len(r) <= Len(f)
               /\ Len(r) < PayloadSize => n + Len(r) = Len(f)
               /\ \A x \in 1 .. Len(r) : r[x] = f[n + x]
<1> DEFINE upto == IF n + PayloadSize < Len(f) THEN n + PayloadSize ELSE Len(f)
<1>1. /\ PayloadSize \in Nat \ {0} /\ Len(f) \in Nat /\ n \in Nat
      /\ upto \in n .. Len(f)
  BY PayloadAssumption
<1>2. \A x \in n + 1 .. upto : f[x] \in Byte
  BY <1>1
<1> HIDE DEF upto
<1>3. /\ SubSeq(f, n + 1, upto) \in Seq(Byte)
      /\ Len(SubSeq(f, n + 1, upto)) = upto - n
      /\ \A x \in 1 .. upto - n : SubSeq(f, n + 1, upto)[x] = f[n + x]
  <2>1. /\ SubSeq(f, n + 1, upto) \in Seq(Byte)
        /\ Len(SubSeq(f, n + 1, upto)) = IF n + 1 <= upto THEN upto - (n + 1) + 1 ELSE 0
        /\ \A x \in 1 .. upto - (n + 1) + 1 : SubSeq(f, n + 1, upto)[x] = f[n + 1 + x - 1]
    BY <1>1, <1>2, SubSeqProperties
  <2> QED
    BY <2>1, <1>1
<1>4. Read(f, n, PayloadSize) = SubSeq(f, n + 1, upto)
  BY DEF Read, upto
<1> QED
  BY <1>1, <1>3, <1>4 DEF upto

(* A C string without a 0 is itself.                                       *)
LEMMA CStringSame ==
    ASSUME NEW d \in Seq(Byte), \A x \in 1 .. Len(d) : d[x] # 0
    PROVE  CString(d) = d
<1> DEFINE b == CString(d)
<1>1. /\ b \in Seq(Byte) /\ Len(b) \in 0 .. Len(d) /\ Len(d) \in Nat
      /\ \A x \in 1 .. Len(b) : b[x] = d[x]
      /\ Len(b) < Len(d) => d[Len(b) + 1] \in {0}
  BY BeforeIs DEF CString
<1>2. Len(b) = Len(d)
  BY <1>1
<1> HIDE DEF b
<1> QED
  BY <1>1, <1>2, SeqEqual DEF b

(* The next piece of a file: appended to what came before it, it is the    *)
(* rest of the text when it is marked last, and a full payload of it when  *)
(* it is not.  Nothing is lost of it when it is copied as a string.        *)
LEMMA PieceFits ==
    ASSUME NEW f \in Seq(Byte), NEW k \in Nat, NEW o,
           Starts(o, f, k * PayloadSize)
    PROVE  LET d == FileHandling(f, k)
           IN  /\ d \in Seq(Byte)
               /\ CString(d) = d
               /\ IsLast(d) => WholeText(o \o d, f)
               /\ ~IsLast(d) => Starts(o \o d, f, (k + 1) * PayloadSize)
<1> DEFINE n == k * PayloadSize
           r == Read(f, n, PayloadSize)
           b == Before(r, {Eof})
           d == CString(b)
<1>1. /\ PayloadSize \in Nat \ {0} /\ n \in Nat /\ (k + 1) * PayloadSize = n + PayloadSize
      /\ Len(f) \in Nat /\ n \in 0 .. Len(f)
  BY PayloadAssumption DEF Starts
<1>2. /\ r \in Seq(Byte) /\ Len(r) \in Nat
      /\ Len(r) <= PayloadSize /\ n + Len(r) <= Len(f)
      /\ Len(r) < PayloadSize => n + Len(r) = Len(f)
      /\ \A x \in 1 .. Len(r) : r[x] = f[n + x]
  <2> HIDE DEF n
  <2> QED
    BY <1>1, ReadIs, LenProperties
<1>3. o \in Seq(Byte) /\ Len(o) = n /\ \A x \in 1 .. n : o[x] = f[x] /\ f[x] \notin Stops
  BY DEF Starts
<1>4. FileHandling(f, k) = d
  BY DEF FileHandling
<1> HIDE DEF n, r
<1>5. /\ b \in Seq(Byte) /\ Len(b) \in 0 .. Len(r)
      /\ \A x \in 1 .. Len(b) : b[x] = r[x] /\ r[x] \notin {Eof}
      /\ Len(b) < Len(r) => r[Len(b) + 1] \in {Eof}
  BY <1>2, BeforeIs
<1> HIDE DEF b
<1>6. /\ d \in Seq(Byte) /\ Len(d) \in 0 .. Len(b)
      /\ \A x \in 1 .. Len(d) : d[x] = b[x] /\ b[x] \notin {0}
      /\ Len(d) < Len(b) => b[Len(d) + 1] \in {0}
  BY <1>5, BeforeIs DEF CString
<1>7. CString(d) = d
  <2> HIDE DEF d
  <2> QED
    BY <1>6, CStringSame
<1> HIDE DEF d
<1>8. /\ Len(d) \in 0 .. Len(r)
      /\ \A x \in 1 .. Len(d) : d[x] = f[n + x] /\ f[n + x] \notin Stops
      /\ Len(d) < Len(r) => f[n + Len(d) + 1] \in Stops
  <2>1. Len(d) \in 0 .. Len(r)
    BY <1>2, <1>5, <1>6
  <2>2. ASSUME NEW x \in 1 .. Len(d)
        PROVE  d[x] = f[n + x] /\ f[n + x] \notin Stops
    <3>1. x \in 1 .. Len(b) /\ x \in 1 .. Len(r)
      BY <1>2, <1>5, <1>6
    <3> QED
      BY <3>1, <1>2, <1>5, <1>6 DEF Stops
  <2>3. ASSUME Len(d) < Len(r)
        PROVE  f[n + Len(d) + 1] \in Stops
    <3>1. Len(d) + 1 \in 1 .. Len(r) /\ r[Len(d) + 1] = f[n + (Len(d) + 1)]
      BY <1>2, <2>1, <2>3
    <3>2. CASE Len(d) < Len(b)
      <4>1. Len(d) + 1 \in 1 .. Len(b)
        BY <1>2, <1>5, <1>6, <3>2
      <4> QED
        BY <4>1, <3>1, <3>2, <1>1, <1>5, <1>6 DEF Stops
    <3>3. CASE Len(d) = Len(b)
      BY <3>1, <3>3, <2>3, <1>1, <1>5, <1>6 DEF Stops
    <3> QED
      BY <3>2, <3>3, <1>2, <1>5, <1>6
  <2> QED
    BY <2>1, <2>2, <2>3
<1>9. /\ o \o d \in Seq(Byte)
      /\ Len(o \o d) = n + Len(d)
      /\ \A x \in 1 .. n + Len(d) : (o \o d)[x] = IF x <= n THEN o[x] ELSE d[x - n]
  <2>1. /\ o \o d \in Seq(Byte)
        /\ Len(o \o d) = Len(o) + Len(d)
        /\ \A x \in 1 .. Len(o) + Len(d) :
              (o \o d)[x] = IF x <= Len(o) THEN o[x] ELSE d[x - Len(o)]
    BY <1>3, <1>6, ConcatProperties
  <2> QED
    BY <2>1, <1>3
<1>10. \A x \in 1 .. n + Len(d) : (o \o d)[x] = f[x] /\ f[x] \notin Stops
  <2> SUFFICES ASSUME NEW x \in 1 .. n + Len(d)
               PROVE  (o \o d)[x] = f[x] /\ f[x] \notin Stops
    OBVIOUS
  <2>1. CASE x <= n
    BY <2>1, <1>1, <1>3, <1>8, <1>9
  <2>2. CASE x > n
    <3>1. x - n \in 1 .. Len(d) /\ n + (x - n) = x
      BY <2>2, <1>1, <1>2, <1>8
    <3>2. (o \o d)[x] = d[x - n]
      BY <2>2, <1>1, <1>2, <1>8, <1>9
    <3> QED
      BY <3>1, <3>2, <1>8
  <2>3. x <= n \/ x > n
    BY <1>1, <1>2, <1>8
  <2> QED
    BY <2>1, <2>2, <2>3
<1>11. d # NoFile
  BY <1>6, CasesAssumption
<1>12. Starts(o \o d, f, n + Len(d))
  BY <1>1, <1>2, <1>8, <1>9, <1>10 DEF Starts
<1>13. ASSUME IsLast(d)
       PROVE  WholeText(o \o d, f)
  <2>1. Len(d) < PayloadSize
    BY <1>11, <1>13 DEF IsLast
  <2>2. n + Len(d) < Len(f) => f[n + Len(d) + 1] \in Stops
    BY <2>1, <1>1, <1>2, <1>8
  <2> QED
    BY <2>2, <1>9, <1>12 DEF WholeText
<1>14. ASSUME ~IsLast(d)
       PROVE  Starts(o \o d, f, (k + 1) * PayloadSize)
  <2>1. Len(d) = PayloadSize
    BY <1>1, <1>2, <1>8, <1>14 DEF IsLast
  <2> QED
    BY <2>1, <1>1, <1>12
<1> QED
  BY <1>4, <1>6, <1>7, <1>13, <1>14

-----------------------------------------------------------------------------
(* The inductive invariant                                                 *)

\* The data of packet id of the file f.
DataOf(f, id) == IF f = NoFile THEN NoFile ELSE FileHandling(f, id - 1)

TypesOK ==
    /\ disk \in [FileNames -> Seq(Byte) \cup {NoFile}]
    /\ \A name \in Outputs : disk[name] \in Seq(Byte)
    /\ commanded \in BOOLEAN /\ complete \in BOOLEAN
    /\ packet_expected \in Nat \ {0}
    /\ sent_so_far \in Nat

\* A packet holds the piece of the file its number says.
SentRight ==
    \A p \in sent :
        /\ p.id \in Nat \ {0}
        /\ p.data = DataOf(Source, p.id)
        /\ p.last_packet = IsLast(p.data)

\* Before the command nothing was sent, so nothing was passed on.
QuietBefore == ~commanded => sent = {} /\ packet_expected = 1 /\ ~complete

\* This destination's file has the pieces before packet_expected, all full,
\* until the last one completes it; every other output file is empty.
OutputRight ==
    commanded => \A name \in Outputs :
        IF name \in Mine /\ Source # NoFile
        THEN IF complete THEN WholeText(disk[name], Source)
             ELSE Starts(disk[name], Source, (packet_expected - 1) * PayloadSize)
        ELSE disk[name] = <<>>

CopyInv == TypesOK /\ SentRight /\ QuietBefore /\ OutputRight

LEMMA InitCopy == Init => CopyInv
<1> SUFFICES ASSUME Init PROVE CopyInv
  OBVIOUS
<1>1. PICK c \in Cases :
        /\ disk = [name \in Outputs \cup {"hello.txt"} |->
                      IF name = "hello.txt" THEN c.file ELSE c.left]
        /\ commanded = FALSE /\ sent_so_far = 0 /\ sent = {}
        /\ packet_expected = 1 /\ complete = FALSE
  BY DEF Init
<1>2. c.file \in Seq(Byte) \cup {NoFile} /\ c.left \in Seq(Byte)
  BY CasesAssumption
<1>3. TypesOK
  <2>1. disk \in [FileNames -> Seq(Byte) \cup {NoFile}]
    BY <1>1, <1>2 DEF FileNames
  <2>2. \A name \in Outputs : disk[name] = c.left
    BY <1>1 DEF Outputs
  <2>3. commanded \in BOOLEAN /\ complete \in BOOLEAN
    BY <1>1, Zenon
  <2>4. packet_expected \in Nat \ {0} /\ sent_so_far \in Nat
    BY <1>1
  <2> QED
    BY <2>1, <2>2, <2>3, <2>4, <1>2, Zenon DEF TypesOK
<1>4. SentRight /\ QuietBefore /\ OutputRight
  BY <1>1 DEF SentRight, QuietBefore, OutputRight
<1> QED
  BY <1>3, <1>4 DEF CopyInv

(* The command empties both files and leaves the source alone.             *)
LEMMA CommandKeeps == CopyInv /\ FDTP => CopyInv'
<1> SUFFICES ASSUME CopyInv, FDTP PROVE CopyInv'
  OBVIOUS
<1>1. /\ DOMAIN disk = FileNames
      /\ \A name \in FileNames : disk'[name] = IF name \in Outputs THEN <<>> ELSE disk[name]
      /\ disk' \in [FileNames -> Seq(Byte) \cup {NoFile}]
  BY DEF CopyInv, TypesOK, FDTP, Blank, FileNames
<1>2. Source' = Source
  BY <1>1 DEF Source, FileNames, Outputs
<1>3. sent = {} /\ packet_expected = 1 /\ ~complete /\ sent' = {} /\ packet_expected' = 1 /\ ~complete'
  BY DEF CopyInv, QuietBefore, FDTP
<1>4. TypesOK'
  <2>1. \A name \in Outputs : disk'[name] = <<>>
    BY <1>1 DEF FileNames
  <2>2. <<>> \in Seq(Byte)
    OBVIOUS
  <2> QED
    BY <2>1, <2>2, <1>1, <1>3 DEF CopyInv, TypesOK, FDTP
<1>5. SentRight' /\ QuietBefore'
  BY <1>3 DEF SentRight, QuietBefore, FDTP
<1>6. \A name \in Outputs : disk'[name] = <<>>
  BY <1>1 DEF FileNames
<1>7. ASSUME Source # NoFile
      PROVE  Starts(<<>>, Source, (1 - 1) * PayloadSize)
  <2>1. Source \in Seq(Byte) /\ Len(Source) \in Nat
    BY <1>7 DEF CopyInv, TypesOK, Source, FileNames
  <2>2. (1 - 1) * PayloadSize = 0
    BY PayloadAssumption
  <2> QED
    BY <2>1, <2>2 DEF Starts
<1>8. OutputRight'
  BY <1>2, <1>3, <1>6, <1>7 DEF OutputRight
<1> QED
  BY <1>4, <1>5, <1>8 DEF CopyInv

(* A new packet is the next piece; the files stay as they are.             *)
LEMMA SendKeeps == CopyInv /\ SendChunk => CopyInv'
<1> SUFFICES ASSUME CopyInv, SendChunk PROVE CopyInv'
  OBVIOUS
<1> DEFINE data == DataOf(Source, sent_so_far + 1)
           new == [id |-> sent_so_far + 1, data |-> data, last_packet |-> IsLast(data)]
<1>1. /\ commanded /\ sent' = sent \cup {new} /\ sent_so_far' = sent_so_far + 1
      /\ UNCHANGED <<receiver, disk, commanded, packet_expected, complete>>
  <2>1. (sent_so_far + 1) - 1 = sent_so_far
    BY DEF CopyInv, TypesOK
  <2> QED
    BY <2>1 DEF SendChunk, DataOf, Source
<1>2. Source' = Source /\ Mine' = Mine
  BY <1>1 DEF Source, Mine
<1>3. TypesOK'
  BY <1>1 DEF CopyInv, TypesOK
<1>4. SentRight'
  <2>1. new.id \in Nat \ {0} /\ new.data = DataOf(Source, new.id) /\ new.last_packet = IsLast(new.data)
    BY DEF CopyInv, TypesOK
  <2> HIDE DEF new
  <2> QED
    BY <2>1, <1>1, <1>2 DEF CopyInv, SentRight
<1>5. QuietBefore' /\ OutputRight'
  BY <1>1, <1>2 DEF CopyInv, QuietBefore, OutputRight
<1> QED
  BY <1>3, <1>4, <1>5 DEF CopyInv

(* What passing on the expected packet does to this destination's file.    *)
LEMMA WriteKeeps == CopyInv /\ WriteChunk => CopyInv'
<1> SUFFICES ASSUME CopyInv, WriteChunk PROVE CopyInv'
  OBVIOUS
<1>1. PICK p \in sent :
        /\ ~complete
        /\ p.id = packet_expected
        /\ disk' = Written(disk, p.data)
        /\ packet_expected' = packet_expected + 1
        /\ complete' = p.last_packet
        /\ UNCHANGED <<receiver, commanded, sent_so_far, sent>>
  BY DEF WriteChunk
<1>2. commanded
  BY <1>1 DEF CopyInv, QuietBefore
<1>3. p.data = DataOf(Source, packet_expected) /\ p.last_packet = IsLast(p.data)
  BY <1>1 DEF CopyInv, SentRight
<1>4. /\ DOMAIN disk = FileNames /\ Source \in Seq(Byte) \cup {NoFile}
      /\ \A name \in Outputs : disk[name] \in Seq(Byte)
      /\ packet_expected - 1 \in Nat /\ (packet_expected - 1) + 1 = packet_expected
  BY DEF CopyInv, TypesOK, Source, FileNames
<1>5. Source' = Source /\ Mine' = Mine /\ complete' \in BOOLEAN
  BY <1>1, <1>3, <1>4 DEF Source, Mine, Written, FileNames, Outputs, IsLast
<1>6. CASE Source = NoFile
  <2>1. p.data = NoFile /\ disk' = disk
    BY <1>1, <1>3, <1>6 DEF DataOf, Written
  <2> QED
    <3>1. TypesOK'
      <4>1. packet_expected' \in Nat \ {0}
        BY <1>1, <1>4
      <4> QED
        BY <4>1, <2>1, <1>1, <1>5, Zenon DEF CopyInv, TypesOK
    <3>2. SentRight' /\ QuietBefore'
      BY <1>1, <1>2, <1>5 DEF CopyInv, SentRight, QuietBefore
    <3>3. OutputRight'
      BY <2>1, <1>1, <1>5, <1>6 DEF CopyInv, OutputRight
    <3> QED
      BY <3>1, <3>2, <3>3 DEF CopyInv
<1>7. CASE Source # NoFile /\ Mine = {}
  <2>1. disk' = disk
    BY <1>1, <1>7 DEF Written, Mine
  <2> QED
    <3>1. TypesOK'
      <4>1. packet_expected' \in Nat \ {0}
        BY <1>1, <1>4
      <4> QED
        BY <4>1, <2>1, <1>1, <1>5, Zenon DEF CopyInv, TypesOK
    <3>2. SentRight' /\ QuietBefore'
      BY <1>1, <1>2, <1>5 DEF CopyInv, SentRight, QuietBefore
    <3>3. OutputRight'
      BY <2>1, <1>1, <1>5, <1>7 DEF CopyInv, OutputRight
    <3> QED
      BY <3>1, <3>2, <3>3 DEF CopyInv
<1>8. CASE Source # NoFile /\ Mine # {}
  <2>1. PICK mine \in Outputs :
          /\ Mine = {mine}
          /\ mine = IF receiver = write_host THEN "output.txt" ELSE "output1.txt"
          /\ receiver \in {write_host, write_host2}
    BY <1>8 DEF Mine, Outputs
  <2>2. /\ Source \in Seq(Byte)
        /\ Starts(disk[mine], Source, (packet_expected - 1) * PayloadSize)
    BY <1>1, <1>2, <1>4, <1>8, <2>1 DEF CopyInv, OutputRight
  <2>3. /\ p.data \in Seq(Byte) /\ CString(p.data) = p.data
        /\ p.last_packet => WholeText(disk[mine] \o p.data, Source)
        /\ ~p.last_packet => Starts(disk[mine] \o p.data, Source, packet_expected * PayloadSize)
    BY <1>3, <1>4, <1>8, <2>2, PieceFits DEF DataOf
  <2>4. disk' = [disk EXCEPT ![mine] = disk[mine] \o p.data]
    BY <1>1, <2>1, <2>3, CasesAssumption DEF Written
  <2>5. disk[mine] \o p.data \in Seq(Byte)
    BY <1>4, <2>1, <2>3, ConcatProperties
  <2>6. /\ disk'[mine] = disk[mine] \o p.data
        /\ \A name \in Outputs \ {mine} : disk'[name] = disk[name]
    BY <1>4, <2>1, <2>4 DEF FileNames
  <2>7. TypesOK'
    <3>1. disk' \in [FileNames -> Seq(Byte) \cup {NoFile}]
      BY <2>4, <2>5 DEF CopyInv, TypesOK
    <3>2. \A name \in Outputs : disk'[name] \in Seq(Byte)
      BY <1>4, <2>5, <2>6
    <3> QED
      BY <3>1, <3>2, <1>1, <1>5 DEF CopyInv, TypesOK
  <2>8. SentRight' /\ QuietBefore'
    BY <1>1, <1>2, <1>5 DEF CopyInv, SentRight, QuietBefore
  <2>9. (packet_expected' - 1) * PayloadSize = packet_expected * PayloadSize
    BY <1>1, <1>4
  <2>10. OutputRight'
    <3> SUFFICES ASSUME NEW name \in Outputs
                 PROVE  IF name \in Mine
                        THEN IF complete' THEN WholeText(disk'[name], Source)
                             ELSE Starts(disk'[name], Source, (packet_expected' - 1) * PayloadSize)
                        ELSE disk'[name] = <<>>
      BY <1>5, <1>8 DEF OutputRight
    <3>1. CASE name = mine
      BY <3>1, <1>1, <2>1, <2>3, <2>6, <2>9
    <3>2. CASE name # mine
      BY <3>2, <1>2, <2>1, <2>6 DEF CopyInv, OutputRight
    <3> QED
      BY <3>1, <3>2
  <2> QED
    BY <2>7, <2>8, <2>10 DEF CopyInv
<1> QED
  BY <1>6, <1>7, <1>8

(* The invariant holds in every reachable state.                           *)
THEOREM CopyInvariant == CopySpec => []CopyInv
<1>1. CopyInv /\ [CopyNext]_cvars => CopyInv'
  <2> SUFFICES ASSUME CopyInv, [CopyNext]_cvars PROVE CopyInv'
    OBVIOUS
  <2>1. CASE UNCHANGED cvars
    BY <2>1 DEF cvars, CopyInv, TypesOK, SentRight, QuietBefore, OutputRight, Source, Mine
  <2> QED
    BY <2>1, CommandKeeps, SendKeeps, WriteKeeps DEF CopyNext
<1> QED
  BY <1>1, InitCopy, PTL DEF CopySpec

-----------------------------------------------------------------------------
(* The properties                                                          *)

(* What begins a file is a prefix of it.                                   *)
LEMMA StartIsPrefix ==
    ASSUME NEW f \in Seq(Byte), NEW o, NEW n \in Nat, Starts(o, f, n)
    PROVE  IsPrefix(o, f)
<1>1. o \in Seq(Byte) /\ Len(o) = n /\ n <= Len(f) /\ Len(f) \in Nat /\ \A x \in 1 .. n : o[x] = f[x]
  BY DEF Starts
<1>2. SubSeq(o, 1, Len(o)) = o
  BY <1>1, SubSeqFull
<1>3. /\ SubSeq(f, 1, n) \in Seq(Byte)
      /\ Len(SubSeq(f, 1, n)) = n
      /\ \A x \in 1 .. n : SubSeq(f, 1, n)[x] = f[x]
  <2>1. \A x \in 1 .. n : f[x] \in Byte
    BY <1>1
  <2>2. /\ SubSeq(f, 1, n) \in Seq(Byte)
        /\ Len(SubSeq(f, 1, n)) = IF 1 <= n THEN n - 1 + 1 ELSE 0
        /\ \A x \in 1 .. n - 1 + 1 : SubSeq(f, 1, n)[x] = f[1 + x - 1]
    BY <2>1, SubSeqProperties
  <2> QED
    BY <2>2
<1>4. SubSeq(f, 1, n) = o
  BY <1>1, <1>3, SeqEqual
<1> QED
  BY <1>1, <1>2, <1>4 DEF IsPrefix

(* There is one whole text of a file, and Before returns it.               *)
LEMMA WholeTextIs ==
    ASSUME NEW f \in Seq(Byte), NEW o, WholeText(o, f)
    PROVE  o = Before(f, {0, Eof})
<1> DEFINE b == Before(f, {0, Eof})
<1>1. /\ b \in Seq(Byte) /\ Len(b) \in 0 .. Len(f) /\ Len(f) \in Nat
      /\ \A x \in 1 .. Len(b) : b[x] = f[x] /\ f[x] \notin {0, Eof}
      /\ Len(b) < Len(f) => f[Len(b) + 1] \in {0, Eof}
  BY BeforeIs
<1>2. /\ o \in Seq(Byte) /\ Len(o) \in 0 .. Len(f)
      /\ \A x \in 1 .. Len(o) : o[x] = f[x] /\ f[x] \notin {0, Eof}
      /\ Len(o) < Len(f) => f[Len(o) + 1] \in {0, Eof}
  BY <1>1 DEF WholeText, Starts, Stops
<1> HIDE DEF b
<1>3. ~(Len(o) < Len(b))
  <2> SUFFICES ASSUME Len(o) < Len(b) PROVE FALSE
    OBVIOUS
  <2>1. Len(o) + 1 \in 1 .. Len(b) /\ Len(o) < Len(f)
    BY <1>1, <1>2
  <2> QED
    BY <2>1, <1>1, <1>2
<1>4. ~(Len(b) < Len(o))
  <2> SUFFICES ASSUME Len(b) < Len(o) PROVE FALSE
    OBVIOUS
  <2>1. Len(b) + 1 \in 1 .. Len(o) /\ Len(b) < Len(f)
    BY <1>1, <1>2
  <2> QED
    BY <2>1, <1>1, <1>2
<1>5. Len(o) = Len(b)
  BY <1>1, <1>2, <1>3, <1>4
<1> QED
  BY <1>1, <1>2, <1>5, SeqEqual DEF b

(* blank, file_handling and writing: whatever the file, its size, the size *)
(* of a payload and the order of arrivals, an output file is a beginning   *)
(* of the file sent to its host.                                           *)
THEOREM CopyAlwaysPrefix == CopySpec => []CopyIsPrefix
<1>1. CopyInv => CopyIsPrefix
  <2> SUFFICES ASSUME CopyInv, commanded, NEW name \in Outputs, name \in Mine, Source # NoFile
               PROVE  IsPrefix(disk[name], Source)
    BY DEF CopyInv, OutputRight, CopyIsPrefix
  <2>1. Source \in Seq(Byte) /\ packet_expected - 1 \in Nat /\ PayloadSize \in Nat
    BY PayloadAssumption DEF CopyInv, TypesOK, Source, FileNames
  <2>2. (packet_expected - 1) * PayloadSize \in Nat
    BY <2>1
  <2>3. CASE complete
    <3>1. WholeText(disk[name], Source)
      BY <2>3 DEF CopyInv, OutputRight
    <3>2. Starts(disk[name], Source, Len(disk[name])) /\ Len(disk[name]) \in Nat
      BY <3>1 DEF WholeText, Starts
    <3> QED
      BY <3>2, <2>1, StartIsPrefix
  <2>4. CASE ~complete
    <3>1. Starts(disk[name], Source, (packet_expected - 1) * PayloadSize)
      BY <2>4 DEF CopyInv, OutputRight
    <3> QED
      BY <3>1, <2>1, <2>2, StartIsPrefix
  <2> QED
    BY <2>3, <2>4
<1> QED
  BY <1>1, CopyInvariant, PTL

(* Once the packet marked last was passed on, the output file is the file  *)
(* up to its first 0 or 0xff byte: the whole file when it has none, also   *)
(* when its length is a multiple of the payload.                           *)
THEOREM TextAlwaysArrives == CopySpec => []TextArrives
<1>1. CopyInv => TextArrives
  <2> SUFFICES ASSUME CopyInv, complete, Source # NoFile, NEW name \in Mine
               PROVE  disk[name] = Before(Source, {0, Eof})
    BY DEF TextArrives
  <2>1. commanded /\ name \in Outputs /\ Source \in Seq(Byte)
    BY DEF CopyInv, QuietBefore, TypesOK, Source, FileNames, Mine, Outputs
  <2>2. WholeText(disk[name], Source)
    BY <2>1 DEF CopyInv, OutputRight
  <2> QED
    BY <2>1, <2>2, WholeTextIs
<1> QED
  BY <1>1, CopyInvariant, PTL

-----------------------------------------------------------------------------
(* Lemmas about the digest of a message                                    *)

\* Block n of a message.
BlockOf(m, n) == SubSeq(m, BlockSize * (n - 1) + 1, BlockSize * n)

\* The definition of the function in Hashed, for k blocks.
IsHashing(H, m, k, f) ==
    f = [n \in 0 .. k |-> IF n = 0 THEN H ELSE Compressed(f[n - 1], BlockOf(m, n))]

(* What the function is at each number of blocks.                          *)
LEMMA HashingSteps ==
    ASSUME NEW H, NEW m, NEW k \in Nat, NEW f, IsHashing(H, m, k, f)
    PROVE  f[0] = H /\ \A n \in 1 .. k : f[n] = Compressed(f[n - 1], BlockOf(m, n))
<1>1. f = [n \in 0 .. k |-> IF n = 0 THEN H ELSE Compressed(f[n - 1], BlockOf(m, n))]
  BY DEF IsHashing
<1>2. \A n \in 0 .. k : f[n] = IF n = 0 THEN H ELSE Compressed(f[n - 1], BlockOf(m, n))
  BY <1>1, Zenon
<1>3. 0 \in 0 .. k /\ \A n \in 1 .. k : n \in 0 .. k /\ n # 0
  OBVIOUS
<1> QED
  BY <1>2, <1>3

(* There is such a function for any number of blocks.                      *)
LEMMA HashingExists ==
    ASSUME NEW H, NEW m, NEW k \in Nat
    PROVE  \E f : IsHashing(H, m, k, f)
<1> DEFINE Bad == {n \in Nat : ~\E f : IsHashing(H, m, n, f)}
<1>1. SUFFICES ASSUME Bad # {} PROVE FALSE
  OBVIOUS
<1>2. PICK n \in Bad : \A j \in Bad : n <= j
  BY <1>1, LeastOf
<1>3. n # 0
  <2>1. DEFINE g == [j \in 0 .. 0 |-> H]
  <2>2. 0 \in 0 .. 0 /\ \A j \in 0 .. 0 : j = 0
    OBVIOUS
  <2>3. g = [j \in 0 .. 0 |-> IF j = 0 THEN H ELSE Compressed(g[j - 1], BlockOf(m, j))]
    BY <2>2, Zenon
  <2> QED
    BY <2>3 DEF IsHashing
<1>4. n - 1 \in Nat /\ n - 1 \notin Bad
  BY <1>2, <1>3
<1>5. PICK f : IsHashing(H, m, n - 1, f)
  BY <1>4
<1> DEFINE g == [j \in 0 .. n |-> IF j = n THEN Compressed(f[n - 1], BlockOf(m, n)) ELSE f[j]]
<1>6. /\ 0 \in 0 .. n /\ n \in Nat
      /\ \A j \in 0 .. n : j # 0 => /\ j - 1 \in 0 .. n /\ j - 1 # n
                                    /\ j # n => j \in 1 .. n - 1
  BY <1>2
<1>7. f[0] = H /\ \A j \in 1 .. n - 1 : f[j] = Compressed(f[j - 1], BlockOf(m, j))
  BY <1>4, <1>5, HashingSteps
<1>8. \A j \in 0 .. n : g[j] = IF j = 0 THEN H ELSE Compressed(g[j - 1], BlockOf(m, j))
  <2> SUFFICES ASSUME NEW j \in 0 .. n
               PROVE  g[j] = IF j = 0 THEN H ELSE Compressed(g[j - 1], BlockOf(m, j))
    OBVIOUS
  <2>1. CASE j = 0
    BY <2>1, <1>3, <1>6, <1>7, Zenon
  <2>2. CASE j # 0
    <3>1. g[j - 1] = f[j - 1]
      BY <2>2, <1>6, Zenon
    <3>2. CASE j = n
      BY <3>1, <3>2, <2>2, Zenon
    <3>3. CASE j # n
      BY <3>1, <3>3, <2>2, <1>6, <1>7, Zenon
    <3> QED
      BY <3>2, <3>3
  <2> QED
    BY <2>1, <2>2
<1>9. g = [j \in 0 .. n |-> g[j]]
  BY Zenon
<1> HIDE DEF g
<1>10. IsHashing(H, m, n, g)
  BY <1>8, <1>9, Zenon DEF IsHashing
<1> QED
  BY <1>2, <1>10

(* Two of them agree as long as the blocks do.                             *)
LEMMA HashingsAgree ==
    ASSUME NEW H, NEW m, NEW p, NEW k \in Nat, NEW l \in Nat, k <= l,
           NEW f, NEW g, IsHashing(H, m, k, f), IsHashing(H, p, l, g),
           \A n \in 1 .. k : BlockOf(m, n) = BlockOf(p, n)
    PROVE  f[k] = g[k]
<1> DEFINE Bad == {n \in 0 .. k : f[n] # g[n]}
<1>1. SUFFICES ASSUME Bad # {} PROVE FALSE
  OBVIOUS
<1>2. PICK n \in Bad : \A j \in Bad : n <= j
  <2>1. Bad \in SUBSET Nat
    OBVIOUS
  <2> QED
    BY <1>1, <2>1, LeastOf
<1>3. f[0] = H /\ \A j \in 1 .. k : f[j] = Compressed(f[j - 1], BlockOf(m, j))
  BY HashingSteps
<1>4. g[0] = H /\ \A j \in 1 .. l : g[j] = Compressed(g[j - 1], BlockOf(p, j))
  BY HashingSteps
<1>5. n \in 1 .. k /\ n \in 1 .. l /\ n - 1 \in 0 .. k /\ ~(n <= n - 1)
  BY <1>2, <1>3, <1>4
<1>6. f[n - 1] = g[n - 1]
  BY <1>2, <1>5
<1>7. f[n] = g[n]
  BY <1>3, <1>4, <1>5, <1>6
<1> QED
  BY <1>2, <1>7

(* What Hashed is for a message of k blocks.                               *)
LEMMA HashedIs ==
    ASSUME NEW H, NEW m, NEW k \in Nat, Len(m) = BlockSize * k
    PROVE  \E f : IsHashing(H, m, k, f) /\ Hashed(H, m) = f[k]
<1>1. Len(m) \div BlockSize = k
  BY DEF BlockSize
<1> DEFINE f == CHOOSE g : IsHashing(H, m, k, g)
<1>2. IsHashing(H, m, k, f)
  BY HashingExists
<1>3. Hashed(H, m) = f[k]
  <2>1. Hashed(H, m) = (CHOOSE g : g = [n \in 0 .. Len(m) \div BlockSize |->
             IF n = 0 THEN H ELSE Compressed(g[n - 1],
                          SubSeq(m, BlockSize * (n - 1) + 1, BlockSize * n))])[Len(m) \div BlockSize]
    BY Zenon DEF Hashed
  <2> QED
    BY <1>1, <2>1, Zenon DEF IsHashing, BlockOf
<1> QED
  BY <1>2, <1>3

(* Nothing hashed leaves the words alone, and one more block is one more   *)
(* compression.                                                            *)
LEMMA HashedNothing == ASSUME NEW H PROVE Hashed(H, <<>>) = H
<1>1. Len(<<>>) = BlockSize * 0 /\ 0 \in Nat
  BY DEF BlockSize
<1>2. PICK f : IsHashing(H, <<>>, 0, f) /\ Hashed(H, <<>>) = f[0]
  BY <1>1, HashedIs
<1> QED
  BY <1>2, HashingSteps

(* The hash of whole blocks and one block more.                            *)
LEMMA HashedBlock ==
    ASSUME NEW H, NEW m \in Seq(Octet), NEW k \in Nat, Len(m) = BlockSize * k,
           NEW b \in Seq(Octet), Len(b) = BlockSize
    PROVE  Hashed(H, m \o b) = Compressed(Hashed(H, m), b)
<1> DEFINE p == m \o b
<1>1. /\ p \in Seq(Octet)
      /\ Len(p) = Len(m) + Len(b)
      /\ \A n \in 1 .. Len(m) + Len(b) : p[n] = IF n <= Len(m) THEN m[n] ELSE b[n - Len(m)]
  BY ConcatProperties
<1> HIDE DEF p
<1>2. k + 1 \in Nat /\ Len(p) = BlockSize * (k + 1)
  BY <1>1 DEF BlockSize
<1>3. \A n \in 1 .. k : BlockOf(m, n) = BlockOf(p, n)
  <2> SUFFICES ASSUME NEW n \in 1 .. k PROVE BlockOf(m, n) = BlockOf(p, n)
    OBVIOUS
  <2> DEFINE lo == BlockSize * (n - 1) + 1
             hi == BlockSize * n
  <2>1. lo \in Int /\ hi \in Int /\ lo >= 1 /\ hi <= Len(m)
    BY DEF BlockSize
  <2> HIDE DEF lo, hi
  <2>2. \A j \in lo .. hi : m[j] \in Octet /\ p[j] = m[j]
    BY <1>1, <2>1
  <2>3. SubSeq(m, lo, hi) = SubSeq(p, lo, hi)
    BY <2>1, <2>2
  <2> QED
    BY <2>3 DEF BlockOf, lo, hi
<1>4. BlockOf(p, k + 1) = b
  <2> DEFINE lo == BlockSize * (k + 1 - 1) + 1
             hi == BlockSize * (k + 1)
  <2>1. lo \in Int /\ hi \in Int /\ lo = Len(m) + 1 /\ hi = Len(m) + 64 /\ Len(b) = 64 /\ Len(m) \in Nat
    BY DEF BlockSize
  <2> HIDE DEF lo, hi
  <2>2. \A j \in lo .. hi : p[j] \in Octet
    BY <1>1, <2>1
  <2>3. /\ SubSeq(p, lo, hi) \in Seq(Octet)
        /\ Len(SubSeq(p, lo, hi)) = IF lo <= hi THEN hi - lo + 1 ELSE 0
        /\ \A j \in 1 .. hi - lo + 1 : SubSeq(p, lo, hi)[j] = p[lo + j - 1]
    BY <2>1, <2>2, SubSeqProperties
  <2>4. Len(SubSeq(p, lo, hi)) = Len(b)
    BY <2>1, <2>3
  <2>5. \A j \in 1 .. Len(b) : SubSeq(p, lo, hi)[j] = b[j]
    <3> SUFFICES ASSUME NEW j \in 1 .. Len(b) PROVE SubSeq(p, lo, hi)[j] = b[j]
      OBVIOUS
    <3>1. SubSeq(p, lo, hi)[j] = p[lo + j - 1] /\ lo + j - 1 = Len(m) + j
      BY <2>1, <2>3
    <3>2. p[Len(m) + j] = b[j]
      BY <1>1, <2>1
    <3> QED
      BY <3>1, <3>2
  <2>6. SubSeq(p, lo, hi) = b
    BY <2>3, <2>4, <2>5, SeqEqual
  <2> QED
    BY <2>6 DEF BlockOf, lo, hi
<1>5. PICK f : IsHashing(H, m, k, f) /\ Hashed(H, m) = f[k]
  BY HashedIs
<1>6. PICK g : IsHashing(H, p, k + 1, g) /\ Hashed(H, p) = g[k + 1]
  BY <1>2, HashedIs
<1>7. f[k] = g[k]
  <2>1. k <= k + 1
    OBVIOUS
  <2> QED
    BY <1>2, <1>3, <1>5, <1>6, <2>1, HashingsAgree
<1>8. g[k + 1] = Compressed(g[k + 1 - 1], BlockOf(p, k + 1)) /\ k + 1 - 1 = k
  <2>1. k + 1 \in 1 .. k + 1
    OBVIOUS
  <2> QED
    BY <1>2, <1>6, <2>1, HashingSteps
<1> QED
  BY <1>4, <1>5, <1>6, <1>7, <1>8 DEF p

(* A quotient and a remainder, and that there is one of each.              *)
LEMMA DivModIs ==
    ASSUME NEW n \in Nat, NEW d \in Nat \ {0}
    PROVE  n \div d \in Nat /\ n % d \in 0 .. d - 1 /\ n = d * (n \div d) + (n % d)
<1>1. n % d \in 0 .. d - 1
  OBVIOUS
<1>2. n \div d \in Int
  OBVIOUS
<1>3. n = d * (n \div d) + (n % d)
  OBVIOUS
<1>4. n \div d >= 0
  OBVIOUS
<1> QED
  BY <1>1, <1>2, <1>3, <1>4

(* A quotient and a rest determine each other.                             *)
LEMMA DivModUnique ==
    ASSUME NEW d \in Nat \ {0}, NEW k \in Nat, NEW r \in Nat, r < d
    PROVE  (d * k + r) \div d = k /\ (d * k + r) % d = r
<1> DEFINE n == d * k + r
           q == n \div d
           z == n % d
<1>1. n \in Nat
  OBVIOUS
<1>2. q \in Nat /\ z \in Nat /\ z < d /\ n = d * q + z
  <2> HIDE DEF n
  <2> QED
    BY <1>1, DivModIs
<1>3. d * q + z = d * k + r
  BY <1>2
<1> HIDE DEF n, q, z
<1>4. ~(q < k)
  <2> SUFFICES ASSUME q < k PROVE FALSE
    OBVIOUS
  <2>1. PICK e \in Nat : k = q + 1 + e
    <3>1. k - q - 1 \in Nat /\ k = q + 1 + (k - q - 1)
      BY <1>2
    <3> QED
      BY <3>1
  <2>2. d * k = d * q + d + d * e /\ d * e \in Nat
    BY <1>2, <2>1
  <2> QED
    BY <1>2, <1>3, <2>2
<1>5. ~(k < q)
  <2> SUFFICES ASSUME k < q PROVE FALSE
    OBVIOUS
  <2>1. PICK e \in Nat : q = k + 1 + e
    <3>1. q - k - 1 \in Nat /\ q = k + 1 + (q - k - 1)
      BY <1>2
    <3> QED
      BY <3>1
  <2>2. d * q = d * k + d + d * e /\ d * e \in Nat
    BY <1>2, <2>1
  <2> QED
    BY <1>2, <1>3, <2>2
<1>6. q = k /\ z = r
  BY <1>2, <1>3, <1>4, <1>5
<1> QED
  BY <1>6 DEF n, q, z

\* The length words lo and hi count the bits of n octets.
Counts(lo, hi, n, L) ==
    /\ lo \in Nat /\ hi \in Nat
    /\ lo < L /\ hi < L /\ lo % 8 = 0
    /\ L * hi + lo = 8 * n

\* What Counted makes of them.
CountsOn(lo, hi, lo2, hi2, L) ==
    lo2 = (lo + 8) % L /\ hi2 = IF lo2 = 0 THEN (hi + 1) % L ELSE hi

(* The two words that count the bits: after one octet more they are right  *)
(* again, or both zero because the count does not fit them.                *)
LEMMA CountStep ==
    ASSUME NEW L \in Nat \ {0}, L % 8 = 0, NEW n \in Nat, NEW lo, NEW hi, Counts(lo, hi, n, L),
           NEW lo2, NEW hi2, CountsOn(lo, hi, lo2, hi2, L)
    PROVE  IF lo2 = 0 /\ hi2 = 0 THEN 8 * (n + 1) >= L * L
           ELSE 8 * (n + 1) < L * L /\ Counts(lo2, hi2, n + 1, L)
<1>0. /\ lo \in Nat /\ hi \in Nat /\ lo < L /\ hi < L /\ lo % 8 = 0 /\ L * hi + lo = 8 * n
      /\ lo2 = (lo + 8) % L /\ hi2 = IF lo2 = 0 THEN (hi + 1) % L ELSE hi
  BY DEF Counts, CountsOn
<1>4. SUFFICES /\ lo2 \in Nat /\ hi2 \in Nat /\ lo2 < L /\ hi2 < L /\ lo2 % 8 = 0
               /\ (lo2 = 0 /\ hi2 = 0) <=> 8 * (n + 1) >= L * L
               /\ ~(lo2 = 0 /\ hi2 = 0) => L * hi2 + lo2 = 8 * (n + 1)
  <2>1. L * L \in Nat
    OBVIOUS
  <2> QED
    BY <1>4, <2>1 DEF Counts
<1>1. lo + 8 <= L /\ L >= 8
  <2>1. PICK a \in Nat, b \in Nat : L = 8 * a /\ lo = 8 * b
    BY <1>0
  <2> QED
    BY <1>0, <2>1
<1>2. CASE lo + 8 = L
  <2>1. lo2 = 0
    BY <1>0, <1>2
  <2>2. L * (hi + 1) = L * hi + L /\ L * (hi + 1) = 8 * (n + 1)
    BY <1>0, <1>2
  <2>3. CASE hi + 1 = L
    <3>1. hi2 = 0
      BY <1>0, <2>1, <2>3
    <3> QED
      BY <1>0, <2>1, <2>2, <2>3, <3>1
  <2>4. CASE hi + 1 < L
    <3>1. hi2 = hi + 1
      <4>1. (hi + 1) % L = hi + 1
        BY <1>0, <2>4
      <4> QED
        BY <1>0, <2>1, <4>1
    <3>2. L * (hi + 1) < L * L
      <4>1. PICK e \in Nat : L = hi + 1 + 1 + e
        <5>1. L - (hi + 1) - 1 \in Nat /\ L = hi + 1 + 1 + (L - (hi + 1) - 1)
          BY <1>0, <2>4
        <5> QED
          BY <1>0, <5>1
      <4>2. L * L = L * (hi + 1) + L + L * e /\ L * e \in Nat
        BY <1>0, <4>1
      <4> QED
        BY <1>0, <4>2
    <3> QED
      BY <1>0, <2>1, <2>2, <2>4, <3>1, <3>2
  <2> QED
    BY <1>0, <2>3, <2>4
<1>3. CASE lo + 8 < L
  <2>1. lo2 = lo + 8 /\ hi2 = hi
    <3>1. (lo + 8) % L = lo + 8
      BY <1>0, <1>3
    <3> QED
      BY <1>0, <3>1
  <2>2. L * hi + lo + 8 < L * L
    <3>1. PICK e \in Nat : L = hi + 1 + e
      <4>1. L - hi - 1 \in Nat /\ L = hi + 1 + (L - hi - 1)
        BY <1>0
      <4> QED
        BY <1>0, <4>1
    <3>2. L * L = L * hi + L + L * e /\ L * e \in Nat
      BY <1>0, <3>1
    <3> QED
      BY <1>0, <3>2, <1>3
  <2> QED
    BY <1>0, <2>1, <2>2, <1>3
<1> QED
  BY <1>0, <1>1, <1>2, <1>3

(* A count fits the words just when it is below the square of the limit.   *)
LEMMA FitsIs ==
    ASSUME NEW L \in Nat \ {0}, NEW n \in Nat
    PROVE  n \div L >= L <=> n >= L * L
<1> DEFINE q == n \div L
           r == n % L
<1>1. q \in Nat /\ r \in Nat /\ r < L /\ n = L * q + r
  BY DivModIs
<1> HIDE DEF q, r
<1>2. CASE q >= L
  <2>1. PICK e \in Nat : q = L + e
    <3>1. q - L \in Nat /\ q = L + (q - L)
      BY <1>1, <1>2
    <3> QED
      BY <3>1
  <2>2. L * q = L * L + L * e /\ L * e \in Nat
    BY <2>1
  <2> QED
    BY <1>1, <1>2, <2>2 DEF q
<1>3. CASE q < L
  <2>1. PICK e \in Nat : L = q + 1 + e
    <3>1. L - q - 1 \in Nat /\ L = q + 1 + (L - q - 1)
      BY <1>1, <1>3
    <3> QED
      BY <3>1
  <2>2. L * L = L * q + L + L * e /\ L * e \in Nat
    BY <2>1, <1>1
  <2> QED
    BY <1>1, <1>3, <2>2 DEF q
<1> QED
  BY <1>1, <1>2, <1>3

(* The octets of the padding.                                              *)
LEMMA ZerosAre ==
    ASSUME NEW n \in Nat
    PROVE  Zeros(n) \in Seq(Octet) /\ Len(Zeros(n)) = n /\ \A x \in 1 .. n : Zeros(n)[x] = 0
BY DEF Zeros, Octet

ZerosJoined(a, b) == Zeros(a) \o Zeros(b) = Zeros(a + b)

(* Zeros put after zeros.                                                  *)
LEMMA ZerosJoin ==
    ASSUME NEW a \in Nat, NEW b \in Nat
    PROVE  ZerosJoined(a, b)
<1>1. /\ Zeros(a) \in Seq(Octet) /\ Len(Zeros(a)) = a /\ \A x \in 1 .. a : Zeros(a)[x] = 0
      /\ Zeros(b) \in Seq(Octet) /\ Len(Zeros(b)) = b /\ \A x \in 1 .. b : Zeros(b)[x] = 0
      /\ Zeros(a + b) \in Seq(Octet) /\ Len(Zeros(a + b)) = a + b
      /\ \A x \in 1 .. a + b : Zeros(a + b)[x] = 0
  BY ZerosAre
<1> DEFINE c == Zeros(a) \o Zeros(b)
<1>2. /\ c \in Seq(Octet) /\ Len(c) = a + b
      /\ \A x \in 1 .. a + b : c[x] = IF x <= a THEN Zeros(a)[x] ELSE Zeros(b)[x - a]
  <2>1. /\ c \in Seq(Octet) /\ Len(c) = Len(Zeros(a)) + Len(Zeros(b))
        /\ \A x \in 1 .. Len(Zeros(a)) + Len(Zeros(b)) :
              c[x] = IF x <= Len(Zeros(a)) THEN Zeros(a)[x] ELSE Zeros(b)[x - Len(Zeros(a))]
    BY <1>1, ConcatProperties
  <2> QED
    BY <2>1, <1>1
<1>3. \A x \in 1 .. a + b : c[x] = 0
  BY <1>1, <1>2
<1> HIDE DEF c
<1>4. c = Zeros(a + b)
  BY <1>1, <1>2, <1>3, SeqEqual
<1> QED
  BY <1>4 DEF c, ZerosJoined

(* A length word is four octets.                                           *)
LEMMA LengthOctetsAre ==
    ASSUME NEW n \in Nat
    PROVE  LengthOctets(n) \in Seq(Octet) /\ Len(LengthOctets(n)) = 4
<1>1. ASSUME NEW k \in 1 .. 4
      PROVE  (n \div <<16777216, 65536, 256, 1>>[k]) % 256 \in Octet
  <2>1. PICK c \in Nat \ {0} : c = <<16777216, 65536, 256, 1>>[k]
    OBVIOUS
  <2>2. n \div c \in Nat
    BY DivModIs
  <2>3. (n \div c) % 256 \in 0 .. 255
    BY <2>2
  <2> QED
    BY <2>1, <2>3 DEF Octet
<1>2. LengthOctets(n) \in [1 .. 4 -> Octet]
  BY <1>1, SMT DEF LengthOctets
<1> DEFINE e == LengthOctets(n)
<1> HIDE DEF e
<1>3. ASSUME e \in [1 .. 4 -> Octet]
      PROVE  e \in Seq(Octet) /\ Len(e) = 4
  <2>1. e = [k \in 1 .. 4 |-> e[k]] /\ \A k \in 1 .. 4 : e[k] \in Octet
    BY <1>3
  <2>2. [k \in 1 .. 4 |-> e[k]] \in Seq(Octet) /\ Len([k \in 1 .. 4 |-> e[k]]) = 4
    BY <2>1
  <2> QED
    BY <2>1, <2>2
<1> QED
  BY <1>2, <1>3 DEF e

-----------------------------------------------------------------------------
(* The digest object while it takes a message                              *)

IsObject(s) ==
    s = [H |-> s.H, block |-> s.block, low |-> s.low, high |-> s.high,
         computed |-> s.computed, corrupted |-> s.corrupted]

\* The two length words count the bits of n octets.
CountRight(s, n, L) == Counts(s.low, s.high, n, L)

\* The full blocks p of the message are hashed, the rest waits in the block.
HashedUpTo(s, m, p, k) ==
    /\ p \in Seq(Octet) /\ Len(p) = BlockSize * k
    /\ s.block \in Seq(Octet) /\ Len(s.block) < BlockSize
    /\ m = p \o s.block
    /\ s.H = Hashed(Reset.H, p)

Full(m, L) == 8 * Len(m) >= L * L

\* The object was given the message m since the last Reset.
Took(s, m, L) ==
    /\ IsObject(s)
    /\ m \in Seq(Octet)
    /\ IF Full(m, L) THEN s.corrupted = TRUE
       ELSE /\ s.corrupted = FALSE /\ s.computed = FALSE
            /\ CountRight(s, Len(m), L)
            /\ \E p, k : k \in Nat /\ HashedUpTo(s, m, p, k)

Object(h, b, lo, hi, c, d) ==
    [H |-> h, block |-> b, low |-> lo, high |-> hi, computed |-> c, corrupted |-> d]

(* An object and its fields, some of them replaced.                        *)
LEMMA ObjectIs ==
    ASSUME NEW s, IsObject(s)
    PROVE  s = Object(s.H, s.block, s.low, s.high, s.computed, s.corrupted)
BY Zenon DEF IsObject, Object

(* The fields of an object put together from them.                         *)
LEMMA ObjectFields ==
    ASSUME NEW h, NEW b, NEW lo, NEW hi, NEW c, NEW d
    PROVE  LET r == Object(h, b, lo, hi, c, d)
           IN  /\ IsObject(r)
               /\ r.H = h /\ r.block = b /\ r.low = lo /\ r.high = hi
               /\ r.computed = c /\ r.corrupted = d
BY DEF Object, IsObject

(* An object with another block.                                           *)
LEMMA BlockIs ==
    ASSUME NEW s, IsObject(s), NEW z
    PROVE  [s EXCEPT !.block = z] = Object(s.H, z, s.low, s.high, s.computed, s.corrupted)
<1>1. PICK h, b, lo, hi, c, d :
         h = s.H /\ b = s.block /\ lo = s.low /\ hi = s.high /\ c = s.computed /\ d = s.corrupted
  BY Zenon
<1>2. s = Object(h, b, lo, hi, c, d)
  BY <1>1, ObjectIs, Zenon
<1>3. [Object(h, b, lo, hi, c, d) EXCEPT !.block = z] = Object(h, z, lo, hi, c, d)
  BY DEF Object
<1> QED
  BY <1>1, <1>2, <1>3, Zenon

(* An object with another corrupted flag.                                  *)
LEMMA CorruptedIs ==
    ASSUME NEW s, IsObject(s), NEW z
    PROVE  [s EXCEPT !.corrupted = z] = Object(s.H, s.block, s.low, s.high, s.computed, z)
<1>1. PICK h, b, lo, hi, c, d :
         h = s.H /\ b = s.block /\ lo = s.low /\ hi = s.high /\ c = s.computed /\ d = s.corrupted
  BY Zenon
<1>2. s = Object(h, b, lo, hi, c, d)
  BY <1>1, ObjectIs, Zenon
<1>3. [Object(h, b, lo, hi, c, d) EXCEPT !.corrupted = z] = Object(h, b, lo, hi, c, z)
  BY DEF Object
<1> QED
  BY <1>1, <1>2, <1>3, Zenon

(* An object that took an octet into its block and counted it.             *)
LEMMA CountedIs ==
    ASSUME NEW s, IsObject(s), NEW x, NEW L
    PROVE  LET lo == (s.low + 8) % L
               hi == IF lo = 0 THEN (s.high + 1) % L ELSE s.high
           IN  Counted([s EXCEPT !.block = Append(@, x)], L)
               = Object(s.H, Append(s.block, x), lo, hi,
                        s.computed, s.corrupted \/ (lo = 0 /\ hi = 0))
<1> DEFINE t == [s EXCEPT !.block = Append(@, x)]
           b == Append(s.block, x)
           lo == (s.low + 8) % L
           hi == IF lo = 0 THEN (s.high + 1) % L ELSE s.high
           d == s.corrupted \/ (lo = 0 /\ hi = 0)
<1>1. t = Object(s.H, b, s.low, s.high, s.computed, s.corrupted)
  <2> HIDE DEF b
  <2>1. [s EXCEPT !.block = b] = Object(s.H, b, s.low, s.high, s.computed, s.corrupted)
    BY BlockIs
  <2> QED
    BY <2>1 DEF b
<1> HIDE DEF b, t
<1>2. t.low = s.low /\ t.high = s.high /\ t.corrupted = s.corrupted
  BY <1>1, ObjectFields
<1>3. Counted(t, L) = [t EXCEPT !.low = lo, !.high = hi, !.corrupted = d]
  BY <1>2, Zenon DEF Counted
<1> HIDE DEF lo, hi, d
<1>4. [t EXCEPT !.low = lo, !.high = hi, !.corrupted = d]
      = [[[t EXCEPT !.low = lo] EXCEPT !.high = hi] EXCEPT !.corrupted = d]
  OBVIOUS
<1>5. PICK t1 : t1 = [t EXCEPT !.low = lo]
  BY Zenon
<1>6. PICK t2 : t2 = [t1 EXCEPT !.high = hi]
  BY Zenon
<1>7. t1 = Object(s.H, b, lo, s.high, s.computed, s.corrupted)
  BY <1>1, <1>5 DEF Object
<1>8. t2 = Object(s.H, b, lo, hi, s.computed, s.corrupted)
  BY <1>6, <1>7 DEF Object
<1>9. [t2 EXCEPT !.corrupted = d] = Object(s.H, b, lo, hi, s.computed, d)
  BY <1>8 DEF Object
<1> QED
  BY <1>3, <1>4, <1>5, <1>6, <1>9, Zenon DEF t, b, lo, hi, d

(* An object whose block was hashed.                                       *)
LEMMA ProcessedIs ==
    ASSUME NEW s, IsObject(s)
    PROVE  ProcessMessageBlock(s)
           = Object(Compressed(s.H, s.block), <<>>, s.low, s.high, s.computed, s.corrupted)
<1> DEFINE h == Compressed(s.H, s.block)
<1>1. ProcessMessageBlock(s) = [s EXCEPT !.H = h, !.block = <<>>]
  BY Zenon DEF ProcessMessageBlock
<1> HIDE DEF h
<1>2. [s EXCEPT !.H = h, !.block = <<>>] = [[s EXCEPT !.H = h] EXCEPT !.block = <<>>]
  OBVIOUS
<1>3. PICK s1 : s1 = [s EXCEPT !.H = h]
  BY Zenon
<1>4. s1 = Object(h, s.block, s.low, s.high, s.computed, s.corrupted)
  <2>1. s = Object(s.H, s.block, s.low, s.high, s.computed, s.corrupted)
    BY ObjectIs
  <2>2. PICK a, b, lo, hi, c, d :
           a = s.H /\ b = s.block /\ lo = s.low /\ hi = s.high /\ c = s.computed /\ d = s.corrupted
    BY Zenon
  <2>3. s = Object(a, b, lo, hi, c, d)
    BY <2>1, <2>2, Zenon
  <2>4. s1 = Object(h, b, lo, hi, c, d)
    BY <1>3, <2>3 DEF Object
  <2> QED
    BY <2>2, <2>4, Zenon
<1>5. [s1 EXCEPT !.block = <<>>] = Object(h, <<>>, s.low, s.high, s.computed, s.corrupted)
  BY <1>4 DEF Object
<1> QED
  BY <1>1, <1>2, <1>3, <1>5, Zenon DEF h

(* A new object has taken nothing.                                         *)
LEMMA ResetTook ==
    ASSUME NEW L \in LengthLimits
    PROVE  Took(Reset, <<>>, L)
<1>1. L \in Nat \ {0}
  BY LimitsAssumption
<1>2. IsObject(Reset)
  <2> DEFINE h == << Word(\h6745, \h2301), Word(\hEFCD, \hAB89), Word(\h98BA, \hDCFE),
                     Word(\h1032, \h5476), Word(\hC3D2, \hE1F0) >>
  <2>1. Reset = [H |-> h, block |-> <<>>, low |-> 0, high |-> 0,
                 computed |-> FALSE, corrupted |-> FALSE]
    BY DEF Reset
  <2> HIDE DEF h
  <2> QED
    BY <2>1 DEF IsObject
<1>3. /\ Reset.block = <<>> /\ Reset.low = 0 /\ Reset.high = 0
      /\ Reset.computed = FALSE /\ Reset.corrupted = FALSE
  BY DEF Reset
<1>4. Len(<<>>) = 0 /\ <<>> \in Seq(Octet) /\ <<>> \o <<>> = <<>>
  OBVIOUS
<1>5. ~Full(<<>>, L)
  <2>1. L * L > 0
    BY <1>1
  <2> QED
    BY <2>1, <1>1, <1>4 DEF Full
<1>6. CountRight(Reset, Len(<<>>), L)
  BY <1>1, <1>3, <1>4 DEF CountRight, Counts
<1>7. HashedUpTo(Reset, <<>>, <<>>, 0)
  <2>1. Reset.H = Hashed(Reset.H, <<>>)
    BY HashedNothing
  <2> QED
    BY <2>1, <1>3, <1>4 DEF HashedUpTo, BlockSize
<1>8. 0 \in Nat
  OBVIOUS
<1> QED
  BY <1>2, <1>3, <1>4, <1>5, <1>6, <1>7, <1>8 DEF Took

AppendsInto(p, b, x) == Append(p \o b, x) = p \o Append(b, x)

(* An element appended to the second part of a sequence.                   *)
LEMMA AppendToConcat ==
    ASSUME NEW S, NEW p \in Seq(S), NEW b \in Seq(S), NEW x \in S
    PROVE  AppendsInto(p, b, x)
<1>1. p \o b \in Seq(S) /\ <<x>> \in Seq(S)
  BY ConcatProperties
<1>2. Append(p \o b, x) = (p \o b) \o <<x>>
  BY <1>1, AppendIsConcat
<1>3. Append(b, x) = b \o <<x>>
  BY AppendIsConcat
<1> QED
  BY <1>1, <1>2, <1>3, ConcatAssociative DEF AppendsInto

(* Input: the object has taken one octet more.                             *)
LEMMA InputTakes ==
    ASSUME NEW L \in LengthLimits, NEW s, NEW m, Took(s, m, L), NEW x \in Octet
    PROVE  Took(Input(s, x, L), Append(m, x), L)
<1> DEFINE m2 == Append(m, x)
           n == Len(m)
<1>1. L \in Nat \ {0} /\ L % 8 = 0
  BY LimitsAssumption
<1>2. m2 \in Seq(Octet) /\ n \in Nat /\ Len(m2) = n + 1 /\ m \in Seq(Octet) /\ IsObject(s)
  BY DEF Took
<1> HIDE DEF m2, n
<1>3. CASE Full(m, L)
  <2>1. s.corrupted = TRUE
    BY <1>3 DEF Took
  <2>2. Input(s, x, L) = [s EXCEPT !.corrupted = TRUE]
    BY <2>1 DEF Input
  <2>3. [s EXCEPT !.corrupted = TRUE]
        = Object(s.H, s.block, s.low, s.high, s.computed, TRUE)
    BY <1>2, CorruptedIs, Zenon
  <2>4. IsObject(Input(s, x, L)) /\ Input(s, x, L).corrupted = TRUE
    <3>1. PICK r : r = Object(s.H, s.block, s.low, s.high, s.computed, TRUE)
      BY Zenon
    <3>2. IsObject(r) /\ r.corrupted = TRUE
      <4>1. PICK e : e = TRUE
        BY Zenon
      <4>2. r = Object(s.H, s.block, s.low, s.high, s.computed, e)
        BY <3>1, <4>1, Zenon
      <4>3. IsObject(r) /\ r.corrupted = e
        BY <4>2 DEF Object, IsObject
      <4> QED
        BY <4>1, <4>3, Zenon
    <3> QED
      BY <2>2, <2>3, <3>1, <3>2, Zenon
  <2>5. Full(m2, L)
    <3>1. L * L \in Nat
      BY <1>1
    <3> QED
      BY <3>1, <1>2, <1>3 DEF Full, n
  <2> QED
    BY <2>4, <2>5, <1>2 DEF Took, m2
<1>4. CASE ~Full(m, L)
  <2>1. s.corrupted = FALSE /\ s.computed = FALSE /\ CountRight(s, n, L)
    BY <1>4 DEF Took, n
  <2>2. PICK p, k : k \in Nat /\ HashedUpTo(s, m, p, k)
    BY <1>4 DEF Took
  <2> DEFINE lo == (s.low + 8) % L
             hi == IF lo = 0 THEN (s.high + 1) % L ELSE s.high
             b == Append(s.block, x)
             t == Counted([s EXCEPT !.block = Append(@, x)], L)
  <2>3. IF lo = 0 /\ hi = 0 THEN 8 * (n + 1) >= L * L
        ELSE 8 * (n + 1) < L * L /\ Counts(lo, hi, n + 1, L)
    <3>1. CountsOn(s.low, s.high, lo, hi, L)
      BY Zenon DEF CountsOn
    <3> HIDE DEF lo, hi
    <3> QED
      BY <1>1, <1>2, <2>1, <3>1, CountStep DEF CountRight
  <2>4. t = Object(s.H, b, lo, hi, s.computed, s.corrupted \/ (lo = 0 /\ hi = 0))
    BY <1>2, CountedIs, Zenon
  <2>5. Input(s, x, L) = IF Len(t.block) = BlockSize THEN ProcessMessageBlock(t) ELSE t
    BY <2>1 DEF Input
  <2>6. /\ p \in Seq(Octet) /\ Len(p) = BlockSize * k /\ s.block \in Seq(Octet)
        /\ Len(s.block) < BlockSize /\ m = p \o s.block /\ s.H = Hashed(Reset.H, p)
    BY <2>2 DEF HashedUpTo
  <2>7. b \in Seq(Octet) /\ Len(b) = Len(s.block) + 1
    BY <2>6
  <2>8. m2 = p \o b
    <3>1. AppendsInto(p, s.block, x)
      BY <2>6, AppendToConcat
    <3> QED
      BY <3>1, <2>6 DEF m2, AppendsInto
  <2>9. Full(m2, L) <=> (lo = 0 /\ hi = 0)
    <3> HIDE DEF lo, hi
    <3> QED
      BY <1>1, <1>2, <2>3 DEF Full
  <2> HIDE DEF lo, hi, b, t
  <2>10. /\ IsObject(t) /\ t.block = b /\ t.H = s.H /\ t.low = lo /\ t.high = hi
         /\ t.computed = s.computed /\ t.corrupted = (s.corrupted \/ (lo = 0 /\ hi = 0))
    BY <2>4, ObjectFields
  <2>11. t.computed = FALSE /\ (IF Full(m2, L) THEN t.corrupted = TRUE ELSE t.corrupted = FALSE)
    BY <2>1, <2>9, <2>10
  <2>12. ~Full(m2, L) => CountRight(t, n + 1, L)
    BY <2>3, <2>9, <2>10 DEF CountRight
  <2>13. CASE Len(b) = BlockSize
    <3> DEFINE u == ProcessMessageBlock(t)
    <3>1. Input(s, x, L) = u
      BY <2>5, <2>10, <2>13
    <3>2. u = Object(Compressed(t.H, t.block), <<>>, t.low, t.high, t.computed, t.corrupted)
      BY <2>10, ProcessedIs
    <3> HIDE DEF u
    <3>3. /\ IsObject(u) /\ u.H = Compressed(s.H, b) /\ u.block = <<>> /\ u.low = t.low
          /\ u.high = t.high /\ u.computed = t.computed /\ u.corrupted = t.corrupted
      BY <3>2, <2>10, ObjectFields
    <3>4. CountRight(t, n + 1, L) => CountRight(u, n + 1, L)
      BY <3>3 DEF CountRight
    <3>5. Compressed(s.H, b) = Hashed(Reset.H, m2)
      BY <2>2, <2>6, <2>7, <2>8, <2>13, HashedBlock
    <3>6. HashedUpTo(u, m2, m2, k + 1) /\ k + 1 \in Nat
      <4>1. Len(m2) = BlockSize * (k + 1) /\ k + 1 \in Nat
        <5>1. Len(p \o b) = Len(p) + Len(b)
          BY <2>6, <2>7, ConcatProperties
        <5> QED
          BY <5>1, <2>2, <2>6, <2>8, <2>13 DEF BlockSize
      <4>2. m2 \o <<>> = m2 /\ <<>> \in Seq(Octet) /\ Len(<<>>) = 0
        BY <1>2
      <4> QED
        BY <4>1, <4>2, <3>3, <3>5, <1>2 DEF HashedUpTo, BlockSize
    <3>7. IF Full(m2, L) THEN u.corrupted = TRUE ELSE u.corrupted = FALSE
      BY <2>11, <3>3
    <3>8. Took(u, m2, L)
      BY <1>2, <2>11, <2>12, <3>3, <3>4, <3>6, <3>7 DEF Took
    <3> QED
      BY <3>1, <3>8 DEF m2
  <2>14. CASE Len(b) # BlockSize
    <3>1. Input(s, x, L) = t
      BY <2>5, <2>10, <2>14
    <3>2. Len(b) < BlockSize
      BY <2>6, <2>7, <2>14 DEF BlockSize
    <3>3. HashedUpTo(t, m2, p, k)
      BY <3>2, <2>6, <2>7, <2>8, <2>10 DEF HashedUpTo
    <3>4. Took(t, m2, L)
      BY <1>2, <2>2, <2>10, <2>11, <2>12, <3>3 DEF Took
    <3> QED
      BY <3>1, <3>4 DEF m2
  <2> QED
    BY <2>13, <2>14
<1> QED
  BY <1>3, <1>4

-----------------------------------------------------------------------------
(* The digest the object gives                                             *)

Associates(s, t, u) == (s \o t) \o u = s \o (t \o u)

(* Putting sequences of octets together is associative.                    *)
LEMMA OctetsAssociate ==
    ASSUME NEW s \in Seq(Octet), NEW t \in Seq(Octet), NEW u \in Seq(Octet)
    PROVE  Associates(s, t, u) /\ s \o t \in Seq(Octet)
<1>1. (s \o t) \o u = s \o (t \o u)
  BY ConcatAssociative
<1>2. s \o t \in Seq(Octet)
  BY ConcatProperties
<1> QED
  BY <1>1, <1>2 DEF Associates

OneBlockJoined(p, b, o, z, h, l) ==
    p \o (((b \o o) \o z) \o (h \o l)) = ((((p \o b) \o o) \o z) \o h) \o l
TwoBlocksJoined(p, b, o, y, z, h, l) ==
    (p \o ((b \o o) \o y)) \o (z \o (h \o l)) = ((((p \o b) \o o) \o (y \o z)) \o h) \o l

\* The sequence s is n octets.
OfLength(s, n) == s \in Seq(Octet) /\ Len(s) = n

(* Lengths of octets put together.                                         *)
LEMMA LengthsAdd ==
    ASSUME NEW s, NEW t, NEW a, NEW c, OfLength(s, a), OfLength(t, c)
    PROVE  OfLength(s \o t, a + c)
<1>1. s \in Seq(Octet) /\ t \in Seq(Octet) /\ Len(s) = a /\ Len(t) = c
  BY DEF OfLength
<1>2. s \o t \in Seq(Octet) /\ Len(s \o t) = Len(s) + Len(t)
  BY <1>1, ConcatProperties
<1> QED
  BY <1>1, <1>2 DEF OfLength

(* Zeros are octets.                                                       *)
LEMMA ZerosLength == ASSUME NEW n \in Nat PROVE OfLength(Zeros(n), n)
BY ZerosAre DEF OfLength

(* Pieces of a padded message, put together in the order of the object and *)
(* in the order of the standard: with one block padded, and with two.      *)
LEMMA OneBlockJoins ==
    ASSUME NEW p \in Seq(Octet), NEW b \in Seq(Octet), NEW o \in Seq(Octet),
           NEW z \in Seq(Octet), NEW h \in Seq(Octet), NEW l \in Seq(Octet)
    PROVE  OneBlockJoined(p, b, o, z, h, l)
<1>1. /\ b \o o \in Seq(Octet) /\ (b \o o) \o z \in Seq(Octet) /\ h \o l \in Seq(Octet)
      /\ p \o b \in Seq(Octet) /\ (p \o b) \o o \in Seq(Octet)
      /\ ((p \o b) \o o) \o z \in Seq(Octet)
  BY OctetsAssociate
<1>2. Associates(p, (b \o o) \o z, h \o l)
  BY <1>1, OctetsAssociate
<1>3. Associates(p, b \o o, z)
  BY <1>1, OctetsAssociate
<1>4. Associates(p, b, o)
  BY <1>1, OctetsAssociate
<1>5. Associates(((p \o b) \o o) \o z, h, l)
  BY <1>1, OctetsAssociate
<1> QED
  BY <1>2, <1>3, <1>4, <1>5 DEF Associates, OneBlockJoined

(* The same with two blocks padded.                                        *)
LEMMA TwoBlocksJoin ==
    ASSUME NEW p \in Seq(Octet), NEW b \in Seq(Octet), NEW o \in Seq(Octet), NEW y \in Seq(Octet),
           NEW z \in Seq(Octet), NEW h \in Seq(Octet), NEW l \in Seq(Octet)
    PROVE  TwoBlocksJoined(p, b, o, y, z, h, l)
<1> DEFINE x == (p \o b) \o o
           t == h \o l
<1>1. /\ b \o o \in Seq(Octet) /\ p \o b \in Seq(Octet) /\ x \in Seq(Octet) /\ t \in Seq(Octet)
      /\ y \o z \in Seq(Octet)
  BY OctetsAssociate
<1>2. Associates(p, b \o o, y)
  BY <1>1, OctetsAssociate
<1>3. Associates(p, b, o)
  BY <1>1, OctetsAssociate
<1> HIDE DEF x, t
<1>4. z \o t \in Seq(Octet) /\ x \o (y \o z) \in Seq(Octet)
  BY <1>1, OctetsAssociate
<1>5. Associates(x, y, z \o t)
  BY <1>1, <1>4, OctetsAssociate
<1>6. Associates(y, z, t)
  BY <1>1, OctetsAssociate
<1>7. Associates(x, y \o z, t)
  BY <1>1, OctetsAssociate
<1>8. Associates(x \o (y \o z), h, l)
  BY <1>4, OctetsAssociate
<1>9. p \o ((b \o o) \o y) = x \o y
  BY <1>2, <1>3 DEF Associates, x
<1>10. (x \o y) \o (z \o t) = ((x \o (y \o z)) \o h) \o l
  BY <1>5, <1>6, <1>7, <1>8 DEF Associates, t
<1> QED
  BY <1>9, <1>10 DEF x, t, TwoBlocksJoined

(* One number of zeros fills the block.                                    *)
LEMMA SameRest ==
    ASSUME NEW c \in Nat, NEW z1 \in 0 .. 63, NEW z2 \in 0 .. 63,
           (c + z1) % 64 = 0, (c + z2) % 64 = 0
    PROVE  z1 = z2
<1>1. PICK q1 \in Nat : c + z1 = 64 * q1
  <2>1. c + z1 \in Nat /\ 64 \in Nat \ {0}
    OBVIOUS
  <2>2. (c + z1) \div 64 \in Nat /\ c + z1 = 64 * ((c + z1) \div 64) + ((c + z1) % 64)
    BY <2>1, DivModIs
  <2> QED
    BY <2>2
<1>2. PICK q2 \in Nat : c + z2 = 64 * q2
  <2>1. c + z2 \in Nat /\ 64 \in Nat \ {0}
    OBVIOUS
  <2>2. (c + z2) \div 64 \in Nat /\ c + z2 = 64 * ((c + z2) \div 64) + ((c + z2) % 64)
    BY <2>1, DivModIs
  <2> QED
    BY <2>2
<1> QED
  BY <1>1, <1>2

IsPadding(w, m, n, hi, lo) ==
    w = (((m \o <<128>>) \o Zeros(IF n <= 55 THEN 55 - n ELSE 119 - n)) \o LengthOctets(hi))
        \o LengthOctets(lo)

(* The standard's padding of a message whose last block has n octets.      *)
LEMMA PaddedIs ==
    ASSUME NEW L \in LengthLimits, NEW m \in Seq(Octet), NEW k \in Nat, NEW n \in 0 .. 63,
           Len(m) = BlockSize * k + n,
           NEW lo, NEW hi, Counts(lo, hi, Len(m), L)
    PROVE  IsPadding(Padded(m, L), m, n, hi, lo)
<1> DEFINE z == IF n <= 55 THEN 55 - n ELSE 119 - n
           chosen == CHOOSE y \in 0 .. BlockSize - 1 : (Len(m) + 1 + y + 8) % BlockSize = 0
<1>1. z \in 0 .. BlockSize - 1 /\ (Len(m) + 1 + z + 8) % BlockSize = 0
  <2>1. CASE n <= 55
    <3>1. Len(m) + 1 + z + 8 = 64 * (k + 1)
      BY <2>1 DEF BlockSize
    <3> QED
      BY <3>1, <2>1 DEF BlockSize
  <2>2. CASE n > 55
    <3>1. Len(m) + 1 + z + 8 = 64 * (k + 2)
      BY <2>2 DEF BlockSize
    <3> QED
      BY <3>1, <2>2 DEF BlockSize
  <2> QED
    BY <2>1, <2>2
<1>2. chosen \in 0 .. BlockSize - 1 /\ (Len(m) + 1 + chosen + 8) % BlockSize = 0
  <2> HIDE DEF z
  <2> QED
    BY <1>1
<1> HIDE DEF chosen
<1>3. chosen = z
  <2> DEFINE c == Len(m) + 1 + 8
  <2>1. c \in Nat /\ Len(m) + 1 + z + 8 = c + z /\ Len(m) + 1 + chosen + 8 = c + chosen
        /\ z \in 0 .. 63 /\ chosen \in 0 .. 63
    BY <1>1, <1>2 DEF BlockSize
  <2>2. (c + z) % 64 = 0 /\ (c + chosen) % 64 = 0
    BY <1>1, <1>2, <2>1 DEF BlockSize
  <2> HIDE DEF c, z
  <2> QED
    BY <2>1, <2>2, SameRest
<1>4. (8 * Len(m)) \div L = hi /\ (8 * Len(m)) % L = lo
  <2>1. L \in Nat \ {0}
    BY LimitsAssumption
  <2>2. lo \in Nat /\ hi \in Nat /\ lo < L /\ L * hi + lo = 8 * Len(m)
    BY DEF Counts
  <2>3. (L * hi + lo) \div L = hi /\ (L * hi + lo) % L = lo
    BY <2>1, <2>2, DivModUnique
  <2> QED
    BY <2>2, <2>3
<1>5. Padded(m, L) = (((m \o <<128>>) \o Zeros(chosen)) \o LengthOctets((8 * Len(m)) \div L))
                     \o LengthOctets((8 * Len(m)) % L)
  BY DEF Padded, chosen
<1> HIDE DEF z
<1> QED
  BY <1>3, <1>4, <1>5 DEF z, IsPadding

\* One block more on what is hashed.
HashesOn(p, b) == Hashed(Reset.H, p \o b) = Compressed(Hashed(Reset.H, p), b)

(* Whole blocks of a message and one more.                                 *)
LEMMA OneMoreBlock ==
    ASSUME NEW p \in Seq(Octet), NEW k \in Nat, Len(p) = BlockSize * k,
           NEW b \in Seq(Octet), Len(b) = BlockSize
    PROVE  HashesOn(p, b) /\ p \o b \in Seq(Octet) /\ Len(p \o b) = BlockSize * (k + 1)
<1>1. p \o b \in Seq(Octet) /\ Len(p \o b) = Len(p) + Len(b)
  BY ConcatProperties
<1>2. HashesOn(p, b)
  BY HashedBlock DEF HashesOn
<1> QED
  BY <1>1, <1>2 DEF BlockSize

(* PadMessage: the words of the padded object.                             *)
LEMMA PaddedWords ==
    ASSUME NEW s, IsObject(s), NEW p, NEW m, NEW k \in Nat, HashedUpTo(s, m, p, k),
           s.high \in Nat, s.low \in Nat
    PROVE  /\ IsObject(PadMessage(s))
           /\ PadMessage(s).H
              = Hashed(Reset.H, (((m \o <<128>>)
                                  \o Zeros(IF Len(s.block) <= 55 THEN 55 - Len(s.block)
                                           ELSE 119 - Len(s.block)))
                                 \o LengthOctets(s.high)) \o LengthOctets(s.low))
<1>7. PICK b, n, h, l : b = s.block /\ n = Len(b) /\ h = LengthOctets(s.high) /\ l = LengthOctets(s.low)
  BY Zenon
<1>8. OfLength(h, 4) /\ OfLength(l, 4) /\ h \in Seq(Octet) /\ l \in Seq(Octet)
  BY <1>7, LengthOctetsAre DEF OfLength
<1>1. /\ p \in Seq(Octet) /\ Len(p) = BlockSize * k /\ b \in Seq(Octet) /\ n \in 0 .. 63
      /\ m = p \o b /\ s.H = Hashed(Reset.H, p)
  <2>1. /\ p \in Seq(Octet) /\ Len(p) = BlockSize * k /\ b \in Seq(Octet) /\ Len(b) < BlockSize
        /\ m = p \o b /\ s.H = Hashed(Reset.H, p)
    BY <1>7 DEF HashedUpTo
  <2>2. Len(b) \in Nat
    BY <2>1, LenProperties
  <2>3. PICK j \in Nat : j = Len(b)
    BY <2>2
  <2>4. j < 64
    BY <2>1, <2>3 DEF BlockSize
  <2> QED
    <3>1. n \in 0 .. 63
      <4>1. n = j
        BY <1>7, <2>3, Zenon
      <4> QED
        BY <4>1, <2>4
    <3> QED
      BY <1>7, <2>1, <3>1, Zenon
<1> DEFINE o == <<128>>
           t == h \o l
<1>2. OfLength(o, 1) /\ o \in Seq(Octet)
  BY DEF Octet, OfLength
<1>3. OfLength(t, 8)
  <2>1. OfLength(h \o l, 4 + 4)
    BY <1>8, LengthsAdd
  <2> QED
    BY <2>1
<1>9. OfLength(b, n)
  BY <1>1, <1>7 DEF OfLength
<1> HIDE DEF o, t
<1>4. OfLength(b \o o, n + 1)
  BY <1>2, <1>9, LengthsAdd
<1>5. CASE n > 55
  <2> DEFINE y == Zeros(63 - n)
             z == Zeros(56)
             b1 == (b \o o) \o y
             open == ProcessMessageBlock([s EXCEPT !.block = @ \o <<128>> \o Zeros(63 - n)])
  <2>1. OfLength(y, 63 - n) /\ OfLength(z, 56) /\ y \in Seq(Octet) /\ z \in Seq(Octet)
    <3>1. 63 - n \in Nat /\ 56 \in Nat
      BY <1>1, <1>5
    <3>2. OfLength(y, 63 - n) /\ OfLength(z, 56)
      BY <3>1, ZerosLength
    <3> QED
      BY <3>2 DEF OfLength
  <2>2. y \o z = Zeros(119 - n)
    <3>1. 63 - n \in Nat /\ 56 \in Nat /\ 63 - n + 56 = 119 - n
      BY <1>1, <1>5
    <3>2. ZerosJoined(63 - n, 56)
      BY <3>1, ZerosJoin
    <3> QED
      BY <3>1, <3>2 DEF ZerosJoined
  <2>3. PadMessage(s) = ProcessMessageBlock(
          [open EXCEPT !.block = @ \o Zeros(56 - Len(@)) \o t])
    BY <1>5, <1>7 DEF PadMessage, t
  <2> HIDE DEF y, z
  <2>4. b1 \in Seq(Octet) /\ Len(b1) = BlockSize
    <3>1. OfLength(b1, n + 1 + (63 - n))
      BY <1>4, <2>1, LengthsAdd
    <3> QED
      BY <3>1, <1>1 DEF BlockSize, OfLength
  <2> HIDE DEF b1
  <2>5. open = Object(Compressed(s.H, b1), <<>>, s.low, s.high, s.computed, s.corrupted)
    <3>1. PICK s1 : s1 = [s EXCEPT !.block = b1]
      BY Zenon
    <3>2. s1 = Object(s.H, b1, s.low, s.high, s.computed, s.corrupted)
      BY <3>1, BlockIs
    <3>3. /\ IsObject(s1) /\ s1.H = s.H /\ s1.block = b1 /\ s1.low = s.low /\ s1.high = s.high
          /\ s1.computed = s.computed /\ s1.corrupted = s.corrupted
      BY <3>2, ObjectFields
    <3>4. ProcessMessageBlock(s1)
          = Object(Compressed(s1.H, s1.block), <<>>, s1.low, s1.high, s1.computed, s1.corrupted)
      BY <3>3, ProcessedIs
    <3>5. open = ProcessMessageBlock(s1)
      BY <1>7, <3>1 DEF b1, y, o
    <3> QED
      BY <3>3, <3>4, <3>5, Zenon
  <2> HIDE DEF open
  <2>6. IsObject(open) /\ open.H = Compressed(s.H, b1) /\ open.block = <<>>
    BY <2>5, ObjectFields
  <2> DEFINE b2 == z \o t
  <2>7. b2 \in Seq(Octet) /\ Len(b2) = BlockSize
    <3>1. OfLength(b2, 56 + 8)
      BY <1>3, <2>1, LengthsAdd
    <3> QED
      BY <3>1 DEF BlockSize, OfLength
  <2>8. [open EXCEPT !.block = @ \o Zeros(56 - Len(@)) \o t]
        = [open EXCEPT !.block = b2]
    <3>1. open.block \o Zeros(56 - Len(open.block)) = z
      <4>1. Len(<<>>) = 0 /\ 56 - 0 = 56
        OBVIOUS
      <4>2. <<>> \o z = z
        BY <2>1, ConcatEmptySeq
      <4> QED
        BY <4>1, <4>2, <2>6 DEF z
    <3> QED
      BY <3>1
  <2> HIDE DEF b2
  <2>9. PadMessage(s).H = Compressed(open.H, b2) /\ IsObject(PadMessage(s))
    <3>1. PICK s2 : s2 = [open EXCEPT !.block = b2]
      BY Zenon
    <3>2. s2 = Object(open.H, b2, open.low, open.high, open.computed, open.corrupted)
      BY <3>1, <2>6, BlockIs
    <3>3. IsObject(s2) /\ s2.H = open.H /\ s2.block = b2
      BY <3>2, ObjectFields
    <3>4. ProcessMessageBlock(s2)
          = Object(Compressed(s2.H, s2.block), <<>>, s2.low, s2.high, s2.computed, s2.corrupted)
      BY <3>3, ProcessedIs
    <3>5. PICK r : r = ProcessMessageBlock(s2)
      BY Zenon
    <3>6. r.H = Compressed(s2.H, s2.block) /\ IsObject(r)
      BY <3>4, <3>5, ObjectFields
    <3>7. PadMessage(s) = r
      BY <2>3, <2>8, <3>1, <3>5, Zenon
    <3> QED
      BY <3>3, <3>6, <3>7, Zenon
  <2>10. HashesOn(p, b1) /\ p \o b1 \in Seq(Octet) /\ Len(p \o b1) = BlockSize * (k + 1)
    BY <1>1, <2>4, OneMoreBlock
  <2>11. HashesOn(p \o b1, b2)
    <3>1. k + 1 \in Nat
      OBVIOUS
    <3> QED
      BY <3>1, <2>7, <2>10, OneMoreBlock
  <2>12. PadMessage(s).H = Hashed(Reset.H, (p \o b1) \o b2)
    BY <1>1, <2>6, <2>9, <2>10, <2>11 DEF HashesOn
  <2>13. (p \o b1) \o b2 = (((m \o o) \o Zeros(119 - n)) \o h) \o l
    <3>1. TwoBlocksJoined(p, b, o, y, z, h, l)
      BY <1>1, <1>2, <1>8, <2>1, TwoBlocksJoin
    <3> QED
      BY <3>1, <1>1, <2>2 DEF b1, b2, t, TwoBlocksJoined
  <2>14. (IF n <= 55 THEN 55 - n ELSE 119 - n) = 119 - n
    BY <1>1, <1>5
  <2> QED
    BY <1>7, <2>9, <2>12, <2>13, <2>14 DEF o
<1>6. CASE n <= 55
  <2> DEFINE z == Zeros(55 - n)
             open == [s EXCEPT !.block = @ \o <<128>>]
             b2 == ((b \o o) \o z) \o t
  <2>1. OfLength(z, 55 - n) /\ z \in Seq(Octet)
    <3>1. 55 - n \in Nat
      BY <1>1, <1>6
    <3>2. OfLength(z, 55 - n)
      BY <3>1, ZerosLength
    <3> QED
      BY <3>2 DEF OfLength
  <2>2. PadMessage(s) = ProcessMessageBlock(
          [open EXCEPT !.block = @ \o Zeros(56 - Len(@)) \o t])
    <3>1. ~(n > 55)
      BY <1>1, <1>6
    <3> QED
      BY <3>1, <1>7 DEF PadMessage, t
  <2> HIDE DEF z
  <2>3. b2 \in Seq(Octet) /\ Len(b2) = BlockSize
    <3>1. OfLength((b \o o) \o z, n + 1 + (55 - n))
      BY <1>4, <2>1, LengthsAdd
    <3>2. OfLength(b2, n + 1 + (55 - n) + 8)
      BY <3>1, <1>3, LengthsAdd
    <3> QED
      BY <3>2, <1>1 DEF BlockSize, OfLength
  <2>4. open = Object(s.H, b \o o, s.low, s.high, s.computed, s.corrupted)
    <3>1. PICK c : c = b \o o
      OBVIOUS
    <3>2. [s EXCEPT !.block = c] = Object(s.H, c, s.low, s.high, s.computed, s.corrupted)
      BY BlockIs
    <3> QED
      BY <1>7, <3>1, <3>2 DEF o
  <2> HIDE DEF open
  <2>5. IsObject(open) /\ open.H = s.H /\ open.block = b \o o
    <3>1. PICK c : c = b \o o
      OBVIOUS
    <3>2. open = Object(s.H, c, s.low, s.high, s.computed, s.corrupted)
      BY <2>4, <3>1
    <3>3. IsObject(open) /\ open.H = s.H /\ open.block = c
      BY <3>2, ObjectFields
    <3> QED
      BY <3>1, <3>3
  <2>6. [open EXCEPT !.block = @ \o Zeros(56 - Len(@)) \o t]
        = [open EXCEPT !.block = b2]
    <3>1. 56 - Len(open.block) = 55 - n
      BY <1>1, <1>4, <2>5 DEF OfLength
    <3> QED
      BY <3>1, <2>5 DEF z
  <2> HIDE DEF b2
  <2>7. PadMessage(s).H = Compressed(s.H, b2) /\ IsObject(PadMessage(s))
    <3>1. PICK s2 : s2 = [open EXCEPT !.block = b2]
      BY Zenon
    <3>2. s2 = Object(open.H, b2, open.low, open.high, open.computed, open.corrupted)
      BY <3>1, <2>5, BlockIs
    <3>3. IsObject(s2) /\ s2.H = open.H /\ s2.block = b2
      BY <3>2, ObjectFields
    <3>4. ProcessMessageBlock(s2)
          = Object(Compressed(s2.H, s2.block), <<>>, s2.low, s2.high, s2.computed, s2.corrupted)
      BY <3>3, ProcessedIs
    <3>5. PICK r : r = ProcessMessageBlock(s2)
      BY Zenon
    <3>6. r.H = Compressed(s2.H, s2.block) /\ IsObject(r)
      BY <3>4, <3>5, ObjectFields
    <3>7. PadMessage(s) = r
      BY <2>2, <2>6, <3>1, <3>5, Zenon
    <3> QED
      BY <2>5, <3>3, <3>6, <3>7, Zenon
  <2>8. HashesOn(p, b2)
    BY <1>1, <2>3, OneMoreBlock
  <2>9. PadMessage(s).H = Hashed(Reset.H, p \o b2)
    BY <1>1, <2>7, <2>8 DEF HashesOn
  <2>10. p \o b2 = (((m \o o) \o Zeros(55 - n)) \o h) \o l
    <3>1. OneBlockJoined(p, b, o, z, h, l)
      BY <1>1, <1>2, <1>8, <2>1, OneBlockJoins
    <3> QED
      BY <3>1, <1>1 DEF b2, z, t, OneBlockJoined
  <2>11. (IF n <= 55 THEN 55 - n ELSE 119 - n) = 55 - n
    BY <1>6
  <2> QED
    BY <1>7, <2>7, <2>9, <2>10, <2>11 DEF o
<1> QED
  BY <1>1, <1>5, <1>6

(* Result: an object that is not corrupted gives the standard's digest of  *)
(* what it took, and it is corrupted just when the length does not fit.    *)
LEMMA ResultIs ==
    ASSUME NEW L \in LengthLimits, NEW s, NEW m, Took(s, m, L)
    PROVE  /\ s.corrupted \in BOOLEAN
           /\ s.corrupted <=> (8 * Len(m)) \div L >= L
           /\ ~s.corrupted => Result(s).H = Digest(m, L)
<1>1. IsObject(s) /\ m \in Seq(Octet)
  BY DEF Took
<1>2. L \in Nat \ {0} /\ Len(m) \in Nat /\ 8 * Len(m) \in Nat
  BY <1>1, LenProperties, LimitsAssumption
<1>3. Full(m, L) <=> (8 * Len(m)) \div L >= L
  <2>1. PICK n \in Nat : n = 8 * Len(m)
    BY <1>2
  <2>2. n \div L >= L <=> n >= L * L
    BY <1>2, <2>1, FitsIs
  <2> QED
    BY <2>1, <2>2 DEF Full
<1>4. /\ s.corrupted \in BOOLEAN
      /\ s.corrupted <=> (8 * Len(m)) \div L >= L
  BY <1>3 DEF Took
<1>5. ASSUME ~s.corrupted
      PROVE  Result(s).H = Digest(m, L)
  <2>1. ~Full(m, L)
    BY <1>3, <1>4, <1>5
  <2>2. s.corrupted = FALSE /\ s.computed = FALSE /\ CountRight(s, Len(m), L)
    BY <2>1 DEF Took
  <2>3. PICK p, k : k \in Nat /\ HashedUpTo(s, m, p, k)
    BY <2>1 DEF Took
  <2>4. Counts(s.low, s.high, Len(m), L) /\ s.low \in Nat /\ s.high \in Nat
    BY <2>2 DEF CountRight, Counts
  <2>5. PICK n : n = Len(s.block)
    BY Zenon
  <2>6. n \in 0 .. 63 /\ Len(m) = BlockSize * k + n
    <3>1. /\ p \in Seq(Octet) /\ Len(p) = BlockSize * k /\ s.block \in Seq(Octet)
          /\ Len(s.block) < BlockSize /\ m = p \o s.block
      BY <2>3 DEF HashedUpTo
    <3>2. Len(p \o s.block) = Len(p) + Len(s.block)
      BY <3>1, ConcatProperties
    <3>3. n \in Nat
      BY <3>1, <2>5, LenProperties
    <3>4. n < 64
      BY <3>1, <2>5 DEF BlockSize
    <3>5. n \in 0 .. 63
      BY <3>3, <3>4
    <3>6. Len(m) = BlockSize * k + n
      BY <2>5, <3>1, <3>2
    <3> QED
      BY <3>5, <3>6
  <2>7. PICK w : w = (((m \o <<128>>) \o Zeros(IF n <= 55 THEN 55 - n ELSE 119 - n))
                      \o LengthOctets(s.high)) \o LengthOctets(s.low)
    OBVIOUS
  <2>8. Padded(m, L) = w
    <3>1. IsPadding(Padded(m, L), m, n, s.high, s.low)
      BY <1>1, <2>3, <2>4, <2>6, PaddedIs
    <3> QED
      BY <3>1, <2>7 DEF IsPadding
  <2>9. PadMessage(s).H = Hashed(Reset.H, w) /\ IsObject(PadMessage(s))
    BY <1>1, <2>3, <2>4, <2>5, <2>7, PaddedWords
  <2>10. PICK r : r = PadMessage(s)
    BY Zenon
  <2>11. IsObject(r) /\ r.H = Hashed(Reset.H, w)
    BY <2>9, <2>10, Zenon
  <2>12. Result(s) = [r EXCEPT !.computed = TRUE]
    BY <2>2, <2>10 DEF Result
  <2>13. [r EXCEPT !.computed = TRUE].H = r.H
    <3>1. PICK h, b, lo, hi, c, d :
             h = r.H /\ b = r.block /\ lo = r.low /\ hi = r.high /\ c = r.computed /\ d = r.corrupted
      BY Zenon
    <3>2. r = Object(h, b, lo, hi, c, d)
      BY <2>11, <3>1, ObjectIs, Zenon
    <3>3. [r EXCEPT !.computed = TRUE].H = h
      BY <3>2 DEF Object
    <3> QED
      BY <3>1, <3>3
  <2> QED
    BY <2>8, <2>11, <2>12, <2>13 DEF Digest
<1> QED
  BY <1>4, <1>5

-----------------------------------------------------------------------------
(* The inductive invariant of the tools                                    *)

\* "-" is the name by which sha takes its standard input.
Words == STRING \cup {"-"}

ToolTypes ==
    /\ limit \in LengthLimits
    /\ tool \in {"none", "sha", "shacmp"}
    /\ args \in Seq(Words)
    /\ i \in Nat \ {0} /\ i <= Len(Names) + 1

Idle == tool = "none" => fp = "none" /\ digests = <<>> /\ status = -1 /\ i = 1

\* The tools run when the transfer is over, so the files stay as they are.
AfterTransfer == tool # "none" => complete /\ commanded

\* An open file is the one the loop is at, and its first at bytes are what
\* the object was given.
ReadingRight ==
    fp # "none" =>
        /\ Running
        /\ i <= Len(Names) /\ fp = Names[i]
        /\ (fp = "-" /\ tool = "sha") \/ Opens(fp)
        /\ at \in 0 .. Len(Contents(fp))
        /\ Took(object, SubSeq(Contents(fp), 1, at), limit)

Readable == {n \in FileNames \cup {"-"} : n = "-" \/ Opens(n)}

\* The names that can have a digest, with the one they should have.
RightDigests ==
    {<<n, Digest(Contents(n), limit)>> : n \in {f \in Readable : ~TooLong(Contents(f))}}

DigestsRight == digests \in Seq(RightDigests)

\* What shacmp should say of its two files.
Verdict ==
    IF ~\A k \in 1 .. 2 : Opens(args[k]) /\ ~TooLong(disk[args[k]]) THEN SHA1_FILE_ERROR
    ELSE IF Digest(disk[args[1]], limit) = Digest(disk[args[2]], limit) THEN SHA1_COMPARE
    ELSE SHA1_NO_COMPARE

\* shacmp has the digests of the files it is done with, in their order.
CompareRight ==
    tool = "shacmp" /\ Len(args) = 2 =>
        /\ status = -1 => /\ Len(digests) = i - 1
                          /\ \A k \in 1 .. i - 1 : digests[k][1] = args[k] /\ Opens(args[k])
        /\ status # -1 => status = Verdict

ToolsInv == ToolTypes /\ Idle /\ AfterTransfer /\ ReadingRight /\ DigestsRight /\ CompareRight

(* The beginnings of a sequence.                                           *)
LEMMA BeginningGrows ==
    ASSUME NEW c \in Seq(Octet), NEW n \in 0 .. Len(c) - 1
    PROVE  /\ SubSeq(c, 1, n + 1) = Append(SubSeq(c, 1, n), c[n + 1])
           /\ c[n + 1] \in Octet
<1>1. Len(c) \in Nat /\ n \in Nat /\ n + 1 \in 1 .. Len(c)
  BY LenProperties
<1>2. \A x \in 1 .. n + 1 : c[x] \in Octet
  BY <1>1
<1>3. /\ SubSeq(c, 1, n + 1) \in Seq(Octet)
      /\ Len(SubSeq(c, 1, n + 1)) = n + 1
      /\ \A x \in 1 .. n + 1 : SubSeq(c, 1, n + 1)[x] = c[x]
  <2>1. /\ SubSeq(c, 1, n + 1) \in Seq(Octet)
        /\ Len(SubSeq(c, 1, n + 1)) = IF 1 <= n + 1 THEN n + 1 - 1 + 1 ELSE 0
        /\ \A x \in 1 .. n + 1 - 1 + 1 : SubSeq(c, 1, n + 1)[x] = c[1 + x - 1]
    BY <1>1, <1>2, SubSeqProperties
  <2> QED
    BY <2>1, <1>1
<1>4. /\ SubSeq(c, 1, n) \in Seq(Octet)
      /\ Len(SubSeq(c, 1, n)) = n
      /\ \A x \in 1 .. n : SubSeq(c, 1, n)[x] = c[x]
  <2>1. /\ SubSeq(c, 1, n) \in Seq(Octet)
        /\ Len(SubSeq(c, 1, n)) = IF 1 <= n THEN n - 1 + 1 ELSE 0
        /\ \A x \in 1 .. n - 1 + 1 : SubSeq(c, 1, n)[x] = c[1 + x - 1]
    BY <1>1, <1>2, SubSeqProperties
  <2> QED
    BY <2>1, <1>1
<1> DEFINE a == SubSeq(c, 1, n)
           b == SubSeq(c, 1, n + 1)
<1>5. c[n + 1] \in Octet
  BY <1>1
<1> HIDE DEF a, b
<1>6. b = Append(a, c[n + 1])
  <2>1. /\ Append(a, c[n + 1]) \in Seq(Octet)
        /\ Len(Append(a, c[n + 1])) = Len(a) + 1
        /\ \A x \in 1 .. Len(a) : Append(a, c[n + 1])[x] = a[x]
        /\ Append(a, c[n + 1])[Len(a) + 1] = c[n + 1]
    BY <1>4, <1>5, AppendProperties DEF a
  <2>2. a \in Seq(Octet) /\ Len(a) = n /\ b \in Seq(Octet) /\ Len(b) = n + 1
    BY <1>3, <1>4 DEF a, b
  <2>3. \A x \in 1 .. n + 1 : b[x] = Append(a, c[n + 1])[x]
    <3> SUFFICES ASSUME NEW x \in 1 .. n + 1 PROVE b[x] = Append(a, c[n + 1])[x]
      OBVIOUS
    <3>1. b[x] = c[x]
      BY <1>3 DEF b
    <3>2. CASE x = n + 1
      BY <3>1, <3>2, <2>1, <2>2
    <3>3. CASE x # n + 1
      <4>1. x \in 1 .. n
        BY <3>3, <1>1
      <4>2. a[x] = c[x]
        BY <4>1, <1>4 DEF a
      <4> QED
        BY <4>1, <4>2, <3>1, <2>1, <2>2
    <3> QED
      BY <3>2, <3>3
  <2> QED
    BY <2>1, <2>2, <2>3, SeqEqual
<1> QED
  BY <1>5, <1>6 DEF a, b

(* The empty beginning and the whole sequence.                             *)
LEMMA BeginningEnds ==
    ASSUME NEW c \in Seq(Octet)
    PROVE  SubSeq(c, 1, 0) = <<>> /\ SubSeq(c, 1, Len(c)) = c
<1>1. SubSeq(c, 1, 0) = <<>>
  BY SubSeqEmpty
<1>2. SubSeq(c, 1, Len(c)) = c
  BY SubSeqFull
<1> QED
  BY <1>1, <1>2

(* What a tool can read is a sequence of bytes.                            *)
LEMMA ReadableIs ==
    ASSUME CopyInv
    PROVE  /\ DOMAIN disk = FileNames /\ "-" \notin FileNames
           /\ \A n : n = "-" \/ Opens(n) => n \in Readable /\ Contents(n) \in Seq(Octet)
           /\ \A n : Opens(n) => n # "-" /\ Contents(n) = disk[n]
<1>1. disk \in [FileNames -> Seq(Byte) \cup {NoFile}]
  BY DEF CopyInv, TypesOK
<1>2. DOMAIN disk = FileNames
  BY <1>1
<1>3. "-" \notin FileNames
  BY DEF FileNames, Outputs
<1>4. Byte = Octet /\ Stdin \in Seq(Byte)
  BY CommandsAssumption DEF Byte, Octet
<1>5. \A n : Opens(n) => n \in FileNames /\ n # "-" /\ Contents(n) = disk[n]
  BY <1>2, <1>3 DEF Opens, Contents
<1>6. \A n : Opens(n) => disk[n] \in Seq(Octet)
  BY <1>1, <1>2, <1>4, <1>5 DEF Opens
<1>7. ASSUME NEW n, n = "-" \/ Opens(n)
      PROVE  n \in Readable /\ Contents(n) \in Seq(Octet)
  BY <1>4, <1>5, <1>6, <1>7 DEF Readable, Contents
<1> QED
  BY <1>2, <1>3, <1>5, <1>7

(* The names a tool goes through.                                          *)
LEMMA NamesAre ==
    ASSUME ToolTypes
    PROVE  /\ Names \in Seq(Words) /\ Len(Names) \in Nat
           /\ tool = "shacmp" => Names = args
<1>1. args \in Seq(Words) /\ <<"-">> \in Seq(Words)
  <2>1. "-" \in Words
    BY DEF Words
  <2>2. <<"-">> \in Seq(Words)
    BY <2>1
  <2> QED
    BY <2>2 DEF ToolTypes
<1>2. Names \in Seq(Words)
  BY <1>1 DEF Names
<1>3. tool = "shacmp" => Names = args
  BY DEF Names
<1> QED
  BY <1>2, <1>3, LenProperties

(* With the same files, the same expressions.                              *)
LEMMA SameFiles ==
    ASSUME disk' = disk, limit' = limit
    PROVE  /\ \A n : Contents(n)' = Contents(n) /\ (Opens(n)' <=> Opens(n))
           /\ Readable' = Readable /\ RightDigests' = RightDigests
<1>1. \A n : Contents(n)' = Contents(n) /\ (Opens(n)' <=> Opens(n))
  BY DEF Contents, Opens
<1>2. Readable' = Readable
  BY <1>1 DEF Readable
<1>3. \A m : TooLong(m)' <=> TooLong(m)
  BY DEF TooLong
<1>4. RightDigests' = RightDigests
  BY <1>1, <1>2, <1>3 DEF RightDigests
<1> QED
  BY <1>1, <1>2, <1>4

-----------------------------------------------------------------------------
(* The steps of the tools                                                  *)

(* A step of the transfer after its end changes nothing the tools look at. *)
LEMMA ToolsStay ==
    ASSUME ToolsInv, UNCHANGED tvars, tool # "none" => disk' = disk /\ complete' /\ commanded'
    PROVE  ToolsInv'
<1>1. /\ limit' = limit /\ tool' = tool /\ args' = args /\ i' = i /\ fp' = fp /\ at' = at
      /\ read_stdin' = read_stdin /\ object' = object /\ digests' = digests /\ status' = status
  BY DEF tvars
<1>2. Names' = Names
  BY <1>1 DEF Names
<1>3. ToolTypes' /\ Idle' /\ AfterTransfer'
  <2>1. ToolTypes' /\ Idle'
    BY <1>1, <1>2 DEF ToolsInv, ToolTypes, Idle
  <2>2. AfterTransfer'
    BY <1>1 DEF ToolsInv, AfterTransfer
  <2> QED
    BY <2>1, <2>2
<1>4. CASE tool = "none"
  <2>1. fp' = "none" /\ digests' = <<>> /\ tool' # "shacmp"
    BY <1>1, <1>4 DEF ToolsInv, Idle
  <2>2. ReadingRight' /\ CompareRight'
    BY <2>1 DEF ReadingRight, CompareRight
  <2>3. DigestsRight'
    BY <2>1 DEF DigestsRight
  <2> QED
    BY <1>3, <2>2, <2>3 DEF ToolsInv
<1>5. CASE tool # "none"
  <2>1. disk' = disk /\ limit' = limit
    BY <1>1, <1>5
  <2>2. /\ \A n : Contents(n)' = Contents(n) /\ (Opens(n)' <=> Opens(n))
        /\ Readable' = Readable /\ RightDigests' = RightDigests
    BY <2>1, SameFiles
  <2>3. ReadingRight'
    BY <1>1, <1>2, <2>2 DEF ToolsInv, ReadingRight, Running
  <2>4. DigestsRight'
    BY <1>1, <2>2 DEF ToolsInv, DigestsRight
  <2>5. Verdict' = Verdict
    <3>1. \A m : TooLong(m)' <=> TooLong(m)
      BY <2>1 DEF TooLong
    <3> QED
      BY <1>1, <2>1, <2>2, <3>1 DEF Verdict
  <2>6. CompareRight'
    BY <1>1, <2>1, <2>5 DEF ToolsInv, CompareRight, Opens
  <2> QED
    BY <1>3, <2>3, <2>4, <2>6 DEF ToolsInv
<1> QED
  BY <1>4, <1>5

(* The other parts of the invariant when a tool takes a step.              *)
LEMMA FilesStay ==
    ASSUME UNCHANGED cvars, limit' = limit
    PROVE  /\ \A n : Contents(n)' = Contents(n) /\ (Opens(n)' <=> Opens(n))
           /\ RightDigests' = RightDigests
           /\ \A m : TooLong(m)' <=> TooLong(m)
           /\ args' = args => Verdict' = Verdict
<1>1. disk' = disk
  BY DEF cvars
<1>2. /\ \A n : Contents(n)' = Contents(n) /\ (Opens(n)' <=> Opens(n))
      /\ RightDigests' = RightDigests
  BY <1>1, SameFiles
<1>3. \A m : TooLong(m)' <=> TooLong(m)
  BY DEF TooLong
<1>4. args' = args => Verdict' = Verdict
  BY <1>1, <1>2, <1>3 DEF Verdict
<1> QED
  BY <1>2, <1>3, <1>4

(* A tool starts, with its arguments.                                      *)
LEMMA InvokeKeeps ==
    ASSUME CopyInv, ToolsInv, Invoke, UNCHANGED cvars
    PROVE  ToolsInv'
<1>1. PICK c \in Invocations :
        /\ complete /\ tool = "none" /\ tool' = c.tool /\ args' = c.args
        /\ status' = CASE c.tool = "shacmp" /\ Len(c.args) # 2 -> SHA1_USAGE_ERROR
                       [] c.tool = "sha" /\ c.args # <<>> /\ c.args[1] \in {"-?", "--help"} -> 1
                       [] OTHER -> -1
        /\ UNCHANGED <<limit, i, fp, at, read_stdin, object, digests>>
  BY DEF Invoke
<1>2. tool' \in {"sha", "shacmp"} /\ args' \in Seq(Words)
  <2>1. Seq(STRING) \subseteq Seq(Words)
    BY SeqMonotonic DEF Words
  <2> QED
    BY <1>1, <2>1, CommandsAssumption
<1>3. /\ limit' = limit /\ fp' = "none" /\ digests' = <<>> /\ i' = 1
      /\ complete' = complete /\ commanded' = commanded
  BY <1>1 DEF ToolsInv, Idle, cvars
<1>4. ToolTypes'
  <2>1. "-" \in Words
    BY DEF Words
  <2>2. <<"-">> \in Seq(Words)
    BY <2>1
  <2>3. Names' \in Seq(Words)
    BY <1>2, <2>2 DEF Names
  <2>4. Len(Names') \in Nat
    BY <2>3, LenProperties
  <2>5. i' \in Nat \ {0} /\ i' <= Len(Names') + 1
    BY <1>3, <2>4
  <2>6. limit' \in LengthLimits /\ tool' \in {"none", "sha", "shacmp"}
    BY <1>2, <1>3 DEF ToolsInv, ToolTypes
  <2> QED
    BY <1>2, <2>5, <2>6 DEF ToolTypes
<1>5. Idle' /\ AfterTransfer'
  <2>1. commanded
    BY <1>1 DEF CopyInv, QuietBefore
  <2> QED
    BY <1>1, <1>2, <1>3, <2>1 DEF Idle, AfterTransfer
<1>6. ReadingRight' /\ DigestsRight'
  BY <1>3 DEF ReadingRight, DigestsRight
<1>7. CompareRight'
  <2> SUFFICES ASSUME tool' = "shacmp", Len(args') = 2
               PROVE  status' = -1 /\ Len(digests') = i' - 1 /\ 1 .. i' - 1 = {}
    BY DEF CompareRight
  <2>1. status' = -1
    BY <1>1
  <2>2. Len(<<>>) = 0
    OBVIOUS
  <2> QED
    BY <1>3, <2>1, <2>2
<1> QED
  BY <1>4, <1>5, <1>6, <1>7 DEF ToolsInv

(* The object is reset for the file that is opened.                        *)
LEMMA OpenFileKeeps ==
    ASSUME CopyInv, ToolsInv, OpenFile, UNCHANGED cvars
    PROVE  ToolsInv'
<1>1. /\ Running /\ fp = "none" /\ i <= Len(Names) /\ Opens(Names[i])
      /\ fp' = Names[i] /\ at' = 0 /\ object' = Reset
      /\ limit' = limit /\ tool' = tool /\ args' = args /\ i' = i
      /\ digests' = digests /\ status' = status
  BY DEF OpenFile, Between
<1>2. Names' = Names
  BY <1>1 DEF Names
<1>3. /\ \A n : Contents(n)' = Contents(n) /\ (Opens(n)' <=> Opens(n))
      /\ RightDigests' = RightDigests
      /\ Verdict' = Verdict
  BY <1>1, FilesStay
<1>4. ToolTypes' /\ AfterTransfer'
  BY <1>1, <1>2 DEF ToolsInv, ToolTypes, AfterTransfer, cvars
<1>5. Idle'
  BY <1>1 DEF Idle, Running
<1>6. DigestsRight' /\ CompareRight'
  BY <1>1, <1>3 DEF ToolsInv, DigestsRight, CompareRight, Opens, cvars
<1>7. ReadingRight'
  <2>1. Contents(fp') \in Seq(Octet)
    BY <1>1, ReadableIs
  <2>2. PICK c \in Seq(Octet) : c = Contents(fp')
    BY <2>1
  <2>3. SubSeq(c, 1, 0) = <<>> /\ 0 \in 0 .. Len(c)
    BY BeginningEnds, LenProperties
  <2>4. limit \in LengthLimits
    BY DEF ToolsInv, ToolTypes
  <2>5. Took(Reset, <<>>, limit)
    BY <2>4, ResetTook
  <2>6. Contents(fp)' = c
    <3>1. Contents(fp)' = Contents(Names[i])'
      BY <1>1, <1>2 DEF Contents
    <3> QED
      BY <1>1, <1>2, <1>3, <2>2 DEF Contents
  <2>7. Opens(fp)' <=> Opens(Names[i])
    BY <1>1, <1>3 DEF Opens, cvars
  <2>8. Running'
    BY <1>1 DEF Running
  <2>9. Took(object', SubSeq(Contents(fp)', 1, at'), limit')
    BY <1>1, <2>3, <2>5, <2>6, Zenon
  <2>10. at' \in 0 .. Len(Contents(fp)')
    BY <1>1, <2>3, <2>6
  <2> QED
    BY <1>1, <1>2, <2>7, <2>8, <2>9, <2>10 DEF ReadingRight
<1> QED
  BY <1>4, <1>5, <1>6, <1>7 DEF ToolsInv

(* Without a file shacmp gives up, as its verdict says.                    *)
LEMMA CannotOpenKeeps ==
    ASSUME CopyInv, ToolsInv, CannotOpen, UNCHANGED cvars
    PROVE  ToolsInv'
<1>1. /\ Running /\ fp = "none" /\ i <= Len(Names) /\ ~Opens(Names[i])
      /\ status' = (IF tool = "sha" THEN 2 ELSE SHA1_FILE_ERROR)
      /\ limit' = limit /\ tool' = tool /\ args' = args /\ i' = i /\ fp' = fp
      /\ digests' = digests
  BY DEF CannotOpen, Between
<1>2. Names' = Names
  BY <1>1 DEF Names
<1>3. /\ RightDigests' = RightDigests /\ Verdict' = Verdict
  BY <1>1, FilesStay
<1>4. ToolTypes' /\ AfterTransfer'
  BY <1>1, <1>2 DEF ToolsInv, ToolTypes, AfterTransfer, cvars
<1>5. Idle' /\ ReadingRight'
  BY <1>1 DEF Idle, ReadingRight, Running
<1>6. DigestsRight'
  BY <1>1, <1>3 DEF ToolsInv, DigestsRight
<1>7. CompareRight'
  <2> SUFFICES ASSUME tool = "shacmp", Len(args) = 2
               PROVE  status' = SHA1_FILE_ERROR /\ Verdict = SHA1_FILE_ERROR
    BY <1>1, <1>3 DEF CompareRight, SHA1_FILE_ERROR
  <2>1. Names = args /\ i \in 1 .. 2
    <3>1. Names = args
      BY NamesAre DEF ToolsInv
    <3>2. i \in Nat \ {0} /\ i <= 2
      BY <1>1, <3>1 DEF ToolsInv, ToolTypes
    <3> QED
      BY <3>1, <3>2
  <2>2. Verdict = SHA1_FILE_ERROR
    BY <1>1, <2>1 DEF Verdict
  <2> QED
    BY <1>1, <2>2
<1> QED
  BY <1>4, <1>5, <1>6, <1>7 DEF ToolsInv

(* sha opens its standard input, or passes over it.                        *)
LEMMA OpenStdinKeeps ==
    ASSUME CopyInv, ToolsInv, OpenStdin, UNCHANGED cvars
    PROVE  ToolsInv'
<1>1. /\ Running /\ fp = "none" /\ i <= Len(Names) /\ tool = "sha" /\ Names[i] = "-"
      /\ limit' = limit /\ tool' = tool /\ args' = args
      /\ digests' = digests /\ status' = status
      /\ \/ i' = i + 1 /\ fp' = "none"
         \/ i' = i /\ fp' = "-" /\ at' = 0 /\ object' = Reset
  BY DEF OpenStdin, Between
<1>2. Names' = Names
  BY <1>1 DEF Names
<1>3. /\ \A n : Contents(n)' = Contents(n)
      /\ RightDigests' = RightDigests
  BY <1>1, FilesStay
<1>4. ToolTypes' /\ AfterTransfer'
  <2>1. Len(Names) \in Nat /\ i \in Nat \ {0}
    BY NamesAre DEF ToolsInv, ToolTypes
  <2>2. i' \in Nat \ {0} /\ i' <= Len(Names') + 1
    BY <1>1, <1>2, <2>1
  <2> QED
    BY <1>1, <2>2 DEF ToolsInv, ToolTypes, AfterTransfer, cvars
<1>5. Idle' /\ CompareRight'
  BY <1>1 DEF Idle, CompareRight
<1>6. DigestsRight'
  BY <1>1, <1>3 DEF ToolsInv, DigestsRight
<1>7. ReadingRight'
  <2>1. CASE fp' = "none"
    BY <2>1 DEF ReadingRight
  <2>2. CASE i' = i /\ fp' = "-" /\ at' = 0 /\ object' = Reset
    <3>1. PICK c \in Seq(Octet) : c = Contents("-")
      BY ReadableIs
    <3>2. SubSeq(c, 1, 0) = <<>> /\ 0 \in 0 .. Len(c)
      BY BeginningEnds, LenProperties
    <3>3. limit \in LengthLimits
      BY DEF ToolsInv, ToolTypes
    <3>4. Took(Reset, <<>>, limit)
      BY <3>3, ResetTook
    <3>5. Contents(fp)' = c
      BY <2>2, <3>1 DEF Contents
    <3>6. Running'
      BY <1>1 DEF Running
    <3>7. Took(object', SubSeq(Contents(fp)', 1, at'), limit')
      BY <1>1, <2>2, <3>2, <3>4, <3>5, Zenon
    <3>8. at' \in 0 .. Len(Contents(fp)')
      BY <2>2, <3>2, <3>5
    <3> QED
      BY <1>1, <1>2, <2>2, <3>6, <3>7, <3>8 DEF ReadingRight
  <2> QED
    BY <1>1, <2>1, <2>2
<1> QED
  BY <1>4, <1>5, <1>6, <1>7 DEF ToolsInv

(* The object takes the next byte of the open file.                        *)
LEMMA ReadByteKeeps ==
    ASSUME CopyInv, ToolsInv, ReadByte, UNCHANGED cvars
    PROVE  ToolsInv'
<1>1. /\ Running /\ fp # "none" /\ at # Len(Contents(fp))
      /\ object' = Input(object, Contents(fp)[at + 1], limit) /\ at' = at + 1
      /\ limit' = limit /\ tool' = tool /\ args' = args /\ i' = i /\ fp' = fp
      /\ digests' = digests /\ status' = status
  BY DEF ReadByte, AtEnd
<1>2. Names' = Names
  BY <1>1 DEF Names
<1>3. /\ \A n : Contents(n)' = Contents(n) /\ (Opens(n)' <=> Opens(n))
      /\ RightDigests' = RightDigests /\ Verdict' = Verdict
  BY <1>1, FilesStay
<1>4. ToolTypes' /\ AfterTransfer'
  BY <1>1, <1>2 DEF ToolsInv, ToolTypes, AfterTransfer, cvars
<1>5. Idle'
  BY <1>1 DEF Idle, Running
<1>6. DigestsRight' /\ CompareRight'
  BY <1>1, <1>3 DEF ToolsInv, DigestsRight, CompareRight, Opens, cvars
<1>7. ReadingRight'
  <2>1. /\ i <= Len(Names) /\ fp = Names[i] /\ ((fp = "-" /\ tool = "sha") \/ Opens(fp))
        /\ at \in 0 .. Len(Contents(fp))
        /\ Took(object, SubSeq(Contents(fp), 1, at), limit)
    BY <1>1 DEF ToolsInv, ReadingRight
  <2>2. PICK c \in Seq(Octet) : c = Contents(fp)
    BY <2>1, ReadableIs
  <2>3. at \in 0 .. Len(c) - 1 /\ at + 1 \in 0 .. Len(c)
    BY <1>1, <2>1, <2>2
  <2>4. /\ SubSeq(c, 1, at + 1) = Append(SubSeq(c, 1, at), c[at + 1])
        /\ c[at + 1] \in Octet
    BY <2>3, BeginningGrows
  <2>5. limit \in LengthLimits
    BY DEF ToolsInv, ToolTypes
  <2>6. PICK m, x : m = SubSeq(c, 1, at) /\ x = c[at + 1]
    BY Zenon
  <2>7. Took(object, m, limit) /\ x \in Octet
    BY <2>1, <2>2, <2>4, <2>6, Zenon
  <2>8. Took(Input(object, x, limit), Append(m, x), limit)
    BY <2>5, <2>7, InputTakes
  <2>9. Took(object', SubSeq(c, 1, at + 1), limit)
    BY <1>1, <2>2, <2>4, <2>6, <2>8, Zenon
  <2>10. Contents(fp)' = c
    <3>1. Contents(fp)' = Contents(fp)
      BY <1>1 DEF Contents, cvars
    <3> QED
      BY <2>2, <3>1
  <2>11. Opens(fp)' <=> Opens(fp)
    BY <1>1 DEF Opens, cvars
  <2>12. Running'
    BY <1>1 DEF Running
  <2>13. Took(object', SubSeq(Contents(fp)', 1, at'), limit')
    BY <1>1, <2>9, <2>10, Zenon
  <2>14. at' \in 0 .. Len(Contents(fp)')
    BY <1>1, <2>3, <2>10
  <2> QED
    BY <1>1, <1>2, <2>1, <2>11, <2>12, <2>13, <2>14 DEF ReadingRight
<1> QED
  BY <1>4, <1>5, <1>6, <1>7 DEF ToolsInv

(* What the object has when the whole file was read.                       *)
LEMMA AllRead ==
    ASSUME CopyInv, ToolsInv, fp # "none", AtEnd(Contents(fp), at)
    PROVE  /\ object.corrupted <=> TooLong(Contents(fp))
           /\ ~object.corrupted => <<fp, Result(object).H>> \in RightDigests
<1>1. /\ (fp = "-" \/ Opens(fp))
      /\ at = Len(Contents(fp))
      /\ Took(object, SubSeq(Contents(fp), 1, at), limit)
  BY DEF ToolsInv, ReadingRight, AtEnd
<1>2. fp \in Readable /\ Contents(fp) \in Seq(Octet)
  BY <1>1, ReadableIs
<1>3. PICK c \in Seq(Octet) : c = Contents(fp)
  BY <1>2
<1>4. SubSeq(c, 1, at) = c
  BY <1>1, <1>3, BeginningEnds
<1>5. Took(object, c, limit)
  BY <1>1, <1>3, <1>4, Zenon
<1>6. limit \in LengthLimits
  BY DEF ToolsInv, ToolTypes
<1>7. /\ object.corrupted <=> (8 * Len(c)) \div limit >= limit
      /\ ~object.corrupted => Result(object).H = Digest(c, limit)
  BY <1>5, <1>6, ResultIs
<1>8. object.corrupted <=> TooLong(Contents(fp))
  BY <1>3, <1>7 DEF TooLong
<1>9. ASSUME ~object.corrupted PROVE <<fp, Result(object).H>> \in RightDigests
  <2>1. fp \in {f \in Readable : ~TooLong(Contents(f))}
    BY <1>2, <1>8, <1>9
  <2>2. Result(object).H = Digest(Contents(fp), limit)
    BY <1>3, <1>7, <1>9
  <2> QED
    BY <2>1, <2>2, Zenon DEF RightDigests
<1> QED
  BY <1>8, <1>9

(* The digest of the file is added, or there is none.                      *)
LEMMA EndOfFileKeeps ==
    ASSUME CopyInv, ToolsInv, EndOfFile, UNCHANGED cvars
    PROVE  ToolsInv'
<1>1. /\ Running /\ fp # "none" /\ AtEnd(Contents(fp), at)
      /\ object' = Result(object) /\ fp' = "none" /\ i' = i + 1
      /\ IF object.corrupted
         THEN status' = (IF tool = "sha" THEN status ELSE SHA1_FILE_ERROR) /\ digests' = digests
         ELSE digests' = Append(digests, <<fp, object'.H>>) /\ status' = status
      /\ limit' = limit /\ tool' = tool /\ args' = args
  BY DEF EndOfFile
<1>2. Names' = Names
  BY <1>1 DEF Names
<1>3. RightDigests' = RightDigests /\ Verdict' = Verdict
  BY <1>1, FilesStay
<1>4. /\ i <= Len(Names) /\ fp = Names[i] /\ ((fp = "-" /\ tool = "sha") \/ Opens(fp))
  BY <1>1 DEF ToolsInv, ReadingRight
<1>5. Len(Names) \in Nat /\ i \in Nat \ {0}
  BY NamesAre DEF ToolsInv, ToolTypes
<1>6. ToolTypes' /\ AfterTransfer'
  <2>1. i' \in Nat \ {0} /\ i' <= Len(Names') + 1
    BY <1>1, <1>2, <1>4, <1>5
  <2> QED
    BY <1>1, <2>1 DEF ToolsInv, ToolTypes, AfterTransfer, cvars
<1>7. Idle' /\ ReadingRight'
  BY <1>1 DEF Idle, ReadingRight, Running
<1>8. digests \in Seq(RightDigests)
  BY DEF ToolsInv, DigestsRight
<1>9. /\ object.corrupted <=> TooLong(Contents(fp))
      /\ ~object.corrupted => <<fp, object'.H>> \in RightDigests
  BY <1>1, AllRead
<1>10. DigestsRight'
  <2>1. digests' \in Seq(RightDigests)
    BY <1>1, <1>8, <1>9
  <2> QED
    BY <1>3, <2>1 DEF DigestsRight
<1>11. CompareRight'
  <2> SUFFICES ASSUME tool = "shacmp", Len(args) = 2
               PROVE  /\ status' = -1 => /\ Len(digests') = i' - 1
                                         /\ \A k \in 1 .. i' - 1 :
                                              digests'[k][1] = args[k] /\ Opens(args[k])
                      /\ status' # -1 => status' = Verdict
    BY <1>1, <1>3 DEF CompareRight, Opens, cvars
  <2>1. /\ status = -1 /\ Len(digests) = i - 1
        /\ \A k \in 1 .. i - 1 : digests[k][1] = args[k] /\ Opens(args[k])
    BY <1>1 DEF ToolsInv, CompareRight, Running
  <2>2. Names = args /\ i \in 1 .. 2
    <3>1. Names = args
      BY NamesAre DEF ToolsInv
    <3>2. PICK n : n = Len(Names)
      OBVIOUS
    <3>3. n = 2 /\ i <= n
      BY <1>4, <3>1, <3>2
    <3> QED
      BY <3>1, <3>3, <1>5
  <2>3. Opens(args[i]) /\ fp = args[i] /\ Contents(fp) = disk[args[i]]
    <3>1. fp = args[i] /\ Opens(fp)
      BY <1>4, <2>2
    <3> QED
      BY <3>1, ReadableIs
  <2>4. CASE object.corrupted
    <3>1. status' = SHA1_FILE_ERROR
      BY <1>1, <2>4
    <3>2. TooLong(disk[args[i]])
      BY <1>9, <2>3, <2>4
    <3>3. Verdict = SHA1_FILE_ERROR
      BY <2>2, <3>2 DEF Verdict
    <3> QED
      BY <3>1, <3>3 DEF SHA1_FILE_ERROR
  <2>5. CASE ~object.corrupted
    <3>1. PICK d \in RightDigests : d = <<fp, object'.H>>
      BY <1>9, <2>5
    <3>2. digests' = Append(digests, d) /\ status' = -1
      BY <1>1, <2>1, <2>5, <3>1
    <3>3. /\ Len(digests') = i /\ digests'[i] = d
          /\ \A k \in 1 .. i - 1 : digests'[k] = digests[k]
      BY <1>5, <1>8, <2>1, <3>2, AppendProperties
    <3>4. d[1] = args[i]
      BY <2>3, <3>1
    <3>5. \A k \in 1 .. i : digests'[k][1] = args[k] /\ Opens(args[k])
      <4> SUFFICES ASSUME NEW k \in 1 .. i PROVE digests'[k][1] = args[k] /\ Opens(args[k])
        OBVIOUS
      <4>1. CASE k = i
        BY <4>1, <2>3, <3>3, <3>4
      <4>2. CASE k # i
        <5>1. k \in 1 .. i - 1
          BY <1>5, <4>2
        <5> QED
          BY <5>1, <2>1, <3>3
      <4> QED
        BY <4>1, <4>2
    <3>6. i' = i + 1 /\ i + 1 - 1 = i
      BY <1>1, <1>5
    <3> QED
      BY <3>2, <3>3, <3>5, <3>6
  <2> QED
    BY <2>4, <2>5
<1> QED
  BY <1>6, <1>7, <1>10, <1>11 DEF ToolsInv

(* shacmp compares the two digests it has.                                 *)
LEMMA ExitKeeps ==
    ASSUME CopyInv, ToolsInv, Exit, UNCHANGED cvars
    PROVE  ToolsInv'
<1>1. /\ Running /\ fp = "none" /\ i > Len(Names)
      /\ status' = (IF tool = "sha" THEN 0
                    ELSE IF digests[1][2] = digests[2][2] THEN SHA1_COMPARE
                    ELSE SHA1_NO_COMPARE)
      /\ limit' = limit /\ tool' = tool /\ args' = args /\ i' = i /\ fp' = fp
      /\ digests' = digests
  BY DEF Exit
<1>2. Names' = Names
  BY <1>1 DEF Names
<1>3. RightDigests' = RightDigests /\ Verdict' = Verdict
  BY <1>1, FilesStay
<1>4. ToolTypes' /\ AfterTransfer'
  BY <1>1, <1>2 DEF ToolsInv, ToolTypes, AfterTransfer, cvars
<1>5. Idle' /\ ReadingRight'
  BY <1>1 DEF Idle, ReadingRight, Running
<1>6. DigestsRight'
  BY <1>1, <1>3 DEF ToolsInv, DigestsRight
<1>7. CompareRight'
  <2> SUFFICES ASSUME tool = "shacmp", Len(args) = 2
               PROVE  status' # -1 /\ status' = Verdict
    BY <1>1, <1>3 DEF CompareRight
  <2>1. i = 3
    <3>1. Names = args
      BY NamesAre DEF ToolsInv
    <3>2. PICK n : n = Len(Names)
      OBVIOUS
    <3>3. n = 2
      BY <3>1, <3>2
    <3>4. i \in Nat /\ i <= n + 1 /\ i > n
      BY <1>1, <3>2 DEF ToolsInv, ToolTypes
    <3> QED
      BY <3>3, <3>4
  <2>2. /\ Len(digests) = 2
        /\ \A k \in 1 .. 2 : digests[k][1] = args[k] /\ Opens(args[k])
    BY <1>1, <2>1 DEF ToolsInv, CompareRight, Running
  <2>3. ASSUME NEW k \in 1 .. 2
        PROVE  ~TooLong(disk[args[k]]) /\ digests[k][2] = Digest(disk[args[k]], limit)
    <3>1. digests[k] \in RightDigests
      <4>1. digests \in Seq(RightDigests) /\ k \in 1 .. Len(digests)
        BY <2>2 DEF ToolsInv, DigestsRight
      <4> QED
        BY <4>1
    <3>2. PICK n \in {f \in Readable : ~TooLong(Contents(f))} :
             digests[k] = <<n, Digest(Contents(n), limit)>>
      BY <3>1, Zenon DEF RightDigests
    <3>3. n = args[k] /\ digests[k][2] = Digest(Contents(n), limit)
      BY <2>2, <3>2
    <3>4. Contents(n) = disk[args[k]]
      BY <2>2, <3>3, ReadableIs
    <3> QED
      BY <3>2, <3>3, <3>4
  <2>4. Verdict = IF Digest(disk[args[1]], limit) = Digest(disk[args[2]], limit)
                  THEN SHA1_COMPARE ELSE SHA1_NO_COMPARE
    BY <2>2, <2>3 DEF Verdict
  <2>5. status' = IF digests[1][2] = digests[2][2] THEN SHA1_COMPARE ELSE SHA1_NO_COMPARE
    BY <1>1
  <2>6. status' = Verdict
    BY <2>3, <2>4, <2>5
  <2>7. status' # -1
    BY <2>5 DEF SHA1_COMPARE, SHA1_NO_COMPARE
  <2> QED
    BY <2>6, <2>7
<1> QED
  BY <1>4, <1>5, <1>6, <1>7 DEF ToolsInv

(* The files are as CopyInv has them and every tool that runs reads them   *)
(* as ToolsInv says.                                                       *)
THEOREM ToolsInvariant == ToolsSpec => [](CopyInv /\ ToolsInv)
<1>1. ToolsInit => CopyInv /\ ToolsInv
  <2> SUFFICES ASSUME ToolsInit PROVE CopyInv /\ ToolsInv
    OBVIOUS
  <2>1. CopyInv
    BY InitCopy DEF ToolsInit
  <2>2. /\ limit \in LengthLimits /\ tool = "none" /\ args = <<>> /\ i = 1
        /\ fp = "none" /\ digests = <<>> /\ status = -1
    BY DEF ToolsInit
  <2>3. ToolTypes
    <3>1. Names = <<>> /\ Len(<<>>) = 0 /\ args \in Seq(Words)
      BY <2>2 DEF Names
    <3> QED
      BY <2>2, <3>1 DEF ToolTypes
  <2>4. Idle /\ AfterTransfer /\ ReadingRight /\ CompareRight
    BY <2>2 DEF Idle, AfterTransfer, ReadingRight, CompareRight
  <2>5. DigestsRight
    BY <2>2 DEF DigestsRight
  <2> QED
    BY <2>1, <2>3, <2>4, <2>5 DEF ToolsInv
<1>2. CopyInv /\ ToolsInv /\ [ToolsNext]_vars => (CopyInv /\ ToolsInv)'
  <2> SUFFICES ASSUME CopyInv, ToolsInv, [ToolsNext]_vars
               PROVE  CopyInv' /\ ToolsInv'
    OBVIOUS
  <2>1. ASSUME UNCHANGED cvars PROVE CopyInv'
    BY <2>1 DEF cvars, CopyInv, TypesOK, SentRight, QuietBefore, OutputRight, Source, Mine
  <2>2. CASE CopyNext /\ UNCHANGED tvars
    <3>1. CopyInv'
      BY <2>2, CommandKeeps, SendKeeps, WriteKeeps DEF CopyNext
    <3>2. ASSUME tool # "none" PROVE disk' = disk /\ complete' /\ commanded'
      <4>1. complete /\ commanded
        BY <3>2 DEF ToolsInv, AfterTransfer
      <4>2. SendChunk
        BY <4>1, <2>2 DEF CopyNext, FDTP, WriteChunk
      <4> QED
        BY <4>1, <4>2 DEF SendChunk
    <3> QED
      BY <2>2, <3>1, <3>2, ToolsStay
  <2>3. CASE ToolStep /\ UNCHANGED cvars
    <3>1. ToolsInv'
      BY <2>3, InvokeKeeps, OpenFileKeeps, CannotOpenKeeps, OpenStdinKeeps, ReadByteKeeps,
         EndOfFileKeeps, ExitKeeps DEF ToolStep
    <3> QED
      BY <2>1, <2>3, <3>1
  <2>4. CASE UNCHANGED vars
    <3>1. UNCHANGED cvars /\ UNCHANGED tvars /\ disk' = disk /\ complete' = complete
          /\ commanded' = commanded
      BY <2>4 DEF vars, cvars
    <3>2. tool # "none" => disk' = disk /\ complete' /\ commanded'
      BY <3>1 DEF ToolsInv, AfterTransfer
    <3> QED
      BY <2>1, <3>1, <3>2, ToolsStay
  <2> QED
    BY <2>2, <2>3, <2>4 DEF ToolsNext
<1> QED
  BY <1>1, <1>2, PTL DEF ToolsSpec

-----------------------------------------------------------------------------
(* The properties of the tools                                             *)

(* Every digest sha or shacmp has is the standard's for the contents of    *)
(* its file, of any length: hashing every full block when it is full and   *)
(* padding the last one comes to the same as padding the whole message     *)
(* first, and a message that is too long for the length words has none.    *)
THEOREM DigestAlwaysStandard == ToolsSpec => []DigestIsStandard
<1>1. CopyInv /\ ToolsInv => DigestIsStandard
  <2> SUFFICES ASSUME ToolsInv, digests # <<>>
               PROVE  LET d == digests[Len(digests)]
                      IN  ~TooLong(Contents(d[1])) /\ d[2] = Digest(Contents(d[1]), limit)
    BY DEF DigestIsStandard
  <2>1. digests[Len(digests)] \in RightDigests
    BY DEF ToolsInv, DigestsRight
  <2>2. PICK n \in {f \in Readable : ~TooLong(Contents(f))} :
           digests[Len(digests)] = <<n, Digest(Contents(n), limit)>>
    BY <2>1, Zenon DEF RightDigests
  <2> QED
    BY <2>2
<1> QED
  BY <1>1, ToolsInvariant, PTL

\* No two of the files have the same digest and different contents.
DigestsDiffer ==
    \A a, b \in FileNames :
        Opens(a) /\ Opens(b) /\ Digest(disk[a], limit) = Digest(disk[b], limit)
        => disk[a] = disk[b]

(* Without a collision of the hash among the files, shacmp says of two     *)
(* files that they match just when they are the same bytes.                *)
THEOREM VerdictAlwaysEquality == ToolsSpec => [](DigestsDiffer => VerdictIsEquality)
<1>1. CopyInv /\ ToolsInv => (DigestsDiffer => VerdictIsEquality)
  <2> SUFFICES ASSUME CopyInv, ToolsInv, DigestsDiffer,
                      tool = "shacmp", status # -1, Len(args) = 2,
                      NEW all, all = \A k \in 1 .. 2 : Opens(args[k]) /\ ~TooLong(disk[args[k]])
               PROVE  /\ status = SHA1_FILE_ERROR <=> ~all
                      /\ all => (status = SHA1_COMPARE <=> disk[args[1]] = disk[args[2]])
    BY Zenon DEF VerdictIsEquality
  <2>1. status = Verdict
    BY DEF ToolsInv, CompareRight
  <2>2. CASE ~all
    <3>1. status = SHA1_FILE_ERROR
      BY <2>1, <2>2 DEF Verdict
    <3> QED
      BY <2>2, <3>1
  <2>3. CASE all
    <3>1. Opens(args[1]) /\ Opens(args[2]) /\ args[1] \in FileNames /\ args[2] \in FileNames
      <4>1. \A k \in 1 .. 2 : Opens(args[k])
        BY <2>3
      <4>2. \A n : Opens(n) => n \in FileNames
        BY ReadableIs DEF Opens
      <4>3. Opens(args[1]) /\ Opens(args[2])
        BY <4>1
      <4> QED
        BY <4>2, <4>3
    <3>2. status = IF Digest(disk[args[1]], limit) = Digest(disk[args[2]], limit)
                   THEN SHA1_COMPARE ELSE SHA1_NO_COMPARE
      BY <2>1, <2>3 DEF Verdict
    <3>3. Digest(disk[args[1]], limit) = Digest(disk[args[2]], limit)
          <=> disk[args[1]] = disk[args[2]]
      BY <3>1 DEF DigestsDiffer
    <3>4. all = TRUE
      BY <2>3, Zenon
    <3> QED
      BY <3>2, <3>3, <3>4 DEF SHA1_COMPARE, SHA1_NO_COMPARE, SHA1_FILE_ERROR
  <2> QED
    BY <2>2, <2>3
<1> QED
  BY <1>1, ToolsInvariant, PTL
=============================================================================
