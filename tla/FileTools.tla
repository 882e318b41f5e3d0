----------------------------- MODULE FileTools ------------------------------
(***************************************************************************)
(* The tools that compare a copy with its file, shacmp and sha, run after  *)
(* a transfer: they read files byte by byte into one SHA1 object.          *)
(***************************************************************************)
EXTENDS FileCopy, Sha1

CONSTANTS
    LengthLimits,   \* Length_Low and Length_High count below it, 2^32 in the code
    Invocations,    \* [tool, args]: command lines of sha and shacmp
    Stdin           \* what standard input holds

ASSUME LimitsAssumption == \A n \in LengthLimits : n \in Nat \ {0} /\ n % 8 = 0
ASSUME CommandsAssumption ==
    /\ \A c \in Invocations : c.tool \in {"sha", "shacmp"} /\ c.args \in Seq(STRING)
    /\ Stdin \in Seq(Byte)

VARIABLES
    limit,          \* the one of this run
    tool, args,     \* the program running, "none" before
    i,              \* its loop counter
    fp,             \* name of the open file, "none" between two files
    at,             \* bytes read from it
    read_stdin,
    object,         \* the SHA1 object
    digests,        \* message digests so far, <<name, words>>
    status          \* exit status, -1 while the program runs

tvars == <<limit, tool, args, i, fp, at, read_stdin, object, digests, status>>
vars == <<cvars, tvars>>

SHA1_COMPARE == 0
SHA1_NO_COMPARE == 1
SHA1_USAGE_ERROR == 2
SHA1_FILE_ERROR == 3

Contents(name) == IF name = "-" THEN Stdin ELSE disk[name]
Opens(name) == name \in DOMAIN disk /\ disk[name] # NoFile

ToolsInit ==
    /\ Init
    /\ limit \in LengthLimits
    /\ tool = "none" /\ args = <<>> /\ i = 1
    /\ fp = "none" /\ at = 0 /\ read_stdin = FALSE
    /\ object = Reset /\ digests = <<>> /\ status = -1

Invoke ==
    \E c \in Invocations :
        /\ complete
        /\ tool = "none"
        /\ tool' = c.tool
        /\ args' = c.args
        /\ status' = CASE c.tool = "shacmp" /\ Len(c.args) # 2 -> SHA1_USAGE_ERROR
                       [] c.tool = "sha" /\ c.args # <<>> /\ c.args[1] \in {"-?", "--help"} -> 1
                       [] OTHER -> -1
        /\ UNCHANGED <<limit, i, fp, at, read_stdin, object, digests>>

\* sha without an argument reads its standard input.
Names == IF tool = "sha" /\ args = <<>> THEN <<"-">> ELSE args

Running == tool # "none" /\ status = -1
Between == Running /\ fp = "none" /\ i <= Len(Names)

OpenFile ==
    /\ Between
    /\ Opens(Names[i])
    /\ fp' = Names[i]
    /\ at' = 0
    /\ object' = Reset
    /\ UNCHANGED <<limit, tool, args, i, read_stdin, digests, status>>

CannotOpen ==
    /\ Between
    /\ ~Opens(Names[i])
    /\ ~(tool = "sha" /\ Names[i] = "-")
    /\ status' = IF tool = "sha" THEN 2 ELSE SHA1_FILE_ERROR
    /\ object' = IF tool = "sha" THEN object ELSE Reset
    /\ UNCHANGED <<limit, tool, args, i, fp, at, read_stdin, digests>>

\* Standard input is read once, the next "-" is passed over.
OpenStdin ==
    /\ Between
    /\ tool = "sha" /\ Names[i] = "-"
    /\ IF read_stdin
       THEN i' = i + 1 /\ UNCHANGED <<fp, at, read_stdin, object>>
       ELSE /\ read_stdin' = TRUE
            /\ fp' = "-"
            /\ at' = 0
            /\ object' = Reset
            /\ UNCHANGED i
    /\ UNCHANGED <<limit, tool, args, digests, status>>

\* Mutant of AtEnd: the char read is compared with EOF.
AtEndChar(contents, n) == IF n < Len(contents) THEN contents[n + 1] = Eof ELSE TRUE

\* feof after reading past the n bytes read so far.
AtEnd(contents, n) == n = Len(contents)

ReadByte ==
    /\ Running /\ fp # "none"
    /\ ~AtEnd(Contents(fp), at)
    /\ object' = Input(object, Contents(fp)[at + 1], limit)
    /\ at' = at + 1
    /\ UNCHANGED <<limit, tool, args, i, fp, read_stdin, digests, status>>

\* The digest of the file, or none from a corrupted object: sha goes on with
\* the next file, shacmp gives up.
EndOfFile ==
    /\ Running /\ fp # "none"
    /\ AtEnd(Contents(fp), at)
    /\ object' = Result(object)
    /\ fp' = "none"
    /\ i' = i + 1
    /\ IF object.corrupted
       THEN /\ status' = IF tool = "sha" THEN status ELSE SHA1_FILE_ERROR
            /\ UNCHANGED digests
       ELSE /\ digests' = Append(digests, <<fp, object'.H>>)
            /\ UNCHANGED status
    /\ UNCHANGED <<limit, tool, args, at, read_stdin>>

Exit ==
    /\ Running /\ fp = "none" /\ i > Len(Names)
    /\ status' = IF tool = "sha" THEN 0
                 ELSE IF digests[1][2] = digests[2][2] THEN SHA1_COMPARE
                 ELSE SHA1_NO_COMPARE
    /\ UNCHANGED <<limit, tool, args, i, fp, at, read_stdin, object, digests>>

ToolStep == Invoke \/ OpenFile \/ CannotOpen \/ OpenStdin \/ ReadByte \/ EndOfFile \/ Exit

ToolsNext == \/ CopyNext /\ UNCHANGED tvars
             \/ ToolStep /\ UNCHANGED cvars

ToolsSpec == ToolsInit /\ [][ToolsNext]_vars

\* The messages of shatest and the digests it prints as "Should match".
TESTA == <<97, 98, 99>>
TESTB == [n \in 1 .. 56 |-> 97 + ((n - 1) \div 4) + ((n - 1) % 4)]
DigestA == << Word(\hA999, \h3E36), Word(\h4706, \h816A), Word(\hBA3E, \h2571),
              Word(\h7850, \hC26C), Word(\h9CD0, \hD89D) >>
DigestB == << Word(\h8498, \h3E44), Word(\h1C3B, \hD26E), Word(\hBAAE, \h4AA1),
              Word(\hF951, \h29E5), Word(\hE546, \h70F1) >>

\* The definition the digests are measured against gives those of shatest.
ASSUME VectorsMatch == /\ Digest(TESTA, 2^24) = DigestA
                       /\ Digest(TESTB, 2^24) = DigestB

-----------------------------------------------------------------------------
(* Properties                                                              *)

TooLong(message) == (8 * Len(message)) \div limit >= limit

\* Every digest a tool has is the one the standard gives for the contents of
\* the file, although Input hashes on the way, PadMessage pads only the last
\* block, and one object serves all files; a message too long for the length
\* words gets none.
DigestIsStandard ==
    Running /\ fp = "none" /\ i > 1 /\ digests # <<>> =>
        LET d == digests[Len(digests)]
        IN  ~TooLong(Contents(d[1])) /\ d[2] = Digest(Contents(d[1]), limit)

\* shacmp says "Fingerprints match" of a file and its copy just when they are
\* the same bytes, and has a verdict unless one of them has no digest.
VerdictIsEquality ==
    tool = "shacmp" /\ status # -1 /\ Len(args) = 2 =>
        LET all == \A k \in 1 .. 2 : Opens(args[k]) /\ ~TooLong(disk[args[k]])
        IN  /\ status = SHA1_FILE_ERROR <=> ~all
            /\ all => (status = SHA1_COMPARE <=> disk[args[1]] = disk[args[2]])
=============================================================================
