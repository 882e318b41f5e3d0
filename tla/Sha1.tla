-------------------------------- MODULE Sha1 --------------------------------
(***************************************************************************)
(* The digest object of the tools sha and shacmp (class SHA1): it takes a  *)
(* message octet by octet, hashes every full block at once and pads the    *)
(* last one when the result is asked for.                                  *)
(*                                                                         *)
(* A word of 32 bits is the set of the positions of its ones, position 0   *)
(* the lowest: & is \cap, | is \cup.  The two words that count the bits of *)
(* the message are numbers below limit, 2^32 in the code.                  *)
(***************************************************************************)
EXTENDS Integers, Sequences

BlockSize == 64
Bits == 0 .. 31
Octet == 0 .. 255

Word(high, low) ==
    {n \in Bits : ((IF n < 16 THEN low ELSE high) \div 2^(n % 16)) % 2 = 1}

Xor(x, y) == (x \cup y) \ (x \cap y)

\* The sum of unsigned words: bits without carry, then the carries.
Plus(x, y) ==
    LET sum[w \in (SUBSET Bits) \X (SUBSET Bits)] ==
          IF w[2] = {} THEN w[1]
          ELSE sum[<<Xor(w[1], w[2]), {n + 1 : n \in (w[1] \cap w[2]) \ {31}}>>]
    IN  sum[<<x, y>>]

CircularShift(bits, word) == {(n + bits) % 32 : n \in word}

\* Four octets, the highest first, as a word.
FromOctets(o) == Word(256 * o[1] + o[2], 256 * o[3] + o[4])

-----------------------------------------------------------------------------
(* ProcessMessageBlock                                                     *)

\* The word sequence W of a block, W[t] of the code at t + 1: its first t words
\* for each t.
WordSequence(block) ==
    LET first[t \in 16 .. 80] ==
          IF t = 16 THEN [n \in 1 .. 16 |-> FromOctets(SubSeq(block, 4 * n - 3, 4 * n))]
          ELSE LET W == first[t - 1]
               IN  Append(W, CircularShift(1, Xor(Xor(W[t - 3], W[t - 8]),
                                                  Xor(W[t - 14], W[t - 16]))))
    IN  first[80]

K == << Word(\h5A82, \h7999), Word(\h6ED9, \hEBA1),
        Word(\h8F1B, \hBCDC), Word(\hCA62, \hC1D6) >>

\* The function of the round's quarter, 0 to 3, of the words B, C and D.
Mix(quarter, B, C, D) ==
    CASE quarter = 0 -> (B \cap C) \cup ((Bits \ B) \cap D)
      [] quarter = 2 -> (B \cap C) \cup (B \cap D) \cup (C \cap D)
      [] OTHER       -> Xor(Xor(B, C), D)

\* Round t, from 0, on the words A, B, C, D and E.
Round(W, t) ==
    [u \in [1 .. 5 -> SUBSET Bits] |->
        LET q == t \div 20
            temp == Plus(Plus(Plus(CircularShift(5, u[1]), Mix(q, u[2], u[3], u[4])),
                              Plus(u[5], W[t + 1])),
                         K[q + 1])
        IN  <<temp, u[1], CircularShift(30, u[2]), u[3], u[4]>>]

Compressed(H, block) ==
    LET W == WordSequence(block)
        after[t \in 0 .. 80] == IF t = 0 THEN H ELSE Round(W, t - 1)[after[t - 1]]
        v == after[80]
    IN  [n \in 1 .. 5 |-> Plus(H[n], v[n])]

-----------------------------------------------------------------------------
(* The object                                                              *)

\* Message_Block up to Message_Block_Index, Length_Low and Length_High, H,
\* Computed and Corrupted.
Reset ==
    [H |-> << Word(\h6745, \h2301), Word(\hEFCD, \hAB89), Word(\h98BA, \hDCFE),
              Word(\h1032, \h5476), Word(\hC3D2, \hE1F0) >>,
     block |-> <<>>, low |-> 0, high |-> 0,
     computed |-> FALSE, corrupted |-> FALSE]

ProcessMessageBlock(s) == [s EXCEPT !.H = Compressed(@, s.block), !.block = <<>>]

\* The eight bits of an octet are added to the length, a message too long for
\* the two words corrupts the object.
Counted(s, limit) ==
    LET low == (s.low + 8) % limit
        high == IF low = 0 THEN (s.high + 1) % limit ELSE s.high
    IN  [s EXCEPT !.low = low, !.high = high,
                  !.corrupted = @ \/ (low = 0 /\ high = 0)]

\* Input, for one octet.
Input(s, octet, limit) ==
    IF s.computed \/ s.corrupted THEN [s EXCEPT !.corrupted = TRUE]
    ELSE LET t == Counted([s EXCEPT !.block = Append(@, octet)], limit)
         IN  IF Len(t.block) = BlockSize THEN ProcessMessageBlock(t) ELSE t

\* A length word as four octets, the highest first.
LengthOctets(n) == [k \in 1 .. 4 |-> (n \div <<16777216, 65536, 256, 1>>[k]) % 256]

Zeros(n) == [k \in 1 .. n |-> 0]

\* Mutant of PadMessage: a block with room for the mark but not for all of
\* the length is taken for one with room for both.
PadMessageTight(s) ==
    LET n == Len(s.block)
        length == LengthOctets(s.high) \o LengthOctets(s.low)
        open == IF n > 56
                THEN ProcessMessageBlock([s EXCEPT !.block = @ \o <<128>> \o Zeros(63 - n)])
                ELSE [s EXCEPT !.block = @ \o <<128>>]
        short == SubSeq(open.block \o Zeros(56), 1, 56)
    IN  ProcessMessageBlock([open EXCEPT !.block = short \o length])

PadMessage(s) ==
    LET n == Len(s.block)
        length == LengthOctets(s.high) \o LengthOctets(s.low)
        open == IF n > 55
                THEN ProcessMessageBlock([s EXCEPT !.block = @ \o <<128>> \o Zeros(63 - n)])
                ELSE [s EXCEPT !.block = @ \o <<128>>]
    IN  ProcessMessageBlock(
          [open EXCEPT !.block = @ \o Zeros(56 - Len(@)) \o length])

\* Result: the object afterwards; it has a digest unless it is corrupted.
Result(s) ==
    IF s.corrupted \/ s.computed THEN s
    ELSE [PadMessage(s) EXCEPT !.computed = TRUE]

-----------------------------------------------------------------------------
(* The standard: the whole message is padded first, then cut into blocks.  *)

Padded(message, limit) ==
    LET bits == 8 * Len(message)
        zeros == CHOOSE z \in 0 .. BlockSize - 1 :
                     (Len(message) + 1 + z + 8) % BlockSize = 0
    IN  message \o <<128>> \o Zeros(zeros)
        \o LengthOctets(bits \div limit) \o LengthOctets(bits % limit)

Hashed(H, message) ==
    LET blocks == Len(message) \div BlockSize
        after[n \in 0 .. blocks] ==
          IF n = 0 THEN H
          ELSE Compressed(after[n - 1],
                          SubSeq(message, BlockSize * (n - 1) + 1, BlockSize * n))
    IN  after[blocks]

Digest(message, limit) == Hashed(Reset.H, Padded(message, limit))
=============================================================================
