------------------------------ MODULE Encodings ------------------------------
(***************************************************************************)
(* What the read tools do with the bytes of a file: the strict UTF-8       *)
(* validation of core::str, the base64 encoder of filesystem.rs and the    *)
(* search for a query within lines.  Bytes are the numbers 0..255.         *)
(***************************************************************************)
EXTENDS Integers, Sequences, SequencesExt

Newline == 10

-----------------------------------------------------------------------------
(* core::str::from_utf8 and its Utf8Error *)

\* Where the validator stands after a byte: the continuation bytes it still needs
\* and the range of the next one.  No byte is in range once one was out of place.
Whole == [need |-> 0, low |-> 0, high |-> 0]
Broken == [need |-> 0, low |-> 1, high |-> 0]

\* What a lead byte asks for.
Lead(b) ==
    LET low == IF b = 224 THEN 160 ELSE IF b = 240 THEN 144 ELSE 128
        high == IF b = 237 THEN 159 ELSE IF b = 244 THEN 143 ELSE 191
        Needs(k) == [need |-> k, low |-> low, high |-> high]
    IN  CASE b \in 0..127 -> Whole
          [] b \in 194..223 -> Needs(1)
          [] b \in 224..239 -> Needs(2)
          [] b \in 240..244 -> Needs(3)
          [] OTHER -> Broken

Utf8Step(s, b) ==
    IF s = Whole THEN Lead(b)
    ELSE IF b \notin s.low .. s.high THEN Broken
    ELSE IF s.need = 1 THEN Whole
    ELSE [need |-> s.need - 1, low |-> 128, high |-> 191]

\* Where the validator stands after each byte.
Utf8Run(bytes) ==
    LET run[i \in 0..Len(bytes)] ==
            IF i = 0 THEN Whole ELSE Utf8Step(run[i - 1], bytes[i])
    IN  run

IsUtf8(bytes) == Utf8Run(bytes)[Len(bytes)] = Whole
\* Utf8Error::error_len is None: the bytes end within a code point.
EndsWithinCodePoint(bytes) == Utf8Run(bytes)[Len(bytes)] \notin {Whole, Broken}
ValidUpTo(bytes) ==
    LET run == Utf8Run(bytes) IN Max({i \in 0..Len(bytes) : run[i] = Whole})

IsContinuation(b) == b \div 64 = 2

-----------------------------------------------------------------------------
(* Base64: digits are their index in the alphabet *)

Pad == 64

\* The four digits of a group of one to three bytes.
Group(g) ==
    LET a == g[1]
        b == IF Len(g) > 1 THEN g[2] ELSE 0
        c == IF Len(g) > 2 THEN g[3] ELSE 0
    IN  << a \div 4,
           (a % 4) * 16 + b \div 16,
           IF Len(g) > 1 THEN (b % 16) * 4 + c \div 64 ELSE Pad,
           IF Len(g) > 2 THEN c % 64 ELSE Pad >>

EncodeBase64(bytes) ==
    LET Bytes(i) == SubSeq(bytes, 3 * i - 2, IF 3 * i < Len(bytes) THEN 3 * i ELSE Len(bytes))
    IN  [k \in 1 .. 4 * ((Len(bytes) + 2) \div 3) |->
            Group(Bytes((k + 3) \div 4))[((k - 1) % 4) + 1]]

\* RFC 4648, read the other way: the reference EncodeBase64 is checked against.
DecodeBase64(digits) ==
    LET Padding == Cardinality({i \in DOMAIN digits : digits[i] = Pad})
        Value(i) == IF digits[i] = Pad THEN 0 ELSE digits[i]
        Byte(k) == LET i == 4 * ((k - 1) \div 3)
                       n == ((Value(i + 1) * 64 + Value(i + 2)) * 64 + Value(i + 3)) * 64
                            + Value(i + 4)
                   IN  IF k % 3 = 1 THEN n \div 65536
                       ELSE IF k % 3 = 2 THEN (n \div 256) % 256
                       ELSE n % 256
    IN  [k \in 1 .. 3 * (Len(digits) \div 4) - Padding |-> Byte(k)]

-----------------------------------------------------------------------------
(* Text search *)

\* str::match_indices over one line: leftmost matches that do not overlap.
MatchIndices(line, query) ==
    LET starts == 1 .. Len(line) - Len(query) + 1
        end[i \in {0} \cup starts] ==
            IF i = 0 THEN 0
            ELSE IF i > end[i - 1] /\ SubSeq(line, i, i + Len(query) - 1) = query
            THEN i + Len(query) - 1
            ELSE end[i - 1]
    IN  {i \in starts : i > end[i - 1] /\ SubSeq(line, i, i + Len(query) - 1) = query}

\* The lines of a text as first and last position; split('\n') never yields none.
Lines(text) ==
    LET Breaks == {0, Len(text) + 1} \cup {i \in 1..Len(text) : text[i] = Newline}
        Adjacent == {p \in Breaks \X Breaks :
                        p[1] < p[2] /\ \A d \in Breaks : d <= p[1] \/ d >= p[2]}
    IN  {<<p[1] + 1, p[2] - 1>> : p \in Adjacent}

\* Every match of a query, as the number of its line and its column there.
TextMatches(text, query) ==
    LET LineNumber(l) == Cardinality({i \in 1 .. l[1] - 1 : text[i] = Newline}) + 1
    IN  UNION {{<<LineNumber(l), i>> : i \in MatchIndices(SubSeq(text, l[1], l[2]), query)} :
               l \in Lines(text)}
=============================================================================
