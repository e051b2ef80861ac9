-------------------------------- MODULE Utf8 --------------------------------
(***************************************************************************)
(* The text conversion of common/string_utils.hpp, on sequences of bytes.  *)
(* A log goes through SanitizeUtf8Lossy on its way into a JSON request.    *)
(* The loops are recursive functions from the position on; the bit masks   *)
(* are divisions.                                                          *)
(***************************************************************************)
EXTENDS Integers, Sequences

Byte == 0 .. 255

\* Bytes that follow lead byte c, or -1 when c cannot lead: the chain of masks and
\* the two checks on the bits they leave.
Need(c) ==
    CASE c < 128 -> 0
      [] c \in 194 .. 223 -> 1      \* 110xxxxx; C0 and C1 are overlong
      [] c \in 224 .. 239 -> 2      \* 1110xxxx
      [] c \in 240 .. 244 -> 3      \* 11110xxx, up to U+13FFFF
      [] OTHER -> -1

LeadBits(c) == IF c < 128 THEN c ELSE IF c < 224 THEN c % 32 ELSE IF c < 240 THEN c % 16 ELSE c % 8

IsContinuation(c) == c \div 64 = 2

\* The code point of the n + 1 bytes of s at i.
Codepoint(s, i, n) ==
    LET bits[k \in 0 .. n] ==
            IF k = 0 THEN LeadBits(s[i]) ELSE bits[k - 1] * 64 + (s[i + k] % 64)
    IN  bits[n]

\* Mutant of DecodesAt: surrogates are let through.
DecodesSurrogates(s, i) ==
    LET n == Need(s[i])
    IN  /\ n >= 0
        /\ i + n <= Len(s)
        /\ \A k \in 1 .. n : IsContinuation(s[i + k])
        /\ n = 2 => Codepoint(s, i, n) >= 2048
        /\ n = 3 => Codepoint(s, i, n) >= 65536
        /\ Codepoint(s, i, n) <= 1114111

\* One round of the loop at position i finds a character.
DecodesAt(s, i) ==
    LET n == Need(s[i])
    IN  /\ n >= 0
        /\ i + n <= Len(s)
        /\ \A k \in 1 .. n : IsContinuation(s[i + k])
        /\ n = 2 => Codepoint(s, i, n) >= 2048
        /\ n = 3 => Codepoint(s, i, n) >= 65536
        /\ Codepoint(s, i, n) \notin 55296 .. 57343
        /\ Codepoint(s, i, n) <= 1114111

IsValidUtf8(s) ==
    LET from[i \in 1 .. Len(s) + 1] ==
            i > Len(s) \/ (DecodesAt(s, i) /\ from[i + Need(s[i]) + 1])
    IN  from[1]

Replacement == <<239, 191, 189>>

SanitizeUtf8Lossy(s) ==
    LET from[i \in 1 .. Len(s) + 1] ==
            IF i > Len(s) THEN <<>>
            ELSE IF DecodesAt(s, i)
            THEN SubSeq(s, i, i + Need(s[i])) \o from[i + Need(s[i]) + 1]
            ELSE Replacement \o from[i + 1]
    IN  IF IsValidUtf8(s) THEN s ELSE from[1]

-----------------------------------------------------------------------------
(* Reference: the table of well-formed byte sequences of the Unicode standard. *)

Tail80 == 128 .. 191

IsCharacter(b) ==
    CASE Len(b) = 1 -> b[1] < 128
      [] Len(b) = 2 -> b[1] \in 194 .. 223 /\ b[2] \in Tail80
      [] Len(b) = 3 ->
            /\ b[3] \in Tail80
            /\ \/ b[1] = 224 /\ b[2] \in 160 .. 191
               \/ b[1] \in (225 .. 236) \union {238, 239} /\ b[2] \in Tail80
               \/ b[1] = 237 /\ b[2] \in 128 .. 159
      [] Len(b) = 4 ->
            /\ b[3] \in Tail80 /\ b[4] \in Tail80
            /\ \/ b[1] = 240 /\ b[2] \in 144 .. 191
               \/ b[1] \in 241 .. 243 /\ b[2] \in Tail80
               \/ b[1] = 244 /\ b[2] \in 128 .. 143
      [] OTHER -> FALSE

\* s can be cut into characters: the positions where a cut can be.
WellFormed(s) ==
    LET cuts[k \in 0 .. Len(s)] ==
            IF k = 0 THEN {0}
            ELSE cuts[k - 1] \union
                 {j \in {k} : \E i \in cuts[k - 1] : IsCharacter(SubSeq(s, i + 1, j))}
    IN  Len(s) \in cuts[Len(s)]

\* Every byte of s is kept, inside a character, or stands for one replacement: the
\* text r arises from s by replacing single bytes none of which begins a character.
RepairOf(s) ==
    LET from[i \in 1 .. Len(s) + 1] ==
            IF i > Len(s) THEN <<>>
            ELSE IF \E n \in 1 .. 4 : i + n - 1 <= Len(s) /\ IsCharacter(SubSeq(s, i, i + n - 1))
            THEN LET n == CHOOSE m \in 1 .. 4 :
                            i + m - 1 <= Len(s) /\ IsCharacter(SubSeq(s, i, i + m - 1))
                 IN  SubSeq(s, i, i + n - 1) \o from[i + n]
            ELSE Replacement \o from[i + 1]
    IN  from[1]
=============================================================================
