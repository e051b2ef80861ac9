----------------------------- MODULE Utf8Proofs -----------------------------
(***************************************************************************)
(* Proofs about the text conversion, for sequences of any bytes and of any *)
(* length: the decoder's loop accepts what the Unicode standard's table    *)
(* calls well formed, and what is sent is the table's repair of the text.  *)
(*                                                                         *)
(* The loops are recursive functions over positions.  An induction is one  *)
(* over a set of numbers (Upwards, Downwards), since the library's rules   *)
(* for predicates cannot be instantiated here; that a recursion has a      *)
(* solution is the lemma Recursion, in which the step is a function, too.  *)
(***************************************************************************)
EXTENDS Utf8, WellFoundedInduction, SequenceTheorems, TLAPS

-----------------------------------------------------------------------------
(* Induction over natural numbers, in terms of sets *)

LEMMA LeastOf ==
    ASSUME NEW T, T \subseteq Nat, T # {}
    PROVE  \E n \in T : \A m \in T : n <= m
<1> DEFINE R == {ss \in Nat \X Nat : ss[1] < ss[2]}
<1>1. IsWellFoundedOn(R, Nat)
      BY NatLessThanWellFounded DEF OpToRel
<1>2. \A m, n \in Nat : m < n => <<m, n>> \in R
      OBVIOUS
<1> HIDE DEF R
<1>3. PICK n \in T : \A m \in T : <<m, n>> \notin R
      BY <1>1, WFMin
<1>4. \A m \in T : ~(m < n)
      BY <1>2, <1>3
<1>5. \A m \in T : n <= m
      BY <1>4
<1> QED BY <1>5

LEMMA Upwards ==
    ASSUME NEW N \in Nat, NEW T,
           \A k \in 0 .. N : (\A j \in 0 .. k - 1 : j \in T) => k \in T
    PROVE  \A k \in 0 .. N : k \in T
<1> SUFFICES ASSUME {k \in 0 .. N : k \notin T} # {}
             PROVE  FALSE
    OBVIOUS
<1>1. {k \in 0 .. N : k \notin T} \subseteq Nat
      OBVIOUS
<1>2. PICK n \in {k \in 0 .. N : k \notin T} : \A m \in {k \in 0 .. N : k \notin T} : n <= m
      BY <1>1, LeastOf
<1>3. ASSUME NEW j \in 0 .. n - 1
      PROVE  j \in T
      BY <1>2, <1>3
<1> QED BY <1>2, <1>3

LEMMA Downwards ==
    ASSUME NEW N \in Nat, NEW T,
           \A i \in 1 .. N + 1 : (\A j \in i + 1 .. N + 1 : j \in T) => i \in T
    PROVE  \A i \in 1 .. N + 1 : i \in T
<1> DEFINE U == {k \in 0 .. N : N + 1 - k \in T}
<1>1. ASSUME NEW k \in 0 .. N, \A j \in 0 .. k - 1 : j \in U
      PROVE  k \in U
  <2>1. ASSUME NEW j \in N + 1 - k + 1 .. N + 1
        PROVE  j \in T
    <3>1. N + 1 - j \in 0 .. k - 1
          OBVIOUS
    <3>2. N + 1 - (N + 1 - j) \in T
          BY <1>1, <3>1
    <3> QED BY <3>2
  <2> QED BY <2>1
<1>2. \A k \in 0 .. N : k \in U
  <2> HIDE DEF U
  <2> QED BY <1>1, Upwards
<1>3. ASSUME NEW i \in 1 .. N + 1
      PROVE  i \in T
  <2>1. N + 1 - i \in U
        BY <1>2
  <2>2. N + 1 - (N + 1 - i) \in T
        BY <2>1
  <2> QED BY <2>2
<1> QED BY <1>3

\* A recursion that looks only at later positions has a solution: the value at i is G[i]
\* of the value at next[i].
Advances(N, next) == \A i \in 1 .. N : next[i] \in i + 1 .. N + 1
StaysIn(N, V, G) == \A i \in 1 .. N, v \in V : G[i][v] \in V
Unfolds(N, f, base, next, G) == /\ f[N + 1] = base
                                /\ \A i \in 1 .. N : f[i] = G[i][f[next[i]]]

LEMMA Recursion ==
    ASSUME NEW N \in Nat, NEW V, NEW base \in V, NEW next, NEW G,
           Advances(N, next), StaysIn(N, V, G)
    PROVE  \E f \in [1 .. N + 1 -> V] : Unfolds(N, f, base, next, G)
<1>0. /\ \A i \in 1 .. N : next[i] \in i + 1 .. N + 1
      /\ \A i \in 1 .. N, v \in V : G[i][v] \in V
      BY DEF Advances, StaysIn
<1> DEFINE Solves(f, m) == /\ f[N + 1] = base
                           /\ \A i \in m .. N : f[i] = G[i][f[next[i]]]
           T == {k \in 0 .. N : \E f \in [N + 1 - k .. N + 1 -> V] : Solves(f, N + 1 - k)}
<1>1. ASSUME NEW k \in 0 .. N, \A j \in 0 .. k - 1 : j \in T
      PROVE  k \in T
  <2>1. CASE k = 0
    <3>1. [i \in N + 1 .. N + 1 |-> base] \in [N + 1 - k .. N + 1 -> V]
          BY <2>1
    <3>2. Solves([i \in N + 1 .. N + 1 |-> base], N + 1 - k)
          BY <2>1
    <3> QED BY <3>1, <3>2
  <2>2. CASE k # 0
    <3> DEFINE m == N + 1 - k
    <3>1. k - 1 \in 0 .. k - 1 /\ N + 1 - (k - 1) = m + 1 /\ m \in 1 .. N
          BY <2>2
    <3>2. PICK f \in [m + 1 .. N + 1 -> V] : Solves(f, m + 1)
          BY <1>1, <3>1
    <3> DEFINE g == [i \in m .. N + 1 |-> IF i = m THEN G[m][f[next[m]]] ELSE f[i]]
    <3>3. next[m] \in m + 1 .. N + 1 /\ f[next[m]] \in V
          BY <1>0, <3>1, <3>2
    <3>4. g \in [m .. N + 1 -> V]
          BY <1>0, <3>1, <3>2, <3>3
    <3>5. g[N + 1] = base
          BY <3>1, <3>2
    <3>6. ASSUME NEW i \in m .. N
          PROVE  g[i] = G[i][g[next[i]]]
      <4>1. next[i] \in m + 1 .. N + 1
            BY <1>0, <3>1
      <4>2. g[next[i]] = f[next[i]]
            BY <3>1, <4>1
      <4>3. CASE i = m
        <5>1. g[m] = G[m][f[next[m]]]
              BY <3>1
        <5>2. g[next[m]] = f[next[m]]
              BY <4>2, <4>3
        <5> HIDE DEF g
        <5> QED BY <4>3, <5>1, <5>2
      <4>4. CASE i # m
        <5>1. i \in m + 1 .. N
              BY <3>1, <4>4
        <5>2. g[i] = f[i]
              BY <3>1, <4>4
        <5>3. f[i] = G[i][f[next[i]]]
              BY <3>2, <5>1
        <5> HIDE DEF g
        <5> QED BY <4>2, <5>2, <5>3
      <4> HIDE DEF m, g
      <4> QED BY <4>3, <4>4
    <3> HIDE DEF g
    <3>7. Solves(g, m)
          BY <3>5, <3>6
    <3> QED BY <3>4, <3>7
  <2> QED BY <2>1, <2>2
<1>2. \A k \in 0 .. N : k \in T
  <2> HIDE DEF T
  <2> QED BY <1>1, Upwards
<1>3. N \in T
      BY <1>2
<1>4. PICK f \in [N + 1 - N .. N + 1 -> V] : Solves(f, N + 1 - N)
      BY <1>3
<1> QED BY <1>4 DEF Unfolds
-----------------------------------------------------------------------------
(* Characters: one round of the decoder against the table *)

LEMMA Needs ==
    ASSUME NEW c \in Byte
    PROVE  /\ Need(c) \in -1 .. 3
           /\ Need(c) = 0 <=> c < 128
           /\ Need(c) = 1 <=> c \in 194 .. 223
           /\ Need(c) = 2 <=> c \in 224 .. 239
           /\ Need(c) = 3 <=> c \in 240 .. 244
<1> c \in Int /\ c >= 0 /\ c <= 255
    BY DEF Byte
<1>1. CASE c < 128
   BY <1>1 DEF Need
<1>2. CASE c \in 194 .. 223
   BY <1>2 DEF Need
<1>3. CASE c \in 224 .. 239
   BY <1>3 DEF Need
<1>4. CASE c \in 240 .. 244
   BY <1>4 DEF Need
<1>5. CASE ~(c < 128) /\ c \notin 194 .. 223 /\ c \notin 224 .. 239 /\ c \notin 240 .. 244
   BY <1>5 DEF Need
<1> QED BY <1>1, <1>2, <1>3, <1>4, <1>5

\* The recursion of Codepoint unrolled.
LEMMA BitsUpTo ==
    ASSUME NEW s, NEW i, NEW n \in 0 .. 3,
           NEW first, NEW second, NEW third, NEW fourth,
           first = LeadBits(s[i]),
           second = first * 64 + (s[i + 1] % 64),
           third = second * 64 + (s[i + 2] % 64),
           fourth = third * 64 + (s[i + 3] % 64)
    PROVE  Codepoint(s, i, n) = IF n = 0 THEN first ELSE IF n = 1 THEN second
                                ELSE IF n = 2 THEN third ELSE fourth
<1> DEFINE Solves(f) == f = [k \in 0 .. n |->
               IF k = 0 THEN LeadBits(s[i]) ELSE f[k - 1] * 64 + (s[i + k] % 64)]
           g == [k \in 0 .. n |-> IF k = 0 THEN first ELSE IF k = 1 THEN second
                                  ELSE IF k = 2 THEN third ELSE fourth]
           f == CHOOSE f : Solves(f)
<1>1. Codepoint(s, i, n) = f[n]
      BY DEF Codepoint
<1>2. Solves(g)
  <2>1. ASSUME NEW k \in 0 .. n
        PROVE  g[k] = IF k = 0 THEN LeadBits(s[i]) ELSE g[k - 1] * 64 + (s[i + k] % 64)
    <3>1. k \in {0, 1, 2, 3}
          OBVIOUS
    <3>2. CASE k = 0
          BY <3>2
    <3>3. CASE k = 1
          BY <3>3
    <3>4. CASE k = 2
          BY <3>4
    <3>5. CASE k = 3
          BY <3>5
    <3> QED BY <3>1, <3>2, <3>3, <3>4, <3>5
  <2> QED BY <2>1
<1>3. Solves(f)
      BY <1>2
<1> HIDE DEF f
<1>4. f[0] = first
      BY <1>3
<1>5. n >= 1 => f[1] = second
  <2>1. n >= 1 => f[1] = f[1 - 1] * 64 + (s[i + 1] % 64)
        BY <1>3
  <2> QED BY <1>4, <2>1
<1>6. n >= 2 => f[2] = third
  <2>1. n >= 2 => f[2] = f[2 - 1] * 64 + (s[i + 2] % 64)
        BY <1>3
  <2> QED BY <1>5, <2>1
<1>7. n = 3 => f[3] = fourth
  <2>1. n = 3 => f[3] = f[3 - 1] * 64 + (s[i + 3] % 64)
        BY <1>3
  <2> QED BY <1>6, <2>1
<1> QED BY <1>1, <1>4, <1>5, <1>6, <1>7

LEMMA Bits ==
    ASSUME NEW s, NEW i
    PROVE  /\ Codepoint(s, i, 0) = LeadBits(s[i])
           /\ Codepoint(s, i, 1) = LeadBits(s[i]) * 64 + (s[i + 1] % 64)
           /\ Codepoint(s, i, 2) = (LeadBits(s[i]) * 64 + (s[i + 1] % 64)) * 64 + (s[i + 2] % 64)
           /\ Codepoint(s, i, 3) =
                ((LeadBits(s[i]) * 64 + (s[i + 1] % 64)) * 64 + (s[i + 2] % 64)) * 64
                  + (s[i + 3] % 64)
<1> DEFINE first == LeadBits(s[i])
           second == first * 64 + (s[i + 1] % 64)
           third == second * 64 + (s[i + 2] % 64)
           fourth == third * 64 + (s[i + 3] % 64)
<1>1. /\ first = LeadBits(s[i])
      /\ second = first * 64 + (s[i + 1] % 64)
      /\ third = second * 64 + (s[i + 2] % 64)
      /\ fourth = third * 64 + (s[i + 3] % 64)
      OBVIOUS
<1> HIDE DEF first, second, third, fourth
<1>2. \A n \in 0 .. 3 : Codepoint(s, i, n) = IF n = 0 THEN first ELSE IF n = 1 THEN second
                                             ELSE IF n = 2 THEN third ELSE fourth
      BY <1>1, BitsUpTo
<1>3. /\ Codepoint(s, i, 0) = first /\ Codepoint(s, i, 1) = second
      /\ Codepoint(s, i, 2) = third /\ Codepoint(s, i, 3) = fourth
      BY <1>2
<1> QED BY <1>1, <1>3, Zenon

\* The bits of the lead and of what follows it.
LEMMA LeadOne == ASSUME NEW c \in Byte, c < 128 PROVE LeadBits(c) = c
BY DEF LeadBits

LEMMA LeadTwo == ASSUME NEW c \in 194 .. 223 PROVE LeadBits(c) = c - 192
<1>1. c % 32 = c - 192
      OBVIOUS
<1> QED BY <1>1 DEF LeadBits

LEMMA LeadThree == ASSUME NEW c \in 224 .. 239 PROVE LeadBits(c) = c - 224
<1>1. c % 16 = c - 224
      OBVIOUS
<1> QED BY <1>1 DEF LeadBits

LEMMA LeadFour == ASSUME NEW c \in 240 .. 244 PROVE LeadBits(c) = c - 240
<1>1. c % 8 = c - 240
      OBVIOUS
<1> QED BY <1>1 DEF LeadBits

LEMMA TailBits == ASSUME NEW d \in Tail80 PROVE d % 64 = d - 128
BY DEF Tail80

LEMMA TailIsContinuation == ASSUME NEW d \in Byte PROVE IsContinuation(d) <=> d \in Tail80
<1>1. d \div 64 = 2 <=> d \in 128 .. 191
      BY DEF Byte
<1> QED BY <1>1 DEF IsContinuation, Tail80

\* The code points, of two, three and four bytes.
Value2(c, d) == (c - 192) * 64 + (d - 128)
Value3(c, d, e) == ((c - 224) * 64 + (d - 128)) * 64 + (e - 128)
Value4(c, d, e, g) == (((c - 240) * 64 + (d - 128)) * 64 + (e - 128)) * 64 + (g - 128)

\* What a code point must be: no surrogate, not above U+10FFFF, and not too small for
\* three or four bytes.
Scalar(p) == p \notin 55296 .. 57343 /\ p <= 1114111
NeedsThree(p) == p >= 2048
NeedsFour(p) == p >= 65536

\* What the table asks of the second byte.
Second3(c, d) == \/ c = 224 /\ d \in 160 .. 191
                 \/ c \in (225 .. 236) \union {238, 239}
                 \/ c = 237 /\ d \in 128 .. 159

Second4(c, d) == \/ c = 240 /\ d \in 144 .. 191
                 \/ c \in 241 .. 243
                 \/ c = 244 /\ d \in 128 .. 143

LEMMA ScalarOne == ASSUME NEW c \in Byte, c < 128 PROVE Scalar(c)
BY SMTT(30) DEF Scalar, Byte

LEMMA ScalarTwo == ASSUME NEW c \in 194 .. 223, NEW d \in Tail80 PROVE Scalar(Value2(c, d))
<1>1. d \in 128 .. 191
      BY DEF Tail80
<1>2. ASSUME NEW p \in Int, p = (c - 192) * 64 + (d - 128)
      PROVE  Scalar(p)
      BY <1>1, <1>2 DEF Scalar
<1>3. Value2(c, d) \in Int /\ Value2(c, d) = (c - 192) * 64 + (d - 128)
      BY <1>1 DEF Value2
<1> QED BY <1>2, <1>3

\* Overlong forms, surrogates and what lies above U+10FFFF are told by the second byte.
LEMMA ScalarThree ==
    ASSUME NEW c \in 224 .. 239, NEW d \in Tail80, NEW e \in Tail80
    PROVE  NeedsThree(Value3(c, d, e)) /\ Scalar(Value3(c, d, e)) <=> Second3(c, d)
<1>1. d \in 128 .. 191 /\ e \in 128 .. 191
      BY DEF Tail80
<1>2. ASSUME NEW p \in Int, p = ((c - 224) * 64 + (d - 128)) * 64 + (e - 128)
      PROVE  NeedsThree(p) /\ Scalar(p) <=> Second3(c, d)
  <2>1. PICK q \in 0 .. 63 : q = e - 128
        BY <1>1
  <2>2. p = (c - 224) * 4096 + (d - 128) * 64 + q
        BY <1>1, <1>2, <2>1, SMTT(30)
  <2>3. CASE c = 224
    <3>1. p < 4096 /\ (p >= 2048 <=> d >= 160)
          BY <1>1, <2>1, <2>2, <2>3, SMTT(30)
    <3>2. Second3(c, d) <=> d >= 160
          BY <1>1, <2>3, SMTT(30) DEF Second3
    <3> QED BY <3>1, <3>2, SMTT(30) DEF NeedsThree, Scalar
  <2>4. CASE c \in (225 .. 236) \union {238, 239}
    <3>1. p >= 2048 /\ p \notin 55296 .. 57343 /\ p <= 65535
      <4>1. CASE c \in 225 .. 236
            BY <1>1, <2>1, <2>2, <4>1, SMTT(30)
      <4>2. CASE c = 238 \/ c = 239
            BY <1>1, <2>1, <2>2, <4>2, SMTT(30)
      <4> QED BY <2>4, <4>1, <4>2, SMTT(30)
    <3>2. Second3(c, d)
          BY <2>4, SMTT(30) DEF Second3
    <3> QED BY <3>1, <3>2, SMTT(30) DEF NeedsThree, Scalar
  <2>5. CASE c = 237
    <3>1. p >= 53248 /\ p <= 57343 /\ (p < 55296 <=> d <= 159)
          BY <1>1, <2>1, <2>2, <2>5, SMTT(30)
    <3>2. Second3(c, d) <=> d <= 159
          BY <1>1, <2>5, SMTT(30) DEF Second3
    <3> QED BY <3>1, <3>2, SMTT(30) DEF NeedsThree, Scalar
  <2> QED BY <2>3, <2>4, <2>5, SMTT(30)
<1>3. /\ Value3(c, d, e) \in Int
      /\ Value3(c, d, e) = ((c - 224) * 64 + (d - 128)) * 64 + (e - 128)
      BY <1>1 DEF Value3
<1> QED BY <1>2, <1>3

LEMMA ScalarFour ==
    ASSUME NEW c \in 240 .. 244, NEW d \in Tail80, NEW e \in Tail80, NEW g \in Tail80
    PROVE  NeedsFour(Value4(c, d, e, g)) /\ Scalar(Value4(c, d, e, g)) <=> Second4(c, d)
<1>1. d \in 128 .. 191 /\ e \in 128 .. 191 /\ g \in 128 .. 191
      BY DEF Tail80
<1>2. ASSUME NEW p \in Int,
             p = (((c - 240) * 64 + (d - 128)) * 64 + (e - 128)) * 64 + (g - 128)
      PROVE  NeedsFour(p) /\ Scalar(p) <=> Second4(c, d)
  <2>1. PICK q \in 0 .. 4095 : q = (e - 128) * 64 + (g - 128)
        BY <1>1
  <2>2. p = (c - 240) * 262144 + (d - 128) * 4096 + q
        BY <1>1, <1>2, <2>1, SMTT(30)
  <2>3. CASE c = 240
    <3>1. p < 262144 /\ (p >= 65536 <=> d >= 144)
          BY <1>1, <2>1, <2>2, <2>3, SMTT(30)
    <3>2. p >= 65536 => p \notin 55296 .. 57343 /\ p <= 1114111
          BY <3>1, SMTT(30)
    <3>3. Second4(c, d) <=> d >= 144
          BY <1>1, <2>3, SMTT(30) DEF Second4
    <3> QED BY <3>1, <3>2, <3>3, SMTT(30) DEF NeedsFour, Scalar
  <2>4. CASE c \in 241 .. 243
    <3>1. p >= 262144 /\ p <= 1048575
          BY <1>1, <2>1, <2>2, <2>4, SMTT(30)
    <3>2. p >= 65536 /\ p \notin 55296 .. 57343 /\ p <= 1114111
          BY <3>1, SMTT(30)
    <3>3. Second4(c, d)
          BY <2>4 DEF Second4
    <3> QED BY <3>2, <3>3, SMTT(30) DEF NeedsFour, Scalar
  <2>5. CASE c = 244
    <3>1. p >= 1048576 /\ (p <= 1114111 <=> d <= 143)
          BY <1>1, <2>1, <2>2, <2>5, SMTT(30)
    <3>2. Second4(c, d) <=> d <= 143
          BY <1>1, <2>5, SMTT(30) DEF Second4
    <3> QED BY <3>1, <3>2, SMTT(30) DEF NeedsFour, Scalar
  <2> QED BY <2>3, <2>4, <2>5, SMTT(30)
<1>3. /\ Value4(c, d, e, g) \in Int
      /\ Value4(c, d, e, g) = (((c - 240) * 64 + (d - 128)) * 64 + (e - 128)) * 64 + (g - 128)
      BY <1>1 DEF Value4
<1> QED BY <1>2, <1>3

LEMMA CodepointOne ==
    ASSUME NEW s, NEW i, NEW c \in Byte, c < 128, s[i] = c
    PROVE  Codepoint(s, i, 0) = c
<1>1. Codepoint(s, i, 0) = LeadBits(c)
      BY Bits, ZenonT(40)
<1>2. LeadBits(c) = c
      BY LeadOne
<1> QED BY <1>1, <1>2

LEMMA CodepointTwo ==
    ASSUME NEW s, NEW i, NEW c \in 194 .. 223, NEW d \in Tail80, s[i] = c, s[i + 1] = d
    PROVE  Codepoint(s, i, 1) = Value2(c, d)
<1>1. Codepoint(s, i, 1) = LeadBits(c) * 64 + (d % 64)
      BY Bits, ZenonT(40)
<1>2. LeadBits(c) = c - 192 /\ d % 64 = d - 128
      BY LeadTwo, TailBits
<1> QED BY <1>1, <1>2, Zenon DEF Value2

LEMMA CodepointThree ==
    ASSUME NEW s, NEW i, NEW c \in 224 .. 239, NEW d \in Tail80, NEW e \in Tail80,
           s[i] = c, s[i + 1] = d, s[i + 2] = e
    PROVE  Codepoint(s, i, 2) = Value3(c, d, e)
<1>1. Codepoint(s, i, 2) = (LeadBits(c) * 64 + (d % 64)) * 64 + (e % 64)
      BY Bits, ZenonT(40)
<1>2. LeadBits(c) = c - 224 /\ d % 64 = d - 128 /\ e % 64 = e - 128
      BY LeadThree, TailBits
<1> QED BY <1>1, <1>2, ZenonT(40) DEF Value3

LEMMA CodepointFour ==
    ASSUME NEW s, NEW i,
           NEW c \in 240 .. 244, NEW d \in Tail80, NEW e \in Tail80, NEW g \in Tail80,
           s[i] = c, s[i + 1] = d, s[i + 2] = e, s[i + 3] = g
    PROVE  Codepoint(s, i, 3) = Value4(c, d, e, g)
<1>1. Codepoint(s, i, 3) =
        ((LeadBits(c) * 64 + (d % 64)) * 64 + (e % 64)) * 64 + (g % 64)
      BY Bits, ZenonT(40)
<1>2. LeadBits(c) = c - 240 /\ d % 64 = d - 128 /\ e % 64 = e - 128 /\ g % 64 = g - 128
      BY LeadFour, TailBits
<1> QED BY <1>1, <1>2, ZenonT(40) DEF Value4

\* What is asked of a lead with n bytes to follow.
Follows(s, i, n) == \A k \in 1 .. n : IsContinuation(s[i + k])

Accepts(s, i, n) ==
    /\ Follows(s, i, n)
    /\ n = 2 => NeedsThree(Codepoint(s, i, n))
    /\ n = 3 => NeedsFour(Codepoint(s, i, n))
    /\ Scalar(Codepoint(s, i, n))

LEMMA Round ==
    ASSUME NEW s, NEW i, NEW n, Need(s[i]) = n, n >= 0, i + n <= Len(s)
    PROVE  DecodesAt(s, i) <=> Accepts(s, i, n)
<1>1. DecodesAt(s, i) => Accepts(s, i, n)
      BY DEF DecodesAt, Accepts, Follows, Scalar, NeedsThree, NeedsFour
<1>2. Accepts(s, i, n) => DecodesAt(s, i)
      BY DEF DecodesAt, Accepts, Follows, Scalar, NeedsThree, NeedsFour
<1> QED BY <1>1, <1>2

LEMMA DecodesOne ==
    ASSUME NEW s, NEW i, i + 0 <= Len(s), NEW c \in Byte, s[i] = c, c < 128
    PROVE  DecodesAt(s, i)
<1>1. Need(s[i]) = 0 /\ 0 >= 0 /\ 0 # 2 /\ 0 # 3
      BY Needs
<1>2. Codepoint(s, i, 0) = c /\ Scalar(c)
      BY CodepointOne, ScalarOne, Zenon
<1>3. Follows(s, i, 0)
      BY DEF Follows
<1>4. Accepts(s, i, 0)
      BY <1>1, <1>2, <1>3 DEF Accepts
<1> QED BY <1>1, <1>4, Round, Zenon

LEMMA DecodesTwo ==
    ASSUME NEW s, NEW i, i + 1 <= Len(s), NEW c \in Byte, NEW d \in Byte,
           s[i] = c, s[i + 1] = d, Need(c) = 1
    PROVE  DecodesAt(s, i) <=> d \in Tail80
<1>1. Follows(s, i, 1) <=> d \in Tail80
  <2>1. Follows(s, i, 1) <=> IsContinuation(s[i + 1])
        BY DEF Follows
  <2> QED BY <2>1, TailIsContinuation, Zenon
<1>2. 1 >= 0 /\ 1 # 2 /\ 1 # 3
      OBVIOUS
<1>3. DecodesAt(s, i) <=> Accepts(s, i, 1)
      BY <1>2, Round, Zenon
<1>4. c \in 194 .. 223
      BY Needs
<1>5. d \in Tail80 => Scalar(Codepoint(s, i, 1))
  <2>1. d \in Tail80 => Codepoint(s, i, 1) = Value2(c, d) /\ Scalar(Value2(c, d))
        BY <1>4, CodepointTwo, ScalarTwo, ZenonT(40)
  <2> QED BY <2>1
<1> QED BY <1>1, <1>2, <1>3, <1>5 DEF Accepts

LEMMA DecodesThree ==
    ASSUME NEW s, NEW i, i + 2 <= Len(s),
           NEW c \in Byte, NEW d \in Byte, NEW e \in Byte,
           s[i] = c, s[i + 1] = d, s[i + 2] = e, Need(c) = 2
    PROVE  DecodesAt(s, i) <=> d \in Tail80 /\ e \in Tail80 /\ Second3(c, d)
<1>1. Follows(s, i, 2) <=> d \in Tail80 /\ e \in Tail80
  <2>1. Follows(s, i, 2) <=> IsContinuation(s[i + 1]) /\ IsContinuation(s[i + 2])
        BY DEF Follows
  <2> QED BY <2>1, TailIsContinuation, Zenon
<1>2. 2 >= 0 /\ 2 # 3
      OBVIOUS
<1>3. DecodesAt(s, i) <=> Accepts(s, i, 2)
      BY <1>2, Round, Zenon
<1>4. c \in 224 .. 239
      BY Needs
<1>5. ASSUME d \in Tail80, e \in Tail80
      PROVE  NeedsThree(Codepoint(s, i, 2)) /\ Scalar(Codepoint(s, i, 2)) <=> Second3(c, d)
  <2>1. Codepoint(s, i, 2) = Value3(c, d, e)
        BY <1>4, <1>5, CodepointThree, SMTT(30)
  <2>2. NeedsThree(Value3(c, d, e)) /\ Scalar(Value3(c, d, e)) <=> Second3(c, d)
        BY <1>4, <1>5, ScalarThree
  <2> QED BY <2>1, <2>2
<1>6. Accepts(s, i, 2) <=>
        Follows(s, i, 2) /\ NeedsThree(Codepoint(s, i, 2)) /\ Scalar(Codepoint(s, i, 2))
      BY <1>2 DEF Accepts
<1> QED BY <1>1, <1>3, <1>5, <1>6

LEMMA DecodesFour ==
    ASSUME NEW s, NEW i, i + 3 <= Len(s),
           NEW c \in Byte, NEW d \in Byte, NEW e \in Byte, NEW g \in Byte,
           s[i] = c, s[i + 1] = d, s[i + 2] = e, s[i + 3] = g, Need(c) = 3
    PROVE  DecodesAt(s, i) <=> d \in Tail80 /\ e \in Tail80 /\ g \in Tail80 /\ Second4(c, d)
<1>1. Follows(s, i, 3) <=> d \in Tail80 /\ e \in Tail80 /\ g \in Tail80
  <2>1. Follows(s, i, 3)
          <=> IsContinuation(s[i + 1]) /\ IsContinuation(s[i + 2]) /\ IsContinuation(s[i + 3])
        BY DEF Follows
  <2> QED BY <2>1, TailIsContinuation, Zenon
<1>2. 3 >= 0 /\ 3 # 2
      OBVIOUS
<1>3. DecodesAt(s, i) <=> Accepts(s, i, 3)
      BY <1>2, Round, Zenon
<1>4. c \in 240 .. 244
      BY Needs
<1>5. ASSUME d \in Tail80, e \in Tail80, g \in Tail80
      PROVE  NeedsFour(Codepoint(s, i, 3)) /\ Scalar(Codepoint(s, i, 3)) <=> Second4(c, d)
  <2>1. Codepoint(s, i, 3) = Value4(c, d, e, g)
        BY <1>4, <1>5, CodepointFour
  <2>2. NeedsFour(Value4(c, d, e, g)) /\ Scalar(Value4(c, d, e, g)) <=> Second4(c, d)
        BY <1>4, <1>5, ScalarFour
  <2> QED BY <2>1, <2>2
<1>6. Accepts(s, i, 3) <=>
        Follows(s, i, 3) /\ NeedsFour(Codepoint(s, i, 3)) /\ Scalar(Codepoint(s, i, 3))
      BY <1>2 DEF Accepts
<1> QED BY <1>1, <1>3, <1>5, <1>6

\* The table, for each length.
LEMMA CharacterOne ==
    ASSUME NEW b, Len(b) = 1, NEW c \in Byte, b[1] = c
    PROVE  IsCharacter(b) <=> c < 128
BY DEF IsCharacter

LEMMA CharacterTwo ==
    ASSUME NEW b, Len(b) = 2, NEW c \in Byte, NEW d \in Byte, b[1] = c, b[2] = d
    PROVE  IsCharacter(b) <=> Need(c) = 1 /\ d \in Tail80
<1>1. IsCharacter(b) <=> c \in 194 .. 223 /\ d \in Tail80
      BY DEF IsCharacter
<1> QED BY <1>1, Needs

LEMMA CharacterThree ==
    ASSUME NEW b, Len(b) = 3, NEW c \in Byte, NEW d \in Byte, NEW e \in Byte,
           b[1] = c, b[2] = d, b[3] = e
    PROVE  IsCharacter(b) <=> Need(c) = 2 /\ d \in Tail80 /\ e \in Tail80 /\ Second3(c, d)
<1>1. IsCharacter(b) <=>
            /\ e \in Tail80
            /\ \/ c = 224 /\ d \in 160 .. 191
               \/ c \in (225 .. 236) \union {238, 239} /\ d \in Tail80
               \/ c = 237 /\ d \in 128 .. 159
      BY DEF IsCharacter
<1>2. Need(c) = 2 <=> c \in 224 .. 239
      BY Needs
<1>3. /\ \/ c = 224 /\ d \in 160 .. 191
         \/ c \in (225 .. 236) \union {238, 239} /\ d \in Tail80
         \/ c = 237 /\ d \in 128 .. 159
      <=> c \in 224 .. 239 /\ d \in Tail80 /\ Second3(c, d)
      BY DEF Second3, Tail80
<1> QED BY <1>1, <1>2, <1>3

LEMMA CharacterFour ==
    ASSUME NEW b, Len(b) = 4, NEW c \in Byte, NEW d \in Byte, NEW e \in Byte, NEW g \in Byte,
           b[1] = c, b[2] = d, b[3] = e, b[4] = g
    PROVE  IsCharacter(b) <=>
             Need(c) = 3 /\ d \in Tail80 /\ e \in Tail80 /\ g \in Tail80 /\ Second4(c, d)
<1>1. IsCharacter(b) <=>
            /\ e \in Tail80 /\ g \in Tail80
            /\ \/ c = 240 /\ d \in 144 .. 191
               \/ c \in 241 .. 243 /\ d \in Tail80
               \/ c = 244 /\ d \in 128 .. 143
      BY DEF IsCharacter
<1>2. Need(c) = 3 <=> c \in 240 .. 244
      BY Needs
<1>3. /\ \/ c = 240 /\ d \in 144 .. 191
         \/ c \in 241 .. 243 /\ d \in Tail80
         \/ c = 244 /\ d \in 128 .. 143
      <=> c \in 240 .. 244 /\ d \in Tail80 /\ Second4(c, d)
      BY DEF Second4, Tail80
<1> QED BY <1>1, <1>2, <1>3

LEMMA Piece ==
    ASSUME NEW s \in Seq(Byte), NEW i \in 1 .. Len(s), NEW n \in Nat, i + n - 1 <= Len(s)
    PROVE  /\ SubSeq(s, i, i + n - 1) \in Seq(Byte)
           /\ Len(SubSeq(s, i, i + n - 1)) = n
           /\ \A k \in 1 .. n : /\ SubSeq(s, i, i + n - 1)[k] = s[i + k - 1]
                                /\ s[i + k - 1] \in Byte
<1>1. \A k \in i .. i + n - 1 : s[k] \in Byte
      OBVIOUS
<1>2. i \in Int /\ i + n - 1 \in Int /\ i + n - 1 - i + 1 = n
      OBVIOUS
<1>3. /\ SubSeq(s, i, i + n - 1) \in Seq(Byte)
      /\ Len(SubSeq(s, i, i + n - 1)) = IF i <= i + n - 1 THEN i + n - 1 - i + 1 ELSE 0
      /\ \A k \in 1 .. i + n - 1 - i + 1 : SubSeq(s, i, i + n - 1)[k] = s[i + k - 1]
      BY <1>1, <1>2, SubSeqProperties
<1> QED BY <1>1, <1>3

\* A round finds exactly the characters of the table, and the table has at most one that
\* begins at a position.
LEMMA CharacterAt ==
    ASSUME NEW s \in Seq(Byte), NEW i \in 1 .. Len(s), NEW n \in 1 .. 4, i + n - 1 <= Len(s)
    PROVE  IsCharacter(SubSeq(s, i, i + n - 1)) <=> n = Need(s[i]) + 1 /\ DecodesAt(s, i)
<1> DEFINE b == SubSeq(s, i, i + n - 1)
<1>1. Len(b) = n /\ \A k \in 1 .. n : b[k] = s[i + k - 1] /\ s[i + k - 1] \in Byte
      BY Piece
<1> HIDE DEF b
<1>2. PICK c \in Byte : c = s[i] /\ c = b[1]
      BY <1>1
<1>3. Need(c) \in -1 .. 3 /\ Need(s[i]) = Need(c) /\ (Need(c) = 0 <=> c < 128)
      BY <1>2, Needs
<1>4. i \in Int
      OBVIOUS
<1>5. CASE n = 1
  <2>1. IsCharacter(b) <=> c < 128
        BY <1>1, <1>2, <1>5, CharacterOne
  <2>2. i + 0 <= Len(s)
        OBVIOUS
  <2>3. c < 128 => DecodesAt(s, i)
        BY <1>2, <2>2, DecodesOne
  <2> QED BY <1>3, <1>5, <2>1, <2>3 DEF b
<1>6. CASE n = 2
  <2>1. PICK d \in Byte : d = s[i + 1] /\ d = b[2]
        BY <1>1, <1>6
  <2>2. IsCharacter(b) <=> Need(c) = 1 /\ d \in Tail80
        BY <1>1, <1>2, <1>6, <2>1, CharacterTwo
  <2>3. i + 1 <= Len(s)
        BY <1>6
  <2>4. Need(c) = 1 => (DecodesAt(s, i) <=> d \in Tail80)
        BY <1>2, <2>1, <2>3, DecodesTwo
  <2> QED BY <1>3, <1>6, <2>2, <2>4 DEF b
<1>7. CASE n = 3
  <2>1. PICK d \in Byte : d = s[i + 1] /\ d = b[2]
        BY <1>1, <1>7
  <2>2. PICK e \in Byte : e = s[i + 2] /\ e = b[3]
        BY <1>1, <1>7
  <2>3. IsCharacter(b) <=> Need(c) = 2 /\ d \in Tail80 /\ e \in Tail80 /\ Second3(c, d)
        BY <1>1, <1>2, <1>7, <2>1, <2>2, CharacterThree
  <2>4. i + 2 <= Len(s)
        BY <1>7
  <2>5. Need(c) = 2 => (DecodesAt(s, i) <=> d \in Tail80 /\ e \in Tail80 /\ Second3(c, d))
        BY <1>2, <2>1, <2>2, <2>4, DecodesThree
  <2> QED BY <1>3, <1>7, <2>3, <2>5 DEF b
<1>8. CASE n = 4
  <2>1. PICK d \in Byte : d = s[i + 1] /\ d = b[2]
        BY <1>1, <1>8
  <2>2. PICK e \in Byte : e = s[i + 2] /\ e = b[3]
        BY <1>1, <1>8
  <2>3. PICK g \in Byte : g = s[i + 3] /\ g = b[4]
        BY <1>1, <1>8
  <2>4. IsCharacter(b) <=>
          Need(c) = 3 /\ d \in Tail80 /\ e \in Tail80 /\ g \in Tail80 /\ Second4(c, d)
        BY <1>1, <1>2, <1>8, <2>1, <2>2, <2>3, CharacterFour
  <2>5. i + 3 <= Len(s)
        BY <1>8
  <2>6. Need(c) = 3 =>
          (DecodesAt(s, i) <=> d \in Tail80 /\ e \in Tail80 /\ g \in Tail80 /\ Second4(c, d))
        BY <1>2, <2>1, <2>2, <2>3, <2>5, DecodesFour
  <2> QED BY <1>3, <1>8, <2>4, <2>6 DEF b
<1> QED BY <1>5, <1>6, <1>7, <1>8

\* What is known where a round finds a character.
LEMMA Decoded ==
    ASSUME NEW s \in Seq(Byte), NEW i \in 1 .. Len(s), DecodesAt(s, i)
    PROVE  /\ Need(s[i]) \in 0 .. 3 /\ i + Need(s[i]) <= Len(s)
           /\ IsCharacter(SubSeq(s, i, i + Need(s[i])))
<1>1. s[i] \in Byte
      OBVIOUS
<1>2. Need(s[i]) \in -1 .. 3
      BY <1>1, Needs
<1>3. Need(s[i]) >= 0 /\ i + Need(s[i]) <= Len(s)
      BY DEF DecodesAt
<1>4. Need(s[i]) + 1 \in 1 .. 4 /\ i + (Need(s[i]) + 1) - 1 = i + Need(s[i])
      BY <1>2, <1>3
<1>5. IsCharacter(SubSeq(s, i, i + (Need(s[i]) + 1) - 1))
      BY <1>3, <1>4, CharacterAt
<1> QED BY <1>2, <1>3, <1>4, <1>5

-----------------------------------------------------------------------------
(* The recursions over the text *)

ValidRounds(s, f) ==
    f = [i \in 1 .. Len(s) + 1 |-> i > Len(s) \/ (DecodesAt(s, i) /\ f[i + Need(s[i]) + 1])]

RepairRounds(s, f) ==
    f = [i \in 1 .. Len(s) + 1 |->
            IF i > Len(s) THEN <<>>
            ELSE IF DecodesAt(s, i)
            THEN SubSeq(s, i, i + Need(s[i])) \o f[i + Need(s[i]) + 1]
            ELSE Replacement \o f[i + 1]]

\* Where a round goes on.
NextRound(s, i) == IF DecodesAt(s, i) THEN i + Need(s[i]) + 1 ELSE i + 1

LEMMA AfterRange ==
    ASSUME NEW s \in Seq(Byte), NEW i \in 1 .. Len(s)
    PROVE  NextRound(s, i) \in i + 1 .. Len(s) + 1
<1>1. DecodesAt(s, i) => Need(s[i]) \in 0 .. 3 /\ i + Need(s[i]) <= Len(s)
      BY Decoded
<1>2. Len(s) \in Nat
      OBVIOUS
<1> QED BY <1>1, <1>2 DEF NextRound

LEMMA ValidExists ==
    ASSUME NEW s \in Seq(Byte)
    PROVE  \E f : ValidRounds(s, f)
<1> DEFINE N == Len(s)
           next == [i \in 1 .. N |-> NextRound(s, i)]
           G == [i \in 1 .. N |-> [v \in BOOLEAN |-> DecodesAt(s, i) /\ v]]
<1>1. N \in Nat
      OBVIOUS
<1>2. \A i \in 1 .. N : next[i] \in i + 1 .. N + 1
      BY AfterRange
<1>3. \A i \in 1 .. N, v \in BOOLEAN : G[i][v] = (DecodesAt(s, i) /\ v) /\ G[i][v] \in BOOLEAN
      OBVIOUS
<1>4. TRUE \in BOOLEAN
      OBVIOUS
<1> HIDE DEF N, next, G
<1>5. PICK f \in [1 .. N + 1 -> BOOLEAN] : Unfolds(N, f, TRUE, next, G)
  <2> DEFINE V == BOOLEAN
             base == TRUE
  <2>1. base \in V
        BY <1>4
  <2>2. Advances(N, next) /\ StaysIn(N, V, G)
        BY <1>2, <1>3 DEF Advances, StaysIn
  <2> HIDE DEF V, base
  <2>3. \E f \in [1 .. N + 1 -> V] : Unfolds(N, f, base, next, G)
        BY <1>1, <2>1, <2>2, Recursion
  <2> QED BY <2>3 DEF V, base
<1>5a. f[N + 1] = TRUE /\ \A i \in 1 .. N : f[i] = G[i][f[next[i]]]
       BY <1>5 DEF Unfolds
<1>6. ASSUME NEW i \in 1 .. N + 1
      PROVE  f[i] = (i > N \/ (DecodesAt(s, i) /\ f[i + Need(s[i]) + 1]))
  <2>1. CASE i = N + 1
        BY <1>1, <1>5a, <2>1
  <2>2. CASE i # N + 1
    <3>1. i \in 1 .. N /\ ~(i > N)
          BY <1>1, <2>2
    <3>2. next[i] = NextRound(s, i) /\ next[i] \in 1 .. N + 1
          BY <1>1, <1>2, <3>1 DEF next
    <3>3. f[next[i]] \in BOOLEAN /\ f[i] \in BOOLEAN
          BY <1>5, <3>2
    <3>4. f[i] = (DecodesAt(s, i) /\ f[next[i]])
          BY <1>3, <1>5a, <3>1, <3>3
    <3>5. DecodesAt(s, i) => next[i] = i + Need(s[i]) + 1
          BY <3>2 DEF NextRound
    <3> QED BY <3>1, <3>3, <3>4, <3>5
  <2> QED BY <2>1, <2>2
<1>7. f = [i \in 1 .. N + 1 |-> i > N \/ (DecodesAt(s, i) /\ f[i + Need(s[i]) + 1])]
      BY <1>6
<1> QED BY <1>7 DEF ValidRounds, N

\* What IsValidUtf8 computes from a position on.
LEMMA ValidFrom ==
    ASSUME NEW s \in Seq(Byte)
    PROVE  \E f : /\ IsValidUtf8(s) <=> f[1]
                  /\ f[Len(s) + 1]
                  /\ \A i \in 1 .. Len(s) :
                        f[i] <=> DecodesAt(s, i) /\ f[i + Need(s[i]) + 1]
<1> DEFINE f == CHOOSE f : ValidRounds(s, f)
<1>1. IsValidUtf8(s) = f[1]
      BY DEF IsValidUtf8, ValidRounds
<1>2. ValidRounds(s, f)
      BY ValidExists
<1> HIDE DEF f
<1>3. \A i \in 1 .. Len(s) + 1 :
        f[i] = (i > Len(s) \/ (DecodesAt(s, i) /\ f[i + Need(s[i]) + 1]))
      BY <1>2 DEF ValidRounds
<1>4. Len(s) \in Nat
      OBVIOUS
<1>5. f[Len(s) + 1]
  <2>1. Len(s) + 1 \in 1 .. Len(s) + 1 /\ Len(s) + 1 > Len(s)
        BY <1>4
  <2> QED BY <1>3, <2>1
<1>6. ASSUME NEW i \in 1 .. Len(s)
      PROVE  f[i] <=> DecodesAt(s, i) /\ f[i + Need(s[i]) + 1]
  <2>1. i \in 1 .. Len(s) + 1 /\ ~(i > Len(s))
        BY <1>4
  <2>2. f[i] = (i > Len(s) \/ (DecodesAt(s, i) /\ f[i + Need(s[i]) + 1]))
        BY <1>3, <2>1
  <2> QED BY <2>1, <2>2
<1> QED BY <1>1, <1>5, <1>6

LEMMA ReplacementIsText == Replacement \in Seq(Byte) /\ Len(Replacement) = 3
BY DEF Replacement, Byte

\* The text that a round sends out.
Sent(s, i) == IF DecodesAt(s, i) THEN SubSeq(s, i, i + Need(s[i])) ELSE Replacement

LEMMA SentTyped ==
    ASSUME NEW s \in Seq(Byte), NEW i \in 1 .. Len(s)
    PROVE  /\ Sent(s, i) \in Seq(Byte)
           /\ Len(Sent(s, i)) \in NextRound(s, i) - i .. 3 * (NextRound(s, i) - i)
           /\ DecodesAt(s, i) => Sent(s, i) = SubSeq(s, i, NextRound(s, i) - 1)
<1>1. CASE DecodesAt(s, i)
  <2>1. Need(s[i]) \in 0 .. 3 /\ i + Need(s[i]) <= Len(s)
        BY <1>1, Decoded
  <2>2. Need(s[i]) + 1 \in Nat /\ i + (Need(s[i]) + 1) - 1 = i + Need(s[i])
        BY <2>1
  <2>3. /\ SubSeq(s, i, i + Need(s[i])) \in Seq(Byte)
        /\ Len(SubSeq(s, i, i + Need(s[i]))) = Need(s[i]) + 1
        BY <2>1, <2>2, Piece
  <2>4. NextRound(s, i) = i + Need(s[i]) + 1
        BY <1>1 DEF NextRound
  <2>5. Sent(s, i) = SubSeq(s, i, i + Need(s[i])) /\ NextRound(s, i) - 1 = i + Need(s[i])
        BY <1>1, <2>1, <2>4 DEF Sent
  <2> QED BY <2>1, <2>3, <2>4, <2>5, SMTT(30)
<1>2. CASE ~DecodesAt(s, i)
  <2>1. Sent(s, i) = Replacement /\ NextRound(s, i) = i + 1
        BY <1>2 DEF Sent, NextRound
  <2>2. i \in Int /\ i + 1 - i = 1
        OBVIOUS
  <2>3. NextRound(s, i) - i = 1 /\ 3 \in 1 .. 3 * 1
        BY <2>1, <2>2
  <2>4. Len(Sent(s, i)) \in NextRound(s, i) - i .. 3 * (NextRound(s, i) - i)
        BY <2>1, <2>3, ReplacementIsText
  <2> QED BY <1>2, <2>1, <2>4, ReplacementIsText
<1> QED BY <1>1, <1>2

\* A solution sends each round's text and what the later rounds send.
LEMMA RepairUnfolds ==
    ASSUME NEW s \in Seq(Byte), NEW f, RepairRounds(s, f)
    PROVE  /\ f[Len(s) + 1] = <<>>
           /\ \A i \in 1 .. Len(s) : f[i] = Sent(s, i) \o f[NextRound(s, i)]
<1>1. \A i \in 1 .. Len(s) + 1 :
        f[i] = IF i > Len(s) THEN <<>>
               ELSE IF DecodesAt(s, i)
               THEN SubSeq(s, i, i + Need(s[i])) \o f[i + Need(s[i]) + 1]
               ELSE Replacement \o f[i + 1]
      BY DEF RepairRounds
<1>2. Len(s) \in Nat
      OBVIOUS
<1>3. f[Len(s) + 1] = <<>>
  <2>1. Len(s) + 1 \in 1 .. Len(s) + 1 /\ Len(s) + 1 > Len(s)
        BY <1>2
  <2> QED BY <1>1, <2>1
<1>4. ASSUME NEW i \in 1 .. Len(s)
      PROVE  f[i] = Sent(s, i) \o f[NextRound(s, i)]
  <2>1. i \in 1 .. Len(s) + 1 /\ ~(i > Len(s))
        BY <1>2
  <2>2. f[i] = IF DecodesAt(s, i)
               THEN SubSeq(s, i, i + Need(s[i])) \o f[i + Need(s[i]) + 1]
               ELSE Replacement \o f[i + 1]
        BY <1>1, <2>1
  <2> QED BY <2>2 DEF Sent, NextRound
<1> QED BY <1>3, <1>4

LEMMA RepairExists ==
    ASSUME NEW s \in Seq(Byte)
    PROVE  \E f : RepairRounds(s, f)
<1> DEFINE N == Len(s)
           V == Seq(Byte)
           base == <<>>
           next == [i \in 1 .. N |-> NextRound(s, i)]
           G == [i \in 1 .. N |-> [v \in V |-> Sent(s, i) \o v]]
<1>1. N \in Nat /\ base \in V
      OBVIOUS
<1>2. Advances(N, next)
      BY AfterRange DEF Advances
<1>3. \A i \in 1 .. N, v \in V : G[i][v] = Sent(s, i) \o v
      OBVIOUS
<1>4. StaysIn(N, V, G)
  <2>1. ASSUME NEW i \in 1 .. N, NEW v \in V
        PROVE  Sent(s, i) \o v \in V
    <3>1. Sent(s, i) \in Seq(Byte)
          BY SentTyped
    <3> QED BY <3>1, ConcatProperties
  <2> HIDE DEF G, N, V
  <2> QED BY <1>3, <2>1 DEF StaysIn
<1>5. \A i \in 1 .. N : next[i] = NextRound(s, i) /\ next[i] \in i + 1 .. N + 1
      BY <1>2 DEF Advances
<1> HIDE DEF N, V, base, next, G
<1>6. PICK f \in [1 .. N + 1 -> V] : Unfolds(N, f, base, next, G)
      BY <1>1, <1>2, <1>4, Recursion
<1>7. f[N + 1] = base /\ \A i \in 1 .. N : f[i] = G[i][f[next[i]]]
      BY <1>6 DEF Unfolds
<1>8. ASSUME NEW i \in 1 .. N + 1
      PROVE  f[i] = IF i > N THEN <<>>
                    ELSE IF DecodesAt(s, i)
                    THEN SubSeq(s, i, i + Need(s[i])) \o f[i + Need(s[i]) + 1]
                    ELSE Replacement \o f[i + 1]
  <2>1. CASE i = N + 1
        BY <1>1, <1>7, <2>1 DEF base
  <2>2. CASE i # N + 1
    <3>1. i \in 1 .. N /\ ~(i > N)
          BY <1>1, <2>2
    <3>2. next[i] = NextRound(s, i) /\ next[i] \in 1 .. N + 1
          BY <1>1, <1>5, <3>1
    <3>3. f[next[i]] \in V
          BY <1>6, <3>2
    <3>4. f[i] = Sent(s, i) \o f[NextRound(s, i)]
          BY <1>3, <1>7, <3>1, <3>2, <3>3
    <3> QED BY <3>1, <3>4 DEF Sent, NextRound
  <2> QED BY <2>1, <2>2
<1>9. f = [i \in 1 .. N + 1 |->
            IF i > N THEN <<>>
            ELSE IF DecodesAt(s, i)
            THEN SubSeq(s, i, i + Need(s[i])) \o f[i + Need(s[i]) + 1]
            ELSE Replacement \o f[i + 1]]
      BY <1>6, <1>8
<1> QED BY <1>9 DEF RepairRounds, N

\* All solutions are one, and its values are texts of bounded length.
LEMMA RepairUnique ==
    ASSUME NEW s \in Seq(Byte), NEW f, NEW g, RepairRounds(s, f), RepairRounds(s, g)
    PROVE  \A i \in 1 .. Len(s) + 1 : f[i] = g[i]
<1> DEFINE T == {i \in 1 .. Len(s) + 1 : f[i] = g[i]}
<1>1. Len(s) \in Nat
      OBVIOUS
<1>2. ASSUME NEW i \in 1 .. Len(s) + 1, \A j \in i + 1 .. Len(s) + 1 : j \in T
      PROVE  i \in T
  <2>1. CASE i = Len(s) + 1
        BY <2>1, RepairUnfolds
  <2>2. CASE i # Len(s) + 1
    <3>1. i \in 1 .. Len(s)
          BY <1>1, <2>2
    <3>2. NextRound(s, i) \in T
          BY <1>2, <3>1, AfterRange
    <3>3. f[i] = Sent(s, i) \o f[NextRound(s, i)]
          BY <3>1, RepairUnfolds
    <3>4. g[i] = Sent(s, i) \o g[NextRound(s, i)]
          BY <3>1, RepairUnfolds
    <3>5. f[NextRound(s, i)] = g[NextRound(s, i)]
          BY <3>2
    <3> HIDE DEF T
    <3>6. f[i] = g[i]
          BY <3>3, <3>4, <3>5
    <3> QED BY <3>6 DEF T
  <2> QED BY <2>1, <2>2
<1>3. \A i \in 1 .. Len(s) + 1 : i \in T
  <2> HIDE DEF T
  <2> QED BY <1>1, <1>2, Downwards
<1> QED BY <1>3

LEMMA RepairTyped ==
    ASSUME NEW s \in Seq(Byte), NEW f, RepairRounds(s, f)
    PROVE  \A i \in 1 .. Len(s) + 1 :
             /\ f[i] \in Seq(Byte)
             /\ Len(f[i]) \in Len(s) + 1 - i .. 3 * (Len(s) + 1 - i)
<1> DEFINE T == {i \in 1 .. Len(s) + 1 : /\ f[i] \in Seq(Byte)
                                         /\ Len(f[i]) \in Len(s) + 1 - i .. 3 * (Len(s) + 1 - i)}
<1>1. Len(s) \in Nat
      OBVIOUS
<1>2. ASSUME NEW i \in 1 .. Len(s) + 1, \A j \in i + 1 .. Len(s) + 1 : j \in T
      PROVE  i \in T
  <2>1. CASE i = Len(s) + 1
    <3>1. f[i] = <<>>
          BY <2>1, RepairUnfolds
    <3>2. <<>> \in Seq(Byte) /\ Len(<<>>) = 0
          BY EmptySeq
    <3>3. Len(s) + 1 - i = 0 /\ 0 \in 0 .. 3 * 0
          BY <1>1, <2>1
    <3> HIDE DEF T
    <3>4. f[i] \in Seq(Byte) /\ Len(f[i]) \in Len(s) + 1 - i .. 3 * (Len(s) + 1 - i)
          BY <3>1, <3>2, <3>3, Zenon
    <3> QED BY <3>4 DEF T
  <2>2. CASE i # Len(s) + 1
    <3>1. i \in 1 .. Len(s)
          BY <1>1, <2>2
    <3> DEFINE k == NextRound(s, i)
    <3>2. k \in i + 1 .. Len(s) + 1
          BY <3>1, AfterRange
    <3>3. f[k] \in Seq(Byte) /\ Len(f[k]) \in Len(s) + 1 - k .. 3 * (Len(s) + 1 - k)
          BY <1>2, <3>2
    <3>4. Sent(s, i) \in Seq(Byte) /\ Len(Sent(s, i)) \in k - i .. 3 * (k - i)
          BY <3>1, SentTyped
    <3>5. f[i] = Sent(s, i) \o f[k]
          BY <3>1, RepairUnfolds
    <3> HIDE DEF k
    <3>6. f[i] \in Seq(Byte) /\ Len(f[i]) = Len(Sent(s, i)) + Len(f[k])
          BY <3>3, <3>4, <3>5, ConcatProperties
    <3>7. Len(Sent(s, i)) + Len(f[k]) \in Len(s) + 1 - i .. 3 * (Len(s) + 1 - i)
      <4>1. \A a, b \in Int : a \in k - i .. 3 * (k - i) /\ b \in Len(s) + 1 - k .. 3 * (Len(s) + 1 - k)
              => a + b \in Len(s) + 1 - i .. 3 * (Len(s) + 1 - i)
            BY <1>1, <3>2
      <4>2. Len(Sent(s, i)) \in Int /\ Len(f[k]) \in Int
            BY <3>3, <3>4
      <4> QED BY <3>3, <3>4, <4>1, <4>2
    <3> QED BY <3>6, <3>7
  <2> QED BY <2>1, <2>2
<1>3. \A i \in 1 .. Len(s) + 1 : i \in T
  <2> HIDE DEF T
  <2> QED BY <1>1, <1>2, Downwards
<1> QED BY <1>3

\* A text that is valid is sent as it is, so the repair is what is sent in every case.
LEMMA RepairOfValid ==
    ASSUME NEW s \in Seq(Byte), NEW f, RepairRounds(s, f), IsValidUtf8(s)
    PROVE  f[1] = s
<1> DEFINE N == Len(s)
<1>1. PICK v : /\ v[1]
               /\ \A i \in 1 .. Len(s) :
                      v[i] <=> DecodesAt(s, i) /\ v[i + Need(s[i]) + 1]
      BY ValidFrom
<1> DEFINE T == {i \in 1 .. N + 1 : v[i] => f[i] = SubSeq(s, i, N)}
<1>2. N \in Nat
      OBVIOUS
<1>3. ASSUME NEW i \in 1 .. N + 1, \A j \in i + 1 .. N + 1 : j \in T
      PROVE  i \in T
  <2>1. CASE i = N + 1
    <3>1. f[i] = <<>>
          BY <2>1, RepairUnfolds
    <3>2. SubSeq(s, i, N) = <<>>
          BY <1>2, <2>1, SubSeqEmpty
    <3> QED BY <3>1, <3>2
  <2>2. CASE i # N + 1 /\ v[i]
    <3>1. i \in 1 .. N
          BY <1>2, <2>2
    <3>2. DecodesAt(s, i) /\ v[NextRound(s, i)]
          BY <1>1, <2>2, <3>1 DEF NextRound
    <3>3. Need(s[i]) \in 0 .. 3 /\ i + Need(s[i]) <= N
          BY <3>1, <3>2, Decoded
    <3> DEFINE k == NextRound(s, i)
    <3>4. k \in i + 1 .. N + 1
          BY <3>1, AfterRange
    <3>5. f[k] = SubSeq(s, k, N)
          BY <1>3, <3>2, <3>4
    <3>6. f[i] = SubSeq(s, i, k - 1) \o f[k]
          BY <3>1, <3>2, SentTyped, RepairUnfolds
    <3> HIDE DEF k
    <3>7. SubSeq(s, i, k - 1) \o SubSeq(s, k, N) = SubSeq(s, i, N)
      <4>1. /\ i \in 1 .. Len(s) + 1 /\ k - 1 \in i - 1 .. Len(s)
            /\ N \in k - 1 .. Len(s) /\ k - 1 + 1 = k
            BY <1>2, <3>1, <3>4
      <4>2. SubSeq(s, i, k - 1) \o SubSeq(s, k - 1 + 1, N) = SubSeq(s, i, N)
            BY <4>1, ConcatAdjacentSubSeq
      <4> QED BY <4>1, <4>2
    <3> QED BY <3>5, <3>6, <3>7
  <2> QED BY <2>1, <2>2
<1>4. \A i \in 1 .. N + 1 : i \in T
  <2> HIDE DEF T, N
  <2> QED BY <1>2, <1>3, Downwards
<1>5. f[1] = SubSeq(s, 1, N)
      BY <1>1, <1>2, <1>4
<1> QED BY <1>5, SubSeqFull

SameRepair(s, f) ==
    f = [i \in 1 .. Len(s) + 1 |->
            IF i > Len(s) THEN <<>>
            ELSE IF \E n \in 1 .. 4 : i + n - 1 <= Len(s) /\ IsCharacter(SubSeq(s, i, i + n - 1))
            THEN LET n == CHOOSE m \in 1 .. 4 :
                            i + m - 1 <= Len(s) /\ IsCharacter(SubSeq(s, i, i + m - 1))
                 IN  SubSeq(s, i, i + n - 1) \o f[i + n]
            ELSE Replacement \o f[i + 1]]

\* The table's character at a position is the round's.
LEMMA SameCharacter ==
    ASSUME NEW s \in Seq(Byte), NEW i \in 1 .. Len(s)
    PROVE  /\ (\E n \in 1 .. 4 : i + n - 1 <= Len(s) /\ IsCharacter(SubSeq(s, i, i + n - 1)))
                <=> DecodesAt(s, i)
           /\ DecodesAt(s, i) =>
                (CHOOSE m \in 1 .. 4 : i + m - 1 <= Len(s) /\ IsCharacter(SubSeq(s, i, i + m - 1)))
                  = Need(s[i]) + 1
<1> DEFINE P(n) == i + n - 1 <= Len(s) /\ IsCharacter(SubSeq(s, i, i + n - 1))
<1>1. \A n \in 1 .. 4 : P(n) => n = Need(s[i]) + 1 /\ DecodesAt(s, i)
      BY CharacterAt
<1>2. ASSUME DecodesAt(s, i)
      PROVE  Need(s[i]) + 1 \in 1 .. 4 /\ P(Need(s[i]) + 1)
  <2>1. Need(s[i]) \in 0 .. 3 /\ i + Need(s[i]) <= Len(s)
        /\ IsCharacter(SubSeq(s, i, i + Need(s[i])))
        BY <1>2, Decoded
  <2>2. Need(s[i]) + 1 \in 1 .. 4 /\ i + (Need(s[i]) + 1) - 1 = i + Need(s[i])
        BY <2>1
  <2> QED BY <2>1, <2>2
<1> HIDE DEF P
<1>3. (\E n \in 1 .. 4 : P(n)) <=> DecodesAt(s, i)
      BY <1>1, <1>2
<1>4. DecodesAt(s, i) => (CHOOSE m \in 1 .. 4 : P(m)) = Need(s[i]) + 1
      BY <1>1, <1>2
<1> QED BY <1>3, <1>4 DEF P

LEMMA RepairsAgree ==
    ASSUME NEW s \in Seq(Byte), NEW f
    PROVE  RepairRounds(s, f) <=> SameRepair(s, f)
<1> DEFINE A(i) == IF i > Len(s) THEN <<>>
                   ELSE IF DecodesAt(s, i)
                   THEN SubSeq(s, i, i + Need(s[i])) \o f[i + Need(s[i]) + 1]
                   ELSE Replacement \o f[i + 1]
           B(i) == IF i > Len(s) THEN <<>>
                   ELSE IF \E n \in 1 .. 4 : i + n - 1 <= Len(s) /\ IsCharacter(SubSeq(s, i, i + n - 1))
                   THEN LET n == CHOOSE m \in 1 .. 4 :
                                   i + m - 1 <= Len(s) /\ IsCharacter(SubSeq(s, i, i + m - 1))
                        IN  SubSeq(s, i, i + n - 1) \o f[i + n]
                   ELSE Replacement \o f[i + 1]
<1>1. ASSUME NEW i \in 1 .. Len(s) + 1
      PROVE  A(i) = B(i)
  <2>1. CASE i > Len(s)
        BY <2>1
  <2>2. CASE ~(i > Len(s)) /\ ~DecodesAt(s, i)
    <3>1. i \in 1 .. Len(s)
          BY <2>2
    <3> QED BY <2>2, <3>1, SameCharacter, Zenon
  <2>3. CASE ~(i > Len(s)) /\ DecodesAt(s, i)
    <3>1. i \in 1 .. Len(s)
          BY <2>3
    <3> DEFINE n == Need(s[i])
    <3>2. n \in 0 .. 3
          BY <2>3, <3>1, Decoded
    <3>3. i + (n + 1) - 1 = i + n /\ i + n + 1 = i + (n + 1)
          BY <3>2
    <3>4. B(i) = SubSeq(s, i, i + (n + 1) - 1) \o f[i + (n + 1)]
          BY <2>3, <3>1, SameCharacter, Zenon
    <3>5. A(i) = SubSeq(s, i, i + n) \o f[i + n + 1]
          BY <2>3
    <3> HIDE DEF n, A, B
    <3> QED BY <3>3, <3>4, <3>5
  <2> QED BY <2>1, <2>2, <2>3
<1>2. RepairRounds(s, f) <=> f = [i \in 1 .. Len(s) + 1 |-> A(i)]
      BY DEF RepairRounds
<1>3. SameRepair(s, f) <=> f = [i \in 1 .. Len(s) + 1 |-> B(i)]
      BY DEF SameRepair
<1> HIDE DEF A, B
<1>4. [i \in 1 .. Len(s) + 1 |-> A(i)] = [i \in 1 .. Len(s) + 1 |-> B(i)]
      BY <1>1
<1> QED BY <1>2, <1>3, <1>4

\* What is sent is the reference's repair: a text of bytes, at most three times as long.
LEMMA SanitizeIsRepair ==
    ASSUME NEW s \in Seq(Byte)
    PROVE  /\ SanitizeUtf8Lossy(s) = RepairOf(s)
           /\ SanitizeUtf8Lossy(s) \in Seq(Byte)
           /\ Len(SanitizeUtf8Lossy(s)) \in Len(s) .. 3 * Len(s)
<1> DEFINE f == CHOOSE f : RepairRounds(s, f)
           g == CHOOSE g : SameRepair(s, g)
<1>1. RepairRounds(s, f)
      BY RepairExists
<1>2. SameRepair(s, g)
      BY <1>1, RepairsAgree
<1>3. SanitizeUtf8Lossy(s) = IF IsValidUtf8(s) THEN s ELSE f[1]
      BY DEF SanitizeUtf8Lossy, RepairRounds
<1>4. RepairOf(s) = g[1]
      BY DEF RepairOf, SameRepair
<1> HIDE DEF f, g
<1>5. SanitizeUtf8Lossy(s) = f[1]
      BY <1>1, <1>3, RepairOfValid
<1>6. Len(s) \in Nat /\ 1 \in 1 .. Len(s) + 1 /\ Len(s) + 1 - 1 = Len(s)
      OBVIOUS
<1>7. f[1] = g[1]
  <2>1. RepairRounds(s, g)
        BY <1>2, RepairsAgree
  <2> QED BY <1>1, <1>6, <2>1, RepairUnique
<1>8. f[1] \in Seq(Byte) /\ Len(f[1]) \in Len(s) + 1 - 1 .. 3 * (Len(s) + 1 - 1)
      BY <1>1, <1>6, RepairTyped
<1> QED BY <1>4, <1>5, <1>6, <1>7, <1>8

-----------------------------------------------------------------------------
(* The table's cuts against the decoder's loop *)
CutRounds(s, cuts) ==
    cuts = [k \in 0 .. Len(s) |->
              IF k = 0 THEN {0}
              ELSE cuts[k - 1] \union
                   {j \in {k} : \E i \in cuts[k - 1] : IsCharacter(SubSeq(s, i + 1, j))}]

LEMMA CutsExist ==
    ASSUME NEW s \in Seq(Byte)
    PROVE  \E cuts : CutRounds(s, cuts)
<1> DEFINE N == Len(s)
           V == SUBSET (0 .. N)
           base == {0}
           next == [i \in 1 .. N |-> i + 1]
           More(k, v) == v \union {j \in {k} : \E i \in v : IsCharacter(SubSeq(s, i + 1, j))}
           G == [i \in 1 .. N |-> [v \in V |-> More(N + 1 - i, v)]]
<1>1. N \in Nat
      OBVIOUS
<1>2. base \in V
      BY <1>1
<1>3. Advances(N, next)
      BY <1>1 DEF Advances
<1>4. \A i \in 1 .. N, v \in V : G[i][v] = More(N + 1 - i, v)
      OBVIOUS
<1>5. StaysIn(N, V, G)
  <2>1. ASSUME NEW i \in 1 .. N, NEW v \in V
        PROVE  More(N + 1 - i, v) \in V
    <3> DEFINE k == N + 1 - i
    <3>1. k \in 0 .. N
          BY <1>1
    <3> HIDE DEF k, N
    <3>2. More(k, v) \subseteq 0 .. N
          BY <3>1
    <3> QED BY <3>2 DEF k
  <2> HIDE DEF G, N, V, More
  <2> QED BY <1>4, <2>1 DEF StaysIn
<1>6. \A i \in 1 .. N : next[i] = i + 1
      OBVIOUS
<1> HIDE DEF N, V, base, next, G, More
<1>7. PICK h \in [1 .. N + 1 -> V] : Unfolds(N, h, base, next, G)
      BY <1>1, <1>2, <1>3, <1>5, Recursion
<1>8. h[N + 1] = base /\ \A i \in 1 .. N : h[i] = G[i][h[next[i]]]
      BY <1>7 DEF Unfolds
<1> DEFINE cuts == [k \in 0 .. N |-> h[N + 1 - k]]
<1>9. ASSUME NEW k \in 0 .. N
      PROVE  cuts[k] = IF k = 0 THEN {0} ELSE More(k, cuts[k - 1])
  <2>1. CASE k = 0
        BY <1>1, <1>8, <2>1 DEF base
  <2>2. CASE k # 0
    <3>1. /\ N + 1 - k \in 1 .. N /\ N + 1 - (k - 1) = N + 1 - k + 1
          /\ N + 1 - (N + 1 - k) = k /\ k - 1 \in 0 .. N /\ N + 1 - k + 1 \in 1 .. N + 1
          BY <1>1, <2>2
    <3>2. cuts[k] = h[N + 1 - k] /\ cuts[k - 1] = h[N + 1 - k + 1]
          BY <3>1
    <3>3. h[N + 1 - k + 1] \in V
          BY <1>7, <3>1
    <3>4. h[N + 1 - k] = More(k, h[N + 1 - k + 1])
          BY <1>4, <1>6, <1>8, <3>1, <3>3
    <3> QED BY <2>2, <3>2, <3>4
  <2> QED BY <2>1, <2>2
<1>10. cuts = [k \in 0 .. N |-> IF k = 0 THEN {0} ELSE More(k, cuts[k - 1])]
       BY <1>9
<1> HIDE DEF cuts
<1> QED BY <1>10 DEF CutRounds, N, More

\* The cuts: 0, and every position up to which a character reaches from a cut.
LEMMA Cuts ==
    ASSUME NEW s \in Seq(Byte)
    PROVE  \E C \in SUBSET (0 .. Len(s)) :
             /\ 0 \in C
             /\ \A k \in 1 .. Len(s) :
                  k \in C <=> \E i \in C : i < k /\ IsCharacter(SubSeq(s, i + 1, k))
             /\ WellFormed(s) <=> Len(s) \in C
<1> DEFINE cuts == CHOOSE cuts : CutRounds(s, cuts)
           N == Len(s)
<1>1. CutRounds(s, cuts)
      BY CutsExist
<1>2. WellFormed(s) = (N \in cuts[N])
      BY DEF WellFormed, CutRounds
<1>3. N \in Nat
      OBVIOUS
<1> HIDE DEF cuts
<1>4. cuts[0] = {0}
      BY <1>1, <1>3 DEF CutRounds
<1>5. ASSUME NEW k \in 1 .. N
      PROVE  cuts[k] = cuts[k - 1] \union
                 {j \in {k} : \E i \in cuts[k - 1] : IsCharacter(SubSeq(s, i + 1, j))}
  <2>1. k \in 0 .. N /\ k # 0
        BY <1>3
  <2> QED BY <1>1, <2>1 DEF CutRounds
<1> DEFINE C == {k \in 0 .. N : k \in cuts[k]}
           T == {k \in 0 .. N : cuts[k] = {j \in C : j <= k}}
<1>6. ASSUME NEW k \in 0 .. N, \A j \in 0 .. k - 1 : j \in T
      PROVE  k \in T
  <2>1. CASE k = 0
    <3>1. {j \in C : j <= 0} = {0}
          BY <1>3, <1>4
    <3> QED BY <1>4, <2>1, <3>1
  <2>2. CASE k # 0
    <3>1. k \in 1 .. N /\ k - 1 \in 0 .. k - 1
          BY <1>3, <2>2
    <3>2. cuts[k - 1] = {j \in C : j <= k - 1}
          BY <1>6, <3>1
    <3>3. \A j : j \in cuts[k] => j \in cuts[k - 1] \/ j = k
          BY <1>5, <3>1
    <3>4. cuts[k - 1] \subseteq cuts[k]
          BY <1>5, <3>1
    <3> QED BY <3>1, <3>2, <3>3, <3>4
  <2> QED BY <2>1, <2>2
<1>7. \A k \in 0 .. N : k \in T
  <2> HIDE DEF T, N
  <2> QED BY <1>3, <1>6, Upwards
<1>8. ASSUME NEW k \in 1 .. N
      PROVE  k \in C <=> \E i \in C : i < k /\ IsCharacter(SubSeq(s, i + 1, k))
  <2>1. k - 1 \in 0 .. N /\ k \in 0 .. N
        BY <1>3
  <2>2. cuts[k - 1] = {j \in C : j <= k - 1}
        BY <1>7, <2>1
  <2>3. k \notin cuts[k - 1]
        BY <2>2
  <2>4. k \in C <=> \E i \in cuts[k - 1] : IsCharacter(SubSeq(s, i + 1, k))
        BY <1>5, <2>1, <2>3
  <2>5. \A i \in C : i <= k - 1 <=> i < k
        BY <1>3
  <2> HIDE DEF C
  <2> QED BY <2>2, <2>4, <2>5
<1>9. C \in SUBSET (0 .. N) /\ 0 \in C /\ (N \in C <=> N \in cuts[N])
      BY <1>3, <1>4
<1> HIDE DEF C
<1> QED BY <1>2, <1>8, <1>9

LEMMA CharacterLength ==
    ASSUME NEW b, IsCharacter(b)
    PROVE  Len(b) \in 1 .. 4
BY DEF IsCharacter

\* The loop of IsValidUtf8 decides the table's well-formedness.
LEMMA ValidIsWellFormed ==
    ASSUME NEW s \in Seq(Byte)
    PROVE  IsValidUtf8(s) <=> WellFormed(s)
<1> DEFINE N == Len(s)
<1>1. PICK C \in SUBSET (0 .. Len(s)) :
             /\ 0 \in C
             /\ \A k \in 1 .. Len(s) :
                  k \in C <=> \E i \in C : i < k /\ IsCharacter(SubSeq(s, i + 1, k))
             /\ WellFormed(s) <=> Len(s) \in C
      BY Cuts
<1>2. PICK v : /\ IsValidUtf8(s) <=> v[1]
               /\ v[Len(s) + 1]
               /\ \A i \in 1 .. Len(s) :
                      v[i] <=> DecodesAt(s, i) /\ v[i + Need(s[i]) + 1]
      BY ValidFrom
<1>3. N \in Nat
      OBVIOUS
<1>4. ASSUME v[1]
      PROVE  N \in C
  <2> DEFINE T == {i \in 1 .. N + 1 : v[i] /\ i - 1 \in C => N \in C}
  <2>1. ASSUME NEW i \in 1 .. N + 1, \A j \in i + 1 .. N + 1 : j \in T
        PROVE  i \in T
    <3>1. CASE i = N + 1
          BY <1>3, <3>1
    <3>2. CASE i # N + 1 /\ v[i] /\ i - 1 \in C
      <4>1. i \in 1 .. N
            BY <1>3, <3>2
      <4>2. DecodesAt(s, i) /\ v[i + Need(s[i]) + 1]
            BY <1>2, <3>2, <4>1
      <4>3. /\ Need(s[i]) \in 0 .. 3 /\ i + Need(s[i]) <= N
            /\ IsCharacter(SubSeq(s, i, i + Need(s[i])))
            BY <4>1, <4>2, Decoded
      <4> DEFINE k == i + Need(s[i])
      <4>4. /\ k \in 1 .. N /\ i - 1 < k /\ i - 1 + 1 = i
            /\ k + 1 \in i + 1 .. N + 1 /\ k + 1 - 1 = k
            BY <1>3, <4>1, <4>3
      <4> HIDE DEF k
      <4>5. IsCharacter(SubSeq(s, i - 1 + 1, k))
            BY <4>3, <4>4 DEF k
      <4>6. k \in C
            BY <1>1, <3>2, <4>4, <4>5
      <4>7. k + 1 \in T /\ v[k + 1]
            BY <2>1, <4>2, <4>4 DEF k
      <4> QED BY <4>4, <4>6, <4>7
    <3> QED BY <3>1, <3>2
  <2>2. \A i \in 1 .. N + 1 : i \in T
    <3> HIDE DEF T, N
    <3> QED BY <1>3, <2>1, Downwards
  <2>3. 1 \in T /\ 1 - 1 \in C
        BY <1>1, <1>3, <2>2
  <2> QED BY <1>4, <2>3
<1>5. ASSUME N \in C
      PROVE  v[1]
  <2> DEFINE T == {k \in 0 .. N : k \in C /\ v[k + 1] => v[1]}
  <2>1. ASSUME NEW k \in 0 .. N, \A j \in 0 .. k - 1 : j \in T
        PROVE  k \in T
    <3>1. CASE k = 0
          BY <3>1
    <3>2. CASE k # 0 /\ k \in C /\ v[k + 1]
      <4>1. k \in 1 .. N
            BY <1>3, <3>2
      <4>2. PICK i \in C : i < k /\ IsCharacter(SubSeq(s, i + 1, k))
            BY <1>1, <3>2, <4>1
      <4> DEFINE n == k - i
      <4>3. /\ i \in 0 .. k - 1 /\ i + 1 \in 1 .. N /\ n \in Nat
            /\ i + 1 + n - 1 = k /\ k <= N
            BY <1>1, <1>3, <4>1, <4>2
      <4>4. Len(SubSeq(s, i + 1, k)) = n
        <5>1. Len(SubSeq(s, i + 1, i + 1 + n - 1)) = n
          <6> HIDE DEF n
          <6> QED BY <4>3, Piece
        <5> QED BY <4>3, <5>1
      <4>5. n \in 1 .. 4
            BY <4>2, <4>4, CharacterLength
      <4>6. n = Need(s[i + 1]) + 1 /\ DecodesAt(s, i + 1)
        <5> HIDE DEF n
        <5>1. IsCharacter(SubSeq(s, i + 1, i + 1 + n - 1))
              BY <4>2, <4>3
        <5> QED BY <4>3, <4>5, <5>1, CharacterAt
      <4>7. i + 1 + Need(s[i + 1]) + 1 = k + 1
        <5>1. Need(s[i + 1]) \in 0 .. 3
              BY <4>3, <4>6, Decoded
        <5> QED BY <4>3, <4>6, <5>1
      <4>8. v[i + 1]
            BY <1>2, <3>2, <4>3, <4>6, <4>7
      <4>9. i \in T
            BY <2>1, <4>3
      <4> QED BY <4>2, <4>8, <4>9
    <3> QED BY <3>1, <3>2
  <2>2. \A k \in 0 .. N : k \in T
    <3> HIDE DEF T, N
    <3> QED BY <1>3, <2>1, Upwards
  <2> QED BY <1>2, <1>3, <1>5, <2>2
<1> QED BY <1>1, <1>2, <1>4, <1>5

-----------------------------------------------------------------------------
(* What is sent is valid *)
\* A character before a valid text makes a valid text.
LEMMA CharacterBefore ==
    ASSUME NEW a \in Seq(Byte), NEW b \in Seq(Byte), IsCharacter(a), IsValidUtf8(b)
    PROVE  IsValidUtf8(a \o b)
<1> DEFINE t == a \o b
           n == Len(a)
           N == Len(b)
<1>1. t \in Seq(Byte) /\ Len(t) = n + N /\ n \in Nat /\ N \in Nat
      BY ConcatProperties
<1>2. n \in 1 .. 4
      BY CharacterLength
<1>3. PICK v : /\ IsValidUtf8(b) <=> v[1]
               /\ v[Len(b) + 1]
               /\ \A i \in 1 .. Len(b) : v[i] <=> DecodesAt(b, i) /\ v[i + Need(b[i]) + 1]
      BY ValidFrom
<1> HIDE DEF t
<1>4. PICK w : /\ IsValidUtf8(t) <=> w[1]
               /\ w[Len(t) + 1]
               /\ \A i \in 1 .. Len(t) : w[i] <=> DecodesAt(t, i) /\ w[i + Need(t[i]) + 1]
      BY <1>1, ValidFrom
<1> DEFINE T == {i \in 1 .. N + 1 : v[i] => w[n + i]}
<1>5. ASSUME NEW i \in 1 .. N + 1, \A j \in i + 1 .. N + 1 : j \in T
      PROVE  i \in T
  <2>1. CASE i = N + 1
    <3>1. n + i = Len(t) + 1
          BY <1>1, <2>1
    <3> QED BY <1>4, <3>1
  <2>2. CASE i # N + 1 /\ v[i]
    <3>1. i \in 1 .. N
          BY <1>1, <2>2
    <3>2. DecodesAt(b, i) /\ v[i + Need(b[i]) + 1]
          BY <1>3, <2>2, <3>1
    <3> DEFINE m == Need(b[i]) + 1
    <3>3. /\ Need(b[i]) \in 0 .. 3 /\ i + Need(b[i]) <= N
          /\ IsCharacter(SubSeq(b, i, i + Need(b[i])))
          BY <3>1, <3>2, Decoded
    <3>4. /\ m \in 1 .. 4 /\ i + m - 1 = i + Need(b[i]) /\ i + m - 1 \in 1 .. N
          /\ i + Need(b[i]) + 1 = i + m /\ i + m \in i + 1 .. N + 1
          BY <1>1, <3>1, <3>3, SMTT(30)
    <3> HIDE DEF m
    <3>5. /\ n + i \in 1 .. Len(t) /\ n + i + m - 1 <= Len(t)
          /\ n + i \in n + 1 .. n + N /\ n + i + m - 1 \in n + 1 .. n + N
          /\ n + i - n = i /\ n + i + m - 1 - n = i + m - 1
          BY <1>1, <3>1, <3>4
    <3>6. SubSeq(t, n + i, n + i + m - 1) = SubSeq(b, i, i + m - 1)
      <4>1. \A p, q \in n + 1 .. n + N : SubSeq(t, p, q) = SubSeq(b, p - n, q - n)
            BY SubSeqOfConcat2 DEF t
      <4> HIDE DEF n, N
      <4>2. PICK p \in n + 1 .. n + N : p = n + i /\ p - n = i
            BY <1>1, <3>1, <3>4, <3>5
      <4>3. PICK q \in n + 1 .. n + N : q = n + i + m - 1 /\ q - n = i + m - 1
            BY <1>1, <3>1, <3>4, <3>5
      <4>4. SubSeq(t, p, q) = SubSeq(b, i, i + m - 1)
            BY <4>1, <4>2, <4>3
      <4> QED BY <4>2, <4>3, <4>4, Zenon
    <3>7. IsCharacter(SubSeq(t, n + i, n + i + m - 1))
          BY <3>3, <3>4, <3>6
    <3>8. m = Need(t[n + i]) + 1 /\ DecodesAt(t, n + i)
          BY <1>1, <3>4, <3>5, <3>7, CharacterAt
    <3>9. Need(t[n + i]) \in 0 .. 3
          BY <1>1, <3>5, <3>8, Decoded
    <3>10. n + i + Need(t[n + i]) + 1 = n + (i + m)
           BY <1>1, <3>1, <3>8, <3>9, SMTT(30)
    <3>11. w[n + (i + m)]
           BY <1>5, <3>2, <3>4
    <3> QED BY <1>4, <3>5, <3>8, <3>10, <3>11
  <2> QED BY <2>1, <2>2
<1>6. \A i \in 1 .. N + 1 : i \in T
  <2> HIDE DEF T, N
  <2> QED BY <1>1, <1>5, Downwards
<1>7. w[n + 1]
      BY <1>1, <1>3, <1>6
<1>8. SubSeq(t, 1, 1 + n - 1) = a
  <2>1. SubSeq(t, 1, n) = SubSeq(a, 1, n)
        BY <1>1, <1>2, SubSeqOfConcat1 DEF t
  <2>2. SubSeq(a, 1, n) = a
        BY SubSeqFull
  <2>3. 1 + n - 1 = n
        BY <1>1
  <2> QED BY <2>1, <2>2, <2>3
<1>9. 1 \in 1 .. Len(t) /\ 1 + n - 1 <= Len(t)
  <2> HIDE DEF n, N
  <2> QED BY <1>1, <1>2
<1>10. n = Need(t[1]) + 1 /\ DecodesAt(t, 1)
  <2> HIDE DEF n
  <2> QED BY <1>1, <1>2, <1>8, <1>9, CharacterAt
<1>11. 1 + Need(t[1]) + 1 = n + 1
  <2>1. Need(t[1]) \in 0 .. 3
        BY <1>1, <1>9, <1>10, Decoded
  <2> QED BY <1>1, <1>10, <2>1
<1>12. w[1]
       BY <1>4, <1>7, <1>9, <1>10, <1>11
<1> QED BY <1>4, <1>12 DEF t

LEMMA EmptyIsValid == IsValidUtf8(<<>>)
<1>1. <<>> \in Seq(Byte) /\ Len(<<>>) = 0
      BY EmptySeq
<1>2. PICK v : /\ IsValidUtf8(<<>>) <=> v[1]
               /\ v[Len(<<>>) + 1]
      BY <1>1, ValidFrom
<1> QED BY <1>1, <1>2

LEMMA SentIsCharacter ==
    ASSUME NEW s \in Seq(Byte), NEW i \in 1 .. Len(s)
    PROVE  IsCharacter(Sent(s, i))
<1>1. CASE DecodesAt(s, i)
      BY <1>1, Decoded DEF Sent
<1>2. CASE ~DecodesAt(s, i)
  <2>1. IsCharacter(Replacement)
        BY DEF Replacement, IsCharacter, Tail80
  <2> QED BY <1>2, <2>1 DEF Sent
<1> QED BY <1>1, <1>2

\* Whatever the bytes, what is sent is valid.
LEMMA SanitizedIsValid ==
    ASSUME NEW s \in Seq(Byte)
    PROVE  IsValidUtf8(SanitizeUtf8Lossy(s))
<1> DEFINE f == CHOOSE f : RepairRounds(s, f)
<1>1. RepairRounds(s, f)
      BY RepairExists
<1>2. SanitizeUtf8Lossy(s) = IF IsValidUtf8(s) THEN s ELSE f[1]
      BY DEF SanitizeUtf8Lossy, RepairRounds
<1> HIDE DEF f
<1> DEFINE N == Len(s)
           T == {i \in 1 .. N + 1 : IsValidUtf8(f[i])}
<1>3. N \in Nat
      OBVIOUS
<1>4. ASSUME NEW i \in 1 .. N + 1, \A j \in i + 1 .. N + 1 : j \in T
      PROVE  i \in T
  <2>1. CASE i = N + 1
        BY <1>1, <2>1, RepairUnfolds, EmptyIsValid
  <2>2. CASE i # N + 1
    <3>1. i \in 1 .. N
          BY <1>3, <2>2
    <3> DEFINE k == NextRound(s, i)
    <3>2. k \in i + 1 .. N + 1
          BY <3>1, AfterRange
    <3>3. IsValidUtf8(f[k]) /\ f[k] \in Seq(Byte)
          BY <1>1, <1>4, <3>1, <3>2, RepairTyped
    <3>4. f[i] = Sent(s, i) \o f[k]
          BY <1>1, <3>1, RepairUnfolds
    <3>5. Sent(s, i) \in Seq(Byte) /\ IsCharacter(Sent(s, i))
          BY <3>1, SentTyped, SentIsCharacter
    <3> QED BY <3>3, <3>4, <3>5, CharacterBefore
  <2> QED BY <2>1, <2>2
<1>5. \A i \in 1 .. N + 1 : i \in T
  <2> HIDE DEF T, N
  <2> QED BY <1>3, <1>4, Downwards
<1>6. IsValidUtf8(f[1])
      BY <1>3, <1>5
<1> QED BY <1>2, <1>6

-----------------------------------------------------------------------------
(* Theorems *)

\* IsValidUtf8 accepts a text if and only if it can be cut into characters of the
\* Unicode standard's table: overlong forms, surrogates, code points above U+10FFFF and
\* texts that end inside a character are refused, and nothing else.
THEOREM DecoderMatchesTable == \A s \in Seq(Byte) : IsValidUtf8(s) <=> WellFormed(s)
BY ValidIsWellFormed

\* SanitizeUtf8Lossy leaves well-formed text as it is and sends the repair of any other:
\* always well-formed text, at most three times as long, which a second conversion leaves
\* as it is.
THEOREM ConversionIsRepair ==
    ASSUME NEW s \in Seq(Byte)
    PROVE  /\ SanitizeUtf8Lossy(s) = RepairOf(s)
           /\ SanitizeUtf8Lossy(s) \in Seq(Byte)
           /\ Len(SanitizeUtf8Lossy(s)) \in Len(s) .. 3 * Len(s)
           /\ WellFormed(SanitizeUtf8Lossy(s))
           /\ WellFormed(s) => SanitizeUtf8Lossy(s) = s
           /\ SanitizeUtf8Lossy(SanitizeUtf8Lossy(s)) = SanitizeUtf8Lossy(s)
<1> DEFINE r == SanitizeUtf8Lossy(s)
<1>1. r = RepairOf(s) /\ r \in Seq(Byte) /\ Len(r) \in Len(s) .. 3 * Len(s)
      BY SanitizeIsRepair
<1>2. IsValidUtf8(r)
      BY SanitizedIsValid
<1>3. WellFormed(s) => r = s
      BY ValidIsWellFormed DEF SanitizeUtf8Lossy
<1> HIDE DEF r
<1>4. WellFormed(r)
      BY <1>1, <1>2, ValidIsWellFormed
<1>5. SanitizeUtf8Lossy(r) = r
      BY <1>2 DEF SanitizeUtf8Lossy
<1> QED BY <1>1, <1>3, <1>4, <1>5 DEF r
=============================================================================
