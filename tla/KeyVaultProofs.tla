--------------------------- MODULE KeyVaultProofs ---------------------------
(***************************************************************************)
(* A letter comes back, for every key, every text and every value of the   *)
(* properties.  The proof goes along the path of a byte: the exclusive or  *)
(* is its own inverse, base 64 gives the bytes back, and the properties    *)
(* never leave the key without a position to begin with.                   *)
(***************************************************************************)
EXTENDS KeyVault, SequenceTheorems, TLAPS

-----------------------------------------------------------------------------
(***************************************************************************)
(* Bits.                                                                   *)
(***************************************************************************)

\* A byte is made of eight bits, and has those bits.
LEMMA BitsOfByte ==
  ASSUME NEW bit \in [Weights -> 0..1]
  PROVE  /\ ByteOf(bit) \in 0..255
         /\ \A w \in Weights : Bit(ByteOf(bit), w) = bit[w]
<1>1. bit[1] \in 0..1 /\ bit[2] \in 0..1 /\ bit[4] \in 0..1 /\ bit[8] \in 0..1
      /\ bit[16] \in 0..1 /\ bit[32] \in 0..1 /\ bit[64] \in 0..1 /\ bit[128] \in 0..1
  BY DEF Weights
<1>2. ByteOf(bit) \in 0..255
  BY <1>1 DEF ByteOf
<1>3. /\ Bit(ByteOf(bit), 1) = bit[1] /\ Bit(ByteOf(bit), 2) = bit[2]
      /\ Bit(ByteOf(bit), 4) = bit[4] /\ Bit(ByteOf(bit), 8) = bit[8]
  BY <1>1 DEF ByteOf, Bit
<1>4. /\ Bit(ByteOf(bit), 16) = bit[16] /\ Bit(ByteOf(bit), 32) = bit[32]
      /\ Bit(ByteOf(bit), 64) = bit[64] /\ Bit(ByteOf(bit), 128) = bit[128]
  BY SMTT(60), <1>1 DEF ByteOf, Bit
<1> QED
  BY <1>2, <1>3, <1>4 DEF Weights

\* And it is the sum of its bits.
LEMMA ByteOfBits ==
  ASSUME NEW a \in 0..255
  PROVE  /\ [w \in Weights |-> Bit(a, w)] \in [Weights -> 0..1]
         /\ ByteOf([w \in Weights |-> Bit(a, w)]) = a
<1>1. \A w \in Weights : Bit(a, w) \in 0..1
  BY DEF Weights, Bit
<1>2. Bit(a, 1) + 2 * Bit(a, 2) + 4 * Bit(a, 4) + 8 * Bit(a, 8) + 16 * Bit(a, 16)
        + 32 * Bit(a, 32) + 64 * Bit(a, 64) + 128 * Bit(a, 128) = a
  BY DEF Bit
<1> QED
  BY <1>1, <1>2 DEF ByteOf, Weights

\* The exclusive or of two bytes is a byte, and undoes itself.
LEMMA XorInvolutive ==
  ASSUME NEW a \in 0..255, NEW b \in 0..255
  PROVE  Xor(a, b) \in 0..255 /\ Xor(Xor(a, b), b) = a
<1> DEFINE x == [w \in Weights |-> (Bit(a, w) + Bit(b, w)) % 2]
<1>1. \A w \in Weights : Bit(a, w) \in 0..1 /\ Bit(b, w) \in 0..1
  BY ByteOfBits
<1>2. x \in [Weights -> 0..1]
  BY <1>1
<1>3. Xor(a, b) = ByteOf(x)
  BY DEF Xor
<1>4. ByteOf(x) \in 0..255 /\ \A w \in Weights : Bit(ByteOf(x), w) = x[w]
  BY <1>2, BitsOfByte
<1>5. \A w \in Weights : (Bit(Xor(a, b), w) + Bit(b, w)) % 2 = Bit(a, w)
  BY <1>1, <1>3, <1>4
<1>6. [w \in Weights |-> (Bit(Xor(a, b), w) + Bit(b, w)) % 2] = [w \in Weights |-> Bit(a, w)]
  BY <1>5
<1>7. Xor(Xor(a, b), b) = ByteOf([w \in Weights |-> Bit(a, w)])
  BY <1>6 DEF Xor
<1> QED
  BY <1>3, <1>4, <1>7, ByteOfBits

\* The exclusive or of two ASCII characters is one.
LEMMA XorOfAscii ==
  ASSUME NEW a \in 0..127, NEW b \in 0..127
  PROVE  Xor(a, b) \in 0..127
<1> DEFINE x == [w \in Weights |-> (Bit(a, w) + Bit(b, w)) % 2]
<1>1. \A w \in Weights : Bit(a, w) \in 0..1 /\ Bit(b, w) \in 0..1
  BY DEF Weights, Bit
<1>2. Bit(a, 128) = 0 /\ Bit(b, 128) = 0
  BY DEF Bit
<1>3. x \in [Weights -> 0..1] /\ x[128] = 0
  BY <1>1, <1>2 DEF Weights
<1>4. Xor(a, b) = ByteOf(x)
  BY DEF Xor
<1> HIDE DEF x
<1>5. x[1] \in 0..1 /\ x[2] \in 0..1 /\ x[4] \in 0..1 /\ x[8] \in 0..1
      /\ x[16] \in 0..1 /\ x[32] \in 0..1 /\ x[64] \in 0..1
  BY <1>3 DEF Weights
<1>6. ByteOf(x) \in 0..127
  BY <1>3, <1>5 DEF ByteOf
<1> QED
  BY <1>4, <1>6

\* Bytes without a bit in common: an or of them is their sum.  The upper part is a
\* multiple of 4, 16 or 64, the lower one is smaller.
LEMMA OrIsSum ==
  ASSUME NEW power \in {4, 16, 64},
         NEW high \in 0..255, high % power = 0, NEW low \in 0 .. power - 1
  PROVE  Or(high, low) = high + low
<1> DEFINE both == [w \in Weights |-> IF Bit(high, w) = 1 THEN 1 ELSE Bit(low, w)]
           h == [w \in Weights |-> Bit(high, w)]
           l == [w \in Weights |-> Bit(low, w)]
<1>0. low \in 0..255
  OBVIOUS
<1>1. \A w \in Weights : Bit(high, w) \in 0..1 /\ Bit(low, w) \in 0..1
  BY <1>0 DEF Weights, Bit
<1>2. \A w \in Weights : Bit(high, w) = 0 \/ Bit(low, w) = 0
  <2>1. CASE power = 4
    <3>1. Bit(high, 1) = 0 /\ Bit(high, 2) = 0
      BY <2>1 DEF Bit
    <3>2. /\ Bit(low, 4) = 0 /\ Bit(low, 8) = 0 /\ Bit(low, 16) = 0
          /\ Bit(low, 32) = 0 /\ Bit(low, 64) = 0 /\ Bit(low, 128) = 0
      BY <2>1 DEF Bit
    <3> QED
      BY <3>1, <3>2 DEF Weights
  <2>2. CASE power = 16
    <3>1. Bit(high, 1) = 0 /\ Bit(high, 2) = 0 /\ Bit(high, 4) = 0 /\ Bit(high, 8) = 0
      BY <2>2 DEF Bit
    <3>2. Bit(low, 16) = 0 /\ Bit(low, 32) = 0 /\ Bit(low, 64) = 0 /\ Bit(low, 128) = 0
      BY <2>2 DEF Bit
    <3> QED
      BY <3>1, <3>2 DEF Weights
  <2>3. CASE power = 64
    <3>1. /\ Bit(high, 1) = 0 /\ Bit(high, 2) = 0 /\ Bit(high, 4) = 0
          /\ Bit(high, 8) = 0 /\ Bit(high, 16) = 0 /\ Bit(high, 32) = 0
      BY <2>3 DEF Bit
    <3>2. Bit(low, 64) = 0 /\ Bit(low, 128) = 0
      BY <2>3 DEF Bit
    <3> QED
      BY <3>1, <3>2 DEF Weights
  <2> QED
    BY <2>1, <2>2, <2>3
<1>3. \A w \in Weights : both[w] = h[w] + l[w]
  BY <1>1, <1>2
<1>4. ByteOf(h) = high /\ ByteOf(l) = low
  BY <1>0, ByteOfBits
<1>5. Or(high, low) = ByteOf(both)
  BY DEF Or
<1>6. h \in [Weights -> 0..1] /\ l \in [Weights -> 0..1]
  BY <1>1
<1> HIDE DEF both, h, l
<1>7. /\ h[1] \in 0..1 /\ h[2] \in 0..1 /\ h[4] \in 0..1 /\ h[8] \in 0..1
      /\ h[16] \in 0..1 /\ h[32] \in 0..1 /\ h[64] \in 0..1 /\ h[128] \in 0..1
      /\ l[1] \in 0..1 /\ l[2] \in 0..1 /\ l[4] \in 0..1 /\ l[8] \in 0..1
      /\ l[16] \in 0..1 /\ l[32] \in 0..1 /\ l[64] \in 0..1 /\ l[128] \in 0..1
  BY <1>6 DEF Weights
<1>8. /\ both[1] = h[1] + l[1] /\ both[2] = h[2] + l[2] /\ both[4] = h[4] + l[4]
      /\ both[8] = h[8] + l[8] /\ both[16] = h[16] + l[16] /\ both[32] = h[32] + l[32]
      /\ both[64] = h[64] + l[64] /\ both[128] = h[128] + l[128]
  BY <1>3 DEF Weights
<1>9. ByteOf(both) = ByteOf(h) + ByteOf(l)
  <2> DEFINE Lower(x) == x[1] + 2 * x[2] + 4 * x[4] + 8 * x[8]
             Upper(x) == 16 * x[16] + 32 * x[32] + 64 * x[64] + 128 * x[128]
  <2>1. Lower(both) = Lower(h) + Lower(l) /\ Lower(h) \in Int /\ Lower(l) \in Int
    <3>1. Lower(both) = Lower(h) + Lower(l)
      BY <1>7, <1>8, SMTT(60)
    <3>2. Lower(h) \in Int /\ Lower(l) \in Int
      BY <1>7
    <3> QED
      BY <3>1, <3>2
  <2>2. Upper(both) = Upper(h) + Upper(l) /\ Upper(h) \in Int /\ Upper(l) \in Int
    <3>1. Upper(both) = Upper(h) + Upper(l)
      BY <1>7, <1>8, SMTT(60)
    <3>2. Upper(h) \in Int
      BY <1>7
    <3>3. Upper(l) \in Int
      BY <1>7
    <3> QED
      BY <3>1, <3>2, <3>3
  <2>3. ByteOf(h) = Lower(h) + Upper(h)
    BY <1>7 DEF ByteOf
  <2>4. ByteOf(l) = Lower(l) + Upper(l)
    BY <1>7 DEF ByteOf
  <2>5. ByteOf(both) = Lower(both) + Upper(both)
    BY <1>7, <1>8 DEF ByteOf
  <2> HIDE DEF Lower, Upper
  <2> QED
    BY <2>1, <2>2, <2>3, <2>4, <2>5
<1> QED
  BY <1>4, <1>5, <1>9

\* The same for each of the three cuts that the characters of a group make in a byte.
LEMMA OrIsSum4 ==
  \A high \in 0..255 : \A low \in 0 .. 4 - 1 : high % 4 = 0 => Or(high, low) = high + low
<1> TAKE high \in 0..255, low \in 0 .. 4 - 1
<1> HAVE high % 4 = 0
<1>1. 4 \in {4, 16, 64}
  OBVIOUS
<1> QED BY <1>1, OrIsSum

LEMMA OrIsSum16 ==
  \A high \in 0..255 : \A low \in 0 .. 16 - 1 : high % 16 = 0 => Or(high, low) = high + low
<1> TAKE high \in 0..255, low \in 0 .. 16 - 1
<1> HAVE high % 16 = 0
<1>1. 16 \in {4, 16, 64}
  OBVIOUS
<1> QED BY <1>1, OrIsSum

LEMMA OrIsSum64 ==
  \A high \in 0..255 : \A low \in 0 .. 64 - 1 : high % 64 = 0 => Or(high, low) = high + low
<1> TAKE high \in 0..255, low \in 0 .. 64 - 1
<1> HAVE high % 64 = 0
<1>1. 64 \in {4, 16, 64}
  OBVIOUS
<1> QED BY <1>1, OrIsSum

-----------------------------------------------------------------------------
(***************************************************************************)
(* Base 64.                                                                *)
(***************************************************************************)

\* A byte that the build's char shifts to the right as unsigned ones are.
Shifts(v, c) == c \in 0..255 /\ ~(CharIsSigned /\ v = 1 /\ c >= 128)

LEMMA FourElements ==
  ASSUME NEW S, NEW c1 \in S, NEW c2 \in S, NEW c3 \in S, NEW c4 \in S
  PROVE  \A k \in 1..4 : << c1, c2, c3, c4 >>[k] \in S
OBVIOUS

\* The characters of a group, without shifts and masks.
LEMMA GroupIs ==
  ASSUME NEW v \in Vaults, NEW c \in [1..3 -> 0..255], \A i \in 1..3 : Shifts(v, c[i])
  PROVE  /\ Group(v, c) = << c[1] \div 4, (c[1] % 4) * 16 + (c[2] \div 16),
                             (c[2] % 16) * 4 + (c[3] \div 64), c[3] % 64 >>
         /\ \A k \in 1..4 : Group(v, c)[k] \in 0..63
<1>1. c[1] \in 0..255 /\ c[2] \in 0..255 /\ c[3] \in 0..255
  OBVIOUS
<1>2. ShiftRight(v, c[1], 4) % 256 = c[1] \div 4
  BY <1>1 DEF ShiftRight, Shifts
<1>3. ShiftRight(v, c[2], 16) % 256 = c[2] \div 16
  BY <1>1 DEF ShiftRight, Shifts
<1>4. Or((c[1] % 4) * 16, c[2] \div 16) = (c[1] % 4) * 16 + (c[2] \div 16)
  <2>1. (c[1] % 4) * 16 \in 0..255 /\ ((c[1] % 4) * 16) % 16 = 0 /\ c[2] \div 16 \in 0 .. 16 - 1
    BY <1>1
  <2> QED
    BY <2>1, OrIsSum16, ZenonT(60)
<1>5. Or((c[2] % 16) * 4, c[3] \div 64) = (c[2] % 16) * 4 + (c[3] \div 64)
  <2>1. (c[2] % 16) * 4 \in 0..255 /\ ((c[2] % 16) * 4) % 4 = 0 /\ c[3] \div 64 \in 0 .. 4 - 1
    BY <1>1
  <2> QED
    BY <2>1, OrIsSum4, ZenonT(60)
<1>6. /\ c[1] \div 4 \in 0..63 /\ (c[1] % 4) * 16 + (c[2] \div 16) \in 0..63
      /\ (c[2] % 16) * 4 + (c[3] \div 64) \in 0..63 /\ c[3] % 64 \in 0..63
  BY <1>1
<1>7. \A x \in 0..63 : base64char(x) = x
  BY DEF base64char
<1>8. Group(v, c) = << c[1] \div 4, (c[1] % 4) * 16 + (c[2] \div 16),
                       (c[2] % 16) * 4 + (c[3] \div 64), c[3] % 64 >>
  <2>1. base64char(ShiftRight(v, c[1], 4) % 256) = c[1] \div 4
    BY <1>2, <1>6, <1>7
  <2>2. base64char(Or((c[1] % 4) * 16, ShiftRight(v, c[2], 16) % 256))
          = (c[1] % 4) * 16 + (c[2] \div 16)
    BY <1>3, <1>4, <1>6, <1>7
  <2>3. base64char(Or((c[2] % 16) * 4, c[3] \div 64)) = (c[2] % 16) * 4 + (c[3] \div 64)
    BY <1>5, <1>6, <1>7
  <2>4. base64char(c[3] % 64) = c[3] % 64
    BY <1>6, <1>7
  <2> QED
    BY <2>1, <2>2, <2>3, <2>4 DEF Group
<1>9. \A k \in 1..4 :
        << c[1] \div 4, (c[1] % 4) * 16 + (c[2] \div 16),
           (c[2] % 16) * 4 + (c[3] \div 64), c[3] % 64 >>[k] \in 0..63
  BY Zenon, <1>6, FourElements
<1> QED
  BY Zenon, <1>8, <1>9

\* What remains of a character that is moved to the left in a byte, and of one that is
\* moved to the right.
LEMMA MovesLeft ==
  /\ \A m \in 0..3, h \in 0..15 : ((m * 16 + h) * 16) % 256 = 16 * h
  /\ \A m \in 0..15, h \in 0..3 : ((m * 4 + h) * 64) % 256 = 64 * h
<1>1. ASSUME NEW m \in 0..3, NEW h \in 0..15
      PROVE  ((m * 16 + h) * 16) % 256 = 16 * h
  <2>1. (m * 16 + h) * 16 = 256 * m + 16 * h /\ 16 * h \in 0..255
    OBVIOUS
  <2>2. (256 * m + 16 * h) % 256 = 16 * h
    BY <2>1
  <2> QED
    BY <2>1, <2>2
<1>2. ASSUME NEW m \in 0..15, NEW h \in 0..3
      PROVE  ((m * 4 + h) * 64) % 256 = 64 * h
  <2>1. (m * 4 + h) * 64 = 256 * m + 64 * h /\ 64 * h \in 0..255
    OBVIOUS
  <2>2. (256 * m + 64 * h) % 256 = 64 * h
    BY <2>1
  <2> QED
    BY <2>1, <2>2
<1> QED
  BY <1>1, <1>2

LEMMA MovesRight ==
  ASSUME NEW m \in 0..15, NEW h \in 0..3
  PROVE  (m * 4 + h) \div 4 = m
OBVIOUS

\* The halves of a byte, and its quarters.
LEMMA ByteIsCut ==
  ASSUME NEW x \in 0..255
  PROVE  /\ x \div 16 \in 0..15 /\ x % 16 \in 0..15 /\ x = 16 * (x \div 16) + (x % 16)
         /\ x \div 64 \in 0..3 /\ x % 64 \in 0..63 /\ x = 64 * (x \div 64) + (x % 64)
         /\ x % 4 \in 0..3
OBVIOUS

LEMMA Multiples ==
  /\ \A h \in 0..15 : 16 * h \in 0..255 /\ (16 * h) % 16 = 0
  /\ \A h \in 0..3 : 64 * h \in 0..255 /\ (64 * h) % 64 = 0
OBVIOUS

\* Two neighbours in a group make up the byte they were made of.
LEMMA GroupJoins ==
  ASSUME NEW v \in Vaults, NEW c \in [1..3 -> 0..255], \A i \in 1..3 : Shifts(v, c[i]),
         NEW k \in 1..3
  PROVE  Joined(k, Group(v, c)[k], Group(v, c)[k + 1]) = c[k]
<1>1. c[1] \in 0..255 /\ c[2] \in 0..255 /\ c[3] \in 0..255
  OBVIOUS
<1> DEFINE g == Group(v, c)
<1>2. /\ g[1] = c[1] \div 4 /\ g[2] = (c[1] % 4) * 16 + (c[2] \div 16)
      /\ g[3] = (c[2] % 16) * 4 + (c[3] \div 64) /\ g[4] = c[3] % 64
  BY GroupIs
<1> HIDE DEF g
<1>3. CASE k = 1
  <2>1. /\ (g[1] * 4) % 256 \in 0..255 /\ ((g[1] * 4) % 256) % 4 = 0
        /\ g[2] \div 16 \in 0 .. 4 - 1 /\ ((g[1] * 4) % 256) + (g[2] \div 16) = c[1]
    BY <1>1, <1>2
  <2>2. Or((g[1] * 4) % 256, g[2] \div 16) = ((g[1] * 4) % 256) + (g[2] \div 16)
    BY <2>1, OrIsSum4, ZenonT(60)
  <2>3. Joined(k, g[k], g[k + 1]) = c[1]
    BY <1>3, <2>1, <2>2 DEF Joined
  <2> QED
    BY <1>3, <2>3 DEF g
<1>4. CASE k = 2
  <2>1. /\ (g[2] * 16) % 256 \in 0..255 /\ ((g[2] * 16) % 256) % 16 = 0
        /\ g[3] \div 4 \in 0 .. 16 - 1 /\ ((g[2] * 16) % 256) + (g[3] \div 4) = c[2]
    <3>1. /\ c[1] % 4 \in 0..3 /\ c[2] \div 16 \in 0..15 /\ c[2] % 16 \in 0..15
          /\ c[3] \div 64 \in 0..3 /\ c[2] = 16 * (c[2] \div 16) + (c[2] % 16)
      BY <1>1, ByteIsCut
    <3>2. (g[2] * 16) % 256 = 16 * (c[2] \div 16)
      BY <1>2, <3>1, MovesLeft
    <3>3. g[3] \div 4 = c[2] % 16
      BY <1>2, <3>1, MovesRight
    <3>4. 16 * (c[2] \div 16) \in 0..255 /\ (16 * (c[2] \div 16)) % 16 = 0
      BY <3>1, Multiples
    <3> DEFINE upper == (g[2] * 16) % 256
               lower == g[3] \div 4
               high == c[2] \div 16
               low == c[2] % 16
    <3>5. upper = 16 * high /\ lower = low
      BY <3>2, <3>3
    <3>6. low \in 0..15 /\ c[2] = 16 * high + low
      BY <3>1
    <3>7. 16 * high \in 0..255 /\ (16 * high) % 16 = 0
      BY <3>4
    <3> HIDE DEF upper, lower, high, low
    <3>8. upper \in 0..255 /\ upper % 16 = 0
      BY <3>5, <3>7
    <3>9. lower \in 0 .. 16 - 1 /\ upper + lower = c[2]
      BY <3>5, <3>6
    <3> QED
      BY <3>8, <3>9 DEF upper, lower
  <2>2. Or((g[2] * 16) % 256, g[3] \div 4) = ((g[2] * 16) % 256) + (g[3] \div 4)
    BY <2>1, OrIsSum16, ZenonT(60)
  <2>3. Joined(k, g[k], g[k + 1]) = c[2]
    BY <1>4, <2>1, <2>2 DEF Joined
  <2> QED
    BY <1>4, <2>3 DEF g
<1>5. CASE k = 3
  <2>1. /\ (g[3] * 64) % 256 \in 0..255 /\ ((g[3] * 64) % 256) % 64 = 0
        /\ g[4] \in 0 .. 64 - 1 /\ ((g[3] * 64) % 256) + g[4] = c[3]
    <3>1. /\ c[2] % 16 \in 0..15 /\ c[3] \div 64 \in 0..3 /\ c[3] % 64 \in 0..63
          /\ c[3] = 64 * (c[3] \div 64) + (c[3] % 64)
      BY <1>1, ByteIsCut
    <3>2. (g[3] * 64) % 256 = 64 * (c[3] \div 64)
      BY <1>2, <3>1, MovesLeft
    <3>3. g[4] = c[3] % 64
      BY <1>2
    <3>4. 64 * (c[3] \div 64) \in 0..255 /\ (64 * (c[3] \div 64)) % 64 = 0
      BY <3>1, Multiples
    <3> DEFINE upper == (g[3] * 64) % 256
               lower == g[4]
               high == c[3] \div 64
               low == c[3] % 64
    <3>5. upper = 64 * high /\ lower = low
      BY <3>2, <3>3
    <3>6. low \in 0..63 /\ c[3] = 64 * high + low
      BY <3>1
    <3>7. 64 * high \in 0..255 /\ (64 * high) % 64 = 0
      BY <3>4
    <3> HIDE DEF upper, lower, high, low
    <3>8. upper \in 0..255 /\ upper % 64 = 0
      BY <3>5, <3>7
    <3>9. lower \in 0 .. 64 - 1 /\ upper + lower = c[3]
      BY <3>5, <3>6
    <3> QED
      BY <3>8, <3>9 DEF upper, lower
  <2>2. Or((g[3] * 64) % 256, g[4]) = ((g[3] * 64) % 256) + g[4]
    BY <2>1, OrIsSum64, ZenonT(60)
  <2>3. Joined(k, g[k], g[k + 1]) = c[3]
    BY <1>5, <2>1, <2>2 DEF Joined
  <2> QED
    BY <1>5, <2>3 DEF g
<1> QED
  BY <1>3, <1>4, <1>5

LEMMA FunctionIsSequence ==
  ASSUME NEW S, NEW n \in Nat, NEW f \in [1..n -> S]
  PROVE  f \in Seq(S) /\ Len(f) = n
<1>1. [i \in 1..n |-> f[i]] \in Seq(S) /\ Len([i \in 1..n |-> f[i]]) = n
  OBVIOUS
<1> QED
  BY <1>1

\* The k-th character of a group.
LEMMA CharacterInGroup ==
  ASSUME NEW q \in Nat, NEW k \in 1..4
  PROVE  (4 * q + k - 1) \div 4 = q /\ ((4 * q + k - 1) % 4) + 1 = k
  OBVIOUS

\* How many groups there are for the bytes, and how many characters in them.
LEMMA GroupsOfBytes ==
  ASSUME NEW L \in Nat
  PROVE  /\ L \div 3 \in Nat /\ L % 3 \in 0..2 /\ L = 3 * (L \div 3) + (L % 3)
         /\ NumberOfGroups(L) = (L \div 3) + (IF L % 3 = 0 THEN 0 ELSE 1)
<1>1. L \div 3 \in Nat /\ L % 3 \in 0..2 /\ L = 3 * (L \div 3) + (L % 3)
  OBVIOUS
<1>2. ASSUME NEW q \in Nat, NEW r \in 0..2
      PROVE  (3 * q + r + 2) \div 3 = q + (IF r = 0 THEN 0 ELSE 1)
  OBVIOUS
<1>3. (3 * (L \div 3) + (L % 3) + 2) \div 3 = (L \div 3) + (IF L % 3 = 0 THEN 0 ELSE 1)
  BY <1>1, <1>2
<1> QED
  BY <1>1, <1>3 DEF NumberOfGroups

EncodedGroup(bytes, first) ==
  [i \in 1..3 |-> IF first + i <= Len(bytes) THEN bytes[first + i] ELSE 0]

EncodedCharacter(v, bytes, first, k) ==
  IF first + k - 1 > Len(bytes) THEN Equals ELSE Group(v, EncodedGroup(bytes, first))[k]

LEMMA EncodedGroupIs ==
  ASSUME NEW v \in Vaults, NEW bytes \in Seq(0..255), \A i \in 1..Len(bytes) : Shifts(v, bytes[i]),
         NEW first \in Nat
  PROVE  /\ EncodedGroup(bytes, first) \in [1..3 -> 0..255]
         /\ \A i \in 1..3 : Shifts(v, EncodedGroup(bytes, first)[i])
<1>1. ASSUME NEW i \in 1..3
      PROVE  Shifts(v, IF first + i <= Len(bytes) THEN bytes[first + i] ELSE 0)
  <2>1. CASE first + i <= Len(bytes)
    <3>1. first + i \in 1..Len(bytes)
      BY <2>1, LenProperties
    <3> QED
      BY <2>1, <3>1
  <2>2. CASE ~(first + i <= Len(bytes))
    BY <2>2 DEF Shifts
  <2> QED
    BY <2>1, <2>2
<1> QED
  BY <1>1 DEF EncodedGroup, Shifts

\* What encrypt writes, character by character.
LEMMA EncodeIs ==
  ASSUME NEW v \in Vaults, NEW bytes \in Seq(0..255), \A i \in 1..Len(bytes) : Shifts(v, bytes[i])
  PROVE  /\ Encode(v, bytes) \in Seq(0..64)
         /\ Len(Encode(v, bytes)) = 4 * NumberOfGroups(Len(bytes))
         /\ \A q \in Nat, k \in 1..4 :
              q < NumberOfGroups(Len(bytes)) =>
                Encode(v, bytes)[4 * q + k] = EncodedCharacter(v, bytes, q * 3, k)
<1> DEFINE L == Len(bytes)
           n == 4 * NumberOfGroups(L)
           At(p) == EncodedCharacter(v, bytes, ((p - 1) \div 4) * 3, ((p - 1) % 4) + 1)
<1>1. L \in Nat
  OBVIOUS
<1>2. n \in Nat /\ NumberOfGroups(L) \in Nat
  BY <1>1, GroupsOfBytes
<1>3. Encode(v, bytes) = [p \in 1..n |-> At(p)]
  BY DEF Encode, EncodedCharacter, EncodedGroup
<1>4. ASSUME NEW q \in Nat, NEW k \in 1..4
      PROVE  At(4 * q + k) = EncodedCharacter(v, bytes, q * 3, k)
  BY CharacterInGroup
<1>5. ASSUME NEW p \in 1..n
      PROVE  At(p) \in 0..64
  <2> DEFINE q == (p - 1) \div 4
             k == ((p - 1) % 4) + 1
  <2>1. q * 3 \in Nat /\ k \in 1..4
    BY <1>2
  <2>2. At(p) = EncodedCharacter(v, bytes, q * 3, k)
    OBVIOUS
  <2> HIDE DEF q, k, At
  <2>3. Group(v, EncodedGroup(bytes, q * 3))[k] \in 0..63
    <3>1. /\ EncodedGroup(bytes, q * 3) \in [1..3 -> 0..255]
          /\ \A i \in 1..3 : Shifts(v, EncodedGroup(bytes, q * 3)[i])
      BY <2>1, EncodedGroupIs
    <3> QED
      BY <2>1, <3>1, GroupIs
  <2> QED
    BY <2>2, <2>3 DEF EncodedCharacter, Equals
<1> HIDE DEF At, n
<1>6. Encode(v, bytes) \in [1..n -> 0..64]
  BY <1>3, <1>5
<1>7. Encode(v, bytes) \in Seq(0..64) /\ Len(Encode(v, bytes)) = n
  BY <1>2, <1>6, FunctionIsSequence
<1>8. ASSUME NEW q \in Nat, NEW k \in 1..4, q < NumberOfGroups(L)
      PROVE  Encode(v, bytes)[4 * q + k] = EncodedCharacter(v, bytes, q * 3, k)
  <2>1. 4 * q + k \in 1..n
    BY <1>2, <1>8 DEF n
  <2> QED
    BY <1>3, <1>4, <2>1
<1> QED
  BY <1>7, <1>8 DEF n

LEMMA NoEquals ==
  ASSUME NEW character, character \in 0..63
  PROVE  character # Equals
BY DEF Equals

\* The first '=' ends what decrypt reads, and the bytes before it are as many as were
\* encoded.
LEMMA CharactersOfEncoded ==
  ASSUME NEW v \in Vaults, NEW bytes \in Seq(0..255), \A i \in 1..Len(bytes) : Shifts(v, bytes[i])
  PROVE  DecodedSize(numberOfBase64Characters(Encode(v, bytes))) = Len(bytes)
<1> DEFINE L == Len(bytes)
           chars == Encode(v, bytes)
           n == 4 * (L \div 3) + (IF L % 3 = 0 THEN 0 ELSE (L % 3) + 1)
           Ends(m) == /\ \A p \in 1..m : chars[p] # Equals
                      /\ m = Len(chars) \/ chars[m + 1] = Equals
<1>1. L \in Nat
  OBVIOUS
<1>2. Len(chars) = 4 * NumberOfGroups(L) /\ Len(chars) \in Nat
  BY EncodeIs
<1> DEFINE t == L \div 3
           r == L % 3
<1>3. /\ t \in Nat /\ r \in 0..2 /\ L = 3 * t + r
      /\ NumberOfGroups(L) = t + (IF r = 0 THEN 0 ELSE 1)
      /\ n = 4 * t + (IF r = 0 THEN 0 ELSE r + 1)
  BY <1>1, GroupsOfBytes
<1> HIDE DEF t, r, n, L, chars
<1>4. n \in 0..Len(chars)
  BY <1>2, <1>3
<1>5. ASSUME NEW p \in 1..Len(chars)
      PROVE  chars[p] = Equals <=> p > n
  <2> DEFINE q == (p - 1) \div 4
             k == ((p - 1) % 4) + 1
  <2>1. q \in Nat /\ k \in 1..4 /\ p = 4 * q + k
    BY SMTT(60), <1>2
  <2> HIDE DEF q, k
  <2>2. q < NumberOfGroups(L)
    BY <1>2, <1>3, <2>1
  <2>3. q * 3 + k - 1 > L <=> p > n
    BY <1>3, <2>1, <2>2
  <2>4. chars[p] = EncodedCharacter(v, bytes, q * 3, k)
    BY <2>1, <2>2, EncodeIs DEF chars, L
  <2>5. q * 3 \in Nat
    BY <2>1
  <2>6. Group(v, EncodedGroup(bytes, q * 3))[k] \in 0..63
    <3>1. /\ EncodedGroup(bytes, q * 3) \in [1..3 -> 0..255]
          /\ \A i \in 1..3 : Shifts(v, EncodedGroup(bytes, q * 3)[i])
      BY <2>5, EncodedGroupIs
    <3> QED
      BY <2>1, <3>1, GroupIs
  <2>7. CASE p > n
    <3>1. chars[p] = Equals
      BY <2>3, <2>4, <2>7 DEF EncodedCharacter, L
    <3> QED
      BY <2>7, <3>1
  <2>8. CASE ~(p > n)
    <3>1. chars[p] = Group(v, EncodedGroup(bytes, q * 3))[k]
      BY <2>3, <2>4, <2>8 DEF EncodedCharacter, L
    <3>0. Group(v, EncodedGroup(bytes, q * 3))[k] # Equals
      BY <2>6, NoEquals
    <3>2. chars[p] # Equals
      BY <3>0, <3>1
    <3> QED
      BY <2>8, <3>2
  <2> QED
    BY <2>7, <2>8
<1>6. Ends(n)
  BY <1>2, <1>4, <1>5
<1>7. ASSUME NEW m \in 0..Len(chars), Ends(m)
      PROVE  m = n
  <2>1. ~(m < n)
    <3>1. SUFFICES ASSUME m < n PROVE FALSE
      OBVIOUS
    <3>2. chars[m + 1] = Equals /\ m + 1 \in 1..Len(chars) /\ ~(m + 1 > n)
      BY <1>2, <1>4, <1>7, <3>1
    <3> QED
      BY <1>5, <3>2
  <2>2. ~(n < m)
    <3>1. SUFFICES ASSUME n < m PROVE FALSE
      OBVIOUS
    <3>2. chars[m] # Equals /\ m \in 1..Len(chars)
      BY <1>2, <1>4, <1>7, <3>1
    <3> QED
      BY <1>4, <1>5, <3>1, <3>2
  <2> QED
    BY <1>2, <1>4, <2>1, <2>2
<1>8. numberOfBase64Characters(chars) = n
  <2>1. numberOfBase64Characters(chars) = CHOOSE m \in 0..Len(chars) : Ends(m)
    BY DEF numberOfBase64Characters
  <2> HIDE DEF Ends
  <2> QED
    BY <1>4, <1>6, <1>7, <2>1
<1>9. DecodedSize(n) = L
  <2>1. CASE r = 0
    BY <1>3, <2>1 DEF DecodedSize
  <2>2. CASE r # 0
    <3>1. n \div 4 = t /\ n % 4 = r + 1
      BY <1>3, <2>2
    <3> QED
      BY <1>3, <2>2, <3>1 DEF DecodedSize
  <2> QED
    BY <2>1, <2>2
<1> QED
  BY <1>8, <1>9 DEF chars, L

\* Base 64 gives back what it was given.
LEMMA DecodeEncode ==
  ASSUME NEW v \in Vaults, NEW bytes \in Seq(0..255), \A i \in 1..Len(bytes) : Shifts(v, bytes[i])
  PROVE  Decode(Encode(v, bytes)) = bytes
<1> DEFINE L == Len(bytes)
           chars == Encode(v, bytes)
           At(j) == Joined(((j - 1) % 3) + 1, chars[((j - 1) \div 3) * 4 + (((j - 1) % 3) + 1)],
                           chars[((j - 1) \div 3) * 4 + (((j - 1) % 3) + 1) + 1])
<1>1. L \in Nat
  OBVIOUS
<1>2. Decode(chars) = [j \in 1..L |-> At(j)]
  BY CharactersOfEncoded DEF Decode
<1>3. ASSUME NEW j \in 1..L
      PROVE  At(j) = bytes[j]
  <2> DEFINE q == (j - 1) \div 3
             k == ((j - 1) % 3) + 1
             c == EncodedGroup(bytes, q * 3)
  <2>1. q \in Nat /\ k \in 1..3 /\ j = q * 3 + k
    BY <1>1
  <2>2. At(j) = Joined(k, chars[q * 4 + k], chars[q * 4 + k + 1])
    OBVIOUS
  <2> HIDE DEF q, k, c, At
  <2>0. q < NumberOfGroups(L) /\ q * 3 \in Nat
    <3> DEFINE t == L \div 3
               r == L % 3
    <3>1. /\ t \in Nat /\ r \in 0..2 /\ L = 3 * t + r
          /\ NumberOfGroups(L) = t + (IF r = 0 THEN 0 ELSE 1)
      BY <1>1, GroupsOfBytes
    <3>2. j \in Nat /\ j <= L
      BY <1>1
    <3> HIDE DEF t, r, L
    <3> QED
      BY <2>1, <3>1, <3>2
  <2>3. q * 4 + k = 4 * q + k /\ q * 4 + k + 1 = 4 * q + (k + 1) /\ k \in 1..4 /\ k + 1 \in 1..4
    BY <2>1
  <2>4. ~(q * 3 + k - 1 > L) /\ ~(q * 3 + (k + 1) - 1 > L)
    BY <1>1, <2>1
  <2>5. chars[4 * q + k] = Group(v, c)[k] /\ chars[4 * q + (k + 1)] = Group(v, c)[k + 1]
    BY <2>0, <2>1, <2>3, <2>4, EncodeIs DEF c, EncodedCharacter
  <2>6. c \in [1..3 -> 0..255] /\ \A i \in 1..3 : Shifts(v, c[i])
    BY <2>0, EncodedGroupIs DEF c
  <2>7. At(j) = c[k]
    <3>1. At(j) = Joined(k, Group(v, c)[k], Group(v, c)[k + 1])
      BY <2>2, <2>3, <2>5
    <3> QED BY <2>1, <2>6, <3>1, GroupJoins
  <2>8. c[k] = bytes[j]
    BY <1>1, <2>1 DEF c, EncodedGroup
  <2> QED
    BY <2>7, <2>8
<1> HIDE DEF At
<1> QED
  <2>1. Decode(chars) = [j \in 1..L |-> bytes[j]]
    BY <1>2, <1>3
  <2> QED
    BY <2>1

-----------------------------------------------------------------------------
(***************************************************************************)
(* The exclusive or of a text.                                             *)
(***************************************************************************)

\* A use that begins at a position in the key of an algorithm there is.
InKey(use) ==
  use.algorithm \in 0..1 /\ use.shift \in Int /\ use.start \in 0 .. KEY_SIZE - 1

\* What the exclusive or needs to know of the keys.
LEMMA KeysAre ==
  KEY_SIZE \in Nat /\ KEY_SIZE > 0 /\ Key \in [0..1 -> [0 .. KEY_SIZE - 1 -> 0..255]]
<1>1. KEY_SIZE \in Nat /\ KEY_SIZE > 8
  BY KeyVaultAssumption
<1>2. KEY_SIZE > 0
  BY <1>1
<1>3. Key \in [0..1 -> [0 .. KEY_SIZE - 1 -> 0..255]]
  BY KeyVaultAssumption
<1> QED
  BY <1>1, <1>2, <1>3

KeyByte(use, i) == (Key[use.algorithm][KeyPos(use.start, i - 1)] + use.shift) % 256

LEMMA KeyByteIs ==
  ASSUME NEW use, InKey(use), NEW i \in Nat \ {0}
  PROVE  /\ KeyPos(use.start, i - 1) \in 0 .. KEY_SIZE - 1
         /\ Key[use.algorithm][KeyPos(use.start, i - 1)] \in 0..255
         /\ KeyByte(use, i) \in 0..255
<1> DEFINE sum == use.start + (i - 1)
<1>1. KEY_SIZE \in Nat /\ KEY_SIZE > 0 /\ sum \in Nat
  BY KeysAre DEF InKey
<1> HIDE DEF sum
<1>2. sum % KEY_SIZE \in 0 .. KEY_SIZE - 1
  BY <1>1
<1>3. KeyPos(use.start, i - 1) = sum % KEY_SIZE
  BY <1>1 DEF KeyPos, InKey, sum
<1>4. Key[use.algorithm] \in [0 .. KEY_SIZE - 1 -> 0..255]
  <2>1. use.algorithm \in 0..1
    BY DEF InKey
  <2>2. Key \in [0..1 -> [0 .. KEY_SIZE - 1 -> 0..255]]
    BY KeysAre
  <2> QED
    BY <2>1, <2>2
<1> DEFINE byte == Key[use.algorithm][KeyPos(use.start, i - 1)]
<1>5. byte \in 0..255
  BY <1>2, <1>3, <1>4
<1> HIDE DEF byte
<1>6. (byte + use.shift) % 256 \in 0..255
  <2>1. byte + use.shift \in Int
    BY <1>5 DEF InKey
  <2> QED
    BY <2>1
<1> QED
  BY <1>2, <1>3, <1>5, <1>6 DEF KeyByte, byte

\* Encrypting is its own inverse, and keeps the length.
LEMMA ExclusiveOrIs ==
  ASSUME NEW use, InKey(use), NEW text \in Seq(0..255)
  PROVE  /\ ExclusiveOr(use, text) \in Seq(0..255)
         /\ Len(ExclusiveOr(use, text)) = Len(text)
         /\ ExclusiveOr(use, ExclusiveOr(use, text)) = text
<1> DEFINE n == Len(text)
           once == ExclusiveOr(use, text)
<1>1. n \in Nat /\ text \in [1..n -> 0..255]
  BY LenProperties
<1>0. Len(text) = n
  OBVIOUS
<1> HIDE DEF n
<1>2. \A i \in 1..n : KeyByte(use, i) \in 0..255
  <2> TAKE i \in 1..n
  <2>1. i \in Nat \ {0}
    BY <1>1
  <2> QED
    BY <2>1, KeyByteIs
<1>3. once = [i \in 1..n |-> Xor(text[i], KeyByte(use, i))]
  BY <1>0 DEF ExclusiveOr, KeyByte
<1>4. \A i \in 1..n : /\ Xor(text[i], KeyByte(use, i)) \in 0..255
                      /\ Xor(Xor(text[i], KeyByte(use, i)), KeyByte(use, i)) = text[i]
  BY <1>1, <1>2, XorInvolutive
<1>5. once \in [1..n -> 0..255]
  BY <1>3, <1>4
<1>6. once \in Seq(0..255) /\ Len(once) = n
  BY <1>1, <1>5, FunctionIsSequence
<1>7. ExclusiveOr(use, once) = [i \in 1..Len(once) |-> Xor(once[i], KeyByte(use, i))]
  BY DEF ExclusiveOr, KeyByte
<1> HIDE DEF once
<1>8. ExclusiveOr(use, once) = [i \in 1..n |-> text[i]]
  <2>1. ExclusiveOr(use, once) = [i \in 1..n |-> Xor(once[i], KeyByte(use, i))]
    BY <1>6, <1>7
  <2>2. ASSUME NEW i \in 1..n
        PROVE  Xor(once[i], KeyByte(use, i)) = text[i]
    <3>1. once[i] = Xor(text[i], KeyByte(use, i))
      BY <1>3
    <3> QED
      BY <1>4, <3>1
  <2> QED
    BY <2>1, <2>2
<1>9. ExclusiveOr(use, once) = text
  BY <1>1, <1>8
<1> QED
  BY <1>0, <1>6, <1>9 DEF once

LEMMA Unshifted ==
  ASSUME NEW byte, byte \in 0..127
  PROVE  (byte + 0) % 256 \in 0..127
OBVIOUS

\* With the key of key_vault.1, ASCII stays ASCII.
LEMMA ExclusiveOrOfAscii ==
  ASSUME NEW use, InKey(use), use.algorithm = 0, use.shift = 0,
         NEW text \in Seq(0..127), Key[0] \in [0 .. KEY_SIZE - 1 -> 0..127]
  PROVE  \A i \in 1..Len(text) : ExclusiveOr(use, text)[i] \in 0..127
<1> TAKE i \in 1..Len(text)
<1>1. i \in Nat \ {0} /\ text[i] \in 0..127
  <2>1. Len(text) \in Nat /\ text[i] \in 0..127
    BY LenProperties, ElementOfSeq
  <2> QED
    BY <2>1
<1> DEFINE byte == Key[0][KeyPos(use.start, i - 1)]
<1>2. byte \in 0..127
  <2>1. KeyPos(use.start, i - 1) \in 0 .. KEY_SIZE - 1
    BY <1>1, KeyByteIs
  <2> QED
    BY <2>1
<1> HIDE DEF byte
<1>3. (byte + use.shift) % 256 \in 0..127
  <2>1. (byte + 0) % 256 \in 0..127
    BY <1>2, Unshifted
  <2> QED
    BY <2>1
<1>4. KeyByte(use, i) \in 0..127
  BY <1>3 DEF KeyByte, byte
<1>5. ExclusiveOr(use, text)[i] = Xor(text[i], KeyByte(use, i))
  BY DEF ExclusiveOr, KeyByte
<1> QED
  BY <1>1, <1>4, <1>5, XorOfAscii

-----------------------------------------------------------------------------
(***************************************************************************)
(* The inductive invariant: the properties are what the commands leave in  *)
(* them, and a letter is what one encrypt wrote.                           *)
(***************************************************************************)
PropertiesInv ==
  /\ alpha \in [Vaults -> -128..127]
  /\ delta \in [Vaults -> Nat]
  /\ delta[2] < KEY_SIZE

IsLetter(l) ==
  \E v \in Vaults, algorithm \in 0..1, a \in -128..127, d \in Nat,
     text \in Texts, size \in BufferSizes :
    /\ v = 2 => d < KEY_SIZE
    /\ MayEncrypt(v, algorithm, text, size)
    /\ l = Letter(v, Use(algorithm, a, d), text, size)

IInv == PropertiesInv /\ (letter = NoLetter \/ IsLetter(letter))

LEMMA InitInv == Init => IInv
<1> SUFFICES ASSUME Init PROVE IInv
  OBVIOUS
<1>1. 8 < KEY_SIZE
  BY KeyVaultAssumption
<1> QED
  BY <1>1 DEF Init, IInv, PropertiesInv, Vaults

\* What is written to delta of key_vault.2 is reduced to a position in the key.
LEMMA ReducedIs ==
  ASSUME NEW v \in Vaults, NEW d \in Nat
  PROVE  Reduced(v, d) \in Nat /\ (v = 2 => Reduced(v, d) < KEY_SIZE)
<1>1. KEY_SIZE \in Nat /\ KEY_SIZE > 0
  BY KeyVaultAssumption
<1>2. d % KEY_SIZE \in 0 .. KEY_SIZE - 1
  BY <1>1
<1> QED
  BY <1>1, <1>2 DEF Reduced

\* A letter is written while the properties are in range.
LEMMA WritesLetter ==
  ASSUME NEW v \in Vaults, NEW algorithm \in 0..2, NEW text \in Texts,
         NEW size \in BufferSizes, NEW a \in -128..127, NEW d \in Nat,
         v = 2 => d < KEY_SIZE, MayEncrypt(v, algorithm, text, size)
  PROVE  IsLetter(Letter(v, Use(algorithm, a, d), text, size))
<1>1. algorithm \in 0..1
  BY DEF MayEncrypt, NUMBER_OF_KEYS, Vaults
<1> QED
  BY <1>1 DEF IsLetter

LEMMA NextInv == IInv /\ [Next]_vars => IInv'
<1> SUFFICES ASSUME IInv, [Next]_vars PROVE IInv'
  OBVIOUS
<1> USE DEF IInv
<1>1. ASSUME NEW v \in Vaults, NEW algorithm \in 0..2, NEW text \in Texts,
             NEW size \in BufferSizes, cipher_1_encrypt(v, algorithm, text, size)
      PROVE  IInv'
  <2>1. MayEncrypt(v, algorithm, text, size) /\ UNCHANGED <<alpha, delta>>
    BY <1>1 DEF cipher_1_encrypt
  <2>2. letter' = Letter(v, Use(algorithm, alpha[v], delta[v]), text, size)
    BY <1>1 DEF cipher_1_encrypt, UseBy
  <2>3. alpha[v] \in -128..127 /\ delta[v] \in Nat /\ (v = 2 => delta[v] < KEY_SIZE)
    BY DEF PropertiesInv
  <2>4. IsLetter(letter')
    BY <2>1, <2>2, <2>3, WritesLetter
  <2>5. PropertiesInv'
    BY <2>1 DEF PropertiesInv
  <2> QED
    BY <2>4, <2>5
<1>2. ASSUME NEW v \in Vaults, NEW algorithm \in 0..2, NEW text \in Texts,
             NEW size \in BufferSizes, call_wrappers(v, algorithm, text, size)
      PROVE  IInv'
  <2> DEFINE a == Int8(alpha[v] - 5)
             d == Reduced(v, delta[v] + 10)
  <2>1. alpha[v] \in -128..127 /\ delta[v] + 10 \in Nat
    BY DEF PropertiesInv
  <2>2. a \in -128..127
    BY <2>1 DEF Int8
  <2>3. d \in Nat /\ (v = 2 => d < KEY_SIZE)
    BY <2>1, ReducedIs
  <2>4. /\ alpha' = [alpha EXCEPT ![v] = a] /\ delta' = [delta EXCEPT ![v] = d]
        /\ letter' = IF MayEncrypt(v, algorithm, text, size)
                       THEN Letter(v, Use(algorithm, a, d), text, size) ELSE letter
    BY <1>2 DEF call_wrappers
  <2> HIDE DEF a, d
  <2>5. PropertiesInv'
    BY <2>2, <2>3, <2>4 DEF PropertiesInv, Vaults
  <2>6. letter' = letter \/ IsLetter(letter')
    BY <2>2, <2>3, <2>4, WritesLetter
  <2> QED
    BY <2>5, <2>6
<1>3. ASSUME NEW v \in Vaults, NEW in \in Alphas, cipher_1_alpha(v, in)
      PROVE  IInv'
  <2>1. in \in -128..127
    BY KeyVaultAssumption
  <2>2. alpha' = [alpha EXCEPT ![v] = in] /\ UNCHANGED <<delta, letter>>
    BY <1>3 DEF cipher_1_alpha
  <2>3. PropertiesInv'
    BY <2>1, <2>2 DEF PropertiesInv
  <2> QED
    BY <2>2, <2>3
<1>4. ASSUME NEW v \in Vaults, NEW in \in Deltas, cipher_1_delta(v, in)
      PROVE  IInv'
  <2> DEFINE d == Reduced(v, in)
  <2>1. d \in Nat /\ (v = 2 => d < KEY_SIZE)
    BY KeyVaultAssumption, ReducedIs
  <2>2. delta' = [delta EXCEPT ![v] = d] /\ UNCHANGED <<alpha, letter>>
    BY <1>4 DEF cipher_1_delta
  <2> HIDE DEF d
  <2>3. PropertiesInv'
    BY <2>1, <2>2 DEF PropertiesInv, Vaults
  <2> QED
    BY <2>2, <2>3
<1>5. CASE UNCHANGED vars
  <2>1. PropertiesInv'
    BY <1>5 DEF vars, PropertiesInv
  <2> QED
    BY <1>5, <2>1 DEF vars
<1> QED
  BY <1>1, <1>2, <1>3, <1>4, <1>5 DEF Next

LEMMA Invariant == Spec => []IInv
BY InitInv, NextInv, PTL DEF Spec

-----------------------------------------------------------------------------
(***************************************************************************)
(* What it shows of a letter.                                              *)
(***************************************************************************)

\* Where char is signed key_vault.1 carries ASCII only: its shift drags the sign of
\* any other byte along.  Where char is unsigned every text fits.
CharsFit ==
  CharIsSigned =>
    Texts \subseteq Seq(0..127) /\ Key[0] \in [0 .. KEY_SIZE - 1 -> 0..127]

LEMMA UseIsInKey ==
  ASSUME NEW v \in Vaults, NEW algorithm \in 0..1, algorithm < NUMBER_OF_KEYS(v),
         NEW a \in -128..127, NEW d \in Nat, v = 2 => d < KEY_SIZE
  PROVE  InKey(Use(algorithm, a, d))
<1>1. 0 \in 0 .. KEY_SIZE - 1 /\ KEY_SIZE \in Nat
  BY KeyVaultAssumption
<1>2. algorithm = 0 \/ (algorithm = 1 /\ v = 2)
  BY DEF NUMBER_OF_KEYS, Vaults
<1>3. Use(algorithm, a, d) = [algorithm |-> algorithm, shift |-> IF algorithm = 0 THEN 0 ELSE a,
                              start |-> IF algorithm = 0 THEN 0 ELSE d]
  BY DEF Use
<1> QED
  BY <1>1, <1>2, <1>3 DEF InKey

\* A message, of the length there is room for.
LEMMA MessageLength ==
  ASSUME NEW v \in Vaults, NEW use, NEW text, Len(text) \in Nat, NEW size
  PROVE  Len(Letter(v, use, text, size).message) = 1 + 4 * NumberOfGroups(Len(text))
<1> DEFINE bytes == ExclusiveOr(use, text)
           n == 4 * NumberOfGroups(Len(text))
           chars == Encode(v, bytes)
           S == {chars[p] : p \in 1..n} \cup {use.algorithm}
<1>1. n \in Nat
  BY GroupsOfBytes
<1>2. Len(bytes) = Len(text)
  BY DEF ExclusiveOr
<1>3. chars = [p \in 1..n |-> chars[p]]
  BY <1>2 DEF Encode
<1> HIDE DEF chars, n
<1>4. chars \in [1..n -> S]
  BY <1>3
<1>5. chars \in Seq(S) /\ Len(chars) = n
  BY <1>1, <1>4, FunctionIsSequence
<1>6. <<use.algorithm>> \in Seq(S) /\ Len(<<use.algorithm>>) = 1
  OBVIOUS
<1> HIDE DEF S
<1>7. Len(<<use.algorithm>> \o chars) = 1 + n
  BY <1>5, <1>6, ConcatProperties
<1> QED
  BY <1>7 DEF Letter, chars, n

\* What base 64 makes of the bytes of a letter, behind its first character.
LEMMA MessageOfBytes ==
  ASSUME NEW v \in Vaults, NEW bytes \in Seq(0..255), \A i \in 1..Len(bytes) : Shifts(v, bytes[i]),
         NEW algorithm \in 0..1, NEW message, message = <<algorithm>> \o Encode(v, bytes)
  PROVE  message[1] = algorithm /\ Decode(Tail(message)) = bytes
<1> DEFINE chars == Encode(v, bytes)
           head == <<algorithm>>
<1>1. chars \in Seq(0..64) /\ Decode(chars) = bytes
  BY EncodeIs, DecodeEncode
<1>2. message = head \o chars
  OBVIOUS
<1>3. head \in Seq(0..64) /\ Len(head) = 1 /\ head[1] = algorithm
  OBVIOUS
<1> HIDE DEF chars, head
<1>4. Len(chars) \in Nat
  BY <1>1
<1>5. /\ message \in Seq(0..64) /\ Len(message) = 1 + Len(chars)
      /\ \A i \in 1 .. 1 + Len(chars) :
           message[i] = IF i <= 1 THEN head[i] ELSE chars[i - 1]
  <2>1. /\ head \o chars \in Seq(0..64) /\ Len(head \o chars) = Len(head) + Len(chars)
        /\ \A i \in 1 .. Len(head) + Len(chars) :
             (head \o chars)[i] = IF i <= Len(head) THEN head[i] ELSE chars[i - Len(head)]
    <3>1. head \in Seq(0..64) /\ chars \in Seq(0..64)
      BY <1>1, <1>3
    <3> QED
      BY <3>1, ConcatProperties
  <2>2. Len(head) = 1
    BY <1>3
  <2> QED
    BY <1>2, <2>1, <2>2
<1>6. message # << >>
  BY <1>4, <1>5
<1>7. /\ Tail(message) \in Seq(0..64) /\ Len(Tail(message)) = Len(chars)
      /\ \A i \in 1..Len(chars) : Tail(message)[i] = message[i + 1]
  BY <1>4, <1>5, <1>6, HeadTailProperties
<1>8. \A i \in 1..Len(chars) : Tail(message)[i] = chars[i]
  <2> TAKE i \in 1..Len(chars)
  <2>1. i + 1 \in 1 .. 1 + Len(chars) /\ ~(i + 1 <= 1) /\ (i + 1) - 1 = i
    BY <1>4
  <2>2. message[i + 1] = chars[(i + 1) - 1]
    BY <1>5, <2>1
  <2> QED
    BY <1>7, <2>1, <2>2
<1>9. Tail(message) = chars
  BY <1>1, <1>7, <1>8, SeqEqual
<1>10. message[1] = algorithm
  BY <1>3, <1>4, <1>5
<1> QED
  BY <1>1, <1>9, <1>10 DEF chars

\* Whatever the build's char: the text is in the letter's message, of a length for
\* which there was space.
LEMMA SizeOfLetter ==
  ASSUME NEW l, IsLetter(l)
  PROVE  /\ Len(l.text) \in Nat \ {0} /\ l.size \in Nat /\ encoded_len(Len(l.text)) <= l.size
         /\ Len(l.message) = 1 + 4 * NumberOfGroups(Len(l.text))
<1>1. PICK v \in Vaults, algorithm \in 0..1, a \in -128..127, d \in Nat,
           text \in Texts, size \in BufferSizes :
             /\ v = 2 => d < KEY_SIZE
             /\ MayEncrypt(v, algorithm, text, size)
             /\ l = Letter(v, Use(algorithm, a, d), text, size)
  BY DEF IsLetter
<1> DEFINE use == Use(algorithm, a, d)
<1>2. l.text = text /\ l.size = size /\ l.message = Letter(v, use, text, size).message
  BY <1>1 DEF Letter
<1>3. Len(text) \in Nat \ {0}
  BY KeyVaultAssumption, EmptySeq
<1>4. size \in Nat /\ encoded_len(Len(text)) <= size
  BY <1>1, KeyVaultAssumption DEF MayEncrypt
<1> HIDE DEF use
<1>5. Len(l.message) = 1 + 4 * NumberOfGroups(Len(text))
  BY <1>2, <1>3, MessageLength
<1> QED
  BY <1>2, <1>3, <1>4, <1>5

LEMMA NotHigh ==
  ASSUME NEW byte, byte \in 0..127
  PROVE  ~(byte >= 128)
OBVIOUS

\* Where char carries the texts, the letter is what decrypt takes apart.
LEMMA ContentsOfLetter ==
  ASSUME CharsFit, NEW l, IsLetter(l)
  PROVE  /\ l.message[1] = l.use.algorithm
         /\ ExclusiveOr(l.use, Decode(Tail(l.message))) = l.text
<1>1. PICK v \in Vaults, algorithm \in 0..1, a \in -128..127, d \in Nat,
           text \in Texts, size \in BufferSizes :
             /\ v = 2 => d < KEY_SIZE
             /\ MayEncrypt(v, algorithm, text, size)
             /\ l = Letter(v, Use(algorithm, a, d), text, size)
  BY DEF IsLetter
<1> DEFINE use == Use(algorithm, a, d)
           bytes == ExclusiveOr(use, text)
<1>2. text \in Seq(0..255)
  BY KeyVaultAssumption
<1>3. InKey(use) /\ use.algorithm = algorithm
  BY <1>1, UseIsInKey DEF MayEncrypt, Use
<1>4. bytes \in Seq(0..255) /\ Len(bytes) = Len(text) /\ ExclusiveOr(use, bytes) = text
  BY <1>2, <1>3, ExclusiveOrIs
<1>5. ASSUME NEW i \in 1..Len(bytes)
      PROVE  Shifts(v, bytes[i])
  <2>1. bytes[i] \in 0..255
    BY <1>4, ElementOfSeq
  <2>2. ASSUME CharIsSigned, v = 1
        PROVE  ~(bytes[i] >= 128)
    <3>1. algorithm = 0
      BY <1>1, <2>2 DEF MayEncrypt, NUMBER_OF_KEYS
    <3>2. use.algorithm = 0 /\ use.shift = 0
      BY <3>1 DEF Use
    <3>3. text \in Seq(0..127) /\ Key[0] \in [0 .. KEY_SIZE - 1 -> 0..127]
      BY <2>2 DEF CharsFit
    <3>4. bytes[i] \in 0..127
      BY <1>3, <1>4, <3>2, <3>3, ExclusiveOrOfAscii
    <3> QED
      BY <3>4, NotHigh
  <2> QED
    BY <2>1, <2>2 DEF Shifts
<1>6. l.text = text /\ l.use = use /\ l.message = <<use.algorithm>> \o Encode(v, bytes)
  BY <1>1 DEF Letter
<1> HIDE DEF bytes, use
<1>7. l.message[1] = algorithm /\ Decode(Tail(l.message)) = bytes
  <2>1. l.message = <<algorithm>> \o Encode(v, bytes)
    BY <1>3, <1>6
  <2> QED
    BY <1>4, <1>5, <2>1, MessageOfBytes
<1> QED
  BY <1>3, <1>4, <1>6, <1>7

\* A buffer that encrypt wrote to is large enough for the message and its '\0', and
\* for what decrypt writes.
LEMMA BufferIs ==
  ASSUME NEW length \in Nat \ {0}, NEW size \in Nat, encoded_len(length) <= size
  PROVE  /\ NumberOfGroups(length) \in Nat \ {0}
         /\ (1 + 4 * NumberOfGroups(length)) + 1 <= size
         /\ ((1 + 4 * NumberOfGroups(length)) \div 4) * 3 <= size
<1>1. NumberOfGroups(length) \in Nat \ {0}
  BY GroupsOfBytes
<1>2. \A g \in Nat : (1 + 4 * g) \div 4 = g
  OBVIOUS
<1> QED
  BY <1>1, <1>2 DEF encoded_len

LEMMA InvShowsRoundTrip == CharsFit /\ IInv => RoundTrip
<1> SUFFICES ASSUME CharsFit, IInv, letter # NoLetter, NEW r \in Vaults,
                    letter.use.algorithm < NUMBER_OF_KEYS(r),
                    UseBy(r, letter.use.algorithm) = letter.use
             PROVE  /\ MayDecrypt(r, letter.message, letter.size)
                    /\ Decrypted(r, letter.message) = letter.text
  BY DEF RoundTrip
<1>1. IsLetter(letter)
  BY DEF IInv
<1>2. Len(letter.message) > 1 /\ decoded_len(letter.message) <= letter.size
  <2> DEFINE length == Len(letter.text)
             size == letter.size
  <2>1. /\ length \in Nat \ {0} /\ size \in Nat /\ encoded_len(length) <= size
        /\ Len(letter.message) = 1 + 4 * NumberOfGroups(length)
    BY <1>1, SizeOfLetter
  <2> HIDE DEF length, size
  <2>2. /\ NumberOfGroups(length) \in Nat \ {0}
        /\ ((1 + 4 * NumberOfGroups(length)) \div 4) * 3 <= size
    BY <2>1, BufferIs
  <2>3. Len(letter.message) > 1
    BY <2>1, <2>2
  <2>4. decoded_len(letter.message) <= size
    BY <2>1, <2>2 DEF decoded_len
  <2> QED
    BY <2>3, <2>4 DEF size
<1>3. /\ letter.message[1] = letter.use.algorithm
      /\ ExclusiveOr(letter.use, Decode(Tail(letter.message))) = letter.text
  BY <1>1, ContentsOfLetter
<1> QED
  BY <1>2, <1>3 DEF MayDecrypt, Decrypted

LEMMA InvShowsWritesInBuffer == IInv => WritesInBuffer
<1> SUFFICES ASSUME IInv, letter # NoLetter
             PROVE  Len(letter.message) + 1 <= letter.size
  BY DEF WritesInBuffer
<1>1. IsLetter(letter)
  BY DEF IInv
<1> QED
  BY <1>1, SizeOfLetter, BufferIs

LEMMA InvShowsKeyPos == IInv => KeyPosInRange
<1> SUFFICES ASSUME IInv, NEW v \in Vaults, NEW algorithm \in 0 .. NUMBER_OF_KEYS(v) - 1
             PROVE  UseBy(v, algorithm).start < KEY_SIZE
  BY DEF KeyPosInRange
<1>1. KEY_SIZE \in Nat /\ 0 < KEY_SIZE
  BY KeyVaultAssumption
<1>2. algorithm = 0 \/ v = 2
  BY DEF NUMBER_OF_KEYS, Vaults
<1> QED
  BY <1>1, <1>2 DEF UseBy, Use, IInv, PropertiesInv

-----------------------------------------------------------------------------
\* A letter can be read by every vault that has its key while the properties are
\* what they were: what the base 64 of one vault wraps, the other unwraps, for texts
\* of any length, any keys and any history of the properties.
THEOREM LettersComeBack ==
  ASSUME CharsFit PROVE Spec => []RoundTrip
<1>1. CharsFit
  OBVIOUS
<1>2. IInv => RoundTrip
  BY <1>1, InvShowsRoundTrip
<1> QED
  BY <1>2, Invariant, PTL

\* Encrypt never writes behind the caller's buffer, whatever the build's char is.
THEOREM LettersFit == Spec => []WritesInBuffer
BY Invariant, InvShowsWritesInBuffer, PTL

\* However the properties are written and moved on, next_key_pos begins in the key.
THEOREM KeyPosStaysInRange == Spec => []KeyPosInRange
BY Invariant, InvShowsKeyPos, PTL
=============================================================================
