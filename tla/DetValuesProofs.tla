--------------------------- MODULE DetValuesProofs ---------------------------
(***************************************************************************)
(* Proofs about DetValues, for test cases of any number and length:        *)
(*   - ValuesAreCovered: Spec => []ValuesCovered,                          *)
(*   - ValuesAreTriedOnce: Spec => []ValuesTriedOnce.                      *)
(* Neither is inductive.  For the first, InOrder says what each stage that *)
(* is over has run, left out what its helpers take for run before; a       *)
(* byte, then a word, that a helper knows is shown to be the work of one   *)
(* of those stages.  For the second, Turns says that every call is a turn  *)
(* of one of the loops, with what its helpers let through; any two turns   *)
(* that make the same file are compared.  Both rest on the arithmetic of   *)
(* bytes and words, done bit by bit where a stage flips bits.              *)
(***************************************************************************)
EXTENDS DetValues, TLAPS

-----------------------------------------------------------------------------
(* Bytes and their bits                                                    *)

\* The values of a byte.  A name of its own keeps the provers from listing them.
Octet == 0 .. 255

\* What is in a range that starts at 0.
LEMMA Interval ==
  ASSUME NEW n \in Nat
  PROVE  \A x : x \in 0 .. n <=> x \in Nat /\ x <= n
OBVIOUS

\* What is in Octet.
LEMMA IsOctet == \A x : x \in Octet <=> x \in Nat /\ x <= 255
<1>1. PICK n \in Nat : n = 255
  OBVIOUS
<1>2. Octet = 0 .. n
  BY <1>1, Zenon DEF Octet
<1> QED BY <1>1, <1>2, Interval

\* A quotient.
LEMMA DivDef ==
  ASSUME NEW m \in Nat \ {0}, NEW a \in Nat
  PROVE  a \div m \in Nat /\ (a \div m) * m <= a /\ a < (a \div m) * m + m
OBVIOUS

\* A number is twice its half, and a bit.
LEMMA ModDef ==
  ASSUME NEW a \in Nat
  PROVE  a % 2 \in {0, 1} /\ a = 2 * (a \div 2) + (a % 2)
OBVIOUS

\* The quotients by m and by 2m differ by one bit.
LEMMA Halve ==
  ASSUME NEW m \in {1, 2, 4, 8, 16, 32, 64}, NEW v \in Nat
  PROVE  v \div m = 2 * (v \div (2 * m)) + ((v \div m) % 2)
<1> DEFINE p == v \div m  q == v \div (2 * m)  h == p \div 2  c == p % 2
<1>1. /\ p \in Nat /\ p * m <= v /\ v < p * m + m
      /\ q \in Nat /\ q * (2 * m) <= v /\ v < q * (2 * m) + 2 * m
  BY DivDef
<1>2. h \in Nat /\ c \in {0, 1} /\ p = 2 * h + c
  <2> HIDE DEF p
  <2> QED BY <1>1, ModDef, DivDef
<1> HIDE DEF p, q, h
<1>3. h = q
  BY <1>1, <1>2
<1>4. p = 2 * q + c
  BY <1>2, <1>3
<1> QED BY <1>4 DEF p, q

\* The powers of two up to 128.
LEMMA Powers ==
  /\ Power[1] = 1 /\ Power[2] = 2 /\ Power[3] = 4 /\ Power[4] = 8
  /\ Power[5] = 16 /\ Power[6] = 32 /\ Power[7] = 64 /\ Power[8] = 128
BY DEF Power

\* A byte from its bits.
Value(x) == x[0] + 2 * x[1] + 4 * x[2] + 8 * x[3] + 16 * x[4] + 32 * x[5] + 64 * x[6] + 128 * x[7]

\* A byte is what its eight bits say.
LEMMA ValueOfBits ==
  ASSUME NEW v \in Octet
  PROVE  /\ \A k \in 0 .. 7 : Bit(v, k) \in {0, 1}
         /\ v = Value([k \in 0 .. 7 |-> Bit(v, k)])
<1>1. v \in Nat /\ v <= 255
  BY IsOctet
<1>2. \A k \in 0 .. 7 : Bit(v, k) \in {0, 1}
  <2> TAKE k \in 0 .. 7
  <2>1. Power[k + 1] \in Nat \ {0}
    BY Powers
  <2>2. v \div Power[k + 1] \in Nat
    BY <1>1, <2>1, DivDef
  <2> QED BY <2>2, ModDef DEF Bit
<1> DEFINE q(m) == v \div m  c(k) == Bit(v, k)
<1>3. q(1) = v
  BY <1>1
<1>4. /\ q(1) = 2 * q(2) + c(0) /\ q(2) = 2 * q(4) + c(1) /\ q(4) = 2 * q(8) + c(2)
      /\ q(8) = 2 * q(16) + c(3) /\ q(16) = 2 * q(32) + c(4) /\ q(32) = 2 * q(64) + c(5)
      /\ q(64) = 2 * q(128) + c(6)
  <2>1. q(1) = 2 * q(2) + c(0)
    <3>1. 2 * 1 = 2 /\ 1 \in {1, 2, 4, 8, 16, 32, 64}
      OBVIOUS
    <3>2. v \div 1 = 2 * (v \div (2 * 1)) + ((v \div 1) % 2)
      BY <1>1, <3>1, Halve
    <3> QED BY <3>1, <3>2, Powers DEF Bit
  <2>2. q(2) = 2 * q(4) + c(1)
    <3>1. 2 * 2 = 4 /\ 2 \in {1, 2, 4, 8, 16, 32, 64}
      OBVIOUS
    <3>2. v \div 2 = 2 * (v \div (2 * 2)) + ((v \div 2) % 2)
      BY <1>1, <3>1, Halve
    <3> QED BY <3>1, <3>2, Powers DEF Bit
  <2>3. q(4) = 2 * q(8) + c(2)
    <3>1. 2 * 4 = 8 /\ 4 \in {1, 2, 4, 8, 16, 32, 64}
      OBVIOUS
    <3>2. v \div 4 = 2 * (v \div (2 * 4)) + ((v \div 4) % 2)
      BY <1>1, <3>1, Halve
    <3> QED BY <3>1, <3>2, Powers DEF Bit
  <2>4. q(8) = 2 * q(16) + c(3)
    <3>1. 2 * 8 = 16 /\ 8 \in {1, 2, 4, 8, 16, 32, 64}
      OBVIOUS
    <3>2. v \div 8 = 2 * (v \div (2 * 8)) + ((v \div 8) % 2)
      BY <1>1, <3>1, Halve
    <3> QED BY <3>1, <3>2, Powers DEF Bit
  <2>5. q(16) = 2 * q(32) + c(4)
    <3>1. 2 * 16 = 32 /\ 16 \in {1, 2, 4, 8, 16, 32, 64}
      OBVIOUS
    <3>2. v \div 16 = 2 * (v \div (2 * 16)) + ((v \div 16) % 2)
      BY <1>1, <3>1, Halve
    <3> QED BY <3>1, <3>2, Powers DEF Bit
  <2>6. q(32) = 2 * q(64) + c(5)
    <3>1. 2 * 32 = 64 /\ 32 \in {1, 2, 4, 8, 16, 32, 64}
      OBVIOUS
    <3>2. v \div 32 = 2 * (v \div (2 * 32)) + ((v \div 32) % 2)
      BY <1>1, <3>1, Halve
    <3> QED BY <3>1, <3>2, Powers DEF Bit
  <2>7. q(64) = 2 * q(128) + c(6)
    <3>1. 2 * 64 = 128 /\ 64 \in {1, 2, 4, 8, 16, 32, 64}
      OBVIOUS
    <3>2. v \div 64 = 2 * (v \div (2 * 64)) + ((v \div 64) % 2)
      BY <1>1, <3>1, Halve
    <3> QED BY <3>1, <3>2, Powers DEF Bit
  <2> QED BY <2>1, <2>2, <2>3, <2>4, <2>5, <2>6, <2>7
<1>5. q(128) = c(7)
  <2>1. q(128) \in Nat /\ q(128) * 128 <= v
    BY <1>1, DivDef
  <2>2. q(128) \in {0, 1}
    <3> HIDE DEF q
    <3> QED BY <1>1, <2>1
  <2>3. q(128) % 2 = q(128)
    BY <2>2
  <2> QED BY <2>3, Powers DEF Bit
<1>6. /\ q(2) \in Nat /\ q(4) \in Nat /\ q(8) \in Nat /\ q(16) \in Nat /\ q(32) \in Nat
      /\ q(64) \in Nat /\ q(128) \in Nat
  BY <1>1, DivDef
<1>7. /\ c(0) \in Nat /\ c(1) \in Nat /\ c(2) \in Nat /\ c(3) \in Nat
      /\ c(4) \in Nat /\ c(5) \in Nat /\ c(6) \in Nat /\ c(7) \in Nat
  BY <1>2
<1> HIDE DEF q
<1>8. v = c(0) + 2 * c(1) + 4 * c(2) + 8 * c(3) + 16 * c(4) + 32 * c(5) + 64 * c(6) + 128 * c(7)
  <2> HIDE DEF c
  <2>1. q(16) = c(4) + 2 * c(5) + 4 * c(6) + 8 * c(7)
    BY <1>4, <1>5, <1>6, <1>7
  <2>2. v = c(0) + 2 * c(1) + 4 * c(2) + 8 * c(3) + 16 * q(16)
    BY <1>3, <1>4, <1>6, <1>7
  <2> QED BY <1>6, <1>7, <2>1, <2>2
<1> QED BY <1>2, <1>8 DEF Value

\* Any eight bits are those of one byte.
LEMMA BitsOfValue ==
  ASSUME NEW x \in [0 .. 7 -> {0, 1}]
  PROVE  Value(x) \in Octet /\ \A k \in 0 .. 7 : Bit(Value(x), k) = x[k]
<1> DEFINE v == Value(x)
<1>1. /\ x[0] \in 0 .. 1 /\ x[1] \in 0 .. 1 /\ x[2] \in 0 .. 1 /\ x[3] \in 0 .. 1
      /\ x[4] \in 0 .. 1 /\ x[5] \in 0 .. 1 /\ x[6] \in 0 .. 1 /\ x[7] \in 0 .. 1
  OBVIOUS
<1>2. v \in Octet
  <2>1. v \in Nat /\ v <= 255
    BY <1>1 DEF Value
  <2> QED BY <2>1, IsOctet
<1> DEFINE y(k) == Bit(v, k)
<1>3. v = y(0) + 2 * y(1) + 4 * y(2) + 8 * y(3) + 16 * y(4) + 32 * y(5) + 64 * y(6) + 128 * y(7)
  <2>1. v = Value([k \in 0 .. 7 |-> Bit(v, k)])
    BY ONLY <1>2, ValueOfBits
  <2> HIDE DEF v
  <2> QED BY <2>1 DEF Value
<1>4. /\ y(0) \in 0 .. 1 /\ y(1) \in 0 .. 1 /\ y(2) \in 0 .. 1 /\ y(3) \in 0 .. 1
      /\ y(4) \in 0 .. 1 /\ y(5) \in 0 .. 1 /\ y(6) \in 0 .. 1 /\ y(7) \in 0 .. 1
  <2> HIDE DEF v
  <2>1. \A k \in 0 .. 7 : y(k) \in {0, 1}
    BY <1>2, ValueOfBits
  <2> HIDE DEF y
  <2> QED BY <2>1
<1>5. v = x[0] + 2 * x[1] + 4 * x[2] + 8 * x[3] + 16 * x[4] + 32 * x[5] + 64 * x[6] + 128 * x[7]
  BY DEF Value
<1> HIDE DEF v, y
<1>6. /\ y(0) = x[0] /\ y(1) = x[1] /\ y(2) = x[2] /\ y(3) = x[3]
      /\ y(4) = x[4] /\ y(5) = x[5] /\ y(6) = x[6] /\ y(7) = x[7]
  <2> DEFINE a == x[4] + 2 * x[5] + 4 * x[6] + 8 * x[7]
             b == y(4) + 2 * y(5) + 4 * y(6) + 8 * y(7)
  <2>1. /\ a \in Int /\ b \in Int
        /\ x[0] + 2 * x[1] + 4 * x[2] + 8 * x[3] + 16 * a
             = y(0) + 2 * y(1) + 4 * y(2) + 8 * y(3) + 16 * b
    BY <1>1, <1>3, <1>4, <1>5
  <2>2. a = x[4] + 2 * x[5] + 4 * x[6] + 8 * x[7] /\ b = y(4) + 2 * y(5) + 4 * y(6) + 8 * y(7)
    OBVIOUS
  <2> HIDE DEF a, b
  <2>3. y(0) = x[0]
    BY <1>1, <1>4, <2>1
  <2>4. y(1) = x[1]
    BY <1>1, <1>4, <2>1, <2>3
  <2>5. y(2) = x[2]
    BY <1>1, <1>4, <2>1, <2>3, <2>4
  <2>6. y(3) = x[3] /\ a = b
    BY <1>1, <1>4, <2>1, <2>3, <2>4, <2>5
  <2>7. y(4) = x[4] /\ y(5) = x[5] /\ y(6) = x[6] /\ y(7) = x[7]
    BY <1>1, <1>4, <2>2, <2>6
  <2> QED BY <2>3, <2>4, <2>5, <2>6, <2>7
<1>7. \A k \in 0 .. 7 : y(k) = x[k]
  BY <1>6
<1> QED BY <1>2, <1>7 DEF v, y

\* Bytes with the same bits are the same.
LEMMA SameBits ==
  ASSUME NEW v \in Octet, NEW w \in Octet, \A k \in 0 .. 7 : Bit(v, k) = Bit(w, k)
  PROVE  v = w
<1>1. [k \in 0 .. 7 |-> Bit(v, k)] = [k \in 0 .. 7 |-> Bit(w, k)]
  OBVIOUS
<1> QED BY ValueOfBits, <1>1

\* FLIP_BIT turns one bit of its byte over and leaves the others.
LEMMA FlipsOne ==
  ASSUME NEW v \in Octet, NEW k \in 0 .. 7
  PROVE  /\ FlipBit(v, k) \in Octet
         /\ \A j \in 0 .. 7 : Bit(FlipBit(v, k), j) # Bit(v, j) <=> j = k
<1> DEFINE x == [j \in 0 .. 7 |-> Bit(v, j)]  y == [x EXCEPT ![k] = 1 - @]
<1>1. x \in [0 .. 7 -> {0, 1}] /\ v = Value(x) /\ x[k] = Bit(v, k)
  BY ValueOfBits
<1>2. y \in [0 .. 7 -> {0, 1}] /\ (\A j \in 0 .. 7 : y[j] # x[j] <=> j = k)
      /\ \A j \in 0 .. 7 : y[j] = IF j = k THEN 1 - x[k] ELSE x[j]
  <2> HIDE DEF x
  <2> QED BY <1>1
<1> HIDE DEF x, y
<1>3. /\ x[0] \in 0 .. 1 /\ x[1] \in 0 .. 1 /\ x[2] \in 0 .. 1 /\ x[3] \in 0 .. 1
      /\ x[4] \in 0 .. 1 /\ x[5] \in 0 .. 1 /\ x[6] \in 0 .. 1 /\ x[7] \in 0 .. 1
  BY <1>1
<1>4. FlipBit(v, k) = Value(y)
  <2>1. FlipBit(v, k) = v + (1 - 2 * x[k]) * Power[k + 1]
    BY <1>1, <1>3, IsOctet, Powers DEF FlipBit
  <2>2. CASE k = 0
    BY <1>1, <1>2, <1>3, <2>1, <2>2, Powers DEF Value
  <2>3. CASE k = 1
    BY <1>1, <1>2, <1>3, <2>1, <2>3, Powers DEF Value
  <2>4. CASE k = 2
    BY <1>1, <1>2, <1>3, <2>1, <2>4, Powers DEF Value
  <2>5. CASE k = 3
    BY <1>1, <1>2, <1>3, <2>1, <2>5, Powers DEF Value
  <2>6. CASE k = 4
    BY <1>1, <1>2, <1>3, <2>1, <2>6, Powers DEF Value
  <2>7. CASE k = 5
    BY <1>1, <1>2, <1>3, <2>1, <2>7, Powers DEF Value
  <2>8. CASE k = 6
    BY <1>1, <1>2, <1>3, <2>1, <2>8, Powers DEF Value
  <2>9. CASE k = 7
    BY <1>1, <1>2, <1>3, <2>1, <2>9, Powers DEF Value
  <2> QED BY <2>2, <2>3, <2>4, <2>5, <2>6, <2>7, <2>8, <2>9
<1> QED BY <1>1, <1>2, <1>4, BitsOfValue, ValueOfBits

\* x ^ 0xff turns them all over.
LEMMA FlipsAll ==
  ASSUME NEW v \in Octet
  PROVE  255 - v \in Octet /\ \A j \in 0 .. 7 : Bit(255 - v, j) # Bit(v, j)
<1> DEFINE x == [j \in 0 .. 7 |-> Bit(v, j)]  y == [j \in 0 .. 7 |-> 1 - x[j]]
<1>1. x \in [0 .. 7 -> {0, 1}] /\ v = Value(x) /\ \A j \in 0 .. 7 : x[j] = Bit(v, j)
  BY ValueOfBits
<1> HIDE DEF x
<1>2. y \in [0 .. 7 -> {0, 1}] /\ \A j \in 0 .. 7 : y[j] = 1 - x[j] /\ y[j] # x[j]
  BY <1>1
<1> HIDE DEF y
<1>3. /\ x[0] \in 0 .. 1 /\ x[1] \in 0 .. 1 /\ x[2] \in 0 .. 1 /\ x[3] \in 0 .. 1
      /\ x[4] \in 0 .. 1 /\ x[5] \in 0 .. 1 /\ x[6] \in 0 .. 1 /\ x[7] \in 0 .. 1
  BY <1>1
<1>4. 255 - v = Value(y)
  BY <1>1, <1>2, <1>3 DEF Value
<1> QED BY <1>1, <1>2, <1>4, BitsOfValue

\* x ^ y is empty only for equal bytes, all bits only for complements, and tells y
\* when x is known.
LEMMA Xor8Facts ==
  ASSUME NEW x \in Octet, NEW y \in Octet
  PROVE  /\ Xor8(x, y) \subseteq 0 .. 7
         /\ Xor8(x, y) = {} <=> x = y
         /\ Xor8(x, y) = 0 .. 7 => y = 255 - x
         /\ \A z \in Octet : Xor8(x, y) = Xor8(x, z) => y = z
<1>1. Xor8(x, y) \subseteq 0 .. 7
  BY DEF Xor8
<1>2. ASSUME NEW z \in Octet, Xor8(x, y) = Xor8(x, z) PROVE y = z
  <2>1. \A k \in 0 .. 7 : Bit(x, k) \in {0, 1} /\ Bit(y, k) \in {0, 1} /\ Bit(z, k) \in {0, 1}
    BY ValueOfBits
  <2>2. ASSUME NEW k \in 0 .. 7 PROVE Bit(y, k) = Bit(z, k)
    <3>1. Bit(x, k) # Bit(y, k) <=> Bit(x, k) # Bit(z, k)
      BY <1>2 DEF Xor8
    <3> QED BY <2>1, <3>1
  <2> QED BY <2>2, SameBits
<1>3. Xor8(x, x) = {}
  BY DEF Xor8
<1>4. Xor8(x, 255 - x) = 0 .. 7 /\ 255 - x \in Octet
  BY FlipsAll DEF Xor8
<1> QED BY <1>1, <1>2, <1>3, <1>4

-----------------------------------------------------------------------------
(* Words, and the bits of a file                                           *)

\* The number of words.  It is multiplied out only where it matters: the provers
\* write large numerals as long terms.
Wide == 256 * 256
\* The values of a word.
IsWord(w) == w \in Nat /\ w < Wide

\* The number of words, as the module writes it.
LEMMA WideIs == Wide = 65536
BY SMT DEF Wide

\* The byte of a word that comes first in the file.
Lo(w) == w % 256
\* And the second one.
Hi(w) == w \div 256

\* Division by 256.
LEMMA Div256 ==
  ASSUME NEW w \in Nat
  PROVE  /\ w \div 256 \in Nat /\ w % 256 \in Nat /\ w % 256 <= 255
         /\ w = 256 * (w \div 256) + (w % 256)
OBVIOUS

\* A word is its two bytes.
LEMMA LoHi ==
  ASSUME NEW w, IsWord(w)
  PROVE  Lo(w) \in Octet /\ Hi(w) \in Octet /\ w = Lo(w) + 256 * Hi(w)
<1>1. Hi(w) \in Nat /\ Lo(w) \in Nat /\ Lo(w) <= 255 /\ w = 256 * Hi(w) + Lo(w)
  BY Div256 DEF IsWord, Lo, Hi
<1>2. Hi(w) <= 255 /\ w = Lo(w) + 256 * Hi(w)
  BY <1>1 DEF IsWord, Wide
<1> QED BY <1>1, <1>2, IsOctet

\* Any two bytes make a word.
LEMMA OfLoHi ==
  ASSUME NEW x \in Octet, NEW y \in Octet
  PROVE  /\ IsWord(x + 256 * y)
         /\ Lo(x + 256 * y) = x /\ Hi(x + 256 * y) = y
<1>1. x \in Nat /\ x <= 255 /\ y \in Nat /\ y <= 255
  BY IsOctet
<1> DEFINE w == x + 256 * y
<1>2. IsWord(w) /\ w = x + 256 * y
  BY <1>1 DEF IsWord, Wide
<1> HIDE DEF w
<1>3. Lo(w) \in Nat /\ Lo(w) <= 255 /\ Hi(w) \in Nat /\ w = Lo(w) + 256 * Hi(w)
  BY <1>2, LoHi, IsOctet
<1>4. Lo(w) = x /\ Hi(w) = y
  BY <1>1, <1>2, <1>3
<1> QED BY <1>2, <1>4 DEF w

-----------------------------------------------------------------------------
(* The bits of a file                                                      *)

\* A test case, and what a stage makes of one.
IsFile(f) == f \in Seq(Octet)
\* The numbers of its bits, as FLIP_BIT counts them.
FileBits(f) == 0 .. 8 * Len(f) - 1
\* One of them.
FileBit(f, b) == Bit(f[b \div 8 + 1], 7 - (b % 8))

\* An element of a sequence is of the sequence's type.
LEMMA ElementOf ==
  ASSUME NEW S, NEW s \in Seq(S), NEW i \in 1 .. Len(s)
  PROVE  s[i] \in S
OBVIOUS

\* A byte of a file is a byte.
LEMMA ByteAt ==
  ASSUME NEW f, IsFile(f), NEW i \in Bytes(f)
  PROVE  f[i] \in Octet /\ i \in Nat \ {0} /\ i <= Len(f) /\ Len(f) \in Nat
<1>1. f \in Seq(Octet) /\ i \in 1 .. Len(f)
  BY DEF IsFile, Bytes
<1> HIDE DEF IsFile
<1>2. f[i] \in Octet
  BY ONLY <1>1, ElementOf
<1> QED BY <1>1, <1>2

\* A bit of the file is a bit of one of its bytes.
LEMMA Place ==
  ASSUME NEW f, IsFile(f), NEW b \in FileBits(f)
  PROVE  /\ b \div 8 + 1 \in Bytes(f) /\ 7 - (b % 8) \in 0 .. 7
         /\ f[b \div 8 + 1] \in Octet
         /\ b = 8 * (b \div 8) + (b % 8)
<1>1. Len(f) \in Nat /\ b \in Nat /\ b < 8 * Len(f)
  BY DEF IsFile, FileBits
<1>2. b \div 8 \in Nat /\ b % 8 \in 0 .. 7 /\ b = 8 * (b \div 8) + (b % 8)
  BY <1>1
<1> DEFINE d == b \div 8  c == b % 8
<1>3. d + 1 \in 1 .. Len(f) /\ 7 - c \in 0 .. 7
  <2>1. d \in Nat /\ c \in 0 .. 7 /\ b = 8 * d + c
    BY <1>2
  <2> HIDE DEF d, c
  <2> QED BY <1>1, <2>1
<1>4. d + 1 \in Bytes(f) /\ f[d + 1] \in Octet
  <2> HIDE DEF d
  <2>1. d + 1 \in Bytes(f)
    BY <1>3 DEF Bytes
  <2> QED BY <2>1, ByteAt
<1> QED BY <1>2, <1>3, <1>4

\* Bit k of the byte at i, in the file.
LEMMA BitAt ==
  ASSUME NEW i \in Nat \ {0}, NEW k \in 0 .. 7
  PROVE  /\ 8 * (i - 1) + 7 - k \in Nat
         /\ (8 * (i - 1) + 7 - k) \div 8 = i - 1
         /\ (8 * (i - 1) + 7 - k) % 8 = 7 - k
OBVIOUS

\* Bitflip 1/1 changes one bit of the file.
LEMMA Flip1Does ==
  ASSUME NEW f, IsFile(f), NEW b \in FileBits(f)
  PROVE  /\ IsFile(FLIP_BIT(f, b)) /\ Len(FLIP_BIT(f, b)) = Len(f)
         /\ \A c \in FileBits(f) : FileBit(FLIP_BIT(f, b), c) # FileBit(f, c) <=> c = b
<1> DEFINE i == b \div 8 + 1  k == 7 - (b % 8)  g == FLIP_BIT(f, b)
<1>1. i \in Bytes(f) /\ k \in 0 .. 7 /\ f[i] \in Octet /\ Bytes(f) = 1 .. Len(f) /\ Len(f) \in Nat
  BY Place DEF IsFile, Bytes
<1>2. g = [f EXCEPT ![i] = FlipBit(f[i], k)]
  BY DEF FLIP_BIT
<1>3. /\ FlipBit(f[i], k) \in Octet
      /\ \A j \in 0 .. 7 : Bit(FlipBit(f[i], k), j) # Bit(f[i], j) <=> j = k
  <2> HIDE DEF i, k
  <2> QED BY <1>1, FlipsOne
<1> HIDE DEF i, k, g
<1>4. IsFile(g) /\ Len(g) = Len(f) /\ g[i] = FlipBit(f[i], k)
      /\ \A j \in Bytes(f) : j # i => g[j] = f[j]
  BY <1>1, <1>2, <1>3 DEF IsFile, Bytes
<1>5. ASSUME NEW c \in FileBits(f) PROVE FileBit(g, c) # FileBit(f, c) <=> c = b
  <2>1. /\ c \div 8 + 1 \in Bytes(f) /\ 7 - (c % 8) \in 0 .. 7 /\ c = 8 * (c \div 8) + (c % 8)
        /\ b = 8 * (b \div 8) + (b % 8)
    BY Place
  <2>2. c = b => c \div 8 + 1 = i /\ 7 - (c % 8) = k
    BY DEF i, k
  <2>3. c \div 8 + 1 = i /\ 7 - (c % 8) = k => c = b
    <3>1. c \in Int /\ b \in Int
      BY DEF FileBits
    <3>2. c \div 8 \in Int /\ c % 8 \in Int /\ b \div 8 \in Int /\ b % 8 \in Int
      BY <3>1
    <3> QED BY <2>1, <3>2 DEF i, k
  <2>4. CASE c \div 8 + 1 = i
    BY <1>3, <1>4, <2>1, <2>2, <2>3, <2>4 DEF FileBit
  <2>5. CASE c \div 8 + 1 # i
    BY <1>4, <2>1, <2>2, <2>5 DEF FileBit
  <2> QED BY <2>4, <2>5
<1> QED BY <1>4, <1>5 DEF g

\* A bit is 0 or 1.
LEMMA Binary ==
  ASSUME NEW f, IsFile(f), NEW b \in FileBits(f)
  PROVE  FileBit(f, b) \in {0, 1}
BY Place, ValueOfBits DEF FileBit

\* When all that differs are the bits of S, Flipped is S.
LEMMA FlippedIs ==
  ASSUME NEW f, NEW g, IsFile(f), IsFile(g), Len(g) = Len(f), NEW S \in SUBSET FileBits(f),
         \A c \in FileBits(f) : FileBit(g, c) # FileBit(f, c) <=> c \in S
  PROVE  Flipped(f, g) = S
BY DEF Flipped, FileBits, FileBit

\* Bitflip 2/1 changes two neighbouring bits.
LEMMA Flip2Does ==
  ASSUME NEW f, IsFile(f), NEW b \in Nat, b + 1 \in FileBits(f)
  PROVE  /\ IsFile(Flip2Bits(f, b)) /\ Len(Flip2Bits(f, b)) = Len(f)
         /\ \A c \in FileBits(f) : FileBit(Flip2Bits(f, b), c) # FileBit(f, c) <=>
              c \in b .. b + 1
<1> DEFINE g == FLIP_BIT(f, b)  h == FLIP_BIT(g, b + 1)
<1>1. Len(f) \in Nat /\ b \in FileBits(f)
  BY DEF IsFile, FileBits
<1>2. IsFile(g) /\ Len(g) = Len(f)
      /\ \A c \in FileBits(f) : FileBit(g, c) # FileBit(f, c) <=> c = b
  BY <1>1, Flip1Does
<1> HIDE DEF g
<1>3. IsFile(h) /\ Len(h) = Len(f)
      /\ \A c \in FileBits(f) : FileBit(h, c) # FileBit(g, c) <=> c = b + 1
  BY <1>2, Flip1Does DEF FileBits
<1>4. h = Flip2Bits(f, b)
  BY DEF Flip2Bits, g
<1> HIDE DEF h
<1>5. ASSUME NEW c \in FileBits(f) PROVE FileBit(h, c) # FileBit(f, c) <=> c \in b .. b + 1
  <2>1. c \in b .. b + 1 <=> c = b \/ c = b + 1
    BY DEF FileBits
  <2>2. FileBit(f, c) \in {0, 1} /\ FileBit(g, c) \in {0, 1} /\ FileBit(h, c) \in {0, 1}
    BY <1>2, <1>3, Binary DEF FileBits
  <2>3. b # b + 1
    OBVIOUS
  <2> QED BY <1>2, <1>3, <2>1, <2>2, <2>3
<1> QED BY <1>3, <1>4, <1>5

\* Bitflip 4/1 changes four.
LEMMA Flip4Does ==
  ASSUME NEW f, IsFile(f), NEW b \in Nat, b + 3 \in FileBits(f)
  PROVE  /\ IsFile(Flip4Bits(f, b)) /\ Len(Flip4Bits(f, b)) = Len(f)
         /\ \A c \in FileBits(f) : FileBit(Flip4Bits(f, b), c) # FileBit(f, c) <=>
              c \in b .. b + 3
<1> DEFINE g == Flip2Bits(f, b)  h == Flip2Bits(g, b + 2)
<1>1. Len(f) \in Nat /\ b + 1 \in FileBits(f) /\ (b + 2) + 1 \in FileBits(f) /\ b + 2 \in Nat
  BY DEF IsFile, FileBits
<1>2. /\ IsFile(g) /\ Len(g) = Len(f)
      /\ \A c \in FileBits(f) : FileBit(g, c) # FileBit(f, c) <=> c \in b .. b + 1
  BY <1>1, Flip2Does
<1> HIDE DEF g
<1>3. /\ IsFile(h) /\ Len(h) = Len(f)
      /\ \A c \in FileBits(f) : FileBit(h, c) # FileBit(g, c) <=> c \in b + 2 .. (b + 2) + 1
  BY <1>1, <1>2, Flip2Does DEF FileBits
<1>4. h = Flip4Bits(f, b)
  BY DEF Flip4Bits, g
<1> HIDE DEF h
<1>5. ASSUME NEW c \in FileBits(f) PROVE FileBit(h, c) # FileBit(f, c) <=> c \in b .. b + 3
  <2>1. /\ c \in b .. b + 3 <=> c \in b .. b + 1 \/ c \in b + 2 .. (b + 2) + 1
        /\ ~(c \in b .. b + 1 /\ c \in b + 2 .. (b + 2) + 1)
    BY DEF FileBits
  <2>2. FileBit(f, c) \in {0, 1} /\ FileBit(g, c) \in {0, 1} /\ FileBit(h, c) \in {0, 1}
    BY <1>2, <1>3, Binary DEF FileBits
  <2> QED BY <1>2, <1>3, <2>1, <2>2
<1> QED BY <1>3, <1>4, <1>5

\* What a file differs by determines it.
LEMMA SameFlips ==
  ASSUME NEW f, NEW g, NEW h, IsFile(f), IsFile(g), IsFile(h), Len(g) = Len(f), Len(h) = Len(f),
         Flipped(f, g) = Flipped(f, h)
  PROVE  g = h
<1>1. ASSUME NEW i \in Bytes(f) PROVE g[i] = h[i]
  <2>1. i \in Nat \ {0} /\ i <= Len(f) /\ Len(f) \in Nat
    BY DEF Bytes, IsFile
  <2>2. g[i] \in Octet /\ h[i] \in Octet /\ f[i] \in Octet
    BY ByteAt DEF Bytes
  <2>3. ASSUME NEW k \in 0 .. 7 PROVE Bit(g[i], k) = Bit(h[i], k)
    <3> DEFINE b == 8 * (i - 1) + 7 - k
    <3>1. b \in 0 .. 8 * Len(f) - 1
      BY <2>1
    <3>2. b \div 8 = i - 1 /\ b % 8 = 7 - k
      BY <2>1, BitAt
    <3> HIDE DEF b
    <3>3. b \div 8 + 1 = i /\ 7 - (b % 8) = k
      BY <2>1, <3>2
    <3>4. b \in Flipped(f, g) <=> Bit(f[i], k) # Bit(g[i], k)
      BY <3>1, <3>3 DEF Flipped
    <3>5. b \in Flipped(f, h) <=> Bit(f[i], k) # Bit(h[i], k)
      BY <3>1, <3>3 DEF Flipped
    <3>6. Bit(f[i], k) \in {0, 1} /\ Bit(g[i], k) \in {0, 1} /\ Bit(h[i], k) \in {0, 1}
      BY <2>2, ValueOfBits
    <3> QED BY <3>4, <3>5, <3>6
  <2> QED BY <2>2, <2>3, SameBits
<1> QED BY <1>1 DEF IsFile, Bytes

-----------------------------------------------------------------------------
(* Bytes and words of a file                                               *)

\* A stage over bytes changes one of them.
LEMMA PutByteDoes ==
  ASSUME NEW f, IsFile(f), NEW i \in Bytes(f), NEW v \in Octet
  PROVE  /\ IsFile(PutByte(f, i, v)) /\ Len(PutByte(f, i, v)) = Len(f)
         /\ PutByte(f, i, v)[i] = v
         /\ \A j \in Bytes(f) : j # i => PutByte(f, i, v)[j] = f[j]
BY DEF IsFile, Bytes, PutByte

\* Files with the same bytes are the same.
LEMMA SameFile ==
  ASSUME NEW f, NEW g, NEW h, IsFile(g), IsFile(h), Len(g) = Len(f), Len(h) = Len(f),
         \A i \in Bytes(f) : g[i] = h[i]
  PROVE  g = h
BY DEF IsFile, Bytes

\* A stage over words changes two neighbouring bytes, or one of them, and is then no
\* other than a stage over bytes.
LEMMA PutWordDoes ==
  ASSUME NEW f, IsFile(f), NEW i \in Words(f), NEW w, IsWord(w)
  PROVE  /\ i \in Bytes(f) /\ i + 1 \in Bytes(f) /\ i # i + 1
         /\ f[i] \in Octet /\ f[i + 1] \in Octet
         /\ IsFile(PutWord(f, i, w)) /\ Len(PutWord(f, i, w)) = Len(f)
         /\ PutWord(f, i, w)[i] = Lo(w) /\ PutWord(f, i, w)[i + 1] = Hi(w)
         /\ \A j \in Bytes(f) \ {i, i + 1} : PutWord(f, i, w)[j] = f[j]
         /\ Hi(w) = f[i + 1] => PutWord(f, i, w) = PutByte(f, i, Lo(w))
         /\ Lo(w) = f[i] => PutWord(f, i, w) = PutByte(f, i + 1, Hi(w))
<1> DEFINE x == Lo(w)  y == Hi(w)  g == PutWord(f, i, w)
<1>1. x \in Octet /\ y \in Octet
  BY LoHi
<1>2. g = [f EXCEPT ![i] = x, ![i + 1] = y]
  BY DEF PutWord, Lo, Hi
<1> HIDE DEF x, y, g
<1>3. i \in Bytes(f) /\ i + 1 \in Bytes(f) /\ i # i + 1 /\ f \in Seq(Octet)
      /\ Bytes(f) = 1 .. Len(f)
  BY DEF IsFile, Bytes, Words
<1>4. f[i] \in Octet /\ f[i + 1] \in Octet
  BY <1>3, ByteAt
<1>5. /\ g \in Seq(Octet) /\ Len(g) = Len(f) /\ g[i] = x /\ g[i + 1] = y
      /\ \A j \in Bytes(f) \ {i, i + 1} : g[j] = f[j]
  BY <1>1, <1>2, <1>3
<1>6. ASSUME y = f[i + 1] PROVE g = PutByte(f, i, x)
  <2> DEFINE h == PutByte(f, i, x)
  <2>1. IsFile(h) /\ Len(h) = Len(f) /\ h[i] = x /\ \A j \in Bytes(f) : j # i => h[j] = f[j]
    BY <1>1, <1>3, PutByteDoes
  <2> HIDE DEF h
  <2>2. \A j \in Bytes(f) : g[j] = h[j]
    BY <1>3, <1>5, <1>6, <2>1
  <2>3. g = h
    BY <1>5, <2>1, <2>2, SameFile DEF IsFile
  <2> QED BY <2>3 DEF h
<1>7. ASSUME x = f[i] PROVE g = PutByte(f, i + 1, y)
  <2> DEFINE k == i + 1  h == PutByte(f, k, y)
  <2>1. k \in Bytes(f) /\ k = i + 1
    BY <1>3
  <2> HIDE DEF k
  <2>2. IsFile(h) /\ Len(h) = Len(f) /\ h[k] = y /\ \A j \in Bytes(f) : j # k => h[j] = f[j]
    BY <1>1, <2>1, PutByteDoes
  <2> HIDE DEF h
  <2>3. \A j \in Bytes(f) : g[j] = h[j]
    BY <1>3, <1>5, <1>7, <2>1, <2>2
  <2>4. g = h
    BY <1>5, <2>2, <2>3, SameFile DEF IsFile
  <2> QED BY <2>4 DEF h, k
<1> QED BY <1>3, <1>4, <1>5, <1>6, <1>7 DEF IsFile, x, y, g

\* The word at a place is made of the bytes there.
LEMMA WordAtIs ==
  ASSUME NEW f, IsFile(f), NEW i \in Words(f)
  PROVE  /\ IsWord(WordAt(f, i)) /\ Lo(WordAt(f, i)) = f[i] /\ Hi(WordAt(f, i)) = f[i + 1]
         /\ f[i] \in Octet /\ f[i + 1] \in Octet
<1>1. i \in Bytes(f) /\ i + 1 \in Bytes(f)
  BY DEF IsFile, Bytes, Words
<1>2. f[i] \in Octet /\ f[i + 1] \in Octet
  BY <1>1, ByteAt
<1>3. WordAt(f, i) = f[i] + 256 * f[i + 1]
  BY DEF WordAt
<1> QED BY ONLY <1>2, <1>3, OfLoHi

\* Bits of the high byte of a word.
Upper(x) == {k + 8 : k \in x}

\* The bits a word differs by are those its bytes differ by.
LEMMA Xor16Is ==
  ASSUME NEW f, IsFile(f), NEW i \in Words(f), NEW w, IsWord(w)
  PROVE  Xor16(WordAt(f, i), w)
           = Xor8(f[i], Lo(w)) \cup Upper(Xor8(f[i + 1], Hi(w)))
<1>1. Lo(WordAt(f, i)) = f[i] /\ Hi(WordAt(f, i)) = f[i + 1]
  BY WordAtIs
<1>2. Xor16(WordAt(f, i), w) = Xor8(Lo(WordAt(f, i)), Lo(w))
                                 \cup Upper(Xor8(Hi(WordAt(f, i)), Hi(w)))
  BY DEF Xor16, U8, Lo, Hi, Upper
<1> QED BY ONLY <1>1, <1>2

\* The bits of the file by which a byte differs.
LEMMA ByteDiffers ==
  ASSUME NEW f, IsFile(f), NEW i \in Bytes(f), NEW v \in Octet, NEW c \in FileBits(f)
  PROVE  FileBit(PutByte(f, i, v), c) # FileBit(f, c)
           <=> c \div 8 + 1 = i /\ 7 - (c % 8) \in Xor8(f[i], v)
<1>1. c \div 8 + 1 \in Bytes(f) /\ 7 - (c % 8) \in 0 .. 7
  BY Place
<1>2. /\ PutByte(f, i, v)[i] = v
      /\ c \div 8 + 1 # i => PutByte(f, i, v)[c \div 8 + 1] = f[c \div 8 + 1]
  BY <1>1, PutByteDoes
<1> DEFINE j == c \div 8 + 1  k == 7 - (c % 8)
<1>3. j \in Bytes(f) /\ k \in 0 .. 7 /\ (j # i => PutByte(f, i, v)[j] = f[j])
  BY <1>1, <1>2
<1>4. /\ FileBit(PutByte(f, i, v), c) = Bit(PutByte(f, i, v)[j], k)
      /\ FileBit(f, c) = Bit(f[j], k)
  BY DEF FileBit
<1> HIDE DEF j, k
<1>5. k \in Xor8(f[i], v) <=> Bit(f[i], k) # Bit(v, k)
  BY <1>3 DEF Xor8
<1>6. FileBit(PutByte(f, i, v), c) # FileBit(f, c) <=> j = i /\ k \in Xor8(f[i], v)
  <2>1. CASE j = i
    BY <1>2, <1>4, <1>5, <2>1
  <2>2. CASE j # i
    BY <1>3, <1>4, <2>2
  <2> QED BY <2>1, <2>2
<1> QED BY <1>6 DEF j, k

\* Neighbours in a byte are neighbours in the file.
LEMMA ByteRun ==
  ASSUME NEW f, IsFile(f), NEW i \in Bytes(f), NEW v \in Octet,
         NEW sh \in Nat, NEW n \in Nat \ {0}, sh + n <= 8, Xor8(f[i], v) = sh .. sh + n - 1
  PROVE  LET b == 8 * (i - 1) + 8 - (sh + n)
         IN /\ b \in Nat /\ b + n - 1 \in FileBits(f)
            /\ \A c \in FileBits(f) :
                 FileBit(PutByte(f, i, v), c) # FileBit(f, c) <=> c \in b .. b + n - 1
<1> DEFINE b == 8 * (i - 1) + 8 - (sh + n)
<1>1. i \in Nat \ {0} /\ i <= Len(f) /\ Len(f) \in Nat
  BY ByteAt
<1>2. b \in Nat /\ b + n - 1 \in FileBits(f)
  BY <1>1 DEF FileBits
<1>3. ASSUME NEW c \in FileBits(f)
      PROVE  FileBit(PutByte(f, i, v), c) # FileBit(f, c) <=> c \in b .. b + n - 1
  <2>1. c \in Int /\ c \div 8 \in Int /\ c % 8 \in 0 .. 7 /\ c = 8 * (c \div 8) + (c % 8)
    BY DEF FileBits
  <2>2. c \div 8 + 1 = i /\ 7 - (c % 8) \in sh .. sh + n - 1 <=> c \in b .. b + n - 1
    <3> DEFINE d == c \div 8  e == c % 8
    <3>1. d \in Int /\ e \in 0 .. 7 /\ c = 8 * d + e /\ c \in Int
      BY <2>1
    <3> HIDE DEF d, e
    <3>2. d + 1 = i /\ 7 - e \in sh .. sh + n - 1 => c \in b .. b + n - 1
      BY <1>1, <3>1
    <3>3. c \in b .. b + n - 1 => d + 1 = i
      BY <1>1, <3>1
    <3>4. c \in b .. b + n - 1 => 7 - e \in sh .. sh + n - 1
      BY <1>1, <3>1, <3>3
    <3> QED BY <3>2, <3>3, <3>4 DEF d, e
  <2>3. FileBit(PutByte(f, i, v), c) # FileBit(f, c)
          <=> c \div 8 + 1 = i /\ 7 - (c % 8) \in Xor8(f[i], v)
    BY ByteDiffers
  <2> QED BY <2>2, <2>3, Zenon
<1> QED BY <1>2, <1>3

-----------------------------------------------------------------------------
(* What the walking stages have tried                                      *)

\* Bitflip 1/1 has run on f: what it makes of f is in T.
Flip1Run(f, T) == \A b \in 0 .. (8 * Len(f) - 1) : FLIP_BIT(f, b) \in T
\* So has bitflip 2/1.
Flip2Run(f, T) == \A b \in 0 .. (8 * Len(f) - 2) : Flip2Bits(f, b) \in T
\* So has bitflip 4/1.
Flip4Run(f, T) == \A b \in 0 .. (8 * Len(f) - 4) : Flip4Bits(f, b) \in T
\* So has bitflip 8/8.
Flip8Run(f, T) == \A i \in Bytes(f) : PutByte(f, i, 255 - f[i]) \in T
\* So has bitflip 16/8.
Flip16Run(f, T) == \A i \in Words(f) : PutWord(f, i, Wide - 1 - WordAt(f, i)) \in T

\* All walking stages have run.
FlipsRun(f, T) == /\ Flip1Run(f, T) /\ Flip2Run(f, T) /\ Flip4Run(f, T)
                  /\ Flip8Run(f, T) /\ Flip16Run(f, T)

\* A run within a range starts and ends in it.
LEMMA RunFits ==
  ASSUME NEW sh \in Nat, NEW n \in Nat \ {0}, NEW lo \in Nat, NEW hi \in Nat,
         sh .. sh + n - 1 \subseteq lo .. hi
  PROVE  lo <= sh /\ sh + n <= hi + 1
<1>1. sh \in sh .. sh + n - 1 /\ sh + n - 1 \in sh .. sh + n - 1
  OBVIOUS
<1> QED BY <1>1

\* The patterns could_be_bitflip looks for.
RunOf(x, sh, n) ==
  /\ x = sh .. sh + n - 1 /\ sh <= 15
  /\ n = 1 \/ n = 2 \/ n = 4 \/ ((sh = 0 \/ sh = 8) /\ (n = 8 \/ n = 16))

\* They are all it knows, with the empty one.
LEMMA Bitflips ==
  ASSUME NEW x
  PROVE  CouldBeBitflip(x) <=> x = {} \/ \E sh \in Nat, n \in Nat : RunOf(x, sh, n)
<1>1. ASSUME \E sh \in 0..15, n \in {1, 2, 4} : x = sh..(sh + n - 1)
      PROVE  \E sh \in Nat, n \in Nat : RunOf(x, sh, n)
  <2>1. PICK sh \in 0..15, n \in {1, 2, 4} : x = sh..(sh + n - 1)
    BY <1>1, Zenon
  <2>2. sh \in Nat /\ n \in Nat /\ sh <= 15 /\ (n = 1 \/ n = 2 \/ n = 4)
    OBVIOUS
  <2>3. RunOf(x, sh, n)
    BY <2>1, <2>2 DEF RunOf
  <2> QED BY <2>2, <2>3
<1>2. ASSUME \E sh \in {0, 8}, n \in {8, 16} : x = sh..(sh + n - 1)
      PROVE  \E sh \in Nat, n \in Nat : RunOf(x, sh, n)
  <2>1. PICK sh \in {0, 8}, n \in {8, 16} : x = sh..(sh + n - 1)
    BY <1>2, Zenon
  <2>2. sh \in Nat /\ n \in Nat /\ sh <= 15 /\ (sh = 0 \/ sh = 8) /\ (n = 8 \/ n = 16)
    OBVIOUS
  <2>3. RunOf(x, sh, n)
    BY <2>1, <2>2 DEF RunOf
  <2> QED BY <2>2, <2>3
<1>3. ASSUME NEW sh \in Nat, NEW n \in Nat, RunOf(x, sh, n)
      PROVE  \/ \E t \in 0..15, m \in {1, 2, 4} : x = t..(t + m - 1)
             \/ \E t \in {0, 8}, m \in {8, 16} : x = t..(t + m - 1)
  <2>1. x = sh..(sh + n - 1) /\ sh \in 0..15
    BY <1>3 DEF RunOf
  <2>2. n \in {1, 2, 4} \/ (sh \in {0, 8} /\ n \in {8, 16})
    BY <1>3 DEF RunOf
  <2> QED BY <2>1, <2>2, Zenon
<1> QED BY <1>1, <1>2, <1>3, Zenon DEF CouldBeBitflip

\* A byte whose pattern could_be_bitflip knows has been tried by a walking stage.
LEMMA ByteFlips ==
  ASSUME NEW f, IsFile(f), NEW T, FlipsRun(f, T), NEW i \in Bytes(f), NEW v \in Octet,
         v # f[i], CouldBeBitflip(Xor8(f[i], v))
  PROVE  PutByte(f, i, v) \in T
<1> DEFINE x == Xor8(f[i], v)  g == PutByte(f, i, v)
<1>1. f[i] \in Octet /\ x # {} /\ x \subseteq 0 .. 7
  BY ByteAt, Xor8Facts
<1>2. IsFile(g) /\ Len(g) = Len(f)
  BY PutByteDoes
<1>3. PICK sh \in Nat, n \in {1, 2, 4, 8} : x = sh .. sh + n - 1 /\ sh + n <= 8
  <2> HIDE DEF x
  <2>1. PICK sh \in Nat, n \in Nat : RunOf(x, sh, n)
    BY <1>1, Bitflips DEF x
  <2>2. sh + n <= 8
    <3>1. sh .. sh + n - 1 \subseteq 0 .. 7 /\ n \in Nat \ {0}
      BY <1>1, <2>1 DEF RunOf
    <3>2. 0 <= sh /\ sh + n <= 7 + 1
      BY <3>1, RunFits
    <3> QED BY <3>2
  <2>3. n # 16
    BY <2>1, <2>2
  <2> QED BY <2>1, <2>2, <2>3 DEF RunOf
<1> DEFINE b == 8 * (i - 1) + 8 - (sh + n)
<1>4. /\ b \in Nat /\ b + n - 1 \in FileBits(f)
      /\ \A c \in FileBits(f) : FileBit(g, c) # FileBit(f, c) <=> c \in b .. b + n - 1
  <2>1. n \in Nat \ {0} /\ sh + n <= 8 /\ Xor8(f[i], v) = sh .. sh + n - 1
    BY <1>3
  <2> QED BY ONLY IsFile(f), i \in Bytes(f), v \in Octet, sh \in Nat, <2>1, ByteRun
<1> HIDE DEF g, b
<1>5. ASSUME NEW h, IsFile(h), Len(h) = Len(f),
             \A c \in FileBits(f) : FileBit(h, c) # FileBit(f, c) <=> c \in b .. b + n - 1
      PROVE  g = h
  <2>1. b .. b + n - 1 \in SUBSET FileBits(f)
    BY <1>3, <1>4 DEF FileBits
  <2>2. Flipped(f, g) = b .. b + n - 1
    BY ONLY IsFile(f), <1>2, <1>4, <2>1, FlippedIs
  <2>3. Flipped(f, h) = b .. b + n - 1
    BY ONLY IsFile(f), <1>5, <2>1, FlippedIs
  <2> QED BY <1>2, <1>5, <2>2, <2>3, SameFlips
<1>6. CASE n = 1
  <2>1. b \in FileBits(f) /\ \A c : c \in b .. b + n - 1 <=> c = b
    BY <1>4, <1>6 DEF FileBits
  <2>2. g = FLIP_BIT(f, b)
    BY <1>5, <2>1, Flip1Does
  <2> QED BY <2>1, <2>2 DEF FlipsRun, Flip1Run, FileBits, g
<1>7. CASE n = 2
  <2>1. b + 1 \in FileBits(f) /\ b + n - 1 = b + 1
    BY <1>4, <1>7 DEF FileBits
  <2>2. g = Flip2Bits(f, b)
    BY <1>4, <1>5, <2>1, Flip2Does
  <2>3. b \in 0 .. (8 * Len(f) - 2)
    BY <1>4, <2>1 DEF FileBits, IsFile
  <2> QED BY <2>2, <2>3 DEF FlipsRun, Flip2Run, g
<1>8. CASE n = 4
  <2>1. b + 3 \in FileBits(f) /\ b + n - 1 = b + 3
    BY <1>4, <1>8 DEF FileBits
  <2>2. g = Flip4Bits(f, b)
    BY <1>4, <1>5, <2>1, Flip4Does
  <2>3. b \in 0 .. (8 * Len(f) - 4)
    BY <1>4, <2>1 DEF FileBits, IsFile
  <2> QED BY <2>2, <2>3 DEF FlipsRun, Flip4Run, g
<1>9. CASE n = 8
  <2>1. x = 0 .. 7
    BY <1>3, <1>9
  <2>2. v = 255 - f[i]
    BY ONLY <1>1, <2>1, v \in Octet, Xor8Facts
  <2> QED BY <2>2 DEF FlipsRun, Flip8Run, g
<1> QED BY <1>3, <1>6, <1>7, <1>8, <1>9

\* A run of bits of a word: in its low byte, in its high byte, or all of it.
InHalves(xl, xh, sh, n) ==
  /\ sh + n <= 16
  /\ sh >= 8 => xl = {} /\ xh = sh - 8 .. (sh - 8) + n - 1
  /\ sh + n <= 8 => xh = {} /\ xl = sh .. sh + n - 1
  /\ sh = 0 /\ n = 16 => xl = 0 .. 7 /\ xh = 0 .. 7

\* A run that is not across the seam is one of these.
LEMMA Halves ==
  ASSUME NEW xl \in SUBSET (0 .. 7), NEW xh \in SUBSET (0 .. 7), NEW sh \in Nat,
         NEW n \in Nat \ {0},
         xl \cup Upper(xh) = sh .. sh + n - 1
  PROVE  InHalves(xl, xh, sh, n)
<1> DEFINE x == xl \cup Upper(xh)
<1>1. x = sh .. sh + n - 1
  OBVIOUS
<1>2. \A k \in 0 .. 7 : k \in xl <=> k \in x
  BY DEF Upper
<1>3. \A k \in 0 .. 7 : k \in xh <=> k + 8 \in x
  BY DEF Upper
<1>4. \A k \in x : k \in 0 .. 15
  BY DEF Upper
<1> HIDE DEF x
<1>5. sh + n <= 16
  <2>1. sh + n - 1 \in x
    BY <1>1
  <2> QED BY <1>4, <2>1
<1>6. ASSUME sh >= 8 PROVE xl = {} /\ xh = sh - 8 .. (sh - 8) + n - 1
  <2>1. \A k \in 0 .. 7 : k \notin x
    BY <1>1, <1>6
  <2>2. ASSUME NEW k \in Int PROVE k \in xh <=> k \in sh - 8 .. (sh - 8) + n - 1
    <3>1. k + 8 \in x <=> k \in sh - 8 .. (sh - 8) + n - 1
      BY <1>1
    <3>2. k + 8 \in x => k \in 0 .. 7
      BY <1>5, <1>6, <3>1
    <3> QED BY <1>3, <3>1, <3>2
  <2>3. xl = {}
    BY <1>2, <2>1
  <2>4. \A k : k \in xh => k \in Int
    OBVIOUS
  <2>5. \A k : k \in sh - 8 .. (sh - 8) + n - 1 => k \in Int
    OBVIOUS
  <2> QED BY <2>2, <2>3, <2>4, <2>5
<1>7. ASSUME sh + n <= 8 PROVE xh = {} /\ xl = sh .. sh + n - 1
  <2>1. \A k \in 0 .. 7 : k + 8 \notin x
    BY <1>1, <1>7
  <2>2. \A k \in x : k \in 0 .. 7
    BY <1>1, <1>7
  <2>3. xh = {}
    BY <1>3, <2>1
  <2>4. xl = x
    BY <1>2, <2>2
  <2> QED BY <1>1, <2>3, <2>4
<1>8. ASSUME sh = 0, n = 16 PROVE xl = 0 .. 7 /\ xh = 0 .. 7
  <2>1. \A k \in 0 .. 7 : k \in x /\ k + 8 \in x
    BY <1>1, <1>8
  <2> QED BY <1>2, <1>3, <2>1
<1> QED BY <1>5, <1>6, <1>7, <1>8 DEF InHalves

\* A run across the seam of a word is an exception of ValuesCovered.
LEMMA AcrossIf ==
  ASSUME NEW f, NEW g, NEW i \in Words(f), \A k \in Bytes(f) \ {i, i + 1} : g[k] = f[k],
         NEW x, x = Xor16(WordAt(f, i), WordAt(g, i)),
         NEW sh \in 5..7, NEW n \in {2, 4}, sh + n > 8, x = sh..(sh + n - 1)
  PROVE  AcrossWordSeam(f, g)
<1>1. sh + n > 8 /\ Xor16(WordAt(f, i), WordAt(g, i)) = sh..(sh + n - 1)
  OBVIOUS
<1>2. \E t \in 5..7, m \in {2, 4} :
        t + m > 8 /\ Xor16(WordAt(f, i), WordAt(g, i)) = t..(t + m - 1)
  <2> WITNESS sh \in 5..7, n \in {2, 4}
  <2> QED BY <1>1
<1>3. /\ \A k \in Bytes(f) \ {i, i + 1} : g[k] = f[k]
      /\ \E t \in 5..7, m \in {2, 4} :
           t + m > 8 /\ Xor16(WordAt(f, i), WordAt(g, i)) = t..(t + m - 1)
  BY <1>2
<1>4. \E j \in Words(f) :
        /\ \A k \in Bytes(f) \ {j, j + 1} : g[k] = f[k]
        /\ \E t \in 5..7, m \in {2, 4} :
             t + m > 8 /\ Xor16(WordAt(f, j), WordAt(g, j)) = t..(t + m - 1)
  <2> WITNESS i \in Words(f)
  <2> QED BY <1>3
<1> QED BY <1>4 DEF AcrossWordSeam

\* A word whose pattern could_be_bitflip knows has been tried by a walking stage,
\* unless the pattern is across the seam.
LEMMA WordFlips ==
  ASSUME NEW f, IsFile(f), NEW T, FlipsRun(f, T), NEW i \in Words(f), NEW w, IsWord(w),
         PutWord(f, i, w) # f, CouldBeBitflip(Xor16(WordAt(f, i), w))
  PROVE  PutWord(f, i, w) \in T \/ AcrossWordSeam(f, PutWord(f, i, w))
<1> DEFINE xl == Xor8(f[i], Lo(w))  xh == Xor8(f[i + 1], Hi(w))  x == Xor16(WordAt(f, i), w)
           g == PutWord(f, i, w)
<1>1. /\ i \in Bytes(f) /\ i + 1 \in Bytes(f) /\ i # i + 1
      /\ f[i] \in Octet /\ f[i + 1] \in Octet
      /\ IsFile(g) /\ Len(g) = Len(f) /\ g[i] = Lo(w) /\ g[i + 1] = Hi(w)
      /\ \A j \in Bytes(f) \ {i, i + 1} : g[j] = f[j]
      /\ Hi(w) = f[i + 1] => g = PutByte(f, i, Lo(w))
      /\ Lo(w) = f[i] => g = PutByte(f, i + 1, Hi(w))
  BY PutWordDoes
<1>2. Lo(w) \in Octet /\ Hi(w) \in Octet /\ w = Lo(w) + 256 * Hi(w)
  BY LoHi
<1>3. x = xl \cup Upper(xh)
  BY Xor16Is
<1>4. /\ xl \in SUBSET (0 .. 7) /\ (xl = {} <=> f[i] = Lo(w))
      /\ (xl = 0 .. 7 => Lo(w) = 255 - f[i])
      /\ xh \in SUBSET (0 .. 7) /\ (xh = {} <=> f[i + 1] = Hi(w))
      /\ (xh = 0 .. 7 => Hi(w) = 255 - f[i + 1])
  <2>1. /\ Xor8(f[i], Lo(w)) \subseteq 0 .. 7 /\ (Xor8(f[i], Lo(w)) = {} <=> f[i] = Lo(w))
        /\ (Xor8(f[i], Lo(w)) = 0 .. 7 => Lo(w) = 255 - f[i])
    <3>1. f[i] \in Octet
      BY <1>1
    <3> QED BY <1>2, <3>1, Xor8Facts
  <2> DEFINE k == i + 1
  <2>2. f[k] \in Octet
    BY <1>1
  <2> HIDE DEF k
  <2>3. /\ Xor8(f[k], Hi(w)) \subseteq 0 .. 7 /\ (Xor8(f[k], Hi(w)) = {} <=> f[k] = Hi(w))
        /\ (Xor8(f[k], Hi(w)) = 0 .. 7 => Hi(w) = 255 - f[k])
    BY <1>2, <2>2, Xor8Facts
  <2> QED BY <2>1, <2>3 DEF k
<1>5. ASSUME xh = {}, CouldBeBitflip(xl) PROVE g \in T
  <2>1. g = PutByte(f, i, Lo(w)) /\ Lo(w) # f[i]
    <3>1. g = PutByte(f, i, Lo(w)) /\ f[i + 1] = Hi(w)
      BY <1>1, <1>4, <1>5
    <3>2. Lo(w) = f[i] => \A j \in Bytes(f) : g[j] = f[j]
      BY <1>1, <3>1
    <3>3. Lo(w) = f[i] => g = f
      BY <1>1, <3>2, SameFile
    <3> QED BY <3>1, <3>3
  <2> HIDE DEF g
  <2> QED BY <1>1, <1>2, <1>5, <2>1, ByteFlips
<1>6. ASSUME xl = {}, CouldBeBitflip(xh) PROVE g \in T
  <2> DEFINE k == i + 1
  <2>1. g = PutByte(f, k, Hi(w)) /\ Hi(w) # f[k]
    <3>1. g = PutByte(f, k, Hi(w)) /\ f[i] = Lo(w)
      BY <1>1, <1>4, <1>6
    <3>2. Hi(w) = f[k] => \A j \in Bytes(f) : g[j] = f[j]
      BY <1>1, <3>1
    <3>3. Hi(w) = f[k] => g = f
      BY <1>1, <3>2, SameFile
    <3> QED BY <3>1, <3>3
  <2>2. k \in Bytes(f) /\ CouldBeBitflip(Xor8(f[k], Hi(w)))
    BY <1>1, <1>6
  <2> HIDE DEF g, k
  <2> QED BY <1>2, <2>1, <2>2, ByteFlips
<1>7. WordAt(g, i) = w
  BY <1>1, <1>2 DEF WordAt
<1>8. CASE x = {}
  <2>1. xl = {} /\ xh = {}
    <3> HIDE DEF x, xl, xh
    <3> QED BY <1>3, <1>8 DEF Upper
  <2>2. \A j \in Bytes(f) : g[j] = f[j]
    BY <1>1, <1>4, <2>1
  <2> QED BY <1>1, <2>2, SameFile
<1>9. CASE \E sh \in Nat, n \in Nat : RunOf(x, sh, n)
  <2> HIDE DEF x
  <2>1. PICK sh \in Nat, n \in Nat : RunOf(x, sh, n)
    BY <1>9
  <2>2. /\ sh + n <= 16
        /\ sh >= 8 => xl = {} /\ xh = sh - 8 .. (sh - 8) + n - 1
        /\ sh + n <= 8 => xh = {} /\ xl = sh .. sh + n - 1
        /\ sh = 0 /\ n = 16 => xl = 0 .. 7 /\ xh = 0 .. 7
    <3> HIDE DEF xl, xh
    <3>1. n \in Nat \ {0} /\ xl \cup Upper(xh) = sh .. sh + n - 1
      BY <1>3, <2>1 DEF RunOf
    <3>2. xl \in SUBSET (0 .. 7) /\ xh \in SUBSET (0 .. 7)
      BY <1>4
    <3>3. InHalves(xl, xh, sh, n)
      BY <3>1, <3>2, Halves
    <3> QED BY <3>3 DEF InHalves
  <2> HIDE DEF xl, xh, g
  <2>3. CASE sh >= 8
    <3>1. RunOf(xh, sh - 8, n) /\ sh - 8 \in Nat
      BY <2>1, <2>2, <2>3 DEF RunOf
    <3>2. CouldBeBitflip(xh)
      BY <2>1, <3>1, Bitflips
    <3> QED BY <1>6, <2>2, <2>3, <3>2 DEF g
  <2>4. CASE sh + n <= 8
    <3>1. RunOf(xl, sh, n)
      BY <2>1, <2>2, <2>4 DEF RunOf
    <3>2. CouldBeBitflip(xl)
      BY <2>1, <3>1, Bitflips
    <3> QED BY <1>5, <2>2, <2>4, <3>2 DEF g
  <2>5. CASE sh < 8 /\ sh + n > 8 /\ n # 16
    <3>1. sh \in 5..7 /\ n \in {2, 4} /\ x = sh..(sh + n - 1)
      BY <2>1, <2>5 DEF RunOf
    <3>2. x = Xor16(WordAt(f, i), WordAt(g, i))
      BY <1>7 DEF x
    <3>3. \A k \in Bytes(f) \ {i, i + 1} : g[k] = f[k]
      BY <1>1
    <3>4. AcrossWordSeam(f, g)
      BY <2>5, <3>1, <3>2, <3>3, AcrossIf
    <3> QED BY <3>4 DEF g
  <2>6. CASE n = 16
    <3>1. sh = 0
      BY <2>1, <2>2, <2>6 DEF RunOf
    <3>2. Lo(w) = 255 - f[i] /\ Hi(w) = 255 - f[i + 1]
      BY <1>4, <2>2, <2>6, <3>1
    <3>3. f[i] \in Nat /\ f[i + 1] \in Nat /\ Lo(w) \in Nat /\ Hi(w) \in Nat
      BY <1>1, <1>2, IsOctet
    <3>4. WordAt(f, i) = f[i] + 256 * f[i + 1]
      BY DEF WordAt
    <3>5. w = Wide - 1 - WordAt(f, i)
      BY ONLY <1>2, <3>2, <3>3, <3>4 DEF Wide
    <3> QED BY <3>5 DEF FlipsRun, Flip16Run, g
  <2> QED BY <2>3, <2>4, <2>5, <2>6
<1> QED BY <1>8, <1>9, Bitflips

-----------------------------------------------------------------------------
(* Sums and differences                                                    *)

\* A number modulo 256.
LEMMA Mod256 ==
  ASSUME NEW z \in Int
  PROVE  \E q \in Int : z = 256 * q + (z % 256) /\ z % 256 \in Nat /\ z % 256 <= 255
OBVIOUS

\* A number modulo 65536.
LEMMA ModWide ==
  ASSUME NEW z \in Int
  PROVE  \E q \in Int : z = Wide * q + (z % Wide) /\ IsWord(z % Wide)
BY SMT DEF Wide, IsWord

\* u8 is the one byte a number is congruent to.
LEMMA U8Is ==
  ASSUME NEW z \in Int
  PROVE  /\ U8(z) \in Octet /\ U8(z) \in Nat /\ U8(z) <= 255
         /\ \E q \in Int : z = 256 * q + U8(z)
         /\ \A r \in Octet, q \in Int : z = 256 * q + r => U8(z) = r
<1>1. PICK q \in Int : z = 256 * q + U8(z) /\ U8(z) \in Nat /\ U8(z) <= 255
  BY Mod256 DEF U8
<1>2. ASSUME NEW r \in Octet, NEW p \in Int, z = 256 * p + r PROVE U8(z) = r
  BY <1>1, <1>2, IsOctet
<1> QED BY <1>1, <1>2, IsOctet

\* u16 is a word a number is congruent to.
LEMMA U16Is ==
  ASSUME NEW z \in Int
  PROVE  \E q \in Int : z = Wide * q + U16(z) /\ IsWord(U16(z))
<1>1. U16(z) = z % Wide
  BY WideIs, SMT DEF U16
<1> QED BY <1>1, ModWide

\* u8 of a byte.
LEMMA U8Same ==
  ASSUME NEW z \in Octet
  PROVE  U8(z) = z
<1>1. z \in Int /\ z \in Nat /\ z <= 255
  BY IsOctet
<1>2. PICK q \in Int : z = 256 * q + U8(z) /\ U8(z) \in Nat /\ U8(z) <= 255
  BY <1>1, U8Is
<1> QED BY <1>1, <1>2

\* u16 of a word.
LEMMA U16Same ==
  ASSUME NEW z, IsWord(z)
  PROVE  U16(z) = z
<1>1. z \in Int
  BY DEF IsWord
<1>2. PICK q \in Int : z = Wide * q + U16(z) /\ IsWord(U16(z))
  BY <1>1, U16Is
<1> QED BY <1>1, <1>2 DEF IsWord, Wide

\* SWAP16 exchanges the bytes, and twice is nothing.
LEMMA SwapIs ==
  ASSUME NEW w, IsWord(w)
  PROVE  /\ IsWord(SWAP16(w))
         /\ Lo(SWAP16(w)) = Hi(w) /\ Hi(SWAP16(w)) = Lo(w)
         /\ SWAP16(SWAP16(w)) = w
<1>1. Lo(w) \in Octet /\ Hi(w) \in Octet /\ w = Lo(w) + 256 * Hi(w)
  BY LoHi
<1>2. \A u : SWAP16(u) = Lo(u) * 256 + Hi(u)
  BY DEF SWAP16, Lo, Hi
<1> DEFINE x == Lo(w)  y == Hi(w)  u == SWAP16(w)
<1>3. u = y + 256 * x /\ x \in Octet /\ y \in Octet /\ w = x + 256 * y
  BY <1>1, <1>2, IsOctet
<1> HIDE DEF x, y, u
<1>4. IsWord(u) /\ Lo(u) = y /\ Hi(u) = x
  BY <1>3, OfLoHi
<1>5. SWAP16(u) = w
  BY <1>2, <1>3, <1>4, IsOctet
<1> QED BY <1>4, <1>5 DEF x, y, u

\* What is added and subtracted.
LEMMA IsDelta == \A j : j \in Deltas <=> j \in Int /\ j # 0 /\ -35 <= j /\ j <= 35
<1>1. PICK n \in Nat : n = 35
  OBVIOUS
<1>2. Steps = 1 .. n
  BY <1>1, Zenon DEF Steps, ARITH_MAX
<1>3. \A j : j \in Steps <=> j \in Int /\ 1 <= j /\ j <= 35
  BY <1>1, <1>2
<1>4. ASSUME NEW j PROVE j \in Deltas <=> j \in Steps \/ \E k \in Steps : j = -k
  BY DEF Deltas
<1>5. ASSUME NEW j PROVE (\E k \in Steps : j = -k) <=> j \in Int /\ -35 <= j /\ j <= -1
  <2>1. ASSUME NEW k \in Steps, j = -k PROVE j \in Int /\ -35 <= j /\ j <= -1
    BY <1>3, <2>1
  <2>2. ASSUME j \in Int, -35 <= j, j <= -1 PROVE \E k \in Steps : j = -k
    <3>1. -j \in Steps /\ j = -(-j)
      BY <1>3, <2>2
    <3> QED BY <3>1
  <2> QED BY <2>1, <2>2
<1> QED BY <1>3, <1>4, <1>5

\* The interesting values are integers.
LEMMA Interesting == INTERESTING_8 \subseteq Int /\ interesting_16 \subseteq Int
BY DEF INTERESTING_8, interesting_16

\* What could_be_arith takes for near a byte is a sum or a difference.
LEMMA NearByte ==
  ASSUME NEW a \in Octet, NEW b \in Octet, a # b, Near(a, b, 256)
  PROVE  \E j \in Deltas : b = U8(a + j)
<1>1. a \in Int /\ b \in Int
  BY IsOctet
<1>2. U8(a - b) <= 35 \/ U8(b - a) <= 35
  BY DEF Near, U8, ARITH_MAX
<1>3. CASE U8(a - b) <= 35
  <2> DEFINE z == a - b  d == U8(z)  e == -d  t == a + e
  <2>1. z \in Int /\ z = a - b /\ d <= 35
    BY <1>1, <1>3
  <2> HIDE DEF z
  <2>2. PICK q \in Int : z = 256 * q + d /\ d \in Nat
    BY <2>1, U8Is
  <2> HIDE DEF d
  <2>3. d # 0
    BY <1>1, <2>1, <2>2, IsOctet
  <2>4. e \in Deltas
    BY <2>1, <2>2, <2>3, IsDelta
  <2>5. t = 256 * q + b /\ t \in Int /\ q \in Int
    BY <1>1, <2>1, <2>2
  <2> HIDE DEF t
  <2>6. U8(t) = b
    BY <2>5, U8Is
  <2> QED BY <2>4, <2>6 DEF t
<1>4. CASE U8(b - a) <= 35
  <2> DEFINE z == b - a  d == U8(z)  e == d  t == a + e
  <2>1. z \in Int /\ z = b - a /\ d <= 35
    BY <1>1, <1>4
  <2> HIDE DEF z
  <2>2. PICK q \in Int : z = 256 * q + d /\ d \in Nat
    BY <2>1, U8Is
  <2> HIDE DEF d
  <2>3. d # 0
    BY <1>1, <2>1, <2>2, IsOctet
  <2>4. e \in Deltas
    BY <2>1, <2>2, <2>3, IsDelta
  <2> DEFINE p == -q
  <2>5. t = 256 * p + b /\ t \in Int /\ p \in Int
    BY <1>1, <2>1, <2>2
  <2> HIDE DEF t, p
  <2>6. U8(t) = b
    BY <2>5, U8Is
  <2> QED BY <2>4, <2>6 DEF t
<1> QED BY <1>2, <1>3, <1>4

\* The same of a word.
LEMMA NearWord ==
  ASSUME NEW a, NEW b, IsWord(a), IsWord(b), a # b, Near(a, b, Wide)
  PROVE  \E j \in Deltas : b = U16(a + j)
<1>1. a \in Nat /\ b \in Nat /\ a < Wide /\ b < Wide
  BY DEF IsWord
<1>2. U16(a - b) <= 35 \/ U16(b - a) <= 35
  BY WideIs, SMT DEF Near, U16, ARITH_MAX
<1>3. CASE U16(a - b) <= 35
  <2> DEFINE z == a - b  d == U16(z)  e == -d  t == a + e
  <2>1. z \in Int /\ z = a - b /\ d <= 35
    BY <1>1, <1>3
  <2> HIDE DEF z
  <2>2. PICK q \in Int : z = Wide * q + d /\ d \in Nat
    BY <2>1, U16Is DEF IsWord
  <2> HIDE DEF d
  <2>3. d # 0
    BY <1>1, <2>1, <2>2 DEF Wide
  <2>4. e \in Deltas
    BY <2>1, <2>2, <2>3, IsDelta
  <2>5. t = Wide * (q) + b /\ t \in Int /\ q \in Int
    BY <1>1, <2>1, <2>2 DEF Wide
  <2> HIDE DEF t
  <2>6. PICK p \in Int : t = Wide * p + U16(t) /\ U16(t) \in Nat /\ U16(t) < Wide
    BY <2>5, U16Is DEF IsWord
  <2>7. U16(t) = b
    BY <1>1, <2>5, <2>6 DEF Wide
  <2> QED BY <2>4, <2>7 DEF t
<1>4. CASE U16(b - a) <= 35
  <2> DEFINE z == b - a  d == U16(z)  e == d  t == a + e
  <2>1. z \in Int /\ z = b - a /\ d <= 35
    BY <1>1, <1>4
  <2> HIDE DEF z
  <2>2. PICK q \in Int : z = Wide * q + d /\ d \in Nat
    BY <2>1, U16Is DEF IsWord
  <2> HIDE DEF d
  <2>3. d # 0
    BY <1>1, <2>1, <2>2 DEF Wide
  <2>4. e \in Deltas
    BY <2>1, <2>2, <2>3, IsDelta
  <2>5. t = Wide * (-q) + b /\ t \in Int /\ -q \in Int
    BY <1>1, <2>1, <2>2 DEF Wide
  <2> HIDE DEF t
  <2>6. PICK p \in Int : t = Wide * p + U16(t) /\ U16(t) \in Nat /\ U16(t) < Wide
    BY <2>5, U16Is DEF IsWord
  <2>7. U16(t) = b
    BY <1>1, <2>5, <2>6 DEF Wide
  <2> QED BY <2>4, <2>7 DEF t
<1> QED BY <1>2, <1>3, <1>4

\* A sum that does not carry changes one byte only: that is why arith 16/8 leaves it
\* out.
LEMMA SumWithin ==
  ASSUME NEW w, IsWord(w), NEW j \in Deltas, ~CarriesOver(Lo(w), j)
  PROVE  Hi(U16(w + j)) = Hi(w) /\ Lo(U16(w + j)) = U8(Lo(w) + j)
<1> DEFINE x == Lo(w)  y == Hi(w)
<1>1. x \in Octet /\ y \in Octet /\ w = x + 256 * y /\ x \in Nat /\ y \in Nat
  BY LoHi, IsOctet
<1>2. j \in Int
  BY IsDelta
<1>3. ~(x + j > 255) /\ ~(x + j < 0)
  BY DEF CarriesOver
<1> HIDE DEF x, y
<1>4. x + j \in Octet
  <2>1. x + j \in Nat /\ x + j <= 255
    BY <1>1, <1>2, <1>3
  <2> QED BY <2>1, IsOctet
<1> DEFINE z == x + j  u == w + j
<1>5. z \in Octet /\ z \in Int /\ u = z + 256 * y
  BY <1>1, <1>2, <1>4, IsOctet
<1> HIDE DEF z, u
<1>6. U8(z) = z
  BY <1>5, U8Same
<1>7. IsWord(u) /\ Lo(u) = z /\ Hi(u) = y
  BY <1>1, <1>5, OfLoHi
<1>8. U16(u) = u
  BY <1>7, U16Same
<1> QED BY <1>6, <1>7, <1>8 DEF x, y, z, u

-----------------------------------------------------------------------------
(* What the stages over bytes and over sums have tried                     *)

\* Arith 8/8 has run on f: what it lets through is in T.
Arith8Run(f, T) ==
  \A i \in Bytes(f), j \in Deltas :
    ~CouldBeBitflip(Xor8(f[i], U8(f[i] + j))) => PutByte(f, i, U8(f[i] + j)) \in T

\* So has interest 8/8.
Int8Run(f, T) ==
  \A i \in Bytes(f), v \in INTERESTING_8 :
    ~CouldBeBitflip(Xor8(f[i], U8(v))) /\ ~CouldBeArith8(f[i], U8(v))
    => PutByte(f, i, U8(v)) \in T

\* Both stages over bytes have run.
BytesRun(f, T) == Arith8Run(f, T) /\ Int8Run(f, T)

\* So has arith 16/8.
SumsRun(f, T) ==
  \A i \in Words(f), j \in Deltas, s \in BOOLEAN :
    /\ CarriesOver(IF s THEN f[i + 1] ELSE f[i], j)
    /\ ~CouldBeBitflip(Xor16(WordAt(f, i), Sum16(WordAt(f, i), j, s)))
    => PutWord(f, i, Sum16(WordAt(f, i), j, s)) \in T

\* So has interest 16/8.
WordsRun(f, T) ==
  \A i \in Words(f), v \in interesting_16, s \in BOOLEAN :
    /\ s => U16(v) # Stored16(v, s)
    /\ ~CouldBeBitflip(Xor16(WordAt(f, i), Stored16(v, s)))
    /\ ~CouldBeArith16(WordAt(f, i), Stored16(v, s))
    /\ ~CouldBeInterest16(WordAt(f, i), Stored16(v, s), s)
    => PutWord(f, i, Stored16(v, s)) \in T

\* A sum or an interesting value of a byte has been tried, by its stage or by one
\* before.
LEMMA ByteTried ==
  ASSUME NEW f, IsFile(f), NEW T, FlipsRun(f, T), BytesRun(f, T), NEW i \in Bytes(f), NEW b,
         b # f[i], (\E j \in Deltas : b = U8(f[i] + j)) \/ (\E v \in INTERESTING_8 : b = U8(v))
  PROVE  PutByte(f, i, b) \in T
<1>1. f[i] \in Octet /\ f[i] \in Int
  BY ByteAt, IsOctet
<1>2. b \in Octet
  <2>1. CASE \E j \in Deltas : b = U8(f[i] + j)
    <3>1. PICK j \in Deltas : b = U8(f[i] + j)
      BY <2>1
    <3> DEFINE z == f[i] + j
    <3>2. z \in Int /\ b = U8(z)
      BY <1>1, <3>1, IsDelta
    <3> HIDE DEF z
    <3> QED BY <3>2, U8Is
  <2>2. CASE \E v \in INTERESTING_8 : b = U8(v)
    <3>1. PICK v \in Int : b = U8(v)
      BY <2>2, Interesting
    <3> QED BY <3>1, U8Is
  <2> QED BY <2>1, <2>2
<1>3. CASE CouldBeBitflip(Xor8(f[i], b))
  BY <1>2, <1>3, ByteFlips
<1>4. ASSUME ~CouldBeBitflip(Xor8(f[i], b)), \E j \in Deltas : b = U8(f[i] + j)
      PROVE  PutByte(f, i, b) \in T
  BY <1>4 DEF BytesRun, Arith8Run
<1>5. ASSUME ~CouldBeBitflip(Xor8(f[i], b)), \E v \in INTERESTING_8 : b = U8(v)
      PROVE  PutByte(f, i, b) \in T
  <2>1. CASE CouldBeArith8(f[i], b)
    <3>1. Near(f[i], b, 256)
      BY <2>1 DEF CouldBeArith8
    <3>2. \E j \in Deltas : b = U8(f[i] + j)
      BY <1>1, <1>2, <3>1, NearByte
    <3> QED BY <1>4, <1>5, <3>2
  <2>2. CASE ~CouldBeArith8(f[i], b)
    BY <1>5, <2>2 DEF BytesRun, Int8Run
  <2> QED BY <2>1, <2>2
<1> QED BY <1>3, <1>4, <1>5

\* A word that changes one byte in such a way has been tried as a byte.
LEMMA ByteOfWordTried ==
  ASSUME NEW f, IsFile(f), NEW T, FlipsRun(f, T), BytesRun(f, T), NEW i \in Words(f),
         NEW w, IsWord(w), PutWord(f, i, w) # f
  PROVE  /\ Hi(w) = f[i + 1] /\ ((\E j \in Deltas : Lo(w) = U8(f[i] + j))
                                   \/ (\E v \in INTERESTING_8 : Lo(w) = U8(v)))
            => PutWord(f, i, w) \in T
         /\ Lo(w) = f[i] /\ ((\E j \in Deltas : Hi(w) = U8(f[i + 1] + j))
                               \/ (\E v \in INTERESTING_8 : Hi(w) = U8(v)))
            => PutWord(f, i, w) \in T
<1> DEFINE g == PutWord(f, i, w)  k == i + 1
<1>1. /\ i \in Bytes(f) /\ k \in Bytes(f) /\ IsFile(g) /\ Len(g) = Len(f)
      /\ g[i] = Lo(w) /\ g[k] = Hi(w) /\ \A j \in Bytes(f) \ {i, k} : g[j] = f[j]
      /\ Hi(w) = f[k] => g = PutByte(f, i, Lo(w))
      /\ Lo(w) = f[i] => g = PutByte(f, k, Hi(w))
  BY PutWordDoes
<1> HIDE DEF g, k
<1>2. ASSUME Hi(w) = f[k], Lo(w) = f[i] PROVE FALSE
  <2>1. \A j \in Bytes(f) : g[j] = f[j]
    BY <1>1, <1>2
  <2>2. g = f
    BY <1>1, <2>1, SameFile
  <2> QED BY <2>2 DEF g
<1>3. ASSUME Hi(w) = f[k], (\E j \in Deltas : Lo(w) = U8(f[i] + j))
             \/ (\E v \in INTERESTING_8 : Lo(w) = U8(v))
      PROVE  g \in T
  <2>1. Lo(w) # f[i] /\ g = PutByte(f, i, Lo(w))
    BY <1>1, <1>2, <1>3
  <2> QED BY <1>1, <1>3, <2>1, ByteTried
<1>4. ASSUME Lo(w) = f[i], (\E j \in Deltas : Hi(w) = U8(f[k] + j))
             \/ (\E v \in INTERESTING_8 : Hi(w) = U8(v))
      PROVE  g \in T
  <2>1. Hi(w) # f[k] /\ g = PutByte(f, k, Hi(w))
    BY <1>1, <1>2, <1>4
  <2> QED BY <1>1, <1>4, <2>1, ByteTried
<1> QED BY <1>3, <1>4 DEF g, k

\* A sum of a word is a word.
LEMMA Sum16Is ==
  ASSUME NEW w, IsWord(w), NEW j \in Deltas, NEW s \in BOOLEAN
  PROVE  IsWord(Sum16(w, j, s))
<1>1. IsWord(SWAP16(w))
  BY SwapIs
<1> DEFINE y == w + j  z == SWAP16(w) + j
<1>2. y \in Int /\ z \in Int
  BY <1>1, IsDelta DEF IsWord
<1> HIDE DEF y, z
<1>3. IsWord(U16(y)) /\ IsWord(U16(z))
  BY <1>2, U16Is
<1>4. IsWord(SWAP16(U16(z)))
  BY <1>3, SwapIs
<1> QED BY <1>3, <1>4 DEF Sum16, y, z

\* A sum of a word has been tried, by arith 16/8 or by a stage before it.
LEMMA SumTried ==
  ASSUME NEW f, IsFile(f), NEW T, FlipsRun(f, T), BytesRun(f, T), SumsRun(f, T),
         NEW i \in Words(f), NEW j \in Deltas, NEW s \in BOOLEAN,
         NEW w, w = Sum16(WordAt(f, i), j, s), PutWord(f, i, w) # f
  PROVE  PutWord(f, i, w) \in T \/ AcrossWordSeam(f, PutWord(f, i, w))
<1> DEFINE o == WordAt(f, i)
<1>1. IsWord(o) /\ Lo(o) = f[i] /\ Hi(o) = f[i + 1]
  BY WordAtIs
<1>2. IsWord(w)
  BY <1>1, Sum16Is
<1>3. CASE CouldBeBitflip(Xor16(o, w))
  BY <1>2, <1>3, WordFlips
<1>4. ASSUME ~s, ~CarriesOver(f[i], j) PROVE PutWord(f, i, w) \in T
  <2>1. w = U16(o + j)
    BY <1>4 DEF Sum16
  <2> HIDE DEF o
  <2>2. Hi(w) = Hi(o) /\ Lo(w) = U8(Lo(o) + j)
    BY <1>1, <1>4, <2>1, SumWithin
  <2> QED BY <1>1, <1>2, <2>2, ByteOfWordTried
<1>5. ASSUME s, ~CarriesOver(f[i + 1], j) PROVE PutWord(f, i, w) \in T
  <2> DEFINE p == SWAP16(o)  u == U16(p + j)
  <2>1. w = SWAP16(u)
    BY <1>5 DEF Sum16
  <2>2. IsWord(p) /\ Lo(p) = Hi(o) /\ Hi(p) = Lo(o)
    BY <1>1, SwapIs
  <2>3. p + j \in Int
    BY <2>2, IsDelta DEF IsWord
  <2> HIDE DEF o, p
  <2>4. Hi(u) = Hi(p) /\ Lo(u) = U8(Lo(p) + j)
    BY <1>1, <1>5, <2>2, SumWithin
  <2>5. IsWord(u)
    <3> DEFINE z == p + j
    <3>1. z \in Int
      BY <2>3
    <3> HIDE DEF z
    <3>2. IsWord(U16(z))
      BY <3>1, U16Is
    <3> QED BY <3>2 DEF z
  <2> HIDE DEF u
  <2>6. Lo(w) = Hi(u) /\ Hi(w) = Lo(u)
    BY <2>1, <2>5, SwapIs
  <2> QED BY <1>1, <1>2, <2>2, <2>4, <2>6, ByteOfWordTried
<1>6. CASE CarriesOver(IF s THEN f[i + 1] ELSE f[i], j) /\ ~CouldBeBitflip(Xor16(o, w))
  BY <1>6 DEF SumsRun
<1> QED BY <1>3, <1>4, <1>5, <1>6

-----------------------------------------------------------------------------
(* Interesting words, and all there is to try                              *)

\* What has run before interest 16/8.
BeforeWords(f, T) == FlipsRun(f, T) /\ BytesRun(f, T) /\ SumsRun(f, T)
\* All stages have run.
AllRun(f, T) == BeforeWords(f, T) /\ WordsRun(f, T)

\* What is to be shown of a word.
WordDone(f, T, i, w) == PutWord(f, i, w) \in T \/ AcrossWordSeam(f, PutWord(f, i, w))

\* The word that is there changes nothing.
LEMMA PutSame ==
  ASSUME NEW f, IsFile(f), NEW i \in Words(f)
  PROVE  PutWord(f, i, WordAt(f, i)) = f
<1> DEFINE o == WordAt(f, i)  g == PutWord(f, i, o)  k == i + 1
<1>1. IsWord(o) /\ Lo(o) = f[i] /\ Hi(o) = f[k]
  BY WordAtIs
<1> HIDE DEF o
<1>2. /\ i \in Bytes(f) /\ k \in Bytes(f) /\ IsFile(g) /\ Len(g) = Len(f)
      /\ g[i] = Lo(o) /\ g[k] = Hi(o) /\ \A j \in Bytes(f) \ {i, k} : g[j] = f[j]
  BY <1>1, PutWordDoes
<1> HIDE DEF g, k
<1>3. \A j \in Bytes(f) : g[j] = f[j]
  BY <1>1, <1>2
<1>4. g = f
  BY <1>2, <1>3, SameFile
<1> QED BY <1>4 DEF g, o

\* Near, with the number of words by its name.
LEMMA NearWide ==
  ASSUME NEW a, NEW b
  PROVE  Near(a, b, 65536) <=> Near(a, b, Wide)
BY WideIs, SMT

\* The four ways could_be_arith knows a word.
LEMMA Arith16Says ==
  ASSUME NEW o, NEW w, CouldBeArith16(o, w)
  PROVE  \/ Lo(o) = Lo(w) /\ Near(Hi(o), Hi(w), 256)
         \/ Hi(o) = Hi(w) /\ Near(Lo(o), Lo(w), 256)
         \/ Near(o, w, Wide)
         \/ Near(SWAP16(o), SWAP16(w), Wide)
<1>1. /\ U8(o) = Lo(o) /\ U8(w) = Lo(w)
      /\ o \div 256 = Hi(o) /\ w \div 256 = Hi(w)
  BY DEF U8, Lo, Hi
<1> QED BY <1>1, NearWide, SMT DEF CouldBeArith16

\* What could_be_arith knows of a word has been tried.
LEMMA ArithTried ==
  ASSUME NEW f, IsFile(f), NEW T, BeforeWords(f, T), NEW i \in Words(f), NEW w, IsWord(w),
         PutWord(f, i, w) # f, CouldBeArith16(WordAt(f, i), w)
  PROVE  WordDone(f, T, i, w)
<1> DEFINE o == WordAt(f, i)
<1>1. IsWord(o) /\ Lo(o) = f[i] /\ Hi(o) = f[i + 1] /\ o # w
  BY WordAtIs, PutSame
<1>2. CouldBeArith16(o, w)
  OBVIOUS
<1>3. /\ Lo(o) \in Octet /\ Hi(o) \in Octet /\ o = Lo(o) + 256 * Hi(o)
      /\ Lo(w) \in Octet /\ Hi(w) \in Octet /\ w = Lo(w) + 256 * Hi(w)
  BY <1>1, LoHi
<1>4. \/ Lo(o) = Lo(w) /\ Near(Hi(o), Hi(w), 256)
      \/ Hi(o) = Hi(w) /\ Near(Lo(o), Lo(w), 256)
      \/ Near(o, w, Wide)
      \/ Near(SWAP16(o), SWAP16(w), Wide)
  <2> HIDE DEF o
  <2> QED BY <1>2, Arith16Says
<1>5. FlipsRun(f, T) /\ BytesRun(f, T) /\ SumsRun(f, T)
  BY DEF BeforeWords
<1> HIDE DEF o
<1>6. CASE Lo(o) = Lo(w) /\ Near(Hi(o), Hi(w), 256)
  <2>1. Hi(o) # Hi(w)
    BY <1>1, <1>3, <1>6
  <2>2. \E j \in Deltas : Hi(w) = U8(Hi(o) + j)
    BY <1>3, <1>6, <2>1, NearByte
  <2> QED BY <1>1, <1>5, <1>6, <2>2, ByteOfWordTried DEF WordDone
<1>7. CASE Hi(o) = Hi(w) /\ Near(Lo(o), Lo(w), 256)
  <2>1. Lo(o) # Lo(w)
    BY <1>1, <1>3, <1>7
  <2>2. \E j \in Deltas : Lo(w) = U8(Lo(o) + j)
    BY <1>3, <1>7, <2>1, NearByte
  <2> QED BY <1>1, <1>5, <1>7, <2>2, ByteOfWordTried DEF WordDone
<1>8. CASE Near(o, w, Wide)
  <2>1. PICK j \in Deltas : w = U16(o + j)
    BY <1>1, <1>8, NearWord
  <2>2. w = Sum16(o, j, FALSE)
    BY <2>1 DEF Sum16
  <2> QED BY <1>5, <2>2, SumTried DEF WordDone, o
<1>9. CASE Near(SWAP16(o), SWAP16(w), Wide)
  <2>1. /\ IsWord(SWAP16(o)) /\ SWAP16(SWAP16(o)) = o
        /\ IsWord(SWAP16(w)) /\ SWAP16(SWAP16(w)) = w
    BY <1>1, SwapIs
  <2>2. SWAP16(o) # SWAP16(w)
    BY <1>1, <2>1
  <2>3. PICK j \in Deltas : SWAP16(w) = U16(SWAP16(o) + j)
    BY <1>9, <2>1, <2>2, NearWord
  <2>4. w = Sum16(o, j, TRUE)
    BY <2>1, <2>3 DEF Sum16
  <2> QED BY <1>5, <2>4, SumTried DEF WordDone, o
<1> QED BY <1>4, <1>6, <1>7, <1>8, <1>9

\* A word with an interesting byte has been tried.
LEMMA BytePartTried ==
  ASSUME NEW f, IsFile(f), NEW T, BeforeWords(f, T), NEW i \in Words(f), NEW w, IsWord(w),
         PutWord(f, i, w) # f, NEW v \in INTERESTING_8,
         \/ w = WordAt(f, i) - U8(WordAt(f, i)) + U8(v)
         \/ w = U8(WordAt(f, i)) + 256 * U8(v)
  PROVE  WordDone(f, T, i, w)
<1> DEFINE o == WordAt(f, i)  b == U8(v)
<1>1. IsWord(o) /\ Lo(o) = f[i] /\ Hi(o) = f[i + 1]
  BY WordAtIs
<1>2. Lo(o) \in Octet /\ Hi(o) \in Octet /\ o = Lo(o) + 256 * Hi(o)
  BY <1>1, LoHi
<1>3. b \in Octet
  BY Interesting, U8Is
<1>4. w = o - Lo(o) + b \/ w = Lo(o) + 256 * b
  BY DEF U8, Lo
<1>5. FlipsRun(f, T) /\ BytesRun(f, T)
  BY DEF BeforeWords
<1>6. \E q \in INTERESTING_8 : b = U8(q)
  OBVIOUS
<1> HIDE DEF o, b
<1>7. CASE w = o - Lo(o) + b
  <2>1. w = b + 256 * Hi(o)
    BY <1>2, <1>3, <1>7, IsOctet
  <2>2. Lo(w) = b /\ Hi(w) = Hi(o)
    BY <1>2, <1>3, <2>1, OfLoHi
  <2> QED BY <1>1, <1>5, <1>6, <2>2, ByteOfWordTried DEF WordDone
<1>8. CASE w = Lo(o) + 256 * b
  <2>1. Lo(w) = Lo(o) /\ Hi(w) = b
    BY <1>2, <1>3, <1>8, OfLoHi
  <2> QED BY <1>1, <1>5, <1>6, <2>1, ByteOfWordTried DEF WordDone
<1> QED BY <1>4, <1>7, <1>8

\* What interest 16/8 stores is a word.
LEMMA Stored16Is ==
  ASSUME NEW v \in interesting_16, NEW s \in BOOLEAN
  PROVE  IsWord(U16(v)) /\ IsWord(Stored16(v, s)) /\ Stored16(v, FALSE) = U16(v)
<1>1. IsWord(U16(v))
  BY Interesting, U16Is
<1>2. IsWord(SWAP16(U16(v)))
  BY <1>1, SwapIs
<1> QED BY <1>1, <1>2 DEF Stored16

\* An interesting word in the order of the machine has been tried.
LEMMA StoredTried ==
  ASSUME NEW f, IsFile(f), NEW T, AllRun(f, T), NEW i \in Words(f), NEW v \in interesting_16,
         NEW w, w = U16(v), PutWord(f, i, w) # f
  PROVE  WordDone(f, T, i, w)
<1> DEFINE o == WordAt(f, i)
<1>1. IsWord(w) /\ w = Stored16(v, FALSE) /\ o # w
  BY Stored16Is, PutSame
<1>2. BeforeWords(f, T) /\ FlipsRun(f, T) /\ WordsRun(f, T)
  BY DEF AllRun, BeforeWords
<1>3. CASE CouldBeBitflip(Xor16(o, w))
  BY <1>1, <1>2, <1>3, WordFlips DEF WordDone
<1>4. CASE CouldBeArith16(o, w)
  BY <1>1, <1>2, <1>4, ArithTried
<1>5. CASE CouldBeInterest16(o, w, FALSE)
  <2>1. PICK q \in INTERESTING_8 : w = o - U8(o) + U8(q) \/ w = U8(o) + 256 * U8(q)
    BY <1>1, <1>5 DEF CouldBeInterest16
  <2> QED BY <1>1, <1>2, <2>1, BytePartTried
<1>6. CASE ~CouldBeBitflip(Xor16(o, w)) /\ ~CouldBeArith16(o, w)
           /\ ~CouldBeInterest16(o, w, FALSE)
  BY <1>1, <1>2, <1>6 DEF WordsRun, WordDone
<1> QED BY <1>3, <1>4, <1>5, <1>6

\* So has one the other way round: what could_be_interest knows of it is the word
\* before, or a byte.
LEMMA SwappedTried ==
  ASSUME NEW f, IsFile(f), NEW T, AllRun(f, T), NEW i \in Words(f), NEW v \in interesting_16,
         NEW w, w = Stored16(v, TRUE), PutWord(f, i, w) # f
  PROVE  WordDone(f, T, i, w)
<1> DEFINE o == WordAt(f, i)
<1>1. IsWord(w) /\ o # w
  BY Stored16Is, PutSame
<1>2. BeforeWords(f, T) /\ FlipsRun(f, T) /\ WordsRun(f, T)
  BY DEF AllRun, BeforeWords
<1>3. CASE CouldBeBitflip(Xor16(o, w))
  BY <1>1, <1>2, <1>3, WordFlips DEF WordDone
<1>4. CASE CouldBeArith16(o, w)
  BY <1>1, <1>2, <1>4, ArithTried
<1>5. ASSUME NEW q \in interesting_16, w = U16(q) PROVE WordDone(f, T, i, w)
  BY <1>5, StoredTried
<1>6. CASE CouldBeInterest16(o, w, TRUE)
  <2>1. \/ \E q \in INTERESTING_8 : w = o - U8(o) + U8(q) \/ w = U8(o) + 256 * U8(q)
        \/ \E q \in interesting_16 : w = U16(q)
    BY <1>1, <1>6, Zenon DEF CouldBeInterest16
  <2>2. CASE \E q \in INTERESTING_8 : w = o - U8(o) + U8(q) \/ w = U8(o) + 256 * U8(q)
    <3>1. PICK q \in INTERESTING_8 : w = o - U8(o) + U8(q) \/ w = U8(o) + 256 * U8(q)
      BY <2>2
    <3> QED BY <1>1, <1>2, <3>1, BytePartTried
  <2>3. CASE \E q \in interesting_16 : w = U16(q)
    BY <1>5, <2>3
  <2> QED BY <2>1, <2>2, <2>3
<1>7. CASE U16(v) = w
  BY <1>5, <1>7
<1>8. CASE /\ ~CouldBeBitflip(Xor16(o, w)) /\ ~CouldBeArith16(o, w)
           /\ ~CouldBeInterest16(o, w, TRUE) /\ U16(v) # w
  BY <1>1, <1>2, <1>8 DEF WordsRun, WordDone
<1> QED BY <1>3, <1>4, <1>6, <1>7, <1>8

\* Whatever there is to try has been tried when all the stages have run, unless it is
\* across a seam.
LEMMA AllTried ==
  ASSUME NEW f, IsFile(f), NEW T, AllRun(f, T), NEW g \in Variants(f)
  PROVE  g \in T \/ AcrossWordSeam(f, g)
<1>1. FlipsRun(f, T) /\ BytesRun(f, T) /\ SumsRun(f, T) /\ BeforeWords(f, T)
  BY DEF AllRun, BeforeWords
<1>2. g # f /\ (g \in ByteVariants(f) \/ g \in WordVariants(f))
  BY DEF Variants
<1>3. ASSUME NEW i \in Bytes(f), NEW b, b \in Octet, g = PutByte(f, i, b),
             (\E j \in Deltas : b = U8(f[i] + j)) \/ (\E v \in INTERESTING_8 : b = U8(v))
      PROVE  g \in T
  <2>1. b # f[i]
    <3>1. IsFile(g) /\ Len(g) = Len(f) /\ g[i] = b /\ \A j \in Bytes(f) : j # i => g[j] = f[j]
      BY <1>3, PutByteDoes
    <3>2. b = f[i] => \A j \in Bytes(f) : g[j] = f[j]
      BY <3>1
    <3> QED BY <1>2, <3>1, <3>2, SameFile
  <2> QED BY <1>1, <1>3, <2>1, ByteTried
<1>4. CASE g \in ByteVariants(f)
  <2>1. \/ \E i \in Bytes(f), j \in Deltas : g = PutByte(f, i, U8(f[i] + j))
        \/ \E i \in Bytes(f), v \in INTERESTING_8 : g = PutByte(f, i, U8(v))
    BY <1>4 DEF ByteVariants
  <2>2. CASE \E i \in Bytes(f), j \in Deltas : g = PutByte(f, i, U8(f[i] + j))
    <3>1. PICK i \in Bytes(f), j \in Deltas : g = PutByte(f, i, U8(f[i] + j))
      BY <2>2
    <3> DEFINE z == f[i] + j
    <3>2. z \in Int
      BY ByteAt, IsOctet, IsDelta
    <3> HIDE DEF z
    <3>3. U8(z) \in Octet
      BY <3>2, U8Is
    <3>4. g = PutByte(f, i, U8(z)) /\ \E d \in Deltas : U8(z) = U8(f[i] + d)
      BY <3>1 DEF z
    <3> QED BY <1>3, <3>3, <3>4
  <2>3. CASE \E i \in Bytes(f), v \in INTERESTING_8 : g = PutByte(f, i, U8(v))
    <3>1. PICK i \in Bytes(f), v \in INTERESTING_8 : g = PutByte(f, i, U8(v))
      BY <2>3
    <3>2. U8(v) \in Octet
      BY Interesting, U8Is
    <3> QED BY <1>3, <3>1, <3>2
  <2> QED BY <2>1, <2>2, <2>3
<1>5. CASE g \in WordVariants(f)
  <2>1. \/ \E i \in Words(f), j \in Deltas, s \in BOOLEAN :
             g = PutWord(f, i, Sum16(WordAt(f, i), j, s))
        \/ \E i \in Words(f), v \in interesting_16, s \in BOOLEAN :
             g = PutWord(f, i, Stored16(v, s))
    BY <1>5 DEF WordVariants
  <2>2. CASE \E i \in Words(f), j \in Deltas, s \in BOOLEAN :
               g = PutWord(f, i, Sum16(WordAt(f, i), j, s))
    <3>1. PICK i \in Words(f), j \in Deltas, s \in BOOLEAN :
            g = PutWord(f, i, Sum16(WordAt(f, i), j, s))
      BY <2>2
    <3> QED BY <1>1, <1>2, <3>1, SumTried
  <2>3. CASE \E i \in Words(f), v \in interesting_16, s \in BOOLEAN :
               g = PutWord(f, i, Stored16(v, s))
    <3>1. PICK i \in Words(f), v \in interesting_16, s \in BOOLEAN :
            g = PutWord(f, i, Stored16(v, s))
      BY <2>3
    <3>2. CASE s
      BY <1>2, <3>1, <3>2, SwappedTried DEF WordDone
    <3>3. CASE ~s
      BY <1>2, <3>1, <3>3, Stored16Is, StoredTried DEF WordDone
    <3> QED BY <3>2, <3>3
  <2> QED BY <2>1, <2>2, <2>3
<1> QED BY <1>2, <1>4, <1>5

-----------------------------------------------------------------------------
(* Nothing is left out: ValuesCovered                                      *)

\* What has been run of a file when stage s is the next.
RunSoFar(f, s, T) ==
  /\ s > 1 => Flip1Run(f, T)
  /\ s > 2 => Flip2Run(f, T)
  /\ s > 3 => Flip4Run(f, T)
  /\ s > 4 => Flip8Run(f, T)
  /\ s > 5 => Flip16Run(f, T)
  /\ s > 6 => Arith8Run(f, T)
  /\ s > 7 => SumsRun(f, T)
  /\ s > 8 => Int8Run(f, T)
  /\ s > 9 => WordsRun(f, T)

\* The invariant of ValuesCovered.
InOrder == /\ file \in Files /\ stage \in 1 .. 10
           /\ RunSoFar(file, stage, Tried)

\* A test case is a file.
LEMMA FilesAre == \A f \in Files : IsFile(f)
BY FilesAssumption, Zenon DEF IsFile, Octet

\* The order of the stages.
LEMMA StageIs ==
  /\ Stages[1] = "flip1" /\ Stages[2] = "flip2" /\ Stages[3] = "flip4" /\ Stages[4] = "flip8"
  /\ Stages[5] = "flip16" /\ Stages[6] = "arith8" /\ Stages[7] = "arith16" /\ Stages[8] = "int8"
  /\ Stages[9] = "int16" /\ Stages[10] = "done"
BY DEF Stages

\* The file of every call is in Tried, and nothing leaves it.
LEMMA RunDoes ==
  ASSUME NEW name, NEW calls, Run(name, calls)
  PROVE  /\ Stages[stage] = name /\ stage' = stage + 1 /\ file' = file
         /\ \A g \in Tried : g \in Tried'
         /\ \A a, g : <<a, g>> \in calls => g \in Tried'
<1>1. /\ Stages[stage] = name /\ stage' = stage + 1 /\ file' = file
      /\ trials' = trials \cup {<<name, c[1], c[2]>> : c \in calls}
  BY DEF Run
<1>2. \A g \in Tried : g \in Tried'
  BY <1>1 DEF Tried
<1>3. ASSUME NEW a, NEW g, <<a, g>> \in calls PROVE g \in Tried'
  <2>1. <<name, a, g>> \in trials'
    <3>1. <<name, <<a, g>>[1], <<a, g>>[2]>> \in trials'
      BY <1>1, <1>3
    <3> QED BY <3>1
  <2>2. <<name, a, g>>[3] = g
    OBVIOUS
  <2> QED BY <2>1, <2>2 DEF Tried
<1> QED BY <1>1, <1>2, <1>3

\* What a stage has run stays run.
LEMMA StillRun ==
  ASSUME NEW f, NEW s, NEW T, NEW U, \A g \in T : g \in U, RunSoFar(f, s, T)
  PROVE  RunSoFar(f, s, U)
<1>1. /\ Flip1Run(f, T) => Flip1Run(f, U)
      /\ Flip2Run(f, T) => Flip2Run(f, U)
      /\ Flip4Run(f, T) => Flip4Run(f, U)
  BY Zenon DEF Flip1Run, Flip2Run, Flip4Run
<1>2. /\ Flip8Run(f, T) => Flip8Run(f, U)
      /\ Flip16Run(f, T) => Flip16Run(f, U)
  BY Zenon DEF Flip8Run, Flip16Run
<1>3. Arith8Run(f, T) => Arith8Run(f, U)
  BY Zenon DEF Arith8Run
<1>4. SumsRun(f, T) => SumsRun(f, U)
  BY Zenon DEF SumsRun
<1>5. Int8Run(f, T) => Int8Run(f, U)
  BY Zenon DEF Int8Run
<1>6. WordsRun(f, T) => WordsRun(f, U)
  BY Zenon DEF WordsRun
<1> QED BY <1>1, <1>2, <1>3, <1>4, <1>5, <1>6, Zenon DEF RunSoFar

\* One stage more.
LEMMA NextRun ==
  ASSUME NEW f, NEW s \in 1 .. 9, NEW T, RunSoFar(f, s, T),
         s = 1 => Flip1Run(f, T), s = 2 => Flip2Run(f, T), s = 3 => Flip4Run(f, T),
         s = 4 => Flip8Run(f, T), s = 5 => Flip16Run(f, T), s = 6 => Arith8Run(f, T),
         s = 7 => SumsRun(f, T), s = 8 => Int8Run(f, T), s = 9 => WordsRun(f, T)
  PROVE  RunSoFar(f, s + 1, T)
BY DEF RunSoFar

\* Nothing has run at first.
LEMMA InitInOrder == Init => InOrder
BY DEF Init, InOrder, RunSoFar

\* A stage runs all that its helpers let through.
LEMMA StepInOrder == InOrder /\ [Next]_vars => InOrder'
<1> SUFFICES ASSUME InOrder, [Next]_vars PROVE InOrder'
  OBVIOUS
<1>1. IsFile(file) /\ file \in Files /\ stage \in 1 .. 10 /\ RunSoFar(file, stage, Tried)
  BY FilesAre DEF InOrder
<1>2. ASSUME NEW name, NEW calls, Run(name, calls)
      PROVE  /\ Stages[stage] = name /\ stage' = stage + 1 /\ file' = file
             /\ RunSoFar(file, stage, Tried')
             /\ \A a, g : <<a, g>> \in calls => g \in Tried'
  BY <1>1, <1>2, RunDoes, StillRun
<1>3. ASSUME stage' = stage + 1, stage \in 1 .. 9, file' = file, RunSoFar(file, stage + 1, Tried')
      PROVE  InOrder'
  <2>1. stage' \in 1 .. 10
    BY <1>3
  <2> QED BY <1>1, <1>3, <2>1 DEF InOrder
<1>4. CASE Flip1
  <2> DEFINE calls == {<<b, FLIP_BIT(file, b)>> : b \in 0..(8 * Len(file) - 1)}
  <2>1. Run("flip1", calls)
    BY <1>4 DEF Flip1
  <2>2. \A b \in 0 .. (8 * Len(file) - 1) : <<b, FLIP_BIT(file, b)>> \in calls
    OBVIOUS
  <2> HIDE DEF calls
  <2>3. stage = 1
    BY <1>1, <1>2, <2>1, StageIs
  <2>4. Flip1Run(file, Tried')
    BY <1>2, <2>1, <2>2 DEF Flip1Run
  <2>5. RunSoFar(file, stage + 1, Tried')
    BY <1>2, <2>1, <2>3, <2>4, NextRun
  <2> QED BY <1>2, <1>3, <2>1, <2>3, <2>5
<1>5. CASE Flip2
  <2> DEFINE calls == {<<b, Flip2Bits(file, b)>> : b \in 0..(8 * Len(file) - 2)}
  <2>1. Run("flip2", calls)
    BY <1>5 DEF Flip2
  <2>2. \A b \in 0 .. (8 * Len(file) - 2) : <<b, Flip2Bits(file, b)>> \in calls
    OBVIOUS
  <2> HIDE DEF calls
  <2>3. stage = 2
    BY <1>1, <1>2, <2>1, StageIs
  <2>4. Flip2Run(file, Tried')
    BY <1>2, <2>1, <2>2 DEF Flip2Run
  <2>5. RunSoFar(file, stage + 1, Tried')
    BY <1>2, <2>1, <2>3, <2>4, NextRun
  <2> QED BY <1>2, <1>3, <2>1, <2>3, <2>5
<1>6. CASE Flip4
  <2> DEFINE calls == {<<b, Flip4Bits(file, b)>> : b \in 0..(8 * Len(file) - 4)}
  <2>1. Run("flip4", calls)
    BY <1>6 DEF Flip4
  <2>2. \A b \in 0 .. (8 * Len(file) - 4) : <<b, Flip4Bits(file, b)>> \in calls
    OBVIOUS
  <2> HIDE DEF calls
  <2>3. stage = 3
    BY <1>1, <1>2, <2>1, StageIs
  <2>4. Flip4Run(file, Tried')
    BY <1>2, <2>1, <2>2 DEF Flip4Run
  <2>5. RunSoFar(file, stage + 1, Tried')
    BY <1>2, <2>1, <2>3, <2>4, NextRun
  <2> QED BY <1>2, <1>3, <2>1, <2>3, <2>5
<1>7. CASE Flip8
  <2> DEFINE calls == {<<i, PutByte(file, i, 255 - file[i])>> : i \in Bytes(file)}
  <2>1. Run("flip8", calls)
    BY <1>7 DEF Flip8
  <2>2. \A i \in Bytes(file) : <<i, PutByte(file, i, 255 - file[i])>> \in calls
    OBVIOUS
  <2> HIDE DEF calls
  <2>3. stage = 4
    BY <1>1, <1>2, <2>1, StageIs
  <2>4. Flip8Run(file, Tried')
    BY <1>2, <2>1, <2>2 DEF Flip8Run
  <2>5. RunSoFar(file, stage + 1, Tried')
    BY <1>2, <2>1, <2>3, <2>4, NextRun
  <2> QED BY <1>2, <1>3, <2>1, <2>3, <2>5
<1>8. CASE Flip16
  <2> DEFINE calls == {<<i, PutWord(file, i, 65535 - WordAt(file, i))>> : i \in Words(file)}
  <2>1. Run("flip16", calls)
    BY <1>8, SMT DEF Flip16
  <2>2. \A i \in Words(file) : <<i, PutWord(file, i, Wide - 1 - WordAt(file, i))>> \in calls
    <3>1. 65535 = Wide - 1
      BY WideIs, SMT
    <3> QED BY <3>1, SMT
  <2> HIDE DEF calls
  <2>3. stage = 5
    BY <1>1, <1>2, <2>1, StageIs
  <2>4. Flip16Run(file, Tried')
    BY <1>2, <2>1, <2>2 DEF Flip16Run
  <2>5. RunSoFar(file, stage + 1, Tried')
    BY <1>2, <2>1, <2>3, <2>4, NextRun
  <2> QED BY <1>2, <1>3, <2>1, <2>3, <2>5
<1>9. CASE Arith8
  <2> DEFINE turns == {d \in Bytes(file) \X Deltas :
                         ~CouldBeBitflip(Xor8(file[d[1]], U8(file[d[1]] + d[2])))}
             calls == {<<c, PutByte(file, c[1], U8(file[c[1]] + c[2]))>> : c \in turns}
  <2>1. Run("arith8", calls)
    BY <1>9 DEF Arith8
  <2>2. ASSUME NEW i \in Bytes(file), NEW j \in Deltas,
               ~CouldBeBitflip(Xor8(file[i], U8(file[i] + j)))
        PROVE  <<<<i, j>>, PutByte(file, i, U8(file[i] + j))>> \in calls
    <3>1. <<i, j>> \in turns
      BY <2>2
    <3> HIDE DEF turns
    <3> QED BY <3>1
  <2> HIDE DEF turns, calls
  <2>3. stage = 6
    BY <1>1, <1>2, <2>1, StageIs
  <2>4. Arith8Run(file, Tried')
    BY <1>2, <2>1, <2>2 DEF Arith8Run
  <2>5. RunSoFar(file, stage + 1, Tried')
    BY <1>2, <2>1, <2>3, <2>4, NextRun
  <2> QED BY <1>2, <1>3, <2>1, <2>3, <2>5
<1>10. CASE Arith16
  <2> DEFINE turns == {d \in Words(file) \X Deltas \X BOOLEAN :
                         LET orig == WordAt(file, d[1])
                         IN /\ CarriesOver(IF d[3] THEN file[d[1] + 1] ELSE file[d[1]], d[2])
                            /\ ~CouldBeBitflip(Xor16(orig, Sum16(orig, d[2], d[3])))}
             calls == {<<c, PutWord(file, c[1], Sum16(WordAt(file, c[1]), c[2], c[3]))>> :
                         c \in turns}
  <2>1. Run("arith16", calls)
    BY <1>10 DEF Arith16
  <2>2. ASSUME NEW i \in Words(file), NEW j \in Deltas, NEW s \in BOOLEAN,
               CarriesOver(IF s THEN file[i + 1] ELSE file[i], j),
               ~CouldBeBitflip(Xor16(WordAt(file, i), Sum16(WordAt(file, i), j, s)))
        PROVE  <<<<i, j, s>>, PutWord(file, i, Sum16(WordAt(file, i), j, s))>> \in calls
    <3>1. <<i, j, s>> \in turns
      BY <2>2
    <3> HIDE DEF turns
    <3> QED BY <3>1
  <2> HIDE DEF turns, calls
  <2>3. stage = 7
    BY <1>1, <1>2, <2>1, StageIs
  <2>4. SumsRun(file, Tried')
    BY <1>2, <2>1, <2>2 DEF SumsRun
  <2>5. RunSoFar(file, stage + 1, Tried')
    BY <1>2, <2>1, <2>3, <2>4, NextRun
  <2> QED BY <1>2, <1>3, <2>1, <2>3, <2>5
<1>11. CASE Interest8
  <2> DEFINE turns == {d \in Bytes(file) \X INTERESTING_8 :
                         /\ ~CouldBeBitflip(Xor8(file[d[1]], U8(d[2])))
                         /\ ~CouldBeArith8(file[d[1]], U8(d[2]))}
             calls == {<<c, PutByte(file, c[1], U8(c[2]))>> : c \in turns}
  <2>1. Run("int8", calls)
    BY <1>11 DEF Interest8
  <2>2. ASSUME NEW i \in Bytes(file), NEW v \in INTERESTING_8,
               ~CouldBeBitflip(Xor8(file[i], U8(v))), ~CouldBeArith8(file[i], U8(v))
        PROVE  <<<<i, v>>, PutByte(file, i, U8(v))>> \in calls
    <3>1. <<i, v>> \in turns
      BY <2>2
    <3> HIDE DEF turns
    <3> QED BY <3>1
  <2> HIDE DEF turns, calls
  <2>3. stage = 8
    BY <1>1, <1>2, <2>1, StageIs
  <2>4. Int8Run(file, Tried')
    BY <1>2, <2>1, <2>2 DEF Int8Run
  <2>5. RunSoFar(file, stage + 1, Tried')
    BY <1>2, <2>1, <2>3, <2>4, NextRun
  <2> QED BY <1>2, <1>3, <2>1, <2>3, <2>5
<1>12. CASE Interest16
  <2> DEFINE turns == {d \in Words(file) \X interesting_16 \X BOOLEAN :
                         LET orig == WordAt(file, d[1])
                             new  == Stored16(d[2], d[3])
                         IN /\ d[3] => U16(d[2]) # new
                            /\ ~CouldBeBitflip(Xor16(orig, new))
                            /\ ~CouldBeArith16(orig, new)
                            /\ ~CouldBeInterest16(orig, new, d[3])}
             calls == {<<c, PutWord(file, c[1], Stored16(c[2], c[3]))>> : c \in turns}
  <2>1. Run("int16", calls)
    BY <1>12 DEF Interest16
  <2>2. ASSUME NEW i \in Words(file), NEW v \in interesting_16, NEW s \in BOOLEAN,
               s => U16(v) # Stored16(v, s),
               ~CouldBeBitflip(Xor16(WordAt(file, i), Stored16(v, s))),
               ~CouldBeArith16(WordAt(file, i), Stored16(v, s)),
               ~CouldBeInterest16(WordAt(file, i), Stored16(v, s), s)
        PROVE  <<<<i, v, s>>, PutWord(file, i, Stored16(v, s))>> \in calls
    <3>1. <<i, v, s>> \in turns
      BY <2>2
    <3> HIDE DEF turns
    <3> QED BY <3>1
  <2> HIDE DEF turns, calls
  <2>3. stage = 9
    BY <1>1, <1>2, <2>1, StageIs
  <2>4. WordsRun(file, Tried')
    BY <1>2, <2>1, <2>2 DEF WordsRun
  <2>5. RunSoFar(file, stage + 1, Tried')
    BY <1>2, <2>1, <2>3, <2>4, NextRun
  <2> QED BY <1>2, <1>3, <2>1, <2>3, <2>5
<1>13. CASE UNCHANGED vars
  BY <1>1, <1>13 DEF InOrder, vars, Tried
<1> QED BY <1>4, <1>5, <1>6, <1>7, <1>8, <1>9, <1>10, <1>11, <1>12, <1>13 DEF Next, Done

\* When the last one is over there is nothing left to try.
LEMMA CoveredInOrder == InOrder => ValuesCovered
<1> SUFFICES ASSUME InOrder, Stages[stage] = "done", NEW g \in Variants(file), g \notin Tried
             PROVE  AcrossWordSeam(file, g)
  BY DEF ValuesCovered
<1>1. IsFile(file) /\ stage \in 1 .. 10 /\ RunSoFar(file, stage, Tried)
  BY FilesAre DEF InOrder
<1>2. stage = 10
  BY <1>1, StageIs
<1>3. AllRun(file, Tried)
  BY <1>1, <1>2 DEF RunSoFar, AllRun, BeforeWords, FlipsRun, BytesRun
<1> QED BY <1>1, <1>3, AllTried

\* What the three helpers leave out has been executed: when the stages are over, every
\* sum, difference and interesting value of every byte and word has been tried, but
\* for words that differ in neighbouring bits across the seam of their bytes.
THEOREM ValuesAreCovered == Spec => []ValuesCovered
<1>1. Spec => []InOrder
  BY InitInOrder, StepInOrder, PTL DEF Spec
<1> QED BY <1>1, CoveredInOrder, PTL

-----------------------------------------------------------------------------
(* The bits that a walking stage flips, in the file                        *)

\* The bits of a byte, among those of the file.
LEMMA FlippedAt ==
  ASSUME NEW f, NEW g, IsFile(f), IsFile(g), Len(g) = Len(f), NEW i \in Bytes(f), NEW k \in 0 .. 7
  PROVE  8 * (i - 1) + 7 - k \in Flipped(f, g) <=> k \in Xor8(f[i], g[i])
<1> DEFINE b == 8 * (i - 1) + 7 - k
<1>1. i \in Nat \ {0} /\ i <= Len(f) /\ Len(f) \in Nat
  BY ByteAt
<1>2. b \in 0 .. (8 * Len(f) - 1)
  BY <1>1
<1>3. b \div 8 = i - 1 /\ b % 8 = 7 - k
  BY <1>1, BitAt
<1> HIDE DEF b
<1>4. b \div 8 + 1 = i /\ 7 - (b % 8) = k
  BY <1>1, <1>3
<1>5. b \in Flipped(f, g) <=> Bit(f[i], k) # Bit(g[i], k)
  BY <1>2, <1>4 DEF Flipped
<1> QED BY <1>5 DEF Xor8, b

\* A bit of the file that is flipped is a bit of a byte.
LEMMA Where ==
  ASSUME NEW f, NEW g, IsFile(f), IsFile(g), Len(g) = Len(f), NEW c \in Flipped(f, g)
  PROVE  \E i \in Bytes(f), k \in 0 .. 7 : c = 8 * (i - 1) + 7 - k /\ k \in Xor8(f[i], g[i])
<1>1. c \in FileBits(f) /\ Bit(f[c \div 8 + 1], 7 - (c % 8)) # Bit(g[c \div 8 + 1], 7 - (c % 8))
  BY DEF Flipped, FileBits
<1> DEFINE i == c \div 8 + 1  k == 7 - (c % 8)
<1>2. i \in Bytes(f) /\ k \in 0 .. 7 /\ c = 8 * (c \div 8) + (c % 8)
  BY <1>1, Place
<1>3. c = 8 * (i - 1) + 7 - k
  <2> DEFINE d == c \div 8  e == c % 8
  <2>1. d \in Int /\ e \in Int /\ c = 8 * d + e
    <3>1. c \in Int
      BY <1>1 DEF FileBits
    <3> QED BY <1>2, <3>1
  <2>2. i = d + 1 /\ k = 7 - e
    OBVIOUS
  <2> HIDE DEF d, e, i, k
  <2> QED BY <2>1, <2>2
<1>4. Bit(f[i], k) # Bit(g[i], k)
  BY <1>1
<1> HIDE DEF i, k
<1>5. k \in Xor8(f[i], g[i])
  BY <1>2, <1>4 DEF Xor8
<1> QED BY <1>2, <1>3, <1>5

\* A turn of a walking stage: it flips n bits from lo on.
IsFlip(f, t, lo, n) ==
  \/ n = 1 /\ lo \in 0 .. (8 * Len(f) - 1) /\ t = <<"flip1", lo, FLIP_BIT(f, lo)>>
  \/ n = 2 /\ lo \in 0 .. (8 * Len(f) - 2) /\ t = <<"flip2", lo, Flip2Bits(f, lo)>>
  \/ n = 4 /\ lo \in 0 .. (8 * Len(f) - 4) /\ t = <<"flip4", lo, Flip4Bits(f, lo)>>
  \/ n = 8 /\ \E i \in Bytes(f) :
                lo = 8 * (i - 1) /\ t = <<"flip8", i, PutByte(f, i, 255 - f[i])>>
  \/ n = 16 /\ \E i \in Words(f) :
                 lo = 8 * (i - 1) /\ t = <<"flip16", i, PutWord(f, i, Wide - 1 - WordAt(f, i))>>

\* g is f with n bits flipped from lo on.
FlipMakes(f, g, lo, n) ==
  /\ lo \in Nat /\ n \in {1, 2, 4, 8, 16}
  /\ IsFile(g) /\ Len(g) = Len(f) /\ Flipped(f, g) = lo .. lo + n - 1

\* These bits are all in the byte at i; sh is the lowest of them there.
InByte(i, lo, n, sh) == 8 * (i - 1) <= lo /\ lo + n <= 8 * i /\ sh = 8 * i - lo - n

\* A run of bits in one byte of the file is a run of bits of that byte.
LEMMA RunInByte ==
  ASSUME NEW f, NEW g, IsFile(f), NEW lo, NEW n, FlipMakes(f, g, lo, n),
         NEW i \in Bytes(f), NEW sh, InByte(i, lo, n, sh)
  PROVE  Xor8(f[i], g[i]) = sh .. sh + n - 1 /\ sh \in Nat /\ sh + n <= 8
<1>1. /\ IsFile(g) /\ Len(g) = Len(f) /\ lo \in Nat /\ n \in Nat \ {0}
      /\ Flipped(f, g) = lo .. lo + n - 1
      /\ 8 * (i - 1) <= lo /\ lo + n <= 8 * i /\ sh = 8 * i - lo - n
  BY DEF FlipMakes, InByte
<1> DEFINE x == Xor8(f[i], g[i])
<1>2. i \in Nat \ {0}
  BY ByteAt
<1>3. sh \in Nat /\ sh + n <= 8
  BY <1>1, <1>2
<1>4. x \subseteq 0 .. 7
  <2>1. f[i] \in Octet /\ g[i] \in Octet
    BY <1>1, ByteAt DEF Bytes
  <2> QED BY <2>1, Xor8Facts
<1>5. ASSUME NEW k \in 0 .. 7 PROVE k \in x <=> k \in sh .. sh + n - 1
  <2>1. k \in x <=> 8 * (i - 1) + 7 - k \in lo .. lo + n - 1
    BY <1>1, FlippedAt
  <2> HIDE DEF x
  <2>2. 8 * (i - 1) + 7 - k \in lo .. lo + n - 1 <=> k \in sh .. sh + n - 1
    BY <1>1, <1>2
  <2> QED BY <2>1, <2>2
<1> HIDE DEF x
<1>6. \A k \in sh .. sh + n - 1 : k \in 0 .. 7
  BY <1>1, <1>3
<1>7. x = sh .. sh + n - 1
  BY <1>4, <1>5, <1>6
<1> QED BY <1>3, <1>7 DEF x

\* Bitflip 1/1 makes such a file.
LEMMA Flip1Makes ==
  ASSUME NEW f, IsFile(f), NEW b \in 0 .. (8 * Len(f) - 1)
  PROVE  FlipMakes(f, FLIP_BIT(f, b), b, 1)
<1> DEFINE g == FLIP_BIT(f, b)
<1>1. b \in FileBits(f) /\ b \in Nat /\ b .. b + 1 - 1 = {b}
  BY DEF FileBits
<1>2. IsFile(g) /\ Len(g) = Len(f)
      /\ \A c \in FileBits(f) : FileBit(g, c) # FileBit(f, c) <=> c = b
  BY <1>1, Flip1Does
<1> HIDE DEF g
<1>3. {b} \in SUBSET FileBits(f) /\ \A c : c \in {b} <=> c = b
  BY <1>1
<1>4. Flipped(f, g) = {b}
  BY <1>2, <1>3, FlippedIs
<1> QED BY <1>1, <1>2, <1>4 DEF FlipMakes, g

\* Bitflip 2/1 does.
LEMMA Flip2Makes ==
  ASSUME NEW f, IsFile(f), NEW b \in 0 .. (8 * Len(f) - 2)
  PROVE  FlipMakes(f, Flip2Bits(f, b), b, 2)
<1> DEFINE g == Flip2Bits(f, b)
<1>1. Len(f) \in Nat
  BY DEF IsFile
<1>2. b + 1 \in FileBits(f) /\ b \in Nat /\ b + 2 - 1 = b + 1 /\ b .. b + 1 \in SUBSET FileBits(f)
  BY <1>1 DEF FileBits
<1>3. /\ IsFile(g) /\ Len(g) = Len(f)
      /\ \A c \in FileBits(f) : FileBit(g, c) # FileBit(f, c) <=> c \in b .. b + 1
  BY <1>2, Flip2Does
<1> HIDE DEF g
<1>4. Flipped(f, g) = b .. b + 1
  BY <1>2, <1>3, FlippedIs
<1> QED BY <1>2, <1>3, <1>4 DEF FlipMakes, g

\* Bitflip 4/1 does.
LEMMA Flip4Makes ==
  ASSUME NEW f, IsFile(f), NEW b \in 0 .. (8 * Len(f) - 4)
  PROVE  FlipMakes(f, Flip4Bits(f, b), b, 4)
<1> DEFINE g == Flip4Bits(f, b)
<1>1. Len(f) \in Nat
  BY DEF IsFile
<1>2. b + 3 \in FileBits(f) /\ b \in Nat /\ b + 4 - 1 = b + 3 /\ b .. b + 3 \in SUBSET FileBits(f)
  BY <1>1 DEF FileBits
<1>3. /\ IsFile(g) /\ Len(g) = Len(f)
      /\ \A c \in FileBits(f) : FileBit(g, c) # FileBit(f, c) <=> c \in b .. b + 3
  BY <1>2, Flip4Does
<1> HIDE DEF g
<1>4. Flipped(f, g) = b .. b + 3
  BY <1>2, <1>3, FlippedIs
<1> QED BY <1>2, <1>3, <1>4 DEF FlipMakes, g

\* The bits of a byte and its complement.
LEMMA AllOfByte ==
  ASSUME NEW v \in Octet
  PROVE  255 - v \in Octet /\ Xor8(v, 255 - v) = 0 .. 7
BY FlipsAll DEF Xor8

\* The bits of the byte that is put in are all that is flipped.
LEMMA OnlyByte ==
  ASSUME NEW f, IsFile(f), NEW i \in Bytes(f), NEW v \in Octet,
         NEW c \in Flipped(f, PutByte(f, i, v))
  PROVE  \E k \in 0 .. 7 : c = 8 * (i - 1) + 7 - k /\ k \in Xor8(f[i], v)
<1> DEFINE g == PutByte(f, i, v)
<1>1. IsFile(g) /\ Len(g) = Len(f) /\ g[i] = v /\ \A j \in Bytes(f) : j # i => g[j] = f[j]
  BY PutByteDoes
<1> HIDE DEF g
<1>2. PICK j \in Bytes(f), k \in 0 .. 7 : c = 8 * (j - 1) + 7 - k /\ k \in Xor8(f[j], g[j])
  BY <1>1, Where DEF g
<1>3. j = i
  <2>1. SUFFICES ASSUME j # i PROVE FALSE
    OBVIOUS
  <2>2. f[j] \in Octet /\ g[j] = f[j]
    BY <1>1, <2>1, ByteAt
  <2> QED BY <1>2, <2>2, Xor8Facts
<1> QED BY <1>1, <1>2, <1>3

\* Bitflip 8/8 does.
LEMMA Flip8Makes ==
  ASSUME NEW f, IsFile(f), NEW i \in Bytes(f)
  PROVE  FlipMakes(f, PutByte(f, i, 255 - f[i]), 8 * (i - 1), 8)
<1> DEFINE v == 255 - f[i]  g == PutByte(f, i, v)  lo == 8 * (i - 1)
<1>1. i \in Nat \ {0} /\ f[i] \in Octet /\ v \in Octet /\ Xor8(f[i], v) = 0 .. 7 /\ lo \in Nat
  BY ByteAt, AllOfByte
<1>2. IsFile(g) /\ Len(g) = Len(f) /\ g[i] = v
  <2> HIDE DEF v
  <2> QED BY <1>1, PutByteDoes
<1>3. ASSUME NEW c \in Flipped(f, g) PROVE c \in lo .. lo + 8 - 1
  <2>1. \E k \in 0 .. 7 : c = 8 * (i - 1) + 7 - k /\ k \in Xor8(f[i], v)
    <3> HIDE DEF v
    <3> QED BY <1>1, <1>3, OnlyByte
  <2> QED BY <1>1, <2>1
<1>4. ASSUME NEW c \in lo .. lo + 8 - 1 PROVE c \in Flipped(f, g)
  <2> DEFINE k == 7 - (c - lo)
  <2>1. k \in 0 .. 7 /\ c = 8 * (i - 1) + 7 - k
    BY <1>1
  <2> HIDE DEF k, g, v
  <2>2. k \in Xor8(f[i], g[i])
    BY <1>1, <1>2, <2>1
  <2> QED BY <1>2, <2>1, <2>2, FlippedAt
<1> HIDE DEF g, v
<1>5. Flipped(f, g) = lo .. lo + 8 - 1
  BY <1>3, <1>4
<1> QED BY <1>1, <1>2, <1>5 DEF FlipMakes, g, v

\* Bitflip 16/8 does.
LEMMA Flip16Makes ==
  ASSUME NEW f, IsFile(f), NEW i \in Words(f)
  PROVE  FlipMakes(f, PutWord(f, i, Wide - 1 - WordAt(f, i)), 8 * (i - 1), 16)
<1> DEFINE w == Wide - 1 - WordAt(f, i)  g == PutWord(f, i, w)  lo == 8 * (i - 1)
           a == 255 - f[i]  b == 255 - f[i + 1]
<1>1. i \in Bytes(f) /\ i + 1 \in Bytes(f) /\ f[i] \in Octet /\ f[i + 1] \in Octet
  <2>1. IsWord(0)
    BY DEF IsWord, Wide
  <2> QED BY <2>1, PutWordDoes
<1>2. a \in Octet /\ Xor8(f[i], a) = 0 .. 7 /\ b \in Octet /\ Xor8(f[i + 1], b) = 0 .. 7
  BY <1>1, AllOfByte
<1>3. w = a + 256 * b
  <2>1. Wide - 1 = 255 + 256 * 255
    BY DEF Wide
  <2> DEFINE x == f[i]  y == f[i + 1]
  <2>2. x \in Int /\ y \in Int
    BY <1>1, IsOctet
  <2> HIDE DEF x, y
  <2>3. (255 + 256 * 255) - (x + 256 * y) = (255 - x) + 256 * (255 - y)
    BY <2>2
  <2> QED BY <2>1, <2>3 DEF WordAt, x, y
<1> HIDE DEF w, a, b
<1>4. IsWord(w) /\ Lo(w) = a /\ Hi(w) = b
  BY <1>2, <1>3, OfLoHi
<1>5. /\ IsFile(g) /\ Len(g) = Len(f) /\ g[i] = a /\ g[i + 1] = b
      /\ \A j \in Bytes(f) \ {i, i + 1} : g[j] = f[j]
  BY <1>4, PutWordDoes
<1> HIDE DEF g
<1>6. i \in Nat \ {0} /\ lo \in Nat
  BY <1>1, ByteAt
<1>7. ASSUME NEW c \in Flipped(f, g) PROVE c \in lo .. lo + 16 - 1
  <2>1. PICK j \in Bytes(f), k \in 0 .. 7 : c = 8 * (j - 1) + 7 - k /\ k \in Xor8(f[j], g[j])
    BY <1>5, <1>7, Where
  <2>2. j = i \/ j = i + 1
    <3>1. SUFFICES ASSUME j # i, j # i + 1 PROVE FALSE
      OBVIOUS
    <3>2. f[j] \in Octet /\ g[j] = f[j]
      BY <1>5, <3>1, ByteAt
    <3> QED BY <2>1, <3>2, Xor8Facts
  <2> QED BY <1>6, <2>1, <2>2
<1>8. ASSUME NEW c \in lo .. lo + 16 - 1 PROVE c \in Flipped(f, g)
  <2>1. CASE c <= lo + 7
    <3> DEFINE k == 7 - (c - lo)
    <3>1. k \in 0 .. 7 /\ c = 8 * (i - 1) + 7 - k
      BY <1>6, <2>1
    <3> HIDE DEF k
    <3>2. k \in Xor8(f[i], g[i])
      BY <1>2, <1>5, <3>1
    <3> QED BY <1>1, <1>5, <3>1, <3>2, FlippedAt
  <2>2. CASE c > lo + 7
    <3> DEFINE k == 15 - (c - lo)  p == i + 1
    <3>1. k \in 0 .. 7 /\ c = 8 * (p - 1) + 7 - k /\ p \in Bytes(f)
      BY <1>1, <1>6, <2>2
    <3>2. k \in Xor8(f[p], g[p])
      BY <1>2, <1>5, <3>1
    <3> HIDE DEF k, p
    <3> QED BY <1>5, <3>1, <3>2, FlippedAt
  <2> QED BY <1>6, <2>1, <2>2
<1>9. Flipped(f, g) = lo .. lo + 16 - 1
  BY <1>7, <1>8
<1> QED BY <1>5, <1>6, <1>9 DEF FlipMakes, g, w

\* Every turn of a walking stage makes a run of bits.
LEMMA FlipRuns ==
  ASSUME NEW f, IsFile(f), NEW t, NEW lo, NEW n, IsFlip(f, t, lo, n)
  PROVE  FlipMakes(f, t[3], lo, n)
<1>1. CASE n = 1 /\ lo \in 0 .. (8 * Len(f) - 1) /\ t = <<"flip1", lo, FLIP_BIT(f, lo)>>
  BY <1>1, Flip1Makes
<1>2. CASE n = 2 /\ lo \in 0 .. (8 * Len(f) - 2) /\ t = <<"flip2", lo, Flip2Bits(f, lo)>>
  BY <1>2, Flip2Makes
<1>3. CASE n = 4 /\ lo \in 0 .. (8 * Len(f) - 4) /\ t = <<"flip4", lo, Flip4Bits(f, lo)>>
  BY <1>3, Flip4Makes
<1>4. CASE n = 8 /\ \E i \in Bytes(f) :
                      lo = 8 * (i - 1) /\ t = <<"flip8", i, PutByte(f, i, 255 - f[i])>>
  BY <1>4, Flip8Makes
<1>5. CASE n = 16 /\ \E i \in Words(f) :
             lo = 8 * (i - 1) /\ t = <<"flip16", i, PutWord(f, i, Wide - 1 - WordAt(f, i))>>
  BY <1>5, Flip16Makes
<1> QED BY <1>1, <1>2, <1>3, <1>4, <1>5, Zenon DEF IsFlip

-----------------------------------------------------------------------------
(* Walking stages against the others                                       *)

\* The stages that flip a byte or a word start at a byte.
LEMMA FlipAligned ==
  ASSUME NEW f, IsFile(f), NEW t, NEW lo, NEW n, IsFlip(f, t, lo, n)
  PROVE  n \in {8, 16} => \E i \in Nat \ {0} : lo = 8 * (i - 1)
<1>1. ASSUME NEW i \in Words(f) PROVE i \in Nat \ {0}
  BY DEF Words
<1>2. ASSUME NEW i \in Bytes(f) PROVE i \in Nat \ {0}
  BY DEF Bytes
<1> SUFFICES ASSUME n \in {8, 16} PROVE \E i \in Nat \ {0} : lo = 8 * (i - 1)
  OBVIOUS
<1>3. CASE n = 8
  <2>1. \E i \in Bytes(f) : lo = 8 * (i - 1)
    BY <1>3 DEF IsFlip
  <2> QED BY <1>2, <2>1
<1>4. CASE n = 16
  <2>1. \E i \in Words(f) : lo = 8 * (i - 1)
    BY <1>4 DEF IsFlip
  <2> QED BY <1>1, <2>1
<1> QED BY <1>3, <1>4

\* The turns that flip the same bits are one.
LEMMA SameFlip ==
  ASSUME NEW f, IsFile(f), NEW t, NEW u, NEW lo, NEW n, IsFlip(f, t, lo, n), IsFlip(f, u, lo, n)
  PROVE  t = u
<1>1. n \in {1, 2, 4, 8, 16}
  BY Zenon DEF IsFlip
<1>2. CASE n = 1
  BY <1>2 DEF IsFlip
<1>3. CASE n = 2
  BY <1>3 DEF IsFlip
<1>4. CASE n = 4
  BY <1>4 DEF IsFlip
<1>5. CASE n = 8
  <2>1. PICK i \in Bytes(f) : lo = 8 * (i - 1) /\ t = <<"flip8", i, PutByte(f, i, 255 - f[i])>>
    BY <1>5 DEF IsFlip
  <2>2. PICK j \in Bytes(f) : lo = 8 * (j - 1) /\ u = <<"flip8", j, PutByte(f, j, 255 - f[j])>>
    BY <1>5 DEF IsFlip
  <2>3. i = j
    BY <2>1, <2>2 DEF Bytes
  <2> QED BY <2>1, <2>2, <2>3
<1>6. CASE n = 16
  <2>1. PICK i \in Words(f) :
          lo = 8 * (i - 1) /\ t = <<"flip16", i, PutWord(f, i, Wide - 1 - WordAt(f, i))>>
    BY <1>6 DEF IsFlip
  <2>2. PICK j \in Words(f) :
          lo = 8 * (j - 1) /\ u = <<"flip16", j, PutWord(f, j, Wide - 1 - WordAt(f, j))>>
    BY <1>6 DEF IsFlip
  <2>3. i = j
    BY <2>1, <2>2 DEF Words
  <2> QED BY <2>1, <2>2, <2>3
<1> QED BY <1>1, <1>2, <1>3, <1>4, <1>5, <1>6

\* Two turns of walking stages that make the same file are one.
LEMMA FlipFlip ==
  ASSUME NEW f, IsFile(f), NEW t, NEW u, NEW lo, NEW n, NEW lp, NEW m,
         IsFlip(f, t, lo, n), IsFlip(f, u, lp, m), t[3] = u[3]
  PROVE  t = u
<1>1. FlipMakes(f, t[3], lo, n) /\ FlipMakes(f, u[3], lp, m)
  BY FlipRuns
<1>2. /\ lo \in Nat /\ n \in Nat \ {0} /\ lp \in Nat /\ m \in Nat \ {0}
      /\ lo .. lo + n - 1 = lp .. lp + m - 1
  BY <1>1 DEF FlipMakes
<1>3. lo = lp /\ n = m
  <2>1. /\ lo \in lo .. lo + n - 1 /\ lo + n - 1 \in lo .. lo + n - 1
        /\ lp \in lp .. lp + m - 1 /\ lp + m - 1 \in lp .. lp + m - 1
    BY <1>2
  <2> QED BY <1>2, <2>1
<1> QED BY <1>3, SameFlip

\* Such a run within a byte or a word is a pattern that could_be_bitflip knows.
LEMMA RunIsBitflip ==
  ASSUME NEW x, NEW sh \in Nat, NEW n \in Nat, x = sh .. sh + n - 1, sh <= 15,
         n \in {1, 2, 4} \/ (sh \in {0, 8} /\ n \in {8, 16})
  PROVE  CouldBeBitflip(x)
<1>1. RunOf(x, sh, n)
  BY DEF RunOf
<1> QED BY <1>1, Bitflips

\* What a walking stage makes of a byte is one.
LEMMA FlipByte ==
  ASSUME NEW f, IsFile(f), NEW lo, NEW n, NEW i \in Bytes(f), NEW b \in Octet,
         FlipMakes(f, PutByte(f, i, b), lo, n)
  PROVE  CouldBeBitflip(Xor8(f[i], b))
<1> DEFINE g == PutByte(f, i, b)
<1>1. /\ lo \in Nat /\ n \in {1, 2, 4, 8, 16}
      /\ IsFile(g) /\ Len(g) = Len(f) /\ Flipped(f, g) = lo .. lo + n - 1
  BY DEF FlipMakes
<1>2. g[i] = b /\ i \in Nat \ {0}
  BY PutByteDoes, ByteAt
<1>3. ASSUME NEW c \in Flipped(f, g) PROVE 8 * (i - 1) <= c /\ c + 1 <= 8 * i
  <2>1. \E k \in 0 .. 7 : c = 8 * (i - 1) + 7 - k /\ k \in Xor8(f[i], b)
    BY <1>3, OnlyByte
  <2> QED BY <1>2, <2>1
<1> HIDE DEF g
<1>4. lo \in Flipped(f, g) /\ lo + n - 1 \in Flipped(f, g)
  BY <1>1
<1>5. 8 * (i - 1) <= lo /\ lo + n <= 8 * i
  <2> DEFINE c == lo + n - 1
  <2>1. c \in Flipped(f, g) /\ c + 1 = lo + n
    BY <1>1, <1>4
  <2> HIDE DEF c
  <2> QED BY <1>3, <1>4, <2>1
<1>6. n \in Nat \ {0}
  BY <1>1
<1> DEFINE sh == 8 * i - lo - n
<1>7. InByte(i, lo, n, sh)
  BY <1>5 DEF InByte
<1> HIDE DEF sh
<1>8. Xor8(f[i], g[i]) = sh .. sh + n - 1 /\ sh \in Nat /\ sh + n <= 8
  BY <1>7, RunInByte DEF g
<1>9. Xor8(f[i], b) = sh .. sh + n - 1
  BY <1>2, <1>8
<1>10. sh <= 15 /\ (n \in {1, 2, 4} \/ (sh \in {0, 8} /\ n \in {8, 16}))
  BY <1>1, <1>8
<1> QED BY <1>6, <1>8, <1>9, <1>10, RunIsBitflip

\* A run of bits of the high byte.
LEMMA UpperRun ==
  ASSUME NEW sh \in Nat, NEW n \in Nat
  PROVE  Upper(sh .. sh + n - 1) = sh + 8 .. (sh + 8) + n - 1
<1>1. ASSUME NEW c \in sh + 8 .. (sh + 8) + n - 1 PROVE c \in Upper(sh .. sh + n - 1)
  <2>1. c - 8 \in sh .. sh + n - 1 /\ c = (c - 8) + 8
    OBVIOUS
  <2> QED BY <2>1, Zenon DEF Upper
<1>2. ASSUME NEW c \in Upper(sh .. sh + n - 1) PROVE c \in sh + 8 .. (sh + 8) + n - 1
  <2>1. PICK k \in sh .. sh + n - 1 : c = k + 8
    BY <1>2 DEF Upper
  <2> QED BY <2>1
<1> QED BY <1>1, <1>2

\* A byte none of whose bits is flipped.
LEMMA NoneFlipped ==
  ASSUME NEW f, NEW g, IsFile(f), IsFile(g), Len(g) = Len(f), NEW i \in Bytes(f),
         \A c \in Flipped(f, g) : c < 8 * (i - 1) \/ c >= 8 * i
  PROVE  Xor8(f[i], g[i]) = {}
<1> DEFINE x == Xor8(f[i], g[i])
<1>1. x \subseteq 0 .. 7
  <2>1. f[i] \in Octet /\ g[i] \in Octet
    BY ByteAt DEF Bytes
  <2> QED BY <2>1, Xor8Facts
<1>2. ASSUME NEW k \in 0 .. 7 PROVE k \notin x
  <2> DEFINE c == 8 * (i - 1) + 7 - k
  <2>1. c >= 8 * (i - 1) /\ c < 8 * i /\ c \in Int
    BY DEF Bytes
  <2>2. c \notin Flipped(f, g)
    <3> HIDE DEF c
    <3>1. SUFFICES ASSUME c \in Flipped(f, g) PROVE FALSE
      OBVIOUS
    <3>2. c < 8 * (i - 1) \/ c >= 8 * i
      BY <3>1
    <3> QED BY <2>1, <3>2 DEF Bytes
  <2> QED BY <2>2, FlippedAt
<1> HIDE DEF x
<1>3. x = {}
  BY <1>1, <1>2
<1> QED BY <1>3 DEF x

\* When no other byte than the two of a word differs, all bits flipped are there.
LEMMA OnlyWord ==
  ASSUME NEW f, NEW g, IsFile(f), IsFile(g), Len(g) = Len(f), NEW i \in Words(f),
         \A j \in Bytes(f) \ {i, i + 1} : g[j] = f[j], NEW c \in Flipped(f, g)
  PROVE  c \in 8 * (i - 1) .. 8 * (i - 1) + 15
<1>1. PICK j \in Bytes(f), k \in 0 .. 7 : c = 8 * (j - 1) + 7 - k /\ k \in Xor8(f[j], g[j])
  BY Where
<1>2. j = i \/ j = i + 1
  <2>1. SUFFICES ASSUME j # i, j # i + 1 PROVE FALSE
    OBVIOUS
  <2>2. f[j] \in Octet /\ g[j] = f[j]
    BY <2>1, ByteAt
  <2> QED BY <1>1, <2>2, Xor8Facts
<1>3. i \in Nat \ {0}
  BY DEF Words
<1>4. c = 8 * (j - 1) + 7 - k
  BY <1>1
<1> QED BY <1>2, <1>3, <1>4

\* What a walking stage makes of a word is a pattern that could_be_bitflip knows, or
\* lies across the seam of its bytes.
LEMMA FlipWord ==
  ASSUME NEW f, IsFile(f), NEW lo, NEW n, NEW i \in Words(f), NEW w, IsWord(w),
         FlipMakes(f, PutWord(f, i, w), lo, n), n \in {8, 16} =>
           \E p \in Nat \ {0} : lo = 8 * (p - 1)
  PROVE  CouldBeBitflip(Xor16(WordAt(f, i), w)) \/ AcrossFileSeam(f, PutWord(f, i, w))
<1> DEFINE g == PutWord(f, i, w)  j == i + 1
           xl == Xor8(f[i], g[i])  xh == Xor8(f[j], g[j])  x == Xor16(WordAt(f, i), w)
<1>1. /\ lo \in Nat /\ n \in {1, 2, 4, 8, 16} /\ n \in Nat \ {0}
      /\ IsFile(g) /\ Len(g) = Len(f) /\ Flipped(f, g) = lo .. lo + n - 1
  BY DEF FlipMakes
<1>2. /\ i \in Bytes(f) /\ j \in Bytes(f) /\ i \in Nat \ {0} /\ j = i + 1
      /\ g[i] = Lo(w) /\ g[j] = Hi(w) /\ \A p \in Bytes(f) \ {i, i + 1} : g[p] = f[p]
  BY PutWordDoes, ByteAt
<1>3. x = xl \cup Upper(xh)
  BY <1>2, Xor16Is
<1> HIDE DEF g, j, x
<1>4. ASSUME NEW c \in Flipped(f, g) PROVE c \in 8 * (i - 1) .. 8 * (i - 1) + 15
  BY <1>1, <1>2, <1>4, OnlyWord
<1>5. 8 * (i - 1) <= lo /\ lo + n <= 8 * j
  <2> DEFINE c == lo + n - 1
  <2>1. lo \in Flipped(f, g) /\ c \in Flipped(f, g) /\ c + 1 = lo + n
    BY <1>1
  <2> HIDE DEF c
  <2>2. lo \in 8 * (i - 1) .. 8 * (i - 1) + 15 /\ c \in 8 * (i - 1) .. 8 * (i - 1) + 15
    BY <1>4, <2>1
  <2> QED BY <1>1, <1>2, <2>1, <2>2
<1>6. n \in {8, 16} => lo = 8 * (i - 1) \/ lo = 8 * (j - 1)
  BY <1>1, <1>2, <1>5
<1>7. CASE lo + n <= 8 * i
  <2> DEFINE sh == 8 * i - lo - n
  <2>1. InByte(i, lo, n, sh)
    BY <1>5, <1>7 DEF InByte
  <2>2. xl = sh .. sh + n - 1
    <3> HIDE DEF sh
    <3> QED BY <1>2, <2>1, RunInByte DEF g
  <2>3. xh = {}
    <3>1. \A c \in Flipped(f, g) : c < 8 * (j - 1)
      BY <1>1, <1>2, <1>7
    <3> QED BY <1>1, <1>2, <3>1, NoneFlipped
  <2>4. sh \in Nat /\ sh <= 15 /\ (n \in {1, 2, 4} \/ (sh \in {0, 8} /\ n \in {8, 16}))
    BY <1>1, <1>2, <1>5, <1>6, <1>7
  <2>5. x = sh .. sh + n - 1
    <3> HIDE DEF sh, xl, xh
    <3> QED BY <1>3, <2>2, <2>3 DEF Upper
  <2> HIDE DEF sh, xl, xh
  <2>6. CouldBeBitflip(x)
    BY <1>1, <2>4, <2>5, RunIsBitflip
  <2> QED BY <2>6 DEF x
<1>8. CASE lo >= 8 * i
  <2> DEFINE sh == 8 * j - lo - n  sj == sh + 8
  <2>1. xh = sh .. sh + n - 1
    <3>1. InByte(j, lo, n, sh)
      BY <1>1, <1>2, <1>5, <1>8 DEF InByte
    <3> HIDE DEF sh
    <3> QED BY <1>2, <3>1, RunInByte DEF g
  <2>2. xl = {}
    <3>1. \A c \in Flipped(f, g) : c >= 8 * i
      BY <1>1, <1>2, <1>8
    <3> QED BY <1>1, <1>2, <3>1, NoneFlipped
  <2>3. sh \in Nat
    BY <1>1, <1>2, <1>5
  <2>4. sj \in Nat /\ sj <= 15 /\ (n \in {1, 2, 4} \/ (sj \in {0, 8} /\ n \in {8, 16}))
    BY <1>1, <1>2, <1>5, <1>6, <1>8
  <2> HIDE DEF sh, xl, xh
  <2>5. x = sj .. sj + n - 1
    BY <1>1, <1>3, <2>1, <2>2, <2>3, UpperRun
  <2> HIDE DEF sj
  <2>6. CouldBeBitflip(x)
    BY <1>1, <2>4, <2>5, RunIsBitflip
  <2> QED BY <2>6 DEF x
<1>9. CASE lo < 8 * i /\ lo + n > 8 * i /\ n = 16
  <2>1. lo = 8 * (i - 1)
    BY <1>1, <1>2, <1>6, <1>9
  <2>2. Flipped(f, g) = 8 * (i - 1) .. 8 * (i - 1) + 15
    BY <1>1, <1>2, <1>9, <2>1
  <2>3. ASSUME NEW p \in Bytes(f), p = i \/ p = i + 1 PROVE Xor8(f[p], g[p]) = 0 .. 7
    <3> DEFINE y == Xor8(f[p], g[p])
    <3>1. y \subseteq 0 .. 7
      <4>1. f[p] \in Octet /\ g[p] \in Octet
        BY <1>1, ByteAt DEF Bytes
      <4> QED BY <4>1, Xor8Facts
    <3>2. ASSUME NEW k \in 0 .. 7 PROVE k \in y
      <4>1. 8 * (p - 1) + 7 - k \in Flipped(f, g)
        BY <1>2, <2>2, <2>3
      <4> QED BY <1>1, <4>1, FlippedAt
    <3> HIDE DEF y
    <3>3. y = 0 .. 7
      BY <3>1, <3>2
    <3> QED BY <3>3 DEF y
  <2>4. xl = 0 .. 7 /\ xh = 0 .. 7
    BY <1>2, <2>3
  <2> HIDE DEF xl, xh
  <2>5. x = 0 .. 0 + 16 - 1
    <3>1. Upper(0 .. 0 + 8 - 1) = 0 + 8 .. (0 + 8) + 8 - 1
      BY UpperRun
    <3>2. xh = 0 .. 0 + 8 - 1
      BY <2>4
    <3>3. Upper(xh) = 0 + 8 .. (0 + 8) + 8 - 1
      BY <3>1, <3>2
    <3> QED BY <1>3, <2>4, <3>3
  <2>6. CouldBeBitflip(x)
    <3> DEFINE z == 0  m == 16
    <3>1. /\ z \in Nat /\ m \in Nat /\ x = z .. z + m - 1 /\ z <= 15
          /\ (m \in {1, 2, 4} \/ (z \in {0, 8} /\ m \in {8, 16}))
      BY <2>5
    <3> HIDE DEF z, m
    <3> QED BY <3>1, RunIsBitflip
  <2> QED BY <2>6 DEF x
<1>10. CASE lo < 8 * i /\ lo + n > 8 * i /\ n # 16
  <2> DEFINE sh == lo - 8 * (i - 1)
  <2>1. n \in {2, 4} /\ sh \in 5 .. 7 /\ sh + n > 8
    BY <1>1, <1>2, <1>5, <1>6, <1>10
  <2>2. Flipped(f, g) = (8 * (i - 1) + sh)..(8 * (i - 1) + sh + n - 1)
    BY <1>1, <1>2
  <2> HIDE DEF sh
  <2>3. AcrossFileSeam(f, g)
    BY <2>1, <2>2 DEF AcrossFileSeam
  <2> QED BY <2>3 DEF g
<1> QED
  <2>1. lo + n <= 8 * i \/ lo >= 8 * i \/ (lo < 8 * i /\ lo + n > 8 * i)
    BY <1>1, <1>2
  <2> QED BY <1>7, <1>8, <1>9, <1>10, <2>1

-----------------------------------------------------------------------------
(* Sums that are equal, and carries                                        *)

\* Sums of one byte that are equal have equal terms.
LEMMA ByteSums ==
  ASSUME NEW a \in Octet, NEW j \in Deltas, NEW k, k \in Deltas \/ k = 0, U8(a + j) = U8(a + k)
  PROVE  j = k
<1> DEFINE x == a + j  y == a + k
<1>1. a \in Int /\ j \in Int /\ k \in Int /\ -35 <= j /\ j <= 35 /\ -35 <= k /\ k <= 35
  BY IsOctet, IsDelta
<1>2. x \in Int /\ y \in Int /\ x = a + j /\ y = a + k /\ U8(x) = U8(y)
  BY <1>1
<1> HIDE DEF x, y
<1>3. PICK q \in Int : x = 256 * q + U8(x) /\ U8(x) \in Nat
  BY <1>2, U8Is
<1>4. PICK p \in Int : y = 256 * p + U8(y)
  BY <1>2, U8Is
<1>5. j - k = 256 * (q - p)
  BY <1>1, <1>2, <1>3, <1>4
<1> QED BY <1>1, <1>5

\* A sum of a byte is another byte.
LEMMA ByteMoves ==
  ASSUME NEW a \in Octet, NEW j \in Deltas
  PROVE  U8(a + j) \in Octet /\ U8(a + j) # a
<1> DEFINE x == a + j  z == 0  y == a + z
<1>1. x \in Int /\ y = a
  BY IsOctet, IsDelta
<1>2. U8(a) = a
  BY U8Same
<1>3. j # 0
  BY IsDelta
<1>4. U8(x) \in Octet
  <2> HIDE DEF x
  <2> QED BY <1>1, U8Is
<1>5. U8(x) # U8(y)
  <2>1. SUFFICES ASSUME U8(a + j) = U8(a + z) PROVE FALSE
    OBVIOUS
  <2>2. z \in Deltas \/ z = 0
    OBVIOUS
  <2> HIDE DEF z
  <2>3. j = z
    BY <2>1, <2>2, ByteSums
  <2> QED BY <1>3, <2>3 DEF z
<1> QED BY <1>1, <1>2, <1>4, <1>5

\* A sum of a byte is near it.
LEMMA ByteSumNear ==
  ASSUME NEW a \in Octet, NEW j \in Deltas
  PROVE  CouldBeArith8(a, U8(a + j))
<1> DEFINE x == a + j  b == U8(x)  y == a - b  z == b - a
<1>1. a \in Int /\ j \in Int /\ -35 <= j /\ j <= 35
  BY IsOctet, IsDelta
<1>2. x \in Int /\ x = a + j
  BY <1>1
<1> HIDE DEF x
<1>3. PICK q \in Int : x = 256 * q + b /\ b \in Nat
  BY <1>2, U8Is
<1> HIDE DEF b
<1>4. y \in Int /\ z \in Int /\ y = 256 * q + (-j) /\ z = 256 * (-q) + j
  BY <1>1, <1>2, <1>3
<1> HIDE DEF y, z
<1>5. CASE j >= 0
  <2>1. j \in Octet /\ -q \in Int
    BY <1>1, <1>5, IsOctet
  <2> DEFINE p == -q
  <2>2. p \in Int /\ z = 256 * p + j
    BY <1>4, <2>1
  <2> HIDE DEF p
  <2>3. U8(z) = j
    BY <1>4, <2>1, <2>2, U8Is
  <2>4. (b - a) % 256 <= ARITH_MAX
    BY <1>1, <2>3 DEF U8, z, ARITH_MAX
  <2> QED BY <2>4 DEF CouldBeArith8, Near, b, x
<1>6. CASE j < 0
  <2> DEFINE r == -j
  <2>1. r \in Octet /\ y = 256 * q + r /\ r <= 35
    BY <1>1, <1>4, <1>6, IsOctet
  <2> HIDE DEF r
  <2>2. U8(y) = r
    BY <1>4, <2>1, U8Is
  <2>3. (a - b) % 256 <= ARITH_MAX
    BY <2>1, <2>2 DEF U8, y, ARITH_MAX
  <2> QED BY <2>3 DEF CouldBeArith8, Near, b, x
<1> QED BY <1>1, <1>5, <1>6

\* The range of the interesting bytes.
LEMMA Within8 == \A v \in INTERESTING_8 : v \in Int /\ -128 <= v /\ v <= 127
BY DEF INTERESTING_8

\* The range of the interesting words.
LEMMA Within16 == \A v \in interesting_16 : v \in Int /\ -(128 * 256) <= v /\ v < 128 * 256
BY DEF interesting_16, INTERESTING_8

\* The interesting values are as many bytes.
LEMMA Injective8 ==
  ASSUME NEW v \in INTERESTING_8, NEW z \in INTERESTING_8, U8(v) = U8(z)
  PROVE  v = z
<1>1. v \in Int /\ -128 <= v /\ v <= 127 /\ z \in Int /\ -128 <= z /\ z <= 127
  BY Within8
<1>2. PICK q \in Int : v = 256 * q + U8(v) /\ U8(v) \in Nat
  BY <1>1, U8Is
<1>3. PICK p \in Int : z = 256 * p + U8(z)
  BY <1>1, U8Is
<1> QED BY <1>1, <1>2, <1>3

\* The interesting values are as many words.
LEMMA Injective16 ==
  ASSUME NEW v \in interesting_16, NEW z \in interesting_16, U16(v) = U16(z)
  PROVE  v = z
<1>1. v \in Int /\ -(128 * 256) <= v /\ v < 128 * 256 /\ z \in Int /\ -(128 * 256) <= z
      /\ z < 128 * 256
  BY Within16
<1>2. PICK q \in Int : v = Wide * q + U16(v) /\ U16(v) \in Nat
  BY <1>1, U16Is DEF IsWord
<1>3. PICK p \in Int : z = Wide * p + U16(z)
  BY <1>1, U16Is
<1> QED BY <1>1, <1>2, <1>3 DEF Wide

\* A word that wraps around: its low byte stays, its high byte wraps.
LEMMA Wrapped ==
  ASSUME NEW r \in Octet, NEW m \in Int
  PROVE  /\ IsWord(U16(r + 256 * m))
         /\ Lo(U16(r + 256 * m)) = r /\ Hi(U16(r + 256 * m)) = U8(m)
<1> DEFINE z == r + 256 * m  h == U8(m)  w == r + 256 * h
<1>1. PICK q \in Int : m = 256 * q + h /\ h \in Octet
  BY U8Is
<1>2. r \in Int /\ h \in Int
  BY <1>1, IsOctet
<1> HIDE DEF h
<1>3. IsWord(w) /\ Lo(w) = r /\ Hi(w) = h
  BY <1>1, OfLoHi
<1>4. z \in Int /\ z = Wide * q + w
  BY <1>1, <1>2 DEF Wide
<1> HIDE DEF z, w
<1>5. PICK p \in Int : z = Wide * p + U16(z) /\ IsWord(U16(z))
  BY <1>4, U16Is
<1>6. U16(z) = w
  <2> DEFINE e == U16(z)
  <2>1. w \in Nat /\ w < Wide /\ e \in Nat /\ e < Wide
    BY <1>3, <1>5 DEF IsWord
  <2>2. Wide * q + w = Wide * p + e
    BY <1>4, <1>5
  <2> HIDE DEF e
  <2>3. w = e
    BY <2>1, <2>2 DEF Wide
  <2> QED BY <2>3 DEF e
<1> QED BY <1>3, <1>5, <1>6 DEF z, h

\* What a sum that carries adds to the other byte.
Carry(j) == IF j > 0 THEN 1 ELSE -1

\* It is itself something arith 8/8 adds.
LEMMA CarryIs ==
  ASSUME NEW j \in Deltas
  PROVE  Carry(j) \in Deltas /\ (j > 0 => Carry(j) = 1) /\ (j < 0 => Carry(j) = -1)
         /\ (j > 0 \/ j < 0)
BY IsDelta DEF Carry

\* A sum that carries moves both bytes, the other one by one.
LEMMA SumCarries ==
  ASSUME NEW w, IsWord(w), NEW j \in Deltas, CarriesOver(Lo(w), j)
  PROVE  /\ IsWord(U16(w + j))
         /\ Lo(U16(w + j)) = U8(Lo(w) + j) /\ Hi(U16(w + j)) = U8(Hi(w) + Carry(j))
<1> DEFINE x == Lo(w)  y == Hi(w)  z == x + j  r == U8(z)  m == y + Carry(j)  u == w + j
<1>1. x \in Nat /\ x <= 255 /\ y \in Nat /\ w = x + 256 * y
  BY LoHi, IsOctet
<1>2. j \in Int /\ -35 <= j /\ j <= 35 /\ j # 0
  BY IsDelta
<1>3. z \in Int /\ z = x + j
  BY <1>1, <1>2
<1>4. z > 255 \/ z < 0
  BY DEF CarriesOver
<1> HIDE DEF x, y, z
<1>5. PICK q \in Int : z = 256 * q + r /\ r \in Octet /\ r \in Nat /\ r <= 255
  BY <1>3, U8Is
<1> HIDE DEF r
<1>6. q = Carry(j)
  BY <1>1, <1>2, <1>3, <1>4, <1>5 DEF Carry
<1>7. m \in Int /\ u = r + 256 * m
  BY <1>1, <1>2, <1>3, <1>5, <1>6
<1> HIDE DEF m, u
<1>8. IsWord(U16(u)) /\ Lo(U16(u)) = r /\ Hi(U16(u)) = U8(m)
  BY <1>5, <1>7, Wrapped
<1> QED BY <1>8 DEF u, m, r, z, x, y

\* What such a sum does to the bytes of a word, in either order.
Moves(w, u, j, s) ==
  IF s THEN Hi(u) = U8(Hi(w) + j) /\ Lo(u) = U8(Lo(w) + Carry(j))
  ELSE Lo(u) = U8(Lo(w) + j) /\ Hi(u) = U8(Hi(w) + Carry(j))

\* The check of arith 16/8, on a word.
Carries(w, j, s) == CarriesOver(IF s THEN Hi(w) ELSE Lo(w), j)

\* What arith 16/8 runs differs from the file in both bytes.
LEMMA SumMoves ==
  ASSUME NEW w, IsWord(w), NEW j \in Deltas, NEW s \in BOOLEAN, Carries(w, j, s)
  PROVE  /\ Moves(w, Sum16(w, j, s), j, s)
         /\ Lo(Sum16(w, j, s)) # Lo(w) /\ Hi(Sum16(w, j, s)) # Hi(w)
<1> DEFINE u == Sum16(w, j, s)
<1>1. Moves(w, u, j, s)
  <2>1. CASE ~s
    <3>1. u = U16(w + j) /\ CarriesOver(Lo(w), j)
      BY <2>1 DEF Sum16, Carries
    <3> HIDE DEF u
    <3> QED BY <2>1, <3>1, SumCarries DEF Moves
  <2>2. CASE s
    <3> DEFINE p == SWAP16(w)  v == U16(p + j)
    <3>1. u = SWAP16(v) /\ CarriesOver(Hi(w), j)
      BY <2>2 DEF Sum16, Carries
    <3>2. IsWord(p) /\ Lo(p) = Hi(w) /\ Hi(p) = Lo(w)
      BY SwapIs
    <3> HIDE DEF u, p
    <3>3. IsWord(v) /\ Lo(v) = U8(Lo(p) + j) /\ Hi(v) = U8(Hi(p) + Carry(j))
      BY <3>1, <3>2, SumCarries
    <3> HIDE DEF v
    <3>4. Lo(u) = Hi(v) /\ Hi(u) = Lo(v)
      BY <3>1, <3>3, SwapIs
    <3> QED BY <2>2, <3>2, <3>3, <3>4 DEF Moves
  <2> QED BY <2>1, <2>2
<1> HIDE DEF u
<1>2. Lo(w) \in Octet /\ Hi(w) \in Octet /\ Carry(j) \in Deltas
  BY LoHi, CarryIs
<1>3. Lo(u) # Lo(w) /\ Hi(u) # Hi(w)
  BY <1>1, <1>2, ByteMoves DEF Moves
<1> QED BY <1>1, <1>3 DEF u

\* A sum of a word is near it.
LEMMA NearSum ==
  ASSUME NEW a, IsWord(a), NEW j \in Deltas
  PROVE  Near(a, U16(a + j), Wide)
<1> DEFINE x == a + j  b == U16(x)  y == a - b  z == b - a
<1>1. a \in Nat /\ j \in Int /\ -35 <= j /\ j <= 35
  BY IsDelta DEF IsWord
<1>2. x \in Int /\ x = a + j
  BY <1>1
<1> HIDE DEF x
<1>3. PICK q \in Int : x = Wide * q + b /\ b \in Nat
  BY <1>2, U16Is DEF IsWord
<1> HIDE DEF b
<1>4. y \in Int /\ z \in Int /\ y = Wide * q + (-j) /\ z = Wide * (-q) + j
  BY <1>1, <1>2, <1>3 DEF Wide
<1> HIDE DEF y, z
<1>5. PICK p \in Int : y = Wide * p + (y % Wide) /\ y % Wide \in Nat /\ y % Wide < Wide
  BY <1>4, ModWide DEF IsWord
<1>6. PICK t \in Int : z = Wide * t + (z % Wide) /\ z % Wide \in Nat /\ z % Wide < Wide
  BY <1>4, ModWide DEF IsWord
<1> DEFINE yr == y % Wide  zr == z % Wide
<1>7. yr \in Nat /\ zr \in Nat /\ y = Wide * p + yr /\ z = Wide * t + zr /\ yr < Wide /\ zr < Wide
  BY <1>5, <1>6
<1> HIDE DEF yr, zr
<1>8. yr <= 35 \/ zr <= 35
  BY <1>1, <1>4, <1>7 DEF Wide
<1>9. (a - b) % Wide <= ARITH_MAX \/ (b - a) % Wide <= ARITH_MAX
  BY <1>8 DEF yr, zr, y, z, ARITH_MAX
<1> QED BY <1>9 DEF Near, b, x

\* Every bit of both bytes flipped is a pattern that could_be_bitflip knows.
LEMMA AllOfWord ==
  ASSUME NEW f, IsFile(f), NEW i \in Words(f), NEW w, IsWord(w),
         Lo(w) = 255 - f[i], Hi(w) = 255 - f[i + 1]
  PROVE  CouldBeBitflip(Xor16(WordAt(f, i), w))
<1> DEFINE k == i + 1  x == Xor16(WordAt(f, i), w)  z == 0  m == 16
<1>1. f[i] \in Octet /\ f[k] \in Octet
  BY WordAtIs
<1>2. Xor8(f[i], Lo(w)) = 0 .. 7
  BY <1>1, AllOfByte
<1>3. Xor8(f[k], Hi(w)) = 0 .. 7
  <2>1. Hi(w) = 255 - f[k]
    OBVIOUS
  <2> HIDE DEF k
  <2> QED BY <1>1, <2>1, AllOfByte
<1>4. x = Xor8(f[i], Lo(w)) \cup Upper(Xor8(f[k], Hi(w)))
  BY Xor16Is
<1> HIDE DEF x
<1>5. x = 0 .. 0 + 16 - 1
  <2>1. Upper(0 .. 0 + 8 - 1) = 0 + 8 .. (0 + 8) + 8 - 1
    BY UpperRun
  <2>2. Xor8(f[k], Hi(w)) = 0 .. 0 + 8 - 1
    BY <1>3
  <2>3. Upper(Xor8(f[k], Hi(w))) = 0 + 8 .. (0 + 8) + 8 - 1
    BY <2>1, <2>2
  <2> QED BY <1>2, <1>4, <2>3
<1>6. /\ z \in Nat /\ m \in Nat /\ x = z .. z + m - 1 /\ z <= 15
      /\ (m \in {1, 2, 4} \/ (z \in {0, 8} /\ m \in {8, 16}))
  BY <1>5
<1> HIDE DEF z, m
<1>7. CouldBeBitflip(x)
  BY <1>6, RunIsBitflip
<1> QED BY <1>7 DEF x

\* A byte that wraps by one has all its bits flipped.
LEMMA WrapsByOne ==
  ASSUME NEW x \in Octet, NEW j \in Deltas, CarriesOver(x, j), j = Carry(j)
  PROVE  U8(x + j) = 255 - x
<1> DEFINE z == x + j
<1>1. x \in Nat /\ x <= 255 /\ j \in Int /\ j # 0
  BY IsOctet, IsDelta
<1>2. (j = 1 /\ x = 255) \/ (j = -1 /\ x = 0)
  BY <1>1 DEF CarriesOver, Carry
<1>3. 255 - x \in Octet
  BY <1>1, IsOctet
<1> DEFINE r == 255 - x
<1>4. r \in Octet /\ z \in Int /\ (z = 256 * 1 + r \/ z = 256 * (-1) + r)
  BY <1>2, <1>3
<1> HIDE DEF z, r
<1>5. \E q \in Int : z = 256 * q + r
  <2> DEFINE a == 1  b == -1
  <2>1. a \in Int /\ b \in Int /\ (z = 256 * a + r \/ z = 256 * b + r)
    BY <1>4
  <2> HIDE DEF a, b
  <2> QED BY <2>1
<1>6. U8(z) = r
  BY <1>4, <1>5, U8Is
<1> QED BY <1>6 DEF z, r

\* u is a sum of w that arith 16/8 looks at.
SumOf(w, u, j, s) == j \in Deltas /\ s \in BOOLEAN /\ u = Sum16(w, j, s) /\ Carries(w, j, s)

\* Equal sums of one word are one turn: a sum in the one order that is also one in the
\* other adds one to 0xff in both bytes, or takes one from 0, and is a bit flip.
LEMMA WordSums ==
  ASSUME NEW f, IsFile(f), NEW i \in Words(f), NEW u, ~CouldBeBitflip(Xor16(WordAt(f, i), u)),
         NEW j, NEW s, SumOf(WordAt(f, i), u, j, s), NEW k, NEW r, SumOf(WordAt(f, i), u, k, r)
  PROVE  j = k /\ s = r
<1> DEFINE w == WordAt(f, i)
<1>1. /\ j \in Deltas /\ s \in BOOLEAN /\ u = Sum16(w, j, s) /\ Carries(w, j, s)
      /\ k \in Deltas /\ r \in BOOLEAN /\ u = Sum16(w, k, r) /\ Carries(w, k, r)
  BY DEF SumOf
<1>2. IsWord(w) /\ Lo(w) = f[i] /\ Hi(w) = f[i + 1] /\ Lo(w) \in Octet /\ Hi(w) \in Octet
  BY WordAtIs
<1>3. ~CouldBeBitflip(Xor16(w, u))
  OBVIOUS
<1> HIDE DEF w
<1>4. IsWord(u) /\ Moves(w, u, j, s) /\ Moves(w, u, k, r)
  BY <1>1, <1>2, Sum16Is, SumMoves
<1>5. Carry(j) \in Deltas /\ Carry(k) \in Deltas
  BY <1>1, CarryIs
<1>6. ASSUME s = r PROVE j = k
  <2>1. CASE s
    <3>1. U8(Hi(w) + j) = U8(Hi(w) + k)
      BY <1>4, <1>6, <2>1 DEF Moves
    <3> QED BY <1>1, <1>2, <3>1, ByteSums
  <2>2. CASE ~s
    <3>1. U8(Lo(w) + j) = U8(Lo(w) + k)
      BY <1>4, <1>6, <2>2 DEF Moves
    <3> QED BY <1>1, <1>2, <3>1, ByteSums
  <2> QED BY <2>1, <2>2
<1>7. ASSUME NEW a \in Deltas, NEW b \in Deltas, Moves(w, u, a, FALSE), Moves(w, u, b, TRUE),
             Carries(w, a, FALSE), Carries(w, b, TRUE)
      PROVE  FALSE
  <2>1. /\ Lo(u) = U8(Lo(w) + a) /\ Lo(u) = U8(Lo(w) + Carry(b))
        /\ Hi(u) = U8(Hi(w) + b) /\ Hi(u) = U8(Hi(w) + Carry(a))
    BY <1>7 DEF Moves
  <2>2. a = Carry(b) /\ b = Carry(a)
    <3>1. Carry(a) \in Deltas /\ Carry(b) \in Deltas
      BY CarryIs
    <3>2. a = Carry(b)
      BY <1>2, <2>1, <3>1, ByteSums
    <3>3. b = Carry(a)
      BY <1>2, <2>1, <3>1, ByteSums
    <3> QED BY <3>2, <3>3
  <2>3. a = Carry(a) /\ b = Carry(b)
    BY <2>2, IsDelta DEF Carry
  <2>4. CarriesOver(Lo(w), a) /\ CarriesOver(Hi(w), b)
    BY <1>7 DEF Carries
  <2>5. Lo(u) = 255 - f[i]
    <3>1. U8(Lo(w) + a) = 255 - Lo(w)
      BY <1>2, <2>3, <2>4, WrapsByOne
    <3> QED BY <1>2, <2>1, <3>1
  <2>6. Hi(u) = 255 - f[i + 1]
    <3>1. U8(Hi(w) + b) = 255 - Hi(w)
      BY <1>2, <2>3, <2>4, WrapsByOne
    <3> QED BY <1>2, <2>1, <3>1
  <2> QED BY <1>3, <1>4, <2>5, <2>6, AllOfWord DEF w
<1>8. s = r
  <2>1. CASE s /\ ~r
    <3>1. s = TRUE /\ r = FALSE
      BY <2>1
    <3> QED BY <1>1, <1>4, <1>7, <3>1
  <2>2. CASE ~s /\ r
    <3>1. s = FALSE /\ r = TRUE
      BY <2>2
    <3> QED BY <1>1, <1>4, <1>7, <3>1
  <2> QED BY <1>1, <2>1, <2>2
<1> QED BY <1>6, <1>8

\* could_be_arith knows every sum of a word.
LEMMA SumIsArith ==
  ASSUME NEW w, IsWord(w), NEW j \in Deltas, NEW s \in BOOLEAN
  PROVE  CouldBeArith16(w, Sum16(w, j, s))
<1> DEFINE u == Sum16(w, j, s)  p == SWAP16(w)
<1>1. IsWord(p)
  BY SwapIs
<1>2. CASE ~s
  <2>1. u = U16(w + j)
    BY <1>2 DEF Sum16
  <2>2. Near(w, U16(w + j), Wide)
    BY NearSum
  <2> HIDE DEF u
  <2>3. Near(w, u, Wide)
    BY <2>1, <2>2
  <2>4. CouldBeArith16(w, u)
    BY <2>3, NearWide, SMT DEF CouldBeArith16
  <2> QED BY <2>4 DEF u
<1>3. CASE s
  <2> DEFINE v == U16(p + j)  t == p + j
  <2>1. u = SWAP16(v)
    BY <1>3 DEF Sum16
  <2>2. IsWord(v)
    <3>1. t \in Int
      BY <1>1, IsDelta DEF IsWord
    <3> HIDE DEF t
    <3>2. IsWord(U16(t))
      BY <3>1, U16Is
    <3> QED BY <3>2 DEF t
  <2>3. Near(p, v, Wide)
    <3> HIDE DEF p
    <3> QED BY <1>1, NearSum
  <2> HIDE DEF u, v
  <2>4. SWAP16(u) = v
    BY <2>1, <2>2, SwapIs
  <2>5. Near(SWAP16(w), SWAP16(u), Wide)
    BY <2>3, <2>4 DEF p
  <2>6. CouldBeArith16(w, u)
    BY <2>5, NearWide, SMT DEF CouldBeArith16
  <2> QED BY <2>6 DEF u
<1> QED BY <1>2, <1>3

-----------------------------------------------------------------------------
(* Bytes and words that make the same file                                 *)

\* Bytes put in that make the same file are the same, at the same place.
LEMMA SameByte ==
  ASSUME NEW f, IsFile(f), NEW i \in Bytes(f), NEW p \in Bytes(f), NEW b \in Octet,
         NEW c \in Octet,
         PutByte(f, i, b) = PutByte(f, p, c), b # f[i]
  PROVE  i = p /\ b = c
<1> DEFINE g == PutByte(f, i, b)
<1>1. g[i] = b /\ g[p] = c /\ \A j \in Bytes(f) : j # p => g[j] = f[j]
  BY PutByteDoes
<1> HIDE DEF g
<1> QED BY <1>1

\* Words with the same bytes are the same.
LEMMA WordBytes ==
  ASSUME NEW w, NEW z, IsWord(w), IsWord(z), Lo(w) = Lo(z), Hi(w) = Hi(z)
  PROVE  w = z
BY LoHi

\* Words put in at one place that make the same file are the same.
LEMMA SameWord ==
  ASSUME NEW f, IsFile(f), NEW i \in Words(f), NEW w, NEW z, IsWord(w), IsWord(z),
         PutWord(f, i, w) = PutWord(f, i, z)
  PROVE  w = z
<1> DEFINE g == PutWord(f, i, w)  k == i + 1
<1>1. g[i] = Lo(w) /\ g[i] = Lo(z) /\ g[k] = Hi(w) /\ g[k] = Hi(z)
  BY PutWordDoes
<1> HIDE DEF g, k
<1> QED BY <1>1, WordBytes

\* Words at two places that make the same file, another than f, share a byte.
LEMMA WordsMeet ==
  ASSUME NEW f, IsFile(f), NEW i \in Words(f), NEW p \in Words(f), NEW w, NEW z, IsWord(w),
         IsWord(z),
         w # WordAt(f, i), PutWord(f, i, w) = PutWord(f, p, z)
  PROVE  i = p \/ i - p \in {-1, 1}
<1> DEFINE g == PutWord(f, i, w)  k == i + 1  q == p + 1
<1>1. /\ i \in Bytes(f) /\ k \in Bytes(f) /\ g[i] = Lo(w) /\ g[k] = Hi(w)
      /\ \A j \in Bytes(f) \ {p, q} : g[j] = f[j]
  BY PutWordDoes
<1>2. IsWord(WordAt(f, i)) /\ Lo(WordAt(f, i)) = f[i] /\ Hi(WordAt(f, i)) = f[k]
  BY WordAtIs
<1> HIDE DEF g
<1>3. Lo(w) # f[i] \/ Hi(w) # f[k]
  BY <1>2, WordBytes
<1>4. i \in {p, q} \/ k \in {p, q}
  <2> HIDE DEF k, q
  <2> QED BY <1>1, <1>3
<1> QED BY <1>4 DEF Words

\* When both bytes move, no word elsewhere and no single byte makes the same file.
LEMMA BothMove ==
  ASSUME NEW f, IsFile(f), NEW i \in Words(f), NEW w, IsWord(w), Lo(w) # f[i], Hi(w) # f[i + 1]
  PROVE  /\ \A p \in Words(f) : \A z : IsWord(z) /\ PutWord(f, i, w) = PutWord(f, p, z) => i = p
         /\ \A p \in Bytes(f), c \in Octet : PutWord(f, i, w) # PutByte(f, p, c)
<1> DEFINE g == PutWord(f, i, w)  k == i + 1
<1>1. i \in Bytes(f) /\ k \in Bytes(f) /\ g[i] = Lo(w) /\ g[k] = Hi(w) /\ i # k
  BY PutWordDoes
<1> HIDE DEF g
<1>2. ASSUME NEW p \in Words(f), NEW z, IsWord(z), g = PutWord(f, p, z) PROVE i = p
  <2> DEFINE q == p + 1
  <2>1. \A j \in Bytes(f) \ {p, q} : g[j] = f[j]
    BY <1>2, PutWordDoes
  <2>2. i \in {p, q} /\ k \in {p, q}
    <3> HIDE DEF q
    <3> QED BY <1>1, <2>1
  <2> QED BY <2>2 DEF Words
<1>3. ASSUME NEW p \in Bytes(f), NEW c \in Octet, g = PutByte(f, p, c) PROVE FALSE
  <2>1. \A j \in Bytes(f) : j # p => g[j] = f[j]
    BY <1>3, PutByteDoes
  <2> HIDE DEF k
  <2> QED BY <1>1, <2>1 DEF k
<1> QED BY <1>2, <1>3 DEF g

\* A byte that makes the file of a word is one of its two.
LEMMA ByteOfWord ==
  ASSUME NEW f, IsFile(f), NEW i \in Words(f), NEW w, IsWord(w), NEW p \in Bytes(f),
         NEW b \in Octet,
         b # f[p], PutByte(f, p, b) = PutWord(f, i, w)
  PROVE  \/ p = i /\ Lo(w) = b /\ Hi(w) = f[i + 1]
         \/ p = i + 1 /\ Lo(w) = f[i] /\ Hi(w) = b
<1> DEFINE g == PutWord(f, i, w)  k == i + 1
<1>1. /\ i \in Bytes(f) /\ k \in Bytes(f) /\ g[i] = Lo(w) /\ g[k] = Hi(w) /\ i # k
      /\ \A j \in Bytes(f) \ {i, k} : g[j] = f[j]
  BY PutWordDoes
<1>2. g[p] = b /\ \A j \in Bytes(f) : j # p => g[j] = f[j]
  BY PutByteDoes
<1> HIDE DEF g, k
<1>3. p = i \/ p = k
  BY <1>1, <1>2
<1> QED BY <1>1, <1>2, <1>3 DEF k

-----------------------------------------------------------------------------
(* The calls of the stages                                                 *)

\* A call of arith 8/8.
IsSum8(f, t) ==
  \E i \in Bytes(f), j \in Deltas :
    /\ t = <<"arith8", <<i, j>>, PutByte(f, i, U8(f[i] + j))>>
    /\ ~CouldBeBitflip(Xor8(f[i], U8(f[i] + j)))

\* A call of interest 8/8.
IsInt8(f, t) ==
  \E i \in Bytes(f), v \in INTERESTING_8 :
    /\ t = <<"int8", <<i, v>>, PutByte(f, i, U8(v))>>
    /\ ~CouldBeBitflip(Xor8(f[i], U8(v))) /\ ~CouldBeArith8(f[i], U8(v))

\* A call of arith 16/8.
IsSum16(f, t) ==
  \E i \in Words(f), j \in Deltas, s \in BOOLEAN :
    /\ t = <<"arith16", <<i, j, s>>, PutWord(f, i, Sum16(WordAt(f, i), j, s))>>
    /\ Carries(WordAt(f, i), j, s)
    /\ ~CouldBeBitflip(Xor16(WordAt(f, i), Sum16(WordAt(f, i), j, s)))

\* A call of interest 16/8.
IsInt16(f, t) ==
  \E i \in Words(f), v \in interesting_16, s \in BOOLEAN :
    /\ t = <<"int16", <<i, v, s>>, PutWord(f, i, Stored16(v, s))>>
    /\ ~CouldBeBitflip(Xor16(WordAt(f, i), Stored16(v, s)))
    /\ ~CouldBeArith16(WordAt(f, i), Stored16(v, s))
    /\ ~CouldBeInterest16(WordAt(f, i), Stored16(v, s), s)

\* A call of a walking stage.
Walks(f, t) == \E lo, n : IsFlip(f, t, lo, n)

\* A call, with what the helpers of its stage let through.
IsTrial(f, t) == Walks(f, t) \/ IsSum8(f, t) \/ IsInt8(f, t) \/ IsSum16(f, t) \/ IsInt16(f, t)

\* What the calls over bytes have in common: b is put at i.
ByteTurn(f, t, i, b) ==
  i \in Bytes(f) /\ b \in Octet /\ b # f[i] /\ t[3] = PutByte(f, i, b)
    /\ ~CouldBeBitflip(Xor8(f[i], b))

\* And those over words: w is put at i.
WordTurn(f, t, i, w) ==
  i \in Words(f) /\ IsWord(w) /\ w # WordAt(f, i) /\ t[3] = PutWord(f, i, w)
    /\ ~CouldBeBitflip(Xor16(WordAt(f, i), w))

\* A byte that is no bit flip is not the one that is there.
LEMMA NotAByte ==
  ASSUME NEW f, IsFile(f), NEW i \in Bytes(f), NEW b \in Octet, ~CouldBeBitflip(Xor8(f[i], b))
  PROVE  b # f[i]
<1>1. f[i] \in Octet
  BY ByteAt
<1>2. Xor8(f[i], b) # {}
  BY Bitflips
<1> QED BY <1>1, <1>2, Xor8Facts

\* Nor is such a word.
LEMMA NotAWord ==
  ASSUME NEW f, IsFile(f), NEW i \in Words(f), NEW w, IsWord(w),
         ~CouldBeBitflip(Xor16(WordAt(f, i), w))
  PROVE  w # WordAt(f, i)
<1> DEFINE k == i + 1  x == Xor16(WordAt(f, i), w)
<1>1. SUFFICES ASSUME w = WordAt(f, i) PROVE FALSE
  OBVIOUS
<1>2. f[i] \in Octet /\ f[k] \in Octet /\ Lo(w) = f[i] /\ Hi(w) = f[k]
  BY <1>1, WordAtIs
<1>3. x = Xor8(f[i], Lo(w)) \cup Upper(Xor8(f[k], Hi(w)))
  BY Xor16Is
<1>4. x # {}
  BY Bitflips
<1> HIDE DEF x, k
<1>5. Xor8(f[i], Lo(w)) = {} /\ Xor8(f[k], Hi(w)) = {}
  BY <1>2, Xor8Facts
<1> QED BY <1>3, <1>4, <1>5 DEF Upper

\* A call of arith 8/8 puts a sum.
LEMMA Sum8Turn ==
  ASSUME NEW f, IsFile(f), NEW t, IsSum8(f, t)
  PROVE  \E i \in Bytes(f), j \in Deltas :
           t = <<"arith8", <<i, j>>, t[3]>> /\ ByteTurn(f, t, i, U8(f[i] + j))
<1>1. PICK i \in Bytes(f), j \in Deltas :
        /\ t = <<"arith8", <<i, j>>, PutByte(f, i, U8(f[i] + j))>>
        /\ ~CouldBeBitflip(Xor8(f[i], U8(f[i] + j)))
  BY DEF IsSum8
<1> DEFINE b == U8(f[i] + j)
<1>2. b \in Octet
  BY ByteAt, ByteMoves
<1>3. t = <<"arith8", <<i, j>>, PutByte(f, i, b)>> /\ ~CouldBeBitflip(Xor8(f[i], b))
  BY <1>1
<1> HIDE DEF b
<1>4. ByteTurn(f, t, i, b)
  BY <1>2, <1>3, NotAByte DEF ByteTurn
<1> QED BY <1>3, <1>4 DEF b

\* A call of interest 8/8 puts an interesting value that is no sum.
LEMMA Int8Turn ==
  ASSUME NEW f, IsFile(f), NEW t, IsInt8(f, t)
  PROVE  \E i \in Bytes(f), v \in INTERESTING_8 :
           /\ t = <<"int8", <<i, v>>, t[3]>> /\ ByteTurn(f, t, i, U8(v))
           /\ ~CouldBeArith8(f[i], U8(v))
<1>1. PICK i \in Bytes(f), v \in INTERESTING_8 :
        /\ t = <<"int8", <<i, v>>, PutByte(f, i, U8(v))>>
        /\ ~CouldBeBitflip(Xor8(f[i], U8(v))) /\ ~CouldBeArith8(f[i], U8(v))
  BY DEF IsInt8
<1>2. U8(v) \in Octet
  BY Interesting, U8Is
<1>3. ByteTurn(f, t, i, U8(v))
  BY <1>1, <1>2, NotAByte DEF ByteTurn
<1> QED BY <1>1, <1>3

\* A call of arith 16/8 puts a sum that carries.
LEMMA Sum16Turn ==
  ASSUME NEW f, IsFile(f), NEW t, IsSum16(f, t)
  PROVE  \E i \in Words(f), j \in Deltas, s \in BOOLEAN :
           /\ t = <<"arith16", <<i, j, s>>, t[3]>>
           /\ WordTurn(f, t, i, Sum16(WordAt(f, i), j, s)) /\ Carries(WordAt(f, i), j, s)
<1>1. PICK i \in Words(f), j \in Deltas, s \in BOOLEAN :
        /\ t = <<"arith16", <<i, j, s>>, PutWord(f, i, Sum16(WordAt(f, i), j, s))>>
        /\ Carries(WordAt(f, i), j, s)
        /\ ~CouldBeBitflip(Xor16(WordAt(f, i), Sum16(WordAt(f, i), j, s)))
  BY DEF IsSum16
<1>2. IsWord(Sum16(WordAt(f, i), j, s))
  BY WordAtIs, Sum16Is
<1>3. WordTurn(f, t, i, Sum16(WordAt(f, i), j, s))
  BY <1>1, <1>2, NotAWord DEF WordTurn
<1> QED BY <1>1, <1>3

\* A call of interest 16/8: it puts an interesting word no helper knows.
Int16Call(f, t, i, v, s) ==
  /\ t = <<"int16", <<i, v, s>>, t[3]>> /\ WordTurn(f, t, i, Stored16(v, s))
  /\ ~CouldBeArith16(WordAt(f, i), Stored16(v, s))
  /\ ~CouldBeInterest16(WordAt(f, i), Stored16(v, s), s)

\* Every call of that stage is one.
LEMMA Int16Turn ==
  ASSUME NEW f, IsFile(f), NEW t, IsInt16(f, t)
  PROVE  \E i \in Words(f), v \in interesting_16, s \in BOOLEAN : Int16Call(f, t, i, v, s)
<1>1. PICK i \in Words(f), v \in interesting_16, s \in BOOLEAN :
        /\ t = <<"int16", <<i, v, s>>, PutWord(f, i, Stored16(v, s))>>
        /\ ~CouldBeBitflip(Xor16(WordAt(f, i), Stored16(v, s)))
        /\ ~CouldBeArith16(WordAt(f, i), Stored16(v, s))
        /\ ~CouldBeInterest16(WordAt(f, i), Stored16(v, s), s)
  BY DEF IsInt16
<1>2. IsWord(Stored16(v, s))
  BY Stored16Is
<1>3. WordTurn(f, t, i, Stored16(v, s))
  BY <1>1, <1>2, NotAWord DEF WordTurn
<1>4. t = <<"int16", <<i, v, s>>, t[3]>>
  BY <1>1
<1>5. Int16Call(f, t, i, v, s)
  BY <1>1, <1>3, <1>4, Zenon DEF Int16Call
<1> QED BY <1>5

\* Calls over bytes that make the same file put the same byte at the same place.
LEMMA TurnsMeet ==
  ASSUME NEW f, IsFile(f), NEW t, NEW u, t[3] = u[3], NEW i, NEW b, NEW p, NEW c,
         ByteTurn(f, t, i, b), ByteTurn(f, u, p, c)
  PROVE  i = p /\ b = c
<1>1. /\ i \in Bytes(f) /\ b \in Octet /\ b # f[i] /\ p \in Bytes(f) /\ c \in Octet
      /\ PutByte(f, i, b) = PutByte(f, p, c)
  BY DEF ByteTurn
<1> QED BY <1>1, SameByte

\* Two calls over bytes that make the same file are one.
LEMMA BytesOnce ==
  ASSUME NEW f, IsFile(f), NEW t, NEW u, t[3] = u[3],
         IsSum8(f, t) \/ IsInt8(f, t), IsSum8(f, u) \/ IsInt8(f, u)
  PROVE  t = u
<1>1. CASE IsSum8(f, t) /\ IsSum8(f, u)
  <2>1. PICK i \in Bytes(f), j \in Deltas :
          t = <<"arith8", <<i, j>>, t[3]>> /\ ByteTurn(f, t, i, U8(f[i] + j))
    BY <1>1, Sum8Turn
  <2>2. PICK p \in Bytes(f), k \in Deltas :
          u = <<"arith8", <<p, k>>, u[3]>> /\ ByteTurn(f, u, p, U8(f[p] + k))
    BY <1>1, Sum8Turn
  <2>3. i = p /\ U8(f[i] + j) = U8(f[p] + k)
    BY <2>1, <2>2, TurnsMeet
  <2>4. j = k
    BY <2>3, ByteSums, ByteAt
  <2> QED BY <2>1, <2>2, <2>3, <2>4
<1>2. ASSUME NEW x, NEW y, x[3] = y[3], IsSum8(f, x), IsInt8(f, y) PROVE FALSE
  <2>1. PICK i \in Bytes(f), j \in Deltas : ByteTurn(f, x, i, U8(f[i] + j))
    BY <1>2, Sum8Turn
  <2>2. PICK p \in Bytes(f), v \in INTERESTING_8 :
          ByteTurn(f, y, p, U8(v)) /\ ~CouldBeArith8(f[p], U8(v))
    BY <1>2, Int8Turn
  <2>3. i = p /\ U8(f[i] + j) = U8(v)
    BY <1>2, <2>1, <2>2, TurnsMeet
  <2>4. CouldBeArith8(f[i], U8(f[i] + j))
    BY ByteSumNear, ByteAt
  <2> QED BY <2>2, <2>3, <2>4
<1>3. CASE IsInt8(f, t) /\ IsInt8(f, u)
  <2>1. PICK i \in Bytes(f), v \in INTERESTING_8 :
          t = <<"int8", <<i, v>>, t[3]>> /\ ByteTurn(f, t, i, U8(v))
    BY <1>3, Int8Turn
  <2>2. PICK p \in Bytes(f), z \in INTERESTING_8 :
          u = <<"int8", <<p, z>>, u[3]>> /\ ByteTurn(f, u, p, U8(z))
    BY <1>3, Int8Turn
  <2>3. i = p /\ U8(v) = U8(z)
    BY <2>1, <2>2, TurnsMeet
  <2>4. v = z
    BY <2>3, Injective8
  <2> QED BY <2>1, <2>2, <2>3, <2>4
<1> QED BY <1>1, <1>2, <1>3

-----------------------------------------------------------------------------
(* Two calls that make the same file                                       *)

\* A call of arith 16/8, which moves both bytes.
SumCall(f, t, i, j, s, w) ==
  /\ i \in Words(f) /\ j \in Deltas /\ s \in BOOLEAN
  /\ t = <<"arith16", <<i, j, s>>, t[3]>> /\ w = Sum16(WordAt(f, i), j, s)
  /\ WordTurn(f, t, i, w) /\ Carries(WordAt(f, i), j, s)
  /\ Lo(w) # f[i] /\ Hi(w) # f[i + 1]

\* Every call of that stage is one.
LEMMA SumsMove ==
  ASSUME NEW f, IsFile(f), NEW t, IsSum16(f, t)
  PROVE  \E i, j, s, w : SumCall(f, t, i, j, s, w)
<1>1. PICK i \in Words(f), j \in Deltas, s \in BOOLEAN :
        /\ t = <<"arith16", <<i, j, s>>, t[3]>>
        /\ WordTurn(f, t, i, Sum16(WordAt(f, i), j, s)) /\ Carries(WordAt(f, i), j, s)
  BY Sum16Turn
<1> DEFINE o == WordAt(f, i)  w == Sum16(o, j, s)
<1>2. IsWord(o) /\ Lo(o) = f[i] /\ Hi(o) = f[i + 1]
  BY WordAtIs
<1>3. Carries(o, j, s) /\ WordTurn(f, t, i, w)
  BY <1>1
<1> HIDE DEF o
<1>4. Lo(w) # f[i] /\ Hi(w) # f[i + 1]
  BY <1>2, <1>3, SumMoves
<1>5. w = Sum16(WordAt(f, i), j, s) /\ Carries(WordAt(f, i), j, s)
  BY <1>3 DEF o
<1> HIDE DEF w
<1>6. SumCall(f, t, i, j, s, w)
  BY <1>1, <1>3, <1>4, <1>5, Zenon DEF SumCall
<1> QED BY <1>6

\* Two calls of arith 16/8 that make the same file are one.
LEMMA SumsOnce ==
  ASSUME NEW f, IsFile(f), NEW t, NEW u, t[3] = u[3], IsSum16(f, t), IsSum16(f, u)
  PROVE  t = u
<1>1. PICK i, j, s, w : SumCall(f, t, i, j, s, w)
  BY SumsMove
<1>2. PICK p, k, r, z : SumCall(f, u, p, k, r, z)
  BY SumsMove
<1>3. /\ i \in Words(f) /\ p \in Words(f)
      /\ IsWord(w) /\ IsWord(z) /\ PutWord(f, i, w) = PutWord(f, p, z)
      /\ ~CouldBeBitflip(Xor16(WordAt(f, i), w)) /\ Lo(w) # f[i] /\ Hi(w) # f[i + 1]
  BY <1>1, <1>2 DEF SumCall, WordTurn
<1>4. i = p
  BY <1>3, BothMove
<1>5. w = z
  BY <1>3, <1>4, SameWord
<1>6. SumOf(WordAt(f, i), w, j, s) /\ SumOf(WordAt(f, i), w, k, r)
  BY <1>1, <1>2, <1>4, <1>5 DEF SumCall, SumOf
<1>7. j = k /\ s = r
  BY <1>3, <1>6, WordSums
<1> QED BY <1>1, <1>2, <1>4, <1>7 DEF SumCall

\* A call of arith 16/8 makes nothing that one over bytes does.
LEMMA SumOrByte ==
  ASSUME NEW f, IsFile(f), NEW t, NEW u, t[3] = u[3], IsSum16(f, t), IsSum8(f, u) \/ IsInt8(f, u)
  PROVE  FALSE
<1>1. PICK i, j, s, w : SumCall(f, t, i, j, s, w)
  BY SumsMove
<1>2. i \in Words(f) /\ WordTurn(f, t, i, w) /\ Lo(w) # f[i] /\ Hi(w) # f[i + 1]
  BY <1>1 DEF SumCall
<1>3. \E p, b : ByteTurn(f, u, p, b)
  BY Sum8Turn, Int8Turn
<1>4. PICK p, b : ByteTurn(f, u, p, b)
  BY <1>3
<1>5. p \in Bytes(f) /\ b \in Octet /\ PutWord(f, i, w) = PutByte(f, p, b) /\ IsWord(w)
  BY <1>2, <1>4 DEF WordTurn, ByteTurn
<1> QED BY <1>2, <1>5, BothMove

\* Nor anything that one of interest 16/8 does.
LEMMA SumOrWord ==
  ASSUME NEW f, IsFile(f), NEW t, NEW u, t[3] = u[3], IsSum16(f, t), IsInt16(f, u)
  PROVE  FALSE
<1>1. PICK i, j, s, w : SumCall(f, t, i, j, s, w)
  BY SumsMove
<1>2. /\ i \in Words(f) /\ j \in Deltas /\ s \in BOOLEAN
      /\ w = Sum16(WordAt(f, i), j, s) /\ WordTurn(f, t, i, w) /\ Lo(w) # f[i] /\ Hi(w) # f[i + 1]
  BY <1>1 DEF SumCall
<1>3. PICK p \in Words(f), v \in interesting_16, r \in BOOLEAN : Int16Call(f, u, p, v, r)
  BY Int16Turn
<1> DEFINE z == Stored16(v, r)
<1>4. WordTurn(f, u, p, z) /\ ~CouldBeArith16(WordAt(f, p), z)
  BY <1>3 DEF Int16Call
<1> HIDE DEF z
<1>5. IsWord(w) /\ IsWord(z) /\ PutWord(f, i, w) = PutWord(f, p, z)
  BY <1>2, <1>4 DEF WordTurn
<1>6. i = p
  BY <1>2, <1>5, BothMove
<1>7. w = z
  BY <1>5, <1>6, SameWord
<1>8. CouldBeArith16(WordAt(f, i), w)
  BY <1>2, WordAtIs, SumIsArith
<1> QED BY <1>4, <1>6, <1>7, <1>8

\* could_be_arith knows a word with one byte that is a sum.
LEMMA ArithOfByte ==
  ASSUME NEW f, IsFile(f), NEW i \in Words(f), NEW w, IsWord(w),
         \/ Hi(w) = f[i + 1] /\ CouldBeArith8(f[i], Lo(w))
         \/ Lo(w) = f[i] /\ CouldBeArith8(f[i + 1], Hi(w))
  PROVE  CouldBeArith16(WordAt(f, i), w)
<1> DEFINE o == WordAt(f, i)
<1>1. Lo(o) = f[i] /\ Hi(o) = f[i + 1]
  BY WordAtIs
<1>2. /\ U8(o) = Lo(o) /\ U8(w) = Lo(w)
      /\ o \div 256 = Hi(o) /\ w \div 256 = Hi(w)
  BY DEF U8, Lo, Hi
<1> HIDE DEF o
<1>3. \/ U8(o) = U8(w) /\ Near(o \div 256, w \div 256, 256)
      \/ o \div 256 = w \div 256 /\ Near(U8(o), U8(w), 256)
  BY <1>1, <1>2 DEF CouldBeArith8
<1>4. CouldBeArith16(o, w)
  BY <1>3, SMT DEF CouldBeArith16
<1> QED BY <1>4 DEF o

\* could_be_interest knows a word with one byte that is interesting.
LEMMA InterestOfByte ==
  ASSUME NEW f, IsFile(f), NEW i \in Words(f), NEW w, IsWord(w), NEW s, NEW v \in INTERESTING_8,
         \/ Hi(w) = f[i + 1] /\ Lo(w) = U8(v)
         \/ Lo(w) = f[i] /\ Hi(w) = U8(v)
  PROVE  CouldBeInterest16(WordAt(f, i), w, s)
<1> DEFINE o == WordAt(f, i)  b == U8(v)
<1>1. /\ IsWord(o) /\ Lo(o) = f[i] /\ Hi(o) = f[i + 1] /\ o = Lo(o) + 256 * Hi(o)
      /\ Lo(o) \in Octet /\ Hi(o) \in Octet
  BY WordAtIs, LoHi
<1>2. Lo(w) \in Octet /\ Hi(w) \in Octet /\ w = Lo(w) + 256 * Hi(w)
  BY LoHi
<1>3. U8(o) = Lo(o)
  BY DEF U8, Lo
<1>4. b \in Octet
  BY Interesting, U8Is
<1>5. \/ Hi(w) = Hi(o) /\ Lo(w) = b
      \/ Lo(w) = Lo(o) /\ Hi(w) = b
  BY <1>1
<1> HIDE DEF o, b
<1>6. w = o - U8(o) + b \/ w = U8(o) + 256 * b
  BY <1>1, <1>2, <1>3, <1>4, <1>5, IsOctet
<1>7. \E q \in INTERESTING_8 : w = o - U8(o) + U8(q) \/ w = U8(o) + 256 * U8(q)
  BY <1>6 DEF b
<1>8. CouldBeInterest16(o, w, s)
  BY <1>7, Zenon DEF CouldBeInterest16
<1> QED BY <1>8 DEF o

\* A call of interest 16/8 makes nothing that one over bytes does.
LEMMA WordOrByte ==
  ASSUME NEW f, IsFile(f), NEW t, NEW u, t[3] = u[3], IsInt16(f, t), IsSum8(f, u) \/ IsInt8(f, u)
  PROVE  FALSE
<1>1. PICK i \in Words(f), v \in interesting_16, s \in BOOLEAN : Int16Call(f, t, i, v, s)
  BY Int16Turn
<1> DEFINE w == Stored16(v, s)
<1>2. /\ WordTurn(f, t, i, w) /\ ~CouldBeArith16(WordAt(f, i), w)
      /\ ~CouldBeInterest16(WordAt(f, i), w, s)
  BY <1>1 DEF Int16Call
<1> HIDE DEF w
<1>3. ASSUME NEW p, NEW b, ByteTurn(f, u, p, b)
      PROVE  /\ p \in Bytes(f) /\ IsWord(w)
             /\ \/ p = i /\ Lo(w) = b /\ Hi(w) = f[i + 1]
                \/ p = i + 1 /\ Lo(w) = f[i] /\ Hi(w) = b
  <2>1. /\ IsWord(w) /\ p \in Bytes(f) /\ b \in Octet /\ b # f[p]
        /\ PutByte(f, p, b) = PutWord(f, i, w)
    BY <1>2, <1>3 DEF WordTurn, ByteTurn
  <2> QED BY <2>1, ByteOfWord
<1>4. CASE IsSum8(f, u)
  <2>1. PICK p \in Bytes(f), j \in Deltas : ByteTurn(f, u, p, U8(f[p] + j))
    BY <1>4, Sum8Turn
  <2>2. CouldBeArith8(f[p], U8(f[p] + j))
    BY ByteSumNear, ByteAt
  <2>3. CouldBeArith16(WordAt(f, i), w)
    BY <1>3, <2>1, <2>2, ArithOfByte
  <2> QED BY <1>2, <2>3
<1>5. CASE IsInt8(f, u)
  <2>1. PICK p \in Bytes(f), q \in INTERESTING_8 : ByteTurn(f, u, p, U8(q))
    BY <1>5, Int8Turn
  <2>2. CouldBeInterest16(WordAt(f, i), w, s)
    BY <1>3, <2>1, InterestOfByte
  <2> QED BY <1>2, <2>2
<1> QED BY <1>4, <1>5

\* Two interesting words make the same file only at neighbouring places.
LEMMA WordsOnce ==
  ASSUME NEW f, IsFile(f), NEW t, NEW u, t[3] = u[3], IsInt16(f, t), IsInt16(f, u)
  PROVE  t = u \/ Overlapping(t, u)
<1>1. PICK i \in Words(f), v \in interesting_16, s \in BOOLEAN : Int16Call(f, t, i, v, s)
  BY Int16Turn
<1>2. PICK p \in Words(f), z \in interesting_16, r \in BOOLEAN : Int16Call(f, u, p, z, r)
  BY Int16Turn
<1> DEFINE w == Stored16(v, s)  y == Stored16(z, r)
<1>3. /\ IsWord(w) /\ IsWord(y) /\ PutWord(f, i, w) = PutWord(f, p, y) /\ w # WordAt(f, i)
      /\ ~CouldBeInterest16(WordAt(f, i), w, s) /\ ~CouldBeInterest16(WordAt(f, p), y, r)
  BY <1>1, <1>2 DEF Int16Call, WordTurn
<1>4. t = <<"int16", <<i, v, s>>, t[3]>> /\ u = <<"int16", <<p, z, r>>, u[3]>>
  BY <1>1, <1>2 DEF Int16Call
<1>5. /\ IsWord(U16(v)) /\ IsWord(U16(z))
      /\ w = IF s THEN SWAP16(U16(v)) ELSE U16(v)
      /\ y = IF r THEN SWAP16(U16(z)) ELSE U16(z)
  BY Stored16Is DEF Stored16
<1> HIDE DEF w, y
<1>6. CASE i = p
  <2>1. w = y
    BY <1>3, <1>6, SameWord
  <2>2. ASSUME NEW o, NEW x, NEW q \in interesting_16, x = U16(q)
        PROVE  CouldBeInterest16(o, x, TRUE)
    <3>1. x \in {U16(a) : a \in interesting_16}
      BY <2>2
    <3> QED BY <3>1, Zenon DEF CouldBeInterest16
  <2>3. s = r
    <3>1. CASE s /\ ~r
      <4>1. s = TRUE /\ w = U16(z)
        BY <1>5, <2>1, <3>1
      <4> QED BY <1>3, <2>2, <4>1
    <3>2. CASE ~s /\ r
      <4>1. r = TRUE /\ y = U16(v)
        BY <1>5, <2>1, <3>2
      <4> QED BY <1>3, <2>2, <4>1
    <3> QED BY <3>1, <3>2
  <2>4. U16(v) = U16(z)
    BY <1>5, <2>1, <2>3, SwapIs
  <2>5. v = z
    BY <2>4, Injective16
  <2> QED BY <1>4, <1>6, <2>3, <2>5
<1>7. CASE i # p
  <2>1. i - p \in {-1, 1}
    BY <1>3, <1>7, WordsMeet
  <2>2. t[1] = "int16" /\ u[1] = "int16" /\ t[2][1] = i /\ u[2][1] = p
    BY <1>4
  <2> QED BY <2>1, <2>2 DEF Overlapping
<1> QED BY <1>6, <1>7

\* A walking stage makes nothing that a call over bytes does.
LEMMA FlipOrByte ==
  ASSUME NEW f, IsFile(f), NEW t, NEW u, t[3] = u[3], Walks(f, t), IsSum8(f, u) \/ IsInt8(f, u)
  PROVE  FALSE
<1>1. PICK lo, n : IsFlip(f, t, lo, n)
  BY DEF Walks
<1>2. FlipMakes(f, t[3], lo, n)
  BY <1>1, FlipRuns
<1>3. \E i, b : ByteTurn(f, u, i, b)
  BY Sum8Turn, Int8Turn
<1>4. PICK i, b : ByteTurn(f, u, i, b)
  BY <1>3
<1> QED BY <1>2, <1>4, FlipByte DEF ByteTurn

\* A walking stage's call has its name.
LEMMA FlipsWalk ==
  ASSUME NEW f, NEW t, Walks(f, t)
  PROVE  t[1] \in Walking
<1>1. PICK lo, n : IsFlip(f, t, lo, n)
  BY DEF Walks
<1>2. \/ \E x, y : t = <<"flip1", x, y>> \/ t = <<"flip2", x, y>> \/ t = <<"flip4", x, y>>
      \/ \E x, y : t = <<"flip8", x, y>> \/ t = <<"flip16", x, y>>
  BY <1>1, Zenon DEF IsFlip
<1> QED BY <1>2 DEF Walking

\* The calls over words are of other stages.
LEMMA WordsDoNot ==
  ASSUME NEW f, IsFile(f), NEW t, IsSum16(f, t) \/ IsInt16(f, t)
  PROVE  t[1] \notin Walking
<1>1. \E x, y : t = <<"arith16", x, y>> \/ t = <<"int16", x, y>>
  BY Zenon DEF IsSum16, IsInt16
<1> QED BY <1>1 DEF Walking

\* What a walking stage and a call over words both make is across the seam of a word.
LEMMA FlipOrWord ==
  ASSUME NEW f, IsFile(f), NEW t, NEW u, t[3] = u[3], Walks(f, t), IsSum16(f, u) \/ IsInt16(f, u)
  PROVE  FlippedAcross(f, t, u) /\ FlippedAcross(f, u, t)
<1>1. PICK lo, n : IsFlip(f, t, lo, n)
  BY DEF Walks
<1>2. FlipMakes(f, t[3], lo, n) /\ (n \in {8, 16} => \E p \in Nat \ {0} : lo = 8 * (p - 1))
  BY <1>1, FlipRuns, FlipAligned
<1>3. \E i, w : WordTurn(f, u, i, w)
  BY Sum16Turn, Int16Turn DEF Int16Call
<1>4. PICK i, w : WordTurn(f, u, i, w)
  BY <1>3
<1>5. AcrossFileSeam(f, t[3])
  BY <1>2, <1>4, FlipWord DEF WordTurn
<1>6. t[1] \in Walking /\ u[1] \notin Walking
  BY FlipsWalk, WordsDoNot
<1> QED BY <1>5, <1>6 DEF FlippedAcross

\* Two calls that make the same file are one, but for the exceptions of
\* ValuesTriedOnce.
LEMMA TrialsOnce ==
  ASSUME NEW f, IsFile(f), NEW t, NEW u, IsTrial(f, t), IsTrial(f, u), t # u, t[3] = u[3]
  PROVE  FlippedAcross(f, t, u) \/ Overlapping(t, u)
<1>1. CASE Walks(f, t)
  <2>1. CASE Walks(f, u)
    BY <1>1, <2>1, FlipFlip DEF Walks
  <2>2. CASE IsSum8(f, u) \/ IsInt8(f, u)
    BY <1>1, <2>2, FlipOrByte
  <2>3. CASE IsSum16(f, u) \/ IsInt16(f, u)
    BY <1>1, <2>3, FlipOrWord
  <2> QED BY <2>1, <2>2, <2>3 DEF IsTrial
<1>2. CASE IsSum8(f, t) \/ IsInt8(f, t)
  <2>1. CASE Walks(f, u)
    BY <1>2, <2>1, FlipOrByte
  <2>2. CASE IsSum8(f, u) \/ IsInt8(f, u)
    BY <1>2, <2>2, BytesOnce
  <2>3. CASE IsSum16(f, u)
    BY <1>2, <2>3, SumOrByte
  <2>4. CASE IsInt16(f, u)
    BY <1>2, <2>4, WordOrByte
  <2> QED BY <2>1, <2>2, <2>3, <2>4 DEF IsTrial
<1>3. CASE IsSum16(f, t)
  <2>1. CASE Walks(f, u)
    BY <1>3, <2>1, FlipOrWord
  <2>2. CASE IsSum8(f, u) \/ IsInt8(f, u)
    BY <1>3, <2>2, SumOrByte
  <2>3. CASE IsSum16(f, u)
    BY <1>3, <2>3, SumsOnce
  <2>4. CASE IsInt16(f, u)
    BY <1>3, <2>4, SumOrWord
  <2> QED BY <2>1, <2>2, <2>3, <2>4 DEF IsTrial
<1>4. CASE IsInt16(f, t)
  <2>1. CASE Walks(f, u)
    BY <1>4, <2>1, FlipOrWord
  <2>2. CASE IsSum8(f, u) \/ IsInt8(f, u)
    BY <1>4, <2>2, WordOrByte
  <2>3. CASE IsSum16(f, u)
    BY <1>4, <2>3, SumOrWord
  <2>4. CASE IsInt16(f, u)
    BY <1>4, <2>4, WordsOnce
  <2> QED BY <2>1, <2>2, <2>3, <2>4 DEF IsTrial
<1> QED BY <1>1, <1>2, <1>3, <1>4 DEF IsTrial

-----------------------------------------------------------------------------
(* Nothing is tried twice: ValuesTriedOnce                                 *)

\* The invariant of ValuesTriedOnce: every call is one of these.
Turns == file \in Files /\ \A t \in trials : IsTrial(file, t)

\* There is no call at first.
LEMMA InitTurns == Init => Turns
BY DEF Init, Turns

\* A stage adds calls; the others stay what they are.
LEMMA MoreTurns ==
  ASSUME NEW name, NEW calls, Run(name, calls), Turns,
         \A c \in calls : IsTrial(file, <<name, c[1], c[2]>>)
  PROVE  Turns'
<1>1. file' = file /\ trials' = trials \cup {<<name, c[1], c[2]>> : c \in calls}
  BY DEF Run
<1>2. ASSUME NEW t \in trials' PROVE IsTrial(file, t)
  <2>1. CASE t \in trials
    BY <2>1 DEF Turns
  <2>2. CASE t \in {<<name, c[1], c[2]>> : c \in calls}
    <3>1. PICK c \in calls : t = <<name, c[1], c[2]>>
      BY <2>2, Zenon
    <3> QED BY <3>1
  <2> QED BY <1>1, <2>1, <2>2
<1>3. file' \in Files /\ \A t \in trials' : IsTrial(file', t)
  BY <1>1, <1>2 DEF Turns
<1> QED BY <1>3 DEF Turns

\* Every stage makes the calls of its loop only.
LEMMA StepTurns == Turns /\ [Next]_vars => Turns'
<1> SUFFICES ASSUME Turns, [Next]_vars PROVE Turns'
  OBVIOUS
<1>1. CASE Flip1
  <2> DEFINE calls == {<<b, FLIP_BIT(file, b)>> : b \in 0..(8 * Len(file) - 1)}
  <2>1. Run("flip1", calls)
    BY <1>1 DEF Flip1
  <2>2. ASSUME NEW c \in calls PROVE IsTrial(file, <<"flip1", c[1], c[2]>>)
    <3>1. PICK b \in 0..(8 * Len(file) - 1) : c = <<b, FLIP_BIT(file, b)>>
      BY <2>2
    <3>2. IsFlip(file, <<"flip1", c[1], c[2]>>, b, 1)
      BY <3>1 DEF IsFlip
    <3> QED BY <3>2 DEF IsTrial, Walks
  <2> HIDE DEF calls
  <2> QED BY <2>1, <2>2, MoreTurns
<1>2. CASE Flip2
  <2> DEFINE calls == {<<b, Flip2Bits(file, b)>> : b \in 0..(8 * Len(file) - 2)}
  <2>1. Run("flip2", calls)
    BY <1>2 DEF Flip2
  <2>2. ASSUME NEW c \in calls PROVE IsTrial(file, <<"flip2", c[1], c[2]>>)
    <3>1. PICK b \in 0..(8 * Len(file) - 2) : c = <<b, Flip2Bits(file, b)>>
      BY <2>2
    <3>2. IsFlip(file, <<"flip2", c[1], c[2]>>, b, 2)
      BY <3>1 DEF IsFlip
    <3> QED BY <3>2 DEF IsTrial, Walks
  <2> HIDE DEF calls
  <2> QED BY <2>1, <2>2, MoreTurns
<1>3. CASE Flip4
  <2> DEFINE calls == {<<b, Flip4Bits(file, b)>> : b \in 0..(8 * Len(file) - 4)}
  <2>1. Run("flip4", calls)
    BY <1>3 DEF Flip4
  <2>2. ASSUME NEW c \in calls PROVE IsTrial(file, <<"flip4", c[1], c[2]>>)
    <3>1. PICK b \in 0..(8 * Len(file) - 4) : c = <<b, Flip4Bits(file, b)>>
      BY <2>2
    <3>2. IsFlip(file, <<"flip4", c[1], c[2]>>, b, 4)
      BY <3>1 DEF IsFlip
    <3> QED BY <3>2 DEF IsTrial, Walks
  <2> HIDE DEF calls
  <2> QED BY <2>1, <2>2, MoreTurns
<1>4. CASE Flip8
  <2> DEFINE calls == {<<i, PutByte(file, i, 255 - file[i])>> : i \in Bytes(file)}
  <2>1. Run("flip8", calls)
    BY <1>4 DEF Flip8
  <2>2. ASSUME NEW c \in calls PROVE IsTrial(file, <<"flip8", c[1], c[2]>>)
    <3>1. PICK i \in Bytes(file) : c = <<i, PutByte(file, i, 255 - file[i])>>
      BY <2>2
    <3>2. IsFlip(file, <<"flip8", c[1], c[2]>>, 8 * (i - 1), 8)
      BY <3>1 DEF IsFlip
    <3> QED BY <3>2 DEF IsTrial, Walks
  <2> HIDE DEF calls
  <2> QED BY <2>1, <2>2, MoreTurns
<1>5. CASE Flip16
  <2> DEFINE calls == {<<i, PutWord(file, i, Wide - 1 - WordAt(file, i))>> : i \in Words(file)}
  <2>1. Run("flip16", calls)
    <3>1. 65535 = Wide - 1
      BY WideIs, SMT
    <3> QED BY <1>5, <3>1, SMT DEF Flip16
  <2>2. ASSUME NEW c \in calls PROVE IsTrial(file, <<"flip16", c[1], c[2]>>)
    <3>1. PICK i \in Words(file) : c = <<i, PutWord(file, i, Wide - 1 - WordAt(file, i))>>
      BY <2>2
    <3>2. IsFlip(file, <<"flip16", c[1], c[2]>>, 8 * (i - 1), 16)
      BY <3>1 DEF IsFlip
    <3> QED BY <3>2 DEF IsTrial, Walks
  <2> HIDE DEF calls
  <2> QED BY <2>1, <2>2, MoreTurns
<1>6. CASE Arith8
  <2> DEFINE turns == {d \in Bytes(file) \X Deltas :
                         ~CouldBeBitflip(Xor8(file[d[1]], U8(file[d[1]] + d[2])))}
             calls == {<<c, PutByte(file, c[1], U8(file[c[1]] + c[2]))>> : c \in turns}
  <2>1. Run("arith8", calls)
    BY <1>6 DEF Arith8
  <2>2. ASSUME NEW c \in calls PROVE IsTrial(file, <<"arith8", c[1], c[2]>>)
    <3>1. PICK d \in turns : c = <<d, PutByte(file, d[1], U8(file[d[1]] + d[2]))>>
      BY <2>2
    <3>2. PICK i \in Bytes(file), j \in Deltas : d = <<i, j>>
      OBVIOUS
    <3>3. ~CouldBeBitflip(Xor8(file[i], U8(file[i] + j)))
      BY <3>2
    <3>4. c = <<<<i, j>>, PutByte(file, i, U8(file[i] + j))>>
      BY <3>1, <3>2
    <3> HIDE DEF turns, calls
    <3>5. IsSum8(file, <<"arith8", c[1], c[2]>>)
      BY <3>3, <3>4 DEF IsSum8
    <3> QED BY <3>5 DEF IsTrial
  <2> HIDE DEF calls, turns
  <2> QED BY <2>1, <2>2, MoreTurns
<1>7. CASE Arith16
  <2> DEFINE turns == {d \in Words(file) \X Deltas \X BOOLEAN :
                         LET orig == WordAt(file, d[1])
                         IN /\ CarriesOver(IF d[3] THEN file[d[1] + 1] ELSE file[d[1]], d[2])
                            /\ ~CouldBeBitflip(Xor16(orig, Sum16(orig, d[2], d[3])))}
             calls == {<<c, PutWord(file, c[1], Sum16(WordAt(file, c[1]), c[2], c[3]))>> :
                         c \in turns}
  <2>1. Run("arith16", calls)
    BY <1>7 DEF Arith16
  <2>2. ASSUME NEW c \in calls PROVE IsTrial(file, <<"arith16", c[1], c[2]>>)
    <3>1. PICK d \in turns :
            c = <<d, PutWord(file, d[1], Sum16(WordAt(file, d[1]), d[2], d[3]))>>
      BY <2>2
    <3>2. PICK i \in Words(file), j \in Deltas, s \in BOOLEAN : d = <<i, j, s>>
      OBVIOUS
    <3>3. /\ CarriesOver(IF s THEN file[i + 1] ELSE file[i], j)
          /\ ~CouldBeBitflip(Xor16(WordAt(file, i), Sum16(WordAt(file, i), j, s)))
      BY <3>2
    <3>4. c = <<<<i, j, s>>, PutWord(file, i, Sum16(WordAt(file, i), j, s))>>
      BY <3>1, <3>2
    <3> HIDE DEF turns, calls
    <3>5. Carries(WordAt(file, i), j, s)
      BY <3>3, FilesAre, WordAtIs DEF Carries, Turns
    <3>6. IsSum16(file, <<"arith16", c[1], c[2]>>)
      BY <3>3, <3>4, <3>5 DEF IsSum16
    <3> QED BY <3>6 DEF IsTrial
  <2> HIDE DEF calls, turns
  <2> QED BY <2>1, <2>2, MoreTurns
<1>8. CASE Interest8
  <2> DEFINE turns == {d \in Bytes(file) \X INTERESTING_8 :
                         /\ ~CouldBeBitflip(Xor8(file[d[1]], U8(d[2])))
                         /\ ~CouldBeArith8(file[d[1]], U8(d[2]))}
             calls == {<<c, PutByte(file, c[1], U8(c[2]))>> : c \in turns}
  <2>1. Run("int8", calls)
    BY <1>8 DEF Interest8
  <2>2. ASSUME NEW c \in calls PROVE IsTrial(file, <<"int8", c[1], c[2]>>)
    <3>1. PICK d \in turns : c = <<d, PutByte(file, d[1], U8(d[2]))>>
      BY <2>2
    <3>2. PICK i \in Bytes(file), v \in INTERESTING_8 : d = <<i, v>>
      OBVIOUS
    <3>3. ~CouldBeBitflip(Xor8(file[i], U8(v))) /\ ~CouldBeArith8(file[i], U8(v))
      BY <3>2
    <3>4. c = <<<<i, v>>, PutByte(file, i, U8(v))>>
      BY <3>1, <3>2
    <3> HIDE DEF turns, calls
    <3>5. IsInt8(file, <<"int8", c[1], c[2]>>)
      BY <3>3, <3>4 DEF IsInt8
    <3> QED BY <3>5 DEF IsTrial
  <2> HIDE DEF calls, turns
  <2> QED BY <2>1, <2>2, MoreTurns
<1>9. CASE Interest16
  <2> DEFINE turns == {d \in Words(file) \X interesting_16 \X BOOLEAN :
                         LET orig == WordAt(file, d[1])
                             new  == Stored16(d[2], d[3])
                         IN /\ d[3] => U16(d[2]) # new
                            /\ ~CouldBeBitflip(Xor16(orig, new))
                            /\ ~CouldBeArith16(orig, new)
                            /\ ~CouldBeInterest16(orig, new, d[3])}
             calls == {<<c, PutWord(file, c[1], Stored16(c[2], c[3]))>> : c \in turns}
  <2>1. Run("int16", calls)
    BY <1>9 DEF Interest16
  <2>2. ASSUME NEW c \in calls PROVE IsTrial(file, <<"int16", c[1], c[2]>>)
    <3>1. PICK d \in turns : c = <<d, PutWord(file, d[1], Stored16(d[2], d[3]))>>
      BY <2>2
    <3>2. PICK i \in Words(file), v \in interesting_16, s \in BOOLEAN : d = <<i, v, s>>
      OBVIOUS
    <3>3. /\ ~CouldBeBitflip(Xor16(WordAt(file, i), Stored16(v, s)))
          /\ ~CouldBeArith16(WordAt(file, i), Stored16(v, s))
          /\ ~CouldBeInterest16(WordAt(file, i), Stored16(v, s), s)
      BY <3>2
    <3>4. c = <<<<i, v, s>>, PutWord(file, i, Stored16(v, s))>>
      BY <3>1, <3>2
    <3> HIDE DEF turns, calls
    <3>5. IsInt16(file, <<"int16", c[1], c[2]>>)
      BY <3>3, <3>4 DEF IsInt16
    <3> QED BY <3>5 DEF IsTrial
  <2> HIDE DEF calls, turns
  <2> QED BY <2>1, <2>2, MoreTurns
<1>10. CASE UNCHANGED vars
  BY <1>10 DEF Turns, vars
<1> QED BY <1>1, <1>2, <1>3, <1>4, <1>5, <1>6, <1>7, <1>8, <1>9, <1>10 DEF Next, Done

\* A call is made with another file of the same length.
LEMMA TrialMakes ==
  ASSUME NEW f, IsFile(f), NEW t, IsTrial(f, t)
  PROVE  t[3] # f /\ Len(t[3]) = Len(f) /\ IsFile(t[3])
<1> DEFINE g == t[3]
<1>1. CASE Walks(f, t)
  <2>1. PICK lo, n : IsFlip(f, t, lo, n)
    BY <1>1 DEF Walks
  <2>2. FlipMakes(f, g, lo, n)
    BY <2>1, FlipRuns
  <2>3. IsFile(g) /\ Len(g) = Len(f) /\ lo \in Flipped(f, g)
    BY <2>2 DEF FlipMakes
  <2>4. Flipped(f, f) = {}
    BY DEF Flipped
  <2> QED BY <2>3, <2>4
<1>2. CASE IsSum8(f, t) \/ IsInt8(f, t)
  <2>1. \E i, b : ByteTurn(f, t, i, b)
    BY <1>2, Sum8Turn, Int8Turn
  <2>2. PICK i, b : ByteTurn(f, t, i, b)
    BY <2>1
  <2>3. i \in Bytes(f) /\ b \in Octet /\ b # f[i] /\ g = PutByte(f, i, b)
    BY <2>2 DEF ByteTurn
  <2>4. IsFile(g) /\ Len(g) = Len(f) /\ g[i] = b
    BY <2>3, PutByteDoes
  <2> QED BY <2>3, <2>4
<1>3. CASE IsSum16(f, t) \/ IsInt16(f, t)
  <2>1. \E i, w : WordTurn(f, t, i, w)
    BY <1>3, Sum16Turn, Int16Turn DEF Int16Call
  <2>2. PICK i, w : WordTurn(f, t, i, w)
    BY <2>1
  <2>3. i \in Words(f) /\ IsWord(w) /\ w # WordAt(f, i) /\ g = PutWord(f, i, w)
    BY <2>2 DEF WordTurn
  <2> DEFINE k == i + 1
  <2>4. IsFile(g) /\ Len(g) = Len(f) /\ g[i] = Lo(w) /\ g[k] = Hi(w)
    BY <2>3, PutWordDoes
  <2>5. IsWord(WordAt(f, i)) /\ Lo(WordAt(f, i)) = f[i] /\ Hi(WordAt(f, i)) = f[k]
    BY <2>3, WordAtIs
  <2> HIDE DEF k, g
  <2>6. Lo(w) # f[i] \/ Hi(w) # f[k]
    BY <2>3, <2>5, WordBytes
  <2> QED BY <2>4, <2>6 DEF g
<1> QED BY <1>1, <1>2, <1>3 DEF IsTrial

\* What the invariant says of two calls.
LEMMA TurnsTriedOnce == Turns => ValuesTriedOnce
<1> SUFFICES ASSUME Turns PROVE ValuesTriedOnce
  OBVIOUS
<1>1. IsFile(file) /\ \A t \in trials : IsTrial(file, t)
  BY FilesAre DEF Turns
<1>2. ASSUME NEW t \in trials
      PROVE  t[3] # file /\ Len(t[3]) = Len(file) /\ t[3] \in Seq(0..255)
  <2>1. t[3] # file /\ Len(t[3]) = Len(file) /\ IsFile(t[3])
    BY <1>1, TrialMakes
  <2> QED BY <2>1, Zenon DEF IsFile, Octet
<1>3. ASSUME NEW t \in trials, NEW u \in trials, t # u, t[3] = u[3]
      PROVE  FlippedAcross(file, t, u) \/ Overlapping(t, u)
  BY <1>1, <1>3, TrialsOnce
<1> QED BY <1>2, <1>3, Zenon DEF ValuesTriedOnce

\* No file is executed twice by these stages, nor the test case as it is: what two
\* turns both make was left out of the later one, but for patterns across a seam and
\* interesting words at neighbouring places.
THEOREM ValuesAreTriedOnce == Spec => []ValuesTriedOnce
<1>1. Spec => []Turns
  BY InitTurns, StepTurns, PTL DEF Spec
<1> QED BY <1>1, TurnsTriedOnce, PTL
=============================================================================
