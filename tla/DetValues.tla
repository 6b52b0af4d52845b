----------------------------- MODULE DetValues -----------------------------
(***************************************************************************)
(* The values the deterministic stages of fuzz_one try: walking bit flips, *)
(* additions and subtractions, interesting integers, and the three helpers *)
(* by which a stage leaves out what an earlier stage has tried already.    *)
(*                                                                         *)
(* A file is a sequence of bytes, a step a whole stage.  Words are read    *)
(* the little-endian way of x86, where the code casts out_buf + i.         *)
(* The stages over 32 bits are left out, and so is the effector map, which *)
(* is in FuzzOne.  Every byte counts as one with an effect.                *)
(* AFL_NO_ARITH, by which a user has the stages of additions and the one   *)
(* of interesting words jumped over, is not set.                           *)
(***************************************************************************)
EXTENDS Integers, Sequences

CONSTANT Files   \* the test cases fuzz_one takes, one at a time

ASSUME FilesAssumption == \A f \in Files : f \in Seq(0..255) /\ f # <<>>

ARITH_MAX == 35
INTERESTING_8  == {-128, -1, 0, 1, 16, 32, 64, 100, 127}
interesting_16 == INTERESTING_8 \cup
  {-32768, -129, 128, 255, 256, 512, 1000, 1024, 4096, 32767}

VARIABLES
  file,     \* the test case
  stage,    \* the stage that comes next
  trials    \* what common_fuzz_stuff was called with, and by which loop

vars == <<file, stage, trials>>

Stages == <<"flip1", "flip2", "flip4", "flip8", "flip16", "arith8", "arith16",
            "int8", "int16", "done">>

-----------------------------------------------------------------------------
(* Words, and what a stage does to one byte or one word of the file.       *)

U8(v) == v % 256
U16(v) == v % 65536
SWAP16(w) == (w % 256) * 256 + w \div 256

Bytes(f) == 1..Len(f)
Words(f) == 1..(Len(f) - 1)
WordAt(f, i) == f[i] + 256 * f[i + 1]
PutByte(f, i, v) == [f EXCEPT ![i] = v]
PutWord(f, i, w) == [f EXCEPT ![i] = w % 256, ![i + 1] = w \div 256]

Power == <<1, 2, 4, 8, 16, 32, 64, 128>>
Bit(v, k) == (v \div Power[k + 1]) % 2
FlipBit(v, k) == IF Bit(v, k) = 1 THEN v - Power[k + 1] ELSE v + Power[k + 1]

\* Bit 0 of the file is the highest one of its first byte.
FLIP_BIT(f, b) == [f EXCEPT ![b \div 8 + 1] = FlipBit(@, 7 - (b % 8))]

Flip2Bits(f, b) == FLIP_BIT(FLIP_BIT(f, b), b + 1)
Flip4Bits(f, b) == Flip2Bits(Flip2Bits(f, b), b + 2)

\* x ^ y, as the numbers of the bits that are set in it.
Xor8(x, y) == {k \in 0..7 : Bit(x, k) # Bit(y, k)}
Xor16(x, y) == Xor8(U8(x), U8(y)) \cup {k + 8 : k \in Xor8(x \div 256, y \div 256)}

-----------------------------------------------------------------------------
(* could_be_bitflip, could_be_arith, could_be_interest                     *)

\* Mutant: four-bit patterns are not known to be flips.
ShortPatternsOnly(x) ==
  \/ x = {}
  \/ \E sh \in 0..15, n \in {1, 2} : x = sh..(sh + n - 1)
  \/ \E sh \in {0, 8}, n \in {8, 16} : x = sh..(sh + n - 1)

CouldBeBitflip(x) ==
  \/ x = {}
  \/ \E sh \in 0..15, n \in {1, 2, 4} : x = sh..(sh + n - 1)
  \/ \E sh \in {0, 8}, n \in {8, 16} : x = sh..(sh + n - 1)

Near(a, b, width) == (a - b) % width <= ARITH_MAX \/ (b - a) % width <= ARITH_MAX

CouldBeArith8(old, new) == Near(old, new, 256)

CouldBeArith16(old, new) ==
  \/ U8(old) = U8(new) /\ Near(old \div 256, new \div 256, 256)
  \/ old \div 256 = new \div 256 /\ Near(U8(old), U8(new), 256)
  \/ Near(old, new, 65536)
  \/ Near(SWAP16(old), SWAP16(new), 65536)

\* Mutant: check_le is not looked at.
CouldBeInterestLE(old, new, check_le) ==
  \/ \E v \in INTERESTING_8 :
       \/ new = old - U8(old) + U8(v)
       \/ new = U8(old) + 256 * U8(v)
  \/ new \in {U16(v) : v \in interesting_16}

CouldBeInterest16(old, new, check_le) ==
  \/ old = new
  \/ \E v \in INTERESTING_8 :
       \/ new = old - U8(old) + U8(v)
       \/ new = U8(old) + 256 * U8(v)
  \/ check_le /\ new \in {U16(v) : v \in interesting_16}

-----------------------------------------------------------------------------
(* The stages.  A trial is a pair: which turn of which loop, and the file. *)

Init == file \in Files /\ stage = 1 /\ trials = {}

Run(name, calls) ==
  /\ Stages[stage] = name
  /\ trials' = trials \cup {<<name, c[1], c[2]>> : c \in calls}
  /\ stage' = stage + 1
  /\ UNCHANGED file

Flip1 == Run("flip1", {<<b, FLIP_BIT(file, b)>> : b \in 0..(8 * Len(file) - 1)})
Flip2 == Run("flip2", {<<b, Flip2Bits(file, b)>> : b \in 0..(8 * Len(file) - 2)})
Flip4 == Run("flip4", {<<b, Flip4Bits(file, b)>> : b \in 0..(8 * Len(file) - 4)})

Flip8  == Run("flip8", {<<i, PutByte(file, i, 255 - file[i])>> : i \in Bytes(file)})
Flip16 == Run("flip16", {<<i, PutWord(file, i, 65535 - WordAt(file, i))>> : i \in Words(file)})

Steps == 1..ARITH_MAX
Deltas == Steps \cup {-j : j \in Steps}

Arith8 ==
  Run("arith8",
    {<<c, PutByte(file, c[1], U8(file[c[1]] + c[2]))>> :
       c \in {d \in Bytes(file) \X Deltas :
                ~CouldBeBitflip(Xor8(file[d[1]], U8(file[d[1]] + d[2])))}})

\* A sum carries, or a difference borrows, out of the byte it starts in.
CarriesOver(byte, j) == byte + j > 255 \/ byte + j < 0

Sum16(w, j, swapped) == IF swapped THEN SWAP16(U16(SWAP16(w) + j)) ELSE U16(w + j)

Arith16 ==
  Run("arith16",
    {<<c, PutWord(file, c[1], Sum16(WordAt(file, c[1]), c[2], c[3]))>> :
       c \in {d \in Words(file) \X Deltas \X BOOLEAN :
                LET orig == WordAt(file, d[1])
                IN /\ CarriesOver(IF d[3] THEN file[d[1] + 1] ELSE file[d[1]], d[2])
                   /\ ~CouldBeBitflip(Xor16(orig, Sum16(orig, d[2], d[3])))}})

Interest8 ==
  Run("int8",
    {<<c, PutByte(file, c[1], U8(c[2]))>> :
       c \in {d \in Bytes(file) \X INTERESTING_8 :
                /\ ~CouldBeBitflip(Xor8(file[d[1]], U8(d[2])))
                /\ ~CouldBeArith8(file[d[1]], U8(d[2]))}})

Stored16(v, swapped) == IF swapped THEN SWAP16(U16(v)) ELSE U16(v)

Interest16 ==
  Run("int16",
    {<<c, PutWord(file, c[1], Stored16(c[2], c[3]))>> :
       c \in {d \in Words(file) \X interesting_16 \X BOOLEAN :
                LET orig == WordAt(file, d[1])
                    new  == Stored16(d[2], d[3])
                IN /\ d[3] => U16(d[2]) # new
                   /\ ~CouldBeBitflip(Xor16(orig, new))
                   /\ ~CouldBeArith16(orig, new)
                   /\ ~CouldBeInterest16(orig, new, d[3])}})

Done == Stages[stage] = "done" /\ UNCHANGED vars

Next == \/ Flip1 \/ Flip2 \/ Flip4 \/ Flip8 \/ Flip16
        \/ Arith8 \/ Arith16 \/ Interest8 \/ Interest16 \/ Done

Spec == Init /\ [][Next]_vars

-----------------------------------------------------------------------------
(* What the stages are for, with no stage looking at another.              *)

Tried == {t[3] : t \in trials}

ByteVariants(f) ==
  {PutByte(f, i, U8(f[i] + j)) : i \in Bytes(f), j \in Deltas}
    \cup {PutByte(f, i, U8(v)) : i \in Bytes(f), v \in INTERESTING_8}

WordVariants(f) ==
  {PutWord(f, i, Sum16(WordAt(f, i), j, s)) : i \in Words(f), j \in Deltas, s \in BOOLEAN}
    \cup {PutWord(f, i, Stored16(v, s)) : i \in Words(f), v \in interesting_16, s \in BOOLEAN}

Variants(f) == (ByteVariants(f) \cup WordVariants(f)) \ {f}

\* Two or four bits that are neighbours in a word of the file and lie in both of
\* its bytes, and are all that g differs by.
AcrossWordSeam(f, g) ==
  \E i \in Words(f) :
    /\ \A k \in Bytes(f) \ {i, i + 1} : g[k] = f[k]
    /\ \E sh \in 5..7, n \in {2, 4} :
         sh + n > 8 /\ Xor16(WordAt(f, i), WordAt(g, i)) = sh..(sh + n - 1)

\* The bits g differs by, numbered as they follow each other in the file.
Flipped(f, g) ==
  {b \in 0..(8 * Len(f) - 1) : Bit(f[b \div 8 + 1], 7 - (b % 8)) # Bit(g[b \div 8 + 1], 7 - (b % 8))}

\* The same for bits that are neighbours in the file.
AcrossFileSeam(f, g) ==
  \E i \in Words(f), sh \in 5..7, n \in {2, 4} :
    sh + n > 8 /\ Flipped(f, g) = (8 * (i - 1) + sh)..(8 * (i - 1) + sh + n - 1)

\* A walking stage and another one make the same of such bits.
Walking == {"flip1", "flip2", "flip4", "flip8", "flip16"}
FlippedAcross(f, t, u) ==
  ((t[1] \in Walking) # (u[1] \in Walking)) /\ AcrossFileSeam(f, t[3])

\* Interesting words at places that overlap, which differ from the file in the byte
\* they share.
Overlapping(t, u) ==
  t[1] = "int16" /\ u[1] = "int16" /\ t[2][1] - u[2][1] \in {-1, 1}

\* The stages try every sum, difference and interesting value of every byte and
\* of every word in both orders: what the three helpers leave out of a stage
\* (5113, 5143, 5224) is what stages before it have run.  The exceptions are
\* words that differ from the file in two or four neighbouring bits across the
\* seam of their bytes, which FLIP_BIT does not take for neighbours.
ValuesCovered ==
  Stages[stage] = "done" => \A g \in Variants(file) \ Tried : AcrossWordSeam(file, g)

\* Nothing is executed twice, nor the file as it is, and every call is made with
\* a file of the same length, of bytes that are bytes.  The exceptions are sums
\* and interesting words that a walking stage has made before them, of two or four
\* neighbouring bits across the seam, and interesting words at neighbouring
\* places: could_be_interest looks at the word only, not at the one before.
ValuesTriedOnce ==
  /\ \A t \in trials : t[3] # file /\ Len(t[3]) = Len(file) /\ t[3] \in Seq(0..255)
  /\ \A t, u \in trials :
       t # u /\ t[3] = u[3] => FlippedAcross(file, t, u) \/ Overlapping(t, u)
=============================================================================
