---------------------------- MODULE FuzzOneProofs ----------------------------
(***************************************************************************)
(* Proofs about FuzzOne, for any test cases, dictionaries, checksums and   *)
(* limits: the trim, the dictionary, the tokens found and tried, and the   *)
(* effector map.  The numbers of trial steps rest on powers of two, which  *)
(* are a recursive function: what is said of them is proved by induction   *)
(* on the set of the numbers it holds for.                                 *)
(***************************************************************************)
EXTENDS FuzzOne, FiniteSetTheorems, WellFoundedInduction, TLAPS

-----------------------------------------------------------------------------
(* Powers of two, and the steps of a trim                                  *)

\* A set that has 0 and is closed under the next number has all of them.
LEMMA SetInduction ==
  ASSUME NEW S, 0 \in S, \A n \in Nat : n \in S => n + 1 \in S
  PROVE  Nat \subseteq S
<1> SUFFICES ASSUME ~(Nat \subseteq S) PROVE FALSE
  OBVIOUS
<1> DEFINE T == Nat \ S
<1>1. T # {} /\ T \subseteq Nat
  OBVIOUS
<1>2. PICK x \in T : \A y \in T : <<y, x>> \notin OpToRel(<, Nat)
  BY <1>1, NatLessThanWellFounded, WFMin
<1>3. \A y \in T : ~(y < x)
  BY <1>1, <1>2 DEF OpToRel
<1>4. x \in Nat /\ x # 0 /\ x - 1 \in Nat /\ x - 1 < x
  OBVIOUS
<1>5. x - 1 \in S
  BY <1>3, <1>4
<1> QED BY <1>4, <1>5

\* The first n + 1 powers of two.
Doubles(g, n) == g \in [0 .. n -> Nat] /\ g[0] = 1 /\ \A k \in 1 .. n : g[k] = 2 * g[k - 1]

\* There is the function that pow2 defines.
LEMMA Pow2Exists == \E f : f = [k \in Nat |-> IF k = 0 THEN 1 ELSE 2 * f[k - 1]]
<1>1. \A n \in Nat : \E g : Doubles(g, n)
  <2> DEFINE S == {n \in Nat : \E g : Doubles(g, n)}
  <2>1. 0 \in S
    <3>1. Doubles([k \in 0 .. 0 |-> 1], 0)
      BY DEF Doubles
    <3> QED BY <3>1
  <2>2. ASSUME NEW n \in Nat, n \in S PROVE n + 1 \in S
    <3>1. PICK g : Doubles(g, n)
      BY <2>2
    <3> DEFINE h == [k \in 0 .. n + 1 |-> IF k = n + 1 THEN 2 * g[n] ELSE g[k]]
    <3>2. Doubles(h, n + 1)
      BY <3>1 DEF Doubles
    <3> QED BY <3>2
  <2> HIDE DEF S
  <2>3. Nat \subseteq S
    BY <2>1, <2>2, SetInduction
  <2> QED BY <2>3 DEF S
<1>2. ASSUME NEW m \in Nat, NEW n \in Nat, NEW g, NEW h, m <= n, Doubles(g, m), Doubles(h, n)
      PROVE  g[m] = h[m]
  <2> DEFINE S == {k \in Nat : k <= m => g[k] = h[k]}
  <2>1. 0 \in S
    BY <1>2 DEF Doubles
  <2>2. ASSUME NEW k \in Nat, k \in S PROVE k + 1 \in S
    <3> SUFFICES ASSUME k + 1 <= m PROVE g[k + 1] = h[k + 1]
      OBVIOUS
    <3>1. k + 1 \in 1 .. m /\ k + 1 \in 1 .. n /\ (k + 1) - 1 = k
      BY <1>2
    <3> QED BY <1>2, <2>2, <3>1 DEF Doubles
  <2> HIDE DEF S
  <2>3. Nat \subseteq S
    BY <2>1, <2>2, SetInduction
  <2> QED BY <2>3 DEF S
<1> DEFINE G(n) == CHOOSE g : Doubles(g, n)
           F == [n \in Nat |-> G(n)[n]]
<1>3. \A n \in Nat : Doubles(G(n), n)
  BY <1>1
<1> HIDE DEF G
<1>4. \A n \in Nat : F[n] = IF n = 0 THEN 1 ELSE 2 * F[n - 1]
  <2> TAKE n \in Nat
  <2>1. CASE n = 0
    BY <1>3, <2>1 DEF Doubles
  <2>2. CASE n # 0
    <3>1. n - 1 \in Nat /\ n \in 1 .. n /\ n - 1 <= n
      BY <2>2
    <3>2. Doubles(G(n), n) /\ Doubles(G(n - 1), n - 1)
      BY <1>3, <3>1
    <3>3. G(n - 1)[n - 1] = G(n)[n - 1]
      BY <1>2, <3>1, <3>2
    <3>4. G(n)[n] = 2 * G(n)[n - 1]
      BY <3>1, <3>2 DEF Doubles
    <3> QED BY <2>2, <3>1, <3>3, <3>4
  <2> QED BY <2>1, <2>2
<1>5. F = [k \in Nat |-> IF k = 0 THEN 1 ELSE 2 * F[k - 1]]
  <2> HIDE DEF F
  <2>1. F = [n \in Nat |-> F[n]]
    BY DEF F
  <2> QED BY <1>4, <2>1
<1> QED BY <1>5

\* The powers of two: what pow2 computes.
LEMMA Pow2 == /\ pow2[0] = 1
              /\ \A k \in Nat : pow2[k] \in Nat \ {0} /\ pow2[k + 1] = 2 * pow2[k]
<1>1. pow2 = [k \in Nat |-> IF k = 0 THEN 1 ELSE 2 * pow2[k - 1]]
  BY Pow2Exists DEF pow2
<1>2. \A k \in Nat : pow2[k] = IF k = 0 THEN 1 ELSE 2 * pow2[k - 1]
  BY <1>1
<1>3. \A k \in Nat : pow2[k + 1] = 2 * pow2[k]
  <2> TAKE k \in Nat
  <2>1. k + 1 \in Nat /\ k + 1 # 0 /\ (k + 1) - 1 = k
    OBVIOUS
  <2> QED BY <1>2, <2>1
<1>4. \A k \in Nat : pow2[k] \in Nat \ {0}
  <2> DEFINE S == {k \in Nat : pow2[k] \in Nat \ {0}}
  <2>1. 0 \in S
    BY <1>2
  <2>2. ASSUME NEW k \in Nat, k \in S PROVE k + 1 \in S
    BY <1>3, <2>2
  <2> HIDE DEF S
  <2>3. Nat \subseteq S
    BY <2>1, <2>2, SetInduction
  <2> QED BY <2>3 DEF S
<1> QED BY <1>2, <1>3, <1>4

\* The kth power of two is above k.
LEMMA Pow2Above == \A k \in Nat : pow2[k] >= k + 1
<1> DEFINE S == {k \in Nat : pow2[k] >= k + 1}
<1>1. 0 \in S
  BY Pow2
<1>2. ASSUME NEW k \in Nat, k \in S PROVE k + 1 \in S
  BY <1>2, Pow2
<1> HIDE DEF S
<1>3. Nat \subseteq S
  BY <1>1, <1>2, SetInduction
<1> QED BY <1>3 DEF S

\* next_p2 finds a power of two that is not below its argument.
LEMMA NextP2 ==
  ASSUME NEW n \in Nat \ {0}
  PROVE  /\ next_p2(n) \in Nat /\ next_p2(n) >= n
         /\ \E k \in Nat : next_p2(n) = pow2[k]
<1> DEFINE P(p) == p >= n /\ (p = 1 \/ p \div 2 < n)
<1>1. \E p \in {pow2[k] : k \in 0..n} : P(p)
  <2> SUFFICES ASSUME \A k \in 0 .. n : ~P(pow2[k]) PROVE FALSE
    OBVIOUS
  <2> DEFINE S == {k \in Nat : pow2[k] < n}
  <2>1. 0 \in S
    BY Pow2
  <2>2. ASSUME NEW k \in Nat, k \in S PROVE k + 1 \in S
    <3>1. pow2[k] < n /\ pow2[k] >= k + 1 /\ pow2[k] \in Nat
      BY <2>2, Pow2Above, Pow2
    <3>2. pow2[k + 1] = 2 * pow2[k] /\ k + 1 \in 0 .. n
      BY <3>1, Pow2
    <3>3. pow2[k + 1] \div 2 = pow2[k]
      BY <3>1, <3>2
    <3> QED BY <3>1, <3>2, <3>3
  <2> HIDE DEF S
  <2>3. n \in S
    BY <2>1, <2>2, SetInduction
  <2>4. pow2[n] < n
    BY <2>3 DEF S
  <2> QED BY <2>4, Pow2, Pow2Above
<1>2. next_p2(n) = CHOOSE p \in {pow2[k] : k \in 0..n} : P(p)
  BY DEF next_p2
<1>3. next_p2(n) \in {pow2[k] : k \in 0..n} /\ P(next_p2(n))
  <2> HIDE DEF P
  <2> QED BY <1>1, <1>2
<1> QED BY <1>3, Pow2

\* A power of two is a multiple of every smaller one.
LEMMA Pow2Multiple ==
  ASSUME NEW b \in Nat
  PROVE  \A d \in Nat : \E m \in Nat : m >= d + 1 /\ pow2[b + d] = m * pow2[b]
<1> DEFINE S == {d \in Nat : \E m \in Nat : m >= d + 1 /\ pow2[b + d] = m * pow2[b]}
<1>1. 0 \in S
  <2>1. pow2[b + 0] = 1 * pow2[b]
    BY Pow2
  <2> QED BY <2>1
<1>2. ASSUME NEW d \in Nat, d \in S PROVE d + 1 \in S
  <2>1. PICK m \in Nat : m >= d + 1 /\ pow2[b + d] = m * pow2[b]
    BY <1>2
  <2>2. pow2[b + (d + 1)] = 2 * (m * pow2[b])
    <3>1. b + d \in Nat /\ b + (d + 1) = (b + d) + 1
      OBVIOUS
    <3> QED BY <2>1, <3>1, Pow2
  <2>3. 2 * (m * pow2[b]) = (2 * m) * pow2[b]
    BY Pow2
  <2>4. 2 * m \in Nat /\ 2 * m >= (d + 1) + 1
    BY <2>1
  <2> QED BY <2>2, <2>3, <2>4
<1> HIDE DEF S
<1>3. Nat \subseteq S
  BY <1>1, <1>2, SetInduction
<1> QED BY <1>3 DEF S

\* A product grows with its factor.
LEMMA TimesGrow == ASSUME NEW a \in Nat, NEW b \in Nat, NEW c \in Nat, a <= b PROVE a * c <= b * c
OBVIOUS

\* And a factor with its product.
LEMMA TimesBack == ASSUME NEW a \in Nat, NEW b \in Nat, NEW c \in Nat, a * c < b * c PROVE a < b
OBVIOUS

\* Steps of a length that StepsLeft allows for n bytes: as long as they fit into these
\* bytes, there are at most TRIM_END_STEPS of them.  Both numbers are powers of two.
LEMMA StepsBounded ==
  ASSUME NEW R \in Nat, NEW n \in Nat \ {0}, NEW c \in Nat, StepsLeft(R, n), c = 0 \/ c * R < n
  PROVE  c <= TrimEndSteps
<1>1. PICK a \in Nat : next_p2(n) = pow2[a]
  BY NextP2
<1>2. PICK b \in Nat : TrimEndSteps = pow2[b]
  BY EndStepsAssumption
<1> DEFINE p == next_p2(n)  E == TrimEndSteps
<1>3. p \in Nat /\ p >= n /\ E \in Nat /\ E > 0
  BY NextP2, StepsAssumption
<1>4. p \div E \in Nat
  BY <1>3
<1>5. R >= p \div E /\ R >= 1
  BY <1>3, <1>4, StepsAssumption DEF StepsLeft, Most
<1> HIDE DEF p, E
<1>6. CASE c = 0
  BY <1>3, <1>6 DEF E
<1>7. CASE c * R < n /\ a >= b
  <2>1. PICK m \in Nat : p = m * E
    <3>1. a - b \in Nat /\ b + (a - b) = a
      BY <1>7
    <3>2. PICK m \in Nat : pow2[b + (a - b)] = m * pow2[b]
      BY <3>1, Pow2Multiple
    <3> QED BY <1>1, <1>2, <3>1, <3>2 DEF p, E
  <2>2. p \div E = m
    BY <1>3, <2>1
  <2>3. m * E <= R * E
    BY <1>3, <1>5, <2>1, <2>2, TimesGrow
  <2>4. c * R < E * R
    <3>1. R * E = E * R /\ c * R \in Nat /\ m * E \in Nat
      BY <1>3
    <3> QED BY <1>3, <1>7, <2>1, <2>3, <3>1
  <2>5. c < E
    BY <1>3, <2>4, TimesBack
  <2> QED BY <1>3, <2>5 DEF E
<1>8. CASE c * R < n /\ a < b
  <2>1. p < E
    <3>1. b - a \in Nat /\ a + (b - a) = b /\ b - a >= 1
      BY <1>8
    <3>2. PICK m \in Nat : m >= (b - a) + 1 /\ pow2[a + (b - a)] = m * pow2[a]
      BY <3>1, Pow2Multiple
    <3>3. m >= 2 /\ E = m * p
      BY <1>1, <1>2, <3>1, <3>2 DEF p, E
    <3>4. 2 * p <= m * p
      BY <1>3, <3>1, <3>3, TimesGrow
    <3> QED BY <1>3, <3>3, <3>4
  <2>2. 1 * c <= R * c
    BY <1>5, TimesGrow
  <2>3. R * c = c * R /\ c * R \in Nat
    OBVIOUS
  <2> QED BY <1>3, <1>8, <2>1, <2>2, <2>3 DEF E
<1> QED BY <1>6, <1>7, <1>8

-----------------------------------------------------------------------------
(* The dictionary                                                          *)

\* What the dictionary may hold.
Entries == [data : Seq(Bytes) \ {<<>>}, hit_cnt : Nat]

\* A permutation of the dictionary has the same entries.
LEMMA ShuffleKeeps ==
  ASSUME NEW s \in Seq(Entries), NEW t \in Shuffles(s)
  PROVE  /\ t \in Seq(Entries) /\ Len(t) = Len(s)
         /\ \A i \in DOMAIN s : \E j \in DOMAIN t : t[j] = s[i]
         /\ (\A i, j \in DOMAIN s : s[i].data = s[j].data => i = j)
              => \A i, j \in DOMAIN t : t[i].data = t[j].data => i = j
<1> DEFINE S == 1 .. Len(s)
<1>1. DOMAIN s = S /\ Len(s) \in Nat
  OBVIOUS
<1>2. PICK p \in Bijection(S, S) : t = [i \in S |-> s[p[i]]]
  BY <1>1 DEF Shuffles
<1>3. p \in [S -> S] /\ \A x \in S : \E y \in S : p[y] = x
  BY DEF Bijection, Surjection
<1>4. \A x, y \in S : p[x] = p[y] => x = y
  BY <1>3 DEF Bijection, Injection, IsInjective
<1>5. t \in Seq(Entries) /\ Len(t) = Len(s) /\ DOMAIN t = S
  BY <1>1, <1>2, <1>3
<1>6. \A i \in S : t[i] = s[p[i]]
  BY <1>2
<1> HIDE DEF S
<1>7. ASSUME NEW i \in S PROVE \E j \in S : t[j] = s[i]
  <2>1. PICK j \in S : p[j] = i
    BY <1>3
  <2> QED BY <1>6, <2>1
<1>8. ASSUME \A i, j \in S : s[i].data = s[j].data => i = j
      PROVE  \A i, j \in S : t[i].data = t[j].data => i = j
  BY <1>3, <1>4, <1>6, <1>8
<1> QED BY <1>1, <1>5, <1>7, <1>8

\* No token is in the list twice.
Distinct(s) == \A i, j \in DOMAIN s : s[i].data = s[j].data => i = j

\* Both qsorts leave the list well kept, and lose nothing.
LEMMA SortKeeps ==
  ASSUME NEW s \in Seq(Entries), Distinct(s), NEW t \in Sorts(s)
  PROVE  /\ t \in Seq(Entries) /\ Len(t) = Len(s) /\ WellKept(t)
         /\ \A i \in DOMAIN s : \E j \in DOMAIN t : t[j].data = s[i].data
<1>1. t \in Shuffles(s) /\ Sorted(t)
  BY DEF Sorts
<1>2. t \in Seq(Entries) /\ Len(t) = Len(s) /\ Distinct(t)
  BY <1>1, ShuffleKeeps DEF Distinct
<1>3. \A i \in DOMAIN s : \E j \in DOMAIN t : t[j].data = s[i].data
  <2>1. \A i \in DOMAIN s : \E j \in DOMAIN t : t[j] = s[i]
    BY <1>1, ShuffleKeeps
  <2> QED BY <2>1
<1>4. \A j \in (DOMAIN t) \ (1 .. Used(Len(t))) : j \in (Used(Len(t)) + 1) .. Len(t)
  BY AutoExtrasAssumption, <1>2 DEF Used
<1> QED BY <1>1, <1>2, <1>3, <1>4 DEF WellKept, Sorted, Distinct

\* The dictionary: its size, and the order maybe_add_auto leaves it in.
DictInv == /\ a_extras \in Seq(Entries) /\ Len(a_extras) <= MaxAutoExtras
           /\ WellKept(a_extras)

\* How many entries are at least as good as one.
Worth(i) == Cardinality({j \in DOMAIN a_extras : a_extras[j].hit_cnt >= a_extras[i].hit_cnt})

\* A step drops a token.
GivesUp(i) == ~(\E j \in DOMAIN a_extras' : a_extras'[j].data = a_extras[i].data)

\* What may be evicted is in the lower half of a list that is sorted by use there, and
\* above it the stages' tokens are all used as much: more than half is as good.
LEMMA Evicted ==
  ASSUME DictInv, NEW i \in Evictable, i \in DOMAIN a_extras
  PROVE  Worth(i) > MaxAutoExtras \div 2
<1>1. i \in 1 .. Len(a_extras) /\ Len(a_extras) \in Nat /\ i > MaxAutoExtras \div 2 /\ i \in Nat
  BY AutoExtrasAssumption DEF Evictable, DictInv
<1>2. UseAutoExtras <= MaxAutoExtras \div 2 /\ MaxAutoExtras \div 2 \in Nat
  BY AutoExtrasAssumption
<1>3. i \notin 1 .. Used(Len(a_extras)) /\ DOMAIN a_extras = 1 .. Len(a_extras)
  BY AutoExtrasAssumption, <1>1, <1>2 DEF Used, DictInv
<1>4. \A j \in 1 .. i : a_extras[j].hit_cnt >= a_extras[i].hit_cnt
  <2> TAKE j \in 1 .. i
  <2>1. CASE j = i
    <3>1. a_extras[i] \in Entries
      BY DEF DictInv
    <3> QED BY <2>1, <3>1 DEF Entries
  <2>2. CASE j < i
    BY <1>1, <1>3, <2>2 DEF DictInv, WellKept
  <2> QED BY <1>1, <2>1, <2>2
<1> DEFINE W == {j \in DOMAIN a_extras : a_extras[j].hit_cnt >= a_extras[i].hit_cnt}
<1>5. 1 .. i \in SUBSET W
  BY <1>1, <1>3, <1>4
<1>6. IsFiniteSet(W)
  <2>1. IsFiniteSet(1 .. Len(a_extras))
    BY <1>1, FS_Interval
  <2> QED BY <1>3, <2>1, FS_Subset
<1>7. Cardinality(1 .. i) = i
  BY <1>1, FS_Interval
<1> HIDE DEF W
<1>8. Cardinality(W) >= i
  BY <1>5, <1>6, <1>7, FS_Subset, FS_CardinalityType, <1>1
<1> QED BY <1>1, <1>2, <1>8, FS_CardinalityType, <1>6 DEF W, Worth

\* maybe_add_auto keeps the list, and drops only what may be evicted.
LEMMA AddKeeps ==
  ASSUME DictInv, NEW tok \in Seq(Bytes) \ {<<>>}, MaybeAddAuto(tok)
  PROVE  DictInv' /\ \A i \in DOMAIN a_extras : GivesUp(i) => Worth(i) > MaxAutoExtras \div 2
<1>1. a_extras \in Seq(Entries) /\ Distinct(a_extras) /\ Len(a_extras) \in Nat
      /\ DOMAIN a_extras = 1 .. Len(a_extras)
  BY DEF DictInv, WellKept, Distinct
<1>2. Entry(tok) \in Entries /\ Entry(tok).data = tok
  BY DEF Entry, Entries
<1>3. CASE UNCHANGED a_extras
  BY <1>3 DEF DictInv, GivesUp
<1>4. CASE \E i \in Known(tok) : a_extras' \in Sorts([a_extras EXCEPT ![i].hit_cnt = @ + 1])
  <2>1. PICK i \in Known(tok) : a_extras' \in Sorts([a_extras EXCEPT ![i].hit_cnt = @ + 1])
    BY <1>4
  <2> DEFINE s == [a_extras EXCEPT ![i].hit_cnt = @ + 1]
  <2>2. i \in DOMAIN a_extras
    BY DEF Known
  <2> DEFINE e == [a_extras[i] EXCEPT !.hit_cnt = @ + 1]
  <2>3. e \in Entries /\ e.data = a_extras[i].data
    <3>1. a_extras[i] \in Entries
      BY <1>1, <2>2
    <3>2. \A x \in Entries : [x EXCEPT !.hit_cnt = @ + 1] \in Entries
                             /\ [x EXCEPT !.hit_cnt = @ + 1].data = x.data
      BY DEF Entries
    <3> QED BY <3>1, <3>2
  <2>4. s = [a_extras EXCEPT ![i] = e]
    OBVIOUS
  <2>5. a_extras' \in Sorts(s)
    BY <2>1
  <2> HIDE DEF e, s
  <2>6. s \in Seq(Entries) /\ Len(s) = Len(a_extras) /\ DOMAIN s = DOMAIN a_extras
    BY <1>1, <2>2, <2>3, <2>4
  <2>7. \A j \in DOMAIN a_extras : s[j].data = a_extras[j].data
    BY <1>1, <2>2, <2>3, <2>4
  <2>8. Distinct(s)
    BY <1>1, <2>6, <2>7 DEF Distinct
  <2>9. a_extras' \in Seq(Entries) /\ Len(a_extras') = Len(s) /\ WellKept(a_extras')
        /\ \A k \in DOMAIN s : \E j \in DOMAIN a_extras' : a_extras'[j].data = s[k].data
    BY <2>5, <2>6, <2>8, SortKeeps
  <2> QED BY <2>6, <2>7, <2>9 DEF DictInv, GivesUp
<1>5. CASE /\ Known(tok) = {} /\ Len(a_extras) < MaxAutoExtras
           /\ a_extras' \in Sorts(Append(a_extras, Entry(tok)))
  <2> DEFINE s == Append(a_extras, Entry(tok))
  <2>1. s \in Seq(Entries) /\ Len(s) = Len(a_extras) + 1 /\ DOMAIN s = 1 .. (Len(a_extras) + 1)
    BY <1>1, <1>2
  <2>2. /\ \A j \in DOMAIN a_extras : s[j] = a_extras[j] /\ j \in DOMAIN s
        /\ s[Len(a_extras) + 1] = Entry(tok)
    BY <1>1, <1>2
  <2>3. \A j \in DOMAIN a_extras : a_extras[j].data # tok
    BY <1>5 DEF Known
  <2> HIDE DEF s
  <2>4. \A j \in DOMAIN s : j \in DOMAIN a_extras \/ j = Len(a_extras) + 1
    BY <1>1, <2>1
  <2>5. Distinct(s)
    BY <1>1, <1>2, <2>2, <2>3, <2>4 DEF Distinct
  <2>6. a_extras' \in Seq(Entries) /\ Len(a_extras') = Len(s) /\ WellKept(a_extras')
        /\ \A k \in DOMAIN s : \E j \in DOMAIN a_extras' : a_extras'[j].data = s[k].data
    BY <1>5, <2>1, <2>5, SortKeeps DEF s
  <2>7. \A k \in DOMAIN a_extras : ~GivesUp(k)
    BY <2>2, <2>6 DEF GivesUp
  <2>8. Len(a_extras') <= MaxAutoExtras
    BY AutoExtrasAssumption, <1>1, <1>5, <2>1, <2>6
  <2> QED BY <2>6, <2>7, <2>8 DEF DictInv
<1>6. CASE /\ Known(tok) = {} /\ Len(a_extras) >= MaxAutoExtras
           /\ \E i \in Evictable : a_extras' \in Sorts([a_extras EXCEPT ![i] = Entry(tok)])
  <2>1. PICK i \in Evictable : a_extras' \in Sorts([a_extras EXCEPT ![i] = Entry(tok)])
    BY <1>6
  <2> DEFINE s == [a_extras EXCEPT ![i] = Entry(tok)]
  <2>2. i \in DOMAIN a_extras
    BY AutoExtrasAssumption, <1>1, <1>6 DEF Evictable
  <2>3. s \in Seq(Entries) /\ Len(s) = Len(a_extras) /\ DOMAIN s = DOMAIN a_extras
    BY <1>1, <1>2, <2>2
  <2>4. s[i].data = tok /\ \A j \in DOMAIN a_extras : j # i => s[j] = a_extras[j]
    BY <1>1, <1>2, <2>2
  <2>5. \A j \in DOMAIN a_extras : a_extras[j].data # tok
    BY <1>6 DEF Known
  <2>6. a_extras' \in Sorts(s)
    BY <2>1
  <2> HIDE DEF s
  <2>7. Distinct(s)
    BY <1>1, <2>3, <2>4, <2>5 DEF Distinct
  <2>8. a_extras' \in Seq(Entries) /\ Len(a_extras') = Len(s) /\ WellKept(a_extras')
        /\ \A k \in DOMAIN s : \E j \in DOMAIN a_extras' : a_extras'[j].data = s[k].data
    <3>1. s \in Seq(Entries)
      BY <2>3
    <3> QED BY <2>6, <2>7, <3>1, SortKeeps
  <2>9. \A k \in DOMAIN a_extras : GivesUp(k) => k = i
    BY <2>3, <2>4, <2>8 DEF GivesUp
  <2>10. Worth(i) > MaxAutoExtras \div 2
    BY <2>2, Evicted
  <2>11. Len(a_extras') <= MaxAutoExtras
    BY <2>3, <2>8 DEF DictInv
  <2> QED BY <2>8, <2>9, <2>10, <2>11 DEF DictInv
<1> QED BY <1>3, <1>4, <1>5, <1>6 DEF MaybeAddAuto

-----------------------------------------------------------------------------
(* The inductive invariant                                                 *)

\* The places of the program the proofs tell apart.
Trimming == {"trim_case", "trim", "trimmed"}
\* Stages that write tokens over the file.
Over == {"ext_UO", "ext_AO"}
\* Stages that walk over it.
Walking == {"flip16", "flip32", "arith8"}
\* Stages that try tokens.
TokenPcs == {"ext_UO", "ext_UI", "ext_AO"}
\* The stages after bitflip 1/1.
Stages == {"flip8"} \cup Walking \cup TokenPcs

\* What the tables of FuzzOne are about.
LEMMA Domains ==
  /\ DOMAIN Width = Walking /\ DOMAIN Tokens = TokenPcs /\ DOMAIN After = Stages
  /\ Width["flip16"] = 2 /\ Width["flip32"] = 4 /\ Width["arith8"] = 1
  /\ \A p \in Walking : Width[p] \in 1 .. 4
BY DEF Width, Tokens, After, Walking, TokenPcs, Stages

\* The types, and how far a stage's offset goes.
TypeInv ==
  /\ file \in Seq(Bytes) /\ in_buf \in Seq(Bytes) /\ out_buf \in Seq(Bytes)
  /\ clean \in Seq(Bytes)
  /\ len \in 1 .. Len(in_buf)
  /\ pc \in Trimming \cup {"flip1", "det_done", "over"} \cup Stages
  /\ remove_len \in Nat /\ remove_pos \in Nat
  /\ stage_cur \in Nat /\ stage_max \in Int /\ pos \in Nat
  /\ extra \in Nat \ {0} /\ last_len \in Nat
  /\ pc = "trim" => remove_len > 0 /\ remove_len <= remove_pos
  /\ pc \in Trimming => pos = 0
  /\ pc \in {"flip1", "flip8"} \cup Over => pos <= len
  /\ pc \in Walking => pos <= len - Width[pc] + 1
  /\ pc = "ext_UI" => pos <= len + 1
  /\ pc \in {"ext_UO", "ext_UI"} => UserExtras # <<>>

\* n bytes were collected in s: those that fit are there.
Holds(s, n) == /\ s \in Seq(Bytes) /\ n \in Nat /\ Len(s) <= MaxAutoExtra
               /\ n <= MaxAutoExtra => n <= Len(s)

\* a_collect and a_len.
CollectInv == Holds(a_collect, a_len)

\* MIN and MAX.
LEMMA LeastMost ==
  \A a, b \in Int : /\ Least(a, b) \in {a, b} /\ Least(a, b) <= a /\ Least(a, b) <= b
                    /\ Most(a, b) \in {a, b} /\ Most(a, b) >= a /\ Most(a, b) >= b
BY DEF Least, Most

\* The stage that follows starts from nothing, and is one that has something to do.
LEMMA GoOnHead ==
  ASSUME len \in Nat, pc \in Stages, GoOn
  PROVE  /\ pc' \in Stages \cup {"det_done"} /\ pc' # "flip8"
         /\ pc' = "flip16" => len >= 2
         /\ pc' = "flip32" => len >= 4
         /\ pc' = "ext_UO" => UserExtras # <<>>
         /\ pc' = "ext_UI" <=> pc = "ext_UO"
         /\ pc' = "ext_AO" => a_extras # <<>>
         /\ pos' = 0 /\ extra' = 1 /\ last_len' = 0 /\ ran' = NotRun /\ stage_cur' = 0
         /\ UNCHANGED <<disk, bufs, trim, token>>
<1>1. /\ pc = "flip8" => After[pc] = IF len < 2 THEN "arith8" ELSE "flip16"
      /\ pc = "flip16" => After[pc] = IF len < 4 THEN "arith8" ELSE "flip32"
      /\ pc = "flip32" => After[pc] = "arith8"
      /\ pc = "arith8" => After[pc] = IF UserExtras # <<>> THEN "ext_UO" ELSE ExtrasTodo
      /\ pc = "ext_UO" => After[pc] = "ext_UI"
      /\ pc = "ext_UI" => After[pc] = ExtrasTodo
      /\ pc = "ext_AO" => After[pc] = "det_done"
  BY DEF After
<1>2. ExtrasTodo = IF a_extras # <<>> THEN "ext_AO" ELSE "det_done"
  BY DEF ExtrasTodo
<1>3. pc' = After[pc]
  BY DEF GoOn
<1>4. /\ pos' = 0 /\ extra' = 1 /\ last_len' = 0 /\ ran' = NotRun /\ stage_cur' = 0
      /\ UNCHANGED <<disk, bufs, trim, token>>
  BY DEF GoOn
<1>5. /\ pc' \in Stages \cup {"det_done"} /\ pc' # "flip8"
      /\ pc' = "ext_UI" <=> pc = "ext_UO"
  BY <1>1, <1>2, <1>3 DEF Stages, Walking, TokenPcs
<1>6. /\ pc' = "flip16" => len >= 2
      /\ pc' = "flip32" => len >= 4
      /\ pc' = "ext_UO" => UserExtras # <<>>
      /\ pc' = "ext_AO" => a_extras # <<>>
  <2>1. len >= 2 <=> ~(len < 2)
    OBVIOUS
  <2> QED BY <1>1, <1>2, <1>3 DEF Stages, Walking, TokenPcs
<1> QED BY <1>4, <1>5, <1>6

\* Where the input is: up to len in in_buf, as it was executed last with the entry's
\* path; on disk, unless the trim has deleted something it has not written; and in
\* out_buf, except while tokens are written over it.
DataInv ==
  /\ Data = clean
  /\ pc \in {"trim", "trimmed"} /\ ~needs_write => file = clean
  /\ pc = "trim_case" => ~needs_write
  /\ pc \notin {"trim", "trimmed", "over"} => file = clean
  /\ pc \notin Trimming \cup Over \cup {"over"} => out_buf = clean
  /\ pc \in {"trim_case"} => out_buf = file

\* While tokens are written over out_buf it differs from the input in the bytes the
\* last one covered only, and the tokens to come are as long.
OverInv ==
  pc \in Over =>
    /\ Len(out_buf) = len /\ last_len <= len - pos
    /\ \A j \in extra .. Len(Tokens[pc]) : last_len <= Len(Tokens[pc][j])
    /\ \A k \in 1 .. len : k \notin (pos + 1) .. (pos + last_len) => out_buf[k] = clean[k]

\* The invariant that all the theorems rest on.
Base == TypeInv /\ CollectInv /\ DictInv /\ DataInv /\ OverInv

-----------------------------------------------------------------------------
(* Steps of the trim                                                       *)

\* The bytes a trim step takes out are there.
LEMMA AvailTypes ==
  ASSUME TypeInv, pc = "trim", remove_pos < len
  PROVE  /\ trim_avail \in 1 .. remove_len /\ trim_avail <= len - remove_pos
         /\ trim_avail = remove_len \/ trim_avail = len - remove_pos
         /\ move_tail = len - remove_pos - trim_avail /\ move_tail \in Nat
BY DEF TypeInv, trim_avail, move_tail, Least

\* Moving the tail down in in_buf gives what write_with_gap wrote.
LEMMA AcceptMoves ==
  ASSUME TypeInv, DataInv, TrimAccept
  PROVE  /\ in_buf' \in Seq(Bytes) /\ Len(in_buf') = Len(in_buf) /\ len' \in 1 .. len
         /\ clean' \in Seq(Bytes) /\ Data' = clean'
<1>1. /\ pc = "trim" /\ remove_pos < len /\ len' = len - trim_avail /\ clean' = Gap
      /\ in_buf' = [k \in DOMAIN in_buf |->
           IF k \in (remove_pos + 1)..(remove_pos + move_tail)
             THEN in_buf[k + trim_avail] ELSE in_buf[k]]
  BY DEF TrimAccept
<1> DEFINE a == trim_avail  p == remove_pos  n == len
<1>2. a \in 1 .. remove_len /\ a <= n - p /\ move_tail = n - p - a /\ move_tail \in Nat
  BY <1>1, AvailTypes
<1>3. p \in Nat /\ n \in Nat /\ n <= Len(in_buf) /\ in_buf \in Seq(Bytes) /\ p > 0 /\ p < n
      /\ a \in Nat
      /\ Len(in_buf) \in Nat
  BY <1>1, <1>2 DEF TypeInv
<1>4. n - a \in 1 .. n /\ len' = n - a
  BY <1>1, <1>2, <1>3
<1>5. Gap = SubSeq(in_buf, 1, p) \o SubSeq(in_buf, p + a + 1, n)
  BY DEF Gap
<1>6. in_buf' = [k \in 1 .. Len(in_buf) |->
           IF k \in (p + 1)..(n - a) THEN in_buf[k + a] ELSE in_buf[k]]
  BY <1>1, <1>2, <1>3
<1> HIDE DEF a, p, n
<1>7. \A k \in 1 .. Len(in_buf) : k \in (p + 1)..(n - a) => k + a \in 1 .. Len(in_buf)
  BY <1>2, <1>3
<1>8. in_buf' \in Seq(Bytes) /\ Len(in_buf') = Len(in_buf)
  <2>1. in_buf' \in [1 .. Len(in_buf) -> Bytes]
    BY <1>3, <1>6, <1>7
  <2> QED BY <1>3, <2>1
<1>9. Gap \in Seq(Bytes) /\ Len(Gap) = n - a
      /\ \A k \in 1 .. n - a : Gap[k] = IF k <= p THEN in_buf[k] ELSE in_buf[k + a]
  <2> DEFINE s == SubSeq(in_buf, 1, p)  t == SubSeq(in_buf, p + a + 1, n)
  <2>1. s \in Seq(Bytes) /\ Len(s) = p /\ \A k \in 1 .. p : s[k] = in_buf[k]
    BY <1>3
  <2>2. t \in Seq(Bytes) /\ Len(t) = n - a - p
        /\ \A k \in 1 .. n - a - p : t[k] = in_buf[p + a + k]
    BY <1>2, <1>3
  <2>3. Gap = s \o t
    BY <1>5
  <2> HIDE DEF s, t
  <2>4. Gap \in Seq(Bytes) /\ Len(Gap) = n - a
    <3>1. s \o t \in Seq(Bytes) /\ Len(s \o t) = Len(s) + Len(t)
      BY <2>1, <2>2
    <3> QED BY <1>2, <1>3, <2>1, <2>2, <2>3, <3>1
  <2>5. ASSUME NEW k \in 1 .. n - a PROVE Gap[k] = IF k <= p THEN in_buf[k] ELSE in_buf[k + a]
    <3>1. CASE k <= p
      BY <1>2, <1>3, <2>1, <2>2, <2>3, <3>1
    <3>2. CASE k > p
      <4>1. Gap[k] = t[k - p] /\ k - p \in 1 .. n - a - p
        BY <1>2, <1>3, <2>1, <2>2, <2>3, <3>2
      <4>2. p + a + (k - p) = k + a
        BY <1>3
      <4> QED BY <1>3, <2>2, <3>2, <4>1, <4>2
    <3> QED BY <1>3, <3>1, <3>2
  <2> QED BY <2>4, <2>5
<1>10. Data' = SubSeq(in_buf', 1, n - a)
  BY <1>4 DEF Data
<1>11. Data' \in Seq(Bytes) /\ Len(Data') = n - a /\ \A k \in 1 .. n - a : Data'[k] = in_buf'[k]
  BY <1>3, <1>4, <1>8, <1>10
<1>12. \A k \in 1 .. n - a : Data'[k] = Gap[k]
  <2> TAKE k \in 1 .. n - a
  <2>1. k \in 1 .. Len(in_buf) /\ k \in Nat
    BY <1>2, <1>3
  <2>2. in_buf'[k] = IF k <= p THEN in_buf[k] ELSE in_buf[k + a]
    BY <1>3, <1>6, <2>1
  <2> QED BY <1>9, <1>11, <2>2
<1>13. Data' = Gap
  BY <1>9, <1>11, <1>12
<1> QED BY <1>1, <1>4, <1>8, <1>9, <1>13 DEF n

\* A pass starts with steps the length allows.
LEMMA PassSound ==
  ASSUME NEW step \in Nat, len \in Nat \ {0}, Pass(step),
         remove_len \in Nat, remove_pos \in Nat, stage_cur \in Nat
  PROVE  /\ remove_len' \in Nat /\ remove_pos' \in Nat /\ stage_cur' \in Nat
         /\ pc' \in {"trim", "trimmed"}
         /\ pc' = "trim" => /\ remove_len' = step /\ remove_pos' = step /\ stage_cur' = 0
                            /\ step > 0 /\ StepsLeft(step, len)
<1>1. next_p2(len) \div TrimEndSteps \in Nat
  <2>1. next_p2(len) \in Nat
    BY NextP2
  <2> QED BY StepsAssumption, <2>1
<1>2. StepsLeft(step, len) => step > 0
  BY StepsAssumption, <1>1 DEF StepsLeft, Most
<1> QED BY <1>2 DEF Pass

\* The same of the first pass.
LEMMA TrimStartSound ==
  ASSUME TypeInv, TrimStart
  PROVE  /\ remove_len' \in Nat /\ remove_pos' \in Nat /\ stage_cur' \in Nat
         /\ pc' \in {"flip1", "trim", "trimmed"}
         /\ pc' = "trim" => /\ remove_pos' = remove_len' /\ stage_cur' = 0
                            /\ remove_len' > 0 /\ StepsLeft(remove_len', len)
<1>1. len \in Nat \ {0}
  BY DEF TypeInv
<1>2. Most(next_p2(len) \div TrimStartSteps, TrimMinBytes) \in Nat
  <2>1. next_p2(len) \in Nat
    BY <1>1, NextP2
  <2>2. next_p2(len) \div TrimStartSteps \in Nat
    BY StepsAssumption, <2>1
  <2> QED BY StepsAssumption, <2>2 DEF Most
<1> QED BY <1>1, <1>2, PassSound DEF TrimStart, TypeInv

\* And of the others.
LEMMA NextPassSound ==
  ASSUME TypeInv, TrimNextPass
  PROVE  /\ remove_len' \in Nat /\ remove_pos' \in Nat /\ stage_cur' \in Nat
         /\ pc' \in {"trim", "trimmed"}
         /\ pc' = "trim" => /\ remove_pos' = remove_len' /\ stage_cur' = 0
                            /\ remove_len' > 0 /\ StepsLeft(remove_len', len)
<1>1. len \in Nat \ {0}
  BY DEF TypeInv
<1>2. Halved \in Nat
  BY DEF Halved, TypeInv
<1> QED BY <1>1, <1>2, PassSound DEF TrimNextPass, TypeInv

-----------------------------------------------------------------------------
(* Strings and tokens                                                      *)

\* Writing a string over another one.
LEMMA PutKeeps ==
  ASSUME NEW S, NEW s \in Seq(S), NEW p \in Nat, NEW t \in Seq(S)
  PROVE  /\ Put(s, p, t) \in Seq(S) /\ Len(Put(s, p, t)) = Len(s)
         /\ \A k \in 1 .. Len(s) :
              Put(s, p, t)[k] = IF k \in (p + 1) .. (p + Len(t)) THEN t[k - p] ELSE s[k]
<1>1. Put(s, p, t) =
        [k \in 1 .. Len(s) |-> IF k \in (p + 1)..(p + Len(t)) THEN t[k - p] ELSE s[k]]
  BY DEF Put
<1>2. \A k \in 1 .. Len(s) : k \in (p + 1)..(p + Len(t)) => k - p \in 1 .. Len(t)
  OBVIOUS
<1>3. Put(s, p, t) \in [1 .. Len(s) -> S]
  BY <1>1, <1>2
<1> QED BY <1>1, <1>3

\* y is s with t at p.
Laid(s, p, t, y) ==
  /\ Len(y) = Len(s)
  /\ \A k \in 1 .. Len(s) : y[k] = IF k \in (p + 1) .. (p + Len(t)) THEN t[k - p] ELSE s[k]

\* The same, of the named relation.
LEMMA PutLays ==
  ASSUME NEW S, NEW s \in Seq(S), NEW p \in Nat, NEW t \in Seq(S)
  PROVE  Laid(s, p, t, Put(s, p, t))
<1> DEFINE y == Put(s, p, t)
<1>1. /\ Len(y) = Len(s)
      /\ \A k \in 1 .. Len(s) : y[k] = IF k \in (p + 1) .. (p + Len(t)) THEN t[k - p] ELSE s[k]
  BY PutKeeps
<1> QED BY <1>1 DEF Laid

\* The tokens a stage has are not empty, and sorted by size.
LEMMA TokensTyped ==
  ASSUME DictInv, NEW p \in TokenPcs
  PROVE  /\ Tokens[p] \in Seq(Seq(Bytes) \ {<<>>})
         /\ \A i, j \in 1 .. Len(Tokens[p]) : i < j => Len(Tokens[p][i]) <= Len(Tokens[p][j])
<1>1. CASE p \in {"ext_UO", "ext_UI"}
  <2>1. Tokens[p] = UserExtras
    BY <1>1 DEF Tokens
  <2> QED BY UserExtrasAssumption, <2>1
<1>2. CASE p = "ext_AO"
  <2>1. Tokens[p] = [i \in InUse |-> a_extras[i].data]
    BY <1>2 DEF Tokens
  <2>2. InUse = 1 .. Used(Len(a_extras)) /\ Used(Len(a_extras)) \in Nat
        /\ Used(Len(a_extras)) <= Len(a_extras)
    BY AutoExtrasAssumption DEF InUse, Used, DictInv
  <2>3. \A i \in InUse : a_extras[i] \in Entries /\ a_extras[i].data \in Seq(Bytes) \ {<<>>}
    <3>1. \A i \in InUse : a_extras[i] \in Entries
      BY <2>2 DEF DictInv
    <3> QED BY <3>1 DEF Entries
  <2>4. Tokens[p] \in Seq(Seq(Bytes) \ {<<>>}) /\ Len(Tokens[p]) = Used(Len(a_extras))
    BY <2>1, <2>2, <2>3
  <2>5. \A i, j \in InUse : i < j => Len(a_extras[i].data) <= Len(a_extras[j].data)
    BY DEF DictInv, WellKept, InUse
  <2> QED BY <2>1, <2>2, <2>4, <2>5
<1> QED BY <1>1, <1>2 DEF TokenPcs

\* Nor is the one it is at.
LEMMA TokenTyped ==
  ASSUME DictInv, pc \in TokenPcs, extra \in Nat \ {0}, extra <= Len(Tokens[pc])
  PROVE  Token \in Seq(Bytes) /\ Len(Token) \in Nat \ {0}
<1>1. Tokens[pc] \in Seq(Seq(Bytes) \ {<<>>}) /\ Len(Tokens[pc]) \in Nat
  BY TokensTyped
<1>2. Token \in Seq(Bytes) \ {<<>>}
  BY <1>1 DEF Token
<1> QED BY <1>2

\* Collect adds a byte while there is room.
LEMMA CollectHolds ==
  ASSUME NEW s, NEW n, NEW b \in Bytes, Holds(s, n)
  PROVE  /\ Holds(Collect(s, n, b), n + 1)
         /\ n < MaxAutoExtra => /\ \A k \in 1 .. n : Collect(s, n, b)[k] = s[k]
                                /\ Collect(s, n, b)[n + 1] = b
<1>1. s \in Seq(Bytes) /\ n \in Nat /\ Len(s) <= MaxAutoExtra /\ Len(s) \in Nat
  BY DEF Holds
<1>2. CASE n < MaxAutoExtra
  <2> DEFINE t == SubSeq(s, 1, n)
  <2>1. t \in Seq(Bytes) /\ Len(t) = n /\ \A k \in 1 .. n : t[k] = s[k]
    BY StepsAssumption, <1>1, <1>2 DEF Holds
  <2> HIDE DEF t
  <2>2. t \o <<b>> \in Seq(Bytes) /\ Len(t \o <<b>>) = n + 1
    BY <2>1
  <2>3. (t \o <<b>>)[n + 1] = b /\ \A k \in 1 .. n : (t \o <<b>>)[k] = t[k]
    BY <2>1
  <2>4. Collect(s, n, b) = t \o <<b>>
    BY <1>2 DEF Collect, t
  <2> QED BY StepsAssumption, <1>1, <1>2, <2>1, <2>2, <2>3, <2>4 DEF Holds
<1>3. CASE ~(n < MaxAutoExtra)
  BY StepsAssumption, <1>1, <1>3 DEF Holds, Collect
<1> QED BY <1>2, <1>3

\* A token goes only when more than half of the list is as good.
Evictions == \A i \in DOMAIN a_extras : GivesUp(i) => Worth(i) > MaxAutoExtras \div 2

\* Offering what was collected keeps the dictionary.
LEMMA OfferKeeps ==
  ASSUME DictInv, NEW s, NEW n, Holds(s, n), Offer(s, n)
  PROVE  DictInv' /\ Evictions
<1>1. CASE n >= MinAutoExtra /\ n <= MaxAutoExtra
  <2> DEFINE u == SubSeq(s, 1, n)
  <2>1. u \in Seq(Bytes) \ {<<>>}
    <3>1. u \in Seq(Bytes) /\ Len(u) = n /\ n \in Nat /\ n > 0
      BY StepsAssumption, <1>1 DEF Holds
    <3> HIDE DEF u
    <3> QED BY <3>1
  <2>2. MaybeAddAuto(SubSeq(s, 1, n))
    BY <1>1 DEF Offer
  <2> QED BY <2>1, <2>2, AddKeeps DEF Evictions
<1>2. CASE ~(n >= MinAutoExtra /\ n <= MaxAutoExtra)
  <2>1. UNCHANGED a_extras
    BY <1>2 DEF Offer
  <2> QED BY <2>1 DEF DictInv, Evictions, GivesUp
<1> QED BY <1>1, <1>2

\* A new byte is collected, or none.
LEMMA GoHolds ==
  ASSUME NEW s, NEW n, NEW c, Holds(s, n), out_buf[pos + 1] \in Bytes, Go(s, n, c)
  PROVE  CollectInv'
<1>1. CASE c = 0
  BY <1>1 DEF Go, CollectInv
<1>2. CASE c # 0
  BY <1>2, CollectHolds DEF Go, CollectInv
<1> QED BY <1>1, <1>2

\* Data is the first len bytes of in_buf.
LEMMA DataIs ==
  ASSUME TypeInv
  PROVE  Data \in Seq(Bytes) /\ Len(Data) = len /\ \A k \in 1 .. len : Data[k] = in_buf[k]
BY DEF TypeInv, Data

\* The stages before the tokens find the input in out_buf.
LEMMA OutBufIs ==
  ASSUME TypeInv, DataInv, pc \notin Trimming \cup Over \cup {"over"}
  PROVE  out_buf = Data /\ out_buf = clean /\ Len(out_buf) = len
BY DataIs DEF DataInv

\* A step of bitflip 1/1 keeps the dictionary and the array of what was collected.
LEMMA Flip1Keeps ==
  ASSUME TypeInv, DataInv, CollectInv, DictInv, NEW c, Flip1(c)
  PROVE  CollectInv' /\ DictInv' /\ Evictions
<1>1. out_buf[pos + 1] \in Bytes
  <2>1. pc = "flip1" /\ pos < len /\ pos \in Nat /\ len \in Nat /\ out_buf \in Seq(Bytes)
    BY DEF Flip1, TypeInv
  <2>2. Len(out_buf) = len
    BY <2>1, OutBufIs DEF Trimming, Over
  <2> QED BY <2>1, <2>2
<1>2. CASE LET s == Collect(a_collect, a_len, out_buf[pos + 1])
           IN Offer(s, a_len + 1) /\ Go(s, a_len + 1, c)
  <2> DEFINE s == Collect(a_collect, a_len, out_buf[pos + 1])
  <2>1. Holds(s, a_len + 1)
    BY <1>1, CollectHolds DEF CollectInv
  <2>2. Offer(s, a_len + 1) /\ Go(s, a_len + 1, c)
    BY <1>2
  <2> HIDE DEF s
  <2> QED BY <1>1, <2>1, <2>2, OfferKeeps, GoHolds
<1>3. CASE Offer(a_collect, a_len) /\ Go(a_collect, 0, c)
  <2>1. Holds(a_collect, 0)
    BY DEF CollectInv, Holds
  <2> QED BY <1>1, <1>3, <2>1, OfferKeeps, GoHolds DEF CollectInv
<1>4. CASE Go(a_collect, a_len, c) /\ UNCHANGED a_extras
  <2>1. DictInv' /\ Evictions
    BY <1>4 DEF DictInv, Evictions, GivesUp
  <2> QED BY <1>1, <1>4, <2>1, GoHolds DEF CollectInv
<1> QED BY <1>2, <1>3, <1>4 DEF Flip1

-----------------------------------------------------------------------------
(* The invariant holds                                                     *)

\* The invariant holds at first.
LEMMA InitBase == Init => Base
<1> SUFFICES ASSUME Init PROVE Base
  OBVIOUS
<1>1. file \in Seq(Bytes) /\ Len(file) >= 1 /\ len = Len(file) /\ in_buf = file /\ out_buf = file
      /\ clean = file
  <2>1. file \in Seq(Bytes) \ {<<>>}
    BY ContentsAssumption DEF Init
  <2> QED BY <2>1 DEF Init
<1>2. TypeInv
  BY <1>1 DEF Init, TypeInv, Trimming, Stages, Walking, Over, TokenPcs
<1>3. CollectInv
  BY StepsAssumption DEF Init, CollectInv, Holds
<1>4. DictInv
  BY DictionariesAssumption DEF Init, DictInv, Entries
<1>5. Data = file
  <2>1. Data \in Seq(Bytes) /\ Len(Data) = Len(file)
        /\ \A k \in 1 .. Len(file) : Data[k] = file[k]
    BY <1>1, <1>2, DataIs
  <2> QED BY <1>1, <2>1
<1>6. DataInv
  BY <1>1, <1>5 DEF Init, DataInv
<1>7. OverInv
  BY DEF Init, OverInv, Over
<1> QED BY <1>2, <1>3, <1>4, <1>6, <1>7 DEF Base

\* The steps from one stage to the next.
GoesOn == Flip8End \/ WalkEnd \/ ExtrasEnd

\* Where they are taken.
LEMMA GoesOnFrom ==
  ASSUME TypeInv, GoesOn
  PROVE  /\ pc \in Stages /\ GoOn
         /\ pc \in {"flip8"} \cup Over => pos >= len
BY Domains DEF GoesOn, Flip8End, WalkEnd, ExtrasEnd, Stages, Walking, TokenPcs, Over

\* Every step keeps the types.
LEMMA NextTypes == Base /\ [Next]_vars => TypeInv'
<1> SUFFICES ASSUME Base, [Next]_vars PROVE TypeInv'
  OBVIOUS
<1> USE DEF Base, disk, bufs, trim, stage, token, eff, over
<1>1. TypeInv
  OBVIOUS
<1>2. CASE TrimStart
  <2>1. /\ remove_len' \in Nat /\ remove_pos' \in Nat /\ stage_cur' \in Nat
        /\ pc' \in {"flip1", "trim", "trimmed"}
        /\ pc' = "trim" => remove_pos' = remove_len' /\ remove_len' > 0
    BY <1>1, <1>2, TrimStartSound
  <2>2. pos = 0
    BY <1>1, <1>2 DEF TrimStart, TypeInv, Trimming
  <2> QED BY <1>1, <1>2, <2>1, <2>2 DEF TrimStart, TypeInv, Trimming, Over, Walking
<1>3. CASE TrimAccept
  <2>1. in_buf' \in Seq(Bytes) /\ Len(in_buf') = Len(in_buf) /\ len' \in 1 .. len
        /\ clean' \in Seq(Bytes)
    BY <1>3, AcceptMoves
  <2> QED BY <1>1, <1>3, <2>1 DEF TrimAccept, TypeInv, Trimming, Over, Walking
<1>4. CASE TrimRefuse
  BY <1>1, <1>4 DEF TrimRefuse, TypeInv, Trimming, Over, Walking
<1>5. CASE TrimNextPass
  <2>1. /\ remove_len' \in Nat /\ remove_pos' \in Nat /\ stage_cur' \in Nat
        /\ pc' \in {"trim", "trimmed"}
        /\ pc' = "trim" => remove_pos' = remove_len' /\ remove_len' > 0
    BY <1>1, <1>5, NextPassSound
  <2> QED BY <1>1, <1>5, <2>1 DEF TrimNextPass, TypeInv, Trimming, Over, Walking
<1>6. CASE TrimDone
  <2>1. SubSeq(in_buf, 1, len) \in Seq(Bytes)
    BY DataIs DEF Data
  <2> QED BY <1>1, <1>6, <2>1 DEF TrimDone, TypeInv, Trimming, Over, Walking
<1>7. CASE TrimAbort
  BY <1>1, <1>7 DEF TrimAbort, TypeInv, Trimming, Over, Walking
<1>8. CASE \E c \in {0} \cup Sums : Flip1(c)
  BY <1>1, <1>8 DEF Flip1, TypeInv, Trimming, Over, Walking
<1>9. CASE \E c \in {0} \cup Sums : Flip8(c)
  BY <1>1, <1>9 DEF Flip8, TypeInv, Trimming, Over, Walking
<1>10. CASE Flip1End
  BY <1>1, <1>10 DEF Flip1End, TypeInv, Trimming, Over, Walking, Stages
<1>11. CASE GoesOn
  <2>1. /\ pc' \in Stages \cup {"det_done"} /\ pc' # "flip8"
        /\ pc' = "flip16" => len >= 2
        /\ pc' = "flip32" => len >= 4
        /\ pc' = "ext_UO" => UserExtras # <<>>
        /\ pc' = "ext_UI" => pc = "ext_UO"
        /\ pos' = 0 /\ extra' = 1 /\ last_len' = 0 /\ stage_cur' = 0
        /\ UNCHANGED <<file, in_buf, out_buf, len, remove_len, remove_pos, clean>>
    BY <1>1, <1>11, GoesOnFrom, GoOnHead DEF TypeInv
  <2>2. stage_max' \in Int
    <3>1. len \in Nat
      BY <1>1 DEF TypeInv
    <3>2. stage_max' = IF pc' \in DOMAIN Width THEN len - Width[pc'] + 1
                       ELSE IF pc' \in DOMAIN Tokens THEN Len(Tokens[pc']) * len ELSE 0
      BY <1>1, <1>11, GoesOnFrom DEF GoOn
    <3>3. pc' \in TokenPcs => Len(Tokens[pc']) \in Nat
      BY TokensTyped
    <3>4. pc' \in Walking => Width[pc'] \in Nat
      BY Domains
    <3>5. pc' \in TokenPcs => Len(Tokens[pc']) * len \in Int
      BY <3>1, <3>3
    <3> HIDE DEF Base
    <3> QED BY <3>1, <3>2, <3>4, <3>5, Domains
  <2>3. pc' \in Walking => pos' <= len' - Width[pc'] + 1
    BY <1>1, <2>1, Domains DEF TypeInv, Walking
  <2>4. pc' \notin Trimming
    BY <2>1 DEF Trimming, Stages, Walking, TokenPcs
  <2>5. len \in Nat /\ len >= 1
    BY <1>1 DEF TypeInv
  <2>6. /\ pc' \in {"flip1", "flip8"} \cup Over => pos' <= len'
        /\ pc' = "ext_UI" => pos' <= len' + 1
        /\ pc' \in {"ext_UO", "ext_UI"} => UserExtras # <<>>
    BY <1>1, <2>1, <2>5 DEF TypeInv
  <2>7. pc' \in Trimming \cup {"flip1", "det_done", "over"} \cup Stages
    BY <2>1
  <2>8. pc' # "trim"
    BY <2>4 DEF Trimming
  <2> QED BY <1>1, <2>1, <2>2, <2>3, <2>4, <2>6, <2>7, <2>8 DEF TypeInv
<1>12. CASE WalkTry \/ WalkSkip
  <2>1. pc \in Walking /\ pos <= len - Width[pc] /\ Width[pc] \in Nat
    BY <1>12, Domains DEF WalkTry, WalkSkip
  <2>2. /\ stage_cur' \in Nat /\ stage_max' \in Int /\ pos' = pos + 1 /\ pc' = pc
        /\ UNCHANGED <<file, in_buf, out_buf, len, remove_len, remove_pos, clean, extra,
             last_len>>
    <3>1. stage_cur \in Nat /\ stage_max \in Int /\ pos \in Nat
      BY <1>1 DEF TypeInv
    <3>2. CASE WalkTry
      BY <3>1, <3>2 DEF WalkTry
    <3>3. CASE WalkSkip
      BY <3>1, <3>3 DEF WalkSkip
    <3> QED BY <1>12, <3>2, <3>3
  <2> QED BY <1>1, <2>1, <2>2 DEF TypeInv, Trimming, Over, Walking
<1>13. CASE OverTry
  <2>1. pc \in Over /\ pos < len /\ extra <= Len(Tokens[pc])
    BY <1>13 DEF OverTry, Overwriting, Over
  <2>2. Token \in Seq(Bytes) /\ Len(Token) \in Nat
    BY <1>1, <2>1, TokenTyped DEF TypeInv, Over, TokenPcs
  <2>3. out_buf' \in Seq(Bytes)
    BY <1>1, <1>13, <2>2, PutKeeps DEF OverTry, TypeInv
  <2> QED BY <1>1, <1>13, <2>1, <2>2, <2>3 DEF OverTry, TypeInv, Trimming, Over, Walking
<1>14. CASE OverSkip
  BY <1>1, <1>14 DEF OverSkip, Overwriting, TypeInv, Trimming, Over, Walking
<1>15. CASE OverRestore
  <2>1. pc \in Over /\ pos < len
    BY <1>15 DEF OverRestore, Over
  <2>2. SubSeq(in_buf, pos + 1, pos + last_len) \in Seq(Bytes)
    BY <1>1, <2>1 DEF OverInv, TypeInv
  <2>3. out_buf' \in Seq(Bytes)
    BY <1>1, <1>15, <2>2, PutKeeps DEF OverRestore, TypeInv
  <2> QED BY <1>1, <1>15, <2>1, <2>3 DEF OverRestore, TypeInv, Trimming, Over, Walking
<1>16. CASE InsertTry
  BY <1>1, <1>16 DEF InsertTry, TypeInv, Trimming, Over, Walking
<1>17. CASE InsertNext
  BY <1>1, <1>17 DEF InsertNext, TypeInv, Trimming, Over, Walking
<1>18. CASE DetDone
  BY <1>1, <1>18 DEF DetDone, TypeInv, Trimming, Over, Walking
<1>19. CASE Abandon
  BY <1>1, <1>19 DEF Abandon, TypeInv, Trimming, Over, Walking
<1>20. CASE UNCHANGED vars
  BY <1>1, <1>20 DEF vars, TypeInv, Trimming, Over, Walking
<1> QED BY <1>2, <1>3, <1>4, <1>5, <1>6, <1>7, <1>8, <1>9, <1>10, <1>11, <1>12, <1>13, <1>14,
           <1>15, <1>16, <1>17, <1>18, <1>19, <1>20
        DEF Next, TrimCase, Flips, Walks, Extras, Finished, GoesOn

-----------------------------------------------------------------------------
(* What the steps do to the dictionary and to the buffers                  *)

\* Every step keeps the dictionary.
LEMMA NextDict == Base /\ [Next]_vars => CollectInv' /\ DictInv' /\ Evictions
<1> SUFFICES ASSUME Base, [Next]_vars PROVE CollectInv' /\ DictInv' /\ Evictions
  OBVIOUS
<1>1. CASE \E c \in {0} \cup Sums : Flip1(c)
  BY <1>1, Flip1Keeps DEF Base
<1>2. CASE Flip1End
  BY StepsAssumption, <1>2 DEF Base, Flip1End, CollectInv, Holds, DictInv, Evictions, GivesUp
<1>3. CASE UNCHANGED token
  BY <1>3 DEF Base, token, CollectInv, Holds, DictInv, Evictions, GivesUp
<1>4. CASE GoesOn
  BY <1>3, <1>4, GoesOnFrom DEF GoOn, Base
<1>5. CASE TrimCase \/ WalkTry \/ WalkSkip \/ DetDone \/ Abandon \/ Finished \/ UNCHANGED vars
  BY <1>3, <1>5 DEF TrimCase, TrimStart, TrimAccept, TrimRefuse, TrimNextPass, TrimDone,
     TrimAbort,
     WalkTry, WalkSkip, DetDone, Abandon, Finished, vars
<1>6. CASE OverTry \/ OverSkip \/ OverRestore \/ InsertTry \/ InsertNext
  BY <1>3, <1>6 DEF OverTry, OverSkip, OverRestore, InsertTry, InsertNext
<1>7. CASE \E c \in {0} \cup Sums : Flip8(c)
  BY <1>3, <1>7 DEF Flip8
<1> QED BY <1>1, <1>2, <1>4, <1>5, <1>6, <1>7 DEF Next, Flips, Walks, Extras, GoesOn

\* A step of the stages changes nothing but out_buf.
Frozen == UNCHANGED <<file, in_buf, len, clean, needs_write>>

\* Such a step keeps the input.
LEMMA DataFrozen ==
  ASSUME TypeInv, DataInv, Frozen, pc \notin Trimming, pc' \notin Trimming,
         pc = "over" => pc' = "over",
         pc' \notin Over \cup {"over"} => out_buf' = clean
  PROVE  DataInv'
<1>1. Data' = Data
  BY DEF Data, Frozen
<1> QED BY <1>1 DEF DataInv, Frozen, Trimming

\* After the last offset out_buf is the input again.
LEMMA OverEnd ==
  ASSUME TypeInv, DataInv, OverInv, pc \in Over, pos >= len
  PROVE  out_buf = clean
<1>1. Len(out_buf) = len /\ \A k \in 1 .. len : out_buf[k] = clean[k]
  BY DEF OverInv, TypeInv
<1>2. clean \in Seq(Bytes) /\ Len(clean) = len /\ out_buf \in Seq(Bytes)
  BY DataIs DEF DataInv, TypeInv
<1> QED BY <1>1, <1>2

\* What a token written over out_buf changes.
LEMMA TokenOver ==
  ASSUME TypeInv, DictInv, DataInv, OverInv, OverTry
  PROVE  /\ Len(out_buf') = len /\ last_len' <= len - pos
         /\ \A k \in 1 .. len : k \notin (pos + 1) .. (pos + last_len') =>
              out_buf'[k] = out_buf[k]
         /\ last_len' = Len(Token)
         /\ \A k \in (pos + 1) .. (pos + last_len') : out_buf'[k] = Token[k - pos]
<1>1. pc \in Over /\ pos < len /\ extra <= Len(Tokens[pc])
  BY DEF OverTry, Overwriting, Over
<1>2. Token \in Seq(Bytes) /\ Len(Token) \in Nat
  BY <1>1, TokenTyped DEF TypeInv, Over, TokenPcs
<1>3. out_buf' = Put(out_buf, pos, Token) /\ last_len' = Len(Token) /\ Len(Token) <= len - pos
  BY DEF OverTry, WorthTrying
<1>4. out_buf \in Seq(Bytes) /\ Len(out_buf) = len /\ pos \in Nat /\ len \in Nat
  BY <1>1 DEF OverInv, TypeInv
<1>5. /\ Len(out_buf') = len
      /\ \A k \in 1 .. len : out_buf'[k] = IF k \in (pos + 1) .. (pos + Len(Token))
           THEN Token[k - pos] ELSE out_buf[k]
  <2> DEFINE t == Token
  <2>1. t \in Seq(Bytes) /\ out_buf' = Put(out_buf, pos, t)
    BY <1>2, <1>3
  <2> HIDE DEF t
  <2>2. Laid(out_buf, pos, t, out_buf')
    <3>1. pos \in Nat /\ t \in Seq(Bytes) /\ out_buf \in Seq(Bytes)
      BY <1>4, <2>1
    <3> QED BY <2>1, <3>1, PutLays
  <2> QED BY <1>4, <2>2 DEF Laid, t
<1> QED BY <1>2, <1>3, <1>4, <1>5

\* A stage's tokens are the same all the while.
LEMMA TokensStay ==
  ASSUME UNCHANGED <<pc, a_extras>>
  PROVE  Tokens'[pc'] = Tokens[pc]
BY DEF Tokens, InUse, Used

\* Those that come are as long as this one.
LEMMA TokensSorted ==
  ASSUME TypeInv, DictInv, pc \in TokenPcs, extra <= Len(Tokens[pc])
  PROVE  \A j \in (extra + 1) .. Len(Tokens[pc]) : Len(Token) <= Len(Tokens[pc][j])
<1>1. Tokens[pc] \in Seq(Seq(Bytes) \ {<<>>}) /\ Len(Tokens[pc]) \in Nat /\ extra \in Nat \ {0}
  BY TokensTyped DEF TypeInv
<1>2. \A i, j \in 1 .. Len(Tokens[pc]) : i < j => Len(Tokens[pc][i]) <= Len(Tokens[pc][j])
  BY TokensTyped
<1> QED BY <1>1, <1>2 DEF Token

\* Restoring what the last token covered restores all of it.
LEMMA RestoreSound ==
  ASSUME TypeInv, DataInv, OverInv, OverRestore
  PROVE  Len(out_buf') = len /\ \A k \in 1 .. len : out_buf'[k] = clean[k]
<1>1. clean \in Seq(Bytes) /\ Len(clean) = len /\ len \in Nat
  BY DataIs DEF DataInv, TypeInv
<1>2. /\ pc \in Over /\ pos < len /\ pos \in Nat /\ last_len \in Nat
      /\ out_buf' = Put(out_buf, pos, SubSeq(in_buf, pos + 1, pos + last_len))
      /\ pos' = pos + 1 /\ extra' = 1 /\ last_len' = 0
      /\ UNCHANGED <<pc, len, clean, a_extras>>
  BY DEF OverRestore, Over, TypeInv, trim, token
<1>3. Len(out_buf) = len /\ last_len <= len - pos /\ out_buf \in Seq(Bytes)
      /\ in_buf \in Seq(Bytes) /\ len <= Len(in_buf)
      /\ \A k \in 1 .. len : k \notin (pos + 1) .. (pos + last_len) => out_buf[k] = clean[k]
  BY <1>2 DEF OverInv, TypeInv
<1> DEFINE t == SubSeq(in_buf, pos + 1, pos + last_len)
<1>4. t \in Seq(Bytes) /\ Len(t) = last_len /\ \A k \in 1 .. last_len : t[k] = in_buf[pos + k]
  <2> DEFINE a == pos + 1  b == pos + last_len
  <2>1. a \in 1 .. Len(in_buf) /\ b \in Nat /\ b <= Len(in_buf) /\ b >= a - 1
        /\ b - a + 1 = last_len
    BY <1>1, <1>2, <1>3
  <2> HIDE DEF a, b
  <2>2. SubSeq(in_buf, a, b) \in Seq(Bytes) /\ Len(SubSeq(in_buf, a, b)) = b - a + 1
        /\ \A k \in 1 .. b - a + 1 : SubSeq(in_buf, a, b)[k] = in_buf[a + k - 1]
    BY <1>3, <2>1
  <2>3. \A k \in 1 .. last_len : a + k - 1 = pos + k
    BY <1>2 DEF a
  <2> QED BY <2>1, <2>2, <2>3 DEF a, b
<1>5. out_buf' = Put(out_buf, pos, t)
  BY <1>2
<1> HIDE DEF t
<1>6. /\ Len(out_buf') = len
      /\ \A k \in 1 .. len : out_buf'[k] = IF k \in (pos + 1) .. (pos + last_len)
           THEN t[k - pos] ELSE out_buf[k]
  <2>1. Laid(out_buf, pos, t, out_buf')
    <3>1. pos \in Nat /\ t \in Seq(Bytes) /\ out_buf \in Seq(Bytes)
      BY <1>2, <1>3, <1>4
    <3> QED BY <1>5, <3>1, PutLays
  <2> QED BY <1>3, <1>4, <2>1 DEF Laid
<1>7. \A k \in 1 .. len : clean[k] = in_buf[k]
  BY DataIs DEF DataInv
<1>8. \A k \in 1 .. len : out_buf'[k] = clean[k]
  <2> TAKE k \in 1 .. len
  <2>1. CASE k \in (pos + 1) .. (pos + last_len)
    <3>1. k - pos \in 1 .. last_len /\ pos + (k - pos) = k
      BY <1>2, <2>1
    <3>2. t[k - pos] = in_buf[k]
      BY <1>4, <3>1
    <3> QED BY <1>6, <1>7, <2>1, <3>2
  <2>2. CASE k \notin (pos + 1) .. (pos + last_len)
    BY <1>3, <1>6, <2>2
  <2> QED BY <2>1, <2>2
<1> QED BY <1>6, <1>8

\* Every step keeps OverInv.
LEMMA NextOver == Base /\ [Next]_vars => OverInv'
<1> SUFFICES ASSUME Base, [Next]_vars PROVE OverInv'
  OBVIOUS
<1> USE DEF Base
<1>1. clean \in Seq(Bytes) /\ Len(clean) = len /\ len \in Nat
  BY DataIs DEF DataInv, TypeInv
<1>2. CASE OverTry
  <2>1. /\ Len(out_buf') = len /\ last_len' <= len - pos /\ last_len' = Len(Token)
        /\ \A k \in 1 .. len : k \notin (pos + 1) .. (pos + last_len') => out_buf'[k] = out_buf[k]
    BY <1>2, TokenOver
  <2>2. /\ pc \in Over /\ pos < len /\ extra <= Len(Tokens[pc]) /\ pos \in Nat /\ extra \in Nat
        /\ last_len \in Nat
        /\ pc' = pc /\ pos' = pos /\ len' = len /\ clean' = clean /\ extra' = extra + 1
        /\ a_extras' = a_extras
    BY <1>2 DEF OverTry, Overwriting, Over, TypeInv, trim, token
  <2>3. last_len <= Len(Token)
    <3>1. Len(Tokens[pc]) \in Nat
      BY <2>2, TokensTyped DEF Over, TokenPcs
    <3>2. extra \in extra .. Len(Tokens[pc])
      BY <2>2, <3>1
    <3> QED BY <2>2, <3>2 DEF OverInv, Token
  <2>4. \A j \in (extra + 1) .. Len(Tokens[pc]) : last_len' <= Len(Tokens[pc][j])
    BY <2>1, <2>2, TokensSorted DEF Over, TokenPcs
  <2>5. \A k \in 1 .. len : k \notin (pos + 1) .. (pos + last_len') => out_buf'[k] = clean[k]
    <3>1. Len(Token) \in Nat
      BY <2>2, TokenTyped DEF TypeInv, Over, TokenPcs
    <3> QED BY <1>1, <2>1, <2>2, <2>3, <3>1 DEF OverInv
  <2>6. Tokens'[pc'] = Tokens[pc]
    BY <2>2, TokensStay
  <2> QED BY <2>1, <2>2, <2>4, <2>5, <2>6 DEF OverInv
<1>3. CASE OverSkip
  <2>1. /\ pc \in Over /\ pos \in Nat /\ extra \in Nat
        /\ extra' = extra + 1 /\ UNCHANGED <<pc, pos, len, clean, out_buf, last_len, a_extras>>
    BY <1>3 DEF OverSkip, Overwriting, Over, TypeInv, trim, token, bufs
  <2>2. Tokens'[pc'] = Tokens[pc]
    BY <2>1, TokensStay
  <2>3. Len(Tokens[pc]) \in Nat
    BY <2>1, TokensTyped DEF Over, TokenPcs
  <2> QED BY <2>1, <2>2, <2>3 DEF OverInv
<1>4. CASE OverRestore
  <2>1. /\ pc \in Over /\ pos < len /\ pos \in Nat /\ last_len \in Nat
        /\ pos' = pos + 1 /\ extra' = 1 /\ last_len' = 0
        /\ UNCHANGED <<pc, len, clean, a_extras>>
    BY <1>4 DEF OverRestore, Over, TypeInv, trim, token
  <2>2. Len(out_buf') = len
    BY <1>4, RestoreSound
  <2>3. \A k \in 1 .. len : out_buf'[k] = clean[k]
    BY <1>4, RestoreSound
  <2>4. Tokens'[pc'] = Tokens[pc]
    BY <2>1, TokensStay
  <2>5. \A j \in 1 .. Len(Tokens[pc]) : 0 <= Len(Tokens[pc][j])
    BY <2>1, TokensTyped DEF Over, TokenPcs
  <2> QED BY <1>1, <2>1, <2>2, <2>3, <2>4, <2>5 DEF OverInv
<1>5. CASE GoesOn
  <2>1. len \in Nat /\ pc \in Stages /\ GoOn
    BY <1>5, GoesOnFrom DEF TypeInv
  <2>2. /\ pos' = 0 /\ extra' = 1 /\ last_len' = 0
        /\ UNCHANGED <<out_buf, len, clean, a_extras>>
        /\ pc' \in Over => pc # "ext_UO"
    BY <2>1, GoOnHead DEF trim, token, bufs, Over
  <2>3. out_buf = clean
    <3>1. CASE pc \in Over
      BY <1>5, <3>1, GoesOnFrom, OverEnd DEF TypeInv
    <3>2. CASE pc \notin Over
      <4>1. pc \notin Trimming \cup Over \cup {"over"}
        BY <2>1, <3>2 DEF Stages, Walking, TokenPcs, Trimming, Over
      <4> QED BY <4>1, OutBufIs
    <3> QED BY <3>1, <3>2
  <2>4. pc' \in Over => \A j \in 1 .. Len(Tokens'[pc']) : 0 <= Len(Tokens'[pc'][j])
    <3>1. DictInv'
      BY NextDict
    <3> SUFFICES ASSUME pc' \in Over
                 PROVE  \A j \in 1 .. Len(Tokens'[pc']) : 0 <= Len(Tokens'[pc'][j])
      OBVIOUS
    <3>2. Tokens' = Tokens
      BY <2>2 DEF Tokens, InUse, Used
    <3>3. Tokens[pc'] \in Seq(Seq(Bytes) \ {<<>>})
      BY TokensTyped DEF Over, TokenPcs
    <3> QED BY <3>2, <3>3
  <2> QED BY <1>1, <2>2, <2>3, <2>4 DEF OverInv
<1>6. CASE TrimCase \/ DetDone \/ Abandon \/ Flip1End
  <2>1. pc' \notin Over
    BY <1>6, TrimStartSound, NextPassSound DEF TrimCase, TrimStart, TrimAccept, TrimRefuse,
       TrimDone, TrimAbort, DetDone, Abandon, Flip1End, Over, bufs
  <2> QED BY <2>1 DEF OverInv
<1>7. CASE WalkTry \/ WalkSkip \/ InsertTry \/ InsertNext \/ \E c \in {0} \cup Sums : Flip1(c)
           \/ Flip8(c)
  <2>1. pc' \notin Over
    BY <1>7, Domains DEF WalkTry, WalkSkip, InsertTry, InsertNext, Flip1, Flip8, Over, Walking
  <2> QED BY <2>1 DEF OverInv
<1>8. CASE UNCHANGED vars
  <2>1. UNCHANGED <<pc, pos, extra, last_len, len, clean, out_buf, a_extras>>
    BY <1>8 DEF vars, bufs, trim, over, token
  <2>2. Tokens'[pc'] = Tokens[pc]
    BY <2>1, TokensStay
  <2> QED BY <2>1, <2>2 DEF OverInv
<1> QED BY <1>2, <1>3, <1>4, <1>5, <1>6, <1>7, <1>8
           DEF Next, Flips, Walks, Extras, GoesOn, Finished

\* Every step keeps the input where it should be.
LEMMA NextData == Base /\ [Next]_vars => DataInv'
<1> SUFFICES ASSUME Base, [Next]_vars PROVE DataInv'
  OBVIOUS
<1>1. TypeInv /\ DataInv /\ OverInv
  BY DEF Base
<1>2. CASE TrimStart
  <2>1. UNCHANGED <<file, in_buf, out_buf, len, clean, needs_write>> /\ pc = "trim_case"
        /\ pc' \in {"flip1", "trim", "trimmed"}
    BY <1>1, <1>2, TrimStartSound DEF TrimStart, disk, bufs
  <2> QED BY <1>1, <2>1 DEF DataInv, Data, Trimming, Over
<1>3. CASE TrimAccept
  <2>1. Data' = clean' /\ pc' = "trim" /\ needs_write'
    BY <1>1, <1>3, AcceptMoves DEF TrimAccept
  <2> QED BY <2>1 DEF DataInv, Trimming
<1>4. CASE TrimRefuse \/ TrimNextPass \/ TrimAbort
  <2>1. UNCHANGED <<file, in_buf, len, clean, needs_write>> /\ pc = "trim"
        /\ pc' \in {"over", "trim", "trimmed"}
    BY <1>1, <1>4, NextPassSound DEF TrimRefuse, TrimNextPass, TrimAbort, disk, bufs, trim
  <2> QED BY <1>1, <2>1 DEF DataInv, Data, Trimming, Over
<1>5. CASE TrimDone
  <2>1. /\ pc = "trimmed" /\ pc' = "flip1" /\ UNCHANGED <<in_buf, len, clean, needs_write>>
        /\ file' = (IF needs_write THEN Data ELSE file) /\ out_buf' = Data
    BY <1>5 DEF TrimDone, trim, Data
  <2> QED BY <1>1, <2>1 DEF DataInv, Data, Trimming, Over
<1>6. CASE GoesOn
  <2>1. len \in Nat /\ pc \in Stages /\ GoOn
    BY <1>1, <1>6, GoesOnFrom DEF TypeInv
  <2>2. Frozen /\ out_buf' = out_buf /\ pc' \in Stages \cup {"det_done"}
    BY <2>1, GoOnHead DEF disk, trim, bufs, Frozen
  <2>3. out_buf = clean
    <3>1. CASE pc \in Over
      BY <1>1, <1>6, <3>1, GoesOnFrom, OverEnd
    <3>2. CASE pc \notin Over
      <4>1. pc \notin Trimming \cup Over \cup {"over"}
        BY <2>1, <3>2 DEF Stages, Walking, TokenPcs, Trimming, Over
      <4> QED BY <1>1, <4>1, OutBufIs
    <3> QED BY <3>1, <3>2
  <2>4. pc \notin Trimming /\ pc' \notin Trimming /\ pc # "over"
    BY <2>1, <2>2 DEF Stages, Walking, TokenPcs, Trimming
  <2> QED BY <1>1, <2>2, <2>3, <2>4, DataFrozen
<1>7. CASE OverTry \/ OverSkip \/ OverRestore
  <2>1. Frozen /\ pc' = pc /\ pc \in Over
    BY <1>7 DEF OverTry, OverSkip, OverRestore, Overwriting, Frozen, disk, bufs, trim, Over
  <2> QED BY <1>1, <2>1, DataFrozen DEF Over, Trimming
<1>8. CASE WalkTry \/ WalkSkip \/ InsertTry \/ InsertNext \/ Flip1End
           \/ \E c \in {0} \cup Sums : Flip1(c) \/ Flip8(c)
  <2>1. Frozen /\ out_buf' = out_buf /\ pc \in {"flip1", "flip8", "ext_UI"} \cup Walking
        /\ (pc' = pc \/ pc' = "flip8")
    BY <1>8, Domains DEF WalkTry, WalkSkip, InsertTry, InsertNext, Flip1End, Flip1, Flip8,
       Frozen, disk, bufs, trim
  <2>2. pc \notin Trimming \cup Over \cup {"over"} /\ pc' \notin Trimming \cup Over \cup {"over"}
    BY <2>1 DEF Trimming, Over, Walking
  <2>3. out_buf = clean
    BY <1>1, <2>2, OutBufIs
  <2> QED BY <1>1, <2>1, <2>2, <2>3, DataFrozen
<1>9. CASE DetDone \/ Abandon
  <2>1. Frozen /\ pc' = "over" /\ pc \notin Trimming
    BY <1>9, Domains DEF DetDone, Abandon, Frozen, disk, bufs, trim, Trimming, Walking, TokenPcs
  <2>2. pc' \notin Trimming
    BY <2>1 DEF Trimming
  <2> QED BY <1>1, <2>1, <2>2, DataFrozen
<1>10. CASE UNCHANGED vars
  BY <1>1, <1>10 DEF vars, disk, bufs, trim, DataInv, Data
<1> QED BY <1>2, <1>3, <1>4, <1>5, <1>6, <1>7, <1>8, <1>9, <1>10
        DEF Next, TrimCase, Flips, Walks, Extras, GoesOn, Finished

\* Every step keeps the invariant.
LEMMA NextBase == Base /\ [Next]_vars => Base'
BY NextTypes, NextDict, NextData, NextOver DEF Base

-----------------------------------------------------------------------------
(* The trim, and what is kept of the dictionary                            *)

\* In a pass: n is the length it started with.  The steps made cover what lies before
\* remove_pos, or was deleted, except for the first step's length.
StepInv ==
  pc = "trim" =>
    \E n \in Nat \ {0} :
      /\ len <= n /\ StepsLeft(remove_len, n)
      /\ stage_cur = 0 \/ stage_cur * remove_len < n
      /\ remove_pos < len => stage_cur * remove_len = ((remove_pos - remove_len) + n) - len

\* Every step keeps it, whether it deletes something or not.
LEMMA NextStep == Base /\ StepInv /\ [Next]_vars => StepInv'
<1> SUFFICES ASSUME Base, StepInv, [Next]_vars, pc' = "trim" PROVE StepInv'
  BY DEF StepInv
<1>1. TypeInv
  BY DEF Base
<1>2. CASE TrimStart \/ TrimNextPass
  <2>1. /\ remove_pos' = remove_len' /\ stage_cur' = 0 /\ StepsLeft(remove_len', len)
        /\ remove_len' \in Nat
        /\ len' = len /\ len \in Nat \ {0}
    BY <1>1, <1>2, TrimStartSound, NextPassSound DEF TrimStart, TrimNextPass, bufs, TypeInv
  <2>2. 0 * remove_len' = 0 /\ 0 = ((remove_pos' - remove_len') + len) - len
    <3>1. \A r, n \in Nat : 0 * r = 0 /\ 0 = ((r - r) + n) - n
      OBVIOUS
    <3> QED BY <2>1, <3>1
  <2> QED BY <2>1, <2>2 DEF StepInv
<1>3. CASE TrimAccept \/ TrimRefuse
  <2>1. /\ pc = "trim" /\ remove_pos < len /\ stage_cur' = stage_cur + 1
        /\ remove_len' = remove_len
    BY <1>3 DEF TrimAccept, TrimRefuse
  <2>2. PICK n \in Nat \ {0} :
          /\ len <= n /\ StepsLeft(remove_len, n)
          /\ stage_cur * remove_len = ((remove_pos - remove_len) + n) - len
    BY <2>1 DEF StepInv
  <2> DEFINE R == remove_len  c == stage_cur
  <2>3. R \in Nat /\ c \in Nat /\ remove_pos \in Nat /\ len \in Nat /\ R > 0
    BY <1>1, <2>1 DEF TypeInv
  <2>4. (c + 1) * R = c * R + R
    BY <2>3
  <2>5. c * R \in Nat
    BY <2>3
  <2> HIDE DEF R, c
  <2>6. (c + 1) * R = (remove_pos + n) - len
    BY <2>2, <2>3, <2>4, <2>5 DEF R, c
  <2>7. (c + 1) * R < n
    BY <2>1, <2>3, <2>6
  <2>8. CASE TrimRefuse
    <3>1. len' = len /\ remove_pos' = remove_pos + R
      BY <2>8 DEF TrimRefuse, bufs, R
    <3>2. ((remove_pos' - R) + n) - len' = (remove_pos + n) - len
      BY <2>3, <3>1
    <3> QED BY <2>1, <2>2, <2>6, <2>7, <3>1, <3>2 DEF StepInv, R, c
  <2>9. CASE TrimAccept
    <3>1. len' = len - trim_avail /\ remove_pos' = remove_pos
      BY <2>9 DEF TrimAccept
    <3>2. trim_avail \in 1 .. R /\ trim_avail <= len - remove_pos
          /\ (trim_avail = R \/ trim_avail = len - remove_pos)
      BY <1>1, <2>1, AvailTypes DEF R
    <3>3. remove_pos' < len' => ((remove_pos' - R) + n) - len' = (remove_pos + n) - len
      BY <2>3, <3>1, <3>2
    <3>4. len' <= n
      BY <2>2, <2>3, <3>1, <3>2
    <3> QED BY <2>1, <2>2, <2>6, <2>7, <3>1, <3>3, <3>4 DEF StepInv, R, c
  <2> QED BY <1>3, <2>8, <2>9
<1>4. CASE UNCHANGED vars
  BY <1>4 DEF StepInv, vars, bufs, trim, stage, StepsLeft
<1>5. CASE Flip1End \/ WalkTry \/ WalkSkip \/ (\E c \in {0} \cup Sums : Flip1(c) \/ Flip8(c))
           \/ TrimDone \/ TrimAbort \/ DetDone \/ Abandon
  BY <1>5, Domains DEF Flip1End, WalkTry, WalkSkip, Flip1, Flip8, TrimDone, TrimAbort, DetDone,
     Abandon, Walking
<1>6. CASE OverTry \/ OverSkip \/ OverRestore \/ InsertTry \/ InsertNext
  BY <1>6 DEF OverTry, OverSkip, OverRestore, InsertTry, InsertNext, Overwriting
<1>7. CASE GoesOn
  <2>1. pc' \in Stages \cup {"det_done"}
    BY <1>1, <1>7, GoesOnFrom, GoOnHead DEF TypeInv
  <2> QED BY <2>1 DEF Stages, Walking, TokenPcs
<1> QED BY <1>2, <1>3, <1>4, <1>5, <1>6, <1>7
        DEF Next, TrimCase, Flips, Walks, Extras, GoesOn, Finished

\* So that no pass is longer than it should be.
LEMMA InvTrim == Base /\ StepInv => TrimSound
<1> SUFFICES ASSUME Base, StepInv PROVE TrimSound
  OBVIOUS
<1>1. pc = "trim" => stage_cur <= TrimEndSteps
  <2> SUFFICES ASSUME pc = "trim" PROVE stage_cur <= TrimEndSteps
    OBVIOUS
  <2>1. PICK n \in Nat \ {0} : StepsLeft(remove_len, n)
        /\ (stage_cur = 0 \/ stage_cur * remove_len < n)
    BY DEF StepInv
  <2>2. remove_len \in Nat /\ stage_cur \in Nat
    BY DEF Base, TypeInv
  <2> QED BY <2>1, <2>2, StepsBounded
<1> QED BY <1>1 DEF Base, DataInv, TrimSound, Trimming, Over

\* The trim is sound for every input and every choice of the target's: what is left
\* of the input is what was executed last with the entry's path, it is what the file
\* and the stages' buffer hold when the trim is done, and no pass takes more steps than
\* TRIM_END_STEPS (trim_case, fuzz_one).
THEOREM TrimCorrect == Spec => []TrimSound
<1>1. Init => StepInv
  BY DEF Init, StepInv
<1> QED BY InitBase, NextBase, NextStep, InvTrim, <1>1, PTL DEF Spec

\* Whatever bitflip 1/1 offers, the dictionary stays well kept, and a token it gives up
\* is one that more than half of the list is at least as good as (maybe_add_auto).
THEOREM DictionaryCorrect == Spec => DictionaryKept
<1> DEFINE A ==
      /\ WellKept(a_extras') /\ Len(a_extras') <= MaxAutoExtras
      /\ \A i \in DOMAIN a_extras :
           ~(\E j \in DOMAIN a_extras' : a_extras'[j].data = a_extras[i].data)
             => Cardinality({j \in DOMAIN a_extras : a_extras[j].hit_cnt >= a_extras[i].hit_cnt})
                  > MaxAutoExtras \div 2
<1>1. Base /\ [Next]_vars => [A]_vars
  BY NextDict DEF DictInv, Evictions, GivesUp, Worth
<1> QED BY <1>1, InitBase, NextBase, PTL DEF Spec, DictionaryKept

-----------------------------------------------------------------------------
(* Tokens over the input and in it                                         *)

\* Two strings, one after the other.
LEMMA Concat ==
  ASSUME NEW S, NEW s \in Seq(S), NEW t \in Seq(S), NEW a \in Nat, NEW b \in Nat, a = Len(s),
         b = a + Len(t)
  PROVE  /\ s \o t \in Seq(S) /\ Len(s \o t) = b
         /\ \A k \in 1 .. a : (s \o t)[k] = s[k]
         /\ \A k \in (a + 1) .. b : (s \o t)[k] = t[k - a]
<1>1. s \o t \in Seq(S) /\ Len(s \o t) = Len(s) + Len(t)
  OBVIOUS
<1>2. \A k \in 1 .. a : (s \o t)[k] = s[k]
  OBVIOUS
<1>3. \A k \in (a + 1) .. b : (s \o t)[k] = t[k - a]
  OBVIOUS
<1> QED BY <1>1, <1>2, <1>3

\* ex_tmp after a trial: the token at p, and the rest of the input after it.
With(x, p, t, d) == Put(Put(x, p, t), p + Len(t), SubSeq(d, p + 1, Len(d)))

\* x has d up to p, and room for d with t in it.
Room(S, x, d, t, p) ==
  /\ x \in Seq(S) /\ d \in Seq(S) /\ t \in Seq(S) /\ p \in 0 .. Len(d)
  /\ Len(d) + Len(t) <= Len(x)
  /\ \A k \in 1 .. p : x[k] = d[k]

\* y begins with d with t in it at p, and is d up to p.
Inside(S, x, d, t, p, y) ==
  /\ y \in Seq(S) /\ Len(y) = Len(x)
  /\ \A k \in 1 .. p : y[k] = d[k]
  /\ SubSeq(y, 1, Len(d) + Len(t)) = SubSeq(d, 1, p) \o t \o SubSeq(d, p + 1, Len(d))

\* This is what the two copies of the insert stage make of ex_tmp.
LEMMA Inserted ==
  ASSUME NEW S, NEW x, NEW d, NEW t, NEW p, Room(S, x, d, t, p)
  PROVE  Inside(S, x, d, t, p, With(x, p, t, d))
<1> DEFINE y == With(x, p, t, d)
<1> DEFINE n == Len(d)  m == Len(t)
<1> DEFINE h == SubSeq(d, 1, p)  e == SubSeq(d, p + 1, n)  u == Put(x, p, t)
<1>1. x \in Seq(S) /\ d \in Seq(S) /\ t \in Seq(S) /\ p \in 0 .. Len(d)
      /\ \A k \in 1 .. p : x[k] = d[k]
  BY DEF Room
<1>2. p \in Nat /\ n \in Nat /\ m \in Nat /\ p <= n /\ n + m <= Len(x) /\ Len(x) \in Nat
  BY DEF Room
<1>3. h \in Seq(S) /\ Len(h) = p /\ \A k \in 1 .. p : h[k] = d[k]
  BY <1>1, <1>2
<1>4. e \in Seq(S) /\ Len(e) = n - p /\ \A k \in 1 .. n - p : e[k] = d[p + k]
  <2> DEFINE a == p + 1
  <2>1. a \in 1 .. n + 1 /\ n - a + 1 = n - p /\ a \in Nat
    BY <1>1, <1>2
  <2> HIDE DEF a
  <2>2. SubSeq(d, a, n) \in Seq(S) /\ Len(SubSeq(d, a, n)) = n - a + 1
        /\ \A k \in 1 .. n - a + 1 : SubSeq(d, a, n)[k] = d[a + k - 1]
    BY <1>1, <1>2, <2>1
  <2>3. \A k \in 1 .. n - p : a + k - 1 = p + k
    BY <1>1, <1>2 DEF a
  <2> QED BY <2>1, <2>2, <2>3 DEF a
<1>5. /\ u \in Seq(S) /\ Len(u) = Len(x)
      /\ \A k \in 1 .. Len(x) : u[k] = IF k \in (p + 1) .. (p + m) THEN t[k - p] ELSE x[k]
  BY <1>1, <1>2, PutKeeps
<1>6. y = Put(u, p + m, e)
  BY DEF With
<1> HIDE DEF h, e, u, y
<1>7. /\ Put(u, p + m, e) \in Seq(S) /\ Len(Put(u, p + m, e)) = Len(u)
      /\ \A k \in 1 .. Len(u) : Put(u, p + m, e)[k] =
            IF k \in ((p + m) + 1) .. ((p + m) + Len(e)) THEN e[k - (p + m)] ELSE u[k]
  <2>1. p + m \in Nat
    BY <1>1, <1>2
  <2> DEFINE q == p + m
  <2>2. q \in Nat
    BY <2>1
  <2> HIDE DEF q
  <2>3. /\ Put(u, q, e) \in Seq(S) /\ Len(Put(u, q, e)) = Len(u)
        /\ \A k \in 1 .. Len(u) : Put(u, q, e)[k] =
              IF k \in (q + 1) .. (q + Len(e)) THEN e[k - q] ELSE u[k]
    BY <1>4, <1>5, <2>2, PutKeeps
  <2> QED BY <2>3 DEF q
<1>8. /\ y \in Seq(S) /\ Len(y) = Len(x)
      /\ \A k \in 1 .. Len(x) : y[k] = IF k \in ((p + m) + 1) .. (n + m)
           THEN e[k - (p + m)] ELSE u[k]
  <2>1. (p + m) + Len(e) = n + m
    BY <1>1, <1>2, <1>4
  <2> QED BY <1>5, <1>6, <1>7, <2>1
<1>9. \A k \in 1 .. p : y[k] = d[k]
  BY <1>1, <1>2, <1>5, <1>8
<1> DEFINE z == SubSeq(y, 1, n + m)  w == (h \o t) \o e
<1>10. z \in Seq(S) /\ Len(z) = n + m /\ \A k \in 1 .. n + m : z[k] = y[k]
  <2>1. n + m \in 0 .. Len(y)
    BY <1>1, <1>2, <1>8
  <2> QED BY <1>8, <2>1
<1>11. /\ w \in Seq(S) /\ Len(w) = n + m
       /\ \A k \in 1 .. p : w[k] = h[k]
       /\ \A k \in (p + 1) .. (p + m) : w[k] = t[k - p]
       /\ \A k \in ((p + m) + 1) .. (n + m) : w[k] = e[k - (p + m)]
  <2> DEFINE v == h \o t
  <2>1. /\ v \in Seq(S) /\ Len(v) = p + m
        /\ \A k \in 1 .. p : v[k] = h[k]
        /\ \A k \in (p + 1) .. (p + m) : v[k] = t[k - p]
    <3>1. p + m \in Nat /\ p + m = p + Len(t) /\ p = Len(h)
      BY <1>1, <1>2, <1>3
    <3>2. h \in Seq(S) /\ t \in Seq(S) /\ p \in Nat
      BY <1>1, <1>2, <1>3
    <3> DEFINE b == p + m
    <3>3. b \in Nat /\ b = p + Len(t)
      BY <3>1
    <3> HIDE DEF m, b
    <3>4. /\ h \o t \in Seq(S) /\ Len(h \o t) = b
          /\ \A k \in 1 .. p : (h \o t)[k] = h[k]
          /\ \A k \in (p + 1) .. b : (h \o t)[k] = t[k - p]
      BY <3>1, <3>2, <3>3, Concat
    <3> QED BY <3>4 DEF b
  <2> HIDE DEF v
  <2> DEFINE a == p + m  b == n + m
  <2>2. a \in Nat /\ b \in Nat /\ a = Len(v) /\ b = a + Len(e)
    BY <1>1, <1>2, <1>4, <2>1
  <2>3. v \in Seq(S) /\ e \in Seq(S) /\ w = v \o e
    BY <1>4, <2>1 DEF v
  <2>4. \A k \in 1 .. p : k \in 1 .. a
    BY <1>1, <1>2
  <2>5. \A k \in (p + 1) .. a : k \in 1 .. a
    BY <1>1, <1>2
  <2>6. /\ \A k \in 1 .. p : v[k] = h[k]
        /\ \A k \in (p + 1) .. a : v[k] = t[k - p]
    BY <2>1
  <2> HIDE DEF a, b, w
  <2>7. /\ w \in Seq(S) /\ Len(w) = b
        /\ \A k \in 1 .. a : w[k] = v[k]
        /\ \A k \in (a + 1) .. b : w[k] = e[k - a]
    BY <2>2, <2>3, Concat
  <2>8. /\ w \in Seq(S) /\ Len(w) = b
        /\ \A k \in 1 .. p : w[k] = h[k]
        /\ \A k \in (p + 1) .. a : w[k] = t[k - p]
        /\ \A k \in (a + 1) .. b : w[k] = e[k - a]
    BY <2>4, <2>5, <2>6, <2>7
  <2> QED BY <2>8 DEF a, b
<1> HIDE DEF z, w
<1>12. \A k \in 1 .. n + m : z[k] = w[k]
  <2> TAKE k \in 1 .. n + m
  <2>1. k \in 1 .. Len(x) /\ k \in Nat /\ z[k] = y[k]
    BY <1>1, <1>2, <1>10
  <2>2. CASE k <= p
    <3>1. k \in 1 .. p
      BY <1>1, <1>2, <2>1, <2>2
    <3> QED BY <1>3, <1>9, <1>11, <2>1, <3>1
  <2>3. CASE k \in (p + 1) .. (p + m)
    <3>1. y[k] = u[k] /\ u[k] = t[k - p]
      BY <1>1, <1>2, <1>5, <1>8, <2>1, <2>3
    <3> QED BY <1>1, <1>11, <2>1, <2>3, <3>1
  <2>4. CASE k \in ((p + m) + 1) .. (n + m)
    BY <1>8, <1>11, <2>1, <2>4
  <2> QED BY <1>1, <1>2, <2>1, <2>2, <2>3, <2>4
<1>13. z = w
  BY <1>10, <1>11, <1>12
<1> QED BY <1>8, <1>9, <1>13 DEF Inside, z, w, h, e, y

\* A byte of ex_tmp, which ck_alloc_nozero does not clear.
Cells == Bytes \cup {"junk"}

\* Inserting: ex_tmp has the input up to pos, and room for the longest token.
InsertInv ==
  pc = "ext_UI" =>
    /\ ex_tmp \in Seq(Cells) /\ Len(ex_tmp) = len + Len(Last(UserExtras))
    /\ \A k \in 1 .. len : k <= pos => ex_tmp[k] = clean[k]

\* What was executed last.
RanInv == (pc \in Trimming => ran = NotRun) /\ OneTokenAtATime

\* The last user token is the longest one.
LEMMA Longest ==
  ASSUME UserExtras # <<>>
  PROVE  /\ Last(UserExtras) \in Seq(Bytes) /\ Len(Last(UserExtras)) \in Nat
         /\ \A i \in 1 .. Len(UserExtras) : Len(UserExtras[i]) <= Len(Last(UserExtras))
<1>1. Len(UserExtras) \in Nat \ {0}
  BY UserExtrasAssumption
<1>2. Last(UserExtras) = UserExtras[Len(UserExtras)] /\ Last(UserExtras) \in Seq(Bytes)
  BY <1>1, UserExtrasAssumption DEF Last
<1>3. \A i \in 1 .. Len(UserExtras) : i = Len(UserExtras)
      \/ Len(UserExtras[i]) <= Len(UserExtras[Len(UserExtras)])
  BY <1>1, UserExtrasAssumption
<1> QED BY UserExtrasAssumption, <1>1, <1>2, <1>3

\* What an insertion executes, and leaves in ex_tmp.
LEMMA InsertTries ==
  ASSUME TypeInv, DictInv, DataInv, InsertInv, InsertTry
  PROVE  /\ ex_tmp' \in Seq(Cells) /\ Len(ex_tmp') = Len(ex_tmp)
         /\ \A k \in 1 .. len : k <= pos => ex_tmp'[k] = clean[k]
         /\ ran' = [data |-> SubSeq(clean, 1, pos) \o Token \o SubSeq(clean, pos + 1, len),
                    at |-> pos, extra |-> Token, over |-> FALSE]
<1>1. /\ pc = "ext_UI" /\ pos \in 0 .. len /\ extra <= Len(UserExtras)
      /\ extra \in 1 .. Len(UserExtras)
      /\ len \in Nat /\ UserExtras # <<>>
  BY DEF InsertTry, TypeInv
<1>2. clean \in Seq(Bytes) /\ Len(clean) = len /\ out_buf = clean
  BY <1>1, DataIs, OutBufIs DEF DataInv, TypeInv, Trimming, Over
<1>3. Token = UserExtras[extra] /\ Token \in Seq(Bytes)
  BY <1>1, UserExtrasAssumption DEF Token, Tokens
<1>4. Len(Token) <= Len(Last(UserExtras)) /\ Len(Token) \in Nat
  BY <1>1, <1>3, Longest
<1>5. ex_tmp \in Seq(Cells) /\ Len(ex_tmp) = len + Len(Last(UserExtras))
      /\ \A k \in 1 .. pos : ex_tmp[k] = clean[k]
  BY <1>1 DEF InsertInv
<1>6. Token \in Seq(Cells) /\ clean \in Seq(Cells)
  <2>1. \A s \in Seq(Bytes) : s \in Seq(Cells)
    BY DEF Cells
  <2> QED BY <1>2, <1>3, <2>1
<1>7. len + Len(Token) <= Len(ex_tmp)
  BY <1>1, <1>4, <1>5, Longest
<1>8. ex_tmp' = Put(Put(ex_tmp, pos, Token), pos + Len(Token), SubSeq(clean, pos + 1, len))
  BY <1>2 DEF InsertTry
<1> DEFINE t == Token
<1>9. Room(Cells, ex_tmp, clean, t, pos)
  BY <1>1, <1>2, <1>5, <1>6, <1>7 DEF Room
<1>10. ex_tmp' = With(ex_tmp, pos, t, clean)
  BY <1>2, <1>8 DEF With
<1> HIDE DEF t
<1>11. Inside(Cells, ex_tmp, clean, t, pos, ex_tmp')
  BY <1>9, <1>10, Inserted
<1>12. ran' = [data |-> SubSeq(ex_tmp', 1, len + Len(t)), at |-> pos, extra |-> t, over |-> FALSE]
  BY DEF InsertTry, t
<1>13. \A k \in 1 .. len : k <= pos => k \in 1 .. pos
  BY <1>1
<1> QED BY <1>2, <1>11, <1>12, <1>13 DEF t, Inside

\* The head of ex_tmp grows by the right byte.
LEMMA InsertMoves ==
  ASSUME TypeInv, DataInv, InsertInv, InsertNext
  PROVE  /\ ex_tmp' \in Seq(Cells) /\ Len(ex_tmp') = Len(ex_tmp)
         /\ \A k \in 1 .. len : k <= pos + 1 => ex_tmp'[k] = clean[k]
<1>1. /\ pc = "ext_UI" /\ pos \in Nat /\ pos <= len /\ len \in Nat /\ UserExtras # <<>>
      /\ ex_tmp' = IF pos < len THEN Put(ex_tmp, pos, <<out_buf[pos + 1]>>) ELSE ex_tmp
  BY DEF InsertNext, TypeInv, HeadByte
<1>2. clean \in Seq(Bytes) /\ Len(clean) = len /\ out_buf = clean
  BY <1>1, DataIs, OutBufIs DEF DataInv, TypeInv, Trimming, Over
<1>3. ex_tmp \in Seq(Cells) /\ Len(ex_tmp) >= len
      /\ \A k \in 1 .. len : k <= pos => ex_tmp[k] = clean[k]
  BY <1>1, Longest DEF InsertInv
<1>4. CASE pos < len
  <2> DEFINE t == <<clean[pos + 1]>>
  <2>1. t \in Seq(Cells) /\ Len(t) = 1 /\ t[1] = clean[pos + 1]
    BY <1>1, <1>2, <1>4 DEF Cells
  <2>2. ex_tmp' = Put(ex_tmp, pos, t)
    BY <1>1, <1>2, <1>4
  <2> HIDE DEF t
  <2>3. ex_tmp \in Seq(Cells) /\ pos \in Nat /\ t \in Seq(Cells)
    BY <1>1, <1>3, <2>1
  <2>4. /\ ex_tmp' \in Seq(Cells) /\ Len(ex_tmp') = Len(ex_tmp)
        /\ \A k \in 1 .. Len(ex_tmp) : ex_tmp'[k] = IF k \in (pos + 1) .. (pos + Len(t))
             THEN t[k - pos] ELSE ex_tmp[k]
    <3>1. /\ Put(ex_tmp, pos, t) \in Seq(Cells) /\ Len(Put(ex_tmp, pos, t)) = Len(ex_tmp)
          /\ \A k \in 1 .. Len(ex_tmp) :
               Put(ex_tmp, pos, t)[k] = IF k \in (pos + 1) .. (pos + Len(t))
                 THEN t[k - pos] ELSE ex_tmp[k]
      BY <2>3, PutKeeps
    <3> QED BY <2>2, <3>1
  <2>5. ASSUME NEW k \in 1 .. len, k <= pos + 1 PROVE ex_tmp'[k] = clean[k]
    <3>1. k \in 1 .. Len(ex_tmp)
      BY <1>1, <1>3
    <3>2. CASE k = pos + 1
      <4>1. k - pos = 1 /\ k \in (pos + 1) .. (pos + Len(t))
        BY <1>1, <2>1, <3>2
      <4> QED BY <2>1, <2>4, <3>1, <3>2, <4>1
    <3>3. CASE k # pos + 1
      <4>1. k <= pos /\ k \notin (pos + 1) .. (pos + Len(t))
        BY <1>1, <2>1, <2>5, <3>3
      <4> QED BY <1>3, <2>4, <3>1, <4>1
    <3> QED BY <3>2, <3>3
  <2> QED BY <2>4, <2>5
<1>5. CASE ~(pos < len)
  BY <1>1, <1>3, <1>5
<1> QED BY <1>4, <1>5

\* The insert stage starts from a new ex_tmp.
LEMMA GoOnInsert ==
  ASSUME TypeInv, GoesOn, pc' = "ext_UI"
  PROVE  InsertInv'
<1>1. pc = "ext_UO" /\ pos' = 0 /\ UNCHANGED <<len, clean>> /\ GoOn /\ UserExtras # <<>>
      /\ len \in Nat
  BY GoesOnFrom, GoOnHead DEF TypeInv, bufs, trim
<1>2. ex_tmp' = [k \in 1 .. (len + Len(Last(UserExtras))) |-> "junk"]
  <2>1. After[pc] = pc'
    BY <1>1 DEF GoOn
  <2> QED BY <1>1, <2>1 DEF GoOn
<1>3. Len(Last(UserExtras)) \in Nat
  BY <1>1, Longest
<1> DEFINE N == len + Len(Last(UserExtras))
<1>4. N \in Nat
  BY <1>1, <1>3
<1>5. ex_tmp' \in Seq(Cells) /\ Len(ex_tmp') = N
  <2>1. ex_tmp' \in [1 .. N -> Cells] /\ DOMAIN ex_tmp' = 1 .. N
    BY <1>2 DEF Cells
  <2> HIDE DEF N
  <2> QED BY <1>4, <2>1
<1> QED BY <1>1, <1>5 DEF InsertInv

\* Every step keeps InsertInv.
LEMMA NextInsert == Base /\ InsertInv /\ [Next]_vars => InsertInv'
<1> SUFFICES ASSUME Base, InsertInv, [Next]_vars, pc' = "ext_UI" PROVE InsertInv'
  BY DEF InsertInv
<1>1. TypeInv /\ DictInv /\ DataInv
  BY DEF Base
<1>2. CASE InsertTry
  <2>1. /\ ex_tmp' \in Seq(Cells) /\ Len(ex_tmp') = Len(ex_tmp)
        /\ \A k \in 1 .. len : k <= pos => ex_tmp'[k] = clean[k]
    BY <1>1, <1>2, InsertTries
  <2>2. pc = "ext_UI" /\ UNCHANGED <<pos, len, clean>>
    BY <1>2 DEF InsertTry, bufs, trim
  <2> QED BY <2>1, <2>2 DEF InsertInv
<1>3. CASE InsertNext
  <2>1. /\ ex_tmp' \in Seq(Cells) /\ Len(ex_tmp') = Len(ex_tmp)
        /\ \A k \in 1 .. len : k <= pos + 1 => ex_tmp'[k] = clean[k]
    BY <1>1, <1>3, InsertMoves
  <2>2. pc = "ext_UI" /\ pos' = pos + 1 /\ UNCHANGED <<len, clean>>
    BY <1>3 DEF InsertNext, bufs, trim
  <2> QED BY <2>1, <2>2 DEF InsertInv
<1>4. CASE GoesOn
  BY <1>1, <1>4, GoOnInsert
<1>5. CASE UNCHANGED vars
  <2>1. UNCHANGED <<pc, ex_tmp, len, pos, clean>>
    BY <1>5 DEF vars, bufs, trim, over
  <2> QED BY <2>1 DEF InsertInv
<1>6. CASE TrimCase
  BY <1>1, <1>6, TrimStartSound, NextPassSound
     DEF TrimCase, TrimStart, TrimAccept, TrimRefuse, TrimDone, TrimAbort
<1>7. CASE Flip1End \/ WalkTry \/ WalkSkip \/ DetDone \/ Abandon
           \/ \E c \in {0} \cup Sums : Flip1(c) \/ Flip8(c)
  BY <1>7, Domains DEF Flip1End, WalkTry, WalkSkip, Flip1, Flip8, DetDone, Abandon, Walking
<1>8. CASE OverTry \/ OverSkip \/ OverRestore
  BY <1>8 DEF OverTry, OverSkip, OverRestore, Overwriting
<1> QED BY <1>2, <1>3, <1>4, <1>5, <1>6, <1>7, <1>8
        DEF Next, Flips, Walks, Extras, GoesOn, Finished

\* A token written over the buffer is written over the input.
LEMMA RanOver ==
  ASSUME TypeInv, DictInv, DataInv, OverInv, OverInv', OverTry
  PROVE  OneTokenAtATime'
<1>1. /\ pc \in Over /\ pos \in Nat /\ len \in Nat /\ out_buf \in Seq(Bytes) /\ Len(out_buf) = len
      /\ extra <= Len(Tokens[pc]) /\ extra \in Nat \ {0}
      /\ ran' = [data |-> out_buf', at |-> pos, extra |-> Token, over |-> TRUE]
      /\ out_buf' = Put(out_buf, pos, Token)
      /\ UNCHANGED <<pc, pos, len, in_buf, clean>>
  BY DEF OverTry, Overwriting, Over, OverInv, TypeInv, trim
<1>2. Token \in Seq(Bytes)
  BY <1>1, TokenTyped DEF Over, TokenPcs
<1>3. Data \in Seq(Bytes) /\ Len(Data) = len /\ Data = clean /\ Data' = Data
  BY <1>1, DataIs DEF DataInv, Data
<1> DEFINE t == Token
<1>4. last_len' = Len(t) /\ \A k \in (pos + 1) .. (pos + last_len') : out_buf'[k] = t[k - pos]
  BY TokenOver
<1>5. Len(out_buf') = len
      /\ \A k \in 1 .. len : k \notin (pos + 1) .. (pos + last_len') => out_buf'[k] = Data[k]
  BY <1>1, <1>3 DEF OverInv
<1> HIDE DEF t
<1>6. t \in Seq(Bytes)
  BY <1>2 DEF t
<1>7. Put(Data, pos, t) \in Seq(Bytes) /\ Len(Put(Data, pos, t)) = Len(Data)
      /\ \A k \in 1 .. Len(Data) :
           Put(Data, pos, t)[k] = IF k \in (pos + 1) .. (pos + Len(t))
             THEN t[k - pos] ELSE Data[k]
  <2>1. Data \in Seq(Bytes) /\ pos \in Nat /\ t \in Seq(Bytes)
    BY <1>1, <1>3, <1>6
  <2> QED BY <2>1, PutKeeps
<1>8. out_buf' \in Seq(Bytes)
  <2>1. Put(out_buf, pos, t) \in Seq(Bytes)
    BY <1>1, <1>6, PutKeeps
  <2> QED BY <1>1, <2>1 DEF t
<1>9. out_buf' = Put(Data, pos, t)
  <2>1. \A k \in 1 .. len : out_buf'[k] = Put(Data, pos, t)[k]
    BY <1>3, <1>4, <1>5, <1>7
  <2> DEFINE u == Put(Data, pos, t)
  <2>2. u \in Seq(Bytes) /\ Len(u) = len /\ \A k \in 1 .. len : out_buf'[k] = u[k]
    BY <1>3, <1>7, <2>1
  <2> HIDE DEF u
  <2>3. out_buf' = u
    BY <1>5, <1>8, <2>2
  <2> QED BY <2>3 DEF u
<1>10. ran'.data = Put(Data, pos, t) /\ ran'.at = pos /\ ran'.extra = t /\ ran'.over
  BY <1>1, <1>9 DEF t
<1>11. Put(Data', ran'.at, ran'.extra) = Put(Data, pos, t)
  BY <1>3, <1>10
<1> QED BY <1>10, <1>11 DEF OneTokenAtATime, Put

\* A token inserted is inserted in the input.
LEMMA RanInside ==
  ASSUME TypeInv, DictInv, DataInv, InsertInv, InsertTry
  PROVE  OneTokenAtATime'
<1>1. ran' = [data |-> SubSeq(clean, 1, pos) \o Token \o SubSeq(clean, pos + 1, len),
              at |-> pos, extra |-> Token, over |-> FALSE]
  BY InsertTries
<1>2. Data = clean /\ Data' = Data /\ len' = len
  BY DEF DataInv, Data, InsertTry, bufs
<1>3. /\ ran'.data = SubSeq(Data', 1, ran'.at) \o ran'.extra \o SubSeq(Data', ran'.at + 1, len')
      /\ ~ran'.over
  BY <1>1, <1>2
<1> QED BY <1>3 DEF OneTokenAtATime

\* Other steps change neither the input nor what was executed.
LEMMA RanKept ==
  ASSUME UNCHANGED <<ran, len, in_buf>>, OneTokenAtATime
  PROVE  OneTokenAtATime'
BY DEF OneTokenAtATime, Data, Put

\* Every step keeps RanInv.
LEMMA NextRan == Base /\ InsertInv /\ RanInv /\ [Next]_vars => RanInv'
<1> SUFFICES ASSUME Base, InsertInv, RanInv, [Next]_vars PROVE RanInv'
  OBVIOUS
<1>1. TypeInv /\ DictInv /\ DataInv /\ OverInv
  BY DEF Base
<1>2. CASE TrimCase
  <2>1. ran = NotRun /\ ran' = NotRun
    BY <1>2 DEF RanInv, TrimCase, TrimStart, TrimAccept, TrimRefuse, TrimNextPass, TrimDone,
       TrimAbort, Trimming, over
  <2> QED BY <2>1 DEF RanInv, OneTokenAtATime, NotRun
<1>3. CASE OverTry
  <2>1. OverInv'
    BY NextOver
  <2>2. pc' = pc /\ pc \in Over
    BY <1>3 DEF OverTry, Overwriting, Over
  <2> QED BY <1>1, <1>3, <2>1, <2>2, RanOver DEF RanInv, Over, Trimming
<1>4. CASE InsertTry
  <2>1. pc' = pc /\ pc = "ext_UI"
    BY <1>4 DEF InsertTry
  <2> QED BY <1>1, <1>4, <2>1, RanInside DEF RanInv, Trimming
<1>5. CASE GoesOn
  <2>1. ran' = NotRun
    BY <1>1, <1>5, GoesOnFrom, GoOnHead DEF TypeInv
  <2> QED BY <2>1 DEF RanInv, OneTokenAtATime, NotRun
<1>6. CASE WalkTry \/ WalkSkip \/ OverSkip \/ OverRestore \/ InsertNext \/ Flip1End
           \/ \E c \in {0} \cup Sums : Flip1(c) \/ Flip8(c)
  <2>1. UNCHANGED <<ran, len, in_buf>> /\ pc' \in {pc, "flip8"}
    BY <1>6 DEF WalkTry, WalkSkip, OverSkip, OverRestore, InsertNext, Flip1End, Flip1, Flip8,
       bufs, over
  <2>2. pc' \in Trimming => pc \in Trimming
    BY <2>1 DEF Trimming
  <2> QED BY <2>1, <2>2, RanKept DEF RanInv
<1>7. CASE DetDone \/ Abandon
  <2>1. UNCHANGED <<ran, len, in_buf>> /\ pc' = "over"
    BY <1>7 DEF DetDone, Abandon, bufs, over
  <2> QED BY <2>1, RanKept DEF RanInv, Trimming
<1>8. CASE UNCHANGED vars
  <2>1. UNCHANGED <<ran, len, in_buf, pc>>
    BY <1>8 DEF vars, bufs, over
  <2> QED BY <2>1, RanKept DEF RanInv
<1> QED BY <1>2, <1>3, <1>4, <1>5, <1>6, <1>7, <1>8
        DEF Next, Flips, Walks, Extras, GoesOn, Finished

\* Every execution of the extras stages is the input with one token over it or in it
\* (fuzz_one, from 8028), whatever the tokens are.
THEOREM TokensDoNotMix == Spec => []OneTokenAtATime
<1>1. Init => InsertInv /\ RanInv
  BY DEF Init, InsertInv, RanInv, OneTokenAtATime
<1>2. RanInv => OneTokenAtATime
  BY DEF RanInv
<1> QED BY <1>1, <1>2, InitBase, NextBase, NextInsert, NextRan, PTL DEF Spec

-----------------------------------------------------------------------------
(* The effector map                                                        *)

\* What a quotient is.
LEMMA DivDef ==
  ASSUME NEW B \in Nat \ {0}, NEW a \in Nat
  PROVE  /\ a \div B \in Nat /\ (a \div B) * B <= a /\ a < (a \div B) * B + B
OBVIOUS

\* Quotients grow.
LEMMA DivMono ==
  ASSUME NEW B \in Nat \ {0}, NEW a \in Nat, NEW b \in Nat, a <= b
  PROVE  a \div B <= b \div B
<1> DEFINE p == a \div B  q == b \div B
<1>1. p \in Nat /\ p * B <= a /\ a < p * B + B /\ q \in Nat /\ q * B <= b /\ b < q * B + B
  BY DivDef
<1> HIDE DEF p, q
<1>2. p * B < (q + 1) * B
  <2>1. (q + 1) * B = q * B + B /\ q * B \in Nat /\ p * B \in Nat
    BY <1>1
  <2> QED BY <1>1, <2>1
<1>3. p < q + 1
  BY <1>1, <1>2, TimesBack
<1> QED BY <1>1, <1>3 DEF p, q

\* A block further.
LEMMA DivNext ==
  ASSUME NEW B \in Nat \ {0}, NEW a \in Nat
  PROVE  (a + B) \div B = (a \div B) + 1
<1> DEFINE p == a \div B  q == (a + B) \div B
<1>1. p \in Nat /\ p * B <= a /\ a < p * B + B
  BY DivDef
<1>2. q \in Nat /\ q * B <= a + B /\ a + B < q * B + B
  <2>1. a + B \in Nat
    OBVIOUS
  <2> QED BY <2>1, DivDef
<1> HIDE DEF p, q
<1>3. p * B \in Nat /\ q * B \in Nat /\ (p + 1) * B = p * B + B /\ (q + 1) * B = q * B + B
      /\ ((p + 1) + 1) * B = (p * B + B) + B
  BY <1>1, <1>2
<1>4. q * B < ((p + 1) + 1) * B /\ (p + 1) * B < (q + 1) * B
  BY <1>1, <1>2, <1>3
<1>5. q < (p + 1) + 1 /\ p + 1 < q + 1
  <2>1. q < (p + 1) + 1
    BY <1>1, <1>2, <1>4, TimesBack
  <2>2. p + 1 < q + 1
    BY <1>1, <1>2, <1>4, TimesBack
  <2> QED BY <2>1, <2>2
<1>6. q = p + 1
  BY <1>1, <1>2, <1>5
<1> QED BY <1>6 DEF p, q

\* The first and the last byte are in the first and the last block of the map, and
\* every byte is in one of its blocks.
LEMMA Blocks ==
  ASSUME TypeInv
  PROVE  /\ EFF_ALEN \in Nat /\ EFF_ALEN = EFF_APOS(len - 1) + 1
         /\ EFF_APOS(0) = 0
         /\ \A k \in 0 .. len - 1 : EFF_APOS(k) \in 0 .. EFF_ALEN - 1
<1>1. len \in Nat /\ len - 1 \in Nat /\ EffBlock \in Nat \ {0}
  BY StepsAssumption DEF TypeInv
<1>2. EFF_ALEN = EFF_APOS(len - 1) + 1
  <2>1. ((len - 1) + EffBlock) \div EffBlock = ((len - 1) \div EffBlock) + 1
    BY <1>1, DivNext
  <2>2. len + EffBlock - 1 = (len - 1) + EffBlock
    BY <1>1
  <2> QED BY <2>1, <2>2 DEF EFF_ALEN, EFF_APOS
<1>3. EFF_APOS(len - 1) \in Nat
  BY <1>1, DivDef DEF EFF_APOS
<1>4. EFF_APOS(0) = 0
  BY <1>1 DEF EFF_APOS
<1>5. ASSUME NEW k \in 0 .. len - 1 PROVE EFF_APOS(k) \in 0 .. EFF_ALEN - 1
  <2>1. k \in Nat /\ k <= len - 1
    BY <1>1
  <2>2. EFF_APOS(k) \in Nat /\ EFF_APOS(k) <= EFF_APOS(len - 1)
    BY <1>1, <2>1, DivDef, DivMono DEF EFF_APOS
  <2> QED BY <1>2, <1>3, <2>2
<1> QED BY <1>2, <1>3, <1>4, <1>5

\* The blocks that are not left out.
Flagged == {b \in DOMAIN eff_map : eff_map[b]}

\* A byte that is left out had no effect, in a file that is long enough.
LeftOut(k) == ~eff_map[EFF_APOS(k)] => k \in inert /\ len >= EffMinLen

\* The effector map: eff_cnt counts its blocks, the ends are never left out, and
\* neither is a byte that was not flipped yet, or that had an effect.
EffInv ==
  pc \in Stages =>
    /\ eff_map \in [0 .. EFF_ALEN - 1 -> BOOLEAN] /\ eff_cnt \in Nat
    /\ eff_map[0] /\ eff_map[EFF_APOS(len - 1)]
    /\ pc = "flip8" => eff_cnt = Cardinality(Flagged)
         /\ \A k \in 0 .. len - 1 : k < pos => LeftOut(k)
    /\ pc # "flip8" => /\ eff_cnt = Cardinality(Flagged) \/ Flagged = DOMAIN eff_map
                       /\ \A k \in 0 .. len - 1 : LeftOut(k)

\* It starts with its ends.
LEMMA EffStart ==
  ASSUME TypeInv, Flip1End
  PROVE  EffInv'
<1>1. /\ eff_map' = [b \in 0..(EFF_ALEN - 1) |-> b \in {0, EFF_APOS(len - 1)}]
      /\ eff_cnt' = IF EFF_APOS(len - 1) # 0 THEN 2 ELSE 1
      /\ pc' = "flip8" /\ pos' = 0 /\ len' = len
  BY DEF Flip1End, bufs
<1>2. /\ EFF_ALEN \in Nat /\ EFF_ALEN = EFF_APOS(len - 1) + 1
      /\ EFF_APOS(len - 1) \in 0 .. EFF_ALEN - 1
  <2>1. len \in Nat /\ len - 1 \in 0 .. len - 1
    BY DEF TypeInv
  <2> QED BY <2>1, Blocks
<1> DEFINE m == EFF_ALEN - 1  l == EFF_APOS(len - 1)
<1>3. m \in Nat /\ l = m /\ eff_map' = [b \in 0 .. m |-> b \in {0, l}]
  BY <1>1, <1>2
<1>4. EFF_ALEN' - 1 = m /\ EFF_APOS(len - 1)' = l
  BY <1>1 DEF EFF_ALEN, EFF_APOS
<1> HIDE DEF m, l
<1>5. /\ eff_map' \in [0 .. m -> BOOLEAN] /\ DOMAIN eff_map' = 0 .. m
      /\ \A b \in 0 .. m : eff_map'[b] <=> b \in {0, l}
  <2>1. \A b \in 0 .. m : (b \in {0, l}) \in BOOLEAN
    OBVIOUS
  <2>2. [b \in 0 .. m |-> b \in {0, l}] \in [0 .. m -> BOOLEAN]
    BY <2>1, Zenon
  <2>3. \A b \in 0 .. m : [c \in 0 .. m |-> c \in {0, l}][b] <=> b \in {0, l}
    BY Zenon
  <2> QED BY <1>3, <2>2, <2>3, Zenon
<1>6. 0 \in 0 .. m /\ l \in 0 .. m /\ Flagged' = {0, l}
  <2>1. 0 \in 0 .. m /\ l \in 0 .. m
    BY <1>3
  <2>2. \A b : b \in Flagged' <=> b \in 0 .. m /\ eff_map'[b]
    BY <1>5 DEF Flagged
  <2> QED BY <1>5, <2>1, <2>2
<1>7. eff_cnt' \in Nat /\ eff_cnt' = Cardinality(Flagged')
  <2>1. CASE l = 0
    <3>1. Flagged' = {0}
      BY <1>6, <2>1
    <3> QED BY <1>1, <2>1, <3>1, FS_Singleton DEF l
  <2>2. CASE l # 0
    <3>1. Flagged' = {0} \cup {l} /\ l \notin {0}
      BY <1>6, <2>2
    <3>2. IsFiniteSet({0}) /\ Cardinality({0}) = 1
      BY FS_Singleton
    <3>3. Cardinality({0} \cup {l}) = 2
      BY <3>1, <3>2, FS_AddElement
    <3> QED BY <1>1, <2>2, <3>1, <3>3 DEF l
  <2> QED BY <2>1, <2>2
<1>8. \A k \in 0 .. len - 1 : ~(k < 0)
  BY DEF TypeInv
<1>9. eff_map'[0] /\ eff_map'[l]
  BY <1>5, <1>6
<1> QED BY <1>1, <1>4, <1>5, <1>7, <1>8, <1>9 DEF EffInv

\* Bitflip 8/8 adds the block of a byte that has an effect.
LEMMA EffFlip ==
  ASSUME TypeInv, EffInv, NEW c, Flip8(c)
  PROVE  EffInv'
<1>1. /\ pc = "flip8" /\ pos < len /\ pos \in Nat /\ len \in Nat /\ pc' = pc /\ len' = len
      /\ pos' = pos + 1
      /\ LET found == ~eff_map[EFF_APOS(pos)] /\ Effective(c)
         IN /\ eff_map' = IF found THEN [eff_map EXCEPT ![EFF_APOS(pos)] = TRUE] ELSE eff_map
            /\ eff_cnt' = IF found THEN eff_cnt + 1 ELSE eff_cnt
      /\ inert' = IF ~eff_map[EFF_APOS(pos)] /\ c = 0 THEN inert \cup {pos} ELSE inert
  BY DEF Flip8, bufs, TypeInv
<1> DEFINE m == EFF_ALEN - 1  a == EFF_APOS(pos)
<1>2. /\ m \in Nat /\ a \in 0 .. m /\ \A k \in 0 .. len - 1 : EFF_APOS(k) \in 0 .. m
      /\ EFF_APOS(len - 1) \in 0 .. m
  <2>1. pos \in 0 .. len - 1 /\ len - 1 \in 0 .. len - 1
    BY <1>1
  <2>2. EFF_ALEN \in Nat /\ \A k \in 0 .. len - 1 : EFF_APOS(k) \in 0 .. EFF_ALEN - 1
    BY Blocks
  <2> QED BY <2>1, <2>2
<1>3. /\ eff_map \in [0 .. m -> BOOLEAN] /\ eff_cnt \in Nat /\ eff_map[0]
      /\ eff_map[EFF_APOS(len - 1)]
      /\ eff_cnt = Cardinality(Flagged) /\ \A k \in 0 .. len - 1 : k < pos => LeftOut(k)
  BY <1>1 DEF EffInv, Stages
<1>4. EFF_ALEN' - 1 = m /\ \A k : EFF_APOS(k)' = EFF_APOS(k)
  BY <1>1 DEF EFF_ALEN, EFF_APOS
<1>5. inert \subseteq inert'
  BY <1>1
<1>6. CASE ~eff_map[a] /\ Effective(c)
  <2>1. eff_map' = [eff_map EXCEPT ![a] = TRUE] /\ eff_cnt' = eff_cnt + 1
    BY <1>1, <1>6
  <2> HIDE DEF a, m
  <2>2. eff_map' \in [0 .. m -> BOOLEAN] /\ eff_map'[a]
        /\ \A b \in 0 .. m : eff_map[b] => eff_map'[b]
    BY <1>2, <1>3, <2>1
  <2>3. Flagged' = Flagged \cup {a} /\ a \notin Flagged
    <3>1. \A b \in 0 .. m : eff_map'[b] <=> (eff_map[b] \/ b = a)
      BY <1>2, <1>3, <2>1
    <3>2. DOMAIN eff_map = 0 .. m /\ DOMAIN eff_map' = 0 .. m
      BY <1>3, <2>2
    <3> QED BY <1>2, <1>6, <3>1, <3>2 DEF Flagged
  <2>4. IsFiniteSet(Flagged)
    <3>1. IsFiniteSet(0 .. m)
      BY <1>2, FS_Interval
    <3>2. Flagged \in SUBSET (0 .. m)
      BY <1>3 DEF Flagged
    <3> QED BY <3>1, <3>2, FS_Subset
  <2>5. eff_cnt' = Cardinality(Flagged')
    BY <1>3, <2>1, <2>3, <2>4, FS_AddElement
  <2>6. \A k \in 0 .. len - 1 : k < pos + 1 =>
          (~eff_map'[EFF_APOS(k)] => k \in inert' /\ len >= EffMinLen)
    <3> SUFFICES ASSUME NEW k \in 0 .. len - 1, k < pos + 1, ~eff_map'[EFF_APOS(k)]
                 PROVE  k \in inert' /\ len >= EffMinLen
      OBVIOUS
    <3>1. k # pos
      BY <2>2 DEF a
    <3>2. k < pos
      BY <1>1, <3>1
    <3>3. ~eff_map[EFF_APOS(k)]
      BY <1>2, <2>2
    <3> QED BY <1>3, <1>5, <3>2, <3>3 DEF LeftOut
  <2>7. eff_map'[0] /\ eff_map'[EFF_APOS(len - 1)]
    BY <1>2, <1>3, <2>2
  <2>8. eff_cnt' \in Nat
    BY <1>3, <2>1
  <2>9. EFF_APOS(len - 1)' = EFF_APOS(len - 1) /\ \A k : EFF_APOS(k)' = EFF_APOS(k)
    BY <1>1 DEF EFF_APOS
  <2> QED BY <1>1, <1>4, <2>2, <2>5, <2>6, <2>7, <2>8, <2>9 DEF EffInv, LeftOut
<1>7. CASE ~(~eff_map[a] /\ Effective(c))
  <2>1. eff_map' = eff_map /\ eff_cnt' = eff_cnt
    BY <1>1, <1>7
  <2>2. \A k \in 0 .. len - 1 : k < pos + 1 =>
          (~eff_map[EFF_APOS(k)] => k \in inert' /\ len >= EffMinLen)
    <3> SUFFICES ASSUME NEW k \in 0 .. len - 1, k < pos + 1, ~eff_map[EFF_APOS(k)]
                 PROVE  k \in inert' /\ len >= EffMinLen
      OBVIOUS
    <3>1. CASE k = pos
      <4>1. ~(len < EffMinLen) /\ c = 0
        BY <1>7, <3>1 DEF Effective
      <4>2. len >= EffMinLen
        BY <1>1, <4>1, StepsAssumption
      <4> QED BY <1>1, <3>1, <4>1, <4>2
    <3>2. CASE k # pos
      <4>1. k < pos
        BY <1>1, <3>2
      <4> QED BY <1>3, <1>5, <4>1 DEF LeftOut
    <3> QED BY <3>1, <3>2
  <2>3. Flagged' = Flagged
    BY <2>1 DEF Flagged
  <2>4. EFF_APOS(len - 1)' = EFF_APOS(len - 1) /\ \A k : EFF_APOS(k)' = EFF_APOS(k)
    BY <1>1 DEF EFF_APOS
  <2> HIDE DEF m
  <2> QED BY <1>1, <1>3, <1>4, <2>1, <2>2, <2>3, <2>4 DEF EffInv, LeftOut
<1> QED BY <1>6, <1>7

\* Nothing else changes it,
LEMMA EffFrame ==
  ASSUME EffInv, pc \in Stages, pc = "flip8" => pos >= len /\ len \in Nat
         /\ pos \in Nat, pc' # "flip8", UNCHANGED <<eff, len>>
  PROVE  EffInv'
<1>1. UNCHANGED <<eff_map, eff_cnt, inert, len>> /\ EFF_ALEN' = EFF_ALEN
      /\ \A k : EFF_APOS(k)' = EFF_APOS(k)
  BY DEF eff, EFF_ALEN, EFF_APOS
<1>2. EFF_APOS(len - 1)' = EFF_APOS(len - 1)
  BY <1>1 DEF EFF_APOS
<1>3. Flagged' = Flagged
  BY <1>1 DEF Flagged
<1>4. \A k \in 0 .. len - 1 : LeftOut(k)
  BY DEF EffInv
<1>5. /\ eff_map \in [0 .. EFF_ALEN - 1 -> BOOLEAN] /\ eff_cnt \in Nat
      /\ eff_map[0] /\ eff_map[EFF_APOS(len - 1)]
      /\ eff_cnt = Cardinality(Flagged) \/ Flagged = DOMAIN eff_map
  BY DEF EffInv
<1> QED BY <1>1, <1>2, <1>3, <1>4, <1>5 DEF EffInv, LeftOut

\* except for its being taken for full.
LEMMA EffEnd ==
  ASSUME TypeInv, EffInv, Flip8End
  PROVE  EffInv'
<1>1. /\ pc = "flip8" /\ pc \in Stages /\ pos >= len /\ pos \in Nat /\ len \in Nat /\ GoOn
      /\ len' = len
      /\ eff_cnt' = eff_cnt /\ inert' = inert
      /\ eff_map' = eff_map \/ eff_map' = [b \in DOMAIN eff_map |-> TRUE]
  BY DEF Flip8End, TypeInv, Stages, GoOn, bufs
<1>2. pc' # "flip8"
  BY <1>1, GoOnHead
<1>3. CASE eff_map' = eff_map
  BY <1>1, <1>2, <1>3, EffFrame DEF eff
<1>4. CASE eff_map' = [b \in DOMAIN eff_map |-> TRUE]
  <2>1. EFF_ALEN' = EFF_ALEN /\ \A k : EFF_APOS(k)' = EFF_APOS(k)
    BY <1>1 DEF EFF_ALEN, EFF_APOS
  <2>2. EFF_APOS(len - 1)' = EFF_APOS(len - 1)
    BY <1>1 DEF EFF_APOS
  <2> DEFINE m == EFF_ALEN - 1
  <2>3. eff_map \in [0 .. m -> BOOLEAN] /\ eff_cnt \in Nat
    BY <1>1 DEF EffInv
  <2>4. /\ 0 \in 0 .. m /\ EFF_APOS(len - 1) \in 0 .. m
        /\ \A k \in 0 .. len - 1 : EFF_APOS(k) \in 0 .. m
    <3>1. /\ EFF_ALEN \in Nat /\ EFF_APOS(0) = 0
          /\ \A k \in 0 .. len - 1 : EFF_APOS(k) \in 0 .. EFF_ALEN - 1
      BY Blocks
    <3>2. 0 \in 0 .. len - 1 /\ len - 1 \in 0 .. len - 1
      BY DEF TypeInv
    <3> QED BY <3>1, <3>2
  <2>5. eff_map' = [b \in 0 .. m |-> TRUE] /\ eff_map' \in [0 .. m -> BOOLEAN]
    <3>1. DOMAIN eff_map = 0 .. m
      BY <2>3
    <3> QED BY <1>4, <3>1
  <2> HIDE DEF m
  <2>6. \A b \in 0 .. m : eff_map'[b]
    BY <2>5
  <2>7. Flagged' = DOMAIN eff_map'
    BY <2>5, <2>6 DEF Flagged
  <2>8. \A k \in 0 .. len - 1 : eff_map'[EFF_APOS(k)]
    BY <2>4, <2>6
  <2>9. eff_map'[0] /\ eff_map'[EFF_APOS(len - 1)]
    BY <2>4, <2>6
  <2>10. eff_map' \in [0 .. EFF_ALEN' - 1 -> BOOLEAN]
    BY <2>1, <2>5 DEF m
  <2>11. \A k \in 0 .. len' - 1 : LeftOut(k)'
    BY <1>1, <2>1, <2>8 DEF LeftOut
  <2> QED BY <1>1, <1>2, <2>2, <2>3, <2>7, <2>9, <2>10, <2>11 DEF EffInv
<1> QED BY <1>1, <1>3, <1>4

\* Every step keeps EffInv.
LEMMA NextEff == Base /\ EffInv /\ [Next]_vars => EffInv'
<1> SUFFICES ASSUME Base, EffInv, [Next]_vars PROVE EffInv'
  OBVIOUS
<1>1. TypeInv
  BY DEF Base
<1>2. CASE Flip1End
  BY <1>1, <1>2, EffStart
<1>3. CASE \E c \in {0} \cup Sums : Flip8(c)
  BY <1>1, <1>3, EffFlip
<1>4. CASE Flip8End
  BY <1>1, <1>4, EffEnd
<1>5. CASE WalkEnd \/ ExtrasEnd
  <2>1. pc \in Stages /\ pc # "flip8" /\ GoOn /\ len \in Nat /\ UNCHANGED eff
    BY <1>1, <1>5, GoesOnFrom, Domains DEF WalkEnd, ExtrasEnd, GoesOn, TypeInv, Walking
  <2>2. pc' # "flip8" /\ len' = len
    BY <2>1, GoOnHead DEF bufs
  <2> QED BY <2>1, <2>2, EffFrame
<1>6. CASE WalkTry \/ WalkSkip \/ OverTry \/ OverSkip \/ OverRestore \/ InsertTry \/ InsertNext
  <2>1. pc \in Stages /\ pc # "flip8" /\ pc' = pc /\ UNCHANGED <<eff, len>>
    BY <1>6, Domains DEF WalkTry, WalkSkip, OverTry, OverSkip, OverRestore, InsertTry, InsertNext,
       Overwriting, Stages, Walking, TokenPcs, bufs
  <2> QED BY <2>1, EffFrame
<1>7. CASE TrimCase \/ DetDone \/ Abandon \/ \E c \in {0} \cup Sums : Flip1(c)
  <2>1. pc' \notin Stages
    BY <1>1, <1>7, TrimStartSound, NextPassSound DEF TrimCase, TrimStart, TrimAccept, TrimRefuse,
       TrimDone, TrimAbort, DetDone, Abandon, Flip1, Stages, Walking, TokenPcs
  <2> QED BY <2>1 DEF EffInv
<1>8. CASE UNCHANGED vars
  BY <1>8 DEF EffInv, LeftOut, Flagged, EFF_ALEN, EFF_APOS, vars, eff, bufs
<1> QED BY <1>2, <1>3, <1>4, <1>5, <1>6, <1>7, <1>8 DEF Next, Flips, Walks, Extras, Finished

\* A stage's trials: those made, and those left out, are what it is past.
StageInv ==
  /\ pc \in Walking => stage_max - stage_cur = ((len - Width[pc]) + 1) - pos
  /\ pc \in Over => /\ extra <= Len(Tokens[pc]) + 1
                    /\ pos = len => extra = 1
                    /\ stage_max - stage_cur = Len(Tokens[pc]) * (len - pos) - (extra - 1)

\* Every step keeps StageInv.
LEMMA NextStage == Base /\ StageInv /\ [Next]_vars => StageInv'
<1> SUFFICES ASSUME Base, StageInv, [Next]_vars PROVE StageInv'
  OBVIOUS
<1>1. TypeInv /\ DictInv
  BY DEF Base
<1>2. len \in Nat /\ pos \in Nat /\ extra \in Nat /\ stage_cur \in Nat /\ stage_max \in Int
      /\ len > 0
  BY <1>1 DEF TypeInv
<1>3. Walking \cap Over = {} /\ Walking \cap TokenPcs = {} /\ Over \subseteq TokenPcs
  BY DEF Walking, Over, TokenPcs
<1>4. CASE GoesOn
  <2>1. pc \in Stages /\ GoOn
    BY <1>1, <1>4, GoesOnFrom
  <2>2. /\ pos' = 0 /\ extra' = 1 /\ stage_cur' = 0 /\ len' = len /\ a_extras' = a_extras
    BY <1>2, <2>1, GoOnHead DEF bufs, token
  <2>3. stage_max' = IF pc' \in DOMAIN Width THEN len - Width[pc'] + 1
                     ELSE IF pc' \in DOMAIN Tokens THEN Len(Tokens[pc']) * len ELSE 0
    BY <2>1 DEF GoOn
  <2>4. pc' \in Walking => stage_max' - stage_cur' = ((len' - Width[pc']) + 1) - pos'
    <3>1. pc' \in Walking => Width[pc'] \in Nat
      BY Domains
    <3> QED BY <1>2, <2>2, <2>3, <3>1, Domains
  <2>5. ASSUME pc' \in Over
        PROVE  /\ extra' <= Len(Tokens'[pc']) + 1 /\ (pos' = len' => extra' = 1)
               /\ stage_max' - stage_cur' = Len(Tokens'[pc']) * (len' - pos') - (extra' - 1)
    <3>1. Tokens' = Tokens
      BY <2>2 DEF Tokens, InUse, Used
    <3>2. Len(Tokens[pc']) \in Nat
      BY <1>1, <1>3, <2>5, TokensTyped
    <3> DEFINE K == Len(Tokens[pc'])
    <3>3. stage_max' = K * len
      BY <1>3, <2>3, <2>5, Domains
    <3>4. K \in Nat
      BY <3>2
    <3> HIDE DEF K
    <3>5. K * len - 0 = K * (len - 0) - (1 - 1)
      BY <1>2, <3>4
    <3> QED BY <1>2, <2>2, <3>1, <3>3, <3>4, <3>5 DEF K
  <2> QED BY <2>4, <2>5 DEF StageInv
<1>5. CASE WalkTry \/ WalkSkip
  <2>1. /\ pc \in Walking /\ pc' = pc /\ len' = len /\ pos' = pos + 1 /\ Width[pc] \in Nat
        /\ \/ stage_cur' = stage_cur + 1 /\ stage_max' = stage_max
           \/ stage_cur' = stage_cur /\ stage_max' = stage_max - 1
    BY <1>5, Domains DEF WalkTry, WalkSkip, bufs
  <2>2. stage_max - stage_cur = ((len - Width[pc]) + 1) - pos
    BY <2>1 DEF StageInv
  <2>3. stage_max' - stage_cur' = ((len' - Width[pc']) + 1) - pos'
    BY <1>2, <2>1, <2>2
  <2> QED BY <1>3, <2>1, <2>3 DEF StageInv
<1>6. CASE OverTry \/ OverSkip
  <2>1. /\ pc \in Over /\ pc' = pc /\ len' = len /\ pos' = pos /\ pos < len /\ extra' = extra + 1
        /\ a_extras' = a_extras /\ extra <= Len(Tokens[pc])
        /\ \/ stage_cur' = stage_cur + 1 /\ stage_max' = stage_max
           \/ stage_cur' = stage_cur /\ stage_max' = stage_max - 1
    BY <1>6 DEF OverTry, OverSkip, Overwriting, Over, bufs, token
  <2>2. Tokens'[pc'] = Tokens[pc]
    BY <2>1, TokensStay
  <2>3. Len(Tokens[pc]) \in Nat
    BY <1>1, <1>3, <2>1, TokensTyped
  <2> DEFINE K == Len(Tokens[pc])  M == K * (len - pos)
  <2>4. stage_max - stage_cur = M - (extra - 1)
    BY <2>1 DEF StageInv
  <2>5. K \in Nat /\ M \in Int
    BY <1>2, <2>3
  <2>6. Len(Tokens'[pc']) = K /\ Len(Tokens'[pc']) * (len' - pos') = M
    BY <2>1, <2>2
  <2> HIDE DEF K, M
  <2>7. stage_max' - stage_cur' = M - (extra' - 1)
    BY <1>2, <2>1, <2>4, <2>5
  <2>8. extra' <= K + 1
    BY <1>2, <2>1, <2>5 DEF K
  <2> QED BY <1>2, <1>3, <2>1, <2>6, <2>7, <2>8 DEF StageInv
<1>7. CASE OverRestore
  <2>1. /\ pc \in Over /\ pc' = pc /\ len' = len /\ pos' = pos + 1 /\ pos < len /\ extra' = 1
        /\ a_extras' = a_extras /\ extra > Len(Tokens[pc])
        /\ stage_cur' = stage_cur /\ stage_max' = stage_max
    BY <1>7 DEF OverRestore, Over, stage, token
  <2>2. Tokens'[pc'] = Tokens[pc]
    BY <2>1, TokensStay
  <2>3. Len(Tokens[pc]) \in Nat
    BY <1>1, <1>3, <2>1, TokensTyped
  <2> DEFINE K == Len(Tokens[pc])
  <2>4. stage_max - stage_cur = K * (len - pos) - (extra - 1) /\ extra <= K + 1 /\ K \in Nat
        /\ extra > K
    BY <2>1, <2>3 DEF StageInv
  <2>5. Len(Tokens'[pc']) = K
    BY <2>2
  <2> HIDE DEF K
  <2>6. extra - 1 = K
    BY <1>2, <2>4
  <2>7. K * (len - pos) - K = K * (len - (pos + 1)) - (1 - 1)
    BY <1>2, <2>4
  <2>8. stage_max' - stage_cur' = K * (len' - pos') - (extra' - 1)
    BY <2>1, <2>4, <2>6, <2>7
  <2>9. extra' <= K + 1
    BY <2>1, <2>4
  <2> QED BY <1>3, <2>1, <2>5, <2>8, <2>9 DEF StageInv
<1>8. CASE TrimCase \/ DetDone \/ Abandon \/ Flip1End
  <2>1. pc' \notin Over \cup Walking
    BY <1>1, <1>8, TrimStartSound, NextPassSound DEF TrimCase, TrimStart, TrimAccept, TrimRefuse,
       TrimDone, TrimAbort, DetDone, Abandon, Flip1End, Over, Walking
  <2> QED BY <2>1 DEF StageInv
<1>9. CASE InsertTry \/ InsertNext \/ \E c \in {0} \cup Sums : Flip1(c) \/ Flip8(c)
  <2>1. pc' \notin Over \cup Walking
    BY <1>9 DEF InsertTry, InsertNext, Flip1, Flip8, Over, Walking
  <2> QED BY <2>1 DEF StageInv
<1>10. CASE UNCHANGED vars
  <2>1. UNCHANGED <<pc, pos, extra, len, stage_cur, stage_max, a_extras>>
    BY <1>10 DEF vars, bufs, stage, over, token
  <2>2. Tokens'[pc'] = Tokens[pc]
    BY <2>1, TokensStay
  <2> QED BY <2>1, <2>2 DEF StageInv
<1> QED BY <1>4, <1>5, <1>6, <1>7, <1>8, <1>9, <1>10
           DEF Next, Flips, Walks, Extras, GoesOn, Finished

\* Together they say what is claimed of the map.
LEMMA InvEffector == Base /\ EffInv /\ StageInv => EffectorMapSound
<1> SUFFICES ASSUME Base, EffInv, StageInv, pc \in DOMAIN Width \cup DOMAIN Tokens
             PROVE  EffectorMapSound
  BY DEF EffectorMapSound
<1>1. TypeInv /\ DictInv
  BY DEF Base
<1>2. pc \in Stages /\ pc # "flip8" /\ len \in Nat /\ pos \in Nat
  BY <1>1, Domains DEF Stages, Walking, TokenPcs, TypeInv
<1>3. \A k \in 0 .. len - 1 : ~eff_map[EFF_APOS(k)] => k \in inert /\ k # 0 /\ k # len - 1
      /\ len >= EffMinLen
  <2>1. EFF_APOS(0) = 0
    BY <1>1, Blocks
  <2> QED BY <1>2, <2>1 DEF EffInv, LeftOut
<1>4. eff_cnt = Cardinality(Flagged) \/ Flagged = DOMAIN eff_map
  BY <1>2 DEF EffInv
<1>5. pc \in Walking /\ pos > len - Width[pc] => stage_cur = stage_max
  <2>1. SUFFICES ASSUME pc \in Walking, pos > len - Width[pc] PROVE stage_cur = stage_max
    OBVIOUS
  <2>2. Width[pc] \in Nat /\ pos <= len - Width[pc] + 1 /\ stage_max \in Int /\ stage_cur \in Nat
    BY <1>1, <2>1, Domains DEF TypeInv
  <2>3. stage_max - stage_cur = ((len - Width[pc]) + 1) - pos
    BY <2>1 DEF StageInv
  <2> QED BY <1>2, <2>1, <2>2, <2>3
<1>6. pc \in Over /\ pos >= len => stage_cur = stage_max
  <2>1. SUFFICES ASSUME pc \in Over, pos >= len PROVE stage_cur = stage_max
    OBVIOUS
  <2>2. pos = len /\ stage_max \in Int /\ stage_cur \in Nat
    BY <1>1, <1>2, <2>1 DEF TypeInv
  <2>3. Len(Tokens[pc]) \in Nat
    BY <1>1, <2>1, TokensTyped DEF Over, TokenPcs
  <2> DEFINE K == Len(Tokens[pc])
  <2>4. stage_max - stage_cur = K * (len - pos) - (extra - 1) /\ extra = 1 /\ K \in Nat
    BY <2>1, <2>2, <2>3 DEF StageInv
  <2> HIDE DEF K
  <2>5. K * (len - len) = 0
    BY <1>2, <2>4
  <2> QED BY <1>2, <2>2, <2>4, <2>5
<1> QED BY <1>3, <1>4, <1>5, <1>6, Domains DEF EffectorMapSound, Flagged, Over

\* A byte that later stages leave out had no effect when it was flipped, it is not the
\* first or the last one, eff_cnt is the number of blocks, and stage_max comes down to
\* the trials that were made (fuzz_one, from 7399), for any file and any target.
THEOREM EffectorMapCorrect == Spec => []EffectorMapSound
<1>1. Init => EffInv /\ StageInv
  BY DEF Init, EffInv, StageInv, Stages, Walking, TokenPcs, Over
<1> QED BY InitBase, NextBase, NextEff, NextStage, InvEffector, <1>1, PTL DEF Spec

-----------------------------------------------------------------------------
(* Strings of flips                                                        *)

\* A maximal string of flips from a to b that lead to one other path.
IsRun(s, a, b) ==
  /\ a \in 1 .. Len(s) /\ b \in 1 .. Len(s) /\ a <= b /\ s[a] # 0
  /\ \A k \in a .. b : s[k] = s[a]
  /\ a > 1 => s[a - 1] # s[a]
  /\ b < Len(s) => s[b + 1] # s[b]

\* The path of the last flip.
Ending(s) == IF Len(s) = 0 THEN 0 ELSE s[Len(s)]

\* The flips that end s, n of them, lead to one other path, and the one before does not.
Trailing(s, n) ==
  /\ n \in 0 .. Len(s)
  /\ n = 0 <=> Ending(s) = 0
  /\ \A k \in 1 .. Len(s) : k > Len(s) - n => s[k] = Ending(s)
  /\ n > 0 /\ n < Len(s) => s[Len(s) - n] # Ending(s)

\* This is the maximal string at the end, and the only one.
LEMMA TrailingRun ==
  ASSUME NEW s \in Seq(Nat), NEW n, Trailing(s, n), NEW a
  PROVE  IsRun(s, a, Len(s)) <=> n > 0 /\ a = (Len(s) - n) + 1
<1> DEFINE L == Len(s)  z == Ending(s)
<1>1. /\ L \in Nat /\ n \in 0 .. L
      /\ n = 0 <=> z = 0
      /\ \A k \in 1 .. L : k > L - n => s[k] = z
      /\ n > 0 /\ n < L => s[L - n] # z
      /\ L > 0 => s[L] = z
  BY DEF Trailing, Ending
<1>2. IsRun(s, a, L) <=> /\ a \in 1 .. L /\ L \in 1 .. L /\ a <= L /\ s[a] # 0
                         /\ \A k \in a .. L : s[k] = s[a]
                         /\ a > 1 => s[a - 1] # s[a]
                         /\ L < L => s[L + 1] # s[L]
  BY DEF IsRun
<1> HIDE DEF L, z
<1>3. ASSUME IsRun(s, a, L) PROVE n > 0 /\ a = (L - n) + 1
  <2>1. /\ a \in 1 .. L /\ s[a] # 0 /\ \A k \in a .. L : s[k] = s[a]
        /\ a > 1 => s[a - 1] # s[a]
    BY <1>2, <1>3
  <2>2. s[a] = z /\ L > 0
    BY <1>1, <2>1
  <2>3. n > 0
    BY <1>1, <2>1, <2>2
  <2>4. ~(a < (L - n) + 1)
    <3>1. SUFFICES ASSUME a < (L - n) + 1 PROVE FALSE
      OBVIOUS
    <3>2. L - n \in a .. L /\ n < L
      BY <1>1, <2>1, <2>3, <3>1
    <3> QED BY <1>1, <2>1, <2>2, <2>3, <3>2
  <2>5. ~(a > (L - n) + 1)
    <3>1. SUFFICES ASSUME a > (L - n) + 1 PROVE FALSE
      OBVIOUS
    <3>2. a - 1 \in 1 .. L /\ a - 1 > L - n /\ a > 1
      BY <1>1, <2>1, <3>1
    <3> QED BY <1>1, <2>1, <2>2, <3>2
  <2> QED BY <1>1, <2>1, <2>3, <2>4, <2>5
<1>4. ASSUME n > 0, a = (L - n) + 1 PROVE IsRun(s, a, L)
  <2>1. a \in 1 .. L /\ L \in 1 .. L /\ a <= L /\ a - 1 = L - n
    BY <1>1, <1>4
  <2>2. \A k \in a .. L : k \in 1 .. L /\ k > L - n
    BY <1>1, <1>4
  <2>3. \A k \in a .. L : s[k] = z
    BY <1>1, <2>2
  <2>4. s[a] = z /\ z # 0
    BY <1>1, <1>4, <2>1, <2>3
  <2>5. a > 1 => s[a - 1] # s[a]
    BY <1>1, <1>4, <2>1, <2>4
  <2> QED BY <1>1, <1>2, <2>1, <2>3, <2>4, <2>5
<1> QED BY <1>3, <1>4 DEF L

\* A flip more changes only the string that ends just before it.
LEMMA RunsBefore ==
  ASSUME NEW s \in Seq(Nat), NEW c \in Nat, NEW a, NEW b, b <= Len(s), b \in Nat
  PROVE  IsRun(Append(s, c), a, b) <=> IsRun(s, a, b) /\ (b = Len(s) => c # Ending(s))
<1> DEFINE t == Append(s, c)  L == Len(s)
<1>1. /\ t \in Seq(Nat) /\ Len(t) = L + 1 /\ L \in Nat
      /\ \A k \in 1 .. L : t[k] = s[k]
      /\ t[L + 1] = c
  OBVIOUS
<1>2. Ending(s) = IF L = 0 THEN 0 ELSE s[L]
  BY DEF Ending
<1>3. IsRun(t, a, b) <=>
        /\ a \in 1 .. Len(t) /\ b \in 1 .. Len(t) /\ a <= b /\ t[a] # 0
        /\ \A k \in a .. b : t[k] = t[a]
        /\ a > 1 => t[a - 1] # t[a]
        /\ b < Len(t) => t[b + 1] # t[b]
  BY DEF IsRun
<1>4. IsRun(s, a, b) <=>
        /\ a \in 1 .. L /\ b \in 1 .. L /\ a <= b /\ s[a] # 0
        /\ \A k \in a .. b : s[k] = s[a]
        /\ a > 1 => s[a - 1] # s[a]
        /\ b < L => s[b + 1] # s[b]
  BY DEF IsRun
<1>5. b <= L /\ b \in Nat
  OBVIOUS
<1> SUFFICES IsRun(t, a, b) <=> IsRun(s, a, b) /\ (b = L => c # Ending(s))
  OBVIOUS
<1> HIDE DEF t, L
<1>6. CASE ~(a \in 1 .. L /\ b \in 1 .. L /\ a <= b)
  BY <1>1, <1>3, <1>4, <1>5, <1>6
<1>7. CASE a \in 1 .. L /\ b \in 1 .. L /\ a <= b
  <2>1. /\ a \in Nat /\ L \in Nat /\ L > 0 /\ b < L + 1
        /\ \A k \in a .. b : k \in 1 .. L
        /\ a > 1 => a - 1 \in 1 .. L
        /\ b < L => b + 1 \in 1 .. L
    BY <1>1, <1>5, <1>7
  <2>2. /\ b = L => t[b + 1] = c
        /\ b = L => Ending(s) = s[b]
    BY <1>1, <1>2, <2>1
  <2>3. /\ t[a] = s[a] /\ t[b] = s[b] /\ \A k \in a .. b : t[k] = s[k]
        /\ a > 1 => t[a - 1] = s[a - 1]
        /\ b < L => t[b + 1] = s[b + 1]
        /\ b = L => t[b + 1] = c /\ Ending(s) = s[b]
        /\ b < Len(t)
    BY <1>1, <1>7, <2>1, <2>2
  <2>4. (\A k \in a .. b : t[k] = t[a]) <=> (\A k \in a .. b : s[k] = s[a])
    BY <2>3
  <2>5. (a > 1 => t[a - 1] # t[a]) <=> (a > 1 => s[a - 1] # s[a])
    BY <2>3
  <2>6. (b < Len(t) => t[b + 1] # t[b]) <=> (b < L => s[b + 1] # s[b]) /\ (b = L => c # Ending(s))
    BY <1>1, <1>7, <2>3
  <2> QED BY <1>1, <1>3, <1>4, <1>7, <2>3, <2>4, <2>5, <2>6
<1> QED BY <1>6, <1>7

\* The strings at the end, with a flip more.
LEMMA TrailingNext ==
  ASSUME NEW s \in Seq(Nat), NEW n, Trailing(s, n), NEW c \in Nat
  PROVE  /\ Ending(Append(s, c)) = c
         /\ c = Ending(s) => Trailing(Append(s, c), IF c = 0 THEN 0 ELSE n + 1)
         /\ c # Ending(s) => Trailing(Append(s, c), IF c = 0 THEN 0 ELSE 1)
<1> DEFINE t == Append(s, c)  L == Len(s)
<1>1. /\ t \in Seq(Nat) /\ Len(t) = L + 1 /\ L \in Nat
      /\ \A k \in 1 .. L : t[k] = s[k]
      /\ t[L + 1] = c
  OBVIOUS
<1>2. /\ n \in 0 .. L
      /\ n = 0 <=> Ending(s) = 0
      /\ \A k \in 1 .. L : k > L - n => s[k] = Ending(s)
      /\ n > 0 /\ n < L => s[L - n] # Ending(s)
      /\ Ending(s) = IF L = 0 THEN 0 ELSE s[L]
  BY DEF Trailing, Ending
<1> HIDE DEF t, L
<1>3. Ending(t) = c
  BY <1>1 DEF Ending
<1>4. CASE c = 0
  BY <1>1, <1>3, <1>4 DEF Trailing, t
<1>5. CASE c # 0 /\ c = Ending(s)
  <2>1. n + 1 \in 0 .. L + 1 /\ n + 1 # 0
    BY <1>1, <1>2
  <2>2. \A k \in 1 .. L + 1 : k > (L + 1) - (n + 1) => t[k] = c
    <3> TAKE k \in 1 .. L + 1
    <3> HAVE k > (L + 1) - (n + 1)
    <3>1. CASE k = L + 1
      BY <1>1, <3>1
    <3>2. CASE k # L + 1
      BY <1>1, <1>2, <1>5, <3>2
    <3> QED BY <3>1, <3>2
  <2>3. n + 1 < L + 1 => t[(L + 1) - (n + 1)] # c
    <3> SUFFICES ASSUME n + 1 < L + 1 PROVE t[(L + 1) - (n + 1)] # c
      OBVIOUS
    <3>1. (L + 1) - (n + 1) = L - n /\ L - n \in 1 .. L /\ n > 0
      BY <1>1, <1>2, <1>5
    <3> QED BY <1>1, <1>2, <1>5, <3>1
  <2>4. Trailing(t, n + 1)
    BY <1>1, <1>3, <1>5, <2>1, <2>2, <2>3 DEF Trailing
  <2> QED BY <1>3, <1>5, <2>4 DEF t
<1>6. CASE c # 0 /\ c # Ending(s)
  <2>1. \A k \in 1 .. L + 1 : k > (L + 1) - 1 => t[k] = c
    BY <1>1
  <2>2. 1 < L + 1 => t[(L + 1) - 1] # c
    BY <1>1, <1>2, <1>6
  <2>3. Trailing(t, 1)
    BY <1>1, <1>3, <1>6, <2>1, <2>2 DEF Trailing
  <2> QED BY <1>3, <1>6, <2>3 DEF t
<1> QED BY <1>4, <1>5, <1>6

\* What the strings that end by q tell: the bytes of d under those that fit.
Told(d, s, q) ==
  {SubSeq(d, r[1], r[2]) : r \in {r \in (DOMAIN s) \X (DOMAIN s) :
     IsRun(s, r[1], r[2]) /\ r[2] <= q
     /\ (r[2] - r[1]) + 1 >= MinAutoExtra /\ (r[2] - r[1]) + 1 <= MaxAutoExtra}}

\* Its members.
LEMMA ToldIs ==
  ASSUME NEW s \in Seq(Nat), NEW q, NEW t
  PROVE  t \in Told(out_buf, s, q) <=>
           \E a, b \in Nat : /\ IsRun(s, a, b) /\ b <= q
                             /\ (b - a) + 1 >= MinAutoExtra /\ (b - a) + 1 <= MaxAutoExtra
                             /\ t = SubSeq(out_buf, a, b)
<1> DEFINE P(a, b) == /\ IsRun(s, a, b) /\ b <= q
                      /\ (b - a) + 1 >= MinAutoExtra /\ (b - a) + 1 <= MaxAutoExtra
<1>1. Told(out_buf, s, q) =
        {SubSeq(out_buf, r[1], r[2]) : r \in {r \in (DOMAIN s) \X (DOMAIN s) : P(r[1], r[2])}}
  BY DEF Told
<1>2. \A a, b : P(a, b) => a \in DOMAIN s /\ b \in DOMAIN s
  BY DEF IsRun
<1>3. DOMAIN s \subseteq Nat
  OBVIOUS
<1> HIDE DEF P
<1>4. ASSUME t \in Told(out_buf, s, q)
      PROVE  \E a, b \in Nat : P(a, b) /\ t = SubSeq(out_buf, a, b)
  <2>1. PICK r \in (DOMAIN s) \X (DOMAIN s) : P(r[1], r[2]) /\ t = SubSeq(out_buf, r[1], r[2])
    BY <1>1, <1>4
  <2>2. r[1] \in Nat /\ r[2] \in Nat
    BY <1>3, <2>1
  <2> QED BY <2>1, <2>2
<1>5. ASSUME NEW a \in Nat, NEW b \in Nat, P(a, b), t = SubSeq(out_buf, a, b)
      PROVE  t \in Told(out_buf, s, q)
  <2>1. <<a, b>> \in (DOMAIN s) \X (DOMAIN s)
    BY <1>2, <1>5
  <2>2. <<a, b>>[1] = a /\ <<a, b>>[2] = b
    OBVIOUS
  <2> QED BY <1>1, <1>5, <2>1, <2>2
<1>6. t \in Told(out_buf, s, q) <=> \E a, b \in Nat : P(a, b) /\ t = SubSeq(out_buf, a, b)
  BY <1>4, <1>5
<1> QED BY <1>6 DEF P

\* The strings of u up to p are those of s up to q.
SameRuns(s, q, u, p) ==
  \A a, b \in Nat : IsRun(u, a, b) /\ b <= p <=> IsRun(s, a, b) /\ b <= q

\* The same strings tell the same.
LEMMA ToldSame ==
  ASSUME NEW s \in Seq(Nat), NEW u \in Seq(Nat), NEW q, NEW p,
         SameRuns(s, q, u, p)
  PROVE  Told(out_buf, u, p) = Told(out_buf, s, q)
<1>1. ASSUME NEW t PROVE t \in Told(out_buf, u, p) <=> t \in Told(out_buf, s, q)
  <2>1. t \in Told(out_buf, s, q) <=>
           \E a, b \in Nat : /\ IsRun(s, a, b) /\ b <= q
                             /\ (b - a) + 1 >= MinAutoExtra /\ (b - a) + 1 <= MaxAutoExtra
                             /\ t = SubSeq(out_buf, a, b)
    BY ToldIs
  <2>2. t \in Told(out_buf, u, p) <=>
           \E a, b \in Nat : /\ IsRun(u, a, b) /\ b <= p
                             /\ (b - a) + 1 >= MinAutoExtra /\ (b - a) + 1 <= MaxAutoExtra
                             /\ t = SubSeq(out_buf, a, b)
    BY ToldIs
  <2> QED BY <2>1, <2>2 DEF SameRuns
<1> QED BY <1>1

\* The strings of u up to p are those of s up to q, and one of n flips up to e.
OneRunMore(s, q, u, p, n, e) ==
  \A a, b \in Nat : IsRun(u, a, b) /\ b <= p <=>
                        \/ IsRun(s, a, b) /\ b <= q
                        \/ n > 0 /\ a = (e - n) + 1 /\ b = e

\* It tells more if it fits.
LEMMA ToldMore ==
  ASSUME NEW s \in Seq(Nat), NEW u \in Seq(Nat), NEW q, NEW p, NEW n \in Nat, NEW e \in Nat,
         n <= e,
         OneRunMore(s, q, u, p, n, e)
  PROVE  Told(out_buf, u, p) = IF n > 0 /\ n >= MinAutoExtra /\ n <= MaxAutoExtra
                      THEN Told(out_buf, s, q) \cup {SubSeq(out_buf, (e - n) + 1, e)}
                        ELSE Told(out_buf, s, q)
<1> DEFINE f == n > 0 /\ n >= MinAutoExtra /\ n <= MaxAutoExtra
<1>1. (e - n) + 1 \in Nat /\ (e - ((e - n) + 1)) + 1 = n
  OBVIOUS
<1>2. ASSUME NEW t PROVE t \in Told(out_buf, u, p) <=> t \in Told(out_buf, s, q)
             \/ (f /\ t = SubSeq(out_buf, (e - n) + 1, e))
  <2> DEFINE R(a, b) == /\ (b - a) + 1 >= MinAutoExtra /\ (b - a) + 1 <= MaxAutoExtra
                        /\ t = SubSeq(out_buf, a, b)
  <2>1. t \in Told(out_buf, s, q) <=> \E a, b \in Nat : IsRun(s, a, b) /\ b <= q /\ R(a, b)
    BY ToldIs
  <2>2. t \in Told(out_buf, u, p) <=> \E a, b \in Nat : IsRun(u, a, b) /\ b <= p /\ R(a, b)
    BY ToldIs
  <2>3. R((e - n) + 1, e) <=> n >= MinAutoExtra /\ n <= MaxAutoExtra
        /\ t = SubSeq(out_buf, (e - n) + 1, e)
    BY <1>1
  <2> HIDE DEF R
  <2> QED BY <1>1, <2>1, <2>2, <2>3 DEF OneRunMore
<1>3. CASE f
  <2>1. \A t : t \in Told(out_buf, u, p) <=>
          t \in Told(out_buf, s, q) \cup {SubSeq(out_buf, (e - n) + 1, e)}
    BY <1>2, <1>3
  <2> QED BY <1>3, <2>1
<1>4. CASE ~f
  <2>1. \A t : t \in Told(out_buf, u, p) <=> t \in Told(out_buf, s, q)
    BY <1>2, <1>4
  <2> QED BY <1>4, <2>1
<1> QED BY <1>3, <1>4

\* Appending a member.
LEMMA OneMore ==
  ASSUME NEW S, NEW o \in Seq(S), NEW t \in S
  PROVE  Append(o, t) \in Seq(S) /\ ToSet(Append(o, t)) = ToSet(o) \cup {t}
<1> DEFINE r == Append(o, t)  L == Len(o)
<1>1. /\ r \in Seq(S) /\ Len(r) = L + 1 /\ L \in Nat /\ DOMAIN r = 1 .. L + 1 /\ DOMAIN o = 1 .. L
      /\ \A k \in 1 .. L : r[k] = o[k]
      /\ r[L + 1] = t
  OBVIOUS
<1> HIDE DEF r, L
<1>2. ToSet(r) = {r[k] : k \in 1 .. L + 1} /\ ToSet(o) = {o[k] : k \in 1 .. L}
  BY <1>1 DEF ToSet
<1>3. \A x : x \in ToSet(r) <=> x \in ToSet(o) \/ x = t
  <2>1. \A k : k \in 1 .. L + 1 <=> k \in 1 .. L \/ k = L + 1
    BY <1>1
  <2> QED BY <1>1, <1>2, <2>1
<1>4. ToSet(r) = ToSet(o) \cup {t}
  BY <1>3
<1> QED BY <1>1, <1>4 DEF r

\* a_collect, as far as it reaches, holds the n bytes of d up to e.
Kept(d, s, n, e) == \A k \in 1 .. n : k <= MaxAutoExtra => s[k] = d[(e - n) + k]

\* Collect keeps it so.
LEMMA KeptNext ==
  ASSUME NEW s, NEW n \in Nat, NEW e \in Nat, n <= e, e < Len(out_buf), out_buf \in Seq(Bytes),
         Holds(s, n), Kept(out_buf, s, n, e)
  PROVE  Kept(out_buf, Collect(s, n, out_buf[e + 1]), n + 1, e + 1)
<1>1. out_buf[e + 1] \in Bytes
  OBVIOUS
<1> DEFINE c == Collect(s, n, out_buf[e + 1])
<1>2. CASE n < MaxAutoExtra
  <2>1. (\A k \in 1 .. n : c[k] = s[k]) /\ c[n + 1] = out_buf[e + 1]
    BY <1>1, <1>2, CollectHolds
  <2> HIDE DEF c
  <2>2. \A k \in 1 .. n + 1 : k <= MaxAutoExtra => c[k] = out_buf[((e + 1) - (n + 1)) + k]
    <3> TAKE k \in 1 .. n + 1
    <3> HAVE k <= MaxAutoExtra
    <3>1. CASE k \in 1 .. n
      <4>1. ((e + 1) - (n + 1)) + k = (e - n) + k
        OBVIOUS
      <4> QED BY <2>1, <3>1, <4>1 DEF Kept
    <3>2. CASE k = n + 1
      <4>1. ((e + 1) - (n + 1)) + k = e + 1
        BY <3>2
      <4> QED BY <2>1, <3>2, <4>1
    <3> QED BY <3>1, <3>2
  <2> QED BY <2>2 DEF Kept, c
<1>3. CASE ~(n < MaxAutoExtra)
  <2>1. c = s
    BY <1>3 DEF Collect
  <2>2. \A k \in 1 .. n + 1 : k <= MaxAutoExtra => s[k] = out_buf[((e + 1) - (n + 1)) + k]
    <3> TAKE k \in 1 .. n + 1
    <3> HAVE k <= MaxAutoExtra
    <3>1. k \in 1 .. n /\ ((e + 1) - (n + 1)) + k = (e - n) + k
      BY <1>3, StepsAssumption
    <3> QED BY <3>1 DEF Kept
  <2> QED BY <2>1, <2>2 DEF Kept
<1> QED BY <1>2, <1>3

\* When all of them fit, it has the bytes themselves.
LEMMA KeptIs ==
  ASSUME NEW s, NEW n \in Nat, NEW e \in Nat, n <= e, e <= Len(out_buf), out_buf \in Seq(Bytes),
         n > 0, n <= MaxAutoExtra, Holds(s, n), Kept(out_buf, s, n, e)
  PROVE  SubSeq(s, 1, n) = SubSeq(out_buf, (e - n) + 1, e) /\ SubSeq(s, 1, n) \in Seq(Bytes)
<1> DEFINE t == SubSeq(s, 1, n)  a == (e - n) + 1  u == SubSeq(out_buf, a, e)
<1>1. t \in Seq(Bytes) /\ Len(t) = n /\ \A k \in 1 .. n : t[k] = s[k]
  BY DEF Holds
<1>2. a \in 1 .. Len(out_buf) /\ a <= e /\ (e - a) + 1 = n
  OBVIOUS
<1>3. \A k \in 1 .. n : (a + k) - 1 = (e - n) + k
  OBVIOUS
<1> HIDE DEF a, t
<1>4. u \in Seq(Bytes) /\ Len(u) = (e - a) + 1
      /\ \A k \in 1 .. (e - a) + 1 : u[k] = out_buf[(a + k) - 1]
  BY <1>2
<1> HIDE DEF u
<1>5. \A k \in 1 .. n : t[k] = u[k]
  <2> TAKE k \in 1 .. n
  <2>1. t[k] = s[k] /\ u[k] = out_buf[(e - n) + k]
    BY <1>1, <1>2, <1>3, <1>4
  <2>2. k <= MaxAutoExtra
    BY StepsAssumption
  <2> QED BY <2>1, <2>2 DEF Kept
<1>6. t = u
  BY <1>1, <1>2, <1>4, <1>5
<1> QED BY <1>1, <1>6 DEF t, u, a

\* Bitflip 1/1: what was offered is what the strings tell that have ended, and
\* a_collect holds the one that has not.  Nothing is known of a_len after the last byte.
FlipInv ==
  /\ pc \in Trimming => sums = <<>> /\ offered = <<>> /\ prev_cksum = 0 /\ a_len = 0
  /\ pc = "flip1" =>
       /\ sums \in Seq(Nat) /\ Len(sums) = pos /\ offered \in Seq(Seq(Bytes))
       /\ prev_cksum = Ending(sums)
       /\ pos < len => Trailing(sums, a_len) /\ Kept(out_buf, a_collect, a_len, pos)
       /\ ToSet(offered) = Told(out_buf, sums, IF pos < len THEN pos - 1 ELSE pos)

\* A step that offers u, of n bytes.
Offers(n, u) ==
  /\ offered' \in Seq(Seq(Bytes))
  /\ ToSet(offered') = IF n > 0 /\ n >= MinAutoExtra /\ n <= MaxAutoExtra
                       THEN ToSet(offered) \cup {u} ELSE ToSet(offered)

\* Offer does this with what was collected.
LEMMA Offered ==
  ASSUME NEW s, NEW n \in Nat, NEW e \in Nat, n <= e, e <= Len(out_buf), out_buf \in Seq(Bytes),
         Holds(s, n), Kept(out_buf, s, n, e), Offer(s, n), offered \in Seq(Seq(Bytes))
  PROVE  Offers(n, SubSeq(out_buf, (e - n) + 1, e))
<1> DEFINE u == SubSeq(out_buf, (e - n) + 1, e)
<1>1. CASE n >= MinAutoExtra /\ n <= MaxAutoExtra
  <2>1. n > 0
    BY <1>1, StepsAssumption
  <2>2. SubSeq(s, 1, n) = u /\ u \in Seq(Bytes)
    BY <1>1, <2>1, KeptIs
  <2>3. offered' = Append(offered, SubSeq(s, 1, n))
    BY <1>1 DEF Offer
  <2> HIDE DEF u
  <2>4. offered' = Append(offered, u)
    BY <2>2, <2>3
  <2>5. offered' \in Seq(Seq(Bytes)) /\ ToSet(offered') = ToSet(offered) \cup {u}
    BY <2>2, <2>4, OneMore
  <2> QED BY <1>1, <2>1, <2>5 DEF Offers, u
<1>2. CASE ~(n >= MinAutoExtra /\ n <= MaxAutoExtra)
  <2>1. offered' = offered
    BY <1>2 DEF Offer
  <2> QED BY <1>2, <2>1 DEF Offers
<1> QED BY <1>1, <1>2

\* The strings after one flip more: those that ended before; the one before it, if
\* the path changed; and the one it is in.
RunsThen(s, n, c, t, E, a, b) ==
  /\ b <= E => (IsRun(t, a, b) <=> \/ IsRun(s, a, b) /\ b <= E - 1
                                   \/ c # Ending(s) /\ n > 0 /\ a = (E - n) + 1 /\ b = E)
  /\ b = E + 1 /\ c = Ending(s) => (IsRun(t, a, b) <=> c # 0 /\ a = (E - n) + 1)
  /\ b = E + 1 /\ c # Ending(s) => (IsRun(t, a, b) <=> c # 0 /\ a = b)
  /\ b > E + 1 => ~IsRun(t, a, b)

\* This is how they follow from those before.
LEMMA FlipRuns ==
  ASSUME NEW s \in Seq(Nat), NEW n \in Nat, Trailing(s, n), NEW c \in Nat,
         NEW t, t = Append(s, c), NEW E, E = Len(s), NEW a \in Nat, NEW b \in Nat
  PROVE  RunsThen(s, n, c, t, E, a, b)
<1>1. t \in Seq(Nat) /\ Len(t) = E + 1 /\ E \in Nat /\ n <= E
  BY DEF Trailing
<1>2. IsRun(s, a, E) <=> n > 0 /\ a = (E - n) + 1
  BY TrailingRun
<1>3. b <= E => (IsRun(t, a, b) <=> IsRun(s, a, b) /\ (b = E => c # Ending(s)))
  BY RunsBefore
<1>4. c = Ending(s) => Trailing(t, IF c = 0 THEN 0 ELSE n + 1)
  BY TrailingNext
<1>5. c # Ending(s) => Trailing(t, IF c = 0 THEN 0 ELSE 1)
  BY TrailingNext
<1>6. \A m : Trailing(t, m) => (IsRun(t, a, E + 1) <=> m > 0 /\ a = ((E + 1) - m) + 1)
  <2>1. t \in Seq(Nat) /\ Len(t) = E + 1
    BY <1>1
  <2>2. \A m : Trailing(t, m) => (IsRun(t, a, Len(t)) <=> m > 0 /\ a = (Len(t) - m) + 1)
    BY <2>1, TrailingRun
  <2> QED BY <2>1, <2>2
<1>7. b > E + 1 => ~IsRun(t, a, b)
  BY <1>1 DEF IsRun
<1>8. b <= E => (IsRun(t, a, b) <=> \/ IsRun(s, a, b) /\ b <= E - 1
                                    \/ c # Ending(s) /\ n > 0 /\ a = (E - n) + 1 /\ b = E)
  <2>1. CASE b = E
    BY <1>1, <1>2, <1>3, <2>1
  <2>2. CASE b < E
    BY <1>1, <1>3, <2>2
  <2> QED BY <1>1, <2>1, <2>2
<1>9. b = E + 1 /\ c = Ending(s) => (IsRun(t, a, b) <=> c # 0 /\ a = (E - n) + 1)
  <2> SUFFICES ASSUME b = E + 1, c = Ending(s) PROVE IsRun(t, a, b) <=> c # 0 /\ a = (E - n) + 1
    OBVIOUS
  <2>1. CASE c = 0
    BY <1>4, <1>6, <2>1
  <2>2. CASE c # 0
    <3>1. IsRun(t, a, E + 1) <=> n + 1 > 0 /\ a = ((E + 1) - (n + 1)) + 1
      BY <1>4, <1>6, <2>2
    <3> QED BY <1>1, <2>2, <3>1
  <2> QED BY <2>1, <2>2
<1>10. b = E + 1 /\ c # Ending(s) => (IsRun(t, a, b) <=> c # 0 /\ a = b)
  <2> SUFFICES ASSUME b = E + 1, c # Ending(s) PROVE IsRun(t, a, b) <=> c # 0 /\ a = b
    OBVIOUS
  <2>1. CASE c = 0
    BY <1>5, <1>6, <2>1
  <2>2. CASE c # 0
    <3>1. IsRun(t, a, E + 1) <=> 1 > 0 /\ a = ((E + 1) - 1) + 1
      BY <1>5, <1>6, <2>2
    <3> QED BY <1>1, <2>2, <3>1
  <2> QED BY <2>1, <2>2
<1> QED BY <1>7, <1>8, <1>9, <1>10 DEF RunsThen

\* A step of bitflip 1/1: at the last byte on the path of the string before, at a
\* change of the path, and on the way.
LEMMA FlipKeeps ==
  ASSUME TypeInv, DataInv, CollectInv, FlipInv, NEW c \in {0} \cup Sums, Flip1(c)
  PROVE  FlipInv'
<1> DEFINE n == a_len  s == sums  E == pos  u == sums'  z == Ending(sums)
<1>1. /\ pc = "flip1" /\ E < len /\ u = Append(s, c) /\ pos' = E + 1 /\ pc' = pc /\ len' = len
      /\ out_buf' = out_buf /\ E \in Nat /\ len \in Nat /\ out_buf \in Seq(Bytes) /\ c \in Nat
  BY SumsAssumption DEF Flip1, TypeInv, bufs
<1>2. Len(out_buf) = len
  BY <1>1, OutBufIs DEF Trimming, Over
<1>3. /\ s \in Seq(Nat) /\ Len(s) = E /\ offered \in Seq(Seq(Bytes)) /\ prev_cksum = z
      /\ Trailing(s, n) /\ Kept(out_buf, a_collect, n, E)
      /\ ToSet(offered) = Told(out_buf, s, E - 1)
  BY <1>1 DEF FlipInv
<1>4. n \in Nat /\ n <= E /\ Holds(a_collect, n) /\ (n = 0 <=> z = 0)
  BY <1>3 DEF Trailing, CollectInv, Holds
<1>5. u \in Seq(Nat) /\ Len(u) = E + 1 /\ Ending(u) = c
  BY <1>1, <1>3, TrailingNext
<1>6. z = Ending(s) /\ E = Len(s) /\ u = Append(s, c)
  BY <1>1, <1>3
<1> HIDE DEF s, E, u, z
<1>7. \A a, b \in Nat :
        /\ b <= E => (IsRun(u, a, b) <=> \/ IsRun(s, a, b) /\ b <= E - 1
                                         \/ c # z /\ n > 0 /\ a = (E - n) + 1 /\ b = E)
        /\ b = E + 1 /\ c = z => (IsRun(u, a, b) <=> c # 0 /\ a = (E - n) + 1)
        /\ b = E + 1 /\ c # z => (IsRun(u, a, b) <=> c # 0 /\ a = b)
        /\ b > E + 1 => ~IsRun(u, a, b)
  <2>1. s \in Seq(Nat) /\ n \in Nat /\ Trailing(s, n) /\ c \in Nat
    BY <1>1, <1>3, <1>4
  <2>2. \A a, b \in Nat : RunsThen(s, n, c, u, E, a, b)
    BY <1>6, <2>1, FlipRuns
  <2> QED BY <1>6, <2>2 DEF RunsThen
<1>8. /\ c = z => Trailing(u, IF c = 0 THEN 0 ELSE n + 1)
      /\ c # z => Trailing(u, IF c = 0 THEN 0 ELSE 1)
  BY <1>1, <1>3, TrailingNext DEF z, s
<1>9. SUFFICES /\ offered' \in Seq(Seq(Bytes)) /\ prev_cksum' = c
               /\ E + 1 < len => Trailing(u, a_len') /\ Kept(out_buf, a_collect', a_len', E + 1)
               /\ ToSet(offered') = Told(out_buf, u, IF E + 1 < len THEN E ELSE E + 1)
  <2>1. (E + 1) - 1 = E /\ pc' = "flip1"
    BY <1>1
  <2>2. "flip1" \notin Trimming
    BY DEF Trimming
  <2> QED BY <1>1, <1>5, <2>1, <2>2 DEF FlipInv, u
<1> DEFINE b0 == out_buf[E + 1]
<1>10. ASSUME NEW w, NEW m \in Nat, m <= E, Holds(w, m), Kept(out_buf, w, m, E), c # 0
      PROVE  Kept(out_buf, Collect(w, m, b0), m + 1, E + 1)
  BY <1>1, <1>2, <1>10, KeptNext
<1>11. Holds(a_collect, 0) /\ Kept(out_buf, a_collect, 0, E)
  BY <1>4, StepsAssumption DEF Holds, Kept
\* the last byte, on the path the string before it led to
<1>12. ASSUME E = len - 1, c = z,
              Offer(Collect(a_collect, n, b0), n + 1),
              prev_cksum' = prev_cksum
       PROVE  /\ offered' \in Seq(Seq(Bytes)) /\ prev_cksum' = c
              /\ ToSet(offered') = Told(out_buf, u, E + 1)
  <2> DEFINE w == Collect(a_collect, n, b0)
  <2>1. Holds(w, n + 1) /\ Kept(out_buf, w, n + 1, E + 1)
    <3>1. b0 \in Bytes
      BY <1>1, <1>2
    <3>2. Holds(w, n + 1)
      BY <1>4, <3>1, CollectHolds
    <3>3. Kept(out_buf, w, n + 1, E + 1)
      BY <1>1, <1>2, <1>3, <1>4, KeptNext
    <3> QED BY <3>2, <3>3
  <2>2. Offer(w, n + 1)
    BY <1>12
  <2> HIDE DEF w
  <2>3. n + 1 \in Nat /\ E + 1 \in Nat /\ n + 1 <= E + 1 /\ E + 1 <= Len(out_buf)
    BY <1>1, <1>2, <1>4
  <2>4. Offers(n + 1, SubSeq(out_buf, ((E + 1) - (n + 1)) + 1, E + 1))
    BY <1>1, <1>3, <2>1, <2>2, <2>3, Offered
  <2>5. CASE c = 0
    <3>1. Told(out_buf, u, E + 1) = Told(out_buf, s, E - 1)
      <4>1. SameRuns(s, E - 1, u, E + 1)
        BY <1>1, <1>7, <1>12, <2>5 DEF SameRuns
      <4>2. s \in Seq(Nat) /\ u \in Seq(Nat)
        BY <1>3, <1>5
      <4> QED BY <4>1, <4>2, ToldSame
    <3>2. n = 0
      BY <1>4, <1>12, <2>5
    <3>3. ~(1 >= MinAutoExtra)
      BY StepsAssumption
    <3> QED BY <1>3, <1>12, <2>4, <2>5, <3>1, <3>2, <3>3 DEF Offers
  <2>6. CASE c # 0
    <3> DEFINE m == n + 1  e == E + 1  q == E - 1  t == SubSeq(out_buf, (e - m) + 1, e)
    <3>1. OneRunMore(s, q, u, e, m, e)
      BY <1>1, <1>4, <1>7, <1>12, <2>6 DEF OneRunMore
    <3>2. m \in Nat /\ e \in Nat /\ m <= e /\ s \in Seq(Nat) /\ u \in Seq(Nat)
      BY <1>3, <1>5, <2>3
    <3>3. Offers(m, t) /\ ToSet(offered) = Told(out_buf, s, q)
      BY <1>3, <2>4
    <3> HIDE DEF m, e, q
    <3>4. Told(out_buf, u, e) = IF m > 0 /\ m >= MinAutoExtra /\ m <= MaxAutoExtra
                                THEN Told(out_buf, s, q) \cup {t} ELSE Told(out_buf, s, q)
      BY <3>1, <3>2, ToldMore
    <3> HIDE DEF t
    <3>5. offered' \in Seq(Seq(Bytes)) /\ ToSet(offered') = Told(out_buf, u, e)
      BY <3>3, <3>4 DEF Offers
    <3> QED BY <1>3, <1>12, <3>5 DEF e
  <2> QED BY <2>5, <2>6
\* another path than at the byte before
<1>13. ASSUME c # z, Offer(a_collect, n), Go(a_collect, 0, c), prev_cksum' = c
       PROVE  /\ offered' \in Seq(Seq(Bytes))
              /\ E + 1 < len => Trailing(u, a_len') /\ Kept(out_buf, a_collect', a_len', E + 1)
              /\ ToSet(offered') = Told(out_buf, u, E)
              /\ Told(out_buf, u, E + 1) = Told(out_buf, u, E)
  <2>1. Offers(n, SubSeq(out_buf, (E - n) + 1, E))
    BY <1>1, <1>2, <1>3, <1>4, <1>13, Offered
  <2>2. OneRunMore(s, E - 1, u, E, n, E)
    BY <1>1, <1>4, <1>7, <1>13 DEF OneRunMore
  <2>3. Told(out_buf, u, E) = IF n > 0 /\ n >= MinAutoExtra /\ n <= MaxAutoExtra
                              THEN Told(out_buf, s, E - 1) \cup {SubSeq(out_buf, (E - n) + 1, E)}
                              ELSE Told(out_buf, s, E - 1)
    <3>1. s \in Seq(Nat) /\ u \in Seq(Nat) /\ E \in Nat
      BY <1>1, <1>3, <1>5
    <3> QED BY <1>4, <2>2, <3>1, ToldMore
  <2>4. offered' \in Seq(Seq(Bytes)) /\ ToSet(offered') = Told(out_buf, u, E)
    BY <1>3, <2>1, <2>3 DEF Offers
  <2>5. Trailing(u, a_len') /\ Kept(out_buf, a_collect', a_len', E + 1)
    <3>1. CASE c = 0
      <4>1. a_len' = 0
        BY <1>13, <3>1 DEF Go
      <4> QED BY <1>8, <1>13, <3>1, <4>1 DEF Kept
    <3>2. CASE c # 0
      <4>1. a_len' = 1 /\ a_collect' = Collect(a_collect, 0, b0)
        BY <1>13, <3>2 DEF Go, E
      <4>2. Kept(out_buf, Collect(a_collect, 0, b0), 0 + 1, E + 1)
        BY <1>1, <1>10, <1>11, <3>2
      <4> QED BY <1>8, <1>13, <3>2, <4>1, <4>2
    <3> QED BY <3>1, <3>2
  <2>6. Told(out_buf, u, E + 1) = Told(out_buf, u, E)
    <3> DEFINE m == IF c = 0 THEN 0 ELSE 1
    <3>1. m \in Nat /\ m <= E + 1 /\ E + 1 \in Nat
      BY <1>1
    <3>2. OneRunMore(u, E, u, E + 1, m, E + 1)
      BY <1>1, <1>7, <1>13 DEF OneRunMore
    <3>3. ~(m >= MinAutoExtra)
      BY StepsAssumption
    <3> HIDE DEF m
    <3> QED BY <1>5, <3>1, <3>2, <3>3, ToldMore
  <2> QED BY <2>4, <2>5, <2>6
\* on the way
<1>14. ASSUME c = z, Go(a_collect, n, c), UNCHANGED <<prev_cksum, offered>>
       PROVE  /\ offered' \in Seq(Seq(Bytes)) /\ prev_cksum' = c
              /\ Trailing(u, a_len') /\ Kept(out_buf, a_collect', a_len', E + 1)
              /\ ToSet(offered') = Told(out_buf, u, E)
  <2>1. Told(out_buf, u, E) = Told(out_buf, s, E - 1)
    <3>1. SameRuns(s, E - 1, u, E)
      BY <1>1, <1>7, <1>14 DEF SameRuns
    <3>2. s \in Seq(Nat) /\ u \in Seq(Nat)
      BY <1>3, <1>5
    <3> QED BY <3>1, <3>2, ToldSame
  <2>2. Trailing(u, a_len') /\ Kept(out_buf, a_collect', a_len', E + 1)
    <3>1. CASE c = 0
      <4>1. a_len' = 0
        BY <1>4, <1>14, <3>1 DEF Go
      <4> QED BY <1>8, <1>14, <3>1, <4>1 DEF Kept
    <3>2. CASE c # 0
      <4>1. a_len' = n + 1 /\ a_collect' = Collect(a_collect, n, b0)
        BY <1>14, <3>2 DEF Go, E
      <4> QED BY <1>1, <1>3, <1>4, <1>8, <1>10, <1>14, <3>2, <4>1
    <3> QED BY <3>1, <3>2
  <2> QED BY <1>3, <1>14, <2>1, <2>2
<1>15. \/ /\ E = len - 1 /\ c = z /\ prev_cksum' = prev_cksum
          /\ Offer(Collect(a_collect, n, b0), n + 1)
       \/ c # z /\ Offer(a_collect, n) /\ Go(a_collect, 0, c) /\ prev_cksum' = c
       \/ E # len - 1 /\ c = z /\ Go(a_collect, n, c) /\ UNCHANGED <<prev_cksum, offered>>
  BY <1>3 DEF Flip1, StringEnds, E
<1>16. (E = len - 1 => ~(E + 1 < len)) /\ (E # len - 1 => E + 1 < len)
  BY <1>1
<1> QED BY <1>12, <1>13, <1>14, <1>15, <1>16

\* No flips tell nothing.
LEMMA ToldNone ==
  ASSUME NEW d, NEW q
  PROVE  Told(d, <<>>, q) = {} /\ ToSet(<<>>) = {}
<1>1. DOMAIN <<>> = {}
  OBVIOUS
<1>2. (DOMAIN <<>>) \X (DOMAIN <<>>) = {}
  BY <1>1
<1> QED BY <1>1, <1>2 DEF Told, ToSet

\* Bitflip 1/1 starts with none.
LEMMA FlipStart ==
  ASSUME sums' = <<>>, offered' = <<>>, prev_cksum' = 0, a_len' = 0, pos' = 0
  PROVE  FlipInv'
<1>1. /\ <<>> \in Seq(Nat) /\ Len(<<>>) = 0 /\ <<>> \in Seq(Seq(Bytes)) /\ Ending(<<>>) = 0
      /\ Trailing(<<>>, 0)
  BY DEF Ending, Trailing
<1>2. \A q : Told(out_buf', <<>>, q) = {}
  BY ToldNone
<1>3. ToSet(<<>>) = {}
  BY ToldNone
<1>4. Kept(out_buf', a_collect', 0, 0)
  BY DEF Kept
<1>5. ToSet(offered') = Told(out_buf', sums', IF pos' < len' THEN pos' - 1 ELSE pos')
  BY <1>2, <1>3
<1> QED BY <1>1, <1>4, <1>5 DEF FlipInv

\* Every step keeps FlipInv.
LEMMA NextFlip == Base /\ FlipInv /\ [Next]_vars => FlipInv'
<1> SUFFICES ASSUME Base, FlipInv, [Next]_vars PROVE FlipInv'
  OBVIOUS
<1>1. TypeInv /\ DataInv /\ CollectInv
  BY DEF Base
<1>2. CASE TrimCase
  <2>1. pc \in Trimming /\ pos' = pos /\ UNCHANGED token
    BY <1>2 DEF TrimCase, TrimStart, TrimAccept, TrimRefuse, TrimNextPass, TrimDone, TrimAbort,
       Trimming
  <2>2. sums' = <<>> /\ offered' = <<>> /\ prev_cksum' = 0 /\ a_len' = 0 /\ pos' = 0
    BY <1>1, <2>1 DEF FlipInv, TypeInv, token
  <2> QED BY <2>2, FlipStart
<1>3. CASE \E c \in {0} \cup Sums : Flip1(c)
  BY <1>1, <1>3, FlipKeeps
<1>4. CASE GoesOn
  <2>1. pc' \in Stages \cup {"det_done"}
    BY <1>1, <1>4, GoesOnFrom, GoOnHead DEF TypeInv
  <2>2. pc' \notin Trimming \cup {"flip1"}
    BY <2>1 DEF Stages, Walking, TokenPcs, Trimming
  <2> QED BY <2>2 DEF FlipInv
<1>5. CASE Flip1End \/ DetDone \/ Abandon \/ \E c \in {0} \cup Sums : Flip8(c)
  <2>1. pc' \notin Trimming \cup {"flip1"}
    BY <1>5 DEF Flip1End, DetDone, Abandon, Flip8, Trimming
  <2> QED BY <2>1 DEF FlipInv
<1>6. CASE WalkTry \/ WalkSkip \/ OverTry \/ OverSkip \/ OverRestore \/ InsertTry \/ InsertNext
  <2>1. pc' \notin Trimming \cup {"flip1"}
    BY <1>6, Domains DEF WalkTry, WalkSkip, OverTry, OverSkip, OverRestore, InsertTry, InsertNext,
       Overwriting, Trimming, Walking
  <2> QED BY <2>1 DEF FlipInv
<1>7. CASE UNCHANGED vars
  BY <1>7 DEF FlipInv, vars, bufs, token
<1> QED BY <1>2, <1>3, <1>4, <1>5, <1>6, <1>7
        DEF Next, Flips, Walks, Extras, GoesOn, Finished

\* At the end all strings have ended.
LEMMA InvRuns == Base /\ FlipInv => TokensAreRuns
<1> SUFFICES ASSUME Base, FlipInv PROVE TokensAreRuns
  OBVIOUS
<1>1. Len(a_collect) <= MaxAutoExtra
  BY DEF Base, CollectInv, Holds
<1>2. SUFFICES ASSUME pc = "flip1", pos = len
               PROVE  ToSet(offered) = {t \in RunsOf(sums) : Fits(t)}
  BY <1>1 DEF TokensAreRuns
<1>3. /\ sums \in Seq(Nat) /\ Len(sums) = len /\ len \in Nat
      /\ ToSet(offered) = Told(out_buf, sums, len)
      /\ out_buf \in Seq(Bytes) /\ Len(out_buf) = len
  BY <1>2, OutBufIs DEF FlipInv, Base, TypeInv, Trimming, Over
<1>4. RunsOf(sums) = {SubSeq(out_buf, r[1], r[2]) : r \in {r \in (DOMAIN sums) \X (DOMAIN sums) :
                        IsRun(sums, r[1], r[2])}}
  <2>1. \A r \in (DOMAIN sums) \X (DOMAIN sums) :
          IsRun(sums, r[1], r[2]) <=>
            /\ r[1] <= r[2] /\ sums[r[1]] # 0
            /\ \A k \in r[1]..r[2] : sums[k] = sums[r[1]]
            /\ r[1] > 1 => sums[r[1] - 1] # sums[r[1]]
            /\ r[2] < Len(sums) => sums[r[2] + 1] # sums[r[2]]
    <3> TAKE r \in (DOMAIN sums) \X (DOMAIN sums)
    <3>1. r[1] \in 1 .. Len(sums) /\ r[2] \in 1 .. Len(sums)
      BY <1>3
    <3> DEFINE a == r[1]  b == r[2]
    <3>2. (\A k \in a .. b : sums[k] = sums[a]) /\ a <= b => sums[b] = sums[a]
      BY <1>3, <3>1
    <3> QED BY <3>1 DEF IsRun
  <2> QED BY <2>1 DEF RunsOf
<1>5. \A a, b \in Nat : IsRun(sums, a, b) =>
        /\ b <= len /\ a \in DOMAIN sums /\ b \in DOMAIN sums
        /\ Len(SubSeq(out_buf, a, b)) = (b - a) + 1
  BY <1>3 DEF IsRun
<1>6. ASSUME NEW t PROVE t \in Told(out_buf, sums, len) <=> t \in RunsOf(sums) /\ Fits(t)
  <2>1. t \in Told(out_buf, sums, len) <=>
           \E a, b \in Nat : /\ IsRun(sums, a, b) /\ b <= len
                             /\ (b - a) + 1 >= MinAutoExtra /\ (b - a) + 1 <= MaxAutoExtra
                             /\ t = SubSeq(out_buf, a, b)
    <3>1. sums \in Seq(Nat)
      BY <1>3
    <3> QED BY <3>1, ToldIs
  <2>2. t \in RunsOf(sums) <=> \E a, b \in Nat : IsRun(sums, a, b) /\ t = SubSeq(out_buf, a, b)
    <3>1. ASSUME t \in RunsOf(sums)
          PROVE  \E a, b \in Nat : IsRun(sums, a, b) /\ t = SubSeq(out_buf, a, b)
      <4>1. PICK r \in (DOMAIN sums) \X (DOMAIN sums) : IsRun(sums, r[1], r[2])
            /\ t = SubSeq(out_buf, r[1], r[2])
        BY <1>4, <3>1
      <4>2. r[1] \in Nat /\ r[2] \in Nat
        BY <1>3, <4>1
      <4> QED BY <4>1, <4>2
    <3>2. ASSUME NEW a \in Nat, NEW b \in Nat, IsRun(sums, a, b), t = SubSeq(out_buf, a, b)
          PROVE  t \in RunsOf(sums)
      <4>1. <<a, b>> \in (DOMAIN sums) \X (DOMAIN sums)
        BY <1>5, <3>2
      <4>2. <<a, b>>[1] = a /\ <<a, b>>[2] = b
        OBVIOUS
      <4> QED BY <1>4, <3>2, <4>1, <4>2
    <3> QED BY <3>1, <3>2
  <2>3. \A a, b \in Nat : IsRun(sums, a, b) /\ t = SubSeq(out_buf, a, b) =>
          (Fits(t) <=> (b - a) + 1 >= MinAutoExtra /\ (b - a) + 1 <= MaxAutoExtra)
    BY <1>5 DEF Fits
  <2> QED BY <1>5, <2>1, <2>2, <2>3
<1> QED BY <1>3, <1>6

\* The dictionary is offered exactly the maximal strings whose flips lead to one other
\* path and that are neither too short nor too long, the one at the end of the file
\* included (fuzz_one, 7241 to 7271), for any file and any path of each flip.
THEOREM TokensComeFromRuns == Spec => []TokensAreRuns
<1>1. Init => FlipInv
  <2> SUFFICES ASSUME Init PROVE FlipInv
    OBVIOUS
  <2>1. /\ sums = <<>> /\ offered = <<>> /\ prev_cksum = 0 /\ a_len = 0 /\ pos = 0 /\ TypeInv
    BY InitBase DEF Init, Base
  <2>2. /\ <<>> \in Seq(Nat) /\ Len(<<>>) = 0 /\ <<>> \in Seq(Seq(Bytes)) /\ Ending(<<>>) = 0
        /\ Trailing(<<>>, 0)
    BY DEF Ending, Trailing
  <2>3. ToSet(offered) = Told(out_buf, sums, IF pos < len THEN pos - 1 ELSE pos)
    BY <2>1, ToldNone
  <2> QED BY <2>1, <2>2, <2>3 DEF FlipInv, Kept
<1> QED BY InitBase, NextBase, NextFlip, InvRuns, <1>1, PTL DEF Spec
=============================================================================
