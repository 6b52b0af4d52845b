----------------------------- MODULE MoptProofs -----------------------------
(***************************************************************************)
(* Proofs about Mopt, for any number of swarms, any periods and any sizes  *)
(* of the stages: whose finds a fitness is made of, that every buffer of a *)
(* splice is freed, and that the core module works with the best swarm.    *)
(***************************************************************************)
EXTENDS Mopt, WellFoundedInduction, TLAPS

\* The variables the proofs work with.  That the core module's swarm is one of
\* the swarms comes last, because it takes an induction.
TypeInv ==
  /\ key_module \in {Pilot, Core, Pso} /\ (key_module = Pilot => swarm_now \in Swarms)
  /\ tmp_pilot_time \in Nat /\ total_puppet_find \in Nat /\ temp_puppet_find \in Nat
  /\ measured \subseteq Swarms
  /\ own \in [Swarms -> [finds : Nat, time : Nat]]
  /\ swarm_fitness \in [Swarms -> [finds : Int, time : Nat]]

\* While the swarms are measured the counters hold what the present one found
\* and ran, and the swarms after it have had nothing; when the core module has
\* handed over, no find is left over and no entry is in between.
OwnInv ==
  /\ \A s \in measured : swarm_fitness[s] = own[s]
  /\ key_module = Pilot =>
       /\ measured = 0..(swarm_now - 1)
       /\ total_puppet_find - temp_puppet_find = own[swarm_now].finds
       /\ tmp_pilot_time = own[swarm_now].time
       /\ \A s \in Swarms : s > swarm_now => own[s] = [finds |-> 0, time |-> 0]
  /\ key_module # Pilot => tmp_pilot_time = 0
  /\ key_module = Pso => pc = "entry" /\ total_puppet_find = temp_puppet_find

LEMMA InitOwn == Init => TypeInv /\ OwnInv
<1> SUFFICES ASSUME Init PROVE TypeInv /\ OwnInv
  OBVIOUS
<1>1. 0 \in Swarms
  BY SwarmAssumption DEF Swarms
<1> QED BY <1>1 DEF Init, TypeInv, OwnInv, Nothing, Pilot, Core, Pso

\* A step that counts nothing and leaves the modules alone.
LEMMA NothingCounted ==
  ASSUME TypeInv, OwnInv, key_module # Pso \/ pc' = pc,
         UNCHANGED <<modules, tmp_pilot_time, finds, round>>
  PROVE  TypeInv' /\ OwnInv'
BY DEF TypeInv, OwnInv, modules, finds, round

LEMMA HavocOwn ==
  TypeInv /\ OwnInv /\ (HavocRun \/ HavocFind \/ HavocAbandon) => TypeInv' /\ OwnInv'
<1> SUFFICES ASSUME TypeInv, OwnInv, HavocRun \/ HavocFind \/ HavocAbandon
             PROVE  TypeInv' /\ OwnInv'
  OBVIOUS
<1>1. PICK n \in {0, 1} :
        /\ Count /\ Credit(n) /\ total_puppet_find' = total_puppet_find + n
        /\ pc = "havoc"
        /\ UNCHANGED <<modules, temp_puppet_find, measured>>
  <2>1. CASE HavocRun
    BY <2>1 DEF HavocRun, finds, TypeInv
  <2>2. CASE HavocFind
    BY <2>2 DEF HavocFind
  <2>3. CASE HavocAbandon
    BY <2>3 DEF HavocAbandon, finds, TypeInv
  <2> QED BY <2>1, <2>2, <2>3
<1>2. CASE key_module = Pilot
  <2>1. /\ tmp_pilot_time' = tmp_pilot_time + 1 /\ key_module' = key_module
        /\ swarm_now' = swarm_now /\ swarm_fitness' = swarm_fitness
        /\ own' = [own EXCEPT ![swarm_now].finds = @ + n, ![swarm_now].time = @ + 1]
    BY <1>1, <1>2 DEF Count, Credit, modules
  <2>2. swarm_now \in Swarms /\ Swarms \subseteq Int
    BY <1>2, SwarmAssumption DEF TypeInv, Swarms
  <2>3. /\ own'[swarm_now] = [finds |-> own[swarm_now].finds + n, time |-> own[swarm_now].time + 1]
        /\ \A s \in Swarms : s # swarm_now => own'[s] = own[s]
        /\ own' \in [Swarms -> [finds : Nat, time : Nat]]
    BY <1>1, <2>1, <2>2 DEF TypeInv
  <2>4. \A s \in measured : s \in Swarms /\ s # swarm_now
    BY <1>2, <2>2 DEF TypeInv, OwnInv
  <2>5. measured' = measured /\ temp_puppet_find' = temp_puppet_find
    BY <1>1
  <2>6. TypeInv'
    BY <1>1, <2>1, <2>3, <2>5 DEF TypeInv
  <2>7. \A s \in measured' : swarm_fitness'[s] = own'[s]
    BY <2>1, <2>3, <2>4, <2>5 DEF OwnInv
  <2>8. measured' = 0..(swarm_now' - 1)
    BY <1>2, <2>1, <2>5 DEF OwnInv
  <2>9. /\ total_puppet_find' - temp_puppet_find' = own'[swarm_now'].finds
        /\ tmp_pilot_time' = own'[swarm_now'].time
    <3>1. /\ total_puppet_find - temp_puppet_find = own[swarm_now].finds
          /\ tmp_pilot_time = own[swarm_now].time
          /\ total_puppet_find \in Nat /\ temp_puppet_find \in Nat /\ n \in Nat
      BY <1>2 DEF TypeInv, OwnInv
    <3>2. own'[swarm_now'].finds = own[swarm_now].finds + n
      BY <2>1, <2>3
    <3>3. own'[swarm_now'].time = own[swarm_now].time + 1
      BY <2>1, <2>3
    <3> QED BY <1>1, <2>1, <2>5, <3>1, <3>2, <3>3
  <2>10. \A s \in Swarms : s > swarm_now' => own'[s] = [finds |-> 0, time |-> 0]
    BY <1>2, <2>1, <2>2, <2>3 DEF OwnInv
  <2>11. key_module' = Pilot /\ Pilot # Pso
    BY <1>2, <2>1 DEF Pilot, Pso
  <2> QED BY <2>6, <2>7, <2>8, <2>9, <2>10, <2>11 DEF OwnInv
<1>3. CASE key_module # Pilot
  BY <1>1, <1>3 DEF Count, Credit, TypeInv, OwnInv, modules
<1> QED BY <1>2, <1>3

LEMMA PilotOwn == TypeInv /\ OwnInv /\ PilotPeriodOver => TypeInv' /\ OwnInv'
<1> SUFFICES ASSUME TypeInv, OwnInv, PilotPeriodOver PROVE TypeInv' /\ OwnInv'
  OBVIOUS
<1>1. /\ key_module = Pilot /\ swarm_fitness' = Fitness /\ own' = own
      /\ tmp_pilot_time' = 0 /\ total_puppet_find' = total_puppet_find
      /\ temp_puppet_find' = total_puppet_find /\ pc' = "entry"
      /\ measured' = measured \cup {swarm_now}
  BY DEF PilotPeriodOver, Leave
<1>2. swarm_now \in Swarms /\ Swarms \subseteq Int
  BY <1>1, SwarmAssumption DEF TypeInv, Swarms
<1>3. /\ Fitness[swarm_now] = own[swarm_now]
      /\ \A s \in Swarms : s # swarm_now => Fitness[s] = swarm_fitness[s]
      /\ Fitness \in [Swarms -> [finds : Int, time : Nat]]
  BY <1>1, <1>2 DEF TypeInv, OwnInv, Fitness
<1>4. \A s \in measured' : s \in Swarms /\ swarm_fitness'[s] = own'[s]
  BY <1>1, <1>2, <1>3 DEF TypeInv, OwnInv
<1>5. CASE RoundOver
  <2>1. key_module' = Core
    BY <1>5 DEF PilotPeriodOver
  <2> QED BY <1>1, <1>3, <1>4, <2>1 DEF TypeInv, OwnInv, Pilot, Core, Pso
<1>6. CASE ~RoundOver
  <2>1. key_module' = Pilot /\ swarm_now' = swarm_now + 1
    BY <1>1, <1>6 DEF PilotPeriodOver
  <2>2. swarm_now' \in Swarms
    BY <1>2, <1>6, <2>1, SwarmAssumption DEF RoundOver, Swarms
  <2>3. measured' = 0..(swarm_now' - 1)
    BY <1>1, <1>2, <2>1, SwarmAssumption DEF OwnInv, Swarms
  <2>4. own'[swarm_now'] = [finds |-> 0, time |-> 0]
    BY <1>1, <1>2, <2>1, <2>2 DEF OwnInv
  <2> QED BY <1>1, <1>2, <1>3, <1>4, <2>1, <2>2, <2>3, <2>4 DEF TypeInv, OwnInv, Pilot, Core, Pso
<1> QED BY <1>5, <1>6

LEMMA HandOverOwn ==
  TypeInv /\ OwnInv /\ (CorePeriodOver \/ PsoUpdating) => TypeInv' /\ OwnInv'
<1> SUFFICES ASSUME TypeInv, OwnInv, CorePeriodOver \/ PsoUpdating PROVE TypeInv' /\ OwnInv'
  OBVIOUS
<1>1. CASE CorePeriodOver
  BY <1>1 DEF CorePeriodOver, Leave, TypeInv, OwnInv, round, Pilot, Core, Pso
<1>2. CASE PsoUpdating
  <2>1. 0 \in Swarms
    BY SwarmAssumption DEF Swarms
  <2> QED BY <1>2, <2>1 DEF PsoUpdating, TypeInv, OwnInv, Nothing, periods, finds, Pilot, Core, Pso
<1> QED BY <1>1, <1>2

LEMMA NextOwn == TypeInv /\ OwnInv /\ [Next]_vars => TypeInv' /\ OwnInv'
<1> SUFFICES ASSUME TypeInv, OwnInv, [Next]_vars PROVE TypeInv' /\ OwnInv'
  OBVIOUS
<1> USE DEF periods
<1>1. CASE EnterAbandon \/ EnterHavoc \/ EnterDet \/ EnterPacemaker
  BY <1>1, NothingCounted DEF EnterAbandon, EnterHavoc, EnterDet, EnterPacemaker, Enter,
       Pilot, Core, Pso
<1>2. CASE DetFind \/ DetEnd \/ StartHavoc \/ HavocEnd
  BY <1>2, NothingCounted DEF DetFind, DetEnd, StartHavoc, HavocEnd, OwnInv
<1>3. CASE Splicing
  BY <1>3, NothingCounted DEF Splicing, SpliceOver, SpliceRetry, Splice, OwnInv
<1>4. CASE LeaveEarly
  BY <1>4, NothingCounted DEF LeaveEarly, Leave, OwnInv, finds
<1>5. CASE UNCHANGED vars
  BY <1>5, NothingCounted DEF vars
<1> QED BY <1>1, <1>2, <1>3, <1>4, <1>5, HavocOwn, PilotOwn, HandOverOwn
      DEF Next, Schedule, Stages, Leaving

\* However many swarms and however long the periods: a swarm's fitness is made
\* of its own finds over its own executions.
THEOREM FitnessCorrect == Spec => []FitnessIsOwn
<1>1. TypeInv /\ OwnInv => FitnessIsOwn
  BY DEF OwnInv, FitnessIsOwn
<1> QED BY InitOwn, NextOwn, <1>1, PTL DEF Spec

-----------------------------------------------------------------------------
(* Buffers.                                                                *)

BufferInv ==
  /\ in_buf \in {"orig", "heap"} /\ live \in {0, 1}
  /\ in_buf = "heap" <=> live = 1
  /\ pc = "entry" => in_buf = "orig"

LEMMA NextBuffers == BufferInv /\ [Next]_vars => BufferInv'
<1> SUFFICES ASSUME BufferInv, [Next]_vars PROVE BufferInv'
  OBVIOUS
<1> USE DEF BufferInv, splice
<1>1. CASE Schedule
  BY <1>1 DEF Schedule, PsoUpdating, EnterAbandon, EnterHavoc, EnterDet, EnterPacemaker, Enter
<1>2. CASE Stages
  BY <1>2 DEF Stages, DetFind, DetEnd, StartHavoc, HavocRun, HavocFind, HavocAbandon, HavocEnd
<1>3. CASE Splicing
  BY <1>3 DEF Splicing, SpliceOver, SpliceRetry, Splice, Reclaimed
<1>4. CASE Leaving
  BY <1>4 DEF Leaving, LeaveEarly, PilotPeriodOver, CorePeriodOver, Leave, Reclaimed
<1>5. CASE UNCHANGED vars
  BY <1>5 DEF vars
<1> QED BY <1>1, <1>2, <1>3, <1>4, <1>5 DEF Next

\* Whatever stage an entry is left in, its splices leave no buffer behind.
THEOREM BuffersAreFreed == Spec => []BuffersFreed
<1>1. Init => BufferInv
  BY DEF Init, BufferInv
<1>2. BufferInv => BuffersFreed
  BY DEF BufferInv, BuffersFreed
<1> QED BY <1>1, NextBuffers, <1>2, PTL DEF Spec

-----------------------------------------------------------------------------
(* The best swarm.  That there is one takes an induction, over a set of    *)
(* numbers.                                                                *)

\* The order of the numbers, as WellFoundedInduction has it,
LEMMA LessThan == OpToRel(<, Nat) = {p \in Nat \X Nat : p[1] < p[2]}
BY DEF OpToRel

\* and induction for a set: a set of numbers that holds 0 and with each number the
\* next one holds them all.
LEMMA SetInduction ==
  ASSUME NEW S, 0 \in S, \A n \in Nat : n \in S => n + 1 \in S
  PROVE  Nat \subseteq S
<1> DEFINE R == OpToRel(<, Nat)
<1> DEFINE T == Nat \ S
<1>1. IsWellFoundedOn(R, Nat)
  BY NatLessThanWellFounded
<1>2. R = {p \in Nat \X Nat : p[1] < p[2]}
  BY LessThan
<1>3. T # {} => \E x \in T : \A y \in T : <<y, x>> \notin R
  <2> HIDE DEF R
  <2> QED BY <1>1, WFMin
<1>4. T # {} => \E x \in T : \A y \in T : ~(y < x)
  BY <1>2, <1>3
<1>5. ASSUME NEW x \in T, \A y \in T : ~(y < x) PROVE FALSE
  <2>1. x \in Nat /\ x # 0 /\ x - 1 \in Nat /\ x - 1 < x
    OBVIOUS
  <2>2. x - 1 \in S
    BY <1>5, <2>1
  <2> QED BY <2>1, <2>2
<1> QED BY <1>4, <1>5

\* Products of numbers, for the provers.
LEMMA TimesLess ==
  ASSUME NEW a \in Nat, NEW b \in Nat, NEW c \in Nat, c > 0, a < b
  PROVE  a * c < b * c
OBVIOUS

\* The same for <=.
LEMMA TimesLeq ==
  ASSUME NEW a \in Nat, NEW b \in Nat, NEW c \in Nat, a <= b
  PROVE  a * c <= b * c
OBVIOUS

\* And back.
LEMMA TimesBack ==
  ASSUME NEW a \in Nat, NEW b \in Nat, NEW c \in Nat, a * c < b * c
  PROVE  a < b
OBVIOUS

\* A swarm has more finds per execution than another.
Better(p, q) == p.finds * q.time > q.finds * p.time

\* What is better than one is better than whatever is not better than that one.
LEMMA BetterTrans ==
  ASSUME NEW x \in [finds : Nat, time : Nat \ {0}], NEW y \in [finds : Nat, time : Nat \ {0}],
         NEW z \in [finds : Nat, time : Nat \ {0}], Better(z, y), ~Better(x, y)
  PROVE  Better(z, x)
<1> DEFINE a == x.finds  b == x.time  c == y.finds  d == y.time  e == z.finds  g == z.time
<1>1. /\ a \in Nat /\ b \in Nat /\ c \in Nat /\ d \in Nat /\ e \in Nat /\ g \in Nat
      /\ b > 0 /\ d > 0 /\ g > 0
  OBVIOUS
<1>2. e * d > c * g /\ a * d <= c * b
  BY <1>1 DEF Better
<1> HIDE DEF a, b, c, d, e, g
<1>3. /\ a * d \in Nat /\ c * b \in Nat /\ e * d \in Nat
      /\ c * g \in Nat /\ a * g \in Nat /\ e * b \in Nat
  BY <1>1
<1>4. (a * d) * g <= (c * b) * g
  BY <1>1, <1>2, <1>3, TimesLeq
<1>5. (c * g) * b < (e * d) * b
  BY <1>1, <1>2, <1>3, TimesLess
<1>6. (a * d) * g = (a * g) * d /\ (c * b) * g = (c * g) * b /\ (e * d) * b = (e * b) * d
  BY <1>1
<1>7. (a * g) * d < (e * b) * d
  <2>1. (a * d) * g \in Nat /\ (c * b) * g \in Nat /\ (c * g) * b \in Nat /\ (e * d) * b \in Nat
    BY <1>1
  <2> DEFINE p == (a * d) * g  q == (c * b) * g  r == (e * d) * b
  <2>2. p <= q /\ q < r /\ p \in Nat /\ q \in Nat /\ r \in Nat
    BY <2>1, <1>4, <1>5, <1>6
  <2> HIDE DEF p, q, r
  <2>3. p < r
    BY <2>2
  <2> QED BY <2>3, <1>6 DEF p, q, r
<1>8. a * g < e * b
  BY <1>1, <1>3, <1>7, TimesBack
<1> QED BY <1>8 DEF Better, a, b, e, g

\* s is the first of the best among 0..n.
First(f, n, s) ==
  /\ \A t \in 0 .. n : ~Better(f[t], f[s])
  /\ \A t \in 0 .. s - 1 : Better(f[s], f[t])

\* There is one, by induction over the number of swarms looked at.
LEMMA FirstExists ==
  ASSUME NEW f \in [Swarms -> [finds : Nat, time : Nat \ {0}]]
  PROVE  \E s \in Swarms : First(f, SwarmNum - 1, s)
<1> DEFINE S == {n \in Nat : n \in Swarms => \E s \in 0 .. n : First(f, n, s)}
<1>1. 0 \in S
  <2>1. First(f, 0, 0)
    <3>1. \A p \in [finds : Nat, time : Nat \ {0}] : ~Better(p, p)
      BY DEF Better
    <3>2. 0 \in Swarms
      BY SwarmAssumption DEF Swarms
    <3> QED BY <3>1, <3>2 DEF First
  <2> QED BY <2>1
<1>2. ASSUME NEW n \in Nat, n \in S PROVE n + 1 \in S
  <2> SUFFICES ASSUME n + 1 \in Swarms PROVE \E s \in 0 .. n + 1 : First(f, n + 1, s)
    OBVIOUS
  <2>1. n \in Swarms /\ \A t \in 0 .. n : t \in Swarms
    BY SwarmAssumption DEF Swarms
  <2>2. PICK s \in 0 .. n : First(f, n, s)
    BY <1>2, <2>1
  <2>3. CASE Better(f[n + 1], f[s])
    <3>1. \A t \in 0 .. n : Better(f[n + 1], f[t])
      BY <2>1, <2>2, <2>3, BetterTrans DEF First
    <3>2. \A p, q \in [finds : Nat, time : Nat \ {0}] :
            ~Better(p, p) /\ ~(Better(p, q) /\ Better(q, p))
      <4> SUFFICES ASSUME NEW p \in [finds : Nat, time : Nat \ {0}],
                          NEW q \in [finds : Nat, time : Nat \ {0}]
                   PROVE  ~Better(p, p) /\ ~(Better(p, q) /\ Better(q, p))
        OBVIOUS
      <4>1. p.finds * q.time \in Nat /\ q.finds * p.time \in Nat /\ p.finds * p.time \in Nat
        OBVIOUS
      <4> QED BY <4>1 DEF Better
    <3>3. First(f, n + 1, n + 1)
      <4>1. \A t \in 0 .. n + 1 : ~Better(f[t], f[n + 1])
        <5> TAKE t \in 0 .. n + 1
        <5>1. CASE t = n + 1
          BY <3>2, <5>1
        <5>2. CASE t \in 0 .. n
          BY <2>1, <3>1, <3>2, <5>2
        <5> QED BY <5>1, <5>2
      <4>2. (n + 1) - 1 = n
        OBVIOUS
      <4> QED BY <3>1, <4>1, <4>2 DEF First
    <3> QED BY <3>3
  <2>4. CASE ~Better(f[n + 1], f[s])
    <3>1. \A t \in 0 .. n + 1 : t \in 0 .. n \/ t = n + 1
      OBVIOUS
    <3>2. First(f, n + 1, s)
      BY <2>2, <2>4, <3>1 DEF First
    <3>3. s \in 0 .. n + 1
      OBVIOUS
    <3> QED BY <3>2, <3>3
  <2> QED BY <2>3, <2>4
<1>3. SwarmNum - 1 \in S
  <2> HIDE DEF S
  <2>1. Nat \subseteq S
    BY <1>1, <1>2, SetInduction
  <2> QED BY <2>1, SwarmAssumption
<1>4. SwarmNum - 1 \in Swarms /\ Swarms = 0 .. SwarmNum - 1
  BY SwarmAssumption DEF Swarms
<1> QED BY <1>3, <1>4

\* So the choice of pilot_fuzzing is a swarm, and none is better.
LEMMA BestIsBest ==
  ASSUME NEW f \in [Swarms -> [finds : Nat, time : Nat \ {0}]]
  PROVE  Best(f) \in Swarms /\ \A t \in Swarms : ~Better(f[t], f[Best(f)])
<1>1. PICK s \in Swarms : First(f, SwarmNum - 1, s)
  BY FirstExists
<1>2. Swarms = 0 .. SwarmNum - 1
  BY DEF Swarms
<1>3. Best(f) = CHOOSE u \in Swarms : First(f, SwarmNum - 1, u)
  BY <1>2 DEF Best, First, Better
<1> QED BY <1>1, <1>2, <1>3 DEF First

\* The swarms that were measured have run, so that their quotients are numbers; the
\* core module has the best of them all, and their records, while it runs.
BestInv ==
  /\ \A s \in measured : own[s].time > 0
  /\ key_module = Core =>
       /\ measured = Swarms /\ swarm_now \in Swarms
       /\ \A s \in Swarms : ~Better(own[s], own[swarm_now])

\* A step that measures nothing and moves no swarm.
LEMMA NothingMeasured ==
  ASSUME BestInv, UNCHANGED <<modules, round>>
  PROVE  BestInv'
BY DEF BestInv, modules, round

\* What the present swarm runs and finds does not count for those measured before.
LEMMA HavocBest ==
  TypeInv /\ OwnInv /\ BestInv /\ (HavocRun \/ HavocFind \/ HavocAbandon) => BestInv'
<1> SUFFICES ASSUME TypeInv, OwnInv, BestInv, HavocRun \/ HavocFind \/ HavocAbandon
             PROVE  BestInv'
  OBVIOUS
<1>1. PICK n \in {0, 1} : Credit(n) /\ UNCHANGED <<modules, measured>>
  BY DEF HavocRun, HavocFind, HavocAbandon
<1>2. CASE key_module = Pilot
  <2>1. \A s \in measured : s \in Swarms /\ s # swarm_now
    BY <1>2, SwarmAssumption DEF TypeInv, OwnInv, Swarms
  <2>2. \A s \in measured : own'[s] = own[s]
    BY <1>1, <1>2, <2>1 DEF Credit, TypeInv
  <2> QED BY <1>1, <1>2, <2>2 DEF BestInv, modules, Pilot, Core
<1>3. CASE key_module # Pilot
  BY <1>1, <1>3, NothingMeasured DEF Credit, round
<1> QED BY <1>2, <1>3

\* At the end of a round the fitness of every swarm is its own record.
LEMMA PilotBest ==
  TypeInv /\ OwnInv /\ BestInv /\ PilotPeriodOver => BestInv'
<1> SUFFICES ASSUME TypeInv, OwnInv, BestInv, PilotPeriodOver PROVE BestInv'
  OBVIOUS
<1>1. /\ key_module = Pilot /\ own' = own /\ measured' = measured \cup {swarm_now}
      /\ tmp_pilot_time > PeriodPilot
  BY DEF PilotPeriodOver, Over
<1>2. swarm_now \in Swarms /\ Swarms \subseteq Int
  BY <1>1, SwarmAssumption DEF TypeInv, Swarms
<1>3. \A s \in measured' : own'[s].time > 0
  BY <1>1, PeriodAssumption DEF OwnInv, TypeInv, BestInv
<1>4. CASE RoundOver
  <2>1. measured' = Swarms
    BY <1>1, <1>2, <1>4, SwarmAssumption DEF OwnInv, RoundOver, Swarms
  <2>2. Fitness = own
    <3>1. \A s \in Swarms : Fitness[s] = own[s]
      BY <1>1, <1>2, <2>1 DEF TypeInv, OwnInv, Fitness
    <3> QED BY <3>1 DEF TypeInv, Fitness
  <2>3. own \in [Swarms -> [finds : Nat, time : Nat \ {0}]]
    <3>1. \A s \in Swarms : own[s] \in [finds : Nat, time : Nat] /\ own[s].time > 0
      BY <1>1, <1>3, <2>1 DEF TypeInv
    <3>2. \A s \in Swarms : own[s] \in [finds : Nat, time : Nat \ {0}]
      BY <3>1
    <3> QED BY <3>2 DEF TypeInv
  <2>4. swarm_now' = Best(own)
    BY <1>4, <2>2 DEF PilotPeriodOver
  <2> QED BY <1>1, <1>3, <2>1, <2>3, <2>4, BestIsBest DEF BestInv
<1>5. CASE ~RoundOver
  BY <1>1, <1>3, <1>5 DEF PilotPeriodOver, BestInv, Pilot, Core
<1> QED BY <1>4, <1>5

\* Every step keeps that.
LEMMA NextBest == TypeInv /\ OwnInv /\ BestInv /\ [Next]_vars => BestInv'
<1> SUFFICES ASSUME TypeInv, OwnInv, BestInv, [Next]_vars PROVE BestInv'
  OBVIOUS
<1>1. CASE EnterAbandon \/ EnterHavoc \/ EnterDet \/ EnterPacemaker
  BY <1>1, NothingMeasured DEF EnterAbandon, EnterHavoc, EnterDet, EnterPacemaker, Enter
<1>2. CASE DetFind \/ DetEnd \/ StartHavoc \/ HavocEnd
  BY <1>2, NothingMeasured DEF DetFind, DetEnd, StartHavoc, HavocEnd
<1>3. CASE Splicing
  BY <1>3, NothingMeasured DEF Splicing, SpliceOver, SpliceRetry, Splice
<1>4. CASE LeaveEarly
  BY <1>4, NothingMeasured DEF LeaveEarly
<1>5. CASE UNCHANGED vars
  BY <1>5, NothingMeasured DEF vars
<1>6. CASE PsoUpdating
  BY <1>6 DEF PsoUpdating, BestInv, Pilot, Core
<1>7. CASE CorePeriodOver
  BY <1>7 DEF CorePeriodOver, round, BestInv, Pso, Core
<1> QED BY <1>1, <1>2, <1>3, <1>4, <1>5, <1>6, <1>7, HavocBest, PilotBest
      DEF Next, Schedule, Stages, Leaving

\* However many swarms and however long the periods: every swarm has its turn, in
\* order, before the core module takes over, and the core module works with one
\* that no other swarm found more with per execution.
THEOREM CoreWorksWithBest == Spec => []CoreUsesBest
<1>1. Init => BestInv
  BY DEF Init, BestInv, Pilot, Core
<1>2. TypeInv /\ OwnInv /\ BestInv => CoreUsesBest
  <2> SUFFICES ASSUME TypeInv, OwnInv, BestInv, key_module = Core, NEW s \in Swarms
               PROVE  own[swarm_now].finds * own[s].time >= own[s].finds * own[swarm_now].time
    BY DEF CoreUsesBest, OwnInv, BestInv
  <2>1. ~Better(own[s], own[swarm_now]) /\ swarm_now \in Swarms
    BY DEF BestInv
  <2>2. \A a, b, c, d \in Nat : ~(a * b > c * d) => c * d >= a * b
    OBVIOUS
  <2>3. own[s] \in [finds : Nat, time : Nat] /\ own[swarm_now] \in [finds : Nat, time : Nat]
    BY <2>1 DEF TypeInv
  <2> QED BY <2>1, <2>2, <2>3 DEF Better
<1> QED BY InitOwn, NextOwn, <1>1, NextBest, <1>2, PTL DEF Spec
=============================================================================
