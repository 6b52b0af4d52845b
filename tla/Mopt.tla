-------------------------------- MODULE Mopt --------------------------------
(***************************************************************************)
(* The schedule of MOpt: pilot_fuzzing measures one swarm after the other, *)
(* core_fuzzing works with the best, pso_updating moves them all, and the  *)
(* pacemaker leaves out the deterministic stages.  The three hand over     *)
(* through counters that are looked at when fuzz_one leaves an entry; the  *)
(* executions that fill them are made by havoc and splicing.               *)
(*                                                                         *)
(* pilot_fuzzing and core_fuzzing differ in the counters only; a step of   *)
(* theirs is one action here.  The positions of the swarms (probabilities, *)
(* velocities) are weights without an effect on the schedule.  An entry    *)
(* that is skipped (7034) changes nothing and has no step.                 *)
(***************************************************************************)
EXTENDS Integers, FiniteSets

CONSTANTS
  SwarmNum,      \* swarm_num
  PeriodPilot,   \* period_pilot
  PeriodCore,    \* period_core
  StageMaxes,    \* what calculate_score may make of stage_max
  HavocMaxMult,  \* perf_score doubles while it is not above this
  SpliceCycles,  \* SPLICE_CYCLES_puppet_low..SPLICE_CYCLES_puppet_up
  MaxHits        \* bound on queued_paths + unique_crashes

ASSUME SwarmAssumption == SwarmNum \in Nat /\ SwarmNum > 1
ASSUME PeriodAssumption == PeriodPilot \in Nat /\ PeriodCore \in Nat
ASSUME StageAssumption == StageMaxes \subseteq Nat \ {0} /\ StageMaxes # {}
ASSUME SpliceAssumption == SpliceCycles \subseteq Nat /\ SpliceCycles # {}
ASSUME BoundAssumption == HavocMaxMult \in Nat /\ MaxHits \in Nat \ {0}

Swarms == 0..(SwarmNum - 1)
Pilot == 0   Core == 1   Pso == 2

VARIABLES
  key_module, key_puppet, swarm_now,
  tmp_pilot_time, tmp_core_time,
  total_puppet_find, temp_puppet_find,
  swarm_fitness,         \* finds per executions, as the two numbers
  orig_hit_cnt_puppet,
  hits,                  \* queued_paths + unique_crashes
  pc,
  stage_cur, stage_max, perf_score,
  splice_cycle, SPLICE_CYCLES_puppet,
  in_buf,                \* "orig", the mapping of the file, or "heap"
  live,                  \* buffers of the splices that are allocated
  measured,              \* swarms measured since the last pso_updating
  own                    \* what each swarm has found and run since

modules == <<key_module, swarm_now, swarm_fitness>>
periods == <<tmp_pilot_time, tmp_core_time>>
finds   == <<total_puppet_find, temp_puppet_find>>
pace    == <<key_puppet, orig_hit_cnt_puppet>>
stage   == <<stage_cur, stage_max, perf_score>>
splice  == <<splice_cycle, in_buf, live>>
round   == <<measured, own>>
vars == <<modules, periods, finds, pace, hits, pc, stage, splice,
          SPLICE_CYCLES_puppet, round>>

Nothing == [s \in Swarms |-> [finds |-> 0, time |-> 0]]

\* -L 0 starts in the pacemaker.  hits counts the seeds.
Init ==
  /\ key_module = Pilot /\ key_puppet \in {0, 1} /\ swarm_now = 0
  /\ tmp_pilot_time = 0 /\ tmp_core_time = 0
  /\ total_puppet_find = 0 /\ temp_puppet_find = 0
  /\ swarm_fitness = [s \in Swarms |-> [finds |-> 0, time |-> 1]]
  /\ orig_hit_cnt_puppet = 0 /\ hits = 1 /\ pc = "entry"
  /\ stage_cur = 0 /\ stage_max = 0 /\ perf_score = 1
  /\ splice_cycle = 0 /\ SPLICE_CYCLES_puppet = 0
  /\ in_buf = "orig" /\ live = 0
  /\ measured = {} /\ own = Nothing

-----------------------------------------------------------------------------
(* fuzz_one: the way to the havoc stage                                    *)

\* Mutant: the turn of the swarms is not marked as over.
PsoUpdatingStays ==
  /\ pc = "entry" /\ key_module = Pso
  /\ swarm_now' = 0 /\ UNCHANGED key_module
  /\ measured' = {} /\ own' = Nothing
  /\ UNCHANGED <<swarm_fitness, periods, finds, pace, hits, pc, stage, splice,
                 SPLICE_CYCLES_puppet>>

PsoUpdating ==
  /\ pc = "entry" /\ key_module = Pso
  /\ swarm_now' = 0 /\ key_module' = Pilot
  /\ measured' = {} /\ own' = Nothing
  /\ UNCHANGED <<swarm_fitness, periods, finds, pace, hits, pc, stage, splice,
                 SPLICE_CYCLES_puppet>>

Enter(next) ==
  /\ pc = "entry" /\ key_module \in {Pilot, Core}
  /\ splice_cycle' = 0 /\ pc' = next
  /\ UNCHANGED <<modules, periods, finds, orig_hit_cnt_puppet, hits, stage,
                 in_buf, live, SPLICE_CYCLES_puppet, round>>

\* Calibration or trimming is the end of it.
EnterAbandon == Enter("end") /\ UNCHANGED key_puppet

\* -d, was_fuzzed, passed_det, or another master's entry.
EnterHavoc == Enter("start") /\ UNCHANGED key_puppet

EnterDet == key_puppet = 0 /\ Enter("det") /\ UNCHANGED key_puppet

\* Nothing has been found for limit_time_puppet.
EnterPacemaker == Enter("start") /\ key_puppet' = 1

\* Finds of the deterministic stages are no swarm's.
DetFind ==
  /\ pc = "det" /\ hits < MaxHits
  /\ hits' = hits + 1
  /\ UNCHANGED <<modules, periods, finds, pace, pc, stage, splice,
                 SPLICE_CYCLES_puppet, round>>

DetEnd ==
  /\ pc = "det" /\ pc' \in {"start", "end"}
  /\ UNCHANGED <<modules, periods, finds, pace, hits, stage, splice,
                 SPLICE_CYCLES_puppet, round>>

-----------------------------------------------------------------------------
(* Havoc and splicing                                                      *)

\* pacemaker_fuzzing; then havoc_stage_puppet, where a splice goes as well.
StartHavoc ==
  /\ pc = "start"
  /\ IF key_puppet = 1 /\ orig_hit_cnt_puppet = 0
     THEN orig_hit_cnt_puppet' = hits /\ SPLICE_CYCLES_puppet' \in SpliceCycles
     ELSE UNCHANGED <<orig_hit_cnt_puppet, SPLICE_CYCLES_puppet>>
  /\ stage_max' \in StageMaxes /\ stage_cur' = 0 /\ perf_score' = 1
  /\ pc' = "havoc"
  /\ UNCHANGED <<modules, periods, finds, key_puppet, hits, splice, round>>

Count ==
  /\ tmp_pilot_time' = IF key_module = Pilot THEN tmp_pilot_time + 1 ELSE tmp_pilot_time
  /\ tmp_core_time' = IF key_module = Core THEN tmp_core_time + 1 ELSE tmp_core_time

Credit(n) ==
  own' = IF key_module = Pilot
         THEN [own EXCEPT ![swarm_now].finds = @ + n, ![swarm_now].time = @ + 1]
         ELSE own

HavocRun ==
  /\ pc = "havoc" /\ stage_cur < stage_max
  /\ Count /\ Credit(0)
  /\ stage_cur' = stage_cur + 1
  /\ UNCHANGED <<modules, finds, pace, hits, pc, stage_max, perf_score, splice,
                 SPLICE_CYCLES_puppet, measured>>

HavocFind ==
  /\ pc = "havoc" /\ stage_cur < stage_max /\ hits < MaxHits
  /\ Count /\ Credit(1)
  /\ hits' = hits + 1 /\ total_puppet_find' = total_puppet_find + 1
  /\ stage_cur' = stage_cur + 1
  /\ \/ UNCHANGED <<stage_max, perf_score>>      \* a crash
     \/ IF perf_score <= HavocMaxMult
        THEN stage_max' = 2 * stage_max /\ perf_score' = 2 * perf_score
        ELSE UNCHANGED <<stage_max, perf_score>>
  /\ UNCHANGED <<modules, temp_puppet_find, pace, pc, splice, SPLICE_CYCLES_puppet, measured>>

\* common_fuzz_stuff returns 1.
HavocAbandon ==
  /\ pc = "havoc" /\ stage_cur < stage_max
  /\ Count /\ Credit(0)
  /\ pc' = "end"
  /\ UNCHANGED <<modules, finds, pace, hits, stage, splice, SPLICE_CYCLES_puppet, measured>>

HavocEnd ==
  /\ pc = "havoc" /\ stage_cur >= stage_max /\ pc' = "splice"
  /\ UNCHANGED <<modules, periods, finds, pace, hits, stage, splice,
                 SPLICE_CYCLES_puppet, round>>

\* The condition of retry_splicing_puppet increments splice_cycle, unless
\* use_splicing is 0.
SpliceOver ==
  /\ pc = "splice" /\ pc' = "end"
  /\ \/ splice_cycle >= SPLICE_CYCLES_puppet /\ splice_cycle' = splice_cycle + 1
     \/ splice_cycle = 0 /\ splice_cycle' = 1          \* queue or entry too short
     \/ splice_cycle = 0 /\ UNCHANGED splice_cycle     \* use_splicing is 0
  /\ UNCHANGED <<modules, periods, finds, pace, hits, stage, in_buf, live,
                 SPLICE_CYCLES_puppet, round>>

\* Mutant: the buffer of the last splice is not freed before the next one.
ReclaimedNot == live

\* in_buf = orig_in, if it is not.
Reclaimed == IF in_buf = "heap" THEN live - 1 ELSE live

\* No target, or one that hardly differs: its copy is freed again.
SpliceRetry ==
  /\ pc = "splice" /\ splice_cycle < SPLICE_CYCLES_puppet /\ hits > 1
  /\ splice_cycle' = splice_cycle + 1
  /\ live' = Reclaimed /\ in_buf' = "orig"
  /\ UNCHANGED <<modules, periods, finds, pace, hits, pc, stage,
                 SPLICE_CYCLES_puppet, round>>

Splice ==
  /\ pc = "splice" /\ splice_cycle < SPLICE_CYCLES_puppet /\ hits > 1
  /\ splice_cycle' = splice_cycle + 1
  /\ live' = Reclaimed + 1 /\ in_buf' = "heap"
  /\ stage_max' \in StageMaxes /\ stage_cur' = 0 /\ perf_score' = 1
  /\ pc' = "havoc"
  /\ UNCHANGED <<modules, periods, finds, pace, hits, SPLICE_CYCLES_puppet, round>>

-----------------------------------------------------------------------------
(* abandon_entry_puppet: the counters                                      *)

\* limit_time_bound is 1.1: never.
ResetDue == 10 * hits > 11 * hits + 10 * orig_hit_cnt_puppet

Leave ==
  /\ pc = "end" /\ pc' = "entry"
  /\ IF splice_cycle >= SPLICE_CYCLES_puppet
     THEN SPLICE_CYCLES_puppet' \in SpliceCycles ELSE UNCHANGED SPLICE_CYCLES_puppet
  /\ live' = Reclaimed /\ in_buf' = "orig"
  /\ IF key_puppet = 1 /\ ResetDue
     THEN key_puppet' = 0 /\ orig_hit_cnt_puppet' = 0 ELSE UNCHANGED pace
  /\ UNCHANGED <<total_puppet_find, hits, stage, splice_cycle>>

Over == IF key_module = Pilot THEN tmp_pilot_time > PeriodPilot ELSE tmp_core_time > PeriodCore

LeaveEarly ==
  /\ ~Over /\ Leave
  /\ UNCHANGED <<modules, periods, temp_puppet_find, round>>

\* The fitness of the swarm that was measured.
Fitness == [swarm_fitness EXCEPT
              ![swarm_now] = [finds |-> total_puppet_find - temp_puppet_find,
                              time  |-> tmp_pilot_time]]

\* Mutant: the last swarm that found anything.
BestLast(fitness) ==
  IF \E s \in Swarms : fitness[s].finds > 0
  THEN CHOOSE s \in Swarms : fitness[s].finds > 0 /\ \A t \in Swarms : t > s => fitness[t].finds = 0
  ELSE 0

\* The first of the best, and swarm 0 when none has found anything.
Best(fitness) ==
  LET Beats(a, b) == fitness[a].finds * fitness[b].time > fitness[b].finds * fitness[a].time
  IN CHOOSE s \in Swarms :
       /\ \A t \in Swarms : ~Beats(t, s)
       /\ \A t \in 0..(s - 1) : Beats(s, t)

RoundOver == swarm_now + 1 = SwarmNum

PilotPeriodOver ==
  /\ key_module = Pilot /\ Over /\ Leave
  /\ swarm_fitness' = Fitness
  /\ tmp_pilot_time' = 0 /\ temp_puppet_find' = total_puppet_find
  /\ measured' = measured \cup {swarm_now}
  /\ IF RoundOver
     THEN key_module' = Core /\ swarm_now' = Best(Fitness)
     ELSE swarm_now' = swarm_now + 1 /\ UNCHANGED key_module
  /\ UNCHANGED <<tmp_core_time, own>>

\* Mutant: what the core module finds is left to the first swarm.
CorePeriodOverUnsettled ==
  /\ key_module = Core /\ Over /\ Leave
  /\ tmp_core_time' = 0 /\ UNCHANGED temp_puppet_find
  /\ key_module' = Pso
  /\ UNCHANGED <<swarm_now, swarm_fitness, tmp_pilot_time, round>>

CorePeriodOver ==
  /\ key_module = Core /\ Over /\ Leave
  /\ tmp_core_time' = 0 /\ temp_puppet_find' = total_puppet_find
  /\ key_module' = Pso
  /\ UNCHANGED <<swarm_now, swarm_fitness, tmp_pilot_time, round>>

Schedule == PsoUpdating \/ EnterAbandon \/ EnterHavoc \/ EnterDet \/ EnterPacemaker
Stages   == DetFind \/ DetEnd \/ StartHavoc \/ HavocRun \/ HavocFind \/ HavocAbandon \/ HavocEnd
Splicing == SpliceOver \/ SpliceRetry \/ Splice
Leaving  == LeaveEarly \/ PilotPeriodOver \/ CorePeriodOver
Next == Schedule \/ Stages \/ Splicing \/ Leaving
Spec == Init /\ [][Next]_vars

\* Entries that get to their havoc stage keep coming.
FairSpec == Spec /\ WF_vars(Next) /\ SF_vars(EnterHavoc \/ EnterPacemaker) /\ SF_vars(DetEnd)

-----------------------------------------------------------------------------
(* Properties                                                              *)

\* A swarm is measured by what it found itself, in havoc, since the swarms
\* moved last, over the executions it had: neither the core module's finds
\* nor those of the deterministic stages, of the swarm before or of an entry
\* that was abandoned get lost or into the wrong quotient.
FitnessIsOwn ==
  /\ \A s \in measured : swarm_fitness[s] = own[s]
  /\ key_module = Pilot =>
       /\ total_puppet_find - temp_puppet_find = own[swarm_now].finds
       /\ tmp_pilot_time = own[swarm_now].time

\* Every swarm has its period, each once and in turn, before the core module
\* takes over, and the core module works with the best of them throughout.
CoreUsesBest ==
  /\ key_module = Pilot => measured = 0..(swarm_now - 1)
  /\ key_module = Core =>
       /\ measured = Swarms
       /\ \A s \in Swarms :
            own[swarm_now].finds * own[s].time >= own[s].finds * own[swarm_now].time

\* Between two entries no buffer of a splice is allocated, and during one only
\* the buffer the input is in: retries and abandonment (8847) free the rest.
BuffersFreed ==
  /\ live = IF in_buf = "heap" THEN 1 ELSE 0
  /\ pc = "entry" => live = 0

\* The three modules take turns for ever, as long as entries get to havoc:
\* periods end even if every execution in them is given up on.
ModulesTakeTurns == \A m \in {Pilot, Core, Pso} : []<>(key_module = m)
=============================================================================
