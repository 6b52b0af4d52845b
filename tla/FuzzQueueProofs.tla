-------------------------- MODULE FuzzQueueProofs --------------------------
(***************************************************************************)
(* Proofs about FuzzQueue, for every queue length, map size, set of        *)
(* behaviours and score range:                                             *)
(*   - TypeCorrect: Spec => []TypeOK,                                      *)
(*   - RefCountsCorrect: Spec => [](TcRefExact /\ MiniKept),               *)
(*   - FavoredAreFuzzable: Spec => []FavoredIsFuzzable,                    *)
(*   - PendingCorrect: Spec => []PendingCountersExact, for any target,     *)
(*   - FavoredCoverAll: Spec => []FavoredCover, and                        *)
(*   - CalibratedWin: Spec => []CalibratedBytesWon, for a target whose     *)
(*     runs on one input all give the same trace.                          *)
(* TypeOK is not inductive by itself: fuzz_one reads queue_cur, which is   *)
(* null between two cycles.  TypeInv adds that it is an entry of the queue *)
(* or null, and not null while fuzz_one, or a function it called, runs.    *)
(* cull_queue counts a winner as pending each time it grabs a byte for it, *)
(* so pending_favored is only exact if it never grabs two for one entry    *)
(* that was not fuzzed: the trace such an entry keeps has to hold all the  *)
(* bytes it won.  An entry that was trimmed, and won further bytes by a    *)
(* trace it does not keep, breaks that, but by then it is being fuzzed:    *)
(* ScoredOnce is about the entries that still wait for fuzz_one.  The      *)
(* other two theorems rest on exec_cksum being the one trace of its entry  *)
(* from its calibration on, through trims and second calibrations.         *)
(***************************************************************************)
EXTENDS FuzzQueue, FiniteSetTheorems, TLAPS

USE MaxEntriesAssumption, MapSizeAssumption

InFuzzOne == \/ pc \in {"turn", "recalibrate", "trim", "havoc", "abandon"}
             \/ pc = "score" /\ ret # "dry_next"

CurInv == /\ queue_cur \in Queue \cup {Nil}
          /\ InFuzzOne => queue_cur \in Queue

TypeInv == TypeOK /\ CurInv

-----------------------------------------------------------------------------

\* A member of Behaviours is a non-empty set of traces.
LEMMA BehaviourTypes ==
  ASSUME NEW B \in Behaviours
  PROVE  B \in SUBSET Traces /\ B # {}
BY BehavioursAssumption

\* The queue is a part of the entries.
LEMMA QueueTypes ==
  ASSUME TypeOK
  PROVE  Queue \subseteq Entries /\ 0 \in Queue /\ 0 \in Entries
BY DEF TypeOK, Queue, Entries

\* Measure keeps the types of what it writes.
LEMMA MeasureTypes ==
  ASSUME TypeOK, NEW q \in Entries, NEW ck0 \in (SUBSET Bytes) \cup {Nil},
         NEW virgin \in SUBSET Bytes, NEW t \in Traces, NEW seen \in SUBSET Traces,
         Measure(q, ck0, virgin, t, seen)
  PROVE  /\ exec_cksum' \in [Entries -> (SUBSET Bytes) \cup {Nil}]
         /\ virgin_bits' \in SUBSET Bytes
         /\ var_bytes' \in SUBSET Bytes
<1>1. exec_cksum' \in [Entries -> (SUBSET Bytes) \cup {Nil}]
  BY DEF TypeOK, Measure, Traces
<1>2. virgin_bits' \in SUBSET Bytes
  BY DEF Measure
<1>3. var_bytes' \in SUBSET Bytes
  BY DEF TypeOK, Measure, SymDiff, Traces
<1> QED BY <1>1, <1>2, <1>3

\* Calibrated keeps the types of what it writes.
LEMMA CalibratedTypes ==
  ASSUME TypeOK, NEW q \in Entries, NEW last \in Traces,
         NEW to \in {"dry_next", "trim", "havoc"}, Calibrated(q, last, to)
  PROVE  /\ cal_failed' \in [Entries -> Nat]
         /\ fav_factor' \in [Entries -> Nat]
         /\ pc' = "score" /\ scan' = 0 /\ q_arg' = q
         /\ trace_bits' \in SUBSET Bytes /\ ret' = to
BY FavFactorsAssumption DEF TypeOK, Calibrated, CallScore, Traces

\* A turn of the main loop ends at the next entry, or at no entry.
LEMMA AdvanceTypes ==
  ASSUME TypeOK, queue_cur \in Queue, Advance
  PROVE  /\ queue_cur' \in Entries \cup {Nil}
         /\ queue_cur' \in Queue \cup {Nil}
         /\ pc' \in {"stopped", "loop"}
<1>1. queued_paths \in 1 .. MaxEntries
  BY DEF TypeOK
<1>2. NextEntry \in Entries \cup {Nil} /\ NextEntry \in Queue \cup {Nil}
  BY <1>1 DEF NextEntry, Queue, Entries
<1> QED BY <1>1, <1>2, QueueTypes DEF Advance

-----------------------------------------------------------------------------
(* TypeInv is inductive: one lemma per group of actions.                   *)

\* The initial states are well typed.
LEMMA InitTypes == Init => TypeInv
<1> SUFFICES ASSUME Init PROVE TypeInv
  OBVIOUS
<1>1. PICK seeds \in [Queue -> Behaviours] :
        behav = [q \in Entries |-> IF q \in Queue THEN seeds[q] ELSE {}]
  BY DEF Init
<1>2. behav \in [Entries -> SUBSET Traces]
  BY <1>1, BehavioursAssumption
<1>3. 0 \in Entries /\ queued_paths \in Nat
  BY DEF Entries, Init
<1>4. /\ trim_done \in [Entries -> BOOLEAN]
      /\ was_fuzzed \in [Entries -> BOOLEAN]
      /\ favored \in [Entries -> BOOLEAN]
  BY Zenon DEF Init
<1>5. /\ pointer_score \in [Entries -> Nat]
      /\ fav_factor \in [Entries -> Nat]
      /\ cal_failed \in [Entries -> Nat]
      /\ tc_ref \in [Entries -> Int]
      /\ exec_cksum \in [Entries -> (SUBSET Bytes) \cup {Nil}]
      /\ trace_mini \in [Entries -> (SUBSET Bytes) \cup {Nil}]
      /\ top_rated \in [Bytes -> Entries \cup {Nil}]
  BY DEF Init
<1>6. TypeOK
  <2>1. /\ score_changed \in BOOLEAN /\ stop_soon \in BOOLEAN
        /\ var_bytes \in SUBSET Bytes /\ trace_bits \in SUBSET Bytes
        /\ temp_v \in SUBSET Bytes
    BY Zenon DEF Init
  <2>2. /\ queued_paths \in 1 .. MaxEntries
        /\ virgin_bits \in SUBSET Bytes
        /\ queued_favored \in Nat /\ pending_favored \in Int
        /\ pending_not_fuzzed \in Int
    BY <1>3 DEF Init
  <2>3. /\ queue_cur \in Entries \cup {Nil} /\ q_arg \in Entries
        /\ scan \in 0 .. MapSize
        /\ pc \in Pcs /\ ret \in {"dry_next", "trim", "havoc"}
    BY <1>3 DEF Init, Pcs
  <2> QED BY <1>2, <1>4, <1>5, <2>1, <2>2, <2>3 DEF TypeOK
<1>7. CurInv
  BY DEF Init, InFuzzOne, CurInv
<1> QED BY <1>6, <1>7 DEF TypeInv

\* perform_dry_run keeps the types.
LEMMA DryRunTypes ==
  ASSUME TypeInv, DryRun
  PROVE  TypeInv'
<1> USE DEF TypeInv
<1>1. CASE DryCalibrate
  <2>1. PICK seen \in (SUBSET behav[q_arg]) \ {{}} : \E first, last \in seen :
          /\ Measure(q_arg, Nil, virgin_bits, first, seen)
          /\ Calibrated(q_arg, last, "dry_next")
    BY <1>1 DEF DryCalibrate
  <2>2. PICK first \in seen, last \in seen :
          /\ Measure(q_arg, Nil, virgin_bits, first, seen)
          /\ Calibrated(q_arg, last, "dry_next")
    BY <2>1
  <2>3. seen \in SUBSET Traces /\ first \in Traces /\ last \in Traces
        /\ q_arg \in Entries /\ virgin_bits \in SUBSET Bytes
    BY DEF TypeOK
  <2>4. /\ exec_cksum' \in [Entries -> (SUBSET Bytes) \cup {Nil}]
        /\ virgin_bits' \in SUBSET Bytes
        /\ var_bytes' \in SUBSET Bytes
    BY <2>2, <2>3, MeasureTypes
  <2>5. /\ cal_failed' \in [Entries -> Nat]
        /\ fav_factor' \in [Entries -> Nat]
        /\ pc' = "score" /\ scan' = 0 /\ q_arg' = q_arg
        /\ trace_bits' \in SUBSET Bytes /\ ret' = "dry_next"
    BY <2>2, <2>3, CalibratedTypes
  <2> QED BY <1>1, <2>4, <2>5 DEF DryCalibrate, TypeOK, testcase, winners, culled,
             fuzzed, Pcs, CurInv, InFuzzOne, Queue
<1>2. CASE DrySkip
  <2>1. PICK first \in behav[q_arg] :
          \E seen \in {{}} \cup {s \in SUBSET behav[q_arg] : first \in s} :
            Measure(q_arg, Nil, virgin_bits, first, seen)
    BY <1>2 DEF DrySkip
  <2>2. PICK seen \in SUBSET behav[q_arg] :
          Measure(q_arg, Nil, virgin_bits, first, seen)
    BY <2>1
  <2>3. seen \in SUBSET Traces /\ first \in Traces /\ q_arg \in Entries
        /\ virgin_bits \in SUBSET Bytes
    BY <2>1 DEF TypeOK
  <2>4. /\ exec_cksum' \in [Entries -> (SUBSET Bytes) \cup {Nil}]
        /\ virgin_bits' \in SUBSET Bytes
        /\ var_bytes' \in SUBSET Bytes
    BY <2>2, <2>3, MeasureTypes
  <2>5. cal_failed' \in [Entries -> Nat]
    BY <1>2, CalChancesAssumption DEF DrySkip, TypeOK
  <2> QED BY <1>2, <2>4, <2>5 DEF DrySkip, TypeOK, testcase, winners, culled,
             fuzzed, call, Pcs, CurInv, InFuzzOne, Queue
<1>3. CASE DryFatal
  BY <1>3 DEF DryFatal, TypeOK, testcase, calib, winners, culled, fuzzed, call,
              Pcs, CurInv, InFuzzOne, Queue
<1>4. CASE DryNext
  <2>1. q_arg' \in Entries
    <3>1. q_arg \in Entries /\ queued_paths \in 1 .. MaxEntries
      BY DEF TypeOK
    <3> QED BY <1>4, <3>1, QueueTypes DEF DryNext, Entries
  <2>2. pc' \in {"dry", "stopped", "loop"}
    BY <1>4 DEF DryNext
  <2>3. TypeOK'
    BY <1>4, <2>1, <2>2 DEF DryNext, TypeOK, testcase, calib, winners, culled, fuzzed, Pcs
  <2>4. CurInv'
    BY <1>4, <2>2 DEF DryNext, CurInv, InFuzzOne, Queue
  <2> QED BY <2>3, <2>4
<1> QED BY <1>1, <1>2, <1>3, <1>4 DEF DryRun

\* update_bitmap_score keeps the types.
LEMMA ScoreTypes ==
  ASSUME TypeInv, Score
  PROVE  TypeInv'
<1> USE DEF TypeInv
<1>1. CASE ScoreByte
  <2>1. scan' \in 0 .. MapSize
    BY <1>1 DEF ScoreByte, Bytes
  <2>2. CASE Wins(q_arg, scan)
    <3>1. TakeByte(q_arg, scan) /\ scan \in Bytes /\ q_arg \in Entries
      BY <1>1, <2>2 DEF ScoreByte, TypeOK
    <3>2. Released(scan) \in [Entries -> Int]
      BY <3>1 DEF Released, TypeOK
    <3>3. MinisLeft(scan) \in [Entries -> (SUBSET Bytes) \cup {Nil}]
      BY DEF MinisLeft, TypeOK
    <3>4. /\ top_rated' \in [Bytes -> Entries \cup {Nil}]
          /\ tc_ref' \in [Entries -> Int]
          /\ trace_mini' \in [Entries -> (SUBSET Bytes) \cup {Nil}]
          /\ score_changed' \in BOOLEAN
      BY <3>1, <3>2, <3>3 DEF TakeByte, TypeOK
    <3> QED BY <1>1, <2>1, <3>4 DEF ScoreByte, TypeOK, testcase, calib, culled,
               fuzzed, call, CurInv, InFuzzOne, Queue
  <2>3. CASE ~Wins(q_arg, scan)
    BY <1>1, <2>1, <2>3 DEF ScoreByte, TypeOK, testcase, calib, winners, culled,
       fuzzed, call, CurInv, InFuzzOne, Queue
  <2> QED BY <2>2, <2>3
<1>2. CASE ScoreReturn
  <2>1. q_arg' \in Entries
    BY <1>2, QueueTypes DEF ScoreReturn, TypeOK
  <2> QED BY <1>2, <2>1 DEF ScoreReturn, TypeOK, testcase, calib, winners, culled,
             fuzzed, Pcs, CurInv, InFuzzOne, Queue
<1> QED BY <1>1, <1>2 DEF Score

\* cull_queue keeps the types, and leaves the main loop an entry to fuzz.
LEMMA CullTypes ==
  ASSUME TypeInv, Cull
  PROVE  TypeInv'
<1> USE DEF TypeInv
<1>1. CASE CullBegin
  <2>1. favored' \in [Entries -> BOOLEAN] /\ score_changed' \in BOOLEAN
    BY <1>1, Zenon DEF CullBegin
  <2>2. TypeOK'
    BY <1>1, <2>1 DEF CullBegin, TypeOK, testcase, calib, call, Pcs
  <2>3. CurInv'
    BY <1>1 DEF CullBegin, CurInv, InFuzzOne, Queue
  <2> QED BY <2>2, <2>3
<1>2. CASE CullByte
  <2>1. scan' \in 0 .. MapSize
    BY <1>2 DEF CullByte, Bytes
  <2>2. favored' \in [Entries -> BOOLEAN]
    <3>1. favored \in [Entries -> BOOLEAN]
      BY DEF TypeOK
    <3>2. \/ favored' = favored
          \/ favored' = [favored EXCEPT ![top_rated[scan]] = TRUE]
      BY <1>2 DEF CullByte, culled
    <3> QED BY <3>1, <3>2, Zenon
  <2>3. /\ temp_v' \in SUBSET Bytes
        /\ queued_favored' \in Nat
        /\ pending_favored' \in Int
    <3>1. /\ temp_v \in SUBSET Bytes /\ queued_favored \in Nat
          /\ pending_favored \in Int
      BY DEF TypeOK
    <3> QED BY <1>2, <3>1 DEF CullByte, culled
  <2>4. TypeOK'
    BY <1>2, <2>1, <2>2, <2>3 DEF CullByte, TypeOK, testcase, calib, winners, call
  <2>5. CurInv'
    BY <1>2 DEF CullByte, CurInv, InFuzzOne, Queue
  <2> QED BY <2>4, <2>5
<1>3. CASE CullReturn
  <2>1. queue_cur' \in Queue'
    BY <1>3, QueueTypes DEF CullReturn, CurInv, Queue
  <2>2. queue_cur' \in Entries \cup {Nil}
    BY <1>3, QueueTypes DEF CullReturn, CurInv
  <2>3. TypeOK'
    BY <1>3, <2>2 DEF CullReturn, TypeOK, testcase, calib, winners, fuzzed, call, Pcs
  <2> QED BY <2>1, <2>3 DEF CurInv
<1> QED BY <1>1, <1>2, <1>3 DEF Cull

\* What fuzz_one does to an entry it has picked, without starting a run.
LEMMA TurnTypes ==
  ASSUME TypeInv, SkipEntry \/ PsoTurn \/ EnterFuzz \/ TrimKeep \/ Abandon
  PROVE  TypeInv'
<1> USE DEF TypeInv
<1>1. CASE SkipEntry \/ PsoTurn
  <2>1. queue_cur \in Queue /\ Advance
    BY <1>1 DEF SkipEntry, PsoTurn, CurInv, InFuzzOne
  <2>2. /\ queue_cur' \in Entries \cup {Nil}
        /\ queue_cur' \in Queue \cup {Nil}
        /\ pc' \in {"stopped", "loop"}
    BY <2>1, AdvanceTypes
  <2>3. UNCHANGED <<queued_paths, testcase, fav_factor, calib, trim_done, winners,
                    culled, fuzzed, stop_soon, scan, call>>
    BY <1>1 DEF SkipEntry, PsoTurn
  <2>4. TypeOK'
    BY <2>2, <2>3 DEF TypeOK, testcase, calib, winners, culled, fuzzed, call, Pcs
  <2>5. CurInv'
    BY <2>2, <2>3 DEF CurInv, InFuzzOne, Queue
  <2> QED BY <2>4, <2>5
<1>2. CASE EnterFuzz
  <2>1. pc' \in {"trim", "recalibrate", "abandon"} /\ queue_cur \in Queue
    BY <1>2 DEF EnterFuzz, CurInv, InFuzzOne
  <2>2. UNCHANGED <<queued_paths, testcase, fav_factor, calib, trim_done, winners,
                    culled, fuzzed, queue_cur, stop_soon, scan, call>>
    BY <1>2 DEF EnterFuzz
  <2>3. TypeOK'
    BY <2>1, <2>2 DEF TypeOK, testcase, calib, winners, culled, fuzzed, call, Pcs
  <2> QED BY <2>1, <2>2, <2>3 DEF CurInv, Queue
<1>3. CASE TrimKeep
  <2>1. pc' = "havoc" /\ queue_cur \in Queue
    BY <1>3 DEF TrimKeep, CurInv, InFuzzOne
  <2>2. trim_done' \in [Entries -> BOOLEAN]
    <3>1. trim_done \in [Entries -> BOOLEAN]
      BY DEF TypeOK
    <3> QED BY <1>3, <3>1, Zenon DEF TrimKeep
  <2>3. UNCHANGED <<queued_paths, testcase, fav_factor, calib, winners, culled,
                    fuzzed, queue_cur, stop_soon, scan, call>>
    BY <1>3 DEF TrimKeep
  <2>4. TypeOK'
    BY <2>1, <2>2, <2>3 DEF TypeOK, testcase, calib, winners, culled, fuzzed, call, Pcs
  <2> QED BY <2>1, <2>3, <2>4 DEF CurInv, Queue
<1>4. CASE Abandon
  <2>1. queue_cur \in Queue /\ Advance
    BY <1>4 DEF Abandon, MarkFuzzed, FirstPass, CurInv, InFuzzOne
  <2>2. /\ queue_cur' \in Entries \cup {Nil}
        /\ queue_cur' \in Queue \cup {Nil}
        /\ pc' \in {"stopped", "loop"}
    BY <2>1, AdvanceTypes
  <2>3. was_fuzzed' \in [Entries -> BOOLEAN]
    <3>1. was_fuzzed \in [Entries -> BOOLEAN]
      BY DEF TypeOK
    <3>2. \/ was_fuzzed' = was_fuzzed
          \/ was_fuzzed' = [was_fuzzed EXCEPT ![queue_cur] = TRUE]
      BY <1>4 DEF Abandon, MarkFuzzed, FirstPass, fuzzed
    <3> QED BY <3>1, <3>2, Zenon
  <2>4. pending_favored' \in Int /\ pending_not_fuzzed' \in Int
    <3>1. pending_favored \in Int /\ pending_not_fuzzed \in Int
      BY DEF TypeOK
    <3> QED BY <1>4, <3>1 DEF Abandon, MarkFuzzed, FirstPass, fuzzed
  <2>5. UNCHANGED <<queued_paths, testcase, fav_factor, calib, trim_done, winners,
                    culled, stop_soon, scan, call>>
    BY <1>4 DEF Abandon, MarkFuzzed, FirstPass
  <2>6. TypeOK'
    BY <2>2, <2>3, <2>4, <2>5 DEF TypeOK, testcase, calib, winners, culled, call, Pcs
  <2>7. CurInv'
    BY <2>2, <2>5 DEF CurInv, InFuzzOne, Queue
  <2> QED BY <2>6, <2>7
<1> QED BY <1>1, <1>2, <1>3, <1>4

\* A second calibration, and a trim that shortened the file.
LEMMA RunTypes ==
  ASSUME TypeInv, Recalibrate \/ RecalibrateFails \/ TrimWrite
  PROVE  TypeInv'
<1> USE DEF TypeInv
<1> DEFINE q == queue_cur
<1>0. q \in Queue /\ q \in Entries /\ behav[q] \in SUBSET Traces
      /\ exec_cksum[q] \in (SUBSET Bytes) \cup {Nil} /\ virgin_bits \in SUBSET Bytes
  <2>1. q \in Queue
    BY DEF Recalibrate, RecalibrateFails, TrimWrite, CurInv, InFuzzOne
  <2> QED BY <2>1, QueueTypes DEF TypeOK
<1>1. CASE Recalibrate
  <2>1. PICK stale \in Traces, seen \in SUBSET Traces, last \in Traces :
          /\ Measure(q, exec_cksum[q], virgin_bits, stale, seen)
          /\ Calibrated(q, last, "trim")
    BY <1>0, <1>1 DEF Recalibrate
  <2>2. /\ exec_cksum' \in [Entries -> (SUBSET Bytes) \cup {Nil}]
        /\ virgin_bits' \in SUBSET Bytes
        /\ var_bytes' \in SUBSET Bytes
    BY <1>0, <2>1, MeasureTypes
  <2>3. /\ cal_failed' \in [Entries -> Nat]
        /\ fav_factor' \in [Entries -> Nat]
        /\ pc' = "score" /\ scan' = 0 /\ q_arg' = q
        /\ trace_bits' \in SUBSET Bytes /\ ret' = "trim"
    BY <1>0, <2>1, CalibratedTypes
  <2>4. TypeOK'
    BY <1>0, <1>1, <2>2, <2>3 DEF Recalibrate, TypeOK, testcase, winners, culled, fuzzed, Pcs
  <2>5. CurInv'
    BY <1>0, <1>1 DEF Recalibrate, CurInv, Queue
  <2> QED BY <2>4, <2>5
<1>2. CASE RecalibrateFails
  <2>1. PICK stale \in Traces, seen \in SUBSET Traces :
          Measure(q, exec_cksum[q], virgin_bits, stale, seen)
    BY <1>0, <1>2 DEF RecalibrateFails
  <2>2. /\ exec_cksum' \in [Entries -> (SUBSET Bytes) \cup {Nil}]
        /\ virgin_bits' \in SUBSET Bytes
        /\ var_bytes' \in SUBSET Bytes
    BY <1>0, <2>1, MeasureTypes
  <2>3. cal_failed' \in [Entries -> Nat] /\ fav_factor' = fav_factor
    BY <1>0, <1>2 DEF RecalibrateFails, CalFailed, TypeOK
  <2>4. TypeOK'
    BY <1>2, <2>2, <2>3 DEF RecalibrateFails, TypeOK, testcase, winners, culled, fuzzed, call, Pcs
  <2>5. CurInv'
    BY <1>0, <1>2 DEF RecalibrateFails, CurInv, Queue
  <2> QED BY <2>4, <2>5
<1>3. CASE TrimWrite
  <2>1. PICK B \in Behaviours : exec_cksum[q] \in B /\ behav' = [behav EXCEPT ![q] = B]
    BY <1>3 DEF TrimWrite
  <2>2. behav' \in [Entries -> SUBSET Traces] /\ exec_cksum[q] \in SUBSET Bytes
    BY <1>0, <2>1, BehaviourTypes DEF TypeOK, Traces
  <2>3. fav_factor' \in [Entries -> Nat]
    BY <1>0, <1>3, FavFactorsAssumption DEF TrimWrite, TypeOK
  <2>4. trim_done' \in [Entries -> BOOLEAN]
    <3>1. trim_done \in [Entries -> BOOLEAN]
      BY DEF TypeOK
    <3> QED BY <1>3, <3>1, Zenon DEF TrimWrite
  <2>5. /\ pc' = "score" /\ scan' = 0 /\ q_arg' = q
        /\ trace_bits' = exec_cksum[q] /\ ret' = "havoc"
    BY <1>3 DEF TrimWrite, CallScore
  <2>6. UNCHANGED <<queued_paths, pointer_score, calib, winners, culled, fuzzed,
                    queue_cur, stop_soon>>
    BY <1>3 DEF TrimWrite
  <2>7. TypeOK'
    BY <1>0, <2>2, <2>3, <2>4, <2>5, <2>6 DEF TypeOK, calib, winners, culled, fuzzed, Pcs
  <2>8. CurInv'
    BY <1>0, <2>6 DEF CurInv, Queue
  <2> QED BY <2>7, <2>8
<1> QED BY <1>1, <1>2, <1>3

\* save_if_interesting, with its inline calibration.
LEMMA DiscoverTypes ==
  ASSUME TypeInv, NEW B \in Behaviours, NEW p \in PointerScores, NEW t0 \in B,
         NEW seen \in SUBSET B, Discover(B, t0, p, seen)
  PROVE  /\ queued_paths \in Entries /\ t0 \in Traces /\ seen \in SUBSET Traces
         /\ queued_paths' \in 1 .. MaxEntries /\ pending_not_fuzzed' \in Int
         /\ behav' \in [Entries -> SUBSET Traces]
         /\ pointer_score' \in [Entries -> Nat]
         /\ exec_cksum' \in [Entries -> (SUBSET Bytes) \cup {Nil}]
         /\ virgin_bits' \in SUBSET Bytes
         /\ var_bytes' \in SUBSET Bytes
         /\ CurInv'
<1> USE DEF TypeInv
<1>1. queued_paths \in 1 .. MaxEntries /\ queued_paths < MaxEntries
  BY DEF TypeOK, Discover
<1>2. queued_paths \in Entries /\ queued_paths' \in 1 .. MaxEntries
  BY <1>1 DEF Discover, Entries
<1>3. t0 \in Traces /\ seen \in SUBSET Traces
  BY BehaviourTypes
<1>4. behav' \in [Entries -> SUBSET Traces] /\ pointer_score' \in [Entries -> Nat]
  BY <1>2, BehaviourTypes, PointerScoresAssumption DEF Discover, TypeOK
<1>5. Measure(queued_paths, t0, virgin_bits \ t0, t0, seen)
  BY DEF Discover
<1>6. t0 \in (SUBSET Bytes) \cup {Nil} /\ virgin_bits \ t0 \in SUBSET Bytes
  BY <1>3 DEF Traces, TypeOK
<1>7. /\ exec_cksum' \in [Entries -> (SUBSET Bytes) \cup {Nil}]
      /\ virgin_bits' \in SUBSET Bytes
      /\ var_bytes' \in SUBSET Bytes
  BY <1>2, <1>3, <1>5, <1>6, MeasureTypes
<1>8. pending_not_fuzzed' \in Int
  BY DEF Discover, TypeOK
<1>9. queue_cur \in Queue /\ queue_cur' = queue_cur /\ queued_paths' = queued_paths + 1
  BY DEF Discover, CurInv, InFuzzOne
<1>10. CurInv'
  BY <1>1, <1>9 DEF CurInv, Queue
<1> QED BY <1>2, <1>3, <1>4, <1>7, <1>8, <1>10

\* A discovery, calibrated or not, keeps the types.
LEMMA FindTypes ==
  ASSUME TypeInv, FindNew \/ FindNewFails
  PROVE  TypeInv'
<1> USE DEF TypeInv
<1>1. CASE FindNew
  <2>1. PICK B \in Behaviours, p \in PointerScores :
          \E t0 \in B, seen \in (SUBSET B) \ {{}} :
            /\ Discover(B, t0, p, seen)
            /\ \E last \in seen : Calibrated(queued_paths, last, "havoc")
    BY <1>1 DEF FindNew
  <2>2. PICK t0 \in B, seen \in SUBSET B, last \in B :
          Discover(B, t0, p, seen) /\ Calibrated(queued_paths, last, "havoc")
    BY <2>1
  <2>3. /\ queued_paths \in Entries /\ last \in Traces
        /\ queued_paths' \in 1 .. MaxEntries /\ pending_not_fuzzed' \in Int
        /\ behav' \in [Entries -> SUBSET Traces]
        /\ pointer_score' \in [Entries -> Nat]
        /\ exec_cksum' \in [Entries -> (SUBSET Bytes) \cup {Nil}]
        /\ virgin_bits' \in SUBSET Bytes
        /\ var_bytes' \in SUBSET Bytes
        /\ CurInv'
    BY <2>2, DiscoverTypes, BehaviourTypes
  <2>4. /\ cal_failed' \in [Entries -> Nat]
        /\ fav_factor' \in [Entries -> Nat]
        /\ pc' = "score" /\ scan' = 0 /\ q_arg' = queued_paths
        /\ trace_bits' \in SUBSET Bytes /\ ret' = "havoc"
    BY <2>2, <2>3, CalibratedTypes
  <2>5. UNCHANGED <<trim_done, winners, culled, was_fuzzed, pending_favored,
                    queue_cur, stop_soon>>
    BY <2>2 DEF Discover
  <2> QED BY <2>3, <2>4, <2>5 DEF TypeOK, winners, culled, Pcs
<1>2. CASE FindNewFails
  <2>0. PICK B \in Behaviours, p \in PointerScores :
          \E t0 \in B, seen \in SUBSET B :
            /\ Discover(B, t0, p, seen)
            /\ CalFailed(queued_paths)
            /\ UNCHANGED <<pc, scan, call>>
    BY <1>2 DEF FindNewFails
  <2>1. PICK t0 \in B, seen \in SUBSET B :
          /\ Discover(B, t0, p, seen)
          /\ CalFailed(queued_paths)
          /\ UNCHANGED <<pc, scan, call>>
    BY <2>0
  <2>2. /\ queued_paths \in Entries
        /\ queued_paths' \in 1 .. MaxEntries /\ pending_not_fuzzed' \in Int
        /\ behav' \in [Entries -> SUBSET Traces]
        /\ pointer_score' \in [Entries -> Nat]
        /\ exec_cksum' \in [Entries -> (SUBSET Bytes) \cup {Nil}]
        /\ virgin_bits' \in SUBSET Bytes
        /\ var_bytes' \in SUBSET Bytes
        /\ CurInv'
    BY <2>1, DiscoverTypes
  <2>3. cal_failed' \in [Entries -> Nat] /\ fav_factor' = fav_factor
    BY <2>1, <2>2 DEF CalFailed, TypeOK
  <2>4. UNCHANGED <<trim_done, winners, culled, was_fuzzed, pending_favored,
                    queue_cur, stop_soon>>
    BY <2>1 DEF Discover
  <2> QED BY <2>1, <2>2, <2>3, <2>4 DEF TypeOK, winners, culled, call
<1> QED BY <1>1, <1>2

\* Ctrl-C and the exits it causes keep the types.
LEMMA StopTypes ==
  ASSUME TypeInv, Stop \/ Leave
  PROVE  TypeInv'
<1> USE DEF TypeInv
<1>1. CASE Stop
  <2>1. stop_soon' \in BOOLEAN
    BY <1>1, Zenon DEF Stop
  <2> QED BY <1>1, <2>1 DEF Stop, TypeOK, CurInv, InFuzzOne, Queue, testcase, calib,
             winners, culled, fuzzed, call
<1>2. CASE Leave
  BY <1>2 DEF Leave, TypeOK, CurInv, InFuzzOne, Queue, testcase, calib, winners,
     culled, fuzzed, call, Pcs
<1> QED BY <1>1, <1>2

\* A stuttering step, Terminating among them.
LEMMA StutterTypes ==
  ASSUME TypeInv, UNCHANGED vars
  PROVE  TypeInv'
BY DEF vars, TypeInv, TypeOK, CurInv, InFuzzOne, Queue, testcase, calib, winners,
   culled, fuzzed, call

\* TypeInv is inductive.
LEMMA NextTypes == TypeInv /\ [Next]_vars => TypeInv'
BY DryRunTypes, ScoreTypes, CullTypes, TurnTypes, RunTypes, FindTypes, StopTypes,
   StutterTypes DEF Next, FuzzOne, Terminating

\* TypeInv holds throughout.
LEMMA TypeInvHolds == Spec => []TypeInv
BY InitTypes, NextTypes, PTL DEF Spec

\* TypeOK holds in every reachable state: in particular the loops of
\* update_bitmap_score and cull_queue stay inside the map and fuzz_one always
\* has an entry.
THEOREM TypeCorrect == Spec => []TypeOK
<1>1. TypeInv => TypeOK
  BY DEF TypeInv
<1> QED BY <1>1, TypeInvHolds, PTL

-----------------------------------------------------------------------------
(* The reference counts.  Only the step of update_bitmap_score that gives  *)
(* a byte to its new winner changes them; it takes the byte from the old   *)
(* winner's set and adds it to the new one's.                              *)

RefInv == TcRefExact /\ MiniKept

\* Won bytes are finitely many.
LEMMA WonFinite ==
  ASSUME NEW q \in Entries
  PROVE  IsFiniteSet(WonBytes(q)) /\ Cardinality(WonBytes(q)) \in Nat
<1>1. IsFiniteSet(Bytes)
  BY FS_Interval DEF Bytes
<1>2. WonBytes(q) \subseteq Bytes
  BY DEF WonBytes
<1> QED BY <1>1, <1>2, FS_Subset, FS_CardinalityType

\* Null is not an entry, a trace is never null.
LEMMA NilTypes == Nil \notin Entries /\ \A s \in SUBSET Bytes : s # Nil
BY NilAssumption

\* Which bytes each entry is the winner of after q took byte b.
LEMMA WonAfterTake ==
  ASSUME TypeOK, NEW q \in Entries, NEW b \in Bytes, TakeByte(q, b), NEW x \in Entries
  PROVE  WonBytes(x)' = IF x = q THEN WonBytes(x) \cup {b} ELSE WonBytes(x) \ {b}
BY DEF TypeOK, TakeByte, WonBytes

\* The size of an entry's set of won bytes after q took byte b from w.
LEMMA CountAfterTake ==
  ASSUME TypeOK, NEW q \in Entries, NEW b \in Bytes, TakeByte(q, b), NEW x \in Entries
  PROVE  Cardinality(WonBytes(x)') =
           IF x = q
           THEN IF top_rated[b] = q THEN Cardinality(WonBytes(x))
                ELSE Cardinality(WonBytes(x)) + 1
           ELSE IF top_rated[b] = x THEN Cardinality(WonBytes(x)) - 1
                ELSE Cardinality(WonBytes(x))
<1>1. b \in WonBytes(x) <=> top_rated[b] = x
  BY DEF WonBytes
<1>2. IsFiniteSet(WonBytes(x))
  BY WonFinite
<1>3. CASE x = q /\ top_rated[b] = q
  BY <1>1, <1>3, WonAfterTake
<1>4. CASE x = q /\ top_rated[b] # q
  BY <1>1, <1>2, <1>4, WonAfterTake, FS_AddElement
<1>5. CASE x # q /\ top_rated[b] = x
  BY <1>1, <1>2, <1>5, WonAfterTake, FS_RemoveElement
<1>6. CASE x # q /\ top_rated[b] # x
  <2>1. WonBytes(x)' = WonBytes(x)
    BY <1>1, <1>6, WonAfterTake
  <2> QED BY <2>1, <1>6
<1> QED BY <1>3, <1>4, <1>5, <1>6

\* Taking a byte keeps tc_ref exact, also when a winner displaces itself.
LEMMA TakeKeepsCounts ==
  ASSUME TypeOK, RefInv, NEW q \in Entries, NEW b \in Bytes, TakeByte(q, b)
  PROVE  TcRefExact'
<1> DEFINE w == top_rated[b]
<1>1. SUFFICES ASSUME NEW x \in Entries
               PROVE  tc_ref'[x] = Cardinality(WonBytes(x)')
  BY DEF TcRefExact
<1>2. tc_ref \in [Entries -> Int] /\ w \in Entries \cup {Nil} /\ tc_ref[x] \in Int
  BY DEF TypeOK
<1>3. tc_ref[x] = Cardinality(WonBytes(x))
  BY DEF RefInv, TcRefExact
<1>4. tc_ref' = [Released(b) EXCEPT ![q] = @ + 1]
  BY DEF TakeByte
<1>5. CASE w = Nil
  <2>1. Released(b) = tc_ref /\ w # x /\ w # q
    BY <1>5, NilTypes DEF Released
  <2> QED BY <1>2, <1>3, <1>4, <2>1, CountAfterTake
<1>6. CASE w # Nil
  <2>1. Released(b) = [tc_ref EXCEPT ![w] = @ - 1]
    BY <1>6 DEF Released
  <2> QED BY <1>2, <1>3, <1>4, <1>6, <2>1, CountAfterTake
<1> QED BY <1>5, <1>6

\* Taking a byte frees the trace of an entry that lost its last byte, and no other.
LEMMA TakeKeepsMinis ==
  ASSUME TypeOK, RefInv, NEW q \in Entries, NEW b \in Bytes, TakeByte(q, b)
  PROVE  MiniKept'
<1> DEFINE w == top_rated[b]
<1>1. SUFFICES ASSUME NEW x \in Entries
               PROVE  trace_mini'[x] # Nil <=> WonBytes(x)' # {}
  BY DEF MiniKept
<1>2. /\ trace_mini \in [Entries -> (SUBSET Bytes) \cup {Nil}]
      /\ w \in Entries \cup {Nil} /\ trace_bits \in SUBSET Bytes
      /\ tc_ref \in [Entries -> Int]
  BY DEF TypeOK
<1>3. trace_mini[x] # Nil <=> WonBytes(x) # {}
  BY DEF RefInv, MiniKept
<1>4. trace_mini' = IF MinisLeft(b)[q] = Nil
                    THEN [MinisLeft(b) EXCEPT ![q] = trace_bits] ELSE MinisLeft(b)
  BY DEF TakeByte
<1>5. MinisLeft(b) \in [Entries -> (SUBSET Bytes) \cup {Nil}]
  BY <1>2 DEF MinisLeft
<1>6. CASE x = q
  <2>1. trace_mini'[x] # Nil
    BY <1>2, <1>4, <1>5, <1>6, NilTypes
  <2> QED BY <1>6, <2>1, WonAfterTake
<1>7. CASE x # q /\ w # x
  <2>1. trace_mini'[x] = trace_mini[x]
    BY <1>2, <1>4, <1>5, <1>7 DEF MinisLeft
  <2>2. WonBytes(x)' = WonBytes(x)
    BY <1>7, WonAfterTake DEF WonBytes
  <2> QED BY <1>3, <2>1, <2>2
<1>8. CASE x # q /\ w = x
  <2>1. b \in WonBytes(x) /\ WonBytes(x)' = WonBytes(x) \ {b}
    BY <1>8, WonAfterTake DEF WonBytes
  <2>2. tc_ref[x] = Cardinality(WonBytes(x))
    BY DEF RefInv, TcRefExact
  <2>3. Cardinality(WonBytes(x)') = Cardinality(WonBytes(x)) - 1
    BY <1>8, CountAfterTake
  <2>4. Released(b)[x] = Cardinality(WonBytes(x)')
    BY <1>2, <1>8, <2>2, <2>3, NilTypes DEF Released
  <2>5. IsFiniteSet(WonBytes(x)')
    BY <2>1, WonFinite, FS_Subset
  <2>6. Released(b)[x] = 0 <=> WonBytes(x)' = {}
    BY <2>4, <2>5, FS_EmptySet
  <2>7. trace_mini'[x] = IF Released(b)[x] = 0 THEN Nil ELSE trace_mini[x]
    BY <1>2, <1>4, <1>5, <1>8, NilTypes DEF MinisLeft
  <2> QED BY <1>3, <2>1, <2>6, <2>7
<1> QED BY <1>6, <1>7, <1>8

\* Every other step leaves winners, counts and traces alone.
LEMMA OthersKeepWinners ==
  ASSUME [Next]_vars, ~(ScoreByte /\ Wins(q_arg, scan))
  PROVE  UNCHANGED <<top_rated, tc_ref, trace_mini>>
BY DEF Next, DryRun, Score, Cull, FuzzOne, DryCalibrate, DrySkip, DryFatal, DryNext,
   ScoreByte, ScoreReturn, CullBegin, CullByte, CullReturn, SkipEntry, PsoTurn,
   EnterFuzz, Recalibrate, RecalibrateFails, TrimKeep, TrimWrite, FindNew,
   FindNewFails, Discover, Abandon, Stop, Leave, Terminating, winners, vars

\* The counts and the traces stay in step with the winners.
LEMMA RefInvInductive == TypeInv /\ RefInv /\ [Next]_vars => RefInv'
<1> SUFFICES ASSUME TypeInv, RefInv, [Next]_vars PROVE RefInv'
  OBVIOUS
<1>1. CASE ScoreByte /\ Wins(q_arg, scan)
  <2>1. TakeByte(q_arg, scan) /\ scan \in Bytes /\ q_arg \in Entries /\ TypeOK
    BY <1>1 DEF ScoreByte, TypeInv, TypeOK
  <2> QED BY <2>1, TakeKeepsCounts, TakeKeepsMinis DEF RefInv
<1>2. CASE ~(ScoreByte /\ Wins(q_arg, scan))
  <2>1. UNCHANGED <<top_rated, tc_ref, trace_mini>>
    BY <1>2, OthersKeepWinners
  <2> QED BY <2>1 DEF RefInv, TcRefExact, MiniKept, WonBytes
<1> QED BY <1>1, <1>2

\* Initially nothing has a winner.
LEMMA RefInvInit == Init => RefInv
<1> SUFFICES ASSUME Init, NEW q \in Entries
             PROVE  tc_ref[q] = Cardinality(WonBytes(q)) /\ (trace_mini[q] # Nil <=> WonBytes(q) # {})
  BY DEF RefInv, TcRefExact, MiniKept
<1>1. top_rated = [b \in Bytes |-> Nil] /\ tc_ref[q] = 0 /\ trace_mini[q] = Nil
  BY DEF Init
<1>2. WonBytes(q) = {}
  BY <1>1, NilTypes DEF WonBytes
<1> QED BY <1>1, <1>2, FS_EmptySet

\* RefInv holds throughout.
LEMMA RefInvHolds == Spec => []RefInv
BY RefInvInit, RefInvInductive, TypeInvHolds, PTL DEF Spec

\* The reference counts and the kept traces of update_bitmap_score always agree
\* with top_rated, whatever wins, loses or displaces itself: no trace is freed
\* while its entry is still a winner, and none outlives its last won byte.
THEOREM RefCountsCorrect == Spec => [](TcRefExact /\ MiniKept)
<1>1. RefInv => TcRefExact /\ MiniKept
  BY DEF RefInv
<1> QED BY <1>1, RefInvHolds, PTL

-----------------------------------------------------------------------------
(* Winners and favorites are calibrated entries.  The invariant says what  *)
(* the entry at hand is at each place: the one being scored is calibrated, *)
(* the one fuzz_one calibrates again is not yet, and perform_dry_run is    *)
(* ahead of every winner.                                                  *)

Held(q)  == favored[q] \/ WonBytes(q) # {}
Sound(q) == q \in Queue /\ cal_failed[q] = 0 /\ exec_cksum[q] # Nil
InDry    == pc = "dry_next" \/ (pc = "score" /\ ret = "dry_next")

HeldSound == \A q \in Entries : Held(q) => Sound(q)
AtHand ==
  /\ pc = "score" => Sound(q_arg)
  /\ pc = "recalibrate" => cal_failed[queue_cur] > 0
  /\ pc = "trim" => cal_failed[queue_cur] = 0
  /\ pc = "score" /\ ret = "trim" => q_arg = queue_cur
DryAhead ==
  /\ pc = "dry" => q_arg \in Queue /\ \A q \in Entries : Held(q) => q < q_arg
  /\ InDry => q_arg \in Queue /\ \A q \in Entries : Held(q) => q <= q_arg

FuzzInv == HeldSound /\ AtHand /\ DryAhead

\* Initially nothing is held and every seed is still ahead of perform_dry_run.
LEMMA FuzzInvInit == Init => FuzzInv
<1> SUFFICES ASSUME Init PROVE FuzzInv
  OBVIOUS
<1>1. \A q \in Entries : ~Held(q)
  BY NilTypes DEF Init, Held, WonBytes
<1>2. 0 \in Queue
  BY DEF Init, Queue
<1> QED BY <1>1, <1>2 DEF Init, FuzzInv, HeldSound, AtHand, DryAhead, InDry

\* What a calibration with at least one good run leaves in exec_cksum is a trace.
LEMMA MeasuredNotNil ==
  ASSUME TypeOK, NEW q \in Entries, NEW ck0, NEW virgin, NEW t \in Traces, NEW seen,
         seen # {}, Measure(q, ck0, virgin, t, seen)
  PROVE  exec_cksum'[q] # Nil /\ \A x \in Entries : x # q => exec_cksum'[x] = exec_cksum[x]
BY NilTypes DEF TypeOK, Measure, Traces

\* A calibration of q that succeeds keeps every other entry as it was.
LEMMA CalibratedSound ==
  ASSUME TypeInv, HeldSound, NEW q \in Entries, q \in Queue',
         NEW ck0, NEW virgin, NEW t \in Traces, NEW seen, NEW last, NEW to,
         seen # {}, Measure(q, ck0, virgin, t, seen), Calibrated(q, last, to),
         UNCHANGED <<top_rated, favored>>, Queue \subseteq Queue'
  PROVE  HeldSound' /\ Sound(q)' /\ (\A x \in Entries : Held(x)' <=> Held(x))
         /\ pc' = "score" /\ ret' = to /\ q_arg' = q
<1>1. cal_failed' = [cal_failed EXCEPT ![q] = 0] /\ cal_failed \in [Entries -> Nat]
  BY DEF Calibrated, TypeInv, TypeOK
<1>2. Sound(q)'
  BY <1>1, MeasuredNotNil DEF Sound, TypeInv
<1>3. \A x \in Entries : Held(x)' <=> Held(x)
  BY DEF Held, WonBytes
<1>4. \A x \in Entries : x # q /\ Sound(x) => Sound(x)'
  BY <1>1, MeasuredNotNil DEF Sound, TypeInv
<1> QED BY <1>2, <1>3, <1>4 DEF HeldSound, Calibrated, CallScore

\* An entry nothing holds can change in any way.
LEMMA UnheldFree ==
  ASSUME TypeInv, HeldSound, NEW q \in Entries, ~Held(q),
         \A x \in Entries : x # q /\ Sound(x) => Sound(x)',
         UNCHANGED <<top_rated, favored>>
  PROVE  HeldSound' /\ (\A x \in Entries : Held(x)' <=> Held(x))
<1>1. \A x \in Entries : Held(x)' <=> Held(x)
  BY DEF Held, WonBytes
<1> QED BY <1>1 DEF HeldSound

\* perform_dry_run only hands calibrated entries to update_bitmap_score.
LEMMA DryKeepsFuzzInv ==
  ASSUME TypeInv, FuzzInv, DryRun
  PROVE  FuzzInv'
<1> USE DEF FuzzInv
<1>0. TypeOK /\ q_arg \in Entries
  BY DEF TypeInv, TypeOK
<1>1. CASE DryCalibrate
  <2>1. PICK seen \in SUBSET behav[q_arg] : seen # {} /\ \E first, last \in seen :
          /\ Measure(q_arg, Nil, virgin_bits, first, seen)
          /\ Calibrated(q_arg, last, "dry_next")
    BY <1>1 DEF DryCalibrate
  <2>2. PICK first \in seen, last \in seen :
          /\ Measure(q_arg, Nil, virgin_bits, first, seen)
          /\ Calibrated(q_arg, last, "dry_next")
    BY <2>1
  <2>3. first \in Traces
    BY <1>0 DEF TypeOK
  <2>4. UNCHANGED <<top_rated, favored, queued_paths>> /\ q_arg \in Queue
    BY <1>1 DEF DryCalibrate, winners, culled, DryAhead
  <2>5. Queue' = Queue
    BY <2>4 DEF Queue
  <2>6. HeldSound' /\ Sound(q_arg)' /\ (\A x \in Entries : Held(x)' <=> Held(x))
        /\ pc' = "score" /\ ret' = "dry_next" /\ q_arg' = q_arg
    BY <1>0, <2>1, <2>2, <2>3, <2>4, <2>5, CalibratedSound
  <2>7. AtHand'
    BY <2>6 DEF AtHand
  <2>8. DryAhead'
    BY <1>0, <1>1, <2>4, <2>5, <2>6 DEF DryAhead, InDry, DryCalibrate, Entries
  <2> QED BY <2>6, <2>7, <2>8
<1>2. CASE DrySkip
  <2>1. q_arg \in Queue /\ ~Held(q_arg) /\ \A q \in Entries : Held(q) => q < q_arg
    BY <1>0, <1>2 DEF DrySkip, DryAhead, Entries
  <2>2. UNCHANGED <<top_rated, favored, queued_paths, q_arg>> /\ pc' = "dry_next"
    BY <1>2 DEF DrySkip, winners, culled, call
  <2>3. Queue' = Queue
    BY <2>2 DEF Queue
  <2>4. \A x \in Entries : x # q_arg => exec_cksum'[x] = exec_cksum[x]
                                       /\ cal_failed'[x] = cal_failed[x]
    BY <1>0, <1>2 DEF DrySkip, Measure, TypeOK
  <2>5. \A x \in Entries : x # q_arg /\ Sound(x) => Sound(x)'
    BY <2>3, <2>4 DEF Sound
  <2>6. HeldSound' /\ (\A x \in Entries : Held(x)' <=> Held(x))
    BY <1>0, <2>1, <2>2, <2>5, UnheldFree
  <2>7. AtHand'
    BY <2>2 DEF AtHand
  <2>8. DryAhead'
    BY <1>0, <2>1, <2>2, <2>3, <2>6 DEF DryAhead, InDry, Entries
  <2> QED BY <2>6, <2>7, <2>8
<1>3. CASE DryFatal \/ DryNext
  <2>1. UNCHANGED <<top_rated, favored, queued_paths, exec_cksum, cal_failed>>
    BY <1>3 DEF DryFatal, DryNext, winners, culled, calib
  <2>2. HeldSound' /\ \A x \in Entries : Held(x)' <=> Held(x)
    BY <2>1 DEF HeldSound, Held, Sound, WonBytes, Queue
  <2>3. \/ pc' \in {"stopped", "loop"}
        \/ pc' = "dry" /\ pc = "dry_next" /\ q_arg' = q_arg + 1 /\ q_arg + 1 < queued_paths
    BY <1>3 DEF DryFatal, DryNext
  <2>4. AtHand'
    BY <2>3 DEF AtHand
  <2>5. DryAhead'
    <3>1. CASE pc' \in {"stopped", "loop"}
      BY <3>1 DEF DryAhead, InDry
    <3>2. CASE pc' = "dry" /\ pc = "dry_next" /\ q_arg' = q_arg + 1 /\ q_arg + 1 < queued_paths
      <4>1. q_arg' \in Queue'
        BY <1>0, <2>1, <3>2 DEF Queue, Entries, TypeOK
      <4>2. \A q \in Entries : Held(q)' => q <= q_arg
        BY <2>2, <3>2 DEF DryAhead, InDry
      <4>3. \A q \in Entries : Held(q)' => q < q_arg'
        BY <1>0, <3>2, <4>2 DEF Entries
      <4> QED BY <3>2, <4>1, <4>3 DEF DryAhead, InDry
    <3> QED BY <2>3, <3>1, <3>2
  <2> QED BY <2>2, <2>4, <2>5
<1> QED BY <1>1, <1>2, <1>3 DEF DryRun

\* update_bitmap_score makes only the entry it was called with a winner.
LEMMA ScoreKeepsFuzzInv ==
  ASSUME TypeInv, FuzzInv, Score
  PROVE  FuzzInv'
<1> USE DEF FuzzInv
<1>1. CASE ScoreByte
  <2>1. TypeOK /\ q_arg \in Entries /\ scan \in Bytes /\ Sound(q_arg) /\ pc = "score"
    BY <1>1 DEF ScoreByte, TypeInv, TypeOK, AtHand
  <2>2. UNCHANGED <<favored, queued_paths, exec_cksum, cal_failed, pc, queue_cur, q_arg, ret>>
    BY <1>1 DEF ScoreByte, culled, calib, call
  <2>3. \A x \in Entries : Sound(x)' <=> Sound(x)
    BY <2>2 DEF Sound, Queue
  <2>4. \A x \in Entries : Held(x)' => x = q_arg \/ Held(x)
    <3>1. CASE Wins(q_arg, scan)
      <4>1. TakeByte(q_arg, scan)
        BY <1>1, <3>1 DEF ScoreByte
      <4> QED BY <2>1, <2>2, <4>1, WonAfterTake DEF Held
    <3>2. CASE ~Wins(q_arg, scan)
      BY <1>1, <2>2, <3>2 DEF ScoreByte, winners, Held, WonBytes
    <3> QED BY <3>1, <3>2
  <2>5. HeldSound'
    BY <2>1, <2>3, <2>4 DEF HeldSound
  <2>6. AtHand'
    BY <2>1, <2>2, <2>3 DEF AtHand
  <2>7. DryAhead'
    BY <2>1, <2>2, <2>4 DEF DryAhead, InDry, Queue, Entries
  <2> QED BY <2>5, <2>6, <2>7
<1>2. CASE ScoreReturn
  <2>1. UNCHANGED <<top_rated, favored, queued_paths, exec_cksum, cal_failed, queue_cur>>
        /\ pc = "score" /\ pc' = ret /\ ret' = ret
    BY <1>2 DEF ScoreReturn, winners, culled, calib
  <2>2. HeldSound' /\ \A x \in Entries : Held(x)' <=> Held(x)
    BY <2>1 DEF HeldSound, Held, Sound, WonBytes, Queue
  <2>3. ret \in {"dry_next", "trim", "havoc"}
    BY DEF TypeInv, TypeOK
  <2>4. AtHand'
    BY <2>1, <2>3 DEF AtHand, Sound
  <2>5. ret = "dry_next" => q_arg' = q_arg
    BY <1>2 DEF ScoreReturn
  <2>6. DryAhead'
    BY <2>1, <2>2, <2>3, <2>5 DEF DryAhead, InDry, Queue
  <2> QED BY <2>2, <2>4, <2>6
<1> QED BY <1>1, <1>2 DEF Score

\* cull_queue favors only winners.
LEMMA CullKeepsFuzzInv ==
  ASSUME TypeInv, FuzzInv, Cull
  PROVE  FuzzInv'
<1> USE DEF FuzzInv
<1>1. UNCHANGED <<top_rated, queued_paths, exec_cksum, cal_failed>>
  BY DEF Cull, CullBegin, CullByte, CullReturn, winners, calib
<1>2. pc' \in {"cull", "turn"}
  BY DEF Cull, CullBegin, CullByte, CullReturn
<1>3. \A x \in Entries : Sound(x)' <=> Sound(x)
  BY <1>1 DEF Sound, Queue
<1>4. \A x \in Entries : Held(x)' => Held(x)
  <2>1. CASE CullByte
    <3>1. \/ favored' = favored
          \/ top_rated[scan] # Nil /\ favored' = [favored EXCEPT ![top_rated[scan]] = TRUE]
      BY <2>1 DEF CullByte, Grabbed, culled
    <3>2. scan \in Bytes /\ favored \in [Entries -> BOOLEAN]
      BY <2>1 DEF CullByte, TypeInv, TypeOK
    <3>3. \A x \in Entries : favored'[x] => favored[x] \/ top_rated[scan] = x
      BY <3>1, <3>2, Zenon
    <3> QED BY <1>1, <3>2, <3>3 DEF Held, WonBytes
  <2>2. CASE CullBegin
    <3>1. \A x \in Entries : ~favored'[x]
      BY <2>2, Zenon DEF CullBegin
    <3> QED BY <1>1, <3>1 DEF Held, WonBytes
  <2>3. CASE CullReturn
    BY <1>1, <2>3 DEF CullReturn, Held, WonBytes
  <2> QED BY <2>1, <2>2, <2>3 DEF Cull
<1> QED BY <1>2, <1>3, <1>4 DEF HeldSound, AtHand, DryAhead, InDry

\* Picking, keeping and abandoning an entry do not touch calibrations.
LEMMA TurnKeepsFuzzInv ==
  ASSUME TypeInv, FuzzInv, SkipEntry \/ PsoTurn \/ EnterFuzz \/ TrimKeep \/ Abandon
  PROVE  FuzzInv'
<1>1. UNCHANGED <<top_rated, favored, queued_paths, exec_cksum, cal_failed>>
  BY DEF SkipEntry, PsoTurn, EnterFuzz, TrimKeep, Abandon, winners, culled, calib
<1>2. \A x \in Entries : (Held(x)' <=> Held(x)) /\ (Sound(x)' <=> Sound(x))
  BY <1>1 DEF Held, Sound, WonBytes, Queue
<1>3. \/ pc' \in {"stopped", "loop", "havoc", "abandon"}
      \/ EnterFuzz
  BY DEF SkipEntry, PsoTurn, TrimKeep, Abandon, Advance
<1>4. EnterFuzz => /\ queue_cur' = queue_cur
                   /\ \/ pc' = "trim" /\ cal_failed[queue_cur] = 0
                      \/ pc' = "recalibrate" /\ cal_failed[queue_cur] # 0
                      \/ pc' = "abandon"
  BY DEF EnterFuzz
<1>5. EnterFuzz => cal_failed[queue_cur] \in Nat
  BY QueueTypes DEF EnterFuzz, TypeInv, TypeOK, CurInv, InFuzzOne
<1>6. AtHand'
  BY <1>1, <1>3, <1>4, <1>5 DEF AtHand
<1>7. DryAhead'
  BY <1>3, <1>4 DEF DryAhead, InDry
<1> QED BY <1>2, <1>6, <1>7 DEF FuzzInv, HeldSound

\* A second calibration is only ever made of an entry nothing holds.
LEMMA RunKeepsFuzzInv ==
  ASSUME TypeInv, FuzzInv, Recalibrate \/ RecalibrateFails \/ TrimWrite
  PROVE  FuzzInv'
<1> USE DEF FuzzInv
<1> DEFINE q == queue_cur
<1>0. /\ TypeOK /\ q \in Queue /\ q \in Entries /\ behav[q] \in SUBSET Traces
      /\ cal_failed \in [Entries -> Nat]
  <2>1. q \in Queue
    BY DEF Recalibrate, RecalibrateFails, TrimWrite, TypeInv, CurInv, InFuzzOne
  <2> QED BY <2>1, QueueTypes DEF TypeInv, TypeOK
<1>1. UNCHANGED <<top_rated, favored, queued_paths, queue_cur>> /\ Queue' = Queue
  BY DEF Recalibrate, RecalibrateFails, TrimWrite, winners, culled, Queue
<1>2. CASE Recalibrate
  <2>1. PICK stale \in Traces, seen \in SUBSET behav[q] : seen # {} /\ \E last \in seen :
          /\ Measure(q, exec_cksum[q], virgin_bits, stale, seen)
          /\ Calibrated(q, last, "trim")
    BY <1>2 DEF Recalibrate
  <2>2. PICK last \in seen : /\ Measure(q, exec_cksum[q], virgin_bits, stale, seen)
                             /\ Calibrated(q, last, "trim")
    BY <2>1
  <2>3. HeldSound' /\ Sound(q)' /\ pc' = "score" /\ ret' = "trim" /\ q_arg' = q
    BY <1>0, <1>1, <2>1, <2>2, CalibratedSound
  <2>4. AtHand' /\ DryAhead'
    BY <1>1, <2>3 DEF AtHand, DryAhead, InDry
  <2> QED BY <2>3, <2>4
<1>3. CASE RecalibrateFails
  <2>1. cal_failed[q] > 0 /\ ~Sound(q) /\ ~Held(q)
    BY <1>0, <1>3 DEF RecalibrateFails, AtHand, HeldSound, Sound
  <2>2. \A x \in Entries : x # q => exec_cksum'[x] = exec_cksum[x]
                                 /\ cal_failed'[x] = cal_failed[x]
    BY <1>0, <1>3 DEF RecalibrateFails, Measure, CalFailed, TypeOK
  <2>3. \A x \in Entries : x # q /\ Sound(x) => Sound(x)'
    BY <1>1, <2>2 DEF Sound
  <2>4. HeldSound'
    BY <1>0, <1>1, <2>1, <2>3, UnheldFree
  <2>5. pc' = "abandon"
    BY <1>3 DEF RecalibrateFails
  <2> QED BY <2>4, <2>5 DEF AtHand, DryAhead, InDry
<1>4. CASE TrimWrite
  <2>1. UNCHANGED <<exec_cksum, cal_failed>> /\ pc' = "score" /\ ret' = "havoc" /\ q_arg' = q
    BY <1>4 DEF TrimWrite, calib, CallScore
  <2>2. exec_cksum[q] # Nil
    BY <1>4, BehaviourTypes, NilTypes DEF TrimWrite, Traces
  <2>3. Sound(q)
    BY <1>0, <1>4, <2>2 DEF TrimWrite, Sound, AtHand
  <2>4. \A x \in Entries : (Held(x)' <=> Held(x)) /\ (Sound(x)' <=> Sound(x))
    BY <1>1, <2>1 DEF Held, Sound, WonBytes
  <2>5. AtHand' /\ DryAhead'
    BY <1>0, <2>1, <2>3, <2>4 DEF AtHand, DryAhead, InDry
  <2> QED BY <2>4, <2>5 DEF HeldSound
<1> QED BY <1>2, <1>3, <1>4

\* A discovered entry is new: nothing holds it yet.
LEMMA FindKeepsFuzzInv ==
  ASSUME TypeInv, FuzzInv, FindNew \/ FindNewFails
  PROVE  FuzzInv'
<1> USE DEF FuzzInv
<1>0. PICK n : n = queued_paths   \* the new entry, whatever queued_paths becomes
  OBVIOUS
<1>1. PICK B \in Behaviours, p \in PointerScores :
        \E t0 \in B, seen \in SUBSET B :
          /\ Discover(B, t0, p, seen)
          /\ \/ seen # {} /\ \E last \in seen : Calibrated(n, last, "havoc")
             \/ CalFailed(n) /\ UNCHANGED <<pc, scan, call>>
  BY <1>0 DEF FindNew, FindNewFails
<1>2. PICK t0 \in B, seen \in SUBSET B :
        /\ Discover(B, t0, p, seen)
        /\ \/ seen # {} /\ \E last \in seen : Calibrated(n, last, "havoc")
           \/ CalFailed(n) /\ UNCHANGED <<pc, scan, call>>
  BY <1>1
<1>3. n \in Entries /\ t0 \in Traces /\ TypeOK /\ n \in Nat
  BY <1>0, <1>2, DiscoverTypes DEF TypeInv, TypeOK
<1>4. /\ UNCHANGED <<top_rated, favored>> /\ queued_paths' = n + 1 /\ pc = "havoc"
      /\ Measure(n, t0, virgin_bits \ t0, t0, seen)
  BY <1>0, <1>2 DEF Discover, winners, culled
<1>5. n \notin Queue /\ n \in Queue' /\ Queue \subseteq Queue'
  BY <1>0, <1>3, <1>4 DEF Queue
<1>6. CASE seen # {} /\ \E last \in seen : Calibrated(n, last, "havoc")
  <2>1. HeldSound' /\ Sound(n)' /\ pc' = "score" /\ ret' = "havoc" /\ q_arg' = n
    BY <1>3, <1>4, <1>5, <1>6, CalibratedSound
  <2>2. AtHand' /\ DryAhead'
    BY <2>1 DEF AtHand, DryAhead, InDry
  <2> QED BY <2>1, <2>2
<1>7. CASE CalFailed(n) /\ UNCHANGED <<pc, scan, call>>
  <2>1. ~Held(n)
    BY <1>3, <1>5 DEF HeldSound, Sound
  <2>2. \A x \in Entries : x # n => exec_cksum'[x] = exec_cksum[x]
                                 /\ cal_failed'[x] = cal_failed[x]
    BY <1>3, <1>4, <1>7 DEF Measure, CalFailed, TypeOK
  <2>3. \A x \in Entries : x # n /\ Sound(x) => Sound(x)'
    BY <1>5, <2>2 DEF Sound
  <2>4. HeldSound'
    BY <1>3, <1>4, <2>1, <2>3, UnheldFree
  <2>5. pc' = "havoc"
    BY <1>4, <1>7
  <2> QED BY <2>4, <2>5 DEF AtHand, DryAhead, InDry
<1> QED BY <1>2, <1>6, <1>7

\* Ctrl-C changes nothing an entry is held by.
LEMMA StopKeepsFuzzInv ==
  ASSUME FuzzInv, Stop \/ Leave \/ UNCHANGED vars
  PROVE  FuzzInv'
<1>1. UNCHANGED <<top_rated, favored, queued_paths, exec_cksum, cal_failed, queue_cur,
                  q_arg, ret>>
  BY DEF Stop, Leave, vars, winners, culled, calib, call
<1>2. pc' = pc \/ pc' = "stopped"
  BY DEF Stop, Leave, vars
<1> QED BY <1>1, <1>2 DEF FuzzInv, HeldSound, Held, Sound, WonBytes, Queue, AtHand,
            DryAhead, InDry

\* FuzzInv holds throughout.
LEMMA FuzzInvHolds == Spec => []FuzzInv
<1>1. TypeInv /\ FuzzInv /\ [Next]_vars => FuzzInv'
  BY DryKeepsFuzzInv, ScoreKeepsFuzzInv, CullKeepsFuzzInv, TurnKeepsFuzzInv,
     RunKeepsFuzzInv, FindKeepsFuzzInv, StopKeepsFuzzInv DEF Next, FuzzOne, Terminating
<1> QED BY <1>1, FuzzInvInit, TypeInvHolds, PTL DEF Spec

\* An entry that is favored, or the winner of a byte, is queued and its
\* calibration succeeded: fuzz_one will not give up on it, so a positive
\* pending_favored always has an entry that can bring it down.
THEOREM FavoredAreFuzzable == Spec => []FavoredIsFuzzable
<1>1. FuzzInv => FavoredIsFuzzable
  BY DEF FuzzInv, HeldSound, Held, Sound, FavoredIsFuzzable
<1> QED BY <1>1, FuzzInvHolds, PTL

-----------------------------------------------------------------------------
(* The favored entries: PendingCountersExact, FavoredCover and                  *)
(* CalibratedBytesWon.                                                          *)

\* fuzz_one, or a function it called, is working on queue_cur.
Busy == \/ pc \in {"recalibrate", "trim", "havoc", "abandon"}
        \/ pc = "score" /\ ret # "dry_next"

\* An entry fuzz_one has not been through, and is not working on.
Waiting(q) == ~was_fuzzed[q] /\ pc # "stopped" /\ ~(Busy /\ q = queue_cur)

\* Such an entry was scored once, by the trace it keeps: it keeps all the bytes
\* it won, and while it is scored, what it keeps is the trace at hand.
ScoredOnce ==
  \A q \in Entries : Waiting(q) =>
    /\ \A b \in WonBytes(q) : b \in trace_mini[q]
    /\ pc = "score" /\ q = q_arg => trace_mini[q] \in {Nil, trace_bits}

\* What is favored so far covers none of the bytes still to be covered, so that
\* no byte is grabbed for it again.
CullInv ==
  pc = "cull" =>
    \A q \in Entries : favored[q] => trace_mini[q] # Nil /\ trace_mini[q] \cap temp_v = {}

\* The entries the two counters count.
Pending == {q \in Entries : favored[q] /\ ~was_fuzzed[q]}
Unfuzzed == {q \in Queue : ~was_fuzzed[q]}

\* The counters, and what makes a new entry count as not fuzzed.
PendingInv ==
  /\ \A q \in Entries \ Queue : ~was_fuzzed[q]
  /\ pending_favored = Cardinality(Pending)
  /\ pending_not_fuzzed = Cardinality(Unfuzzed)

\* What FuzzQueueProofs has shown.
CoreInv == TypeInv /\ RefInv /\ FuzzInv

\* CoreInv holds throughout.
LEMMA CoreInvHolds == Spec => []CoreInv
BY TypeInvHolds, RefInvHolds, FuzzInvHolds, PTL DEF CoreInv

-----------------------------------------------------------------------------
(* The counters.                                                           *)

\* The compacted traces after q took byte b: q has one, the others keep theirs
\* or lose it with their last byte.
LEMMA MinisAfterTake ==
  ASSUME TypeOK, RefInv, NEW q \in Entries, NEW b \in Bytes, TakeByte(q, b)
  PROVE  /\ trace_mini'[q] \in {trace_mini[q], trace_bits} \ {Nil}
         /\ \A x \in Entries : /\ x # q => trace_mini'[x] \in {Nil, trace_mini[x]}
                               /\ x # q /\ WonBytes(x)' # {} => trace_mini'[x] = trace_mini[x]
<1>1. /\ trace_mini \in [Entries -> (SUBSET Bytes) \cup {Nil}]
      /\ top_rated[b] \in Entries \cup {Nil} /\ trace_bits \in SUBSET Bytes
  BY DEF TypeOK
<1>2. MiniKept'
  BY TakeKeepsMinis
<1>3. MinisLeft(b) \in [Entries -> (SUBSET Bytes) \cup {Nil}]
      /\ \A x \in Entries : MinisLeft(b)[x] \in {Nil, trace_mini[x]}
  BY <1>1 DEF MinisLeft
<1>4. trace_mini' = IF MinisLeft(b)[q] = Nil
                    THEN [MinisLeft(b) EXCEPT ![q] = trace_bits] ELSE MinisLeft(b)
  BY DEF TakeByte
<1>5. trace_mini'[q] \in {trace_mini[q], trace_bits} /\ trace_mini'[q] # Nil
  BY <1>1, <1>3, <1>4, NilTypes
<1>6. \A x \in Entries : x # q => trace_mini'[x] \in {Nil, trace_mini[x]}
  BY <1>3, <1>4
<1>7. \A x \in Entries : x # q /\ WonBytes(x)' # {} => trace_mini'[x] = trace_mini[x]
  BY <1>2, <1>6 DEF MiniKept
<1> QED BY <1>5, <1>6, <1>7

\* An entry that is scored the first time wins bytes of the trace it keeps.
LEMMA ScoreByteOnce ==
  ASSUME CoreInv, ScoredOnce, ScoreByte, Wins(q_arg, scan)
  PROVE  ScoredOnce'
<1>1. TakeByte(q_arg, scan) /\ TypeOK /\ RefInv /\ q_arg \in Entries /\ scan \in Bytes
      /\ scan \in trace_bits
  BY DEF ScoreByte, CoreInv, TypeInv, TypeOK, Wins
<1>2. UNCHANGED <<was_fuzzed, pc, ret, queue_cur, q_arg, trace_bits>>
  BY DEF ScoreByte, fuzzed, call
<1>3. SUFFICES ASSUME NEW x \in Entries, Waiting(x)'
               PROVE  /\ \A b \in WonBytes(x)' : b \in trace_mini'[x]
                      /\ x = q_arg => trace_mini'[x] \in {Nil, trace_bits}
  BY <1>2 DEF ScoredOnce
<1>4. Waiting(x)
  BY <1>2, <1>3 DEF Waiting, Busy
<1>5. \A b \in WonBytes(x) : b \in trace_mini[x]
  BY <1>4 DEF ScoredOnce
<1>6. WonBytes(x)' = IF x = q_arg THEN WonBytes(x) \cup {scan} ELSE WonBytes(x) \ {scan}
  BY <1>1, WonAfterTake
<1>7. CASE x = q_arg
  <2>1. trace_mini[x] \in {Nil, trace_bits}
    BY <1>4, <1>7 DEF ScoredOnce, ScoreByte
  <2>2. trace_mini'[x] = trace_bits
    BY <1>1, <1>7, <2>1, MinisAfterTake
  <2>3. WonBytes(x) # {} => trace_mini[x] # Nil
    BY <1>1 DEF RefInv, MiniKept
  <2> QED BY <1>1, <1>5, <1>6, <1>7, <2>1, <2>2, <2>3
<1>8. CASE x # q_arg
  <2>1. WonBytes(x)' # {} => trace_mini'[x] = trace_mini[x]
    BY <1>1, <1>8, MinisAfterTake
  <2> QED BY <1>5, <1>6, <1>8, <2>1
<1> QED BY <1>7, <1>8

\* What a step does to the entries that wait for fuzz_one: only one that holds
\* nothing starts to wait, or to be scored.
WaitsAgain(x) == \/ WonBytes(x) = {}
                 \/ /\ Waiting(x)
                    /\ pc' = "score" /\ x = q_arg' =>
                         pc = "score" /\ x = q_arg /\ trace_bits' = trace_bits

\* ScoredOnce survives a step that takes no byte and lets only entries without
\* bytes start to wait or to be scored.
LEMMA OthersOnce ==
  ASSUME CoreInv, ScoredOnce, UNCHANGED <<top_rated, trace_mini>>,
         \A x \in Entries : Waiting(x)' => WaitsAgain(x)
  PROVE  ScoredOnce'
<1>1. SUFFICES ASSUME NEW x \in Entries, Waiting(x)'
               PROVE  /\ \A b \in WonBytes(x)' : b \in trace_mini'[x]
                      /\ pc' = "score" /\ x = q_arg' => trace_mini'[x] \in {Nil, trace_bits'}
  BY DEF ScoredOnce
<1>2. WonBytes(x)' = WonBytes(x)
  BY DEF WonBytes
<1>3. CASE WonBytes(x) = {}
  BY <1>2, <1>3 DEF CoreInv, RefInv, MiniKept
<1>4. CASE WonBytes(x) # {}
  <2>1. /\ Waiting(x)
        /\ pc' = "score" /\ x = q_arg' =>
             pc = "score" /\ x = q_arg /\ trace_bits' = trace_bits
    BY <1>1, <1>4 DEF WaitsAgain
  <2> QED BY <1>2, <2>1 DEF ScoredOnce
<1> QED BY <1>3, <1>4

\* perform_dry_run scores entries that have no bytes yet.
LEMMA DryOnce ==
  ASSUME CoreInv, ScoredOnce, DryRun
  PROVE  ScoredOnce'
<1>1. UNCHANGED <<top_rated, trace_mini, was_fuzzed>>
  BY DEF DryRun, DryCalibrate, DrySkip, DryFatal, DryNext, winners, fuzzed
<1>2. pc \in {"dry", "dry_next"}
  BY DEF DryRun, DryCalibrate, DrySkip, DryFatal, DryNext
<1>3. \A x \in Entries : Waiting(x)' => Waiting(x)
  BY <1>1, <1>2 DEF Waiting, Busy
<1>4. CASE DryCalibrate
  <2>1. q_arg' = q_arg
    BY <1>4 DEF DryCalibrate, Calibrated, CallScore
  <2>2. \A x \in Entries : x = q_arg => WonBytes(x) = {}
    BY <1>4 DEF DryCalibrate, CoreInv, FuzzInv, DryAhead, Held, TypeInv, TypeOK, Entries
  <2> QED BY <1>1, <1>3, <2>1, <2>2, OthersOnce DEF WaitsAgain
<1>5. CASE ~DryCalibrate
  <2>1. pc' # "score"
    BY <1>5 DEF DryRun, DrySkip, DryFatal, DryNext
  <2> QED BY <1>1, <1>3, <2>1, OthersOnce DEF WaitsAgain
<1> QED BY <1>4, <1>5

\* fuzz_one scores the entry it works on, or a new one; it leaves an entry
\* unfuzzed only when its calibration failed, or the program stops.
LEMMA FuzzOneOnce ==
  ASSUME CoreInv, ScoredOnce, FuzzOne
  PROVE  ScoredOnce'
<1>1. UNCHANGED <<top_rated, trace_mini>>
  BY DEF FuzzOne, SkipEntry, PsoTurn, EnterFuzz, Recalibrate, RecalibrateFails, TrimKeep,
         TrimWrite, FindNew, FindNewFails, Discover, Abandon, winners
<1>2. CASE SkipEntry \/ PsoTurn \/ EnterFuzz
  <2>1. UNCHANGED was_fuzzed /\ pc = "turn" /\ pc' # "score"
    BY <1>2 DEF SkipEntry, PsoTurn, EnterFuzz, Advance, fuzzed
  <2>2. \A x \in Entries : Waiting(x)' => Waiting(x)
    BY <2>1 DEF Waiting, Busy
  <2> QED BY <1>1, <2>1, <2>2, OthersOnce DEF WaitsAgain
<1>3. CASE Recalibrate \/ RecalibrateFails \/ TrimKeep \/ TrimWrite
  <2>1. UNCHANGED <<was_fuzzed, queue_cur>> /\ Busy /\ Busy' /\ pc # "stopped"
    BY <1>3 DEF Recalibrate, RecalibrateFails, TrimKeep, TrimWrite, Busy, Calibrated,
                CallScore, fuzzed
  <2>2. pc' = "score" => q_arg' = queue_cur
    BY <1>3 DEF Recalibrate, RecalibrateFails, TrimKeep, TrimWrite, Calibrated, CallScore
  <2>3. \A x \in Entries : Waiting(x)' => Waiting(x) /\ x # queue_cur
    BY <2>1 DEF Waiting
  <2> QED BY <1>1, <2>2, <2>3, OthersOnce DEF WaitsAgain
<1>4. CASE FindNew \/ FindNewFails
  <2>1. UNCHANGED <<was_fuzzed, queue_cur>> /\ pc = "havoc"
    BY <1>4 DEF FindNew, FindNewFails, Discover, fuzzed
  <2>2. \/ pc' = "score" /\ ret' = "havoc" /\ q_arg' = queued_paths
        \/ pc' = "havoc"
    BY <1>4, <2>1 DEF FindNew, FindNewFails, Calibrated, CallScore
  <2>3. \A x \in Entries : x = queued_paths => WonBytes(x) = {}
    <3>1. queued_paths \in Nat
      BY DEF CoreInv, TypeInv, TypeOK
    <3>2. queued_paths \notin Queue
      BY <3>1 DEF Queue
    <3> QED BY <3>2 DEF CoreInv, FuzzInv, HeldSound, Held, Sound
  <2>4. \A x \in Entries : Waiting(x)' => Waiting(x)
    BY <2>1, <2>2 DEF Waiting, Busy
  <2> QED BY <1>1, <2>2, <2>3, <2>4, OthersOnce DEF WaitsAgain
<1>5. CASE Abandon
  <2>1. pc' # "score" /\ Busy /\ pc' = (IF stop_soon THEN "stopped" ELSE "loop")
    BY <1>5 DEF Abandon, Advance, Busy
  <2>2. queue_cur \in Entries /\ was_fuzzed \in [Entries -> BOOLEAN]
    BY <2>1, QueueTypes DEF CoreInv, TypeInv, TypeOK, CurInv, InFuzzOne, Busy
  <2>3. \/ FirstPass(queue_cur) /\ was_fuzzed' = [was_fuzzed EXCEPT ![queue_cur] = TRUE]
        \/ ~FirstPass(queue_cur) /\ was_fuzzed' = was_fuzzed
    BY <1>5 DEF Abandon, MarkFuzzed, fuzzed
  <2>4. \A x \in Entries : ~was_fuzzed'[x] =>
          ~was_fuzzed[x] /\ (x = queue_cur => ~FirstPass(x))
    BY <2>2, <2>3, Zenon
  <2>5. ASSUME NEW x \in Entries, Waiting(x)'
        PROVE  WonBytes(x) = {} \/ Waiting(x)
    <3>1. ~stop_soon /\ ~was_fuzzed[x] /\ (x = queue_cur => ~FirstPass(x))
      BY <2>1, <2>4, <2>5 DEF Waiting
    <3>2. CASE x = queue_cur
      <4>1. cal_failed[x] # 0
        BY <3>1, <3>2 DEF FirstPass
      <4> QED BY <4>1 DEF CoreInv, FuzzInv, HeldSound, Held, Sound
    <3>3. CASE x # queue_cur
      BY <2>1, <3>1, <3>3 DEF Waiting, Busy
    <3> QED BY <3>2, <3>3
  <2> QED BY <1>1, <2>1, <2>5, OthersOnce DEF WaitsAgain
<1> QED BY <1>2, <1>3, <1>4, <1>5 DEF FuzzOne

\* ScoredOnce is inductive.
LEMMA NextOnce == CoreInv /\ ScoredOnce /\ [Next]_vars => ScoredOnce'
<1> SUFFICES ASSUME CoreInv, ScoredOnce, [Next]_vars PROVE ScoredOnce'
  OBVIOUS
<1>1. CASE Score
  <2>1. CASE ScoreByte /\ Wins(q_arg, scan)
    BY <2>1, ScoreByteOnce
  <2>2. CASE ScoreByte /\ ~Wins(q_arg, scan)
    <3>1. UNCHANGED <<top_rated, trace_mini, was_fuzzed, pc, ret, queue_cur, q_arg, trace_bits>>
      BY <2>2 DEF ScoreByte, winners, fuzzed, call
    <3>2. \A x \in Entries : Waiting(x)' => Waiting(x)
      BY <3>1 DEF Waiting, Busy
    <3> QED BY <3>1, <3>2, OthersOnce DEF WaitsAgain
  <2>3. CASE ScoreReturn
    <3>1. UNCHANGED <<top_rated, trace_mini, was_fuzzed, queue_cur>> /\ pc = "score"
          /\ pc' = ret /\ ret \in {"dry_next", "trim", "havoc"}
      BY <2>3 DEF ScoreReturn, winners, fuzzed, CoreInv, TypeInv, TypeOK
    <3>2. \A x \in Entries : Waiting(x)' => Waiting(x)
      BY <3>1 DEF Waiting, Busy
    <3> QED BY <3>1, <3>2, OthersOnce DEF WaitsAgain
  <2> QED BY <1>1, <2>1, <2>2, <2>3 DEF Score
<1>2. CASE Cull
  <2>1. UNCHANGED <<top_rated, trace_mini, was_fuzzed>> /\ pc \in {"loop", "cull"}
        /\ pc' \in {"cull", "turn"}
    BY <1>2 DEF Cull, CullBegin, CullByte, CullReturn, winners, fuzzed
  <2>2. \A x \in Entries : Waiting(x)' => Waiting(x)
    BY <2>1 DEF Waiting, Busy
  <2> QED BY <2>1, <2>2, OthersOnce DEF WaitsAgain
<1>3. CASE Stop \/ Leave \/ Terminating \/ UNCHANGED vars
  <2>1. UNCHANGED <<top_rated, trace_mini, was_fuzzed, queue_cur, ret, q_arg, trace_bits>>
        /\ (pc' = pc \/ pc' = "stopped")
    BY <1>3 DEF Stop, Leave, Terminating, vars, winners, fuzzed, call
  <2>2. \A x \in Entries : Waiting(x)' => Waiting(x) /\ pc' = pc
    BY <2>1 DEF Waiting, Busy
  <2> QED BY <2>1, <2>2, OthersOnce DEF WaitsAgain
<1> QED BY <1>1, <1>2, <1>3, DryOnce, FuzzOneOnce DEF Next

\* Initially nothing is won.
LEMMA InitOnce == Init => ScoredOnce
BY NilTypes DEF Init, ScoredOnce, WonBytes, Waiting

\* cull_queue takes what a new favorite covers off temp_v.
LEMMA NextCull == CoreInv /\ CullInv /\ [Next]_vars => CullInv'
<1> SUFFICES ASSUME CoreInv, CullInv, [Next]_vars, pc' = "cull"
             PROVE  \A q \in Entries :
                      favored'[q] => trace_mini'[q] # Nil /\ trace_mini'[q] \cap temp_v' = {}
  BY DEF CullInv
<1>1. CASE CullBegin
  BY <1>1, Zenon DEF CullBegin
<1>2. CASE CullByte /\ Grabbed(scan)
  <2>1. /\ temp_v' = temp_v \ trace_mini[top_rated[scan]]
        /\ favored' = [favored EXCEPT ![top_rated[scan]] = TRUE]
        /\ trace_mini' = trace_mini /\ pc = "cull"
    BY <1>2 DEF CullByte, winners
  <2>2. top_rated[scan] \in Entries /\ favored \in [Entries -> BOOLEAN]
    BY <1>2 DEF CullByte, Grabbed, CoreInv, TypeInv, TypeOK
  <2>3. WonBytes(top_rated[scan]) # {}
    BY <1>2 DEF CullByte, WonBytes
  <2>4. trace_mini[top_rated[scan]] # Nil
    BY <2>2, <2>3 DEF CoreInv, RefInv, MiniKept
  <2>5. \A q \in Entries : favored'[q] => favored[q] \/ q = top_rated[scan]
    BY <2>1, <2>2, Zenon
  <2> QED BY <2>1, <2>4, <2>5 DEF CullInv
<1>3. CASE ~CullBegin /\ ~(CullByte /\ Grabbed(scan))
  <2>1. UNCHANGED <<favored, trace_mini, temp_v>> /\ pc = "cull"
    <3>1. CASE CullByte
      BY <1>3, <3>1 DEF CullByte, winners, culled
    <3>2. CASE Stop \/ UNCHANGED vars \/ Terminating
      BY <3>2 DEF Stop, Terminating, vars, winners, culled
    <3>3. CASE ScoreReturn
      BY <3>3 DEF ScoreReturn, CoreInv, TypeInv, TypeOK
    <3>4. CASE ScoreByte \/ Leave \/ CullReturn \/ DryRun \/ FuzzOne
      BY <3>4 DEF ScoreByte, Leave, CullReturn, DryRun, DryCalibrate, DrySkip, DryFatal,
           DryNext, FuzzOne, SkipEntry, PsoTurn, EnterFuzz, Recalibrate, RecalibrateFails,
           TrimKeep, TrimWrite, FindNew, FindNewFails, Discover, Abandon, Advance,
           Calibrated, CallScore
    <3> QED BY <1>3, <3>1, <3>2, <3>3, <3>4 DEF Next, Score, Cull
  <2> QED BY <2>1 DEF CullInv
<1> QED BY <1>1, <1>2, <1>3

\* Sets of entries can be counted.
LEMMA EntriesFinite ==
  /\ IsFiniteSet(Entries)
  /\ \A S \in SUBSET Entries : IsFiniteSet(S) /\ Cardinality(S) \in Nat
<1>1. IsFiniteSet(Entries)
  BY FS_Interval DEF Entries
<1> QED BY <1>1, FS_Subset, FS_CardinalityType

\* read_testcases has counted the seeds; nothing is favored.
LEMMA InitPending == Init => PendingInv /\ CullInv
<1> SUFFICES ASSUME Init PROVE PendingInv /\ CullInv
  OBVIOUS
<1>1. \A q \in Entries : ~was_fuzzed[q] /\ ~favored[q]
  BY Zenon DEF Init
<1>2. queued_paths \in 1 .. MaxEntries /\ Queue \subseteq Entries
  BY DEF Init, Queue, Entries
<1>3. Pending = {} /\ Unfuzzed = 0 .. queued_paths - 1
  BY <1>1, <1>2 DEF Pending, Unfuzzed, Queue
<1>4. Cardinality(Pending) = 0
  BY <1>3, FS_EmptySet
<1>5. Cardinality(0 .. queued_paths - 1) = queued_paths
  BY <1>2, FS_Interval
<1> QED BY <1>1, <1>3, <1>4, <1>5 DEF Init, PendingInv, CullInv

\* The counters stay exact: cull_queue counts a favorite once, fuzz_one takes an
\* entry off both, a discovery is added to one.
LEMMA NextPending ==
  CoreInv /\ ScoredOnce /\ CullInv /\ PendingInv /\ [Next]_vars => PendingInv'
<1> SUFFICES ASSUME CoreInv, ScoredOnce, CullInv, PendingInv, [Next]_vars
             PROVE  PendingInv'
  OBVIOUS
<1>0. /\ TypeOK /\ Queue \subseteq Entries /\ favored \in [Entries -> BOOLEAN]
      /\ was_fuzzed \in [Entries -> BOOLEAN] /\ queued_paths \in Nat
      /\ pending_favored \in Int /\ pending_not_fuzzed \in Int
  BY QueueTypes DEF CoreInv, TypeInv, TypeOK
<1>1. CASE CullBegin
  <2>1. /\ UNCHANGED <<was_fuzzed, queued_paths, pending_not_fuzzed>>
        /\ pending_favored' = 0
    BY <1>1 DEF CullBegin
  <2>2. \A q \in Entries : ~favored'[q]
    BY <1>1, Zenon DEF CullBegin
  <2>3. Pending' = {} /\ Unfuzzed' = Unfuzzed
    BY <2>1, <2>2 DEF Pending, Unfuzzed, Queue
  <2>4. Cardinality(Pending') = 0
    BY <2>3, FS_EmptySet
  <2> QED BY <2>1, <2>3, <2>4 DEF PendingInv, Queue
<1>2. CASE CullByte /\ Grabbed(scan)
  <2> DEFINE w == top_rated[scan]
  <2>1. /\ favored' = [favored EXCEPT ![w] = TRUE] /\ pc = "cull" /\ scan \in Bytes
        /\ pending_favored' = pending_favored + (IF was_fuzzed[w] THEN 0 ELSE 1)
        /\ UNCHANGED <<was_fuzzed, pending_not_fuzzed, queued_paths>>
        /\ scan \in temp_v
    BY <1>2 DEF CullByte, Grabbed
  <2>2. w \in Entries /\ scan \in WonBytes(w)
    BY <1>0, <1>2, <2>1 DEF Grabbed, WonBytes, TypeOK
  <2>3. \A q \in Entries : favored'[q] <=> favored[q] \/ q = w
    BY <1>0, <2>1, <2>2, Zenon
  <2>4. Unfuzzed' = Unfuzzed
    BY <2>1 DEF Unfuzzed, Queue
  <2>5. CASE was_fuzzed[w]
    <3>1. Pending' = Pending
      BY <2>1, <2>3, <2>5 DEF Pending
    <3> QED BY <1>0, <2>1, <2>4, <2>5, <3>1 DEF PendingInv, Queue
  <2>6. CASE ~was_fuzzed[w]
    <3>1. Waiting(w)
      BY <2>1, <2>6 DEF Waiting, Busy
    <3>2. scan \in trace_mini[w]
      BY <2>2, <3>1 DEF ScoredOnce
    <3>3. ~favored[w]
      BY <2>1, <2>2, <3>2 DEF CullInv
    <3>4. Pending' = Pending \cup {w} /\ w \notin Pending /\ Pending \subseteq Entries
      BY <2>1, <2>2, <2>3, <2>6, <3>3 DEF Pending
    <3>5. Cardinality(Pending') = Cardinality(Pending) + 1
      BY <3>4, EntriesFinite, FS_AddElement
    <3> QED BY <1>0, <2>1, <2>4, <2>6, <3>5 DEF PendingInv, Queue
  <2> QED BY <2>5, <2>6
<1>3. CASE Abandon /\ FirstPass(queue_cur)
  <2> DEFINE w == queue_cur
  <2>1. /\ was_fuzzed' = [was_fuzzed EXCEPT ![w] = TRUE]
        /\ pending_not_fuzzed' = pending_not_fuzzed - 1
        /\ pending_favored' = pending_favored - (IF favored[w] THEN 1 ELSE 0)
        /\ UNCHANGED <<favored, queued_paths>>
    BY <1>3 DEF Abandon, MarkFuzzed, culled
  <2>2. w \in Queue /\ ~was_fuzzed[w]
    BY <1>3 DEF Abandon, FirstPass, CoreInv, TypeInv, CurInv, InFuzzOne
  <2>3. \A q \in Entries : was_fuzzed'[q] <=> was_fuzzed[q] \/ q = w
    BY <1>0, <2>1, <2>2, Zenon
  <2>4. Unfuzzed' = Unfuzzed \ {w} /\ w \in Unfuzzed /\ Unfuzzed \subseteq Entries
    BY <1>0, <2>1, <2>2, <2>3 DEF Unfuzzed, Queue
  <2>5. Cardinality(Unfuzzed') = Cardinality(Unfuzzed) - 1
    BY <2>4, EntriesFinite, FS_RemoveElement
  <2>6. Pending' = Pending \ {w} /\ Pending \subseteq Entries /\ (w \in Pending <=> favored[w])
    BY <1>0, <2>1, <2>2, <2>3 DEF Pending
  <2>7. Cardinality(Pending') = Cardinality(Pending) - (IF favored[w] THEN 1 ELSE 0)
    <3>1. CASE favored[w]
      BY <2>6, <3>1, EntriesFinite, FS_RemoveElement
    <3>2. CASE ~favored[w]
      <4>1. Pending' = Pending
        BY <2>6, <3>2
      <4> QED BY <3>2, <4>1, EntriesFinite, <2>6
    <3> QED BY <3>1, <3>2
  <2>8. \A q \in Entries \ Queue : ~was_fuzzed'[q]
    BY <1>0, <2>2, <2>3 DEF PendingInv
  <2> QED BY <1>0, <2>1, <2>5, <2>7, <2>8 DEF PendingInv, Queue
<1>4. CASE FindNew \/ FindNewFails
  <2> DEFINE n == queued_paths
  <2>1. /\ UNCHANGED <<favored, was_fuzzed, pending_favored>>
        /\ queued_paths' = n + 1 /\ n < MaxEntries
        /\ pending_not_fuzzed' = pending_not_fuzzed + 1
    BY <1>4 DEF FindNew, FindNewFails, Discover, culled
  <2>2. n \in Entries /\ n \notin Queue /\ Queue' = Queue \cup {n}
    BY <1>0, <2>1 DEF Entries, Queue
  <2>3. ~was_fuzzed[n]
    BY <2>2 DEF PendingInv
  <2>4. Unfuzzed' = Unfuzzed \cup {n} /\ n \notin Unfuzzed /\ Unfuzzed \subseteq Entries
    BY <1>0, <2>1, <2>2, <2>3 DEF Unfuzzed
  <2>5. Cardinality(Unfuzzed') = Cardinality(Unfuzzed) + 1
    BY <2>4, EntriesFinite, FS_AddElement
  <2>6. Pending' = Pending
    BY <2>1 DEF Pending
  <2> QED BY <1>0, <2>1, <2>2, <2>5, <2>6 DEF PendingInv
<1>5. CASE UNCHANGED <<favored, was_fuzzed, pending_favored, pending_not_fuzzed, queued_paths>>
  BY <1>5 DEF PendingInv, Pending, Unfuzzed, Queue
<1>6. \/ CullBegin
      \/ CullByte /\ Grabbed(scan)
      \/ Abandon /\ FirstPass(queue_cur)
      \/ FindNew \/ FindNewFails
      \/ UNCHANGED <<favored, was_fuzzed, pending_favored, pending_not_fuzzed, queued_paths>>
  BY DEF Next, DryRun, DryCalibrate, DrySkip, DryFatal, DryNext, Score, ScoreByte, ScoreReturn,
         Cull, CullByte, CullReturn, FuzzOne, SkipEntry, PsoTurn, EnterFuzz, Recalibrate,
         RecalibrateFails, TrimKeep, TrimWrite, Abandon, Stop, Leave, Terminating, vars,
         culled, fuzzed
<1> QED BY <1>1, <1>2, <1>3, <1>4, <1>5, <1>6

\* The three invariants hold throughout.
LEMMA CountsHold == Spec => [](CoreInv /\ ScoredOnce /\ CullInv /\ PendingInv)
BY CoreInvHolds, InitOnce, InitPending, NextOnce, NextCull, NextPending, PTL DEF Spec

\* pending_favored and pending_not_fuzzed are exactly the numbers of entries they
\* stand for, in every state and whatever the target does: cull_queue counts no
\* favorite twice, and fuzz_one takes each off once.
THEOREM PendingCorrect == Spec => []PendingCountersExact
<1>1. PendingInv => PendingCountersExact
  BY DEF PendingInv, PendingCountersExact, Pending, Unfuzzed
<1> QED BY <1>1, CountsHold, PTL

-----------------------------------------------------------------------------
(* A deterministic target.                                                 *)

\* Every run on a test case gives the same trace.
Deterministic == \A B \in Behaviours : \A s, t \in B : s = t

\* perform_dry_run measures each seed the first time.
NotYet ==
  /\ pc = "dry" => \A q \in Entries : q >= q_arg => exec_cksum[q] = Nil
  /\ InDry => \A q \in Entries : q > q_arg => exec_cksum[q] = Nil

\* An entry has one trace, and this is what exec_cksum stands for.
OwnTrace(q) == /\ behav[q] # {} /\ \A s, t \in behav[q] : s = t
               /\ exec_cksum[q] # Nil => exec_cksum[q] \in behav[q]

\* An entry without a checksum is one perform_dry_run has yet to measure, or has
\* given up on: calibrate_case is not called for it again.
Measured ==
  /\ pc = "recalibrate" => cal_failed[queue_cur] < CalChances
  /\ \A q \in Queue :
       \/ exec_cksum[q] # Nil
       \/ cal_failed[q] = CalChances
       \/ pc = "stopped"
       \/ pc = "dry" /\ q >= q_arg
       \/ InDry /\ q > q_arg

TracesInv == NotYet /\ Measured /\ \A q \in Queue : OwnTrace(q)

\* The trace an entry keeps is its own, and it hits the bytes it won.
HitsWhatItWon ==
  \A q \in Entries : /\ trace_mini[q] \in {Nil, exec_cksum[q]}
                     /\ \A b \in WonBytes(q) : b \in exec_cksum[q]
\* update_bitmap_score works on the trace of the entry it was called for.
ScoresOwnTrace == pc = "score" => trace_bits = exec_cksum[q_arg]

WinInv == HitsWhatItWon /\ ScoresOwnTrace

\* Between two steps of cull_queue: what is no longer in temp_v is covered, and
\* the bytes it has gone through are not in temp_v unless nothing won them.
CoverInv ==
  pc = "cull" =>
    /\ \A b \in Bytes \ temp_v : \E q \in Entries : favored[q] /\ b \in trace_mini[q]
    /\ \A b \in Bytes : b < scan /\ top_rated[b] # Nil => b \notin temp_v

\* The favorites of the last cull still cover what has been won since, up to the
\* winners that changed after it.
Covered ==
  pc # "cull" /\ ~score_changed =>
    \A b \in Bytes : top_rated[b] # Nil =>
      \E q \in Entries : favored[q] /\ b \in exec_cksum[q]

\* A calibrated entry hits only bytes that have a winner, except, while it is
\* scored, those the loop has not come to.
AllWon ==
  \A q \in Queue : exec_cksum[q] # Nil /\ cal_failed[q] = 0 =>
    \A b \in exec_cksum[q] :
      top_rated[b] # Nil \/ (pc = "score" /\ q = q_arg /\ b >= scan)

\* What the actions that measure an entry do to the entries and where they lead.
Calibrates(q, first, last, to) ==
  /\ exec_cksum' = [exec_cksum EXCEPT ![q] = first]
  /\ cal_failed' = [cal_failed EXCEPT ![q] = 0]
  /\ CallScore(q, last, to)

\* DryCalibrate: a trace of the seed becomes its checksum, and a trace of it is
\* scored.
LEMMA DryCalibrates ==
  ASSUME DryCalibrate
  PROVE  /\ \E first, last \in behav[q_arg] : Calibrates(q_arg, first, last, "dry_next")
         /\ pc = "dry" /\ UNCHANGED <<behav, queued_paths, queue_cur, top_rated, trace_mini,
                                      score_changed, favored>>
<1>1. PICK seen \in (SUBSET behav[q_arg]) \ {{}} : \E first, last \in seen :
        /\ Measure(q_arg, Nil, virgin_bits, first, seen)
        /\ Calibrated(q_arg, last, "dry_next")
  BY DEF DryCalibrate
<1>2. PICK first \in seen, last \in seen :
        /\ Measure(q_arg, Nil, virgin_bits, first, seen)
        /\ Calibrated(q_arg, last, "dry_next")
  BY <1>1
<1>3. Calibrates(q_arg, first, last, "dry_next")
  BY <1>1, <1>2 DEF Measure, Calibrated, Calibrates
<1> QED BY <1>1, <1>2, <1>3 DEF DryCalibrate, testcase, winners, culled

\* DrySkip: the seed is given up on, with a checksum or without.
LEMMA DrySkips ==
  ASSUME DrySkip
  PROVE  /\ \E t \in behav[q_arg] \cup {Nil} : exec_cksum' = [exec_cksum EXCEPT ![q_arg] = t]
         /\ cal_failed' = [cal_failed EXCEPT ![q_arg] = CalChances]
         /\ pc = "dry" /\ pc' = "dry_next"
         /\ UNCHANGED <<behav, queued_paths, queue_cur, q_arg, top_rated, trace_mini,
                        score_changed, favored>>
<1>1. PICK first \in behav[q_arg] :
        \E seen \in SUBSET behav[q_arg] : Measure(q_arg, Nil, virgin_bits, first, seen)
  BY DEF DrySkip
<1>2. \E t \in {first, Nil} : exec_cksum' = [exec_cksum EXCEPT ![q_arg] = t]
  BY <1>1 DEF Measure
<1> QED BY <1>2 DEF DrySkip, testcase, winners, culled, call

\* A second calibration finds a checksum and leaves it.
LEMMA RunsAgain ==
  ASSUME CoreInv, TracesInv, Recalibrate \/ RecalibrateFails
  PROVE  /\ exec_cksum' = exec_cksum /\ exec_cksum[queue_cur] # Nil
         /\ pc = "recalibrate" /\ queue_cur \in Queue /\ queue_cur \in Entries
         /\ UNCHANGED <<behav, queued_paths, queue_cur, top_rated, trace_mini,
                        score_changed, favored>>
         /\ Recalibrate => \E last \in behav[queue_cur] :
              /\ cal_failed' = [cal_failed EXCEPT ![queue_cur] = 0]
              /\ CallScore(queue_cur, last, "trim")
         /\ RecalibrateFails =>
              /\ cal_failed' = [cal_failed EXCEPT ![queue_cur] = @ + 1]
              /\ pc' = "abandon" /\ UNCHANGED call
<1>1. /\ pc = "recalibrate"
      /\ UNCHANGED <<behav, queued_paths, queue_cur, top_rated, trace_mini,
                     score_changed, favored>>
  BY DEF Recalibrate, RecalibrateFails, testcase, winners, culled
<1>2. queue_cur \in Queue /\ queue_cur \in Entries
      /\ exec_cksum \in [Entries -> (SUBSET Bytes) \cup {Nil}]
  BY <1>1, QueueTypes DEF CoreInv, TypeInv, TypeOK, CurInv, InFuzzOne
<1>3. exec_cksum[queue_cur] # Nil
  BY <1>1, <1>2, CalChancesAssumption DEF TracesInv, Measured, InDry
<1>4. PICK stale, seen : Measure(queue_cur, exec_cksum[queue_cur], virgin_bits, stale, seen)
  BY DEF Recalibrate, RecalibrateFails
<1>5. exec_cksum' = [exec_cksum EXCEPT ![queue_cur] = exec_cksum[queue_cur]]
  BY <1>3, <1>4 DEF Measure
<1>6. exec_cksum' = exec_cksum
  BY <1>2, <1>5
<1>7. Recalibrate => \E last \in behav[queue_cur] :
              /\ cal_failed' = [cal_failed EXCEPT ![queue_cur] = 0]
              /\ CallScore(queue_cur, last, "trim")
  BY DEF Recalibrate, Calibrated
<1>8. RecalibrateFails =>
              /\ cal_failed' = [cal_failed EXCEPT ![queue_cur] = @ + 1]
              /\ pc' = "abandon" /\ UNCHANGED call
  BY DEF RecalibrateFails, CalFailed
<1> QED BY <1>1, <1>2, <1>3, <1>6, <1>7, <1>8

\* TrimWrite: the shorter file may still give the trace it is scored by.
LEMMA Trims ==
  ASSUME CoreInv, TrimWrite
  PROVE  /\ \E B \in Behaviours : /\ exec_cksum[queue_cur] \in B
                                  /\ behav' = [behav EXCEPT ![queue_cur] = B]
         /\ CallScore(queue_cur, exec_cksum[queue_cur], "havoc")
         /\ pc = "trim" /\ queue_cur \in Queue /\ queue_cur \in Entries
         /\ UNCHANGED <<exec_cksum, cal_failed, queued_paths, queue_cur, top_rated,
                        trace_mini, score_changed, favored>>
<1>1. pc = "trim"
      /\ UNCHANGED <<exec_cksum, cal_failed, queued_paths, queue_cur, top_rated,
                     trace_mini, score_changed, favored>>
  BY DEF TrimWrite, calib, winners, culled
<1>2. queue_cur \in Queue /\ queue_cur \in Entries
  BY <1>1, QueueTypes DEF CoreInv, TypeInv, CurInv, InFuzzOne
<1> QED BY <1>1, <1>2 DEF TrimWrite

\* A discovery: the trace it was made by is the checksum of the new entry n.
LEMMA Finds ==
  ASSUME CoreInv, FindNew \/ FindNewFails, NEW n, n = queued_paths
  PROVE  /\ \E B \in Behaviours : \E t0, last \in B :
              /\ behav' = [behav EXCEPT ![n] = B]
              /\ exec_cksum' = [exec_cksum EXCEPT ![n] = t0]
              /\ FindNew => /\ cal_failed' = [cal_failed EXCEPT ![n] = 0]
                            /\ CallScore(n, last, "havoc")
              /\ FindNewFails => /\ cal_failed' = [cal_failed EXCEPT ![n] = @ + 1]
                                 /\ pc' = pc /\ UNCHANGED call
         /\ n \in Entries /\ n \notin Queue /\ Queue' = Queue \cup {n} /\ pc = "havoc"
         /\ UNCHANGED <<queue_cur, top_rated, trace_mini, score_changed, favored>>
<1>1. /\ UNCHANGED <<queue_cur, top_rated, trace_mini, score_changed, favored>>
      /\ queued_paths' = n + 1 /\ n < MaxEntries /\ pc = "havoc"
  BY DEF FindNew, FindNewFails, Discover, winners, culled
<1>2. n \in Nat
  BY DEF CoreInv, TypeInv, TypeOK
<1>3. n \in Entries /\ n \notin Queue /\ Queue' = Queue \cup {n}
  BY <1>1, <1>2 DEF Queue, Entries
<1>4. ASSUME NEW B \in Behaviours, NEW p, NEW t0 \in B, NEW seen, Discover(B, t0, p, seen)
      PROVE  /\ behav' = [behav EXCEPT ![n] = B]
             /\ exec_cksum' = [exec_cksum EXCEPT ![n] = t0]
  <2>1. t0 # Nil
    BY BehaviourTypes, NilTypes DEF Traces
  <2>2. Measure(n, t0, virgin_bits \ t0, t0, seen) /\ behav' = [behav EXCEPT ![n] = B]
    BY <1>4 DEF Discover
  <2> QED BY <2>1, <2>2 DEF Measure
<1>5. CASE FindNew
  <2>1. PICK B \in Behaviours, p \in PointerScores :
          \E t0 \in B, seen \in (SUBSET B) \ {{}} :
            /\ Discover(B, t0, p, seen)
            /\ \E last \in seen : Calibrated(n, last, "havoc")
    BY <1>5 DEF FindNew
  <2>2. PICK t0 \in B, seen \in SUBSET B, last \in B :
          Discover(B, t0, p, seen) /\ Calibrated(n, last, "havoc")
    BY <2>1
  <2>3. ~FindNewFails
    <3>1. pc' = "score"
      BY <2>2 DEF Calibrated, CallScore
    <3> QED BY <1>1, <3>1 DEF FindNewFails
  <2> QED BY <1>1, <1>3, <1>4, <2>2, <2>3 DEF Calibrated
<1>6. CASE FindNewFails
  <2>1. PICK B \in Behaviours, p \in PointerScores :
          \E t0 \in B, seen \in SUBSET B :
            /\ Discover(B, t0, p, seen)
            /\ CalFailed(n) /\ UNCHANGED <<pc, scan, call>>
    BY <1>6 DEF FindNewFails
  <2>2. PICK t0 \in B, seen \in SUBSET B :
          Discover(B, t0, p, seen) /\ CalFailed(n) /\ UNCHANGED <<pc, scan, call>>
    BY <2>1
  <2>3. ~FindNew
    <3>1. pc' # "score"
      BY <1>1, <2>2
    <3> QED BY <3>1 DEF FindNew, Calibrated, CallScore
  <2> QED BY <1>1, <1>3, <1>4, <2>2, <2>3 DEF CalFailed
<1> QED BY <1>5, <1>6

\* The steps that measure nothing.
Idle == \/ DryFatal \/ DryNext \/ Score \/ Cull
        \/ SkipEntry \/ PsoTurn \/ EnterFuzz \/ TrimKeep \/ Abandon
        \/ Stop \/ Leave \/ Terminating \/ UNCHANGED vars

\* They leave the test cases and their calibration alone.
LEMMA IdleSteps ==
  ASSUME Idle
  PROVE  UNCHANGED <<behav, exec_cksum, cal_failed, queued_paths>>
BY DEF Idle, DryFatal, DryNext, Score, ScoreByte, ScoreReturn, Cull, CullBegin, CullByte,
       CullReturn, SkipEntry, PsoTurn, EnterFuzz, TrimKeep, Abandon, Stop, Leave,
       Terminating, vars, testcase, calib

\* All the steps.
LEMMA Steps ==
  [Next]_vars => \/ DryCalibrate \/ DrySkip
                 \/ Recalibrate \/ RecalibrateFails
                 \/ TrimWrite
                 \/ FindNew \/ FindNewFails
                 \/ Idle
BY DEF Next, DryRun, FuzzOne, Idle

\* A trace an entry was queued or calibrated with is never replaced.
LEMMA CksumStays ==
  ASSUME CoreInv, TracesInv, [Next]_vars, NEW q \in Queue, exec_cksum[q] # Nil
  PROVE  exec_cksum'[q] = exec_cksum[q] /\ q \in Queue' /\ q \in Entries
<1>1. q \in Entries /\ exec_cksum \in [Entries -> (SUBSET Bytes) \cup {Nil}] /\ q_arg \in Entries
  BY QueueTypes DEF CoreInv, TypeInv, TypeOK
<1>2. CASE DryCalibrate
  <2>1. q # q_arg
    BY <1>1, <1>2, DryCalibrates DEF TracesInv, NotYet, Entries
  <2> QED BY <1>1, <1>2, <2>1, DryCalibrates DEF Calibrates, Queue
<1>3. CASE DrySkip
  <2>1. q # q_arg
    BY <1>1, <1>3, DrySkips DEF TracesInv, NotYet, Entries
  <2> QED BY <1>1, <1>3, <2>1, DrySkips DEF Queue
<1>4. CASE Recalibrate \/ RecalibrateFails
  BY <1>1, <1>4, RunsAgain DEF Queue
<1>5. CASE TrimWrite
  BY <1>1, <1>5, Trims DEF Queue
<1>6. CASE FindNew \/ FindNewFails
  BY <1>1, <1>6, Finds
<1>7. CASE Idle
  BY <1>1, <1>7, IdleSteps DEF Queue
<1> QED BY <1>2, <1>3, <1>4, <1>5, <1>6, <1>7, Steps

\* perform_dry_run moves on to seeds that were not measured.
LEMMA NextNotYet ==
  ASSUME CoreInv, TracesInv, [Next]_vars
  PROVE  NotYet'
<1> USE DEF TracesInv
<1>1. q_arg \in Entries /\ exec_cksum \in [Entries -> (SUBSET Bytes) \cup {Nil}]
  BY DEF CoreInv, TypeInv, TypeOK
<1>2. CASE DryCalibrate
  <2>1. PICK first, last : Calibrates(q_arg, first, last, "dry_next")
    BY <1>2, DryCalibrates
  <2>2. pc' = "score" /\ ret' = "dry_next" /\ q_arg' = q_arg
        /\ \A q \in Entries : q # q_arg => exec_cksum'[q] = exec_cksum[q]
    BY <1>1, <2>1 DEF Calibrates, CallScore
  <2> QED BY <1>1, <1>2, <2>2, DryCalibrates DEF NotYet, Entries
<1>3. CASE DrySkip
  <2>1. pc = "dry" /\ pc' = "dry_next" /\ q_arg' = q_arg
        /\ \A q \in Entries : q # q_arg => exec_cksum'[q] = exec_cksum[q]
    BY <1>1, <1>3, DrySkips
  <2> QED BY <1>1, <2>1 DEF NotYet, Entries
<1>4. CASE Recalibrate \/ RecalibrateFails
  BY <1>4, RunsAgain DEF NotYet, InDry, CallScore
<1>5. CASE TrimWrite
  BY <1>5, Trims DEF NotYet, InDry, CallScore
<1>6. CASE FindNew \/ FindNewFails
  BY <1>6, Finds DEF NotYet, InDry, CallScore
<1>7. CASE DryNext
  <2>1. exec_cksum' = exec_cksum /\ pc = "dry_next"
        /\ \/ pc' = "dry" /\ q_arg' = q_arg + 1
           \/ pc' \in {"stopped", "loop"}
    BY <1>7 DEF DryNext, calib
  <2> QED BY <1>1, <2>1 DEF NotYet, InDry, Entries
<1>8. CASE Score
  <2>1. exec_cksum' = exec_cksum /\ pc = "score" /\ ret \in {"dry_next", "trim", "havoc"}
    BY <1>8 DEF Score, ScoreByte, ScoreReturn, calib, CoreInv, TypeInv, TypeOK
  <2>2. \/ pc' = "score" /\ ret' = ret /\ q_arg' = q_arg
        \/ pc' = "dry_next" /\ ret = "dry_next" /\ q_arg' = q_arg
        \/ pc' \in {"trim", "havoc"}
    BY <1>8, <2>1 DEF Score, ScoreByte, ScoreReturn, call
  <2> QED BY <2>1, <2>2 DEF NotYet, InDry
<1>9. CASE Stop \/ UNCHANGED vars \/ Terminating
  <2>1. UNCHANGED <<exec_cksum, pc, ret, q_arg>>
    BY <1>9 DEF Stop, Terminating, vars, calib, call
  <2> QED BY <2>1 DEF NotYet, InDry
<1>10. CASE DryFatal \/ Leave \/ Cull \/ SkipEntry \/ PsoTurn \/ EnterFuzz \/ TrimKeep \/ Abandon
  <2>1. pc' \notin {"dry", "dry_next", "score"}
    BY <1>10 DEF DryFatal, Leave, Cull, CullBegin, CullByte, CullReturn, SkipEntry, PsoTurn,
       EnterFuzz, TrimKeep, Abandon, Advance
  <2> QED BY <2>1 DEF NotYet, InDry
<1> QED BY <1>2, <1>3, <1>4, <1>5, <1>6, <1>7, <1>8, <1>9, <1>10, Steps DEF Idle

\* Of a deterministic target, a calibration, a trim and a discovery leave an entry
\* with its one trace.
LEMMA NextOwn ==
  ASSUME CoreInv, TracesInv, Deterministic, [Next]_vars
  PROVE  \A q \in Queue' : OwnTrace(q)'
<1> USE DEF TracesInv
<1>0. PICK n : n = queued_paths   \* the entry a discovery adds
  OBVIOUS
<1>1. /\ q_arg \in Entries /\ exec_cksum \in [Entries -> (SUBSET Bytes) \cup {Nil}]
      /\ Queue \subseteq Entries /\ behav \in [Entries -> SUBSET Traces]
  BY QueueTypes DEF CoreInv, TypeInv, TypeOK
<1>2. ASSUME NEW t \in behav[q_arg] \cup {Nil}, exec_cksum' = [exec_cksum EXCEPT ![q_arg] = t],
             UNCHANGED <<behav, queued_paths>>
      PROVE  \A q \in Queue' : OwnTrace(q)'
  BY <1>1, <1>2 DEF OwnTrace, Queue
<1>3. CASE DryCalibrate
  BY <1>2, <1>3, DryCalibrates DEF Calibrates
<1>4. CASE DrySkip
  BY <1>2, <1>4, DrySkips
<1>5. CASE Recalibrate \/ RecalibrateFails
  BY <1>5, RunsAgain DEF OwnTrace, Queue
<1>6. CASE TrimWrite
  <2>1. PICK B \in Behaviours : /\ exec_cksum[queue_cur] \in B
                                /\ behav' = [behav EXCEPT ![queue_cur] = B]
    BY <1>6, Trims
  <2>2. \A q \in Entries : behav'[q] = IF q = queue_cur THEN B ELSE behav[q]
    BY <1>1, <2>1
  <2>3. UNCHANGED <<exec_cksum, queued_paths>> /\ Queue' = Queue
    BY <1>6, Trims DEF Queue
  <2> QED BY <1>1, <2>1, <2>2, <2>3 DEF OwnTrace, Deterministic
<1>7. CASE FindNew \/ FindNewFails
  <2>0. PICK B \in Behaviours : \E t0 \in B :
          /\ behav' = [behav EXCEPT ![n] = B]
          /\ exec_cksum' = [exec_cksum EXCEPT ![n] = t0]
    BY <1>0, <1>7, Finds
  <2>1. PICK t0 \in B :
          /\ behav' = [behav EXCEPT ![n] = B]
          /\ exec_cksum' = [exec_cksum EXCEPT ![n] = t0]
    BY <2>0
  <2>2. n \notin Queue /\ Queue' = Queue \cup {n} /\ n \in Entries
    BY <1>0, <1>7, Finds
  <2>3. OwnTrace(n)'
    BY <1>1, <2>1, <2>2 DEF OwnTrace, Deterministic
  <2>4. \A q \in Queue : behav'[q] = behav[q] /\ exec_cksum'[q] = exec_cksum[q]
    BY <1>1, <2>1, <2>2
  <2> QED BY <2>2, <2>3, <2>4 DEF OwnTrace
<1>8. CASE Idle
  BY <1>8, IdleSteps DEF OwnTrace, Queue
<1> QED BY <1>3, <1>4, <1>5, <1>6, <1>7, <1>8, Steps

\* Whoever leaves an entry without a checksum has given up on it.
LEMMA NextMeasured ==
  ASSUME CoreInv, TracesInv, [Next]_vars
  PROVE  Measured'
<1> USE DEF TracesInv
<1>0. PICK n : n = queued_paths   \* the entry a discovery adds
  OBVIOUS
<1>1. /\ q_arg \in Entries /\ exec_cksum \in [Entries -> (SUBSET Bytes) \cup {Nil}]
      /\ cal_failed \in [Entries -> Nat] /\ queued_paths \in Nat
      /\ Queue \subseteq Entries /\ behav \in [Entries -> SUBSET Traces]
  BY QueueTypes DEF CoreInv, TypeInv, TypeOK
<1>2. CASE DryCalibrate
  <2>1. PICK first \in behav[q_arg], last \in behav[q_arg] :
          Calibrates(q_arg, first, last, "dry_next")
    BY <1>2, DryCalibrates
  <2>2. /\ pc' = "score" /\ ret' = "dry_next" /\ q_arg' = q_arg /\ pc = "dry"
        /\ \A q \in Entries : q # q_arg => /\ exec_cksum'[q] = exec_cksum[q]
                                           /\ cal_failed'[q] = cal_failed[q]
        /\ exec_cksum'[q_arg] = first
        /\ Queue' = Queue
    BY <1>1, <1>2, <2>1, DryCalibrates DEF Calibrates, CallScore, Queue
  <2>3. exec_cksum'[q_arg] # Nil
    BY <1>1, <2>1, <2>2, NilTypes DEF Traces
  <2>4. ASSUME NEW q \in Queue'
        PROVE  \/ exec_cksum'[q] # Nil
               \/ cal_failed'[q] = CalChances
               \/ q > q_arg
    <3>1. q \in Entries /\ q \in Queue
      BY <1>1, <2>2
    <3>2. CASE q = q_arg
      BY <2>3, <3>2
    <3>3. CASE q # q_arg
      <4>1. exec_cksum'[q] = exec_cksum[q] /\ cal_failed'[q] = cal_failed[q]
        BY <2>2, <3>1, <3>3
      <4>2. exec_cksum[q] # Nil \/ cal_failed[q] = CalChances \/ q >= q_arg
        BY <2>2, <3>1 DEF Measured, InDry
      <4> QED BY <1>1, <3>1, <3>3, <4>1, <4>2 DEF Entries
    <3> QED BY <3>2, <3>3
  <2>5. pc' # "recalibrate" /\ InDry'
    BY <2>2 DEF InDry
  <2> QED BY <2>2, <2>4, <2>5 DEF Measured
<1>3. CASE DrySkip
  <2>1. /\ pc = "dry" /\ pc' = "dry_next" /\ q_arg' = q_arg
        /\ \A q \in Entries : q # q_arg => /\ exec_cksum'[q] = exec_cksum[q]
                                           /\ cal_failed'[q] = cal_failed[q]
        /\ cal_failed'[q_arg] = CalChances
        /\ Queue' = Queue
    BY <1>1, <1>3, DrySkips DEF Queue
  <2> QED BY <1>1, <2>1 DEF Measured, InDry, Entries
<1>4. CASE Recalibrate \/ RecalibrateFails
  <2>1. /\ exec_cksum' = exec_cksum /\ exec_cksum[queue_cur] # Nil
        /\ pc = "recalibrate" /\ pc' \in {"score", "abandon"} /\ Queue' = Queue
        /\ \A q \in Entries : q # queue_cur => cal_failed'[q] = cal_failed[q]
    BY <1>1, <1>4, RunsAgain DEF CallScore, Queue
  <2> QED BY <1>1, <2>1 DEF Measured, InDry
<1>5. CASE TrimWrite
  <2>1. /\ UNCHANGED <<exec_cksum, cal_failed>> /\ Queue' = Queue
        /\ pc = "trim" /\ pc' = "score"
    BY <1>5, Trims DEF CallScore, Queue
  <2> QED BY <2>1 DEF Measured, InDry
<1>6. CASE FindNew \/ FindNewFails
  <2>1. PICK B \in Behaviours : \E t0 \in B :
          exec_cksum' = [exec_cksum EXCEPT ![n] = t0]
    BY <1>0, <1>6, Finds
  <2>2. PICK t0 \in B : exec_cksum' = [exec_cksum EXCEPT ![n] = t0]
    BY <2>1
  <2>3. t0 # Nil
    BY BehaviourTypes, NilTypes DEF Traces
  <2>4. /\ n \in Entries /\ Queue' = Queue \cup {n} /\ pc = "havoc"
        /\ pc' \in {"score", "havoc"}
        /\ \A q \in Entries : q # n => cal_failed'[q] = cal_failed[q]
    BY <1>0, <1>1, <1>6, Finds DEF CallScore
  <2> QED BY <1>1, <2>2, <2>3, <2>4 DEF Measured, InDry
<1>7. CASE DryNext
  <2>1. /\ UNCHANGED <<exec_cksum, cal_failed>> /\ Queue' = Queue /\ pc = "dry_next"
        /\ \/ pc' = "dry" /\ q_arg' = q_arg + 1
           \/ pc' \in {"stopped", "loop"} /\ q_arg + 1 >= queued_paths
    BY <1>1, <1>7 DEF DryNext, calib, Queue, Entries
  <2>2. \A q \in Queue : q > q_arg => q >= q_arg + 1 /\ q < queued_paths
    BY <1>1 DEF Queue, Entries
  <2>3. \A q \in Queue : \/ exec_cksum[q] # Nil
                         \/ cal_failed[q] = CalChances
                         \/ q > q_arg
    BY <2>1 DEF Measured, InDry
  <2>4. CASE pc' = "dry" /\ q_arg' = q_arg + 1
    BY <2>1, <2>2, <2>3, <2>4 DEF Measured
  <2>5. CASE pc' \in {"stopped", "loop"} /\ q_arg + 1 >= queued_paths
    <3>1. \A q \in Queue : ~(q > q_arg)
      BY <1>1, <2>5 DEF Queue, Entries
    <3> QED BY <2>1, <2>3, <2>5, <3>1 DEF Measured
  <2> QED BY <2>1, <2>4, <2>5
<1>8. CASE Score
  <2>1. /\ UNCHANGED <<exec_cksum, cal_failed>> /\ Queue' = Queue
        /\ pc = "score" /\ ret \in {"dry_next", "trim", "havoc"}
    BY <1>8 DEF Score, ScoreByte, ScoreReturn, calib, CoreInv, TypeInv, TypeOK, Queue
  <2>2. \/ pc' = "score" /\ ret' = ret /\ q_arg' = q_arg
        \/ pc' = "dry_next" /\ ret = "dry_next" /\ q_arg' = q_arg
        \/ pc' \in {"trim", "havoc"} /\ ret # "dry_next"
    BY <1>8, <2>1 DEF Score, ScoreByte, ScoreReturn, call
  <2> QED BY <2>1, <2>2 DEF Measured, InDry
<1>9. CASE Stop \/ UNCHANGED vars \/ Terminating
  <2>1. UNCHANGED <<exec_cksum, cal_failed, pc, ret, q_arg, queue_cur, queued_paths>>
    BY <1>9 DEF Stop, Terminating, vars, calib, call
  <2> QED BY <2>1 DEF Measured, InDry, Queue
<1>10. CASE DryFatal \/ Leave
  <2>1. pc' = "stopped"
    BY <1>10 DEF DryFatal, Leave
  <2> QED BY <2>1 DEF Measured
<1>11. CASE Cull \/ SkipEntry \/ PsoTurn \/ EnterFuzz \/ TrimKeep \/ Abandon
  <2>1. /\ UNCHANGED <<exec_cksum, cal_failed, queued_paths>>
        /\ pc \notin {"dry", "dry_next", "score", "stopped"}
    BY <1>11 DEF Cull, CullBegin, CullByte, CullReturn, SkipEntry, PsoTurn,
       EnterFuzz, TrimKeep, Abandon, calib
  <2>2. pc' = "recalibrate" => cal_failed[queue_cur] < CalChances /\ queue_cur' = queue_cur
    BY <1>11 DEF Cull, CullBegin, CullByte, CullReturn, SkipEntry, PsoTurn,
       EnterFuzz, TrimKeep, Abandon, Advance
  <2> QED BY <2>1, <2>2 DEF Measured, InDry, Queue
<1> QED BY <1>2, <1>3, <1>4, <1>5, <1>6, <1>7, <1>8, <1>9, <1>10, <1>11, Steps DEF Idle

\* TracesInv is inductive.
LEMMA NextTraces == CoreInv /\ Deterministic /\ TracesInv /\ [Next]_vars => TracesInv'
BY NextNotYet, NextOwn, NextMeasured DEF TracesInv

\* The seeds have one trace each and no checksum.
LEMMA InitTraces == Init /\ Deterministic => TracesInv
<1> SUFFICES ASSUME Init, Deterministic PROVE TracesInv
  OBVIOUS
<1>1. PICK seeds \in [Queue -> Behaviours] :
        behav = [q \in Entries |-> IF q \in Queue THEN seeds[q] ELSE {}]
  BY DEF Init
<1>2. Queue \subseteq Entries /\ queued_paths \in Nat
  BY DEF Init, Queue, Entries
<1>3. \A q \in Queue : behav[q] \in Behaviours /\ exec_cksum[q] = Nil
  BY <1>1, <1>2 DEF Init
<1>4. \A q \in Queue : OwnTrace(q)
  BY <1>3, BehaviourTypes DEF OwnTrace, Deterministic
<1>5. NotYet /\ Measured
  BY <1>2 DEF Init, NotYet, Measured, InDry, Queue
<1> QED BY <1>4, <1>5 DEF TracesInv

-----------------------------------------------------------------------------
(* What the winners and the favorites cover.                               *)

\* The winners and the compacted traces only change where a byte is taken.
LEMMA NextWin ==
  ASSUME CoreInv, Deterministic, TracesInv, WinInv, [Next]_vars
  PROVE  WinInv'
<1>0. PICK n : n = queued_paths   \* the entry a discovery adds
  OBVIOUS
<1>1. /\ TypeOK /\ q_arg \in Entries /\ exec_cksum \in [Entries -> (SUBSET Bytes) \cup {Nil}]
      /\ Queue \subseteq Entries
  BY QueueTypes DEF CoreInv, TypeInv, TypeOK
<1>2. HitsWhatItWon'
  <2>1. CASE ScoreByte /\ Wins(q_arg, scan)
    <3>1. /\ TakeByte(q_arg, scan) /\ scan \in Bytes /\ scan \in trace_bits
          /\ exec_cksum' = exec_cksum /\ RefInv /\ trace_bits = exec_cksum[q_arg]
      BY <2>1 DEF ScoreByte, Wins, calib, CoreInv, WinInv, ScoresOwnTrace
    <3>2. SUFFICES ASSUME NEW x \in Entries
                   PROVE  /\ trace_mini'[x] \in {Nil, exec_cksum[x]}
                          /\ \A b \in WonBytes(x)' : b \in exec_cksum[x]
      BY <3>1 DEF HitsWhatItWon
    <3>3. /\ trace_mini[x] \in {Nil, exec_cksum[x]}
          /\ \A b \in WonBytes(x) : b \in exec_cksum[x]
      BY DEF WinInv, HitsWhatItWon
    <3>4. WonBytes(x)' = IF x = q_arg THEN WonBytes(x) \cup {scan} ELSE WonBytes(x) \ {scan}
      BY <1>1, <3>1, WonAfterTake
    <3>5. trace_mini'[x] \in {Nil, trace_mini[x]} \cup (IF x = q_arg THEN {trace_bits} ELSE {})
      BY <1>1, <3>1, MinisAfterTake
    <3> QED BY <3>1, <3>3, <3>4, <3>5
  <2>2. CASE ~(ScoreByte /\ Wins(q_arg, scan))
    <3>1. UNCHANGED <<top_rated, tc_ref, trace_mini>>
      BY <2>2, OthersKeepWinners
    <3>2. SUFFICES ASSUME NEW x \in Entries
                   PROVE  /\ trace_mini[x] \in {Nil, exec_cksum'[x]}
                          /\ \A b \in WonBytes(x) : b \in exec_cksum'[x]
      BY <3>1 DEF HitsWhatItWon, WonBytes
    <3>3. CASE WonBytes(x) = {}
      BY <3>3 DEF CoreInv, RefInv, MiniKept
    <3>4. CASE WonBytes(x) # {}
      <4>1. x \in Queue /\ exec_cksum[x] # Nil
        BY <3>4 DEF CoreInv, FuzzInv, HeldSound, Held, Sound
      <4>2. exec_cksum'[x] = exec_cksum[x]
        BY <4>1, CksumStays
      <4> QED BY <4>2 DEF WinInv, HitsWhatItWon
    <3> QED BY <3>3, <3>4
  <2> QED BY <2>1, <2>2
<1>3. ScoresOwnTrace'
  <2>1. CASE DryCalibrate
    <3>1. PICK first \in behav[q_arg], last \in behav[q_arg] :
            Calibrates(q_arg, first, last, "dry_next")
      BY <2>1, DryCalibrates
    <3>2. q_arg \in Queue
      BY <2>1, DryCalibrates DEF CoreInv, FuzzInv, DryAhead
    <3>3. first = last
      BY <3>1, <3>2 DEF TracesInv, OwnTrace
    <3> QED BY <1>1, <3>1, <3>3 DEF Calibrates, CallScore, ScoresOwnTrace
  <2>2. CASE Recalibrate
    <3>1. PICK last \in behav[queue_cur] : CallScore(queue_cur, last, "trim")
      BY <2>2, RunsAgain
    <3>2. last = exec_cksum[queue_cur] /\ exec_cksum' = exec_cksum
      BY <2>2, <3>1, RunsAgain DEF TracesInv, OwnTrace
    <3> QED BY <3>1, <3>2 DEF CallScore, ScoresOwnTrace
  <2>3. CASE TrimWrite
    BY <2>3, Trims DEF CallScore, ScoresOwnTrace
  <2>4. CASE FindNew
    <3>1. PICK B \in Behaviours : \E t0, last \in B :
            exec_cksum' = [exec_cksum EXCEPT ![n] = t0] /\ CallScore(n, last, "havoc")
      BY <1>0, <2>4, Finds
    <3>2. PICK t0 \in B, last \in B :
            exec_cksum' = [exec_cksum EXCEPT ![n] = t0] /\ CallScore(n, last, "havoc")
      BY <3>1
    <3>3. n \in Entries /\ t0 = last
      BY <1>0, <2>4, Finds DEF Deterministic
    <3> QED BY <1>1, <3>2, <3>3 DEF CallScore, ScoresOwnTrace
  <2>5. CASE DrySkip \/ RecalibrateFails \/ FindNewFails
    <3>1. pc' # "score"
      BY <2>5 DEF DrySkip, RecalibrateFails, FindNewFails, Discover
    <3> QED BY <3>1 DEF ScoresOwnTrace
  <2>6. CASE Idle
    <3>1. exec_cksum' = exec_cksum
      BY <2>6, IdleSteps
    <3>2. pc' = "score" => pc = "score" /\ UNCHANGED <<trace_bits, q_arg>>
      BY <2>6 DEF Idle, DryFatal, DryNext, Score, ScoreByte, ScoreReturn, Cull, CullBegin,
         CullByte, CullReturn, SkipEntry, PsoTurn, EnterFuzz, TrimKeep, Abandon, Advance, Stop,
         Leave, Terminating, vars, call, CoreInv, TypeInv, TypeOK
    <3> QED BY <3>1, <3>2 DEF WinInv, ScoresOwnTrace
  <2> QED BY <2>1, <2>2, <2>3, <2>4, <2>5, <2>6, Steps
<1> QED BY <1>2, <1>3 DEF WinInv

\* Initially nothing is won.
LEMMA InitWin == Init => WinInv
BY NilTypes DEF Init, WinInv, HitsWhatItWon, ScoresOwnTrace, WonBytes

\* What the last three invariants rest on.
DetInv == CoreInv /\ CullInv /\ TracesInv /\ WinInv

\* A byte that is grabbed is covered by the trace its winner keeps.
LEMMA NextCover ==
  ASSUME DetInv, CoverInv, [Next]_vars
  PROVE  CoverInv'
<1>1. CASE CullBegin
  <2>1. temp_v' = Bytes /\ scan' = 0
    BY <1>1 DEF CullBegin
  <2> QED BY <2>1 DEF CoverInv, Bytes
<1>2. CASE CullByte
  <2> DEFINE w == top_rated[scan]
  <2>1. /\ pc = "cull" /\ scan \in Bytes /\ scan' = scan + 1
        /\ UNCHANGED <<top_rated, trace_mini>>
        /\ IF Grabbed(scan)
           THEN temp_v' = temp_v \ trace_mini[w] /\ favored' = [favored EXCEPT ![w] = TRUE]
           ELSE temp_v' = temp_v /\ favored' = favored
    BY <1>2 DEF CullByte, winners, culled
  <2>2. /\ favored \in [Entries -> BOOLEAN] /\ temp_v \in SUBSET Bytes
        /\ w \in Entries \cup {Nil}
    BY <2>1 DEF DetInv, CoreInv, TypeInv, TypeOK
  <2>3. \A q \in Entries : favored'[q] <=> favored[q] \/ (Grabbed(scan) /\ q = w)
    BY <2>1, <2>2, Zenon DEF Grabbed
  <2>4. \A b \in Bytes \ temp_v' : \E q \in Entries : favored'[q] /\ b \in trace_mini[q]
    BY <2>1, <2>2, <2>3 DEF CoverInv, Grabbed
  <2>5. top_rated[scan] # Nil => scan \notin temp_v'
    <3>1. CASE Grabbed(scan)
      <4>1. w \in Entries /\ scan \in WonBytes(w)
        BY <2>1, <2>2, <3>1 DEF Grabbed, WonBytes
      <4>2. trace_mini[w] # Nil
        BY <4>1 DEF DetInv, CoreInv, RefInv, MiniKept
      <4>3. scan \in trace_mini[w]
        BY <4>1, <4>2 DEF DetInv, WinInv, HitsWhatItWon
      <4> QED BY <2>1, <3>1, <4>3
    <3>2. CASE ~Grabbed(scan)
      BY <2>1, <3>2 DEF Grabbed
    <3> QED BY <3>1, <3>2
  <2>6. temp_v' \subseteq temp_v
    BY <2>1
  <2>7. \A b \in Bytes : b < scan + 1 => b < scan \/ b = scan
    BY <2>1 DEF Bytes
  <2> QED BY <2>1, <2>4, <2>5, <2>6, <2>7 DEF CoverInv
<1>3. CASE Stop \/ UNCHANGED vars \/ Terminating
  <2>1. UNCHANGED <<pc, temp_v, favored, trace_mini, top_rated, scan>>
    BY <1>3 DEF Stop, Terminating, vars, winners, culled
  <2> QED BY <2>1 DEF CoverInv
<1>4. CASE ~(CullBegin \/ CullByte \/ Stop \/ UNCHANGED vars \/ Terminating)
  <2>1. pc' # "cull"
    <3>1. ret \in {"dry_next", "trim", "havoc"}
      BY DEF DetInv, CoreInv, TypeInv, TypeOK
    <3> QED BY <1>4, <3>1 DEF Next, DryRun, DryCalibrate, DrySkip, DryFatal, DryNext, Score,
         ScoreByte, ScoreReturn, Cull, CullReturn, FuzzOne, SkipEntry, PsoTurn, EnterFuzz,
         Recalibrate, RecalibrateFails, TrimKeep, TrimWrite, FindNew, FindNewFails, Discover,
         Abandon, Advance, Calibrated, CallScore, Leave
  <2> QED BY <2>1 DEF CoverInv
<1> QED BY <1>1, <1>2, <1>3, <1>4

\* When cull_queue returns every won byte is covered, and it stays covered until
\* update_bitmap_score raises score_changed.
LEMMA NextCovered ==
  ASSUME DetInv, CoverInv, Covered, [Next]_vars
  PROVE  Covered'
<1>1. SUFFICES ASSUME pc' # "cull", ~score_changed', NEW b \in Bytes, top_rated'[b] # Nil
               PROVE  \E q \in Entries : favored'[q] /\ b \in exec_cksum'[q]
  BY DEF Covered
<1>2. CASE pc = "cull"
  <2>1. CASE CullReturn
    <3>1. /\ scan = MapSize /\ top_rated' = top_rated
          /\ UNCHANGED <<exec_cksum, favored>>
      BY <1>2, <2>1 DEF CullReturn, winners, calib
    <3>2. b \notin temp_v
      BY <1>1, <1>2, <3>1 DEF CoverInv, Bytes
    <3>3. PICK q \in Entries : favored[q] /\ b \in trace_mini[q]
      BY <1>2, <3>2 DEF CoverInv
    <3>4. trace_mini[q] = exec_cksum[q]
      BY <1>2, <3>3 DEF DetInv, CullInv, WinInv, HitsWhatItWon
    <3> QED BY <3>1, <3>3, <3>4
  <2>2. CASE ~CullReturn
    <3>1. pc' = "cull"
      BY <1>2, <2>2 DEF Next, DryRun, DryCalibrate, DrySkip, DryFatal, DryNext, Score,
         ScoreByte, ScoreReturn, Cull, CullBegin, CullByte, FuzzOne, SkipEntry, PsoTurn,
         EnterFuzz, Recalibrate, RecalibrateFails, TrimKeep, TrimWrite, FindNew, FindNewFails,
         Discover, Abandon, Stop, Leave, Terminating, vars
    <3> QED BY <1>1, <3>1
  <2> QED BY <2>1, <2>2
<1>3. CASE pc # "cull"
  <2>1. ~(ScoreByte /\ Wins(q_arg, scan)) /\ ~CullBegin
    BY <1>1 DEF ScoreByte, TakeByte, CullBegin
  <2>2. UNCHANGED <<score_changed, favored, top_rated>>
    BY <1>3, <2>1 DEF Next, DryRun, DryCalibrate, DrySkip, DryFatal, DryNext, Score,
         ScoreByte, ScoreReturn, Cull, CullByte, CullReturn, FuzzOne, SkipEntry, PsoTurn,
         EnterFuzz, Recalibrate, RecalibrateFails, TrimKeep, TrimWrite, FindNew, FindNewFails,
         Discover, Abandon, Stop, Leave, Terminating, vars, winners, culled
  <2>3. PICK q \in Entries : favored[q] /\ b \in exec_cksum[q]
    BY <1>1, <1>3, <2>2 DEF Covered
  <2>4. q \in Queue /\ exec_cksum[q] # Nil
    BY <2>3 DEF DetInv, CoreInv, FuzzInv, HeldSound, Held, Sound
  <2>5. exec_cksum'[q] = exec_cksum[q]
    BY <2>4, CksumStays DEF DetInv
  <2> QED BY <2>2, <2>3, <2>5
<1> QED BY <1>2, <1>3

\* The entries queued after a step.
LEMMA QueueNext ==
  ASSUME TypeInv'
  PROVE  \A q \in Queue' : q \in Entries
<1>1. queued_paths' \in 1 .. MaxEntries
  BY DEF TypeInv, TypeOK
<1>2. \A m \in Nat : \A p \in 1 .. m : \A q \in 0 .. p - 1 : q \in 0 .. m - 1
  OBVIOUS
<1>3. MaxEntries \in Nat
  BY MaxEntriesAssumption
<1>4. \A q \in 0 .. queued_paths' - 1 : q \in 0 .. MaxEntries - 1
  BY <1>1, <1>2, <1>3
<1> QED BY <1>4 DEF Queue, Entries

\* update_bitmap_score leaves no byte of the trace it is given without a winner.
LEMMA NextAllWon ==
  ASSUME DetInv, AllWon, [Next]_vars
  PROVE  AllWon'
<1>0. PICK n : n = queued_paths   \* the entry a discovery adds
  OBVIOUS
<1>1. /\ TypeOK /\ q_arg \in Entries /\ exec_cksum \in [Entries -> (SUBSET Bytes) \cup {Nil}]
      /\ Queue \subseteq Entries /\ cal_failed \in [Entries -> Nat] /\ scan \in 0 .. MapSize
      /\ top_rated \in [Bytes -> Entries \cup {Nil}] /\ CoreInv
  BY QueueTypes DEF DetInv, CoreInv, TypeInv, TypeOK
<1>2. SUFFICES ASSUME NEW q \in Queue', exec_cksum'[q] # Nil, cal_failed'[q] = 0,
                      NEW b \in exec_cksum'[q]
               PROVE  top_rated'[b] # Nil \/ (pc' = "score" /\ q = q_arg' /\ b >= scan')
  BY DEF AllWon
<1>3. q \in Entries /\ b \in Bytes
  <2>1. TypeInv'
    BY NextTypes DEF DetInv, CoreInv
  <2>2. exec_cksum' \in [Entries -> (SUBSET Bytes) \cup {Nil}]
    BY <2>1 DEF TypeInv, TypeOK
  <2>3. q \in Entries
    BY <1>2, <2>1, QueueNext
  <2> QED BY <1>2, <2>2, <2>3
\* While nothing is scored, an entry that was calibrated hits only won bytes.
<1>4. ASSUME pc # "score", q \in Queue, exec_cksum'[q] = exec_cksum[q],
             cal_failed[q] = 0, top_rated' = top_rated
      PROVE  top_rated'[b] # Nil
  BY <1>2, <1>4 DEF AllWon
\* A scoring that starts has all its bytes ahead.
<1>5. ASSUME NEW last, NEW to, CallScore(q, last, to)
      PROVE  pc' = "score" /\ q = q_arg' /\ b >= scan'
  BY <1>3, <1>5 DEF CallScore, Bytes
<1>6. CASE DryCalibrate
  <2>1. PICK first, last : Calibrates(q_arg, first, last, "dry_next")
    BY <1>6, DryCalibrates
  <2>2. q \in Queue /\ top_rated' = top_rated /\ pc # "score"
    BY <1>2, <1>6, DryCalibrates DEF Queue
  <2>3. CASE q = q_arg
    BY <1>5, <2>1, <2>3 DEF Calibrates
  <2>4. CASE q # q_arg
    BY <1>1, <1>2, <1>3, <1>4, <2>1, <2>2, <2>4 DEF Calibrates
  <2> QED BY <2>3, <2>4
<1>7. CASE DrySkip
  <2>1. PICK t : exec_cksum' = [exec_cksum EXCEPT ![q_arg] = t]
    BY <1>7, DrySkips
  <2>2. q \in Queue /\ top_rated' = top_rated /\ pc # "score"
        /\ cal_failed' = [cal_failed EXCEPT ![q_arg] = CalChances]
    BY <1>2, <1>7, DrySkips DEF Queue
  <2>3. q # q_arg
    BY <1>1, <1>2, <2>2, CalChancesAssumption
  <2> QED BY <1>1, <1>2, <1>3, <1>4, <2>1, <2>2, <2>3
<1>8. CASE Recalibrate \/ RecalibrateFails
  <2>1. /\ q \in Queue /\ top_rated' = top_rated /\ pc # "score" /\ exec_cksum' = exec_cksum
        /\ queue_cur \in Entries
    BY <1>1, <1>2, <1>8, RunsAgain DEF Queue, DetInv
  <2>2. CASE q = queue_cur /\ Recalibrate
    <3>1. \E last : CallScore(queue_cur, last, "trim")
      BY <1>1, <2>2, RunsAgain DEF DetInv
    <3> QED BY <1>5, <2>2, <3>1
  <2>3. CASE q = queue_cur /\ ~Recalibrate
    <3>1. cal_failed' = [cal_failed EXCEPT ![queue_cur] = @ + 1]
      BY <1>1, <1>8, <2>3, RunsAgain DEF DetInv
    <3> QED BY <1>1, <1>2, <1>3, <2>3, <3>1
  <2>4. CASE q # queue_cur
    <3>1. cal_failed'[q] = cal_failed[q]
      BY <1>1, <1>3, <1>8, <2>1, <2>4, RunsAgain DEF DetInv
    <3> QED BY <1>2, <1>4, <2>1, <3>1
  <2> QED BY <2>2, <2>3, <2>4
<1>9. CASE TrimWrite
  <2>1. /\ q \in Queue /\ top_rated' = top_rated /\ pc # "score"
        /\ UNCHANGED <<exec_cksum, cal_failed>>
    BY <1>1, <1>2, <1>9, Trims DEF Queue
  <2> QED BY <1>2, <1>4, <2>1
<1>10. CASE FindNew \/ FindNewFails
  <2>1. PICK B \in Behaviours : \E t0, last \in B :
              /\ exec_cksum' = [exec_cksum EXCEPT ![n] = t0]
              /\ FindNew => /\ cal_failed' = [cal_failed EXCEPT ![n] = 0]
                            /\ CallScore(n, last, "havoc")
              /\ FindNewFails => cal_failed' = [cal_failed EXCEPT ![n] = @ + 1]
    BY <1>0, <1>1, <1>10, Finds
  <2>2. PICK t0 \in B, last \in B :
              /\ exec_cksum' = [exec_cksum EXCEPT ![n] = t0]
              /\ FindNew => /\ cal_failed' = [cal_failed EXCEPT ![n] = 0]
                            /\ CallScore(n, last, "havoc")
              /\ FindNewFails => cal_failed' = [cal_failed EXCEPT ![n] = @ + 1]
    BY <2>1
  <2>3. /\ n \in Entries /\ n \notin Queue /\ Queue' = Queue \cup {n}
        /\ top_rated' = top_rated /\ pc # "score"
    BY <1>0, <1>1, <1>10, Finds
  <2>4. CASE q = n
    <3>1. FindNew
      BY <1>1, <1>2, <1>10, <2>2, <2>3, <2>4
    <3> QED BY <1>5, <2>2, <2>4, <3>1
  <2>5. CASE q # n
    BY <1>1, <1>2, <1>3, <1>4, <1>10, <2>2, <2>3, <2>5
  <2> QED BY <2>4, <2>5
<1>11. CASE ScoreByte
  <2>1. /\ UNCHANGED <<exec_cksum, cal_failed, queued_paths, pc, q_arg>> /\ pc = "score"
        /\ scan \in Bytes /\ scan' = scan + 1 /\ Queue' = Queue
    BY <1>11 DEF ScoreByte, calib, call, Queue
  <2>2. top_rated[b] # Nil \/ (q = q_arg /\ b >= scan)
    BY <1>2, <2>1 DEF AllWon
  <2>3. CASE Wins(q_arg, scan)
    <3>1. top_rated' = [top_rated EXCEPT ![scan] = q_arg]
      BY <1>11, <2>3 DEF ScoreByte, TakeByte
    <3> QED BY <1>1, <1>3, <2>1, <2>2, <3>1, NilTypes DEF Bytes
  <2>4. CASE ~Wins(q_arg, scan)
    <3>1. top_rated' = top_rated
      BY <1>11, <2>4 DEF ScoreByte, winners
    <3>2. q = q_arg /\ b = scan => top_rated[b] # Nil
      BY <1>2, <2>1, <2>4 DEF Wins, DetInv, WinInv, ScoresOwnTrace
    <3> QED BY <1>1, <1>3, <2>1, <2>2, <3>1, <3>2 DEF Bytes
  <2> QED BY <2>3, <2>4
<1>12. CASE ScoreReturn
  <2>1. /\ UNCHANGED <<exec_cksum, cal_failed, queued_paths, top_rated>> /\ scan = MapSize
    BY <1>12 DEF ScoreReturn, calib, winners
  <2>2. top_rated[b] # Nil \/ b >= scan
    BY <1>2, <2>1 DEF AllWon, Queue
  <2> QED BY <1>3, <2>1, <2>2 DEF Bytes
<1>13. CASE Idle /\ ~Score
  <2>1. UNCHANGED <<exec_cksum, cal_failed, queued_paths, top_rated>>
        /\ (UNCHANGED <<pc, q_arg, scan>> \/ pc # "score")
    BY <1>13 DEF Idle, DryFatal, DryNext, Cull, CullBegin, CullByte, CullReturn, SkipEntry,
       PsoTurn, EnterFuzz, TrimKeep, Abandon, Stop, Leave, Terminating, vars, calib, winners,
       call
  <2> QED BY <1>2, <2>1 DEF AllWon, Queue
<1> QED BY <1>6, <1>7, <1>8, <1>9, <1>10, <1>11, <1>12, <1>13, Steps DEF Score

\* Initially nothing is won, favored or calibrated.
LEMMA InitDet == Init => CoverInv /\ Covered /\ AllWon
<1> SUFFICES ASSUME Init PROVE CoverInv /\ Covered /\ AllWon
  OBVIOUS
<1>1. Queue \subseteq Entries
  BY DEF Init, Queue, Entries
<1> QED BY <1>1 DEF Init, CoverInv, Covered, AllWon

\* All of it holds throughout.
LEMMA DetInvHolds ==
  ASSUME Deterministic
  PROVE  Spec => [](DetInv /\ CoverInv /\ Covered /\ AllWon)
<1>1. Init => TracesInv /\ WinInv /\ CoverInv /\ Covered /\ AllWon
  BY InitTraces, InitWin, InitDet
<1>2. CoreInv /\ CullInv /\ (TracesInv /\ WinInv /\ CoverInv /\ Covered /\ AllWon) /\ [Next]_vars
        => (TracesInv /\ WinInv /\ CoverInv /\ Covered /\ AllWon)'
  BY NextTraces, NextWin, NextCover, NextCovered, NextAllWon DEF DetInv
<1> QED BY <1>1, <1>2, CountsHold, PTL DEF Spec, DetInv

\* Deterministic target: after cull_queue, and until update_bitmap_score changes a
\* winner, the favored entries together hit every byte that has a winner, in spite
\* of the shortcut that looks at one winner per byte and at compacted traces.
THEOREM FavoredCoverAll ==
  ASSUME Deterministic
  PROVE  Spec => []FavoredCover
<1>1. DetInv /\ CoverInv /\ Covered /\ AllWon => FavoredCover
  BY DEF DetInv, CoreInv, FuzzInv, HeldSound, Held, Sound, Covered, FavoredCover
<1> QED BY <1>1, DetInvHolds, PTL

\* Deterministic target: the bytes without a winner are those that only entries
\* without a successful calibration hit: no coverage is lost to a failed, skipped
\* or repeated calibration, to a trim, or to a winner that displaces itself.
THEOREM CalibratedWin ==
  ASSUME Deterministic
  PROVE  Spec => []CalibratedBytesWon
<1>1. ASSUME DetInv, CoverInv, Covered, AllWon
      PROVE  CalibratedBytesWon
  <2>1. SUFFICES ASSUME pc # "score", NEW b \in Bytes, top_rated[b] = Nil,
                        NEW q \in Queue, b \in UNION behav[q],
                        cal_failed[q] = 0, exec_cksum[q] # Nil
                 PROVE  FALSE
    <3>1. \A q \in Queue : cal_failed[q] \in Nat
      BY <1>1, QueueTypes DEF DetInv, CoreInv, TypeInv, TypeOK
    <3> QED BY <3>1 DEF CalibratedBytesWon
  <2>2. b \in exec_cksum[q]
    BY <1>1, <2>1 DEF DetInv, TracesInv, OwnTrace
  <2> QED BY <1>1, <2>1, <2>2 DEF AllWon
<1> QED BY <1>1, DetInvHolds, PTL
=============================================================================
