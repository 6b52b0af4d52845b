------------------------------ MODULE FuzzQueue ------------------------------
(***************************************************************************)
(* The test-case queue of afl-fuzz and the main loop that walks it:        *)
(*   - add_to_queue / save_if_interesting append what a run discovered,    *)
(*   - calibrate_case measures a new entry and detects variable behaviour, *)
(*   - update_bitmap_score elects a winner top_rated[b] for every byte b   *)
(*     of the coverage map, reference-counting the winners' compacted      *)
(*     traces (tc_ref, trace_mini),                                        *)
(*   - cull_queue turns the winners into the favored entries and counts    *)
(*     them, and fuzz_one uses the counts to decide what to skip.          *)
(*                                                                         *)
(* The two loops over the coverage map take one step per byte, as in the   *)
(* code, with nothing interleaved (afl-fuzz is single threaded; signal     *)
(* handlers only raise stop_soon).  A trace is the set of map bytes a run  *)
(* hit; a test case is the set of traces its runs may produce (behav), a   *)
(* singleton when the target is deterministic.                             *)
(***************************************************************************)
EXTENDS Integers, FiniteSets

CONSTANTS
  MaxEntries,     \* bound on the queue length
  MapSize,        \* MAP_SIZE: number of bytes in the coverage map
  Behaviours,     \* what test cases may do: sets of traces
  FavFactors,     \* values of exec_us * len
  PointerScores,  \* values of pointer_bits[0] at the end of a run
  CalChances,     \* CAL_CHANCES
  SkipThreshold,  \* the 10 of "queued_paths > 10" in fuzz_one
  Nil             \* the null pointer

Entries == 0 .. MaxEntries - 1
Bytes   == 0 .. MapSize - 1
Traces  == (SUBSET Bytes) \ {{}}

ASSUME MaxEntriesAssumption == MaxEntries \in Nat \ {0}
ASSUME MapSizeAssumption == MapSize \in Nat \ {0}
ASSUME BehavioursAssumption == Behaviours \subseteq (SUBSET Traces) \ {{}}
ASSUME FavFactorsAssumption == FavFactors \subseteq Nat /\ FavFactors # {}
ASSUME PointerScoresAssumption == PointerScores \subseteq Nat
ASSUME CalChancesAssumption == CalChances \in Nat \ {0}
ASSUME SkipThresholdAssumption == SkipThreshold \in Nat
ASSUME NilAssumption == Nil \notin Entries /\ \A s \in SUBSET Bytes : s # Nil

VARIABLES
  \* struct queue_entry, one function per field that steers the queue
  queued_paths,   \* entries 0 .. queued_paths-1 are linked, in this order
  behav,          \* (the test case itself) traces its runs may produce
  pointer_score, fav_factor, exec_cksum, cal_failed, trim_done,
  was_fuzzed, favored, tc_ref, trace_mini,
  \* globals
  top_rated, virgin_bits, var_bytes, score_changed,
  queued_favored, pending_favored, pending_not_fuzzed, queue_cur, stop_soon,
  \* the function that is running, and its locals
  pc,             \* where the program is
  scan,           \* loop index i of update_bitmap_score and of cull_queue
  q_arg,          \* q of perform_dry_run and update_bitmap_score
  trace_bits,     \* the trace update_bitmap_score reads
  ret,            \* where update_bitmap_score returns to
  temp_v          \* temp_v[] of cull_queue: bytes no favored entry covers yet

testcase == <<behav, pointer_score>>
calib    == <<exec_cksum, cal_failed, virgin_bits, var_bytes>>
winners  == <<top_rated, tc_ref, trace_mini, score_changed>>
culled   == <<favored, queued_favored, temp_v>>
call     == <<q_arg, trace_bits, ret>>
fuzzed   == <<was_fuzzed, pending_not_fuzzed, pending_favored>>
vars == <<queued_paths, testcase, fav_factor, calib, trim_done, winners, culled,
          fuzzed, queue_cur, stop_soon, pc, scan, call>>

Queue == 0 .. queued_paths - 1
SymDiff(s, t) == (s \ t) \cup (t \ s)

-----------------------------------------------------------------------------
(* read_testcases has queued the seeds; perform_dry_run starts at queue.   *)

Init ==
  /\ queued_paths \in 1 .. MaxEntries
  /\ \E seeds \in [Queue -> Behaviours] :
       behav = [q \in Entries |-> IF q \in Queue THEN seeds[q] ELSE {}]
  /\ pointer_score = [q \in Entries |-> 0]
  /\ fav_factor = [q \in Entries |-> 0]
  /\ exec_cksum = [q \in Entries |-> Nil]
  /\ cal_failed = [q \in Entries |-> 0]
  /\ trim_done = [q \in Entries |-> FALSE]
  /\ was_fuzzed = [q \in Entries |-> FALSE]
  /\ favored = [q \in Entries |-> FALSE]
  /\ tc_ref = [q \in Entries |-> 0]
  /\ trace_mini = [q \in Entries |-> Nil]
  /\ top_rated = [b \in Bytes |-> Nil]
  /\ virgin_bits = Bytes
  /\ var_bytes = {}
  /\ score_changed = FALSE
  /\ queued_favored = 0 /\ pending_favored = 0
  /\ pending_not_fuzzed = queued_paths
  /\ queue_cur = Nil
  /\ stop_soon = FALSE
  /\ pc = "dry" /\ scan = 0 /\ q_arg = 0 /\ trace_bits = {} /\ ret = "dry_next"
  /\ temp_v = {}

-----------------------------------------------------------------------------
(* update_bitmap_score(q), called with the trace of q in trace_bits.       *)

CallScore(q, trace, to) ==
  /\ pc' = "score" /\ scan' = 0
  /\ q_arg' = q /\ trace_bits' = trace /\ ret' = to

Beats(q, w) ==
  \/ pointer_score[q] > pointer_score[w]
  \/ fav_factor[q] <= fav_factor[w]

Wins(q, b) ==
  /\ b \in trace_bits
  /\ top_rated[b] = Nil \/ Beats(q, top_rated[b])

\* Mutant: the count of the previous winner is not decremented.
ReleasedNever(b) == tc_ref

\* The reference the previous winner loses, and its trace with the last one.
\* A winner may displace itself: it then drops its trace and takes the new one.
Released(b) ==
  IF top_rated[b] = Nil THEN tc_ref
  ELSE [tc_ref EXCEPT ![top_rated[b]] = @ - 1]

MinisLeft(b) ==
  IF top_rated[b] # Nil /\ Released(b)[top_rated[b]] = 0
  THEN [trace_mini EXCEPT ![top_rated[b]] = Nil]
  ELSE trace_mini

TakeByte(q, b) ==
  /\ top_rated' = [top_rated EXCEPT ![b] = q]
  /\ tc_ref' = [Released(b) EXCEPT ![q] = @ + 1]
  /\ trace_mini' = IF MinisLeft(b)[q] = Nil
                   THEN [MinisLeft(b) EXCEPT ![q] = trace_bits]
                   ELSE MinisLeft(b)
  /\ score_changed' = TRUE

ScoreByte ==
  /\ pc = "score" /\ scan \in Bytes
  /\ IF Wins(q_arg, scan) THEN TakeByte(q_arg, scan) ELSE UNCHANGED winners
  /\ scan' = scan + 1
  /\ UNCHANGED <<queued_paths, testcase, fav_factor, calib, trim_done, culled,
                 fuzzed, queue_cur, stop_soon, pc, call>>

ScoreReturn ==
  /\ pc = "score" /\ scan = MapSize
  /\ pc' = ret /\ scan' = 0 /\ trace_bits' = {}
  /\ q_arg' = IF ret = "dry_next" THEN q_arg ELSE 0   \* dead after the others
  /\ UNCHANGED <<queued_paths, testcase, fav_factor, calib, trim_done, winners,
                 culled, fuzzed, queue_cur, stop_soon, ret>>
-----------------------------------------------------------------------------
(* calibrate_case(q).  Measure is the loop over its runs: seen is the set  *)
(* of traces of the good ones, in any number and order, before it succeeds *)
(* or one of them fails.  ck0 is exec_cksum on entry; if it is null the    *)
(* first run provides it.  Otherwise first_trace is whatever trace_bits    *)
(* holds when the function is called.                                      *)

Measure(q, ck0, virgin, first_trace, seen) ==
  LET ck      == IF ck0 = Nil THEN first_trace ELSE ck0
      changed == seen \ {ck0}
  IN /\ exec_cksum' = [exec_cksum EXCEPT ![q] = IF seen = {} THEN ck0 ELSE ck]
     /\ virgin_bits' = virgin \ UNION changed
     /\ var_bytes' = var_bytes \cup UNION {SymDiff(first_trace, t) : t \in changed \ {ck}}

\* Mutant: the entry is scored after trace_bits has been cleared.
CalibratedTooLate(q, last, to) ==
  /\ cal_failed' = [cal_failed EXCEPT ![q] = 0]
  /\ \E f \in FavFactors : fav_factor' = [fav_factor EXCEPT ![q] = f]
  /\ CallScore(q, {}, to)

\* All the runs were good, the last one with trace last: score the entry.
Calibrated(q, last, to) ==
  /\ cal_failed' = [cal_failed EXCEPT ![q] = 0]
  /\ \E f \in FavFactors : fav_factor' = [fav_factor EXCEPT ![q] = f]
  /\ CallScore(q, last, to)

\* A run crashed or timed out, or stop_soon was raised.
CalFailed(q) ==
  /\ cal_failed' = [cal_failed EXCEPT ![q] = @ + 1]
  /\ UNCHANGED fav_factor

-----------------------------------------------------------------------------
(* perform_dry_run: every seed in queue order.  A seed that crashes or     *)
(* times out is either fatal or given up on (cal_failed = CAL_CHANCES).    *)

DryCalibrate ==
  /\ pc = "dry" /\ ~stop_soon
  /\ \E seen \in (SUBSET behav[q_arg]) \ {{}} : \E first, last \in seen :
       /\ Measure(q_arg, Nil, virgin_bits, first, seen)
       /\ Calibrated(q_arg, last, "dry_next")
  /\ UNCHANGED <<queued_paths, testcase, trim_done, winners, culled, fuzzed,
                 queue_cur, stop_soon>>

DrySkip ==
  /\ pc = "dry" /\ ~stop_soon
  /\ \E first \in behav[q_arg], seen \in SUBSET behav[q_arg] :
       /\ seen = {} \/ first \in seen
       /\ Measure(q_arg, Nil, virgin_bits, first, seen)
  /\ cal_failed' = [cal_failed EXCEPT ![q_arg] = CalChances]
  /\ pc' = "dry_next"
  /\ UNCHANGED <<queued_paths, testcase, fav_factor, trim_done, winners, culled,
                 fuzzed, queue_cur, stop_soon, scan, call>>

DryFatal ==
  /\ pc = "dry" /\ ~stop_soon
  /\ pc' = "stopped"
  /\ UNCHANGED <<queued_paths, testcase, fav_factor, calib, trim_done, winners,
                 culled, fuzzed, queue_cur, stop_soon, scan, call>>

\* After the last seed; fatal when none of them calibrated.
DryNext ==
  /\ pc = "dry_next" /\ ~stop_soon
  /\ IF q_arg + 1 < queued_paths
     THEN pc' = "dry" /\ q_arg' = q_arg + 1
     ELSE /\ pc' = IF \A q \in Queue : cal_failed[q] > 0 THEN "stopped" ELSE "loop"
          /\ q_arg' = 0
  /\ UNCHANGED <<queued_paths, testcase, fav_factor, calib, trim_done, winners,
                 culled, fuzzed, queue_cur, stop_soon, scan, trace_bits, ret>>

-----------------------------------------------------------------------------
(* cull_queue, at the top of every turn of the main loop.                  *)

CullBegin ==
  /\ pc = "loop" /\ ~stop_soon /\ score_changed
  /\ score_changed' = FALSE
  /\ temp_v' = Bytes
  /\ queued_favored' = 0 /\ pending_favored' = 0
  /\ favored' = [q \in Entries |-> FALSE]
  /\ pc' = "cull" /\ scan' = 0
  /\ UNCHANGED <<queued_paths, testcase, fav_factor, calib, trim_done, top_rated,
                 tc_ref, trace_mini, was_fuzzed, pending_not_fuzzed, queue_cur,
                 stop_soon, call>>

\* Mutant: winners that were already fuzzed are not favored again.
GrabbedUnfuzzed(b) ==
  top_rated[b] # Nil /\ b \in temp_v /\ ~was_fuzzed[top_rated[b]]

Grabbed(b) == top_rated[b] # Nil /\ b \in temp_v

CullByte ==
  /\ pc = "cull" /\ scan \in Bytes
  /\ IF Grabbed(scan)
     THEN LET w == top_rated[scan] IN
          /\ temp_v' = temp_v \ trace_mini[w]
          /\ favored' = [favored EXCEPT ![w] = TRUE]
          /\ queued_favored' = queued_favored + 1
          /\ pending_favored' = pending_favored + (IF was_fuzzed[w] THEN 0 ELSE 1)
     ELSE UNCHANGED <<culled, pending_favored>>
  /\ scan' = scan + 1
  /\ UNCHANGED <<queued_paths, testcase, fav_factor, calib, trim_done, winners,
                 was_fuzzed, pending_not_fuzzed, queue_cur, stop_soon, pc, call>>

\* A new cycle starts from the head of the queue; otherwise queue_cur is next.
CullReturn ==
  /\ \/ pc = "cull" /\ scan = MapSize
     \/ pc = "loop" /\ ~stop_soon /\ ~score_changed
  /\ pc' = "turn" /\ scan' = 0 /\ temp_v' = {}
  /\ queue_cur' = IF queue_cur = Nil THEN 0 ELSE queue_cur
  /\ UNCHANGED <<queued_paths, testcase, fav_factor, calib, trim_done, winners,
                 favored, queued_favored, fuzzed, stop_soon, call>>

-----------------------------------------------------------------------------
(* fuzz_one (pilot_fuzzing and core_fuzzing) on queue_cur.                 *)

\* Mutant: the end of the queue is not noticed.
NextEntryUnchecked == queue_cur + 1

\* Mutant: the last entry is taken for the end of the queue.
NextEntryShort == IF queue_cur + 2 < queued_paths THEN queue_cur + 1 ELSE Nil

\* What the queue loop goes to when fuzz_one returns.
NextEntry == IF queue_cur + 1 < queued_paths THEN queue_cur + 1 ELSE Nil

Advance ==
  /\ pc' = IF stop_soon THEN "stopped" ELSE "loop"
  /\ queue_cur' = IF stop_soon THEN queue_cur ELSE NextEntry

\* The dice (UR) may skip an entry that is not a pending favorite while there
\* is one, or that is not favored when the queue is long enough.
MaySkip(q) ==
  IF pending_favored > 0
  THEN was_fuzzed[q] \/ ~favored[q]
  ELSE ~favored[q] /\ queued_paths > SkipThreshold

SkipEntry ==
  /\ pc = "turn" /\ MaySkip(queue_cur)
  /\ Advance
  /\ UNCHANGED <<queued_paths, testcase, fav_factor, calib, trim_done, winners,
                 culled, fuzzed, stop_soon, scan, call>>

\* key_module = 2: fuzz_one only updates the swarm, the entry is passed over.
PsoTurn ==
  /\ pc = "turn"
  /\ Advance
  /\ UNCHANGED <<queued_paths, testcase, fav_factor, calib, trim_done, winners,
                 culled, fuzzed, stop_soon, scan, call>>

EnterFuzz ==
  /\ pc = "turn"
  /\ pc' = IF cal_failed[queue_cur] = 0 THEN "trim"
           ELSE IF cal_failed[queue_cur] < CalChances THEN "recalibrate"
           ELSE "abandon"
  /\ UNCHANGED <<queued_paths, testcase, fav_factor, calib, trim_done, winners,
                 culled, fuzzed, queue_cur, stop_soon, scan, call>>

\* trace_bits is what the last run of the previous entry left there.
Recalibrate ==
  /\ pc = "recalibrate" /\ ~stop_soon
  /\ \E stale \in Traces : \E seen \in (SUBSET behav[queue_cur]) \ {{}} :
       /\ Measure(queue_cur, exec_cksum[queue_cur], virgin_bits, stale, seen)
       /\ \E last \in seen : Calibrated(queue_cur, last, "trim")
  /\ UNCHANGED <<queued_paths, testcase, trim_done, winners, culled, fuzzed,
                 queue_cur, stop_soon>>

RecalibrateFails ==
  /\ pc = "recalibrate"
  /\ \E stale \in Traces : \E seen \in SUBSET behav[queue_cur] :
       Measure(queue_cur, exec_cksum[queue_cur], virgin_bits, stale, seen)
  /\ CalFailed(queue_cur)
  /\ pc' = "abandon"
  /\ UNCHANGED <<queued_paths, testcase, trim_done, winners, culled, fuzzed,
                 queue_cur, stop_soon, scan, call>>

\* trim_case: nothing to do, or nothing removed.
TrimKeep ==
  /\ pc = "trim" /\ ~stop_soon
  /\ trim_done' = [trim_done EXCEPT ![queue_cur] = TRUE]
  /\ pc' = "havoc"
  /\ UNCHANGED <<queued_paths, testcase, fav_factor, calib, winners, culled,
                 fuzzed, queue_cur, stop_soon, scan, call>>

\* trim_case removed bytes from a file not trimmed before: it is shorter, its
\* runs still may give the trace it was queued with, and that is the trace it
\* is scored by.
TrimWrite ==
  /\ pc = "trim" /\ ~stop_soon /\ ~trim_done[queue_cur]
  /\ \E B \in {B \in Behaviours : exec_cksum[queue_cur] \in B} :
       behav' = [behav EXCEPT ![queue_cur] = B]
  /\ \E f \in FavFactors :
       /\ f <= fav_factor[queue_cur]
       /\ fav_factor' = [fav_factor EXCEPT ![queue_cur] = f]
  /\ trim_done' = [trim_done EXCEPT ![queue_cur] = TRUE]
  /\ CallScore(queue_cur, exec_cksum[queue_cur], "havoc")
  /\ UNCHANGED <<queued_paths, pointer_score, calib, winners, culled, fuzzed,
                 queue_cur, stop_soon>>

\* save_if_interesting: a mutated input made an execution with trace t0 that
\* has_new_bits liked (a new byte, or a new hit count of a known one).  It is
\* queued and calibrated on the spot.  (Imports by sync_fuzzers, made between two
\* turns of the loop, are left out.)
Discover(B, t0, p, seen) ==
  LET q == queued_paths IN
  /\ pc = "havoc" /\ ~stop_soon /\ queued_paths < MaxEntries
  /\ t0 \in B /\ seen \subseteq B
  /\ queued_paths' = queued_paths + 1
  /\ pending_not_fuzzed' = pending_not_fuzzed + 1
  /\ behav' = [behav EXCEPT ![q] = B]
  /\ pointer_score' = [pointer_score EXCEPT ![q] = p]
  /\ Measure(q, t0, virgin_bits \ t0, t0, seen)
  /\ UNCHANGED <<trim_done, winners, culled, was_fuzzed, pending_favored,
                 queue_cur, stop_soon>>

FindNew ==
  \E B \in Behaviours, p \in PointerScores : \E t0 \in B, seen \in (SUBSET B) \ {{}} :
    /\ Discover(B, t0, p, seen)
    /\ \E last \in seen : Calibrated(queued_paths, last, "havoc")

\* Mutant: a failed calibration falls through to update_bitmap_score.
FindNewFailsScored ==
  \E B \in Behaviours, p \in PointerScores : \E t0 \in B, seen \in SUBSET B :
    /\ Discover(B, t0, p, seen)
    /\ CalFailed(queued_paths)
    /\ CallScore(queued_paths, t0, "havoc")

FindNewFails ==
  \E B \in Behaviours, p \in PointerScores : \E t0 \in B, seen \in SUBSET B :
    /\ Discover(B, t0, p, seen)
    /\ CalFailed(queued_paths)
    /\ UNCHANGED <<pc, scan, call>>

FirstPass(q) == ~stop_soon /\ cal_failed[q] = 0 /\ ~was_fuzzed[q]

\* Mutant: a favorite that has been fuzzed stays pending.
MarkFuzzedOnly(q) ==
  /\ was_fuzzed' = [was_fuzzed EXCEPT ![q] = TRUE]
  /\ pending_not_fuzzed' = pending_not_fuzzed - 1
  /\ pending_favored' = pending_favored

MarkFuzzed(q) ==
  /\ was_fuzzed' = [was_fuzzed EXCEPT ![q] = TRUE]
  /\ pending_not_fuzzed' = pending_not_fuzzed - 1
  /\ pending_favored' = pending_favored - (IF favored[q] THEN 1 ELSE 0)

\* abandon_entry: the end of fuzz_one.
Abandon ==
  /\ \/ pc \in {"havoc", "abandon"}
     \/ pc \in {"trim", "recalibrate"} /\ stop_soon
  /\ IF FirstPass(queue_cur) THEN MarkFuzzed(queue_cur) ELSE UNCHANGED fuzzed
  /\ Advance
  /\ UNCHANGED <<queued_paths, testcase, fav_factor, calib, trim_done, winners,
                 culled, stop_soon, scan, call>>

-----------------------------------------------------------------------------
(* handle_stop_sig; what is running notices it at its next test.  The      *)
(* limits main looks at after an entry (exit_1, most_time) stop it too.    *)

Stop ==
  /\ pc # "stopped" /\ ~stop_soon
  /\ stop_soon' = TRUE
  /\ UNCHANGED <<queued_paths, testcase, fav_factor, calib, trim_done, winners,
                 culled, fuzzed, queue_cur, pc, scan, call>>

\* perform_dry_run and main leave.
Leave ==
  /\ stop_soon /\ pc \in {"dry", "dry_next", "loop"}
  /\ pc' = "stopped"
  /\ UNCHANGED <<queued_paths, testcase, fav_factor, calib, trim_done, winners,
                 culled, fuzzed, queue_cur, stop_soon, scan, call>>

DryRun   == DryCalibrate \/ DrySkip \/ DryFatal \/ DryNext
Score    == ScoreByte \/ ScoreReturn
Cull     == CullBegin \/ CullByte \/ CullReturn
FuzzOne  == \/ SkipEntry \/ PsoTurn \/ EnterFuzz \/ Recalibrate \/ RecalibrateFails
            \/ TrimKeep \/ TrimWrite \/ FindNew \/ FindNewFails \/ Abandon
Terminating == pc = "stopped" /\ UNCHANGED vars
Next == DryRun \/ Score \/ Cull \/ FuzzOne \/ Stop \/ Leave \/ Terminating

Spec == Init /\ [][Next]_vars

\* The program keeps running; the dice (a skip has probability below one) and
\* the clock (when a swarm update falls due) do not forever hit the same entry.
Running == DryRun \/ Score \/ Cull \/ FuzzOne \/ Leave
FairSpec == /\ Spec
            /\ WF_vars(Running)
            /\ \A q \in Entries : SF_vars(EnterFuzz /\ queue_cur = q)

-----------------------------------------------------------------------------
(* Types.                                                                  *)

Pcs == {"dry", "dry_next", "score", "loop", "cull", "turn", "recalibrate",
        "trim", "havoc", "abandon", "stopped"}

\* Every variable keeps its type; a byte index stays inside the map.
TypeOK ==
  /\ queued_paths \in 1 .. MaxEntries
  /\ behav \in [Entries -> SUBSET Traces]
  /\ pointer_score \in [Entries -> Nat]
  /\ fav_factor \in [Entries -> Nat]
  /\ exec_cksum \in [Entries -> (SUBSET Bytes) \cup {Nil}]
  /\ cal_failed \in [Entries -> Nat]
  /\ trim_done \in [Entries -> BOOLEAN]
  /\ was_fuzzed \in [Entries -> BOOLEAN]
  /\ favored \in [Entries -> BOOLEAN]
  /\ tc_ref \in [Entries -> Int]
  /\ trace_mini \in [Entries -> (SUBSET Bytes) \cup {Nil}]
  /\ top_rated \in [Bytes -> Entries \cup {Nil}]
  /\ virgin_bits \in SUBSET Bytes
  /\ var_bytes \in SUBSET Bytes
  /\ score_changed \in BOOLEAN
  /\ queued_favored \in Nat
  /\ pending_favored \in Int
  /\ pending_not_fuzzed \in Int
  /\ queue_cur \in Entries \cup {Nil}
  /\ stop_soon \in BOOLEAN
  /\ pc \in Pcs
  /\ scan \in 0 .. MapSize
  /\ q_arg \in Entries
  /\ trace_bits \in SUBSET Bytes
  /\ ret \in {"dry_next", "trim", "havoc"}
  /\ temp_v \in SUBSET Bytes

-----------------------------------------------------------------------------
(* Safety.                                                                 *)

WonBytes(q) == {b \in Bytes : top_rated[b] = q}

\* tc_ref of an entry is the number of bytes it is the winner of: the count
\* update_bitmap_score decrements never runs ahead of or behind top_rated.
TcRefExact == \A q \in Entries : tc_ref[q] = Cardinality(WonBytes(q))

\* An entry has its compacted trace exactly while it is the winner of some
\* byte, so cull_queue never reads a freed trace and none is leaked.
MiniKept == \A q \in Entries : trace_mini[q] # Nil <=> WonBytes(q) # {}

\* Only an entry whose calibration succeeded is ever a winner or favored:
\* pending_favored never counts an entry fuzz_one will refuse to fuzz.
FavoredIsFuzzable ==
  \A q \in Entries : favored[q] \/ WonBytes(q) # {} =>
    q \in Queue /\ cal_failed[q] = 0 /\ exec_cksum[q] # Nil

\* Deterministic target: after cull_queue the favored entries together hit
\* every byte that has a winner.
FavoredCover ==
  pc \notin {"cull", "score"} /\ ~score_changed =>
    \A b \in Bytes : top_rated[b] # Nil =>
      \E q \in Queue : favored[q] /\ b \in exec_cksum[q]

\* pending_favored is the number of favored entries not fuzzed yet, the number
\* fuzz_one takes to mean there is something to skip to, and pending_not_fuzzed
\* that of queued entries it has not been through, whatever failed or was
\* abandoned on the way: neither unsigned counter wraps.
PendingCountersExact ==
  /\ pending_favored = Cardinality({q \in Entries : favored[q] /\ ~was_fuzzed[q]})
  /\ pending_not_fuzzed = Cardinality({q \in Queue : ~was_fuzzed[q]})

\* Deterministic target: a byte some run hit has a winner, unless each entry
\* that hits it failed its calibration.
CalibratedBytesWon ==
  pc \in {"loop", "cull", "turn", "trim", "havoc"} =>
    \A b \in Bytes \ virgin_bits : top_rated[b] = Nil =>
      \A q \in Queue : b \in UNION behav[q] => cal_failed[q] > 0 \/ exec_cksum[q] = Nil

-----------------------------------------------------------------------------
(* Liveness.                                                               *)

\* A favored entry that was not fuzzed gets its turn, unless the next culls
\* drop it from the favorites or the program is stopped: new arrivals, skips
\* and swarm updates cannot starve it.
FavoredGetsFuzzed ==
  \A q \in Entries :
    favored[q] /\ ~was_fuzzed[q] ~> was_fuzzed[q] \/ ~favored[q] \/ pc = "stopped"
=============================================================================
