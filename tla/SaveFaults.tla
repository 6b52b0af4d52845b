----------------------------- MODULE SaveFaults -----------------------------
(***************************************************************************)
(* What becomes of one execution of a mutated input: common_fuzz_stuff     *)
(* decides whether to go on with the queue entry, save_if_interesting      *)
(* whether the input is kept as a discovery, a hang or a crash.            *)
(*                                                                         *)
(* A trace is the set of map bytes that were hit; a virgin map the set of  *)
(* marks not seen yet.  A mark of a fault is a byte with whether it was    *)
(* hit (simplify_trace), so a trace that misses a byte every earlier fault *)
(* had is new as well.  The target is deterministic: an input always ends  *)
(* in the same way, but a slow one only under the longer of the timeouts.  *)
(***************************************************************************)
EXTENDS Naturals, Sequences, FiniteSets

CONSTANTS
  Inputs,           \* test cases a mutation may produce
  Edges,            \* bytes of the coverage map
  KeepUniqueHang,   \* KEEP_UNIQUE_HANG
  KeepUniqueCrash,  \* KEEP_UNIQUE_CRASH
  TmoutLimit        \* TMOUT_LIMIT

ASSUME InputsAssumption == IsFiniteSet(Inputs)
ASSUME EdgesAssumption == IsFiniteSet(Edges)
ASSUME LimitsAssumption ==
  KeepUniqueHang \in Nat /\ KeepUniqueCrash \in Nat /\ TmoutLimit \in Nat

Traces == (SUBSET Edges) \ {{}}
Marks  == Edges \X BOOLEAN
Faults == {"none", "tmout", "crash"}

\* What an input does within exec_tmout, and what within hang_tmout.
Behaviours ==
  {[short |-> f, long |-> f, trace |-> t, later |-> t] : f \in {"none", "crash"}, t \in Traces}
  \cup {b \in [short : {"tmout"}, long : Faults, trace : Traces, later : Traces] :
          b.trace \subseteq b.later}

VARIABLES
  behav,           \* what each input does
  crash_mode,      \* the fault that counts as normal: "crash" with -C
  generous,        \* exec_tmout >= hang_tmout
  virgin_bits, virgin_tmout, virgin_crash,
  queued,          \* inputs appended to the queue
  hangs, crashes,  \* inputs in hangs/ and crashes/, in the order of their ids
  subseq_tmouts, skip_requested, stop_soon,
  pc, input, fault, trace_bits,
  streak,          \* runs of the entry at hand that timed out, up to the last one
  examined         \* inputs save_if_interesting has returned from

target == <<behav, crash_mode, generous>>
maps   == <<virgin_bits, virgin_tmout, virgin_crash>>
kept   == <<queued, hangs, crashes>>
signal == <<skip_requested, stop_soon>>
counts == <<subseq_tmouts, streak>>
run    == <<input, fault, trace_bits>>
vars   == <<target, maps, kept, signal, counts, pc, run, examined>>

Init ==
  /\ behav \in [Inputs -> Behaviours]
  /\ crash_mode \in {"none", "crash"} /\ generous \in BOOLEAN
  /\ virgin_bits = Edges /\ virgin_tmout = Marks /\ virgin_crash = Marks
  /\ queued = {} /\ hangs = <<>> /\ crashes = <<>>
  /\ subseq_tmouts = 0 /\ streak = 0
  /\ skip_requested = FALSE /\ stop_soon = FALSE
  /\ pc = "stage" /\ examined = {}
  /\ input \in Inputs /\ fault = "none" /\ trace_bits = {}

-----------------------------------------------------------------------------
(* common_fuzz_stuff                                                       *)

\* run_target; with the server killed by Ctrl-C it returns FAULT_NONE.
Run(i, limit) ==
  IF stop_soon THEN fault' = "none" /\ trace_bits' = {}
  ELSE IF limit = "short"
       THEN fault' = behav[i].short /\ trace_bits' = behav[i].trace
       ELSE fault' = behav[i].long /\ trace_bits' = behav[i].later

Execute ==
  /\ pc = "stage"
  /\ \E i \in Inputs : input' = i /\ Run(i, IF generous THEN "long" ELSE "short")
  /\ streak' = IF fault' = "tmout" THEN streak + 1 ELSE 0
  /\ pc' = "ran"
  /\ UNCHANGED <<target, maps, kept, signal, subseq_tmouts, examined>>

\* return 1 to fuzz_one, which takes the next entry unless it is to stop.
Bail ==
  /\ pc' = IF stop_soon THEN "stopped" ELSE "stage"
  /\ UNCHANGED <<target, maps, kept, stop_soon, run, examined>>

BailStopped == pc = "ran" /\ stop_soon /\ Bail /\ UNCHANGED <<skip_requested, counts>>

\* Mutant: a run that ends does not break the series of timeouts.
TimeoutsAddedUp(t) == IF t THEN subseq_tmouts + 1 ELSE subseq_tmouts

Timeouts(t) == IF t THEN subseq_tmouts + 1 ELSE 0

TooManyTimeouts ==
  /\ pc = "ran" /\ ~stop_soon
  /\ fault = "tmout" /\ subseq_tmouts > TmoutLimit
  /\ subseq_tmouts' = 0 /\ streak' = 0
  /\ Bail /\ UNCHANGED skip_requested

SkipEntry ==
  /\ pc = "ran" /\ ~stop_soon /\ skip_requested
  /\ ~(fault = "tmout" /\ subseq_tmouts > TmoutLimit)
  /\ skip_requested' = FALSE
  /\ subseq_tmouts' = 0 /\ streak' = 0
  /\ Bail

\* fuzz_one has got through the entry and takes the next one.
NextEntry ==
  /\ pc = "stage" /\ ~stop_soon /\ subseq_tmouts > 0
  /\ subseq_tmouts' = 0 /\ streak' = 0
  /\ UNCHANGED <<target, maps, kept, signal, pc, run, examined>>

Proceed ==
  /\ pc = "ran" /\ ~stop_soon /\ ~skip_requested
  /\ ~(fault = "tmout" /\ subseq_tmouts > TmoutLimit)
  /\ subseq_tmouts' = Timeouts(fault = "tmout")
  /\ pc' = "save"
  /\ UNCHANGED <<target, maps, kept, signal, streak, run, examined>>

-----------------------------------------------------------------------------
(* save_if_interesting                                                     *)

\* return keeping; the stage, or a new entry, goes on.
Return ==
  /\ pc' = "stage" /\ examined' = examined \cup {input}
  /\ UNCHANGED <<target, signal, counts, input, fault>>

NotInteresting ==
  /\ pc = "save" /\ fault = crash_mode /\ trace_bits \cap virgin_bits = {}
  /\ Return /\ UNCHANGED <<maps, kept, trace_bits>>

\* add_to_queue and calibrate_case, which runs the input again.
Discover ==
  /\ pc = "save" /\ fault = crash_mode /\ trace_bits \cap virgin_bits # {}
  /\ virgin_bits' = virgin_bits \ trace_bits
  /\ queued' = queued \cup {input}
  /\ trace_bits' \in IF stop_soon THEN SUBSET trace_bits ELSE {trace_bits}
  /\ pc' = "switch"
  /\ UNCHANGED <<target, virgin_tmout, virgin_crash, hangs, crashes, signal,
                 counts, input, fault, examined>>

OtherFault ==
  /\ pc = "save" /\ fault # crash_mode
  /\ pc' = "switch"
  /\ UNCHANGED <<target, maps, kept, signal, counts, run, examined>>

NoFault ==
  /\ pc = "switch" /\ fault = "none"
  /\ Return /\ UNCHANGED <<maps, kept, trace_bits>>

\* simplify_trace
Simplified(t) == {<<e, e \in t>> : e \in Edges}

TooManyHangs ==
  /\ pc = "switch" /\ fault = "tmout" /\ Len(hangs) >= KeepUniqueHang
  /\ Return /\ UNCHANGED <<maps, kept, trace_bits>>

KnownHang ==
  /\ pc = "switch" /\ fault = "tmout" /\ Len(hangs) < KeepUniqueHang
  /\ Simplified(trace_bits) \cap virgin_tmout = {}
  /\ Return /\ UNCHANGED <<maps, kept, trace_bits>>

\* Mutant: the limit of kept hangs is not looked at.
NewHangUnlimited ==
  /\ pc = "switch" /\ fault = "tmout"
  /\ Simplified(trace_bits) \cap virgin_tmout # {}
  /\ virgin_tmout' = virgin_tmout \ Simplified(trace_bits)
  /\ pc' = IF generous THEN "keep_hang" ELSE "rerun"
  /\ UNCHANGED <<target, virgin_bits, virgin_crash, kept, signal, counts, run, examined>>

\* Mutant: the marks of hangs and crashes are kept in one map.
NewHangSharedMap ==
  /\ pc = "switch" /\ fault = "tmout" /\ Len(hangs) < KeepUniqueHang
  /\ Simplified(trace_bits) \cap virgin_tmout # {}
  /\ virgin_tmout' = virgin_tmout \ Simplified(trace_bits)
  /\ virgin_crash' = virgin_crash \ Simplified(trace_bits)
  /\ pc' = IF generous THEN "keep_hang" ELSE "rerun"
  /\ UNCHANGED <<target, virgin_bits, kept, signal, counts, run, examined>>

\* The marks are used up before it is known whether the hang is genuine.
NewHang ==
  /\ pc = "switch" /\ fault = "tmout" /\ Len(hangs) < KeepUniqueHang
  /\ Simplified(trace_bits) \cap virgin_tmout # {}
  /\ virgin_tmout' = virgin_tmout \ Simplified(trace_bits)
  /\ pc' = IF generous THEN "keep_hang" ELSE "rerun"
  /\ UNCHANGED <<target, virgin_bits, virgin_crash, kept, signal, counts, run, examined>>

Rerun ==
  /\ pc = "rerun"
  /\ Run(input, "long")
  /\ pc' = "reran"
  /\ UNCHANGED <<target, maps, kept, signal, counts, input, examined>>

\* Mutant: what the second run ended with is not looked at.
GenuineUnchecked == pc = "reran" /\ ~stop_soon /\ fault # "crash"

Genuine == pc = "reran" /\ ~stop_soon /\ fault = "tmout"

NotGenuine ==
  /\ pc = "reran" /\ (stop_soon \/ fault = "none")
  /\ Return /\ UNCHANGED <<maps, kept, trace_bits>>

KeepHang ==
  /\ Genuine \/ pc = "keep_hang"
  /\ hangs' = Append(hangs, input)
  /\ Return /\ UNCHANGED <<maps, queued, crashes, trace_bits>>

\* The second run crashed: goto keep_as_crash.
CrashUncovered ==
  /\ pc = "reran" /\ ~stop_soon /\ fault = "crash"
  /\ pc' = "switch"
  /\ UNCHANGED <<target, maps, kept, signal, counts, run, examined>>

TooManyCrashes ==
  /\ pc = "switch" /\ fault = "crash" /\ Len(crashes) >= KeepUniqueCrash
  /\ Return /\ UNCHANGED <<maps, kept, trace_bits>>

\* Mutant: a crash found by the second run is saved whatever is saved already.
KnownCrashSaved ==
  /\ pc = "switch" /\ fault = "crash" /\ Len(crashes) < KeepUniqueCrash
  /\ Simplified(trace_bits) \cap virgin_crash = {}
  /\ crashes' = Append(crashes, input)
  /\ Return /\ UNCHANGED <<maps, queued, hangs, trace_bits>>

KnownCrash ==
  /\ pc = "switch" /\ fault = "crash" /\ Len(crashes) < KeepUniqueCrash
  /\ Simplified(trace_bits) \cap virgin_crash = {}
  /\ Return /\ UNCHANGED <<maps, kept, trace_bits>>

KeepCrash ==
  /\ pc = "switch" /\ fault = "crash" /\ Len(crashes) < KeepUniqueCrash
  /\ Simplified(trace_bits) \cap virgin_crash # {}
  /\ virgin_crash' = virgin_crash \ Simplified(trace_bits)
  /\ crashes' = Append(crashes, input)
  /\ Return /\ UNCHANGED <<virgin_bits, virgin_tmout, queued, hangs, trace_bits>>

-----------------------------------------------------------------------------
(* Signals may arrive between any two steps.                               *)

\* handle_stop_sig
StopSignal ==
  /\ pc # "stopped" /\ ~stop_soon
  /\ stop_soon' = TRUE
  /\ UNCHANGED <<target, maps, kept, skip_requested, counts, pc, run, examined>>

\* handle_skipreq
SkipSignal ==
  /\ pc # "stopped" /\ ~skip_requested
  /\ skip_requested' = TRUE
  /\ UNCHANGED <<target, maps, kept, stop_soon, counts, pc, run, examined>>

Stopped == pc = "stopped" /\ UNCHANGED vars

CommonFuzzStuff == NextEntry \/ Execute \/ BailStopped \/ TooManyTimeouts \/ SkipEntry \/ Proceed
Discovery == NotInteresting \/ Discover \/ OtherFault \/ NoFault
HangCase  == TooManyHangs \/ KnownHang \/ NewHang \/ Rerun \/ NotGenuine \/ KeepHang
CrashCase == CrashUncovered \/ TooManyCrashes \/ KnownCrash \/ KeepCrash
Next == \/ CommonFuzzStuff \/ Discovery \/ HangCase \/ CrashCase
        \/ StopSignal \/ SkipSignal \/ Stopped
Spec == Init /\ [][Next]_vars

-----------------------------------------------------------------------------
(* Properties                                                              *)

\* The first execution of an input, and what identifies its fault.
FirstTrace(i) == IF generous THEN behav[i].later ELSE behav[i].trace
FirstFault(i) == IF generous THEN behav[i].long ELSE behav[i].short
Signature(t)  == {m \in Marks : m[2] = (m[1] \in t)}
CrashMarks(s) == UNION {Signature(behav[s[k]].later) : k \in DOMAIN s}
HangMarks(s)  == UNION {Signature(FirstTrace(s[k])) : k \in DOMAIN s}

\* Every variable has its type, and neither directory exceeds its limit
\* (3466, 3530), nor a series of timeouts the one that ends an entry (4960).
TypeOK ==
  /\ virgin_bits \subseteq Edges /\ virgin_tmout \subseteq Marks /\ virgin_crash \subseteq Marks
  /\ queued \subseteq Inputs /\ examined \subseteq Inputs /\ input \in Inputs
  /\ hangs \in Seq(Inputs) /\ Len(hangs) <= KeepUniqueHang
  /\ crashes \in Seq(Inputs) /\ Len(crashes) <= KeepUniqueCrash
  /\ subseq_tmouts \in 0..(TmoutLimit + 1) /\ streak \in 0..(TmoutLimit + 2)
  /\ skip_requested \in BOOLEAN /\ stop_soon \in BOOLEAN
  /\ pc \in {"stage", "ran", "save", "switch", "rerun", "reran", "keep_hang", "stopped"}
  /\ fault \in Faults /\ trace_bits \subseteq Edges

\* virgin_crash lacks the marks of the crashes in crashes/ and no others, so
\* that no crash passes for known because of something that was not kept:
\* of a hang, of a crash past the limit, of one that was found by a second
\* run.  In crash mode Ctrl-C may cut the trace of a calibration short.
CrashMapExact ==
  ~(stop_soon /\ crash_mode = "crash") => virgin_crash = Marks \ CrashMarks(crashes)

\* Whatever fuzz_one has run and seen crash is told by a file in crashes/:
\* every transition it took, or left out, is that of a saved crash.  (With -C
\* a crash is the normal end, and kept for new bytes only.)
CrashesKept ==
  crash_mode = "none" => \A i \in examined :
    FirstFault(i) = "crash" /\ Len(crashes) < KeepUniqueCrash
      => Signature(behav[i].later) \subseteq CrashMarks(crashes)

\* What is saved differs from everything saved before it, the crashes that a
\* second run uncovered (goto keep_as_crash, 3496) included.
FaultsUnique ==
  /\ \A k \in DOMAIN hangs :
       ~(Signature(FirstTrace(hangs[k])) \subseteq HangMarks(SubSeq(hangs, 1, k - 1)))
  /\ ~(stop_soon /\ crash_mode = "crash") =>
       \A k \in DOMAIN crashes :
         ~(Signature(behav[crashes[k]].later) \subseteq CrashMarks(SubSeq(crashes, 1, k - 1)))

\* A file in hangs/ hangs under the longer timeout too, and one in crashes/
\* crashes, whatever the signals that came between the runs.
FaultsGenuine ==
  /\ \A k \in DOMAIN hangs : behav[hangs[k]].long = "tmout"
  /\ \A k \in DOMAIN crashes : behav[crashes[k]].long = "crash"

\* Without a signal, no entry is given up before TmoutLimit runs of it in a row
\* have timed out (config.h:68): a run that ends sets the count back, what another
\* entry left of it does not count, and a second run by save_if_interesting
\* neither adds to it nor sets it back.  (The code gives up later, two timeouts
\* after that: 4960.)
GivenUpWhenStuck ==
  [][pc = "ran" /\ pc' = "stage" /\ skip_requested' = skip_requested
       => fault = "tmout" /\ streak >= TmoutLimit]_vars

\* Refuted.  README:229: faults are unique "if the associated execution paths
\* involve any state transitions not seen in previously-recorded faults", so
\* that a hang is kept unless hangs that were recorded account for it.
GenuineHangsKept ==
  \A i \in examined :
    behav[i].long = "tmout" /\ ~stop_soon /\ Len(hangs) < KeepUniqueHang
      => Signature(FirstTrace(i)) \subseteq HangMarks(hangs)
=============================================================================
