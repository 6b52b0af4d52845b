-------------------------- MODULE SaveFaultsProofs --------------------------
(***************************************************************************)
(* Proofs about SaveFaults, for any set of inputs, any map and any limits: *)
(* the types, and that what is kept in hangs/ and crashes/ is genuine,     *)
(* unique, and no less than it should be.                                  *)
(***************************************************************************)
EXTENDS SaveFaults, TLAPS

(* Types.                                                                  *)

\* While a hang is looked at again there is room for it.  subseq_tmouts is the
\* number of timeouts in a row, but for the last run as long as common_fuzz_stuff
\* has not counted it.
TypeInv ==
  /\ TypeOK
  /\ behav \in [Inputs -> Behaviours]
  /\ crash_mode \in {"none", "crash"} /\ generous \in BOOLEAN
  /\ pc = "ran" => streak = IF fault = "tmout" THEN subseq_tmouts + 1 ELSE 0
  /\ pc \notin {"ran", "stopped"} => streak = subseq_tmouts
  /\ pc \in {"rerun", "reran", "keep_hang"} => Len(hangs) < KeepUniqueHang

\* A target that does not time out does the same under the longer timeout.
LEMMA BehaviourFacts ==
  ASSUME NEW b \in Behaviours
  PROVE  /\ b.short \in Faults /\ b.long \in Faults
         /\ b.trace \subseteq Edges /\ b.later \subseteq Edges
         /\ b.short # "tmout" => b.long = b.short /\ b.later = b.trace
<1>1. CASE b \in {[short |-> f, long |-> f, trace |-> t, later |-> t] :
                    f \in {"none", "crash"}, t \in Traces}
  BY <1>1 DEF Faults, Traces
<1>2. CASE b \in [short : {"tmout"}, long : Faults, trace : Traces, later : Traces]
  BY <1>2 DEF Faults, Traces
<1> QED BY <1>1, <1>2 DEF Behaviours

LEMMA RunTypes ==
  ASSUME TypeInv, NEW i \in Inputs, NEW l, Run(i, l)
  PROVE  fault' \in Faults /\ trace_bits' \subseteq Edges
<1>1. behav[i] \in Behaviours
  BY DEF TypeInv
<1> QED BY <1>1, BehaviourFacts DEF Run, Faults

LEMMA InitTypes == Init => TypeInv
<1> SUFFICES ASSUME Init PROVE TypeInv
  OBVIOUS
<1>1. <<>> \in Seq(Inputs) /\ Len(<<>>) = 0
  OBVIOUS
<1>2. 0 \in 0..(TmoutLimit + 1) /\ 0 \in 0..(TmoutLimit + 2)
  BY LimitsAssumption
<1>3. skip_requested \in BOOLEAN /\ stop_soon \in BOOLEAN
  BY Zenon DEF Init
<1>4. /\ behav \in [Inputs -> Behaviours] /\ input \in Inputs
      /\ crash_mode \in {"none", "crash"} /\ generous \in BOOLEAN
      /\ virgin_bits = Edges /\ virgin_tmout = Marks /\ virgin_crash = Marks
      /\ queued = {} /\ examined = {} /\ trace_bits = {}
      /\ hangs = <<>> /\ crashes = <<>> /\ subseq_tmouts = 0 /\ streak = 0
      /\ pc = "stage" /\ fault = "none"
  BY DEF Init
<1> QED BY <1>1, <1>2, <1>3, <1>4, LimitsAssumption DEF TypeInv, TypeOK, Faults

LEMMA StuffTypes == TypeInv /\ CommonFuzzStuff => TypeInv'
<1> SUFFICES ASSUME TypeInv, CommonFuzzStuff PROVE TypeInv'
  OBVIOUS
<1> USE LimitsAssumption DEF TypeInv, TypeOK, target, maps, kept, signal, counts, run
<1>1. CASE NextEntry
  BY <1>1 DEF NextEntry
<1>2. CASE Execute
  <2>1. PICK i \in Inputs : input' = i /\ Run(i, IF generous THEN "long" ELSE "short")
    BY <1>2 DEF Execute
  <2>2. fault' \in Faults /\ trace_bits' \subseteq Edges
    BY <2>1, RunTypes
  <2>3. /\ streak' = IF fault' = "tmout" THEN subseq_tmouts + 1 ELSE 0
        /\ streak' \in 0..(TmoutLimit + 2)
    BY <1>2 DEF Execute
  <2> QED BY <1>2, <2>1, <2>2, <2>3 DEF Execute
<1>3. CASE BailStopped
  BY <1>3 DEF BailStopped, Bail
<1>4. CASE TooManyTimeouts
  BY <1>4 DEF TooManyTimeouts, Bail
<1>5. CASE SkipEntry
  <2>1. skip_requested' \in BOOLEAN
    BY <1>5, Zenon DEF SkipEntry
  <2> QED BY <1>5, <2>1 DEF SkipEntry, Bail
<1>6. CASE Proceed
  <2>1. subseq_tmouts' \in 0..(TmoutLimit + 1) /\ streak' = subseq_tmouts'
    BY <1>6 DEF Proceed, Timeouts
  <2> QED BY <1>6, <2>1 DEF Proceed
<1> QED BY <1>1, <1>2, <1>3, <1>4, <1>5, <1>6 DEF CommonFuzzStuff

LEMMA DiscoveryTypes == TypeInv /\ Discovery => TypeInv'
<1> SUFFICES ASSUME TypeInv, Discovery PROVE TypeInv'
  OBVIOUS
<1> USE DEF TypeInv, TypeOK, target, maps, kept, signal, counts, run, Return
<1>1. CASE NotInteresting
  BY <1>1 DEF NotInteresting
<1>2. CASE Discover
  <2>1. trace_bits' \subseteq Edges
    BY <1>2 DEF Discover
  <2> QED BY <1>2, <2>1 DEF Discover
<1>3. CASE OtherFault
  BY <1>3 DEF OtherFault
<1>4. CASE NoFault
  BY <1>4 DEF NoFault
<1> QED BY <1>1, <1>2, <1>3, <1>4 DEF Discovery

LEMMA HangTypes == TypeInv /\ HangCase => TypeInv'
<1> SUFFICES ASSUME TypeInv, HangCase PROVE TypeInv'
  OBVIOUS
<1> USE DEF TypeInv, TypeOK, target, maps, kept, signal, counts, run, Return
<1>1. CASE TooManyHangs
  BY <1>1 DEF TooManyHangs
<1>2. CASE KnownHang
  BY <1>2 DEF KnownHang
<1>3. CASE NewHang
  BY <1>3 DEF NewHang
<1>4. CASE Rerun
  <2>1. fault' \in Faults /\ trace_bits' \subseteq Edges
    BY <1>4, RunTypes DEF Rerun
  <2> QED BY <1>4, <2>1 DEF Rerun
<1>5. CASE NotGenuine
  BY <1>5 DEF NotGenuine
<1>6. CASE KeepHang
  <2>1. hangs' \in Seq(Inputs) /\ Len(hangs') <= KeepUniqueHang
    BY <1>6, LimitsAssumption DEF KeepHang, Genuine
  <2>2. pc \in {"reran", "keep_hang"}
    BY <1>6 DEF KeepHang, Genuine
  <2> QED BY <1>6, <2>1, <2>2 DEF KeepHang
<1> QED BY <1>1, <1>2, <1>3, <1>4, <1>5, <1>6 DEF HangCase

LEMMA CrashTypes == TypeInv /\ CrashCase => TypeInv'
<1> SUFFICES ASSUME TypeInv, CrashCase PROVE TypeInv'
  OBVIOUS
<1> USE DEF TypeInv, TypeOK, target, maps, kept, signal, counts, run, Return
<1>1. CASE CrashUncovered
  BY <1>1 DEF CrashUncovered
<1>2. CASE TooManyCrashes
  BY <1>2 DEF TooManyCrashes
<1>3. CASE KnownCrash
  BY <1>3 DEF KnownCrash
<1>4. CASE KeepCrash
  <2>1. crashes' \in Seq(Inputs) /\ Len(crashes') <= KeepUniqueCrash
    BY <1>4, LimitsAssumption DEF KeepCrash
  <2> QED BY <1>4, <2>1 DEF KeepCrash
<1> QED BY <1>1, <1>2, <1>3, <1>4 DEF CrashCase

LEMMA SignalTypes == TypeInv /\ (StopSignal \/ SkipSignal \/ UNCHANGED vars) => TypeInv'
BY DEF TypeInv, TypeOK, target, maps, kept, signal, counts, run, vars, StopSignal, SkipSignal

LEMMA NextTypes == TypeInv /\ [Next]_vars => TypeInv'
BY StuffTypes, DiscoveryTypes, HangTypes, CrashTypes, SignalTypes DEF Next, Stopped

\* Every variable keeps its type: hangs/ and crashes/ never exceed their
\* limits, although a re-run jumps past one of the checks (3496).
THEOREM TypeCorrect == Spec => []TypeOK
<1>1. TypeInv => TypeOK
  BY DEF TypeInv
<1> QED BY InitTypes, NextTypes, <1>1, PTL DEF Spec

-----------------------------------------------------------------------------
(* What the fuzzer knows of the input it looks at.                         *)

\* A trace and its marks.
LEMMA SimplifiedSignature ==
  ASSUME NEW t \in SUBSET Edges
  PROVE  Simplified(t) = Signature(t) /\ Signature(t) \subseteq Marks
<1>1. Signature(t) \subseteq Marks
  BY DEF Signature
<1>2. ASSUME NEW m \in Simplified(t) PROVE m \in Signature(t)
  <2>1. PICK e \in Edges : m = <<e, e \in t>>
    BY <1>2 DEF Simplified
  <2>2. CASE e \in t
    <3>1. (e \in t) = TRUE
      BY <2>2
    <3>2. m = <<e, TRUE>>
      BY <2>1, <3>1
    <3> QED BY <2>2, <3>2 DEF Signature, Marks
  <2>3. CASE e \notin t
    <3>1. (e \in t) = FALSE
      BY <2>3
    <3>2. m = <<e, FALSE>>
      BY <2>1, <3>1
    <3>3. m \in Marks /\ m[1] = e /\ m[2] = FALSE
      BY <3>2 DEF Marks
    <3>4. m[2] = (m[1] \in t)
      BY <3>1, <3>3
    <3> QED BY <3>3, <3>4 DEF Signature
  <2> QED BY <2>2, <2>3
<1>3. ASSUME NEW m \in Signature(t) PROVE m \in Simplified(t)
  <2>1. m \in Edges \X BOOLEAN /\ m[2] = (m[1] \in t)
    BY <1>3 DEF Signature, Marks
  <2>2. m = <<m[1], m[2]>> /\ m[1] \in Edges
    BY <2>1
  <2>3. m = <<m[1], m[1] \in t>>
    BY <2>1, <2>2
  <2> QED BY <2>2, <2>3 DEF Simplified
<1> QED BY <1>1, <1>2, <1>3

\* Up to the second run fault and trace_bits are of the input's first run, and
\* what the fuzzer looks at as a crash did crash.  With -C, Ctrl-C may stop a
\* calibration and leave part of a trace.
RunInv ==
  LET first == fault = FirstFault(input) /\ trace_bits = FirstTrace(input)
  IN /\ pc = "ran" /\ ~stop_soon => first
     /\ pc \in {"save", "rerun", "keep_hang"} => first
     /\ pc \in {"rerun", "reran", "keep_hang"} => FirstFault(input) = "tmout"
     /\ pc = "keep_hang" => generous
     /\ pc = "reran" /\ ~stop_soon =>
          fault = behav[input].long /\ trace_bits = behav[input].later
     /\ pc = "switch" =>
          /\ fault = "none" => FirstFault(input) = "none"
          /\ fault = "tmout" => first
          /\ fault = "crash" =>
               /\ behav[input].long = "crash"
               /\ trace_bits = behav[input].later \/ (stop_soon /\ crash_mode = "crash")

\* Of an input whose first run crashes the second would crash likewise.
LEMMA FirstRun ==
  ASSUME TypeInv, NEW i \in Inputs
  PROVE  /\ FirstFault(i) \in Faults /\ FirstTrace(i) \subseteq Edges
         /\ behav[i].later \subseteq Edges
         /\ FirstFault(i) # "tmout" =>
              FirstFault(i) = behav[i].long /\ FirstTrace(i) = behav[i].later
         /\ generous => FirstFault(i) = behav[i].long
<1>1. behav[i] \in Behaviours
  BY DEF TypeInv
<1> QED BY <1>1, BehaviourFacts DEF FirstFault, FirstTrace, TypeInv

LEMMA InitRun == Init => RunInv
BY DEF Init, RunInv

LEMMA StuffRun == TypeInv /\ RunInv /\ CommonFuzzStuff => RunInv'
<1> SUFFICES ASSUME TypeInv, RunInv, CommonFuzzStuff PROVE RunInv'
  OBVIOUS
<1> USE DEF target, run, signal, FirstFault, FirstTrace
<1>1. CASE NextEntry
  BY <1>1 DEF NextEntry, RunInv
<1>2. CASE Execute
  <2>1. PICK i \in Inputs : input' = i /\ Run(i, IF generous THEN "long" ELSE "short")
    BY <1>2 DEF Execute
  <2>2. ~stop_soon => fault' = FirstFault(i) /\ trace_bits' = FirstTrace(i)
    BY <2>1 DEF Run
  <2> QED BY <1>2, <2>1, <2>2 DEF Execute, RunInv
<1>3. CASE BailStopped \/ TooManyTimeouts \/ SkipEntry
  BY <1>3 DEF BailStopped, TooManyTimeouts, SkipEntry, Bail, RunInv
<1>4. CASE Proceed
  BY <1>4 DEF Proceed, RunInv
<1> QED BY <1>1, <1>2, <1>3, <1>4 DEF CommonFuzzStuff

LEMMA DiscoveryRun == TypeInv /\ RunInv /\ Discovery => RunInv'
<1> SUFFICES ASSUME TypeInv, RunInv, Discovery PROVE RunInv'
  OBVIOUS
<1> USE DEF target, run, signal, Return
<1>1. CASE NotInteresting \/ NoFault
  BY <1>1 DEF NotInteresting, NoFault, RunInv
<1>2. CASE Discover \/ OtherFault
  <2>1. pc = "save" /\ fault = FirstFault(input) /\ trace_bits = FirstTrace(input)
    BY <1>2 DEF Discover, OtherFault, RunInv
  <2>2. FirstFault(input)' = FirstFault(input) /\ FirstTrace(input)' = FirstTrace(input)
    BY <1>2 DEF Discover, OtherFault, FirstFault, FirstTrace
  <2>3. input \in Inputs /\ crash_mode \in {"none", "crash"}
    BY DEF TypeInv, TypeOK
  <2>4. CASE Discover
    <3>1. fault = crash_mode /\ (trace_bits' = trace_bits \/ stop_soon)
      BY <2>4 DEF Discover
    <3> QED BY <2>1, <2>2, <2>3, <2>4, <3>1, FirstRun DEF Discover, RunInv
  <2>5. CASE OtherFault
    BY <2>1, <2>2, <2>3, <2>5, FirstRun DEF OtherFault, RunInv
  <2> QED BY <1>2, <2>4, <2>5
<1> QED BY <1>1, <1>2 DEF Discovery

LEMMA HangRun == TypeInv /\ RunInv /\ HangCase => RunInv'
<1> SUFFICES ASSUME TypeInv, RunInv, HangCase PROVE RunInv'
  OBVIOUS
<1> USE DEF target, run, signal, Return
<1>1. CASE TooManyHangs \/ KnownHang \/ NotGenuine \/ KeepHang
  BY <1>1 DEF TooManyHangs, KnownHang, NotGenuine, KeepHang, RunInv
<1>2. CASE NewHang
  BY <1>2 DEF NewHang, RunInv, FirstFault, FirstTrace
<1>3. CASE Rerun
  BY <1>3 DEF Rerun, Run, RunInv, FirstFault
<1> QED BY <1>1, <1>2, <1>3 DEF HangCase

LEMMA CrashRun == TypeInv /\ RunInv /\ CrashCase => RunInv'
<1> SUFFICES ASSUME TypeInv, RunInv, CrashCase PROVE RunInv'
  OBVIOUS
<1> USE DEF target, run, signal, Return
<1>1. CASE CrashUncovered
  BY <1>1 DEF CrashUncovered, RunInv
<1>2. CASE TooManyCrashes \/ KnownCrash \/ KeepCrash
  BY <1>2 DEF TooManyCrashes, KnownCrash, KeepCrash, RunInv
<1> QED BY <1>1, <1>2 DEF CrashCase

LEMMA SignalRun == TypeInv /\ RunInv /\ (StopSignal \/ SkipSignal \/ UNCHANGED vars) => RunInv'
BY DEF TypeInv, TypeOK, RunInv, target, maps, kept, run, vars, StopSignal, SkipSignal,
       signal, FirstFault, FirstTrace

LEMMA NextRun == TypeInv /\ RunInv /\ [Next]_vars => RunInv'
BY StuffRun, DiscoveryRun, HangRun, CrashRun, SignalRun DEF Next, Stopped

-----------------------------------------------------------------------------
(* Hangs and crashes that are kept.                                        *)

HangSig  == [i \in Inputs |-> Signature(FirstTrace(i))]
CrashSig == [i \in Inputs |-> Signature(behav[i].later)]

\* m is a mark of none of the inputs of s; each has one the earlier lack.
Missing(m, s, f) == \A k \in DOMAIN s : m \notin f[s[k]]
Distinct(s, f) == \A k \in DOMAIN s : \E m \in f[s[k]] : \A j \in 1..(k - 1) : m \notin f[s[j]]

LEMMA AppendMissing ==
  ASSUME NEW s \in Seq(Inputs), NEW x \in Inputs, NEW f, NEW m
  PROVE  Missing(m, Append(s, x), f) <=> Missing(m, s, f) /\ m \notin f[x]
<1>1. DOMAIN Append(s, x) = 1..(Len(s) + 1) /\ DOMAIN s = 1..Len(s) /\ Len(s) \in Nat
  OBVIOUS
<1>2. Append(s, x)[Len(s) + 1] = x /\ \A k \in 1..Len(s) : Append(s, x)[k] = s[k]
  OBVIOUS
<1> QED BY <1>1, <1>2 DEF Missing

LEMMA AppendDistinct ==
  ASSUME NEW s \in Seq(Inputs), NEW x \in Inputs, NEW f, Distinct(s, f),
         NEW m \in f[x], Missing(m, s, f)
  PROVE  Distinct(Append(s, x), f)
<1>1. DOMAIN Append(s, x) = 1..(Len(s) + 1) /\ DOMAIN s = 1..Len(s) /\ Len(s) \in Nat
  OBVIOUS
<1>2. Append(s, x)[Len(s) + 1] = x /\ \A k \in 1..Len(s) : Append(s, x)[k] = s[k]
  OBVIOUS
<1> SUFFICES ASSUME NEW k \in DOMAIN Append(s, x)
             PROVE  \E n \in f[Append(s, x)[k]] :
                      \A j \in 1..(k - 1) : n \notin f[Append(s, x)[j]]
  BY DEF Distinct
<1>3. CASE k = Len(s) + 1
  <2>1. \A j \in 1..(k - 1) : m \notin f[Append(s, x)[j]]
    BY <1>1, <1>2, <1>3 DEF Missing
  <2> QED BY <2>1, <1>2, <1>3
<1>4. CASE k \in DOMAIN s
  <2>1. PICK n \in f[s[k]] : \A j \in 1..(k - 1) : n \notin f[s[j]]
    BY <1>4 DEF Distinct
  <2>2. \A j \in 1..(k - 1) : j \in 1..Len(s)
    BY <1>1, <1>4
  <2> QED BY <1>1, <1>2, <1>4, <2>1, <2>2
<1> QED BY <1>1, <1>3, <1>4

\* What is unique by Distinct is so in the words of FaultsUnique.
LEMMA DistinctMarks ==
  ASSUME NEW s \in Seq(Inputs), NEW f, Distinct(s, f), NEW k \in DOMAIN s
  PROVE  ~(f[s[k]] \subseteq UNION {f[SubSeq(s, 1, k - 1)[j]] : j \in DOMAIN SubSeq(s, 1, k - 1)})
<1>1. PICK m \in f[s[k]] : \A j \in 1..(k - 1) : m \notin f[s[j]]
  BY DEF Distinct
<1>2. DOMAIN SubSeq(s, 1, k - 1) = 1..(k - 1)
  OBVIOUS
<1>3. \A j \in 1..(k - 1) : SubSeq(s, 1, k - 1)[j] = s[j]
  OBVIOUS
<1>4. \A j \in DOMAIN SubSeq(s, 1, k - 1) : m \notin f[SubSeq(s, 1, k - 1)[j]]
  BY <1>1, <1>2, <1>3
<1> QED BY <1>1, <1>4

\* The hangs: genuine, each new when it was kept, their marks used up; and the
\* suspect is new although its marks are used up already.
HangInv ==
  /\ \A k \in DOMAIN hangs : behav[hangs[k]].long = "tmout"
  /\ Distinct(hangs, HangSig)
  /\ \A m \in virgin_tmout : Missing(m, hangs, HangSig)
  /\ pc \in {"rerun", "reran", "keep_hang"} =>
       /\ HangSig[input] \cap virgin_tmout = {}
       /\ \E m \in HangSig[input] : Missing(m, hangs, HangSig)

\* The crashes: genuine, each new when it was kept, and virgin_crash what none
\* of them has.
CrashInv ==
  /\ \A k \in DOMAIN crashes : behav[crashes[k]].long = "crash"
  /\ ~(stop_soon /\ crash_mode = "crash") =>
       /\ Distinct(crashes, CrashSig)
       /\ \A m \in Marks : m \in virgin_crash <=> Missing(m, crashes, CrashSig)

\* A crash that was looked at has no mark that no kept one has.
KeptInv ==
  crash_mode = "none" => \A i \in examined :
    FirstFault(i) = "crash" /\ Len(crashes) < KeepUniqueCrash
      => \A m \in CrashSig[i] : ~Missing(m, crashes, CrashSig)

LEMMA InitKept == Init => HangInv /\ CrashInv /\ KeptInv
BY DEF Init, HangInv, CrashInv, KeptInv, Distinct, Missing

\* What the target does never changes.
LEMMA SameTarget ==
  ASSUME UNCHANGED target
  PROVE  HangSig' = HangSig /\ CrashSig' = CrashSig
BY DEF target, HangSig, CrashSig, FirstTrace

LEMMA TargetKept == [Next]_vars => UNCHANGED target
BY DEF Next, CommonFuzzStuff, Discovery, HangCase, CrashCase, vars, NextEntry, Execute,
  BailStopped, TooManyTimeouts, SkipEntry, Proceed, Bail, NotInteresting, Discover, OtherFault,
  NoFault, Return, TooManyHangs, KnownHang, NewHang, Rerun, NotGenuine, KeepHang,
  CrashUncovered, TooManyCrashes, KnownCrash, KeepCrash, StopSignal, SkipSignal, Stopped

\* A step that keeps no hang, uses up no mark and begins no second look.
LEMMA HangsAlone ==
  ASSUME TypeInv, HangInv, UNCHANGED <<target, hangs, virgin_tmout>>,
         \/ pc' \notin {"rerun", "reran", "keep_hang"}
         \/ input' = input /\ pc \in {"rerun", "reran", "keep_hang"}
  PROVE  HangInv'
<1>1. HangSig' = HangSig /\ behav' = behav
  BY SameTarget DEF target
<1> QED BY <1>1 DEF HangInv, Missing, Distinct

LEMMA HangCaseHangs == TypeInv /\ RunInv /\ HangInv /\ HangCase => HangInv'
<1> SUFFICES ASSUME TypeInv, RunInv, HangInv, HangCase PROVE HangInv'
  OBVIOUS
<1>0. hangs \in Seq(Inputs) /\ input \in Inputs /\ trace_bits \in SUBSET Edges
  BY DEF TypeInv, TypeOK
<1>1. CASE TooManyHangs \/ KnownHang \/ NotGenuine
  BY <1>1, HangsAlone DEF TooManyHangs, KnownHang, NotGenuine, Return, maps, kept, target
<1>2. CASE Rerun
  BY <1>2, HangsAlone DEF Rerun, maps, kept, target
<1>3. CASE NewHang
  <2>1. UNCHANGED <<target, hangs, input>> /\ virgin_tmout' = virgin_tmout \ Simplified(trace_bits)
    BY <1>3 DEF NewHang, kept, run
  <2>2. HangSig' = HangSig /\ behav' = behav
    BY <2>1, SameTarget DEF target
  <2>3. Simplified(trace_bits) = HangSig[input]
    BY <1>0, <1>3, SimplifiedSignature DEF NewHang, RunInv, HangSig
  <2>4. PICK m \in HangSig[input] : m \in virgin_tmout
    BY <1>3, <2>3 DEF NewHang
  <2>5. Missing(m, hangs, HangSig)
    BY <2>4 DEF HangInv
  <2> QED BY <2>1, <2>2, <2>3, <2>5 DEF HangInv, Missing, Distinct
<1>4. CASE KeepHang
  <2>1. /\ UNCHANGED <<target, virgin_tmout>> /\ hangs' = Append(hangs, input) /\ pc' = "stage"
        /\ pc \in {"reran", "keep_hang"}
    BY <1>4 DEF KeepHang, Genuine, Return, maps
  <2>2. HangSig' = HangSig /\ behav' = behav
    BY <2>1, SameTarget DEF target
  <2>3. PICK m \in HangSig[input] : Missing(m, hangs, HangSig)
    BY <2>1 DEF HangInv
  <2>4. Distinct(hangs', HangSig)
    BY <1>0, <2>1, <2>3, AppendDistinct DEF HangInv
  <2>5. \A n \in virgin_tmout : Missing(n, hangs', HangSig)
    BY <1>0, <2>1, AppendMissing DEF HangInv
  <2>6. behav[input].long = "tmout"
    BY <1>0, <1>4, FirstRun DEF KeepHang, Genuine, RunInv
  <2>7. \A k \in DOMAIN hangs' : behav[hangs'[k]].long = "tmout"
    BY <1>0, <2>1, <2>6 DEF HangInv
  <2> QED BY <2>1, <2>2, <2>4, <2>5, <2>7 DEF HangInv, Missing, Distinct
<1> QED BY <1>1, <1>2, <1>3, <1>4 DEF HangCase

LEMMA NextHangs == TypeInv /\ RunInv /\ HangInv /\ [Next]_vars => HangInv'
<1> SUFFICES ASSUME TypeInv, RunInv, HangInv, [Next]_vars PROVE HangInv'
  OBVIOUS
<1> USE DEF maps, kept, run, target
<1>1. CASE CommonFuzzStuff
  BY <1>1, HangsAlone DEF CommonFuzzStuff, NextEntry, Execute, BailStopped,
       TooManyTimeouts, SkipEntry, Proceed, Bail
<1>2. CASE Discovery
  BY <1>2, HangsAlone DEF Discovery, NotInteresting, Discover, OtherFault, NoFault, Return
<1>3. CASE HangCase
  BY <1>3, HangCaseHangs
<1>4. CASE CrashCase
  BY <1>4, HangsAlone DEF CrashCase, CrashUncovered, TooManyCrashes, KnownCrash, KeepCrash, Return
<1>5. CASE StopSignal \/ SkipSignal \/ UNCHANGED vars
  BY <1>5, HangsAlone DEF StopSignal, SkipSignal, vars
<1> QED BY <1>1, <1>2, <1>3, <1>4, <1>5 DEF Next, Stopped

\* A step that keeps no crash.
LEMMA CrashesAlone ==
  ASSUME CrashInv, UNCHANGED <<target, crashes, virgin_crash>>, stop_soon => stop_soon'
  PROVE  CrashInv'
<1>1. CrashSig' = CrashSig /\ behav' = behav /\ crash_mode' = crash_mode
  BY SameTarget DEF target
<1> QED BY <1>1 DEF CrashInv, Missing, Distinct

LEMMA KeepCrashCrashes == TypeInv /\ RunInv /\ CrashInv /\ KeepCrash => CrashInv'
<1> SUFFICES ASSUME TypeInv, RunInv, CrashInv, KeepCrash PROVE CrashInv'
  OBVIOUS
<1>1. /\ UNCHANGED <<target, stop_soon>> /\ crashes' = Append(crashes, input)
      /\ virgin_crash' = virgin_crash \ Simplified(trace_bits)
  BY DEF KeepCrash, Return, signal
<1>2. CrashSig' = CrashSig /\ behav' = behav /\ crash_mode' = crash_mode
  BY <1>1, SameTarget DEF target
<1>3. crashes \in Seq(Inputs) /\ input \in Inputs /\ trace_bits \in SUBSET Edges
  BY DEF TypeInv, TypeOK
<1>4. behav[input].long = "crash"
  BY DEF KeepCrash, RunInv
<1>5. \A k \in DOMAIN crashes' : behav[crashes'[k]].long = "crash"
  BY <1>1, <1>3, <1>4 DEF CrashInv
<1>6. ASSUME ~(stop_soon /\ crash_mode = "crash")
      PROVE  /\ Distinct(crashes', CrashSig)
             /\ \A m \in Marks : m \in virgin_crash' <=> Missing(m, crashes', CrashSig)
  <2>1. Simplified(trace_bits) = CrashSig[input] /\ CrashSig[input] \subseteq Marks
    BY <1>3, <1>6, SimplifiedSignature DEF KeepCrash, RunInv, CrashSig
  <2>2. PICK m \in CrashSig[input] : m \in virgin_crash
    BY <2>1 DEF KeepCrash
  <2>3. Missing(m, crashes, CrashSig) /\ Distinct(crashes, CrashSig)
    BY <1>6, <2>1, <2>2 DEF CrashInv
  <2>4. Distinct(crashes', CrashSig)
    BY <1>1, <1>3, <2>2, <2>3, AppendDistinct
  <2>5. \A n \in Marks : n \in virgin_crash' <=> Missing(n, crashes', CrashSig)
    BY <1>1, <1>3, <1>6, <2>1, AppendMissing DEF CrashInv
  <2> QED BY <2>4, <2>5
<1> QED BY <1>1, <1>2, <1>5, <1>6 DEF CrashInv, Missing, Distinct

LEMMA NextCrashes == TypeInv /\ RunInv /\ CrashInv /\ [Next]_vars => CrashInv'
<1> SUFFICES ASSUME TypeInv, RunInv, CrashInv, [Next]_vars PROVE CrashInv'
  OBVIOUS
<1> USE DEF maps, kept, run, signal, target
<1>1. CASE CommonFuzzStuff
  BY <1>1, CrashesAlone DEF CommonFuzzStuff, NextEntry, Execute, BailStopped,
       TooManyTimeouts, SkipEntry, Proceed, Bail
<1>2. CASE Discovery
  BY <1>2, CrashesAlone DEF Discovery, NotInteresting, Discover, OtherFault, NoFault, Return
<1>3. CASE HangCase
  BY <1>3, CrashesAlone DEF HangCase, TooManyHangs, KnownHang, NewHang, Rerun, NotGenuine,
       KeepHang, Return
<1>4. CASE CrashUncovered \/ TooManyCrashes \/ KnownCrash
  BY <1>4, CrashesAlone DEF CrashUncovered, TooManyCrashes, KnownCrash, Return
<1>5. CASE KeepCrash
  BY <1>5, KeepCrashCrashes
<1>6. CASE StopSignal \/ SkipSignal \/ UNCHANGED vars
  BY <1>6, CrashesAlone DEF StopSignal, SkipSignal, vars
<1> QED BY <1>1, <1>2, <1>3, <1>4, <1>5, <1>6 DEF Next, Stopped, CrashCase

\* A step that keeps no crash, and looks at no input that needs one.
LEMMA KeptAlone ==
  ASSUME KeptInv, UNCHANGED <<target, crashes>>,
         \/ examined' = examined
         \/ /\ examined' = examined \cup {input}
            /\ crash_mode = "none" /\ FirstFault(input) = "crash" /\ Len(crashes) < KeepUniqueCrash
                 => \A m \in CrashSig[input] : ~Missing(m, crashes, CrashSig)
  PROVE  KeptInv'
<1>1. CrashSig' = CrashSig /\ behav' = behav /\ crash_mode' = crash_mode /\ generous' = generous
  BY SameTarget DEF target
<1> QED BY <1>1 DEF KeptInv, Missing, FirstFault

LEMMA CrashCaseKept == TypeInv /\ RunInv /\ CrashInv /\ KeptInv /\ CrashCase => KeptInv'
<1> SUFFICES ASSUME TypeInv, RunInv, CrashInv, KeptInv, CrashCase PROVE KeptInv'
  OBVIOUS
<1>0. crashes \in Seq(Inputs) /\ input \in Inputs /\ trace_bits \in SUBSET Edges
  BY DEF TypeInv, TypeOK
<1>1. CASE CrashUncovered
  BY <1>1, KeptAlone DEF CrashUncovered, kept
<1>2. CASE TooManyCrashes
  BY <1>2, KeptAlone, LimitsAssumption DEF TooManyCrashes, Return, kept
<1>3. CASE KnownCrash
  <2>1. ASSUME crash_mode = "none"
        PROVE  \A m \in CrashSig[input] : ~Missing(m, crashes, CrashSig)
    <3>1. Simplified(trace_bits) = CrashSig[input] /\ CrashSig[input] \subseteq Marks
      BY <1>0, <1>3, <2>1, SimplifiedSignature DEF KnownCrash, RunInv, CrashSig
    <3>2. CrashSig[input] \cap virgin_crash = {}
      BY <1>3, <3>1 DEF KnownCrash
    <3> QED BY <2>1, <3>1, <3>2 DEF CrashInv
  <2> QED BY <1>3, <2>1, KeptAlone DEF KnownCrash, Return, kept
<1>4. CASE KeepCrash
  <2>1. /\ UNCHANGED target /\ crashes' = Append(crashes, input)
        /\ examined' = examined \cup {input}
    BY <1>4 DEF KeepCrash, Return
  <2>2. /\ CrashSig' = CrashSig /\ behav' = behav /\ crash_mode' = crash_mode
        /\ generous' = generous
    BY <2>1, SameTarget DEF target
  <2>3. Len(crashes) \in Nat /\ Len(crashes') = Len(crashes) + 1
    BY <1>0, <2>1
  <2>4. \A m \in CrashSig[input] : ~Missing(m, crashes', CrashSig)
    BY <1>0, <2>1, AppendMissing
  <2>5. \A m : Missing(m, crashes', CrashSig) => Missing(m, crashes, CrashSig)
    BY <1>0, <2>1, AppendMissing
  <2>6. Len(crashes') < KeepUniqueCrash => Len(crashes) < KeepUniqueCrash
    BY <2>3, LimitsAssumption
  <2> QED BY <2>1, <2>2, <2>4, <2>5, <2>6 DEF KeptInv, FirstFault
<1> QED BY <1>1, <1>2, <1>3, <1>4 DEF CrashCase

LEMMA NextKept == TypeInv /\ RunInv /\ CrashInv /\ KeptInv /\ [Next]_vars => KeptInv'
<1> SUFFICES ASSUME TypeInv, RunInv, CrashInv, KeptInv, [Next]_vars PROVE KeptInv'
  OBVIOUS
<1> USE DEF maps, kept, run, target
<1>1. CASE CommonFuzzStuff
  BY <1>1, KeptAlone DEF CommonFuzzStuff, NextEntry, Execute, BailStopped,
       TooManyTimeouts, SkipEntry, Proceed, Bail
<1>2. CASE Discovery
  <2>1. CASE Discover \/ OtherFault
    BY <2>1, KeptAlone DEF Discover, OtherFault
  <2>2. CASE NotInteresting
    BY <2>2, KeptAlone DEF NotInteresting, Return, RunInv
  <2>3. CASE NoFault
    BY <2>3, KeptAlone DEF NoFault, Return, RunInv
  <2> QED BY <1>2, <2>1, <2>2, <2>3 DEF Discovery
<1>3. CASE HangCase
  <2>1. CASE NewHang \/ Rerun
    BY <2>1, KeptAlone DEF NewHang, Rerun
  <2>2. CASE TooManyHangs \/ KnownHang
    BY <2>2, KeptAlone DEF TooManyHangs, KnownHang, Return, RunInv
  <2>3. CASE NotGenuine \/ KeepHang
    BY <2>3, KeptAlone DEF NotGenuine, KeepHang, Genuine, Return, RunInv
  <2> QED BY <1>3, <2>1, <2>2, <2>3 DEF HangCase
<1>4. CASE CrashCase
  BY <1>4, CrashCaseKept
<1>5. CASE StopSignal \/ SkipSignal \/ UNCHANGED vars
  BY <1>5, KeptAlone DEF StopSignal, SkipSignal, vars
<1> QED BY <1>1, <1>2, <1>3, <1>4, <1>5 DEF Next, Stopped

-----------------------------------------------------------------------------
(* The invariants of a session.                                            *)

FaultInv == TypeInv /\ RunInv /\ HangInv /\ CrashInv /\ KeptInv

LEMMA SpecInv == Spec => []FaultInv
<1>1. Init => FaultInv
  BY InitTypes, InitRun, InitKept DEF FaultInv
<1>2. FaultInv /\ [Next]_vars => FaultInv'
  BY NextTypes, NextRun, NextHangs, NextCrashes, NextKept DEF FaultInv
<1> QED BY <1>1, <1>2, PTL DEF Spec

\* What is in hangs/ hangs under the longer timeout, and what is in crashes/
\* crashes: the switch to keep_as_crash (3496) and Ctrl-C between the two runs
\* included.
THEOREM KeptIsGenuine == Spec => []FaultsGenuine
<1>1. FaultInv => FaultsGenuine
  BY DEF FaultInv, HangInv, CrashInv, FaultsGenuine
<1> QED BY SpecInv, <1>1, PTL

\* What is saved differs from everything saved before it in the same directory.
THEOREM KeptIsUnique == Spec => []FaultsUnique
<1>1. FaultInv => FaultsUnique
  <2> SUFFICES ASSUME FaultInv PROVE FaultsUnique
    OBVIOUS
  <2>1. hangs \in Seq(Inputs) /\ crashes \in Seq(Inputs)
    BY DEF FaultInv, TypeInv, TypeOK
  <2>2. ASSUME NEW k \in DOMAIN hangs
        PROVE  ~(Signature(FirstTrace(hangs[k])) \subseteq HangMarks(SubSeq(hangs, 1, k - 1)))
    <3> DEFINE s == SubSeq(hangs, 1, k - 1)
    <3>1. s \in Seq(Inputs) /\ \A j \in DOMAIN s : s[j] \in Inputs
      BY <2>1
    <3>2. HangMarks(s) = UNION {HangSig[s[j]] : j \in DOMAIN s}
      BY <3>1 DEF HangMarks, HangSig
    <3>3. HangSig[hangs[k]] = Signature(FirstTrace(hangs[k]))
      BY <2>1 DEF HangSig
    <3>4. Distinct(hangs, HangSig)
      BY DEF FaultInv, HangInv
    <3> QED BY <2>1, <3>2, <3>3, <3>4, DistinctMarks
  <2>3. ASSUME NEW k \in DOMAIN crashes, ~(stop_soon /\ crash_mode = "crash")
        PROVE  ~(Signature(behav[crashes[k]].later)
                   \subseteq CrashMarks(SubSeq(crashes, 1, k - 1)))
    <3> DEFINE s == SubSeq(crashes, 1, k - 1)
    <3>1. s \in Seq(Inputs) /\ \A j \in DOMAIN s : s[j] \in Inputs
      BY <2>1
    <3>2. CrashMarks(s) = UNION {CrashSig[s[j]] : j \in DOMAIN s}
      BY <3>1 DEF CrashMarks, CrashSig
    <3>3. CrashSig[crashes[k]] = Signature(behav[crashes[k]].later)
      BY <2>1 DEF CrashSig
    <3>4. Distinct(crashes, CrashSig)
      BY <2>3 DEF FaultInv, CrashInv
    <3> QED BY <2>1, <3>2, <3>3, <3>4, DistinctMarks
  <2> QED BY <2>2, <2>3 DEF FaultsUnique
<1> QED BY SpecInv, <1>1, PTL

\* Marks that are not missing are those of the crashes in crashes/.
LEMMA MissingMarks ==
  ASSUME TypeInv, NEW m
  PROVE  Missing(m, crashes, CrashSig) <=> m \notin CrashMarks(crashes)
<1>1. \A k \in DOMAIN crashes : crashes[k] \in Inputs
  BY DEF TypeInv, TypeOK
<1> QED BY <1>1 DEF Missing, CrashMarks, CrashSig

\* Every crash fuzz_one has run is accounted for by crashes in crashes/.
THEOREM CrashesAreKept == Spec => []CrashesKept
<1>1. FaultInv => CrashesKept
  <2> SUFFICES ASSUME FaultInv, crash_mode = "none", NEW i \in examined,
                      FirstFault(i) = "crash", Len(crashes) < KeepUniqueCrash,
                      NEW m \in Signature(behav[i].later)
               PROVE  m \in CrashMarks(crashes)
    BY DEF CrashesKept
  <2>1. TypeInv /\ i \in Inputs
    BY DEF FaultInv, TypeInv, TypeOK
  <2>2. ~Missing(m, crashes, CrashSig)
    BY <2>1 DEF FaultInv, KeptInv, CrashSig
  <2> QED BY <2>1, <2>2, MissingMarks
<1> QED BY SpecInv, <1>1, PTL

\* virgin_crash is what no crash in crashes/ has: nothing else used it up.
THEOREM CrashMapCorrect == Spec => []CrashMapExact
<1>1. FaultInv => CrashMapExact
  <2> SUFFICES ASSUME FaultInv, ~(stop_soon /\ crash_mode = "crash")
               PROVE  virgin_crash = Marks \ CrashMarks(crashes)
    BY DEF CrashMapExact
  <2>1. virgin_crash \subseteq Marks /\ TypeInv
    BY DEF FaultInv, TypeInv, TypeOK
  <2>2. \A m \in Marks : m \in virgin_crash <=> Missing(m, crashes, CrashSig)
    BY DEF FaultInv, CrashInv
  <2> QED BY <2>1, <2>2, MissingMarks
<1> QED BY SpecInv, <1>1, PTL

\* An entry is given up, unless the user asks for it, only after TMOUT_LIMIT runs of
\* it in a row that timed out (config.h:68), whatever other entries and second runs did.
THEOREM StuckEntriesGivenUp == Spec => GivenUpWhenStuck
<1>1. ASSUME TypeInv, [Next]_vars, pc = "ran", pc' = "stage", skip_requested' = skip_requested
      PROVE  fault = "tmout" /\ streak >= TmoutLimit
  <2>1. TooManyTimeouts
    BY <1>1 DEF Next, CommonFuzzStuff, Discovery, HangCase, CrashCase, vars, NextEntry, Execute,
      BailStopped, SkipEntry, Proceed, Bail, NotInteresting, Discover, OtherFault, NoFault,
      TooManyHangs, KnownHang, NewHang, Rerun, NotGenuine, KeepHang, Genuine, CrashUncovered,
      TooManyCrashes, KnownCrash, KeepCrash, StopSignal, SkipSignal, Stopped
  <2>2. fault = "tmout" /\ subseq_tmouts > TmoutLimit
    BY <2>1 DEF TooManyTimeouts
  <2>3. subseq_tmouts \in Nat /\ streak = subseq_tmouts + 1
    BY <1>1, <2>2, LimitsAssumption DEF TypeInv, TypeOK
  <2> QED BY <2>2, <2>3, LimitsAssumption
<1>2. TypeInv /\ [Next]_vars =>
        [pc = "ran" /\ pc' = "stage" /\ skip_requested' = skip_requested
           => fault = "tmout" /\ streak >= TmoutLimit]_vars
  BY <1>1
<1> QED BY InitTypes, NextTypes, <1>2, PTL DEF Spec, GivenUpWhenStuck
=============================================================================
