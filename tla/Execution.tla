----------------------------- MODULE Execution -----------------------------
(***************************************************************************)
(* What run_target promises its callers: a run of the target on the test   *)
(* case that was written, which ends in one of three ways, and a report    *)
(* that agrees with how it ended.  No pipe, timer, process or signal       *)
(* appears here; ForkServer implements this specification.                 *)
(***************************************************************************)

VARIABLES
  phase,   \* "down", "ready", "running", "over"
  fate,    \* what became of the last test case
  report   \* what the caller was told of the last run

vars == <<phase, fate, report>>

Init == phase = "down" /\ fate = "none" /\ report = "none"

\* The target is up.
Up == phase = "down" /\ phase' = "ready" /\ UNCHANGED <<fate, report>>

Start == phase = "ready" /\ phase' = "running" /\ fate' = "none" /\ UNCHANGED report

\* The test case is processed to its end, crashes, or is killed; what runs after
\* the test case may still crash.
Happen ==
  /\ phase = "running"
  /\ \/ fate = "none" /\ fate' \in {"done", "crash", "killed"}
     \/ fate = "done" /\ fate' = "crash"
  /\ UNCHANGED <<phase, report>>

\* A test case that was done may be reported as a timeout: the process was
\* killed after it.  A crash is never taken for anything else.
Truthful(f) ==
  \/ f = "NONE"  /\ fate = "done"
  \/ f = "CRASH" /\ fate = "crash"
  \/ f = "TMOUT" /\ fate \in {"done", "killed"}

Report ==
  /\ phase = "running"
  /\ \E f \in {"NONE", "CRASH", "TMOUT"} : Truthful(f) /\ report' = f
  /\ phase' = "ready"
  /\ UNCHANGED fate

\* The program ends: nothing it reports is looked at any more.
GiveUp == phase # "over" /\ phase' = "over"

\* What the target still does then is of no interest.
Over == phase = "over" /\ phase' = "over"

Next == Up \/ Start \/ Happen \/ Report \/ GiveUp \/ Over

Spec == Init /\ [][Next]_vars
=============================================================================
