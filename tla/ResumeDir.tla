----------------------------- MODULE ResumeDir -----------------------------
(***************************************************************************)
(* The session directory of afl-fuzz, and what becomes of it when the      *)
(* program dies at any point and is started again with -i- (in-place       *)
(* resume):                                                                *)
(*   - maybe_delete_out_dir moves queue/ to _resume/, unless a _resume/ is *)
(*     there already, and deletes what is left of queue/,                  *)
(*   - read_testcases reads _resume/, pivot_inputs links every test case   *)
(*     into the new queue/, nuke_resume_dir deletes _resume/,              *)
(*   - while fuzzing, discoveries are created and written, trimmed test    *)
(*     cases are unlinked and written again, and finished deterministic    *)
(*     stages are marked by a file in queue/.state/.                       *)
(* One step is one system call that changes the directory.  Names are      *)
(* abstracted: a file is the test case it holds, whatever id it bears.     *)
(***************************************************************************)
EXTENDS Naturals

CONSTANTS
  Cases,      \* test cases
  MaxCrashes  \* bound on the number of times the program is killed

ASSUME MaxCrashesAssumption == MaxCrashes \in Nat

VARIABLES
  queue, resume,  \* the two directories
  pc,             \* where the program is
  mem,            \* test cases in the linked queue
  passed,         \* passed_det of its entries
  at,             \* the test case a file is being made for
  crashes,
  \* history
  saved,          \* test cases whose file has been complete
  marked,         \* test cases marked as passed_det
  torn            \* what was going on when the program was killed, if it matters

program == <<pc, mem, passed, at>>
disk    == <<queue, resume>>
history == <<saved, marked, torn>>
vars == <<disk, program, crashes, history>>

\* A directory: there or not, with its .state/ there or not, the files written,
\* the files created but still empty, and the marks in .state/.
Dirs == [here : BOOLEAN, state : BOOLEAN, full : SUBSET Cases, empty : SUBSET Cases,
         marks : SUBSET Cases]
NoDir == [here |-> FALSE, state |-> FALSE, full |-> {}, empty |-> {}, marks |-> {}]
Files(d) == d.full \cup d.empty
Vacant(d) == ~d.state /\ Files(d) = {}

\* A session is under way in a new directory.
Init ==
  /\ \E seeds \in (SUBSET Cases) \ {{}} :
       /\ queue = [NoDir EXCEPT !.here = TRUE, !.state = TRUE, !.full = seeds]
       /\ mem = seeds /\ saved = seeds
  /\ resume = NoDir
  /\ pc = "fuzz" /\ passed = {} /\ at = {}
  /\ crashes = 0 /\ marked = {} /\ torn = {}

-----------------------------------------------------------------------------
(* maybe_delete_out_dir and setup_dirs_fds.                                *)

Restart ==
  /\ pc = "down"
  /\ pc' = "rename"
  /\ UNCHANGED <<disk, mem, passed, at, crashes, history>>

\* Mutant: the rename replaces an old _resume/ whatever it holds.
RenameAlways ==
  /\ pc = "rename"
  /\ resume' = IF queue.here THEN queue ELSE resume
  /\ queue' = NoDir
  /\ pc' = "wipe"
  /\ UNCHANGED <<mem, passed, at, crashes, history>>

\* rename(queue, _resume), errors ignored: it fails when there is no queue/ or
\* when _resume/ is not empty.
Rename ==
  /\ pc = "rename"
  /\ IF queue.here /\ Vacant(resume)
     THEN resume' = queue /\ queue' = NoDir
     ELSE UNCHANGED disk
  /\ pc' = "wipe"
  /\ UNCHANGED <<mem, passed, at, crashes, history>>

\* One call of delete_files and rmdir: the marks and .state/ first, then the
\* test cases, then the directory.
Deleted(d) ==
  IF d.marks # {} THEN {[d EXCEPT !.marks = @ \ {t}] : t \in d.marks}
  ELSE IF d.state THEN {[d EXCEPT !.state = FALSE]}
  ELSE IF Files(d) # {}
  THEN {[d EXCEPT !.full = @ \ {t}, !.empty = @ \ {t}] : t \in Files(d)}
  ELSE {NoDir}

Wipe ==
  /\ pc = "wipe" /\ queue.here
  /\ queue' \in Deleted(queue)
  /\ UNCHANGED <<resume, program, crashes, history>>

MakeQueue ==
  /\ pc = "wipe" /\ ~queue.here
  /\ queue' = [NoDir EXCEPT !.here = TRUE]
  /\ pc' = "mkdir"
  /\ UNCHANGED <<resume, mem, passed, at, crashes, history>>

MakeState ==
  /\ pc = "mkdir"
  /\ queue' = [queue EXCEPT !.state = TRUE]
  /\ pc' = "read"
  /\ UNCHANGED <<resume, mem, passed, at, crashes, history>>

-----------------------------------------------------------------------------
(* read_testcases, pivot_inputs, nuke_resume_dir.                          *)

\* Mutant: a mark counts although its test case was never written.
ReadTestcasesMarks ==
  /\ pc = "read"
  /\ mem' = resume.full /\ passed' = resume.marks
  /\ pc' = IF resume.full = {} THEN "down" ELSE "pivot"
  /\ UNCHANGED <<disk, at, crashes, history>>

\* Empty files are passed over; no usable test case is fatal.
ReadTestcases ==
  /\ pc = "read"
  /\ mem' = resume.full /\ passed' = resume.marks \cap resume.full
  /\ pc' = IF resume.full = {} THEN "down" ELSE "pivot"
  /\ UNCHANGED <<disk, at, crashes, history>>

\* Mutant: the walk over the queue does not move on to the next entry.
PivotLinkAgain ==
  /\ pc = "pivot"
  /\ \E t \in mem :
       /\ queue' = [queue EXCEPT !.full = @ \cup {t}]
       /\ at' = {t}
  /\ pc' = "mark"
  /\ UNCHANGED <<resume, mem, passed, crashes, history>>

\* link_or_copy: a hard link,
PivotLink ==
  /\ pc = "pivot"
  /\ \E t \in mem \ queue.full :
       /\ queue' = [queue EXCEPT !.full = @ \cup {t}]
       /\ at' = {t}
  /\ pc' = "mark"
  /\ UNCHANGED <<resume, mem, passed, crashes, history>>

\* or a copy, created and written.
PivotCopy ==
  /\ pc = "pivot"
  /\ \E t \in mem \ queue.full :
       /\ queue' = [queue EXCEPT !.empty = @ \cup {t}]
       /\ at' = {t}
  /\ pc' = "copy"
  /\ UNCHANGED <<resume, mem, passed, crashes, history>>

Written(d) == [d EXCEPT !.full = @ \cup at, !.empty = @ \ at]

CopyWrite ==
  /\ pc = "copy"
  /\ queue' = Written(queue)
  /\ pc' = "mark"
  /\ UNCHANGED <<resume, mem, passed, at, crashes, history>>

\* Mutant: passed_det does not carry over.
PivotMarkNot ==
  /\ pc = "mark"
  /\ pc' = "pivot" /\ at' = {}
  /\ UNCHANGED <<disk, mem, passed, crashes, history>>

\* "Make sure that the passed_det value carries over, too."
PivotMark ==
  /\ pc = "mark"
  /\ queue' = [queue EXCEPT !.marks = @ \cup (at \cap passed)]
  /\ pc' = "pivot" /\ at' = {}
  /\ UNCHANGED <<resume, mem, passed, crashes, history>>

\* Mutant: _resume/ is deleted before the last test case has been linked.
PivotDoneEarly ==
  /\ pc = "pivot" /\ queue.full # {}
  /\ pc' = "nuke"
  /\ UNCHANGED <<disk, mem, passed, at, crashes, history>>

PivotDone ==
  /\ pc = "pivot" /\ mem \subseteq queue.full
  /\ pc' = "nuke"
  /\ UNCHANGED <<disk, mem, passed, at, crashes, history>>

Nuke ==
  /\ pc = "nuke" /\ resume.here
  /\ resume' \in Deleted(resume)
  /\ UNCHANGED <<queue, program, crashes, history>>

NukeDone ==
  /\ pc = "nuke" /\ ~resume.here
  /\ pc' = "fuzz"
  /\ UNCHANGED <<disk, mem, passed, at, crashes, history>>

-----------------------------------------------------------------------------
(* The main loop: save_if_interesting, trim_case, mark_as_det_done.        *)

FindCreate ==
  /\ pc = "fuzz"
  /\ \E t \in Cases \ mem :
       /\ at' = {t} /\ mem' = mem \cup {t}
       /\ queue' = [queue EXCEPT !.empty = @ \cup {t}]
  /\ pc' = "find"
  /\ UNCHANGED <<resume, passed, crashes, history>>

FindWrite ==
  /\ pc = "find"
  /\ queue' = Written(queue) /\ saved' = saved \cup at
  /\ pc' = "fuzz" /\ at' = {}
  /\ UNCHANGED <<resume, mem, passed, crashes, marked, torn>>

DetDone ==
  /\ pc = "fuzz"
  /\ \E t \in mem \ passed :
       /\ passed' = passed \cup {t} /\ marked' = marked \cup {t}
       /\ queue' = [queue EXCEPT !.marks = @ \cup {t}]
  /\ UNCHANGED <<resume, pc, mem, at, crashes, saved, torn>>

TrimUnlink ==
  /\ pc = "fuzz"
  /\ \E t \in mem :
       /\ at' = {t}
       /\ queue' = [queue EXCEPT !.full = @ \ {t}]
  /\ pc' = "trim"
  /\ UNCHANGED <<resume, mem, passed, crashes, history>>

TrimCreate ==
  /\ pc = "trim"
  /\ queue' = [queue EXCEPT !.empty = @ \cup at]
  /\ pc' = "trim_write"
  /\ UNCHANGED <<resume, mem, passed, at, crashes, history>>

TrimWrite ==
  /\ pc = "trim_write"
  /\ queue' = Written(queue)
  /\ pc' = "fuzz" /\ at' = {}
  /\ UNCHANGED <<resume, mem, passed, crashes, history>>

-----------------------------------------------------------------------------
(* The program is killed, anywhere.                                        *)

\* The two steps that take apart the only good copy of something: a trimmed test
\* case being written again, and _resume/ being deleted while it is not empty
\* (its marks go first).
AtRisk ==
  IF pc \in {"trim", "trim_write"} THEN {"trim"}
  ELSE IF pc = "nuke" /\ ~Vacant(resume)
  THEN IF resume.state THEN {"marks"} ELSE {"marks", "nuke"}
  ELSE {}

Crash ==
  /\ pc # "down" /\ crashes < MaxCrashes
  /\ crashes' = crashes + 1
  /\ pc' = "down" /\ mem' = {} /\ passed' = {} /\ at' = {}
  /\ torn' = torn \cup AtRisk
  /\ UNCHANGED <<disk, saved, marked>>

Setup   == Rename \/ Wipe \/ MakeQueue \/ MakeState
Import  == \/ ReadTestcases \/ PivotLink \/ PivotCopy \/ CopyWrite \/ PivotMark
           \/ PivotDone \/ Nuke \/ NukeDone
Fuzzing == \/ FindCreate \/ FindWrite \/ DetDone \/ TrimUnlink \/ TrimCreate
           \/ TrimWrite
Next == Restart \/ Setup \/ Import \/ Fuzzing \/ Crash

Spec == Init /\ [][Next]_vars
FairSpec == Spec /\ WF_vars(Setup \/ Import)

-----------------------------------------------------------------------------
(* Properties.                                                             *)

\* Every variable keeps its type, and only a directory that is there has contents.
TypeOK ==
  /\ queue \in Dirs /\ resume \in Dirs
  /\ \A d \in {queue, resume} : ~d.here => d = NoDir
  /\ pc \in {"down", "rename", "wipe", "mkdir", "read", "pivot", "copy", "mark", "nuke",
             "fuzz", "find", "trim", "trim_write"}
  /\ mem \in SUBSET Cases /\ passed \in SUBSET mem
  /\ at \in SUBSET Cases
  /\ crashes \in 0 .. MaxCrashes
  /\ saved \in SUBSET Cases /\ marked \in SUBSET Cases
  /\ torn \in SUBSET {"trim", "nuke", "marks"}

\* Wherever the program was killed, and however often, a test case that was
\* written is still in one of the two directories, unless it was killed while
\* trimming or while deleting _resume/.  (A test case being trimmed is on its
\* way back into the directory.)
NothingLost ==
  torn \cap {"trim", "nuke"} = {} =>
    saved \subseteq queue.full \cup resume.full
                    \cup (IF pc \in {"trim", "trim_write"} THEN at ELSE {})

\* With the same exceptions a resumed session has exactly the test cases of the
\* ones before: none is dropped, none invented, none is a half-written file.
ResumedWhole ==
  pc = "fuzz" /\ torn \cap {"trim", "nuke"} = {} =>
    mem = saved /\ queue.full = saved /\ queue.empty = {} /\ ~resume.here

\* A finished deterministic stage is not repeated by a resumed session, unless a
\* kill hit one of two windows: between unlink and write in trim_case (4908-4922,
\* the entry itself is gone then), or while nuke_resume_dir deletes _resume/
\* (3865-3893), whose marks go before its test cases.
MarksKept == torn = {} => marked \subseteq queue.marks \cup resume.marks

\* The start of a session comes to an end: it fuzzes, unless it is killed or
\* finds nothing to read.
ResumeEnds == pc = "rename" ~> pc \in {"fuzz", "down"}

\* maybe_delete_out_dir: "If _resume/ already exists, the current queue/ may be
\* incomplete due to an earlier abort, so we want to use the old _resume/ dir
\* instead": what is read from _resume/ is everything that was written.
OldResumeWhole == pc = "read" /\ "trim" \notin torn => saved \subseteq resume.full
=============================================================================
