--------------------------- MODULE ResumeDirProofs ---------------------------
(***************************************************************************)
(* Proofs about ResumeDir, for any set of test cases and any number of     *)
(* kills: the types, that no written test case is lost, that a resumed     *)
(* session has all of them and nothing else, and that marks survive.       *)
(***************************************************************************)
EXTENDS ResumeDir, TLAPS

(* Types.  After setup_dirs_fds there is a queue/.                         *)

TypeInv == TypeOK /\ (pc \notin {"down", "rename", "wipe"} => queue.here)

\* delete_files and rmdir leave a directory, or nothing; as long as .state/ is
\* there no test case has been deleted, and none is ever added.
LEMMA DeletedTypes ==
  ASSUME NEW d \in Dirs, NEW e \in Deleted(d), d.here
  PROVE  /\ e \in Dirs
         /\ ~e.here => e = NoDir
         /\ e.state => e.full = d.full /\ d.state
         /\ e.full \subseteq d.full
<1>1. CASE d.marks # {}
  <2>1. PICK t \in d.marks : e = [d EXCEPT !.marks = @ \ {t}]
    BY <1>1 DEF Deleted
  <2> QED BY <2>1 DEF Dirs
<1>2. CASE d.marks = {} /\ d.state
  <2>1. e = [d EXCEPT !.state = FALSE]
    BY <1>2 DEF Deleted
  <2> QED BY <2>1 DEF Dirs
<1>3. CASE d.marks = {} /\ ~d.state /\ Files(d) # {}
  <2>1. PICK t \in Files(d) : e = [d EXCEPT !.full = @ \ {t}, !.empty = @ \ {t}]
    BY <1>3 DEF Deleted
  <2> QED BY <1>3, <2>1 DEF Dirs
<1>4. CASE d.marks = {} /\ ~d.state /\ Files(d) = {}
  <2>1. e = NoDir
    BY <1>4 DEF Deleted
  <2> QED BY <2>1 DEF Dirs, NoDir
<1> QED BY <1>1, <1>2, <1>3, <1>4

\* A session that has just begun.
LEMMA InitTypes == Init => TypeInv
<1> SUFFICES ASSUME Init PROVE TypeInv
  OBVIOUS
<1>1. PICK seeds \in (SUBSET Cases) \ {{}} :
        /\ queue = [NoDir EXCEPT !.here = TRUE, !.state = TRUE, !.full = seeds]
        /\ mem = seeds /\ saved = seeds
  BY DEF Init
<1>2. queue \in Dirs /\ queue.here /\ resume \in Dirs /\ resume = NoDir
  BY <1>1 DEF Init, Dirs, NoDir
<1> QED BY <1>1, <1>2, MaxCrashesAssumption DEF Init, TypeInv, TypeOK

\* maybe_delete_out_dir and setup_dirs_fds.
LEMMA SetupTypes == TypeInv /\ (Restart \/ Setup) => TypeInv'
<1> SUFFICES ASSUME TypeInv, Restart \/ Setup PROVE TypeInv'
  OBVIOUS
<1> USE DEF TypeInv, TypeOK
<1>1. CASE Restart
  BY <1>1 DEF Restart, disk, history
<1>2. CASE Rename
  <2>1. CASE queue.here /\ Vacant(resume)
    <3>1. resume' = queue /\ queue' = NoDir
      BY <1>2, <2>1 DEF Rename
    <3>2. NoDir \in Dirs
      BY DEF NoDir, Dirs
    <3> QED BY <1>2, <2>1, <3>1, <3>2 DEF Rename, history
  <2>2. CASE ~(queue.here /\ Vacant(resume))
    BY <1>2, <2>2 DEF Rename, disk, history
  <2> QED BY <2>1, <2>2
<1>3. CASE Wipe
  BY <1>3, DeletedTypes DEF Wipe, program, history
<1>4. CASE MakeQueue
  BY <1>4 DEF MakeQueue, history, Dirs
<1>5. CASE MakeState
  BY <1>5 DEF MakeState, history, Dirs
<1> QED BY <1>1, <1>2, <1>3, <1>4, <1>5 DEF Setup

\* read_testcases, pivot_inputs, nuke_resume_dir.
LEMMA ImportTypes == TypeInv /\ Import => TypeInv'
<1> SUFFICES ASSUME TypeInv, Import PROVE TypeInv'
  OBVIOUS
<1> USE DEF TypeInv, TypeOK
<1>1. CASE ReadTestcases
  BY <1>1 DEF ReadTestcases, disk, history, Dirs
<1>2. CASE PivotLink
  BY <1>2 DEF PivotLink, history, Dirs
<1>3. CASE PivotCopy
  BY <1>3 DEF PivotCopy, history, Dirs
<1>4. CASE CopyWrite
  BY <1>4 DEF CopyWrite, Written, history, Dirs
<1>5. CASE PivotMark
  BY <1>5 DEF PivotMark, history, Dirs
<1>6. CASE PivotDone
  BY <1>6 DEF PivotDone, disk, history
<1>7. CASE Nuke
  BY <1>7, DeletedTypes DEF Nuke, program, history
<1>8. CASE NukeDone
  BY <1>8 DEF NukeDone, disk, history
<1> QED BY <1>1, <1>2, <1>3, <1>4, <1>5, <1>6, <1>7, <1>8 DEF Import

\* save_if_interesting, mark_as_det_done, trim_case.
LEMMA FuzzingTypes == TypeInv /\ Fuzzing => TypeInv'
<1> SUFFICES ASSUME TypeInv, Fuzzing PROVE TypeInv'
  OBVIOUS
<1> USE DEF TypeInv, TypeOK
<1>1. CASE FindCreate
  BY <1>1 DEF FindCreate, history, Dirs
<1>2. CASE FindWrite
  BY <1>2 DEF FindWrite, Written, Dirs
<1>3. CASE DetDone
  BY <1>3 DEF DetDone, Dirs
<1>4. CASE TrimUnlink
  BY <1>4 DEF TrimUnlink, history, Dirs
<1>5. CASE TrimCreate
  BY <1>5 DEF TrimCreate, history, Dirs
<1>6. CASE TrimWrite
  BY <1>6 DEF TrimWrite, Written, history, Dirs
<1> QED BY <1>1, <1>2, <1>3, <1>4, <1>5, <1>6 DEF Fuzzing

\* A kill leaves the directories as they are.
LEMMA CrashTypes == TypeInv /\ Crash => TypeInv'
<1> SUFFICES ASSUME TypeInv, Crash PROVE TypeInv'
  OBVIOUS
<1>1. AtRisk \in SUBSET {"trim", "nuke", "marks"}
  BY DEF AtRisk
<1> QED BY <1>1, MaxCrashesAssumption DEF Crash, TypeInv, TypeOK, disk

\* Every step keeps the types.
LEMMA NextTypes == TypeInv /\ [Next]_vars => TypeInv'
<1>1. TypeInv /\ UNCHANGED vars => TypeInv'
  BY DEF TypeInv, TypeOK, vars, disk, program, history
<1> QED BY <1>1, SetupTypes, ImportTypes, FuzzingTypes, CrashTypes DEF Next

LEMMA TypeInvHolds == Spec => []TypeInv
<1> QED BY InitTypes, NextTypes, PTL DEF Spec

\* Every variable keeps its type, and only a directory that is there has contents:
\* no step of a resume works on a queue/ that was moved away or deleted.
THEOREM TypeCorrect == Spec => []TypeOK
<1>1. TypeInv => TypeOK
  BY DEF TypeInv
<1> QED BY <1>1, TypeInvHolds, PTL

-----------------------------------------------------------------------------
(* No test case is lost.  The invariant says where the test cases are:     *)
(* all in one directory, and in both while one replaces the other.  When   *)
(* the program is down, and until the rename, the good directory is the    *)
(* one maybe_delete_out_dir will choose.                                   *)

Unharmed == torn \cap {"trim", "nuke"} = {}

Chosen == IF Vacant(resume) THEN queue ELSE resume

Kept ==
  /\ pc \in {"down", "rename"} => saved \subseteq Chosen.full
  /\ pc \in {"wipe", "mkdir", "read", "pivot", "copy", "mark"} =>
       saved \subseteq resume.full
  /\ pc \in {"pivot", "copy", "mark"} => saved \subseteq mem
  /\ pc = "nuke" =>
       saved \subseteq queue.full /\ (resume.state => saved \subseteq resume.full)
  /\ pc \in {"fuzz", "find"} => saved \subseteq queue.full
  /\ pc \in {"trim", "trim_write"} => saved \subseteq queue.full \cup at
  /\ pc \in {"fuzz", "find", "trim", "trim_write"} => resume = NoDir

KeptInv == Unharmed => Kept

\* The first session has its seeds in queue/.
LEMMA KeptInit == Init => KeptInv
<1> SUFFICES ASSUME Init PROVE Kept
  BY DEF KeptInv
<1>1. PICK seeds \in (SUBSET Cases) \ {{}} :
        /\ queue = [NoDir EXCEPT !.here = TRUE, !.state = TRUE, !.full = seeds]
        /\ mem = seeds /\ saved = seeds
  BY DEF Init
<1> QED BY <1>1 DEF Init, Kept

\* The rename makes the chosen directory _resume/; only queue/ is wiped.
LEMMA SetupKeeps == TypeInv /\ KeptInv /\ (Restart \/ Setup) => KeptInv'
<1> SUFFICES ASSUME TypeInv, Kept, Unharmed', Restart \/ Setup PROVE Kept'
  BY DEF KeptInv, Unharmed, Setup, Restart, Rename, Wipe, MakeQueue, MakeState, history
<1>1. CASE Restart
  BY <1>1 DEF Restart, disk, history, Kept, Chosen
<1>2. CASE Rename
  <2>1. CASE queue.here /\ Vacant(resume)
    BY <1>2, <2>1 DEF Rename, history, Kept, Chosen
  <2>2. CASE ~queue.here /\ Vacant(resume)
    <3>1. saved = {}
      BY <1>2, <2>2 DEF Rename, Kept, Chosen, TypeInv, TypeOK, NoDir
    <3> QED BY <1>2, <2>2, <3>1 DEF Rename, history, Kept
  <2>3. CASE ~Vacant(resume)
    BY <1>2, <2>3 DEF Rename, disk, history, Kept, Chosen
  <2> QED BY <2>1, <2>2, <2>3
<1>3. CASE Wipe
  BY <1>3 DEF Wipe, program, history, Kept
<1>4. CASE MakeQueue
  BY <1>4 DEF MakeQueue, history, Kept
<1>5. CASE MakeState
  BY <1>5 DEF MakeState, history, Kept
<1> QED BY <1>1, <1>2, <1>3, <1>4, <1>5 DEF Setup

\* What was read from _resume/ is linked into queue/ before _resume/ is deleted.
LEMMA ImportKeeps == TypeInv /\ KeptInv /\ Import => KeptInv'
<1> SUFFICES ASSUME TypeInv, Kept, Unharmed', Import PROVE Kept'
  BY DEF KeptInv, Unharmed, Import, ReadTestcases, PivotLink, PivotCopy, CopyWrite, PivotMark,
     PivotDone, Nuke, NukeDone, history
<1>1. CASE ReadTestcases
  BY <1>1 DEF ReadTestcases, disk, history, Kept
<1>2. CASE PivotLink \/ PivotCopy \/ CopyWrite \/ PivotMark
  BY <1>2 DEF PivotLink, PivotCopy, CopyWrite, PivotMark, history, Kept
<1>3. CASE PivotDone
  BY <1>3 DEF PivotDone, disk, history, Kept
<1>4. CASE Nuke
  <2>1. resume'.state => resume'.full = resume.full /\ resume.state
    BY <1>4, DeletedTypes DEF Nuke, TypeInv, TypeOK
  <2> QED BY <1>4, <2>1 DEF Nuke, program, history, Kept
<1>5. CASE NukeDone
  BY <1>5 DEF NukeDone, disk, history, Kept, TypeInv, TypeOK
<1> QED BY <1>1, <1>2, <1>3, <1>4, <1>5 DEF Import

\* While fuzzing everything is in queue/, or being trimmed.
LEMMA FuzzingKeeps == TypeInv /\ KeptInv /\ Fuzzing => KeptInv'
<1> SUFFICES ASSUME TypeInv, Kept, Unharmed', Fuzzing PROVE Kept'
  BY DEF KeptInv, Unharmed, Fuzzing, FindCreate, FindWrite, DetDone, TrimUnlink, TrimCreate,
     TrimWrite, history
<1> USE DEF Kept, history, TypeInv, TypeOK, Dirs
<1>1. CASE FindCreate
  BY <1>1 DEF FindCreate
<1>2. CASE FindWrite
  BY <1>2 DEF FindWrite, Written
<1>3. CASE DetDone
  BY <1>3 DEF DetDone
<1>4. CASE TrimUnlink
  BY <1>4 DEF TrimUnlink
<1>5. CASE TrimCreate
  BY <1>5 DEF TrimCreate
<1>6. CASE TrimWrite
  BY <1>6 DEF TrimWrite, Written
<1> QED BY <1>1, <1>2, <1>3, <1>4, <1>5, <1>6 DEF Fuzzing

\* A kill outside the two windows leaves the good directory where the next
\* session will look for it.
LEMMA CrashKeeps == TypeInv /\ KeptInv /\ Crash => KeptInv'
<1> SUFFICES ASSUME TypeInv, KeptInv, Crash, Unharmed' PROVE Kept'
  BY DEF KeptInv
<1>1. Kept /\ AtRisk \cap {"trim", "nuke"} = {}
  BY DEF Crash, Unharmed, KeptInv
<1>2. pc \notin {"trim", "trim_write"} /\ (pc = "nuke" /\ ~Vacant(resume) => resume.state)
  BY <1>1 DEF AtRisk
<1>3. saved \subseteq Chosen.full
  <2>1. Vacant(resume) => resume.full = {}
    BY DEF Vacant, Files
  <2>2. Vacant(NoDir)
    BY DEF Vacant, Files, NoDir
  <2> QED BY <1>1, <1>2, <2>1, <2>2 DEF Kept, Chosen, TypeInv, TypeOK
<1> QED BY <1>3 DEF Crash, disk, Kept, Chosen

\* Every step keeps the test cases.
LEMMA NextKeeps == TypeInv /\ KeptInv /\ [Next]_vars => KeptInv'
<1>1. KeptInv /\ UNCHANGED vars => KeptInv'
  BY DEF KeptInv, Unharmed, Kept, Chosen, vars, disk, program, history
<1> QED BY <1>1, SetupKeeps, ImportKeeps, FuzzingKeeps, CrashKeeps DEF Next

\* Wherever the program was killed, and however often, a test case that was
\* written is still in one of the two directories, unless it was killed while
\* trimming or while deleting _resume/.
THEOREM NoTestCaseLost == Spec => []NothingLost
<1>1. TypeInv /\ KeptInv => NothingLost
  BY DEF TypeInv, TypeOK, KeptInv, Unharmed, Kept, Chosen, NothingLost
<1> QED BY <1>1, TypeInvHolds, KeptInit, NextKeeps, PTL DEF Spec

-----------------------------------------------------------------------------
(* A resumed session.  The parts say that nothing is made up, nothing left *)
(* out, and where the marks are while queue/ is rebuilt.                   *)

\* Nothing is made up: what the directories and the queue in memory hold, or have
\* a mark for, was once written, but for the find that is being written; and a
\* file is empty only between its creation and its write.
Genuine ==
  /\ queue.full \subseteq saved /\ resume.full \subseteq saved /\ marked \subseteq saved
  /\ pc # "find" => mem \subseteq saved
  /\ pc = "find" => mem \subseteq saved \cup at
  /\ pc \in {"copy", "mark", "trim", "trim_write"} => at \subseteq mem
  /\ pc \notin {"down", "rename", "wipe"} =>
       queue.empty = IF pc \in {"copy", "find", "trim_write"} THEN at ELSE {}
  /\ pc \in {"mkdir", "read"} => queue.full = {}

\* Nothing is left out: from the end of read_testcases on, the queue in memory has
\* every test case there is.
Complete ==
  Unharmed =>
    /\ pc \in {"pivot", "copy", "mark", "nuke", "fuzz", "find", "trim", "trim_write"} =>
         saved \subseteq mem
    /\ pc = "find" => at \subseteq mem

\* A mark is where the test case is, and is read before _resume/ goes; while queue/
\* is rebuilt the entries that are in it and have passed have their mark already,
\* or get it next.
MarkedInv ==
  torn = {} =>
    /\ pc \in {"down", "rename"} => marked \subseteq Chosen.marks
    /\ pc \in {"wipe", "mkdir", "read", "pivot", "copy", "mark"} => marked \subseteq resume.marks
    /\ pc \in {"pivot", "copy", "mark"} =>
         /\ marked \subseteq passed
         /\ \A t \in queue.full \cap passed : t \in queue.marks \/ (pc = "mark" /\ t \in at)
    /\ pc \in {"nuke", "fuzz", "find", "trim", "trim_write"} => marked \subseteq queue.marks

\* The inductive invariant.
SessionInv == TypeInv /\ KeptInv /\ Genuine /\ Complete /\ MarkedInv

\* Every step adds to the directories only what was written.
LEMMA GenuineStep == SessionInv /\ Next => Genuine'
<1> SUFFICES ASSUME SessionInv, Next PROVE Genuine'
  OBVIOUS
<1> USE DEF disk, program, history
<1>1. CASE Restart
  BY <1>1 DEF Restart, SessionInv, Genuine
<1>2. CASE Rename
  BY <1>2 DEF Rename, SessionInv, Genuine, NoDir
<1>3. CASE Wipe
  <2>1. queue'.full \subseteq queue.full
    BY <1>3, DeletedTypes DEF Wipe, SessionInv, TypeInv, TypeOK
  <2> QED BY <1>3, <2>1 DEF Wipe, SessionInv, Genuine
<1>4. CASE MakeQueue
  BY <1>4 DEF MakeQueue, SessionInv, Genuine, NoDir
<1>5. CASE MakeState
  BY <1>5 DEF MakeState, SessionInv, Genuine
<1>6. CASE ReadTestcases
  BY <1>6 DEF ReadTestcases, SessionInv, Genuine
<1>7. CASE PivotLink
  BY <1>7 DEF PivotLink, SessionInv, Genuine
<1>8. CASE PivotCopy
  BY <1>8 DEF PivotCopy, SessionInv, Genuine
<1>9. CASE CopyWrite
  BY <1>9 DEF CopyWrite, Written, SessionInv, Genuine
<1>10. CASE PivotMark
  BY <1>10 DEF PivotMark, SessionInv, Genuine
<1>11. CASE PivotDone
  BY <1>11 DEF PivotDone, SessionInv, Genuine
<1>12. CASE Nuke
  <2>1. resume'.full \subseteq resume.full
    BY <1>12, DeletedTypes DEF Nuke, SessionInv, TypeInv, TypeOK
  <2> QED BY <1>12, <2>1 DEF Nuke, SessionInv, Genuine
<1>13. CASE NukeDone
  BY <1>13 DEF NukeDone, SessionInv, Genuine
<1>14. CASE FindCreate
  BY <1>14 DEF FindCreate, SessionInv, Genuine
<1>15. CASE FindWrite
  BY <1>15 DEF FindWrite, Written, SessionInv, Genuine
<1>16. CASE DetDone
  BY <1>16 DEF DetDone, SessionInv, Genuine
<1>17. CASE TrimUnlink
  BY <1>17 DEF TrimUnlink, SessionInv, Genuine
<1>18. CASE TrimCreate
  BY <1>18 DEF TrimCreate, SessionInv, Genuine
<1>19. CASE TrimWrite
  BY <1>19 DEF TrimWrite, Written, SessionInv, Genuine
<1>20. CASE Crash
  BY <1>20 DEF Crash, SessionInv, Genuine
<1> QED
  BY <1>1, <1>2, <1>3, <1>4, <1>5, <1>6, <1>7, <1>8, <1>9, <1>10, <1>11, <1>12, <1>13, <1>14,
     <1>15, <1>16, <1>17, <1>18, <1>19, <1>20 DEF Next, Setup, Import, Fuzzing

\* After the test cases were read, a step of the program adds a test case to the
\* directory and to the queue, or to none.
LEMMA CompleteStep == SessionInv /\ Next => Complete'
<1> SUFFICES ASSUME SessionInv, Next PROVE Complete'
  OBVIOUS
<1> USE DEF disk, program, history
<1>1. CASE Restart
  BY <1>1 DEF Restart, Complete
<1>2. CASE Rename
  BY <1>2 DEF Rename, Complete
<1>3. CASE Wipe
  BY <1>3 DEF Wipe, Complete
<1>4. CASE MakeQueue
  BY <1>4 DEF MakeQueue, Complete
<1>5. CASE MakeState
  BY <1>5 DEF MakeState, Complete
<1>6. CASE ReadTestcases
  BY <1>6 DEF ReadTestcases, SessionInv, KeptInv, Kept, Unharmed, Complete
<1>7. CASE PivotLink
  BY <1>7 DEF PivotLink, SessionInv, Unharmed, Complete
<1>8. CASE PivotCopy
  BY <1>8 DEF PivotCopy, SessionInv, Unharmed, Complete
<1>9. CASE CopyWrite
  BY <1>9 DEF CopyWrite, SessionInv, Unharmed, Complete
<1>10. CASE PivotMark
  BY <1>10 DEF PivotMark, SessionInv, Unharmed, Complete
<1>11. CASE PivotDone
  BY <1>11 DEF PivotDone, SessionInv, Unharmed, Complete
<1>12. CASE Nuke
  BY <1>12 DEF Nuke, SessionInv, Unharmed, Complete
<1>13. CASE NukeDone
  BY <1>13 DEF NukeDone, SessionInv, Unharmed, Complete
<1>14. CASE FindCreate
  BY <1>14 DEF FindCreate, SessionInv, Unharmed, Complete
<1>15. CASE FindWrite
  BY <1>15 DEF FindWrite, SessionInv, Unharmed, Complete
<1>16. CASE DetDone
  BY <1>16 DEF DetDone, SessionInv, Unharmed, Complete
<1>17. CASE TrimUnlink
  BY <1>17 DEF TrimUnlink, SessionInv, Unharmed, Complete
<1>18. CASE TrimCreate
  BY <1>18 DEF TrimCreate, SessionInv, Unharmed, Complete
<1>19. CASE TrimWrite
  BY <1>19 DEF TrimWrite, SessionInv, Unharmed, Complete
<1>20. CASE Crash
  BY <1>20 DEF Crash, Complete
<1> QED
  BY <1>1, <1>2, <1>3, <1>4, <1>5, <1>6, <1>7, <1>8, <1>9, <1>10, <1>11, <1>12, <1>13, <1>14,
     <1>15, <1>16, <1>17, <1>18, <1>19, <1>20 DEF Next, Setup, Import, Fuzzing

\* Every step keeps the marks.  After a kill the next session takes queue/ when
\* _resume/ is vacant: if it should hold the marks, then nothing was marked yet.
LEMMA MarkedStep == SessionInv /\ Next => MarkedInv'
<1> SUFFICES ASSUME SessionInv, Next PROVE MarkedInv'
  OBVIOUS
<1> USE DEF disk, program, history
<1>1. CASE Restart
  BY <1>1 DEF Restart, SessionInv, MarkedInv, Chosen
<1>2. CASE Rename
  BY <1>2 DEF Rename, SessionInv, TypeInv, TypeOK, MarkedInv, NoDir, Chosen
<1>3. CASE Wipe
  BY <1>3 DEF Wipe, SessionInv, MarkedInv
<1>4. CASE MakeQueue
  BY <1>4 DEF MakeQueue, SessionInv, MarkedInv
<1>5. CASE MakeState
  BY <1>5 DEF MakeState, SessionInv, MarkedInv
<1>6. CASE ReadTestcases
  <2> SUFFICES ASSUME torn = {} PROVE MarkedInv'
    BY <1>6 DEF ReadTestcases, MarkedInv
  <2>1. marked \subseteq resume.marks /\ marked \subseteq saved /\ saved \subseteq resume.full
    BY <1>6 DEF ReadTestcases, SessionInv, MarkedInv, Genuine, KeptInv, Kept, Unharmed
  <2>2. CASE resume.full = {}
    BY <1>6, <2>1, <2>2 DEF ReadTestcases, MarkedInv
  <2>3. CASE resume.full # {}
    BY <1>6, <2>1, <2>3 DEF ReadTestcases, SessionInv, Genuine, MarkedInv
  <2> QED BY <2>2, <2>3
<1>7. CASE PivotLink
  BY <1>7 DEF PivotLink, SessionInv, MarkedInv
<1>8. CASE PivotCopy
  BY <1>8 DEF PivotCopy, SessionInv, MarkedInv
<1>9. CASE CopyWrite
  BY <1>9 DEF CopyWrite, Written, SessionInv, MarkedInv
<1>10. CASE PivotMark
  BY <1>10 DEF PivotMark, SessionInv, MarkedInv
<1>11. CASE PivotDone
  BY <1>11 DEF PivotDone, SessionInv, Genuine, Unharmed, Complete, MarkedInv
<1>12. CASE Nuke
  BY <1>12 DEF Nuke, SessionInv, MarkedInv
<1>13. CASE NukeDone
  BY <1>13 DEF NukeDone, SessionInv, MarkedInv
<1>14. CASE FindCreate
  BY <1>14 DEF FindCreate, SessionInv, MarkedInv
<1>15. CASE FindWrite
  BY <1>15 DEF FindWrite, Written, SessionInv, MarkedInv
<1>16. CASE DetDone
  BY <1>16 DEF DetDone, SessionInv, MarkedInv
<1>17. CASE TrimUnlink
  BY <1>17 DEF TrimUnlink, SessionInv, MarkedInv
<1>18. CASE TrimCreate
  BY <1>18 DEF TrimCreate, SessionInv, MarkedInv
<1>19. CASE TrimWrite
  BY <1>19 DEF TrimWrite, Written, SessionInv, MarkedInv
<1>20. CASE Crash
  <2> SUFFICES ASSUME torn' = {} PROVE MarkedInv'
    BY DEF MarkedInv
  <2>1. /\ torn = {} /\ pc \notin {"down", "trim", "trim_write"}
        /\ pc = "nuke" => Vacant(resume)
    BY <1>20 DEF Crash, AtRisk
  <2>2. marked \subseteq Chosen.marks
    <3>1. CASE pc \in {"wipe", "mkdir", "read", "pivot", "copy", "mark"}
      <4>1. marked \subseteq resume.marks /\ marked \subseteq saved /\ saved \subseteq resume.full
        BY <2>1, <3>1 DEF SessionInv, MarkedInv, Genuine, KeptInv, Kept, Unharmed
      <4>2. Vacant(resume) => marked = {}
        BY <4>1 DEF Vacant, Files
      <4> QED BY <4>1, <4>2 DEF Chosen
    <3>2. CASE pc \in {"nuke", "fuzz", "find"}
      <4>1. Vacant(resume)
        BY <2>1, <3>2 DEF SessionInv, KeptInv, Kept, Unharmed, Vacant, Files, NoDir
      <4> QED BY <2>1, <3>2, <4>1 DEF SessionInv, MarkedInv, Chosen
    <3> QED BY <2>1, <3>1, <3>2 DEF SessionInv, MarkedInv, TypeInv, TypeOK
  <2> QED BY <1>20, <2>2 DEF Crash, MarkedInv, Chosen
<1> QED
  BY <1>1, <1>2, <1>3, <1>4, <1>5, <1>6, <1>7, <1>8, <1>9, <1>10, <1>11, <1>12, <1>13, <1>14,
     <1>15, <1>16, <1>17, <1>18, <1>19, <1>20 DEF Next, Setup, Import, Fuzzing

\* A session that has just begun has marked nothing.
LEMMA InitSession == Init => SessionInv
<1> SUFFICES ASSUME Init PROVE SessionInv
  OBVIOUS
<1>1. PICK seeds \in (SUBSET Cases) \ {{}} :
        /\ queue = [NoDir EXCEPT !.here = TRUE, !.state = TRUE, !.full = seeds]
        /\ mem = seeds /\ saved = seeds
  BY DEF Init
<1>2. Genuine /\ Complete /\ MarkedInv
  BY <1>1 DEF Init, Genuine, Complete, MarkedInv, NoDir
<1> QED BY <1>2, InitTypes, KeptInit DEF SessionInv

\* The invariant is inductive.
LEMMA NextSession == SessionInv /\ [Next]_vars => SessionInv'
<1>1. SessionInv /\ UNCHANGED vars => Genuine' /\ Complete' /\ MarkedInv'
  BY DEF SessionInv, Genuine, Complete, MarkedInv, Unharmed, Chosen, vars, disk, program, history
<1> QED BY <1>1, NextTypes, NextKeeps, GenuineStep, CompleteStep, MarkedStep DEF SessionInv

\* It holds in every state.
LEMMA SessionHolds == Spec => []SessionInv
BY InitSession, NextSession, PTL DEF Spec

\* A session that has resumed has in its queue exactly the test cases that were ever
\* written, and so has the directory, unless it was killed while trimming or while
\* deleting _resume/.
THEOREM ResumedSessionWhole == Spec => []ResumedWhole
<1>1. SessionInv => ResumedWhole
  BY DEF SessionInv, NoDir, KeptInv, Kept, Genuine, Complete, Unharmed, ResumedWhole
<1> QED BY <1>1, SessionHolds, PTL

\* An entry that was marked as passed stays marked through any number of kills, but
\* for kills inside the rewriting of trim_case (4908-4922) or the deletion of
\* _resume/ (3865-3893): its deterministic stages are not repeated.
THEOREM MarksSurvive == Spec => []MarksKept
<1>1. SessionInv => MarksKept
  BY DEF SessionInv, TypeInv, TypeOK, MarkedInv, Chosen, MarksKept
<1> QED BY <1>1, SessionHolds, PTL
=============================================================================
