-------------------------- MODULE ForkServerProofs ---------------------------
(***************************************************************************)
(* Proofs about ForkServer, for any number of runs and of cycles: the      *)
(* protocol of afl-fuzz, the server and its child keeps the runs apart, the*)
(* trace is the one of this run, a child that is resumed lives, and        *)
(* together they do what Execution says of a run.                          *)
(***************************************************************************)
EXTENDS ForkServer, SequenceTheorems, TLAPS

-----------------------------------------------------------------------------
(* Pipes.                                                                  *)

\* A sequence of one,
LEMMA Single == \A x : Head(<<x>>) = x /\ Tail(<<x>>) = <<>> /\ <<x>> # <<>> /\ <<x>>[1] = x
OBVIOUS

\* and of two.
LEMMA Pair ==
  \A x, y : /\ Head(<<x, y>>) = x /\ Tail(<<x, y>>) = <<y>> /\ <<x, y>> # <<>>
           /\ <<x, y>>[1] = x /\ <<x, y>>[2] = y
OBVIOUS

\* What is in a pipe after a first write,
LEMMA AppendFirst == \A x : Append(<<>>, x) = <<x>>
<1> SUFFICES ASSUME NEW x PROVE Append(<<>>, x) = <<x>>
  OBVIOUS
<1>1. <<>> \in Seq({x}) /\ x \in {x}
  OBVIOUS
<1>2. Append(<<>>, x) \in Seq({x}) /\ Len(Append(<<>>, x)) = 1 /\ Append(<<>>, x)[1] = x
  BY <1>1
<1>3. <<x>> \in Seq({x}) /\ Len(<<x>>) = 1 /\ <<x>>[1] = x
  OBVIOUS
<1> QED BY <1>2, <1>3

\* and after a second one.
LEMMA AppendSecond == ASSUME NEW x, NEW y PROVE Append(<<x>>, y) = <<x, y>>
<1>1. <<x>> \in Seq({x, y}) /\ y \in {x, y} /\ Len(<<x>>) = 1 /\ <<x>>[1] = x
  OBVIOUS
<1>2. <<x, y>> \in Seq({x, y}) /\ Len(<<x, y>>) = 2 /\ <<x, y>>[1] = x /\ <<x, y>>[2] = y
  OBVIOUS
<1>3. /\ Append(<<x>>, y) \in Seq({x, y})
      /\ Len(Append(<<x>>, y)) = Len(<<x>>) + 1
      /\ \A i \in 1 .. Len(<<x>>) : Append(<<x>>, y)[i] = <<x>>[i]
      /\ Append(<<x>>, y)[Len(<<x>>) + 1] = y
  BY <1>1
<1>4. Len(Append(<<x>>, y)) = 2 /\ Append(<<x>>, y)[1] = x /\ Append(<<x>>, y)[2] = y
  BY <1>1, <1>3
<1>5. \A i \in 1 .. 2 : Append(<<x>>, y)[i] = <<x, y>>[i]
  <2>1. \A i \in 1 .. 2 : i = 1 \/ i = 2
    OBVIOUS
  <2> QED BY <1>2, <1>4, <2>1
<1> QED BY <1>2, <1>3, <1>4, <1>5, SeqEqual

\* What a child leaves in the trace has its test case in it.
LEMMA TagsTyped ==
  child.test \in 0 .. MaxRuns => \A p \in {"boot", "body", "after"} : Tag(p) \subseteq Tags
BY DEF Tag, Tags

-----------------------------------------------------------------------------
(* The invariant.                                                          *)

\* The values of child.
Phases == {"none", "boot", "body", "after", "stopped", "zombie"}
\* Why it ended.
Causes == {"none", "exit", "crash", "kill"}
\* All of them.
Children == [pid : 0 .. MaxRuns, test : 0 .. MaxRuns, cycles : 0 .. MaxCycles,
             phase : Phases, cause : Causes]

\* A child that goes on, or ends, is a child.
LEMMA ChildUpdated ==
  child \in Children =>
    \A p \in Phases, c \in Causes :
      /\ [child EXCEPT !.phase = p, !.cause = c] \in Children
      /\ [child EXCEPT !.phase = p] \in Children
BY DEF Children

\* The Booleans, apart from the rest because Zenon has to work on them.
Flags ==
  /\ is_persistent \in BOOLEAN /\ child_timed_out \in BOOLEAN /\ prev_timed_out \in BOOLEAN
  /\ stop_soon \in BOOLEAN /\ armed \in BOOLEAN /\ was_killed \in BOOLEAN
  /\ child_stopped \in BOOLEAN

\* The other types.  A child never has more forks than there are runs, so that a pid
\* is the number of a run.
TypeInv ==
  /\ fz \in {"hello", "hello_disarm", "idle", "ctl", "pid", "arm", "wait", "clear",
             "disarm", "verdict", "quit", "exited"}
  /\ fs \in {"start", "read", "launch", "sendpid", "waitpid", "relay", "dead"}
  /\ run \in 0 .. MaxRuns /\ forks \in 0 .. run /\ child_pid \in -1 .. MaxRuns
  /\ status \in Statuses /\ fs_status \in Statuses
  /\ fault \in {"none", "NONE", "TMOUT", "CRASH"}
  /\ child \in Children
  /\ area \subseteq Tags /\ pointer \subseteq Tags /\ memseq \subseteq Tags
  /\ outcome \in {"none", "done", "crash", "killed"}

\* Where the two programs can be at the same time: afl-fuzz waits in a read while
\* the server works.
Together ==
  /\ fz = "hello" => fs \in {"start", "read", "dead"}
  /\ fz \in {"hello_disarm", "idle", "ctl", "clear", "disarm", "verdict"} =>
       fs \in {"read", "dead"}
  /\ fz = "pid" => fs # "start"
  /\ fz \in {"arm", "wait"} => fs \in {"waitpid", "relay", "read", "dead"}
  /\ fz \in {"quit", "exited"} \/ stop_soon => fs = "dead"
  /\ fz = "quit" => stop_soon
  /\ fz = "ctl" \/ fs = "launch" \/ ctl # <<>> => forks < run

\* The control pipe holds at most the one message of this run, which is what was
\* assigned to prev_timed_out.
Control ==
  /\ ctl = <<>> \/ ctl = <<prev_timed_out>>
  /\ ctl # <<>> => st = <<>> /\ fz \in {"pid", "quit", "exited"} /\ fs \in {"read", "dead"}

\* The status pipe holds what the server has written of this run and afl-fuzz has
\* not read: the pid, the status, or both.
StatusPipe ==
  /\ fz = "hello" => \/ st = <<>> /\ fs \in {"start", "dead"}
                     \/ st = <<"hello">> /\ fs \in {"read", "dead"}
  /\ fz = "pid" =>
       \/ st = <<>> /\ (fs \in {"launch", "sendpid", "dead"} \/ ctl # <<>>)
       \/ \E p \in 1 .. MaxRuns : st = <<p>> /\ fs \in {"waitpid", "relay", "dead"}
       \/ \E p \in 1 .. MaxRuns, s \in Statuses :
            st = <<p, s>> /\ fs \in {"read", "dead"} /\ ctl = <<>>
  /\ fz \in {"arm", "wait"} =>
       \/ st = <<>> /\ fs \in {"waitpid", "relay", "dead"}
       \/ \E s \in Statuses : st = <<s>> /\ fs \in {"read", "dead"}
  /\ fz \notin {"hello", "pid", "arm", "wait"} => st = <<>>

\* The timer is armed only where afl-fuzz waits for it, or is about to disarm it.
Timer == armed => fz \in {"hello", "hello_disarm", "wait", "clear", "disarm", "quit"}

\* Until the server has said hello there is no child.
Starting == fz \in {"hello", "hello_disarm"} => child_pid = -1 /\ run = 0

\* The protocol.
PipeInv == Together /\ Control /\ StatusPipe /\ Starting /\ Timer

\* The phases in which a child executes something.
Running == {"boot", "body", "after"}

\* A run has three parts: before the server has launched its child,
Before == fz \in {"hello", "hello_disarm", "idle", "ctl"} \/ ctl # <<>> \/ fs = "launch"
\* while the server waits for it (FsWaitpid returns only for this child: a waitpid that
\* writes off a killed one, in FsReap, finds a zombie and never blocks),
Launched == fs \in {"sendpid", "waitpid"}
\* and after, until the next run.
Waited == ~Before /\ ~Launched

\* The pid afl-fuzz knows, or will read next.
ToldPid == IF fz = "pid" THEN st[1] ELSE child_pid

\* No test case is running: the child is gone or stopped, and if it was killed since
\* it stopped, the message tells the server, or will.
BeforeInv ==
  /\ child_stopped => /\ child.phase \in {"stopped", "zombie"} /\ child.pid > 0
                      /\ child.phase = "zombie" <=> prev_timed_out
  /\ ~child_stopped => child.phase = "none"
  /\ fs = "launch" => was_killed = prev_timed_out
  /\ fz \in {"hello", "hello_disarm"} =>
       ~child_stopped /\ run = 0 /\ ~child_timed_out /\ ~prev_timed_out /\ fault = "none"
  /\ fz \in {"ctl", "pid"} => outcome = "none" /\ area = {} /\ ~child_timed_out
  /\ fz = "idle" /\ fault = "NONE" => area = {<<"body", run>>}

\* How a child ended, told by what waitpid says.
Ended(how) ==
  \/ how = "exit" /\ outcome = "done"
  \/ how = "crash" /\ outcome = "crash"
  \/ how = "kill" /\ child_timed_out /\ outcome \in {"done", "killed"}

\* The child runs this test case and was not killed unless the run timed out; what it
\* has in the trace is nothing until the body is done.
LaunchedInv ==
  /\ ~child_stopped /\ child.test = run /\ child.pid > 0
  /\ child.phase # "none"
  /\ child.phase \in {"boot", "body"} => outcome = "none" /\ area = {}
  /\ child.phase \in {"after", "stopped"} => outcome = "done"
  /\ child.phase = "zombie" => Ended(child.cause)
  /\ child_timed_out => child.phase = "zombie"
  /\ fs = "waitpid" => ToldPid = child.pid

\* The status on its way, or read, is the one of this run; a stopped child may still
\* be killed by a late alarm, and then child_timed_out tells.
WaitedInv ==
  /\ IF fs_status = "stop"
     THEN /\ child_stopped /\ child.phase \in {"stopped", "zombie"} /\ child.pid > 0
          /\ child.phase = "zombie" <=> child_timed_out
          /\ outcome = "done"
     ELSE /\ ~child_stopped /\ child.phase = "none"
          /\ Ended(fs_status)
  /\ fz = "pid" /\ fs = "read" => st[2] = fs_status
  /\ fz \in {"arm", "wait"} /\ fs = "read" => st = <<fs_status>>
  /\ fz \in {"clear", "disarm", "verdict"} => status = fs_status
  /\ IF fz \in {"pid", "arm", "wait", "clear"} THEN ToldPid > 0 ELSE child_pid >= 0
  /\ fs_status = "stop" => ToldPid = child.pid

\* While the server lives.  When the body was executed to its end, its tag alone is
\* in the trace.
RunInv ==
  fs # "dead" =>
    /\ Before => BeforeInv
    /\ Launched => LaunchedInv
    /\ Waited => WaitedInv
    /\ fz \in {"pid", "arm"} => ~child_timed_out
    /\ Launched \/ Waited => (outcome = "done" => area = {<<"body", run>>})

\* When the server has died of itself no child executes anything.
DeadInv ==
  fs = "dead" /\ ~stop_soon =>
    /\ fz \in {"hello", "hello_disarm", "idle", "ctl", "pid", "exited"}
    /\ fz = "idle" => run = 0
    /\ fz = "pid" => st = <<>>
    /\ child.phase \notin Running

\* The inductive invariant.
Inv == Flags /\ TypeInv /\ PipeInv /\ RunInv /\ DeadInv

-----------------------------------------------------------------------------
(* Every step keeps each part.                                             *)

\* Every step keeps the Booleans.
LEMMA FlagsStep == Inv /\ Next => Flags'
<1> SUFFICES ASSUME Inv, Next PROVE Flags'
  OBVIOUS
<1> USE DEF Inv, fuzzer, signals, server, process, pipes, shm
<1>1. CASE HelloRead
  BY <1>1, Zenon DEF HelloRead, Flags
<1>2. CASE HelloDisarm
  BY <1>2, Zenon DEF HelloDisarm, Flags
<1>3. CASE HelloFails
  BY <1>3, Zenon DEF HelloFails, Flags
<1>4. CASE StartRun
  BY <1>4, Zenon DEF StartRun, Flags
<1>5. CASE WriteCtl
  BY <1>5, Zenon DEF WriteCtl, Flags
<1>6. CASE ReadPid
  BY <1>6, Zenon DEF ReadPid, Flags
<1>7. CASE Arm
  BY <1>7, Zenon DEF Arm, Flags
<1>8. CASE ReadStatus
  BY <1>8, Zenon DEF ReadStatus, Flags
<1>9. CASE PipeBroken
  BY <1>9, Zenon DEF PipeBroken, Flags
<1>10. CASE ClearPid
  BY <1>10, Zenon DEF ClearPid, Flags
<1>11. CASE Disarm
  BY <1>11, Zenon DEF Disarm, Flags
<1>12. CASE Verdict
  BY <1>12, Zenon DEF Verdict, Flags
<1>13. CASE Exit
  BY <1>13, Zenon DEF Exit, Flags
<1>14. CASE Alarm
  BY <1>14, Zenon DEF Alarm, Flags
<1>15. CASE StopSignal
  BY <1>15, Zenon DEF StopSignal, Flags
<1>16. CASE FsHello
  BY <1>16, Zenon DEF FsHello, Flags
<1>17. CASE FsRead
  <2>1. was_killed' = prev_timed_out
    BY <1>17 DEF FsRead, PipeInv, Control
  <2> QED BY <1>17, <2>1, Zenon DEF FsRead, Flags
<1>18. CASE FsReap
  BY <1>18, Zenon DEF FsReap, Flags
<1>19. CASE FsFork
  BY <1>19, Zenon DEF FsFork, Flags
<1>20. CASE FsResume
  BY <1>20, Zenon DEF FsResume, Flags
<1>21. CASE FsSendPid
  BY <1>21, Zenon DEF FsSendPid, Flags
<1>22. CASE FsWaitpid
  BY <1>22, Zenon DEF FsWaitpid, Flags
<1>23. CASE FsRelay
  BY <1>23, Zenon DEF FsRelay, Flags
<1>24. CASE FsDies
  BY <1>24, Zenon DEF FsDies, Flags
<1>25. CASE ChildEntersLoop
  BY <1>25, Zenon DEF ChildEntersLoop, Flags
<1>26. CASE ChildEndsBody
  BY <1>26, Zenon DEF ChildEndsBody, Flags
<1>27. CASE ChildExits
  BY <1>27, Zenon DEF ChildExits, Flags
<1>28. CASE ChildCrashes
  BY <1>28, Zenon DEF ChildCrashes, Flags
<1>29. CASE Terminating
  BY <1>29, Zenon DEF Terminating, vars, Flags
<1> QED
  BY <1>1, <1>2, <1>3, <1>4, <1>5, <1>6, <1>7, <1>8, <1>9, <1>10, <1>11, <1>12, <1>13, <1>14,
     <1>15, <1>16, <1>17, <1>18, <1>19, <1>20, <1>21, <1>22, <1>23, <1>24, <1>25, <1>26, <1>27,
     <1>28, <1>29 DEF Next, AflFuzz, RunTarget, Signals, Server, Child

\* Every step keeps the other types.
LEMMA TypeStep == Inv /\ Next => TypeInv'
<1> SUFFICES ASSUME Inv, Next PROVE TypeInv'
  OBVIOUS
<1> USE DEF Inv, fuzzer, signals, server, process, pipes, shm
<1>1. CASE HelloRead
  BY <1>1 DEF HelloRead, TypeInv
<1>2. CASE HelloDisarm
  BY <1>2 DEF HelloDisarm, TypeInv
<1>3. CASE HelloFails
  BY <1>3 DEF HelloFails, TypeInv
<1>4. CASE StartRun
  BY <1>4, MaxRunsAssumption DEF StartRun, TypeInv
<1>5. CASE WriteCtl
  BY <1>5 DEF WriteCtl, TypeInv
<1>6. CASE ReadPid
  BY <1>6 DEF ReadPid, TypeInv, StatusPipe, PipeInv
<1>7. CASE Arm
  BY <1>7 DEF Arm, TypeInv
<1>8. CASE ReadStatus
  BY <1>8 DEF ReadStatus, TypeInv, StatusPipe, PipeInv
<1>9. CASE PipeBroken
  BY <1>9 DEF PipeBroken, TypeInv
<1>10. CASE ClearPid
  BY <1>10, MaxRunsAssumption DEF ClearPid, TypeInv
<1>11. CASE Disarm
  BY <1>11 DEF Disarm, TypeInv
<1>12. CASE Verdict
  BY <1>12 DEF Verdict, Fault, TypeInv
<1>13. CASE Exit
  BY <1>13 DEF Exit, TypeInv
<1>14. CASE Alarm
  <2>1. child' \in Children /\ outcome' \in {"none", "done", "crash", "killed"}
    <3>1. CASE UNCHANGED <<child, outcome>>
      BY <3>1 DEF TypeInv
    <3>2. CASE /\ child' = [child EXCEPT !.phase = "zombie", !.cause = "kill"]
               /\ outcome' = IF outcome = "none" /\ child.test = run THEN "killed" ELSE outcome
      BY <3>2, ChildUpdated DEF TypeInv, Phases, Causes
    <3> QED BY <1>14, <3>1, <3>2 DEF Alarm, KillChild
  <2> QED BY <1>14, <2>1 DEF Alarm, TypeInv
<1>15. CASE StopSignal
  <2>1. child' \in Children /\ outcome' \in {"none", "done", "crash", "killed"}
    <3>1. CASE UNCHANGED <<child, outcome>>
      BY <3>1 DEF TypeInv
    <3>2. CASE /\ child' = [child EXCEPT !.phase = "zombie", !.cause = "kill"]
               /\ outcome' = IF outcome = "none" /\ child.test = run THEN "killed" ELSE outcome
      BY <3>2, ChildUpdated DEF TypeInv, Phases, Causes
    <3> QED BY <1>15, <3>1, <3>2 DEF StopSignal, KillChild
  <2> QED BY <1>15, <2>1 DEF StopSignal, TypeInv
<1>16. CASE FsHello
  BY <1>16 DEF FsHello, TypeInv
<1>17. CASE FsRead
  BY <1>17 DEF FsRead, TypeInv
<1>18. CASE FsReap
  BY <1>18, MaxRunsAssumption, MaxCyclesAssumption DEF FsReap, NoChild, TypeInv, Children,
     Phases, Causes
<1>19. CASE FsFork
  BY <1>19, MaxRunsAssumption, MaxCyclesAssumption DEF FsFork, TypeInv, Together, PipeInv,
     Children, Phases, Causes
<1>20. CASE FsResume
  BY <1>20, Pair DEF FsResume, TypeInv, Together, StatusPipe, PipeInv, Children, Phases
<1>21. CASE FsSendPid
  BY <1>21 DEF FsSendPid, TypeInv
<1>22. CASE FsWaitpid
  BY <1>22, MaxRunsAssumption, MaxCyclesAssumption DEF FsWaitpid, NoChild, TypeInv, Statuses,
     Children, Phases, Causes
<1>23. CASE FsRelay
  BY <1>23 DEF FsRelay, TypeInv
<1>24. CASE FsDies
  BY <1>24 DEF FsDies, TypeInv
<1>25. CASE ChildEntersLoop
  <2>1. child' \in Children
    BY <1>25, ChildUpdated DEF ChildEntersLoop, TypeInv, Phases, Causes
  <2>2. area' \subseteq Tags /\ pointer' \subseteq Tags /\ memseq' \subseteq Tags
    BY <1>25, TagsTyped DEF ChildEntersLoop, TypeInv, Children
  <2> QED BY <1>25, <2>1, <2>2 DEF ChildEntersLoop, TypeInv
<1>26. CASE ChildEndsBody
  <2>1. child' \in Children
    <3>1. CASE is_persistent /\ child.cycles > 1
      <4>1. child.cycles - 1 \in 0 .. MaxCycles
        BY <3>1, MaxCyclesAssumption DEF TypeInv, Children
      <4>2. child' = [child EXCEPT !.phase = "stopped", !.cycles = child.cycles - 1]
        BY <1>26, <3>1 DEF ChildEndsBody
      <4> QED BY <4>1, <4>2 DEF TypeInv, Children, Phases
    <3>2. CASE ~(is_persistent /\ child.cycles > 1)
      BY <1>26, <3>2, ChildUpdated DEF ChildEndsBody, TypeInv, Phases, Causes
    <3> QED BY <3>1, <3>2
  <2>2. area' \subseteq Tags /\ pointer' \subseteq Tags /\ memseq' \subseteq Tags
    BY <1>26, TagsTyped DEF ChildEndsBody, TypeInv, Children
  <2> QED BY <1>26, <2>1, <2>2 DEF ChildEndsBody, Ends, TypeInv
<1>27. CASE ChildExits
  <2>1. child' \in Children
    BY <1>27, ChildUpdated DEF ChildExits, TypeInv, Phases, Causes
  <2>2. area' \subseteq Tags /\ pointer' \subseteq Tags /\ memseq' \subseteq Tags
    BY <1>27, TagsTyped DEF ChildExits, TypeInv, Children
  <2> QED BY <1>27, <2>1, <2>2 DEF ChildExits, TypeInv
<1>28. CASE ChildCrashes
  <2>1. child' \in Children
    BY <1>28, ChildUpdated DEF ChildCrashes, TypeInv, Phases, Causes
  <2>2. area' \subseteq Tags /\ pointer' \subseteq Tags /\ memseq' \subseteq Tags
    BY <1>28, TagsTyped DEF ChildCrashes, TypeInv, Children
  <2> QED BY <1>28, <2>1, <2>2 DEF ChildCrashes, TypeInv
<1>29. CASE Terminating
  BY <1>29 DEF Terminating, vars, TypeInv
<1> QED
  BY <1>1, <1>2, <1>3, <1>4, <1>5, <1>6, <1>7, <1>8, <1>9, <1>10, <1>11, <1>12, <1>13, <1>14,
     <1>15, <1>16, <1>17, <1>18, <1>19, <1>20, <1>21, <1>22, <1>23, <1>24, <1>25, <1>26, <1>27,
     <1>28, <1>29 DEF Next, AflFuzz, RunTarget, Signals, Server, Child

\* Every step keeps the two programs in step.
LEMMA TogetherStep == Inv /\ Next => Together'
<1> SUFFICES ASSUME Inv, Next PROVE Together'
  OBVIOUS
<1> USE DEF Inv, fuzzer, signals, server, process, pipes, shm
<1>1. CASE HelloRead
  BY <1>1 DEF HelloRead, Received, PipeInv, Together, StatusPipe
<1>2. CASE HelloDisarm
  BY <1>2 DEF HelloDisarm, PipeInv, Together
<1>3. CASE HelloFails
  BY <1>3 DEF HelloFails, EndOfFile, PipeInv, Together
<1>4. CASE StartRun
  BY <1>4 DEF StartRun, TypeInv, PipeInv, Together
<1>5. CASE WriteCtl
  BY <1>5 DEF WriteCtl, PipeInv, Together
<1>6. CASE ReadPid
  BY <1>6 DEF ReadPid, PipeInv, Together, StatusPipe
<1>7. CASE Arm
  BY <1>7 DEF Arm, PipeInv, Together
<1>8. CASE ReadStatus
  BY <1>8 DEF ReadStatus, PipeInv, Together, StatusPipe
<1>9. CASE PipeBroken
  BY <1>9 DEF PipeBroken, EndOfFile, PipeInv, Together
<1>10. CASE ClearPid
  BY <1>10 DEF ClearPid, PipeInv, Together
<1>11. CASE Disarm
  BY <1>11 DEF Disarm, PipeInv, Together
<1>12. CASE Verdict
  BY <1>12 DEF Verdict, PipeInv, Together
<1>13. CASE Exit
  BY <1>13 DEF Exit, PipeInv, Together
<1>14. CASE Alarm
  BY <1>14 DEF Alarm, PipeInv, Together
<1>15. CASE StopSignal
  BY <1>15 DEF StopSignal, PipeInv, Together
<1>16. CASE FsHello
  BY <1>16 DEF FsHello, PipeInv, Together
<1>17. CASE FsRead
  BY <1>17 DEF FsRead, PipeInv, Together, Control
<1>18. CASE FsReap
  BY <1>18 DEF FsReap, PipeInv, Together
<1>19. CASE FsFork
  BY <1>19 DEF FsFork, PipeInv, Together, Control
<1>20. CASE FsResume
  BY <1>20 DEF FsResume, PipeInv, Together
<1>21. CASE FsSendPid
  BY <1>21 DEF FsSendPid, PipeInv, Together
<1>22. CASE FsWaitpid
  BY <1>22 DEF FsWaitpid, PipeInv, Together
<1>23. CASE FsRelay
  BY <1>23 DEF FsRelay, PipeInv, Together
<1>24. CASE FsDies
  BY <1>24 DEF FsDies, PipeInv, Together
<1>25. CASE ChildEntersLoop
  BY <1>25 DEF ChildEntersLoop, PipeInv, Together
<1>26. CASE ChildEndsBody
  BY <1>26 DEF ChildEndsBody, PipeInv, Together
<1>27. CASE ChildExits
  BY <1>27 DEF ChildExits, PipeInv, Together
<1>28. CASE ChildCrashes
  BY <1>28 DEF ChildCrashes, PipeInv, Together
<1>29. CASE Terminating
  BY <1>29 DEF Terminating, vars, PipeInv, Together
<1> QED
  BY <1>1, <1>2, <1>3, <1>4, <1>5, <1>6, <1>7, <1>8, <1>9, <1>10, <1>11, <1>12, <1>13, <1>14,
     <1>15, <1>16, <1>17, <1>18, <1>19, <1>20, <1>21, <1>22, <1>23, <1>24, <1>25, <1>26, <1>27,
     <1>28, <1>29 DEF Next, AflFuzz, RunTarget, Signals, Server, Child

\* Only WriteCtl and FsRead touch the control pipe.
LEMMA ControlStep == Inv /\ Next => Control'
<1> SUFFICES ASSUME Inv, Next PROVE Control'
  OBVIOUS
<1> USE DEF Inv, fuzzer, signals, server, process, pipes, shm
<1>1. CASE HelloRead
  BY <1>1 DEF HelloRead, PipeInv, Control
<1>2. CASE HelloDisarm
  BY <1>2 DEF HelloDisarm, PipeInv, Control
<1>3. CASE HelloFails
  BY <1>3 DEF HelloFails, PipeInv, Control
<1>4. CASE StartRun
  BY <1>4 DEF StartRun, PipeInv, Control
<1>5. CASE WriteCtl
  BY <1>5, AppendFirst DEF WriteCtl, PipeInv, Together, Control, StatusPipe
<1>6. CASE ReadPid
  BY <1>6 DEF ReadPid, PipeInv, Control
<1>7. CASE Arm
  BY <1>7 DEF Arm, PipeInv, Control
<1>8. CASE ReadStatus
  BY <1>8 DEF ReadStatus, PipeInv, Control
<1>9. CASE PipeBroken
  BY <1>9 DEF PipeBroken, PipeInv, Control
<1>10. CASE ClearPid
  BY <1>10 DEF ClearPid, PipeInv, Control
<1>11. CASE Disarm
  BY <1>11 DEF Disarm, PipeInv, Control
<1>12. CASE Verdict
  BY <1>12 DEF Verdict, PipeInv, Control
<1>13. CASE Exit
  BY <1>13 DEF Exit, PipeInv, Control
<1>14. CASE Alarm
  BY <1>14 DEF Alarm, PipeInv, Control
<1>15. CASE StopSignal
  BY <1>15 DEF StopSignal, PipeInv, Control
<1>16. CASE FsHello
  BY <1>16 DEF FsHello, PipeInv, Control
<1>17. CASE FsRead
  BY <1>17, AppendSecond DEF FsRead, PipeInv, Control
<1>18. CASE FsReap
  BY <1>18 DEF FsReap, PipeInv, Control
<1>19. CASE FsFork
  BY <1>19 DEF FsFork, PipeInv, Control
<1>20. CASE FsResume
  BY <1>20 DEF FsResume, PipeInv, Control
<1>21. CASE FsSendPid
  BY <1>21 DEF FsSendPid, PipeInv, Control
<1>22. CASE FsWaitpid
  BY <1>22 DEF FsWaitpid, PipeInv, Control
<1>23. CASE FsRelay
  BY <1>23 DEF FsRelay, PipeInv, Control
<1>24. CASE FsDies
  BY <1>24 DEF FsDies, PipeInv, Control
<1>25. CASE ChildEntersLoop
  BY <1>25 DEF ChildEntersLoop, PipeInv, Control
<1>26. CASE ChildEndsBody
  BY <1>26 DEF ChildEndsBody, PipeInv, Control
<1>27. CASE ChildExits
  BY <1>27 DEF ChildExits, PipeInv, Control
<1>28. CASE ChildCrashes
  BY <1>28 DEF ChildCrashes, PipeInv, Control
<1>29. CASE Terminating
  BY <1>29 DEF Terminating, vars, PipeInv, Control
<1> QED
  BY <1>1, <1>2, <1>3, <1>4, <1>5, <1>6, <1>7, <1>8, <1>9, <1>10, <1>11, <1>12, <1>13, <1>14,
     <1>15, <1>16, <1>17, <1>18, <1>19, <1>20, <1>21, <1>22, <1>23, <1>24, <1>25, <1>26, <1>27,
     <1>28, <1>29 DEF Next, AflFuzz, RunTarget, Signals, Server, Child

\* The server writes to the status pipe, in order, and afl-fuzz reads.
LEMMA StatusPipeStep == Inv /\ Next => StatusPipe'
<1> SUFFICES ASSUME Inv, Next PROVE StatusPipe'
  OBVIOUS
<1> USE DEF Inv, fuzzer, signals, server, process, pipes, shm
<1>1. CASE HelloRead
  <2>1. st' = <<>>
    BY <1>1 DEF HelloRead, Received, PipeInv, StatusPipe
  <2> QED BY <1>1, <2>1 DEF HelloRead, StatusPipe
<1>2. CASE HelloDisarm
  BY <1>2 DEF HelloDisarm, PipeInv, StatusPipe
<1>3. CASE HelloFails
  BY <1>3 DEF HelloFails, EndOfFile, StatusPipe
<1>4. CASE StartRun
  BY <1>4 DEF StartRun, PipeInv, StatusPipe
<1>5. CASE WriteCtl
  BY <1>5 DEF WriteCtl, PipeInv, StatusPipe
<1>6. CASE ReadPid
  <2>1. CASE \E p \in 1 .. MaxRuns : st = <<p>> /\ fs \in {"waitpid", "relay", "dead"}
    <3>1. st' = <<>>
      BY <1>6, <2>1 DEF ReadPid
    <3> QED BY <1>6, <2>1, <3>1 DEF ReadPid, StatusPipe
  <2>2. CASE \E p \in 1 .. MaxRuns, s \in Statuses : st = <<p, s>> /\ fs \in {"read", "dead"}
    <3>1. \E s \in Statuses : st' = <<s>>
      BY <1>6, <2>2 DEF ReadPid
    <3> QED BY <1>6, <2>2, <3>1 DEF ReadPid, StatusPipe
  <2> QED BY <1>6, <2>1, <2>2 DEF ReadPid, PipeInv, StatusPipe
<1>7. CASE Arm
  BY <1>7 DEF Arm, PipeInv, StatusPipe
<1>8. CASE ReadStatus
  BY <1>8, Single DEF ReadStatus, PipeInv, StatusPipe
<1>9. CASE PipeBroken
  BY <1>9 DEF PipeBroken, EndOfFile, PipeInv, StatusPipe
<1>10. CASE ClearPid
  BY <1>10 DEF ClearPid, PipeInv, StatusPipe
<1>11. CASE Disarm
  BY <1>11 DEF Disarm, PipeInv, StatusPipe
<1>12. CASE Verdict
  BY <1>12 DEF Verdict, PipeInv, StatusPipe
<1>13. CASE Exit
  BY <1>13 DEF Exit, PipeInv, StatusPipe
<1>14. CASE Alarm
  BY <1>14 DEF Alarm, PipeInv, StatusPipe
<1>15. CASE StopSignal
  BY <1>15 DEF StopSignal, PipeInv, StatusPipe
<1>16. CASE FsHello
  BY <1>16, AppendFirst DEF FsHello, TypeInv, PipeInv, Together, StatusPipe
<1>17. CASE FsRead
  BY <1>17 DEF FsRead, PipeInv, Control, StatusPipe
<1>18. CASE FsReap
  BY <1>18 DEF FsReap, PipeInv, StatusPipe
<1>19. CASE FsFork
  BY <1>19 DEF FsFork, PipeInv, StatusPipe
<1>20. CASE FsResume
  BY <1>20 DEF FsResume, PipeInv, StatusPipe
<1>21. CASE FsSendPid
  <2>1. fz = "pid" /\ st = <<>> /\ st' = <<child.pid>>
    BY <1>21, AppendFirst DEF FsSendPid, TypeInv, PipeInv, Together, StatusPipe
  <2>2. child.pid \in 1 .. MaxRuns
    BY <1>21 DEF FsSendPid, RunInv, Launched, LaunchedInv, TypeInv, Children
  <2> QED BY <1>21, <2>1, <2>2 DEF FsSendPid, StatusPipe
<1>22. CASE FsWaitpid
  BY <1>22 DEF FsWaitpid, PipeInv, StatusPipe
<1>23. CASE FsRelay
  <2>1. fs_status \in Statuses
    BY DEF TypeInv
  <2>2. CASE fz = "pid"
    <3>1. \E p \in 1 .. MaxRuns : st = <<p>> /\ st' = <<p, fs_status>>
      BY <1>23, <2>2, AppendSecond DEF FsRelay, PipeInv, Control, StatusPipe
    <3>2. ctl' = <<>>
      BY <1>23 DEF FsRelay, PipeInv, Control
    <3> QED BY <1>23, <2>1, <2>2, <3>1, <3>2 DEF FsRelay, StatusPipe
  <2>3. CASE fz \in {"arm", "wait"}
    <3>1. st' = <<fs_status>>
      BY <1>23, <2>3, AppendFirst DEF FsRelay, PipeInv, StatusPipe
    <3> QED BY <1>23, <2>1, <2>3, <3>1 DEF FsRelay, StatusPipe
  <2> QED BY <1>23, <2>2, <2>3 DEF FsRelay, PipeInv, Together, TypeInv
<1>24. CASE FsDies
  BY <1>24 DEF FsDies, PipeInv, StatusPipe
<1>25. CASE ChildEntersLoop
  BY <1>25 DEF ChildEntersLoop, PipeInv, StatusPipe
<1>26. CASE ChildEndsBody
  BY <1>26 DEF ChildEndsBody, PipeInv, StatusPipe
<1>27. CASE ChildExits
  BY <1>27 DEF ChildExits, PipeInv, StatusPipe
<1>28. CASE ChildCrashes
  BY <1>28 DEF ChildCrashes, PipeInv, StatusPipe
<1>29. CASE Terminating
  BY <1>29 DEF Terminating, vars, PipeInv, StatusPipe
<1> QED
  BY <1>1, <1>2, <1>3, <1>4, <1>5, <1>6, <1>7, <1>8, <1>9, <1>10, <1>11, <1>12, <1>13, <1>14,
     <1>15, <1>16, <1>17, <1>18, <1>19, <1>20, <1>21, <1>22, <1>23, <1>24, <1>25, <1>26, <1>27,
     <1>28, <1>29 DEF Next, AflFuzz, RunTarget, Signals, Server, Child

\* Nothing starts a child before the first run.
LEMMA StartingStep == Inv /\ Next => Starting'
<1> SUFFICES ASSUME Inv, Next PROVE Starting'
  OBVIOUS
<1> USE DEF Inv, fuzzer, signals, server, process, pipes, shm
<1>1. CASE HelloRead
  BY <1>1 DEF HelloRead, PipeInv, Starting
<1>2. CASE HelloDisarm
  BY <1>2 DEF HelloDisarm, Starting
<1>3. CASE HelloFails
  BY <1>3 DEF HelloFails, Starting
<1>4. CASE StartRun
  BY <1>4 DEF StartRun, Starting
<1>5. CASE WriteCtl
  BY <1>5 DEF WriteCtl, Starting
<1>6. CASE ReadPid
  BY <1>6 DEF ReadPid, Starting
<1>7. CASE Arm
  BY <1>7 DEF Arm, Starting
<1>8. CASE ReadStatus
  BY <1>8 DEF ReadStatus, Starting
<1>9. CASE PipeBroken
  BY <1>9 DEF PipeBroken, Starting
<1>10. CASE ClearPid
  BY <1>10 DEF ClearPid, Starting
<1>11. CASE Disarm
  BY <1>11 DEF Disarm, Starting
<1>12. CASE Verdict
  BY <1>12 DEF Verdict, Starting
<1>13. CASE Exit
  BY <1>13 DEF Exit, Starting
<1>14. CASE Alarm
  BY <1>14 DEF Alarm, PipeInv, Starting
<1>15. CASE StopSignal
  BY <1>15 DEF StopSignal, PipeInv, Starting
<1>16. CASE FsHello
  BY <1>16 DEF FsHello, PipeInv, Starting
<1>17. CASE FsRead
  BY <1>17 DEF FsRead, PipeInv, Starting
<1>18. CASE FsReap
  BY <1>18 DEF FsReap, PipeInv, Starting
<1>19. CASE FsFork
  BY <1>19 DEF FsFork, PipeInv, Starting
<1>20. CASE FsResume
  BY <1>20 DEF FsResume, PipeInv, Starting
<1>21. CASE FsSendPid
  BY <1>21 DEF FsSendPid, PipeInv, Starting
<1>22. CASE FsWaitpid
  BY <1>22 DEF FsWaitpid, PipeInv, Starting
<1>23. CASE FsRelay
  BY <1>23 DEF FsRelay, PipeInv, Starting
<1>24. CASE FsDies
  BY <1>24 DEF FsDies, PipeInv, Starting
<1>25. CASE ChildEntersLoop
  BY <1>25 DEF ChildEntersLoop, PipeInv, Starting
<1>26. CASE ChildEndsBody
  BY <1>26 DEF ChildEndsBody, PipeInv, Starting
<1>27. CASE ChildExits
  BY <1>27 DEF ChildExits, PipeInv, Starting
<1>28. CASE ChildCrashes
  BY <1>28 DEF ChildCrashes, PipeInv, Starting
<1>29. CASE Terminating
  BY <1>29 DEF Terminating, vars, Starting
<1> QED
  BY <1>1, <1>2, <1>3, <1>4, <1>5, <1>6, <1>7, <1>8, <1>9, <1>10, <1>11, <1>12, <1>13, <1>14,
     <1>15, <1>16, <1>17, <1>18, <1>19, <1>20, <1>21, <1>22, <1>23, <1>24, <1>25, <1>26, <1>27,
     <1>28, <1>29 DEF Next, AflFuzz, RunTarget, Signals, Server, Child

\* Every step keeps the timer where it is waited for.
LEMMA TimerStep == Inv /\ Next => Timer'
<1> SUFFICES ASSUME Inv, Next PROVE Timer'
  OBVIOUS
<1> USE DEF Inv, fuzzer, signals, server, process, pipes, shm
<1>1. CASE HelloRead
  BY <1>1 DEF HelloRead, Timer
<1>2. CASE HelloDisarm
  BY <1>2 DEF HelloDisarm, Timer
<1>3. CASE HelloFails
  BY <1>3 DEF HelloFails, Timer
<1>4. CASE StartRun
  BY <1>4 DEF StartRun, PipeInv, Timer
<1>5. CASE WriteCtl
  BY <1>5 DEF WriteCtl, PipeInv, Timer
<1>6. CASE ReadPid
  BY <1>6 DEF ReadPid, PipeInv, Timer
<1>7. CASE Arm
  BY <1>7 DEF Arm, Timer
<1>8. CASE ReadStatus
  BY <1>8 DEF ReadStatus, Timer
<1>9. CASE PipeBroken
  BY <1>9 DEF PipeBroken, EndOfFile, PipeInv, Timer, DeadInv
<1>10. CASE ClearPid
  BY <1>10 DEF ClearPid, Timer
<1>11. CASE Disarm
  BY <1>11 DEF Disarm, Timer
<1>12. CASE Verdict
  BY <1>12 DEF Verdict, PipeInv, Timer
<1>13. CASE Exit
  BY <1>13 DEF Exit, Timer
<1>14. CASE Alarm
  BY <1>14 DEF Alarm, Timer
<1>15. CASE StopSignal
  BY <1>15 DEF StopSignal, PipeInv, Timer
<1>16. CASE FsHello
  BY <1>16 DEF FsHello, PipeInv, Timer
<1>17. CASE FsRead
  BY <1>17 DEF FsRead, PipeInv, Timer
<1>18. CASE FsReap
  BY <1>18 DEF FsReap, PipeInv, Timer
<1>19. CASE FsFork
  BY <1>19 DEF FsFork, PipeInv, Timer
<1>20. CASE FsResume
  BY <1>20 DEF FsResume, PipeInv, Timer
<1>21. CASE FsSendPid
  BY <1>21 DEF FsSendPid, PipeInv, Timer
<1>22. CASE FsWaitpid
  BY <1>22 DEF FsWaitpid, PipeInv, Timer
<1>23. CASE FsRelay
  BY <1>23 DEF FsRelay, PipeInv, Timer
<1>24. CASE FsDies
  BY <1>24 DEF FsDies, PipeInv, Timer
<1>25. CASE ChildEntersLoop
  BY <1>25 DEF ChildEntersLoop, PipeInv, Timer
<1>26. CASE ChildEndsBody
  BY <1>26 DEF ChildEndsBody, PipeInv, Timer
<1>27. CASE ChildExits
  BY <1>27 DEF ChildExits, PipeInv, Timer
<1>28. CASE ChildCrashes
  BY <1>28 DEF ChildCrashes, PipeInv, Timer
<1>29. CASE Terminating
  BY <1>29 DEF Terminating, vars, PipeInv, Timer
<1> QED
  BY <1>1, <1>2, <1>3, <1>4, <1>5, <1>6, <1>7, <1>8, <1>9, <1>10, <1>11, <1>12, <1>13, <1>14,
     <1>15, <1>16, <1>17, <1>18, <1>19, <1>20, <1>21, <1>22, <1>23, <1>24, <1>25, <1>26, <1>27,
     <1>28, <1>29 DEF Next, AflFuzz, RunTarget, Signals, Server, Child

\* Every step keeps the run.  The hard ones are the alarm, which may strike at any
\* time until the timer is disarmed, and the steps that hand the child over.
LEMMA RunStep == Inv /\ Next => RunInv'
<1> SUFFICES ASSUME Inv, Next PROVE RunInv'
  OBVIOUS
<1> USE DEF Inv, fuzzer, signals, server, process, pipes, shm
<1>1. CASE HelloRead
  BY <1>1 DEF HelloRead, Before, Launched, Waited, BeforeInv, LaunchedInv, RunInv
<1>2. CASE HelloDisarm
  BY <1>2 DEF HelloDisarm, Before, Launched, Waited, BeforeInv, LaunchedInv, RunInv
<1>3. CASE HelloFails
  BY <1>3 DEF HelloFails, EndOfFile, RunInv
<1>4. CASE StartRun
  BY <1>4 DEF StartRun, Before, Launched, Waited, BeforeInv, LaunchedInv, RunInv
<1>5. CASE WriteCtl
  BY <1>5 DEF WriteCtl, Before, Launched, Waited, BeforeInv, LaunchedInv, RunInv
<1>6. CASE ReadPid
  <2> SUFFICES ASSUME fs # "dead" PROVE RunInv'
    BY <1>6 DEF ReadPid, RunInv
  <2>1. CASE \E p \in 1 .. MaxRuns : st = <<p>> /\ fs \in {"waitpid", "relay"}
    <3>1. ToldPid' = ToldPid /\ ToldPid \in Nat
      BY <1>6, <2>1 DEF ReadPid, ToldPid
    <3>2. ctl' = <<>> /\ ctl = <<>>
      BY <1>6, <2>1 DEF ReadPid, PipeInv, Control
    <3> QED BY <1>6, <2>1, <3>1, <3>2 DEF ReadPid, Before, Launched, Waited, LaunchedInv,
         WaitedInv, Ended, RunInv
  <2>2. CASE \E p \in 1 .. MaxRuns, s \in Statuses : st = <<p, s>> /\ fs = "read" /\ ctl = <<>>
    <3>1. st' = <<fs_status>> /\ child_pid' = ToldPid /\ Waited
      BY <1>6, <2>2 DEF ReadPid, RunInv, Before, Launched, Waited, WaitedInv, ToldPid
    <3> QED BY <1>6, <2>2, <3>1 DEF ReadPid, Before, Launched, WaitedInv, ToldPid, Ended, RunInv
  <2> QED BY <1>6, <2>1, <2>2 DEF ReadPid, PipeInv, StatusPipe
<1>7. CASE Arm
  BY <1>7 DEF Arm, Before, Launched, Waited, BeforeInv, LaunchedInv, WaitedInv, ToldPid, Ended,
     RunInv
<1>8. CASE ReadStatus
  BY <1>8 DEF ReadStatus, PipeInv, StatusPipe, Before, Launched, Waited, BeforeInv, WaitedInv,
     ToldPid, Ended, RunInv
<1>9. CASE PipeBroken
  BY <1>9 DEF PipeBroken, EndOfFile, RunInv
<1>10. CASE ClearPid
  BY <1>10 DEF ClearPid, TypeInv, PipeInv, Together, Before, Launched, Waited, BeforeInv,
     WaitedInv, ToldPid, Ended, RunInv
<1>11. CASE Disarm
  BY <1>11 DEF Disarm, Before, Launched, Waited, BeforeInv, LaunchedInv, WaitedInv, ToldPid,
     Ended, RunInv
<1>12. CASE Verdict
  BY <1>12 DEF Verdict, Fault, Signaled, PipeInv, Together, Control, Before, Launched, Waited,
     BeforeInv, WaitedInv, Ended, RunInv
<1>13. CASE Exit
  BY <1>13 DEF Exit, PipeInv, Together, RunInv
<1>14. CASE Alarm
  <2> SUFFICES ASSUME fs' # "dead" PROVE RunInv'
    BY DEF RunInv
  <2>1. /\ child_pid # -1 /\ fs' = fs /\ fz' = fz /\ ctl = <<>> /\ ctl' = <<>>
        /\ fs \notin {"dead", "launch"} /\ fz \in {"wait", "clear", "disarm"}
    BY <1>14 DEF Alarm, PipeInv, Together, Control, Timer, Starting
  <2>2. child_pid > 0 => child_timed_out'
    <3>1. child_pid > 0 => child_pid # 0
      OBVIOUS
    <3> QED BY <1>14, <3>1, Zenon DEF Alarm
  <2>3. CASE Launched
    <3>1. LaunchedInv /\ child_pid = child.pid /\ fz = "wait" /\ fs = "waitpid"
      BY <2>1, <2>3 DEF RunInv, LaunchedInv, Launched, ToldPid, PipeInv, Together
    <3>2. KillChild(child_pid) /\ child_pid > 0
      BY <1>14, <3>1 DEF Alarm, LaunchedInv
    <3>3. LaunchedInv'
      BY <1>14, <2>1, <2>2, <3>1, <3>2 DEF Alarm, KillChild, Alive, LaunchedInv, ToldPid, Ended,
         TypeInv, Children, Phases
    <3> QED BY <1>14, <2>1, <2>3, <3>1, <3>2, <3>3 DEF Alarm, KillChild, RunInv, Before,
         Launched, Waited
  <2>4. CASE Waited
    <3>1. WaitedInv
      BY <2>1, <2>4 DEF RunInv
    <3>2. CASE fs_status = "stop"
      <4>1. child_pid = child.pid /\ child_pid > 0 /\ KillChild(child_pid)
        BY <1>14, <2>1, <3>1, <3>2 DEF Alarm, WaitedInv, ToldPid
      <4>2. WaitedInv'
        BY <1>14, <2>1, <2>2, <3>1, <3>2, <4>1 DEF Alarm, KillChild, Alive, WaitedInv, ToldPid,
           TypeInv, Children
      <4> QED BY <1>14, <2>1, <2>4, <3>1, <3>2, <4>1, <4>2 DEF Alarm, KillChild, RunInv, Before,
           Launched, Waited
    <3>3. CASE fs_status # "stop"
      <4>1. UNCHANGED <<child, outcome>>
        BY <1>14, <3>1, <3>3 DEF Alarm, KillChild, Alive, WaitedInv
      <4>2. WaitedInv'
        BY <1>14, <2>1, <3>1, <3>3, <4>1 DEF Alarm, WaitedInv, ToldPid, Ended
      <4> QED BY <1>14, <2>1, <2>4, <4>1, <4>2 DEF Alarm, RunInv, Before, Launched, Waited
    <3> QED BY <3>2, <3>3
  <2> QED BY <2>1, <2>3, <2>4 DEF Before, Waited
<1>15. CASE StopSignal
  BY <1>15 DEF StopSignal, RunInv
<1>16. CASE FsHello
  BY <1>16 DEF FsHello, PipeInv, Together, Before, Launched, Waited, BeforeInv, WaitedInv,
     ToldPid, Ended, RunInv
<1>17. CASE FsRead
  BY <1>17 DEF FsRead, PipeInv, Control, Before, Launched, Waited, BeforeInv, RunInv
<1>18. CASE FsReap
  BY <1>18 DEF FsReap, NoChild, Before, Launched, Waited, BeforeInv, RunInv
<1>19. CASE FsFork
  BY <1>19 DEF FsFork, TypeInv, PipeInv, Together, Control, Before, Launched, Waited, BeforeInv,
     LaunchedInv, RunInv
<1>20. CASE FsResume
  BY <1>20 DEF FsResume, TypeInv, PipeInv, Together, Control, Before, Launched, Waited,
     BeforeInv, LaunchedInv, RunInv
<1>21. CASE FsSendPid
  BY <1>21 DEF FsSendPid, TypeInv, PipeInv, Together, StatusPipe, Before, Launched, Waited,
     BeforeInv, LaunchedInv, ToldPid, Ended, RunInv
<1>22. CASE FsWaitpid
  BY <1>22 DEF FsWaitpid, NoChild, TypeInv, PipeInv, Together, Before, Launched, BeforeInv,
     LaunchedInv, WaitedInv, ToldPid, Ended, RunInv
<1>23. CASE FsRelay
  <2>1. /\ ctl' = <<>> /\ ctl = <<>> /\ Waited /\ WaitedInv /\ ~Before
        /\ fz \in {"pid", "arm", "wait"}
    BY <1>23 DEF FsRelay, RunInv, Before, Launched, Waited, PipeInv, Together, Control, TypeInv
  <2>2. CASE fz = "pid"
    <3>1. st' = <<ToldPid, fs_status>>
      BY <1>23, <2>1, <2>2, Single, AppendSecond DEF FsRelay, PipeInv, StatusPipe, ToldPid
    <3>2. ToldPid' = ToldPid /\ st'[2] = fs_status
      BY <1>23, <2>2, <3>1 DEF FsRelay, ToldPid
    <3> QED BY <1>23, <2>1, <2>2, <3>2 DEF FsRelay, Before, Launched, WaitedInv, Ended, RunInv
  <2>3. CASE fz \in {"arm", "wait"}
    <3>1. st' = <<fs_status>>
      BY <1>23, <2>3, AppendFirst DEF FsRelay, PipeInv, StatusPipe
    <3> QED BY <1>23, <2>1, <2>3, <3>1 DEF FsRelay, Before, Launched, WaitedInv, ToldPid, Ended,
         RunInv
  <2> QED BY <2>1, <2>2, <2>3
<1>24. CASE FsDies
  BY <1>24 DEF FsDies, RunInv
<1>25. CASE ChildEntersLoop
  BY <1>25 DEF ChildEntersLoop, Before, Launched, Waited, BeforeInv, LaunchedInv, WaitedInv,
     ToldPid, RunInv
<1>26. CASE ChildEndsBody
  BY <1>26 DEF ChildEndsBody, Tag, Ends, Before, Launched, Waited, BeforeInv, LaunchedInv,
     WaitedInv, ToldPid, Ended, RunInv
<1>27. CASE ChildExits
  BY <1>27 DEF ChildExits, Before, Launched, Waited, BeforeInv, LaunchedInv, WaitedInv, ToldPid,
     Ended, RunInv
<1>28. CASE ChildCrashes
  BY <1>28 DEF ChildCrashes, Before, Launched, Waited, BeforeInv, LaunchedInv, WaitedInv,
     ToldPid, Ended, RunInv
<1>29. CASE Terminating
  BY <1>29 DEF Terminating, vars, Before, Launched, Waited, BeforeInv, LaunchedInv, WaitedInv,
     ToldPid, Ended, RunInv
<1> QED
  BY <1>1, <1>2, <1>3, <1>4, <1>5, <1>6, <1>7, <1>8, <1>9, <1>10, <1>11, <1>12, <1>13, <1>14,
     <1>15, <1>16, <1>17, <1>18, <1>19, <1>20, <1>21, <1>22, <1>23, <1>24, <1>25, <1>26, <1>27,
     <1>28, <1>29 DEF Next, AflFuzz, RunTarget, Signals, Server, Child

\* Every step keeps a dead server without a running child.
LEMMA DeadStep == Inv /\ Next => DeadInv'
<1> SUFFICES ASSUME Inv, Next PROVE DeadInv'
  OBVIOUS
<1> USE DEF Inv, fuzzer, signals, server, process, pipes, shm
<1>1. CASE HelloRead
  BY <1>1 DEF HelloRead, DeadInv
<1>2. CASE HelloDisarm
  BY <1>2 DEF HelloDisarm, PipeInv, Starting, DeadInv
<1>3. CASE HelloFails
  BY <1>3 DEF HelloFails, DeadInv
<1>4. CASE StartRun
  BY <1>4 DEF StartRun, DeadInv
<1>5. CASE WriteCtl
  BY <1>5 DEF WriteCtl, DeadInv
<1>6. CASE ReadPid
  BY <1>6 DEF ReadPid, DeadInv
<1>7. CASE Arm
  BY <1>7 DEF Arm, DeadInv
<1>8. CASE ReadStatus
  BY <1>8 DEF ReadStatus, DeadInv
<1>9. CASE PipeBroken
  BY <1>9 DEF PipeBroken, DeadInv
<1>10. CASE ClearPid
  BY <1>10 DEF ClearPid, DeadInv
<1>11. CASE Disarm
  BY <1>11 DEF Disarm, DeadInv
<1>12. CASE Verdict
  BY <1>12 DEF Verdict, DeadInv
<1>13. CASE Exit
  BY <1>13 DEF Exit, DeadInv
<1>14. CASE Alarm
  BY <1>14 DEF Alarm, PipeInv, Together, Control, Starting, Timer, Before, Launched, Waited,
     BeforeInv, LaunchedInv, WaitedInv, ToldPid, Running, RunInv, DeadInv
<1>15. CASE StopSignal
  BY <1>15 DEF StopSignal, DeadInv
<1>16. CASE FsHello
  BY <1>16 DEF FsHello, DeadInv
<1>17. CASE FsRead
  BY <1>17 DEF FsRead, DeadInv
<1>18. CASE FsReap
  BY <1>18 DEF FsReap, DeadInv
<1>19. CASE FsFork
  BY <1>19 DEF FsFork, DeadInv
<1>20. CASE FsResume
  BY <1>20 DEF FsResume, DeadInv
<1>21. CASE FsSendPid
  BY <1>21 DEF FsSendPid, DeadInv
<1>22. CASE FsWaitpid
  BY <1>22 DEF FsWaitpid, DeadInv
<1>23. CASE FsRelay
  BY <1>23 DEF FsRelay, DeadInv
<1>24. CASE FsDies
  BY <1>24 DEF FsDies, TypeInv, PipeInv, Together, StatusPipe, Launched, Waited, BeforeInv,
     WaitedInv, Running, RunInv, DeadInv
<1>25. CASE ChildEntersLoop
  BY <1>25 DEF ChildEntersLoop, Running, DeadInv
<1>26. CASE ChildEndsBody
  BY <1>26 DEF ChildEndsBody, Running, DeadInv
<1>27. CASE ChildExits
  BY <1>27 DEF ChildExits, Running, DeadInv
<1>28. CASE ChildCrashes
  BY <1>28 DEF ChildCrashes, Running, DeadInv
<1>29. CASE Terminating
  BY <1>29 DEF Terminating, vars, DeadInv
<1> QED
  BY <1>1, <1>2, <1>3, <1>4, <1>5, <1>6, <1>7, <1>8, <1>9, <1>10, <1>11, <1>12, <1>13, <1>14,
     <1>15, <1>16, <1>17, <1>18, <1>19, <1>20, <1>21, <1>22, <1>23, <1>24, <1>25, <1>26, <1>27,
     <1>28, <1>29 DEF Next, AflFuzz, RunTarget, Signals, Server, Child

-----------------------------------------------------------------------------
(* The theorems.                                                           *)

\* In the first state the server is starting.
LEMMA InitInv == Init => Inv
<1> SUFFICES ASSUME Init PROVE Inv
  OBVIOUS
<1>1. Flags
  BY Zenon DEF Init, Flags
<1>2. child \in Children
  BY MaxRunsAssumption, MaxCyclesAssumption DEF Init, NoChild, Children, Phases, Causes
<1>3. TypeInv
  BY <1>2, MaxRunsAssumption DEF Init, TypeInv, Statuses
<1>4. PipeInv
  BY DEF Init, PipeInv, Together, Control, StatusPipe, Starting, Timer
<1>5. RunInv
  BY DEF Init, NoChild, RunInv, Before, Launched, Waited, BeforeInv
<1>6. DeadInv
  BY DEF Init, DeadInv
<1> QED BY <1>1, <1>3, <1>4, <1>5, <1>6 DEF Inv

\* A stuttering step,
LEMMA StutterInv == Inv /\ UNCHANGED vars => Inv'
BY DEF vars, fuzzer, signals, server, process, pipes, shm, Inv, Flags, TypeInv, PipeInv,
   Together, Control, StatusPipe, Starting, Timer, RunInv, DeadInv, Before, Launched, Waited,
   BeforeInv, LaunchedInv, WaitedInv, ToldPid, Ended

\* and every step, keep the invariant.
LEMMA NextInv == Inv /\ [Next]_vars => Inv'
BY FlagsStep, TypeStep, TogetherStep, ControlStep, StatusPipeStep, StartingStep, TimerStep,
   RunStep, DeadStep, StutterInv DEF Inv, PipeInv

\* The protocol, in every state of every behaviour.
THEOREM ProtocolKept == Spec => []Inv
<1> QED BY InitInv, NextInv, PTL DEF Spec

\* The invariant is stronger than the types.
LEMMA InvTypes == Inv => TypeOK
<1> SUFFICES ASSUME Inv PROVE TypeOK
  OBVIOUS
<1>1. {child_timed_out, prev_timed_out, stop_soon, armed, was_killed, child_stopped}
        \subseteq BOOLEAN
  BY DEF Inv, Flags
<1>2. ctl \in Seq(BOOLEAN) /\ Len(ctl) <= 1
  <2>1. prev_timed_out \in BOOLEAN /\ (ctl = <<>> \/ ctl = <<prev_timed_out>>)
    BY DEF Inv, Flags, PipeInv, Control
  <2>2. CASE ctl = <<>>
    BY <2>2
  <2>3. CASE ctl = <<prev_timed_out>>
    BY <2>1, <2>3
  <2> QED BY <2>1, <2>2, <2>3
<1>3. Len(st) <= 2
  <2>1. st = <<>> \/ (\E x : st = <<x>>) \/ (\E x, y : st = <<x, y>>)
    BY DEF Inv, PipeInv, StatusPipe
  <2>2. ASSUME NEW x, st = <<x>> PROVE Len(st) <= 2
    BY <2>2
  <2>3. ASSUME NEW x, NEW y, st = <<x, y>> PROVE Len(st) <= 2
    BY <2>3
  <2> QED BY <2>1, <2>2, <2>3
<1>4. forks \in 0 .. MaxRuns
  BY MaxRunsAssumption DEF Inv, TypeInv
<1>5. child \in [pid : 0 .. MaxRuns, test : 0 .. MaxRuns, cycles : 0 .. MaxCycles,
                phase : {"none", "boot", "body", "after", "stopped", "zombie"},
                cause : {"none", "exit", "crash", "kill"}]
  BY DEF Inv, TypeInv, Children, Phases, Causes
<1>6. is_persistent \in BOOLEAN
  BY DEF Inv, Flags
<1> QED BY <1>1, <1>2, <1>3, <1>4, <1>5, <1>6 DEF Inv, TypeInv, TypeOK

\* Every variable keeps its type, and the pipes hold at most one message and two:
\* no write to them ever blocks.
THEOREM TypeCorrect == Spec => []TypeOK
BY ProtocolKept, InvTypes, PTL

\* What the invariant says between runs.
LEMMA InvQuiet == Inv => QuietBetweenRuns
BY DEF Inv, RunInv, DeadInv, Before, BeforeInv, QuietBetweenRuns, Judged

\* When afl-fuzz has judged a run and goes on to the next test case no child is still
\* executing the last one: it is gone, or stopped.
THEOREM RunsDoNotOverlap == Spec => []QuietBetweenRuns
BY ProtocolKept, InvQuiet, PTL

\* What it says of the trace.
LEMMA InvTrace == Inv => TraceIsThisRun
BY DEF Inv, RunInv, DeadInv, Before, BeforeInv, TraceIsThisRun, Judged

\* When a run was judged good, the trace holds what this test case left in it, all of
\* it, and nothing of an earlier one.
THEOREM TraceCorrect == Spec => []TraceIsThisRun
BY ProtocolKept, InvTrace, PTL

\* Only FsFork and FsResume launch a child.
LEMMA OnlyLaunches ==
  Next /\ fs = "launch" /\ fs' = "sendpid" => FsFork \/ FsResume
BY DEF Next, AflFuzz, RunTarget, Signals, Server, Child, Terminating, vars, server, HelloRead,
   HelloDisarm, HelloFails, StartRun, WriteCtl, ReadPid, Arm, ReadStatus, PipeBroken, ClearPid,
   Disarm, Verdict, Exit, Alarm, StopSignal, FsHello, FsRead, FsReap, FsSendPid, FsWaitpid,
   FsRelay, FsDies, ChildEntersLoop, ChildEndsBody, ChildExits, ChildCrashes

\* What it says of a resumed child.
LEMMA InvResumed ==
  Inv /\ [Next]_vars =>
    [fs = "launch" /\ fs' = "sendpid" /\ child_stopped => child.phase = "stopped"]_vars
<1> SUFFICES ASSUME Inv, Next, fs = "launch", fs' = "sendpid", child_stopped
             PROVE  child.phase = "stopped"
  OBVIOUS
<1>1. ~was_killed
  BY OnlyLaunches DEF FsFork, FsResume
<1> QED BY <1>1 DEF Inv, RunInv, Before, BeforeInv

\* A stopped child that the server resumes is alive: one that a late alarm killed was
\* written off before, because the message said so.
THEOREM ResumedAlive == Spec => ResumedIsAlive
BY ProtocolKept, InvResumed, PTL DEF Spec, ResumedIsAlive

\* Every step starts a run, is what the target does in it, reports it or gives up, or
\* is none of the abstract specification.
LEMMA RunStepped == Inv /\ Next => [Run!Next]_(Run!vars)
<1> SUFFICES ASSUME Inv, Next PROVE [Run!Next]_(Run!vars)
  OBVIOUS
<1> USE DEF Inv, fuzzer, signals, server, process, pipes, shm, Run!Next, Run!vars
<1>1. CASE HelloRead
  BY <1>1 DEF HelloRead
<1>2. CASE HelloDisarm
  BY <1>2 DEF HelloDisarm, Run!Up
<1>3. CASE HelloFails
  BY <1>3 DEF HelloFails, Run!GiveUp
<1>4. CASE StartRun
  BY <1>4 DEF StartRun, Run!Start, Run!Over
<1>5. CASE WriteCtl
  BY <1>5 DEF WriteCtl
<1>6. CASE ReadPid
  BY <1>6 DEF ReadPid
<1>7. CASE Arm
  BY <1>7 DEF Arm
<1>8. CASE ReadStatus
  BY <1>8 DEF ReadStatus
<1>9. CASE PipeBroken
  BY <1>9 DEF PipeBroken, Run!GiveUp, Run!Over
<1>10. CASE ClearPid
  BY <1>10 DEF ClearPid
<1>11. CASE Disarm
  BY <1>11 DEF Disarm
<1>12. CASE Verdict
  BY <1>12 DEF Verdict, Fault, Signaled, PipeInv, Together, Control, RunInv, DeadInv, Before,
     Launched, Waited, WaitedInv, Ended, Run!Report, Run!Truthful, Run!Over
<1>13. CASE Exit
  BY <1>13 DEF Exit
<1>14. CASE Alarm
  BY <1>14 DEF Alarm, KillChild, PipeInv, Timer, Starting, Run!Happen, Run!Over
<1>15. CASE StopSignal
  BY <1>15 DEF StopSignal, Run!GiveUp, Run!Over
<1>16. CASE FsHello
  BY <1>16 DEF FsHello
<1>17. CASE FsRead
  BY <1>17 DEF FsRead
<1>18. CASE FsReap
  BY <1>18 DEF FsReap
<1>19. CASE FsFork
  BY <1>19 DEF FsFork
<1>20. CASE FsResume
  BY <1>20 DEF FsResume
<1>21. CASE FsSendPid
  BY <1>21 DEF FsSendPid
<1>22. CASE FsWaitpid
  BY <1>22 DEF FsWaitpid
<1>23. CASE FsRelay
  BY <1>23 DEF FsRelay
<1>24. CASE FsDies
  BY <1>24 DEF FsDies
<1>25. CASE ChildEntersLoop
  BY <1>25 DEF ChildEntersLoop
<1>26. CASE ChildEndsBody
  BY <1>26 DEF ChildEndsBody, Ends, RunInv, DeadInv, Before, BeforeInv, Running, Run!Happen,
     Run!Over
<1>27. CASE ChildExits
  BY <1>27 DEF ChildExits
<1>28. CASE ChildCrashes
  BY <1>28 DEF ChildCrashes, RunInv, DeadInv, Before, Waited, BeforeInv, LaunchedInv, WaitedInv,
     Running, Run!Happen, Run!Over
<1>29. CASE Terminating
  BY <1>29 DEF Terminating, vars
<1> QED
  BY <1>1, <1>2, <1>3, <1>4, <1>5, <1>6, <1>7, <1>8, <1>9, <1>10, <1>11, <1>12, <1>13, <1>14,
     <1>15, <1>16, <1>17, <1>18, <1>19, <1>20, <1>21, <1>22, <1>23, <1>24, <1>25, <1>26, <1>27,
     <1>28, <1>29 DEF Next, AflFuzz, RunTarget, Signals, Server, Child

\* The fork server implements Execution: each run is started once, something happens
\* to its test case once, and the verdict is the truth about it.
THEOREM Refinement == Spec => ImplementsExecution
<1>1. Init => Run!Init
  BY DEF Init, Run!Init
<1>2. Inv /\ [Next]_vars => [Run!Next]_(Run!vars)
  <2>1. Inv /\ UNCHANGED vars => UNCHANGED Run!vars
    BY DEF vars, fuzzer, signals, process, Run!vars
  <2> QED BY <2>1, RunStepped
<1> QED BY ProtocolKept, <1>1, <1>2, PTL DEF Spec, ImplementsExecution, Run!Spec
=============================================================================
