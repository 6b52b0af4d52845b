----------------------------- MODULE ForkServer -----------------------------
(***************************************************************************)
(* One execution of the target: run_target in afl-fuzz, the fork server    *)
(* injected into the target (afl-llvm-rt), the child it forks or resumes,  *)
(* the two pipes between them, the interval timer, and Ctrl-C.             *)
(*                                                                         *)
(* afl-fuzz writes prev_timed_out to the control pipe, reads the child's   *)
(* pid from the status pipe, arms the timer, and reads the wait status.    *)
(* SIGALRM and SIGINT may be delivered between any two of its steps; their *)
(* handlers kill the processes whose pids it knows.  In persistent mode    *)
(* the child stops itself after each test case and is resumed by the fork  *)
(* server, until __AFL_LOOP has run out.                                   *)
(*                                                                         *)
(* The shared memory holds, for each of its three regions, which phase of  *)
(* the child's life wrote into it, and for which run:                      *)
(*   "boot" before __AFL_LOOP, "body" the test case, "after" the loop.     *)
(***************************************************************************)
EXTENDS Integers, Sequences

CONSTANTS
  MaxCycles,   \* argument of __AFL_LOOP
  MaxRuns      \* bound on the number of calls of run_target

ASSUME MaxCyclesAssumption == MaxCycles \in Nat \ {0}
ASSUME MaxRunsAssumption == MaxRuns \in Nat

VARIABLES
  \* afl-fuzz
  fz,              \* where it is
  run,             \* number of the current, or last, call of run_target
  child_pid,       \* -1 while the fork server comes up, 0 when no child is known
  child_timed_out, prev_timed_out, stop_soon,
  armed,           \* the interval timer runs
  status,          \* wait status it has read
  fault,           \* result of the last run_target
  \* the fork server
  is_persistent,   \* the target uses __AFL_LOOP
  fs, was_killed, child_stopped,
  fs_status,       \* wait status it relays
  \* the child
  child,           \* [pid, phase, test, cycles, cause]
  forks,           \* number of forks so far; the last one is the child's pid
  \* between them
  ctl, st,         \* control and status pipes
  area, pointer, memseq,   \* the three regions of the shared memory
  \* history
  outcome          \* what became of the current run's test case

fuzzer  == <<fz, run, child_timed_out, prev_timed_out, status, fault>>
signals == <<child_pid, armed, stop_soon>>
server  == <<is_persistent, fs, was_killed, child_stopped, fs_status>>
process == <<child, forks, outcome>>
pipes   == <<ctl, st>>
shm     == <<area, pointer, memseq>>
vars == <<fuzzer, signals, server, process, pipes, shm>>

NoChild == [pid |-> 0, phase |-> "none", test |-> 0, cycles |-> 0, cause |-> "none"]

Init ==
  /\ fz = "hello" /\ run = 0 /\ child_pid = -1
  /\ child_timed_out = FALSE /\ prev_timed_out = FALSE /\ stop_soon = FALSE
  /\ armed = TRUE /\ status = "none" /\ fault = "none"
  /\ is_persistent \in BOOLEAN
  /\ fs = "start" /\ was_killed = FALSE /\ child_stopped = FALSE /\ fs_status = "none"
  /\ child = NoChild /\ forks = 0
  /\ ctl = <<>> /\ st = <<>>
  /\ area = {} /\ pointer = {} /\ memseq = {}
  /\ outcome = "none"

-----------------------------------------------------------------------------
(* The kernel: kill, and what dies with a process.                         *)

Alive == child.phase \in {"boot", "body", "after", "stopped"}

\* kill(pid, SIGKILL): nothing happens to a process that is gone.
KillChild(pid) ==
  IF child.pid = pid /\ Alive
  THEN /\ child' = [child EXCEPT !.phase = "zombie", !.cause = "kill"]
       /\ outcome' = IF outcome = "none" /\ child.test = run THEN "killed" ELSE outcome
  ELSE UNCHANGED <<child, outcome>>

-----------------------------------------------------------------------------
(* afl-fuzz: init_forkserver.                                              *)

Received(msg) == st # <<>> /\ Head(st) = msg /\ st' = Tail(st)
EndOfFile == st = <<>> /\ fs = "dead"

\* The server says hello.
HelloRead ==
  /\ fz = "hello" /\ Received("hello")
  /\ fz' = "hello_disarm"
  /\ UNCHANGED <<run, child_timed_out, prev_timed_out, status, fault, signals, server,
                 process, ctl, shm>>

HelloDisarm ==
  /\ fz = "hello_disarm"
  /\ armed' = FALSE /\ fz' = "idle"
  /\ UNCHANGED <<run, child_timed_out, prev_timed_out, status, fault, child_pid,
                 stop_soon, server, process, pipes, shm>>

\* It died, or was killed by the timer, before it could: fatal.
HelloFails ==
  /\ fz = "hello" /\ EndOfFile
  /\ fz' = "exited" /\ armed' = FALSE
  /\ UNCHANGED <<run, child_timed_out, prev_timed_out, status, fault, child_pid,
                 stop_soon, server, process, pipes, shm>>

-----------------------------------------------------------------------------
(* afl-fuzz: run_target.                                                   *)

\* Mutant: the pointer map is cleared, the edge map is not.
StartRunDirty ==
  /\ fz = "idle" /\ run < MaxRuns
  /\ run' = run + 1 /\ child_timed_out' = FALSE
  /\ pointer' = {} /\ outcome' = "none" /\ fz' = "ctl"
  /\ UNCHANGED <<prev_timed_out, status, fault, signals, server, child, forks, pipes,
                 area, memseq>>

\* memset(trace_bits, 0, MAP_SIZE + pointer map): the memseq map is not cleared.
StartRun ==
  /\ fz = "idle" /\ run < MaxRuns
  /\ run' = run + 1 /\ child_timed_out' = FALSE
  /\ area' = {} /\ pointer' = {}
  /\ outcome' = "none"
  /\ fz' = "ctl"
  /\ UNCHANGED <<prev_timed_out, status, fault, signals, server, child, forks, pipes,
                 memseq>>

\* Mutant: the write is repeated.
WriteCtlTwice ==
  /\ fz = "ctl" /\ fs # "dead"
  /\ ctl' = ctl \o <<prev_timed_out, prev_timed_out>>
  /\ fz' = "pid"
  /\ UNCHANGED <<run, child_timed_out, prev_timed_out, status, fault, signals, server,
                 process, st, shm>>

\* write(fsrv_ctl_fd, &prev_timed_out, 4)
WriteCtl ==
  /\ fz = "ctl" /\ fs # "dead"
  /\ ctl' = Append(ctl, prev_timed_out)
  /\ fz' = "pid"
  /\ UNCHANGED <<run, child_timed_out, prev_timed_out, status, fault, signals, server,
                 process, st, shm>>

\* read(fsrv_st_fd, &child_pid, 4)
ReadPid ==
  /\ fz = "pid" /\ st # <<>>
  /\ child_pid' = Head(st) /\ st' = Tail(st)
  /\ fz' = "arm"
  /\ UNCHANGED <<run, child_timed_out, prev_timed_out, status, fault, armed,
                 stop_soon,
                 server, process, ctl, shm>>

Arm ==
  /\ fz = "arm"
  /\ armed' = TRUE /\ fz' = "wait"
  /\ UNCHANGED <<run, child_timed_out, prev_timed_out, status, fault, child_pid,
                 stop_soon, server, process, pipes, shm>>

\* read(fsrv_st_fd, &status, 4)
ReadStatus ==
  /\ fz = "wait" /\ st # <<>>
  /\ status' = Head(st) /\ st' = Tail(st)
  /\ fz' = "clear"
  /\ UNCHANGED <<run, child_timed_out, prev_timed_out, fault, signals, server,
                 process,
                 ctl, shm>>

\* A pipe to a dead server: the run is abandoned on Ctrl-C, fatal otherwise.
PipeBroken ==
  /\ \/ fz = "ctl" /\ fs = "dead"
     \/ fz \in {"pid", "wait"} /\ EndOfFile
  /\ fz' = IF stop_soon THEN "quit" ELSE "exited"
  /\ fault' = "NONE"
  /\ UNCHANGED <<run, child_timed_out, prev_timed_out, status, signals, server,
                 process,
                 pipes, shm>>

ClearPid ==
  /\ fz = "clear"
  /\ child_pid' = IF status = "stop" THEN child_pid ELSE 0
  /\ fz' = "disarm"
  /\ UNCHANGED <<run, child_timed_out, prev_timed_out, status, fault, armed,
                 stop_soon,
                 server, process, pipes, shm>>

Disarm ==
  /\ fz = "disarm"
  /\ armed' = FALSE /\ fz' = "verdict"
  /\ UNCHANGED <<run, child_timed_out, prev_timed_out, status, fault, child_pid,
                 stop_soon, server, process, pipes, shm>>

Signaled == status \in {"crash", "kill"} /\ ~stop_soon

\* Mutant: the signal that ended the child is not looked at.
AnyTimeout == IF ~Signaled THEN "NONE"
              ELSE IF child_timed_out THEN "TMOUT" ELSE "CRASH"

Fault == IF ~Signaled THEN "NONE"
         ELSE IF child_timed_out /\ status = "kill" THEN "TMOUT" ELSE "CRASH"

\* Mutant: the server is told of timeouts only, not of every kill.
VerdictTellsTimeouts ==
  /\ fz = "verdict"
  /\ prev_timed_out' = (Fault = "TMOUT")
  /\ fault' = Fault
  /\ fz' = IF stop_soon THEN "quit" ELSE "idle"
  /\ UNCHANGED <<run, child_timed_out, status, signals, server, process, pipes, shm>>

Verdict ==
  /\ fz = "verdict"
  /\ prev_timed_out' = child_timed_out
  /\ fault' = Fault
  /\ fz' = IF stop_soon THEN "quit" ELSE "idle"
  /\ UNCHANGED <<run, child_timed_out, status, signals, server, process, pipes, shm>>

\* Mutant: an interrupted run is not noticed by its caller.
ExitBetweenRuns ==
  /\ fz = "idle" /\ stop_soon
  /\ fz' = "exited" /\ armed' = FALSE
  /\ UNCHANGED <<run, child_timed_out, prev_timed_out, status, fault, child_pid,
                 stop_soon, server, process, pipes, shm>>

\* Callers of run_target give up when it returns with stop_soon raised; the main
\* loop leaves.  A signal between two runs may be noticed before the next one.
Exit ==
  /\ fz = "quit" \/ (fz = "idle" /\ stop_soon)
  /\ fz' = "exited" /\ armed' = FALSE
  /\ UNCHANGED <<run, child_timed_out, prev_timed_out, status, fault, child_pid,
                 stop_soon, server, process, pipes, shm>>

-----------------------------------------------------------------------------
(* Signal handlers of afl-fuzz, between any two of its steps.              *)

\* handle_timeout: the child if there is one, the server while it comes up.
Alarm ==
  /\ armed /\ fz # "exited"
  /\ armed' = FALSE
  /\ child_timed_out' = (child_timed_out \/ child_pid # 0)
  /\ IF child_pid > 0 THEN KillChild(child_pid) ELSE UNCHANGED <<child, outcome>>
  /\ fs' = IF child_pid = -1 THEN "dead" ELSE fs
  /\ UNCHANGED <<fz, run, prev_timed_out, status, fault, child_pid, stop_soon,
                 was_killed, child_stopped, fs_status, is_persistent, forks, pipes, shm>>

\* handle_stop_sig: the child and the server.
StopSignal ==
  /\ ~stop_soon /\ fz # "exited"
  /\ stop_soon' = TRUE
  /\ IF child_pid > 0 THEN KillChild(child_pid) ELSE UNCHANGED <<child, outcome>>
  /\ fs' = "dead"
  /\ UNCHANGED <<fuzzer, child_pid, armed, was_killed, child_stopped, fs_status,
                 is_persistent, forks,
                 pipes, shm>>

-----------------------------------------------------------------------------
(* The fork server: __afl_start_forkserver.                                *)

\* Phone home.
FsHello ==
  /\ fs = "start"
  /\ st' = Append(st, "hello") /\ fs' = "read"
  /\ UNCHANGED <<fuzzer, signals, was_killed, child_stopped, fs_status,
                 is_persistent, process, ctl, shm>>

\* _exit(1): the target dies before it is up, a fork fails, or afl-fuzz is gone.
FsDies ==
  /\ \/ fs \in {"start", "launch"}
     \/ fs = "read" /\ ctl = <<>> /\ fz = "exited"
  /\ fs' = "dead"
  /\ UNCHANGED <<fuzzer, signals, was_killed, child_stopped, fs_status,
                 is_persistent, process, pipes, shm>>

\* Wait for the parent.
FsRead ==
  /\ fs = "read" /\ ctl # <<>>
  /\ was_killed' = Head(ctl) /\ ctl' = Tail(ctl)
  /\ fs' = "launch"
  /\ UNCHANGED <<fuzzer, signals, child_stopped, fs_status, is_persistent, process,
                 st, shm>>

\* Mutant: child_stopped is not reset when the old process is written off.
FsReapKeepsFlag ==
  /\ fs = "launch" /\ child_stopped /\ was_killed
  /\ child.phase = "zombie"
  /\ child' = NoChild
  /\ UNCHANGED <<fuzzer, signals, server, forks, outcome, pipes, shm>>

\* The child was stopped, but afl-fuzz killed it too late for us to see: write
\* it off.
FsReap ==
  /\ fs = "launch" /\ child_stopped /\ was_killed
  /\ child.phase = "zombie"
  /\ child' = NoChild /\ child_stopped' = FALSE
  /\ UNCHANGED <<fuzzer, signals, fs, was_killed, fs_status, is_persistent, forks,
                 outcome, pipes, shm>>

FsFork ==
  /\ fs = "launch" /\ ~child_stopped
  /\ forks' = forks + 1
  /\ child' = [pid |-> forks + 1, phase |-> IF is_persistent THEN "boot" ELSE "body",
               test |-> run, cycles |-> MaxCycles, cause |-> "none"]
  /\ fs' = "sendpid"
  /\ UNCHANGED <<fuzzer, signals, was_killed, child_stopped, fs_status,
                 is_persistent, outcome, pipes, shm>>

\* SIGCONT: the next turn of __AFL_LOOP, unless the child is dead.
FsResume ==
  /\ fs = "launch" /\ child_stopped /\ ~was_killed
  /\ child' = IF child.phase # "stopped" THEN child
              ELSE [child EXCEPT !.phase = "body", !.test = run]
  /\ child_stopped' = FALSE
  /\ fs' = "sendpid"
  /\ UNCHANGED <<fuzzer, signals, was_killed, fs_status, is_persistent, forks,
                 outcome, pipes, shm>>

\* Mutant: after a resume, the status of the last waitpid is relayed again.
FsSendPidNoWait ==
  /\ fs = "sendpid"
  /\ st' = Append(st, child.pid)
  /\ fs' = IF fs_status = "stop" THEN "relay" ELSE "waitpid"
  /\ UNCHANGED <<fuzzer, signals, was_killed, child_stopped, fs_status,
                 is_persistent, process, ctl, shm>>

FsSendPid ==
  /\ fs = "sendpid"
  /\ st' = Append(st, child.pid)
  /\ fs' = "waitpid"
  /\ UNCHANGED <<fuzzer, signals, was_killed, child_stopped, fs_status,
                 is_persistent, process, ctl, shm>>

\* waitpid, with WUNTRACED in persistent mode.
FsWaitpid ==
  /\ fs = "waitpid" /\ child.phase \in {"zombie", "stopped"}
  /\ IF child.phase = "stopped"
     THEN fs_status' = "stop" /\ child_stopped' = TRUE /\ UNCHANGED child
     ELSE fs_status' = child.cause /\ child' = NoChild /\ UNCHANGED child_stopped
  /\ fs' = "relay"
  /\ UNCHANGED <<fuzzer, signals, was_killed, is_persistent, forks, outcome, pipes,
                 shm>>

FsRelay ==
  /\ fs = "relay"
  /\ st' = Append(st, fs_status) /\ fs' = "read"
  /\ UNCHANGED <<fuzzer, signals, was_killed, child_stopped, fs_status,
                 is_persistent, process, ctl, shm>>

-----------------------------------------------------------------------------
(* The child: the target, with __afl_persistent_loop.  A phase leaves its  *)
(* trace when it ends.                                                     *)

Tag(phase) == {<<phase, child.test>>}
Ends(c) == IF outcome = "none" /\ child.test = run THEN c ELSE outcome

\* First pass of __AFL_LOOP: only the edge map is cleared.
ChildEntersLoop ==
  /\ child.phase = "boot"
  /\ area' = {}
  /\ pointer' = pointer \cup Tag("boot") /\ memseq' = memseq \cup Tag("boot")
  /\ child' = [child EXCEPT !.phase = "body"]
  /\ UNCHANGED <<fuzzer, signals, server, forks, outcome, pipes>>

\* The test case is done: exit, or stop, or leave the loop with the edge map
\* (and no other) turned to the dummy region.
ChildEndsBody ==
  /\ child.phase = "body"
  /\ area' = area \cup Tag("body")
  /\ pointer' = pointer \cup Tag("body") /\ memseq' = memseq \cup Tag("body")
  /\ child' = IF ~is_persistent THEN [child EXCEPT !.phase = "zombie", !.cause = "exit"]
              ELSE IF child.cycles > 1
              THEN [child EXCEPT !.phase = "stopped", !.cycles = @ - 1]
              ELSE [child EXCEPT !.phase = "after"]
  /\ outcome' = Ends("done")
  /\ UNCHANGED <<fuzzer, signals, server, forks, pipes>>

ChildExits ==
  /\ child.phase = "after"
  /\ pointer' = pointer \cup Tag("after") /\ memseq' = memseq \cup Tag("after")
  /\ child' = [child EXCEPT !.phase = "zombie", !.cause = "exit"]
  /\ UNCHANGED <<fuzzer, signals, server, forks, outcome, pipes, area>>

\* A crash, in any phase.
ChildCrashes ==
  /\ child.phase \in {"boot", "body", "after"}
  /\ LET t == Tag(child.phase) IN
     /\ area' = IF child.phase = "after" THEN area ELSE area \cup t
     /\ pointer' = pointer \cup t /\ memseq' = memseq \cup t
  /\ child' = [child EXCEPT !.phase = "zombie", !.cause = "crash"]
  /\ outcome' = IF child.test = run THEN "crash" ELSE outcome
  /\ UNCHANGED <<fuzzer, signals, server, forks, pipes>>

-----------------------------------------------------------------------------

RunTarget == \/ StartRun \/ WriteCtl \/ ReadPid \/ Arm \/ ReadStatus \/ PipeBroken
             \/ ClearPid \/ Disarm \/ Verdict
AflFuzz   == HelloRead \/ HelloDisarm \/ HelloFails \/ RunTarget \/ Exit
Signals   == Alarm \/ StopSignal
Server    == \/ FsHello \/ FsRead \/ FsReap \/ FsFork \/ FsResume \/ FsSendPid
             \/ FsWaitpid \/ FsRelay
Child     == ChildEntersLoop \/ ChildEndsBody \/ ChildExits \/ ChildCrashes

\* All the runs the bound allows are made, or the program has ended and what it
\* leaves behind does nothing more.
Terminating ==
  /\ fz = "exited" \/ (fz = "idle" /\ run = MaxRuns /\ ~stop_soon)
  /\ UNCHANGED vars

Next == AflFuzz \/ Signals \/ Server \/ FsDies \/ Child \/ Terminating

Spec == Init /\ [][Next]_vars

\* afl-fuzz and the server are scheduled and the timer goes off.  Nothing is
\* assumed of the child, which may hang, nor of Ctrl-C.
FairSpec == /\ Spec
            /\ WF_vars(AflFuzz) /\ WF_vars(Alarm) /\ WF_vars(Server)
            /\ WF_vars(FsDies /\ fz = "exited")

-----------------------------------------------------------------------------
(* Properties.                                                             *)

Statuses == {"none", "exit", "crash", "kill", "stop"}
Tags == {"boot", "body", "after"} \X (0 .. MaxRuns)

\* Every variable keeps its type.  The control pipe holds at most one message, the
\* status pipe at most a pid and a wait status: they never block a writer.
TypeOK ==
  /\ fz \in {"hello", "hello_disarm", "idle", "ctl", "pid", "arm", "wait", "clear",
             "disarm", "verdict", "quit", "exited"}
  /\ is_persistent \in BOOLEAN
  /\ run \in 0 .. MaxRuns /\ forks \in 0 .. MaxRuns
  /\ child_pid \in -1 .. MaxRuns
  /\ {child_timed_out, prev_timed_out, stop_soon, armed, was_killed, child_stopped}
       \subseteq BOOLEAN
  /\ {status, fs_status} \subseteq Statuses
  /\ fault \in {"none", "NONE", "TMOUT", "CRASH"}
  /\ fs \in {"start", "read", "launch", "sendpid", "waitpid", "relay", "dead"}
  /\ child \in [pid : 0 .. MaxRuns, test : 0 .. MaxRuns, cycles : 0 .. MaxCycles,
                phase : {"none", "boot", "body", "after", "stopped", "zombie"},
                cause : {"none", "exit", "crash", "kill"}]
  /\ ctl \in Seq(BOOLEAN) /\ Len(ctl) <= 1 /\ Len(st) <= 2
  /\ {area, pointer, memseq} \subseteq SUBSET Tags
  /\ outcome \in {"none", "done", "crash", "killed"}

Judged == fz = "idle" /\ run > 0 /\ ~stop_soon

\* Between two runs nothing is executing: the next test case is written and the
\* maps are cleared while the child is stopped or gone.
QuietBetweenRuns == Judged => child.phase \notin {"boot", "body", "after"}

\* The edge map afl-fuzz looks at after a run without fault holds this run's
\* test case, and nothing of the code before or after the loop.
TraceIsThisRun == Judged /\ fault = "NONE" => area = {<<"body", run>>}

\* prev_timed_out tells the server of every kill it could not see: when it
\* resumes a child, the child is really stopped.
ResumedIsAlive ==
  [][fs = "launch" /\ fs' = "sendpid" /\ child_stopped => child.phase = "stopped"]_vars

\* A run of the target, as the callers of run_target see it: the fork server,
\* the pipes, the timer and the signals implement Execution.
Run == INSTANCE Execution WITH
  phase  <- CASE fz \in {"quit", "exited"} \/ stop_soon -> "over"
              [] fz \in {"hello", "hello_disarm"} /\ ~stop_soon -> "down"
              [] fz = "idle" /\ ~stop_soon -> "ready"
              [] OTHER -> "running",
  fate   <- outcome,
  report <- fault

ImplementsExecution == Run!Spec

\* A run ends, even if the child hangs.
RunEnds == fz \notin {"idle", "exited"} ~> fz \in {"idle", "exited"}

\* Ctrl-C ends the program and the fork server.
StopEnds == stop_soon ~> fz = "exited" /\ fs = "dead"
=============================================================================
