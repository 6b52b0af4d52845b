# A TLA+ verification project for HTFuzz

HTFuzz (`src/tool/tool/HTFuzz`) is a coverage-guided fuzzer: AFL 2.52b with the MOpt
mutation scheduler and a feedback from heap operations (an edge map, a heap-sequence
map and a pointer counter in one shared-memory segment). Its core is one C file,
`afl-fuzz.c`, and the run-time library linked into the target,
`llvm_mode/afl-llvm-rt.o.c`. Everything under `src/program` and `src/data` is fuzzed
programs and recorded experiments, not part of the tool.

All line numbers below are of `afl-fuzz.c` unless `rt:` says otherwise.

## 1. The system and what is hard about it

`afl-fuzz` is a single-threaded program with two signal handlers. It talks to the fork
server over two pipes, to the target through shared memory, and to other instances of
itself, and to its own earlier and later lives, through directories of files.

| component | state | operations | interacts with | what is hard |
|---|---|---|---|---|
| test-case queue | the linked list of `queue_entry`, `top_rated`, `tc_ref`, `trace_mini`, `virgin_bits`, `var_bytes`, the `pending_*` counters | `add_to_queue` 915, `calibrate_case` 2813, `update_bitmap_score` 1482, `cull_queue` 1565, `perform_dry_run` 2979, head and tail of `fuzz_one` 7034/8837/10729 | runs targets; feeds the selection of `fuzz_one` | reference counts kept in two places, counters patched in four, a calibration that fails half way, starvation |
| target execution | `child_pid`, `child_timed_out`, `prev_timed_out`, the timer; `child_stopped`, `was_killed` in the server; the child | `init_forkserver` 2258, `run_target` 2543, `handle_timeout` 11028, `handle_stop_sig` 11008; `__afl_start_forkserver` rt:109, `__afl_persistent_loop` rt:190 | pipes, signals, shared memory | a timer and Ctrl-C between any two steps of three processes |
| session directory | `queue/`, `_resume/`, `.state/` | `maybe_delete_out_dir` 3905, `setup_dirs_fds` 11330, `read_testcases` 1687, `pivot_inputs` 3216, `nuke_resume_dir` 3865, `mark_as_det_done` 824 | its own earlier lives | a kill between any two system calls, several times over |
| parallel synchronisation | `out_dir/.synced/<id>` | `sync_fuzzers` 10870 | the queue directory of other instances, with no lock | files in the making, directories that are replaced while read, `readdir` order |
| MOpt scheduling | swarms, `key_module`, `key_puppet`, pacemaker counters | `pilot_fuzzing` 7013, `core_fuzzing` 8933, `pso_updating` 10789, `fuzz_one` 10843 | wraps the mutation stages | three modules that hand over through shared counters |
| saving of crashes and hangs | `virgin_crash`, `virgin_tmout`, `unique_*`, `subseq_tmouts` | `common_fuzz_stuff` 4941, `save_if_interesting` 3399 | runs the target again with a longer timeout | limits, a re-run that ends otherwise than the run, signals between the two |
| coverage bitmaps | `trace_bits`, `virgin_*` | `has_new_bits` 1124, `classify_counts`, `simplify_trace`, `minimize_bits`, `has_new_memseq_bits` 1014 | everything that runs a target | pure word-wise loops over bytes |
| mutation stages | the input buffer, stage counters, the effector map | deterministic stages 7175-8226, havoc 8265, splicing 8745 | `common_fuzz_stuff` 4941 | loops whose ends depend on what runs find, a buffer that is not restored between trials, helpers that guess what other stages did |
| trimming | the input buffer | `trim_case` 4817 | runs targets, rewrites a file | a loop over two quantities it changes |
| dictionaries | `extras`, `a_extras` | `load_extras`, `maybe_add_auto` 2056, the collector of bitflip 1/1 7237, `save_auto` | stages add to them and use them | eviction at the limit, an order that two sorts keep, strings that end at the end of the file |
| scoring | `handicap` | `calculate_score` | stages | weights only |
| status screen, statistics, set-up checks, compiler wrappers, afl-tmin, afl-analyze, afl-showmap, afl-cmin, afl-gotcpu, libdislocator, libtokencap, qemu mode | | | | output, probes and separate programs |

What makes the modelled components correct:

* *queue*: `tc_ref` counts exactly the bytes an entry has won and its compacted trace
  lives exactly as long; only calibrated entries win; favorites cover what has a
  winner; the pending counters are exact, because `fuzz_one` skips 99 entries of 100 on
  their word; no favorite starves.
* *execution*: the verdict is about this test case; nothing runs between two calls; the
  map holds this run; a resumed child is alive; every run ends, and Ctrl-C ends all.
* *session*: no written test case and no finished deterministic stage is lost by a kill;
  a resumed session is whole; a resume ends.
* *synchronisation*: a scan imports every test case it had a chance to import, once.
* *crashes and hangs*: what is kept is genuine and unlike what was kept before, no crash is
  dropped for something that was not kept, an entry is given up only when it is stuck.
* *trimming, stages, dictionaries*: what is executed is the input with what the stage says was
  done to it; what a stage leaves out has been tried or has no effect; tokens are what the
  flips showed; every loop ends.
* *MOpt*: a swarm is measured by its own finds, the core module uses the best, the modules
  take turns, nothing is leaked.

`PROJECT.json` lists the hazards at their lines, those no property covers yet included.

## 2. The modules

| module | what it is |
|---|---|
| `FuzzQueue` | the queue, the election of winners, culling, and the main loop |
| `FuzzQueueProofs` | its theorems: types, reference counts and winners, then the pending counters and what favorites cover |
| `MCFuzzQueue` | instances for TLC: a deterministic target and a variable one |
| `Execution` | what `run_target` promises: a test case ends in one of three ways and the report agrees |
| `ForkServer` | how it is done: `run_target`, the handlers, the fork server, the child. Implements `Execution` |
| `ForkServerProofs` | its theorems, the refinement included |
| `ResumeDir` | the session directory under kills and in-place resumes |
| `ResumeDirProofs` | its theorems |
| `SyncDir` | `sync_fuzzers` against one other instance |
| `SyncDirProofs` | its theorems |
| `SaveFaults` | what becomes of one execution: `common_fuzz_stuff` and `save_if_interesting` |
| `SaveFaultsProofs` | its theorems |
| `MCSaveFaults` | its instance for TLC, with the symmetry of inputs and map bytes |
| `AutoExtras` | the dictionary `maybe_add_auto` keeps |
| `FuzzOne` | one entry through `trim_case` and the deterministic stages; uses `AutoExtras` |
| `FuzzOneProofs` | their theorems |
| `MCFuzzOne` | three test cases, user tokens, an empty and a full dictionary |
| `DetValues` | the values the deterministic stages try, and the helpers that leave some out |
| `DetValuesProofs` | its theorems |
| `MCDetValues` | the test cases whose values are looked at |
| `Mopt` | the schedule of pilot, core and swarm modules and the pacemaker, with havoc and splicing as far as they feed it |
| `MoptProofs` | its theorems |

The detailed modules share no variables; `FuzzOne` alone extends another of them, the dictionary
its stages fill and use. `FuzzQueue` uses runs of the target the way
`Execution` promises them (a run has one verdict and leaves one trace). Files play no part
in it; what they go through is in `ResumeDir` and `SyncDir`. Definitions that
begin with "Mutant:" are plausible bugs of the definition they stand before; no
specification uses them. They are there to show, one run each, that every property can
be broken by a change of the code.

### FuzzQueue

State and code correspond name by name (`queued_paths`, `top_rated`, `tc_ref`, ...). An
entry is a number, its place in the list. `pc` says which function runs; the loops of
`update_bitmap_score` and of `cull_queue` take one step per byte, so that the reference
counts are looked at between any two bytes.

* A trace is the set of map bytes a run hits; hit counts are abstracted: "new bits"
  includes a new count of a known byte, so a discovery needs no new byte. A test case is
  the set of traces its runs may give.
* A calibration is one step. `Measure` is its loop: `seen`, the traces of the runs that
  succeeded in any number and order, determines `virgin_bits` and `var_bytes`; the trace
  of the last run is what `update_bitmap_score` is called with (this matters with a
  variable target, where it need not be the trace `exec_cksum` stands for). That
  `exec_cksum` identifies a trace assumes that the 32-bit hash does not collide.
* `exec_us * len` and the pointer score are numbers of small sets, chosen when they are
  measured. A trim may only shorten.
* Skipping dice and the swarm update (`key_module` = 2, which consumes an entry) are
  nondeterministic. MOpt is on; pilot and core fuzzing treat the queue entry alike.
* `queue_cycle`, the handicap, the depth, `has_new_cov`, the redundant and variable marks
  on disk, and imports by `sync_fuzzers` are left out. So is the abandonment of an entry
  by the stages, which looks to the queue like the end of the havoc stage. So is `seek_to` (12399), by which the
  first cycle of a resumed session starts past the head of the queue.
* `Stop` stands for Ctrl-C and for the limits `main` looks at between two entries (`exit_1`
  12437, `most_time` 12446).

### ForkServer

Three processes, one step per system call. `fz` is the place of `afl-fuzz`, `fs` of
the fork server, `child.phase` of the child. `Alarm` and `StopSignal` may strike between
any two steps. The shared memory holds, for each of its regions, which phase of the
child's life wrote to it for which run.

* Pids are not reused. Writing a test case is part of starting a run.
* Left out: the mode without a fork server, deferred initialisation, `uses_asan` exit
  codes, the classification of the trace after the run.
* `Terminating` is a stutter in the states where the bound on runs is used up or the
  program has ended.

### ResumeDir

A step is a system call that changes the directory: rename, mkdir, unlink, link, create,
write. The several files of `.state/` are reduced to the marks in
`deterministic_done/`; names are reduced to the test case a file holds. `Crash` strikes
between any two steps. A write is one step: a file is empty or whole. `MaxCrashes`
bounds the number of kills.

### SyncDir

The other instance creates and writes test cases, trims each at most once in a session,
and may be restarted in place. A scan is opendir, a step per file returned, a step per
file opened, and the writing of the number. `readdir` must return what stays, and may return
what comes or goes; a file made again under its old name may be returned again; a directory that
was renamed is read on, while paths lead to the new one. The other instance is restarted
between two of its file operations only; a restart in the middle of a write would
renumber its test cases.

### SaveFaults

An input has a behaviour: how it ends within `exec_tmout`, how within `hang_tmout`, and its
traces. A trace is a set of map bytes, a mark of a fault a byte with whether it was hit
(`simplify_trace`), the virgin maps are sets of marks. `pc` says how far `common_fuzz_stuff`
and `save_if_interesting` are, so that Ctrl-C (`stop_soon`) and SIGUSR1 (`skip_requested`)
may strike between any two steps; a run after Ctrl-C ends at once, with `FAULT_NONE`.
`generous` is `exec_tmout >= hang_tmout` (no second run), `crash_mode` is option -C.

* The target is deterministic, which is what the second run relies on.
* Hit counts, dumb mode, `has_new_memseq_bits`, `SIMPLE_FILES` and the files themselves are
  left out. So is `FAULT_ERROR`, which ends the program.
* `streak` is a history variable: it counts the runs of the entry at hand that timed out in a row as
  they are made, before `common_fuzz_stuff` looks at the fault and changes `subseq_tmouts`.

### AutoExtras and FuzzOne

`FuzzOne` is one entry on its way through `fuzz_one`. A test case is a sequence of bytes, and
`in_buf`, `out_buf`, `ex_tmp`, `a_collect` are the code's buffers, with what it leaves in
them. What the target does is nondeterministic: whether a deletion keeps the path, and what
the checksum of a flip is (0 stands for the entry's own). `clean` (the last file that was
run with the path of the entry), `sums`, `offered`, `inert` and `ran` record what happened
for the properties.

* A step of bitflip 1/1 is a byte: only the flip of its lowest bit looks for tokens. 2/1 and
  4/1 leave no state behind and have no steps. The stages from 16/8 to int 32 consult the
  effector map in the same way; three of them stand for all, `flip16`, `flip32` and `arith8`,
  by the number of bytes they touch, with one trial at each place.
* Left out: `AFL_NO_ARITH` (`no_arith`), dumb mode, `MAX_FILE` and `MAX_DET_EXTRAS` (skipping by
  dice), the letter case of tokens, `load_extras` (its sort by size is an assumption on `UserExtras`).
* `qsort` is not stable: `Sorts` is the set of results it may give.

### DetValues

A step is a whole stage over one file. `trials` holds what `common_fuzz_stuff` was called
with and by which turn of which loop, so that a value that is tried twice shows. Words are
little-endian. Files may have any length, and the difference of two bytes or words (`Xor8`,
`Xor16`) is the set of the numbers of the bits they differ in. The stages over 32 bits are left
out because TLC's integers have 32 bits with a sign, the effector map because it is in `FuzzOne`.
`AFL_NO_ARITH` is off: set, `no_arith` jumps over the additions (7547) and over the interesting
words (7895), but `could_be_arith` still keeps interesting bytes within 35 of the byte from being
tried, so that `ValuesCovered` is claimed for the default only.

The two properties name the exceptions the code makes, and say there are no others:

* `AcrossWordSeam`: a word that differs from the file in two or four bits that are neighbours in
  the word and lie in both its bytes. `could_be_bitflip` takes it for a bit flip, and none makes
  it: it is not tried.
* `FlippedAcross`: bits that are neighbours in the file, across the seam of two bytes. A walking
  stage flips them; `could_be_bitflip` does not know them, and a sum or an interesting value
  may make the same file again.
* `Overlapping`: interesting words at places next to each other that differ from the file only in
  the byte they share: of `<<232, 80, 232>>`, 1000 (`<<232, 3>>`) at the first place and 1000 with its bytes
  swapped at the second make the same file, and both are tried, since `could_be_interest` sees the
  word at hand and not the one before. It takes three bytes to show.

### Mopt

`pilot_fuzzing` and `core_fuzzing` are two copies of one text that differ in the counters;
a step of both is one action. `key_module`, `key_puppet`, `swarm_now`, the two period
counters, `total_puppet_find`, `temp_puppet_find`, the stage counters and the buffers of
splicing are the code's. `swarm_fitness` is a fraction kept as two numbers (the constant
`period_pilot_tmp` cancels out of every comparison). `measured` and `own` are history.

* `use_splicing` has either value: without it a retry of splicing does not count `splice_cycle`.
* The positions and velocities of swarms, operator statistics and the wall clock that decides
  on the pacemaker (`limit_time_puppet`) are left out: the pacemaker may start at any entry.
* `hits` is `queued_paths + unique_crashes`; `MaxHits` bounds it, so that after the last
  find the schedule goes on without finds.

## 3. The runs

All of them are exhaustive. Deadlock is checked in each.

| run | bounds | what it shows |
|---|---|---|
| `queue_stable` | 3 entries, 2 bytes, deterministic | winners, favorites, the pending counters |
| `queue_variable` | 2 entries, 2 bytes, variable, fair | reference counts do not need determinism; no favorite starves |
| `fork` | 4 runs, 2 turns of the loop, with and without it, fair | everything about execution, the refinement of `Execution` included |
| `resume` | 3 test cases, 3 kills, fair | nothing is lost outside two windows, resumes end |
| `sync` | 2 test cases, 2 scans cut short, fair | imports |
| `faults` | 3 inputs of every behaviour, 2 bytes, 2 hangs and 2 crashes kept, `TMOUT_LIMIT` 2 | what is kept, what is not, and when an entry is given up |
| `fuzz_one` | files of 1, 5 and 7 bytes, 2 user tokens, 2 automatic ones used of 4, blocks of 2 bytes, fair | trimming, tokens, effector map, the extras stages |
| `values` | all files of 1 byte, 625 of 2 bytes, 5 of 3 bytes | coverage and repetition of the values tried |
| `mopt` | 2 swarms, periods of 1, 2 splices, 3 finds, fair | the schedule and its accounts |

Why the bounds are enough. *Queue*: with three entries over two bytes a winner can be
displaced by another and by itself, lose one byte and keep the other, and be displaced
while a third wins; a discovery can come before, between and after the others; a
failed entry can be calibrated until it is given up (`CalChances` = 3). Two factors and
two pointer scores give all orders of two contenders. `SkipThreshold` (10 in the code) is
1, so that the branch is taken. *Fork server*: four runs are a whole life of a child of
two turns, and the start of the next; a kill in the window after the child has stopped
takes three runs. *Resume*: three kills suffice for a kill of a resume of a resume, and
three test cases for a seed, a find and one being trimmed at once. *Sync*: two ids come in
both orders, and the second scan starts in the middle. *Faults*: a crash and a hang that share
bytes and a third input that a limit or a used-up mark may hide; three inputs reach
either limit of two, and two that are kept can be compared; inputs that time out by turns with one
that does not tell a series from a sum once the limit of timeouts is 2. *Stages*: five bytes are two whole blocks and a short
one and below `EFF_MIN_LEN` (6), seven are above it, and hold strings below, at and above
the token limits (2 and 3) at the beginning, inside and at the end of the file; trimming
halves its step twice. A full dictionary evicts, an empty one grows. *Values*: the 25 bytes of which
the two-byte files are made are the borders of the interesting values, of `ARITH_MAX` and of
the sign; those of three bytes hold words that overlap. What goes wrong at a place involves its byte or
word and the neighbours that share a byte with it, and for every length there is the proof. *Mopt*:
with periods of 1 an entry overshoots its period, ends one and lies between two; the third find comes when the other modules have had theirs.

Runs that are expected to fail show where the code and what is said of it part:

| run | property | what TLC finds |
|---|---|---|
| `resume_old` | `OldResumeWhole` | a kill inside `nuke_resume_dir` makes the next resume prefer the remains to the whole queue |
| `sync_lost` | `EveryCaseImported` | the number passes an id whose file was not ready (10943) |
| `hang_lost` | `GenuineHangsKept` | the marks of a slow input that is no hang are used up (3476) before the second run, and a genuine hang on the same path is dropped |

More was met while modelling, and has no run:

* `update_bitmap_score` joins its two criteria by OR (1522), where the comment (1500) ranks
  them. The relation is not transitive, and winners can go round.
* A calibration that fails has used up the virgin bits of bytes that then have no winner (2874).
* A second calibration starts from the trace another entry left behind (2846), and marks
  the difference in `var_bytes`.
* `run_target` clears two of the three regions of the shared memory, not the heap-sequence map
  (2557); its result `hns` is not used by `save_if_interesting`, so that nothing follows from
  it. Leaving `__AFL_LOOP` turns only the edge map to the dummy region (rt:236), and entering
  it clears only the edge map (rt:204), so that the pointer counter holds what ran outside
  the loop.
* `queued_favored` counts an entry once for each byte it is grabbed for (1602), which may be
  twice for a variable entry.
* `could_be_bitflip` takes bits that are neighbours in a little-endian word for neighbours in
  the file. Across the seam of two bytes `FLIP_BIT` never flips the pairs and quadruples it
  means (its comment, 5106: "with the lengths and stepovers attempted by afl-fuzz"), and does flip others:
  some values are never tried, some twice. `ValuesCovered` and `ValuesTriedOnce` make
  the exception. They show that there is no other but for interesting words at neighbouring places,
  which may be executed twice because `could_be_interest` compares one word.
* The check for a redundant token (8087) compares with what the token before left in the
  buffer; the input as it is may be executed.
* `stage_max` of "user extras (insert)" is `extras_cnt * len` (8119), the loop has `len + 1`
  places (8128).
* `config.h:68` says of `TMOUT_LIMIT` "Number of subsequent timeouts before abandoning an input
  file". The code compares the count before the present timeout, by `>` (4960): an entry is given up
  at timeout `TMOUT_LIMIT + 2` in a row, two later than that. `GivenUpWhenStuck` claims only what
  both agree on, that it is never given up earlier.
* The pacemaker is never left: its condition (8855) compares a number with 1.1 times
  itself (`config.h:130`).
* What the deterministic stages find is credited to no swarm.
* `trim_case` shortens `queue_cur->len` and the file stays mapped: it is unmapped with the
  shorter length (8846), which may leave pages behind.

## 4. Fairness

* `queue_variable`: the program keeps running (`WF` on its steps), and `SF` for
  each entry that `fuzz_one` is entered on it: skipping is a throw of the dice with
  probability below one each time, and a swarm update falls due by execution counts
  that have nothing to do with the place in the queue. Nothing forces Ctrl-C,
  discoveries or failures.
* `fork`: `afl-fuzz` and the server are scheduled, an armed timer goes off. Nothing is
  assumed of the child, which may hang in any phase, or of Ctrl-C.
* `resume`: the start of a session proceeds; nothing is assumed of kills.
* `sync`: the scanning instance proceeds; nothing is assumed of the other.
* `fuzz_one`: the program keeps running. That a stage is never abandoned is not assumed, nor is
  what the target does.
* `mopt`: the program keeps running; `SF` for entering an entry on the way to havoc, and for
  a deterministic stage to end rather than find without end: there are entries that are
  through with their deterministic stages, and not every entry is abandoned while it is
  trimmed. Without it a queue in which calibration or trimming always fails never runs havoc, and
  no period ends. Nothing is assumed of finds, splices, or of executions that are given up.

`faults` and `values` check no liveness: the first goes on as long as inputs come, the second
is a straight line.

## 5. Proofs

`FuzzQueueProofs` proves, for every queue length, map size, set of behaviours and every
choice of the other constants that satisfies the named assumptions of `FuzzQueue`:

* `TypeCorrect`: `Spec => []TypeOK`. Not inductive alone: `queue_cur` must be a queued
  entry whenever `fuzz_one` runs (`CurInv`), or the next entry might be past the
  end. The two together are.
* `RefCountsCorrect`: `Spec => [](TcRefExact /\ MiniKept)`. The invariant is inductive with the
  types: the only step that changes it is `TakeByte`, which moves one byte from one entry's
  set to another's. The lemmas before it compute the cardinality of a set that gains
  or loses one element, and the case where the winner displaces itself.
* `FavoredAreFuzzable`: `Spec => []FavoredIsFuzzable`. Whoever is a winner or favored is
  queued and calibrated (`HeldSound`). To keep that, the invariant says of the entry
  at hand that it is calibrated when it is scored or trimmed, and not yet when it is
  calibrated again (`AtHand`), and that `perform_dry_run` is ahead of every winner
  (`DryAhead`), so that a seed it gives up on cannot be one.

Its second half is about the favored entries:

* `PendingCorrect`: `Spec => []PendingCountersExact`, for any target. `cull_queue` counts a
  favorite each time it grabs a byte for it, so the counter is exact only if no entry that
  waits for `fuzz_one` is grabbed twice, which is not so for entries in general: one that was
  trimmed wins further bytes by a trace that it does not keep. `ScoredOnce` says that an entry
  still waiting was scored once, and keeps every byte it won; `CullInv` that what was
  grabbed so far is disjoint from what remains. Both hold for variable targets.
* `FavoredCoverAll` and `CalibratedWin`: `Spec => []FavoredCover` and
  `Spec => []CalibratedBytesWon`, under the hypothesis `Deterministic`: each behaviour has one
  trace. Without it both are false, as the code leaves it: a second run may win bytes that
  the kept trace has not. `TracesInv` says that `exec_cksum` is the one trace of its entry
  from its calibration on, and that an entry without one has its first calibration before it
  or was given up on (`Measured`); `WinInv` that
  an entry hits what it won and that scoring works on its own trace; `CoverInv` and `Covered`
  what the favorites cover during and after a cull; `AllWon` that a calibrated entry's
  bytes have a winner, but for those its scoring has not come to.

`ForkServerProofs` proves, for any number of runs and any number of turns of the persistent
loop:

* `ProtocolKept`: the inductive invariant. `PipeInv` gives the messages in the two pipes for
  each pair of places at which `afl-fuzz` and the server may be. A run then has three parts, by what
  the server knows: before it has launched or resumed a child (`BeforeInv`), while it waits for
  it (`LaunchedInv`), and after (`WaitedInv`). A late alarm may kill a child that has stopped already: it
  is a zombie when, and only when, the next message tells the server so. `DeadInv` is about a
  server that has died of itself. As a consequence the `waitpid` by which the server writes off a killed child always finds a
  zombie, and never blocks.
* `TypeCorrect`, `RunsDoNotOverlap`, `TraceCorrect` and `ResumedAlive` (an action property)
  follow from it.
* `Refinement`: `Spec => ImplementsExecution`. Each step of `ForkServer` is a step of
  `Execution` or none, and which one follows from the part of the invariant the step happens
  in: that a report is truthful, for one, is what `WaitedInv` says of the status.

`ResumeDirProofs` proves, for every set of test cases and every number of kills:

* `TypeCorrect`: `Spec => []TypeOK`. A directory that is not there has no contents, and the steps
  that write into `queue/` keep this only if it exists; the invariant adds that it does
  from `MakeQueue` on.
* `NoTestCaseLost`: `Spec => []NothingLost`. The property says that a saved test case is in
  one of the two directories, which does not survive the deletion of one. The invariant `Kept`
  says which of them holds everything at each `pc`: while the program is down the one
  `maybe_delete_out_dir` will choose (`Chosen`), then `_resume/` until the import is over,
  both when its deletion begins, and `queue/` afterwards, with the test case being trimmed in
  memory. It is claimed as long as no kill has hit one of the two windows (`Unharmed`),
  which is the exemption `NothingLost` itself makes. A kill during the deletion is outside
  the window until `.state/` goes; that no test case goes before it is what the third
  conclusion of `DeletedTypes` says.
* `ResumedSessionWhole`: `Spec => []ResumedWhole`. Besides `Kept`: nothing is made up
  (`Genuine`), and from the end of `read_testcases` on the queue in memory has everything
  (`Complete`), until the session is over.
* `MarksSurvive`: `Spec => []MarksKept`. `MarkedInv` says in which directory the marks are at each
  `pc`, and that while `queue/` is rebuilt an entry that is in it and has passed has its mark
  already or gets it next, so that no mark is missing in `queue/` when `_resume/` goes.

`SyncDirProofs` proves, for any number of test cases and of scans cut short:

* `TypeCorrect`, `ScanIsComplete` (`QuietImported`) and `RepeatsAreBounded` (`NoRepeats`). The
  properties are about the end of a scan or the whole of a life, the invariant about every
  moment of a scan. `ScanInv` has the ids `readdir` has returned below the next number or below the
  saved one, `RunsInv` counts executions for ids returned and ids not returned yet, apart from the one
  whose file is open, and `QuietInv` follows a test case that stays complete through the scan
  until it is executed.

`SaveFaultsProofs` proves, for any finite sets of inputs and bytes and any limits:

* `TypeCorrect`, `KeptIsGenuine`, `KeptIsUnique`, `CrashesAreKept`, `CrashMapCorrect` and
  `StuckEntriesGivenUp` (for which `streak`, counted by the run, is bound to `subseq_tmouts`,
  counted after it). The invariant has five parts. `RunInv` says at each `pc` what the fuzzer knows of
  the input at hand: until the second run `fault` and `trace_bits` are of the first, and what
  is treated as a crash did crash, by whichever way it came to `keep_as_crash`. `HangInv`
  carries the uniqueness of hangs across the second run, during which the suspect's marks are
  used up and it is not yet in `hangs/`. `CrashInv` equates `virgin_crash` with what no saved
  crash has, but for -C with a calibration cut short by Ctrl-C, which may leave part of a trace.
  `KeptInv` says that a crash that was looked at has no mark no saved one has. Uniqueness is
  stated without unions (`Distinct`, `Missing`) in the invariants, and translated at the end
  (`DistinctMarks`, `MissingMarks`).

`MoptProofs` proves, for any number of swarms, any periods, stage sizes and numbers of splices:

* `FitnessCorrect`: `Spec => []FitnessIsOwn`. `OwnInv` adds that swarms after the present one have
  had nothing, and that when the swarms are moved no find is left between the two counters;
  the latter is what `core_fuzzing` sees to at 10763, although it has no use for it.
* `BuffersAreFreed`: `Spec => []BuffersFreed`.
* `CoreWorksWithBest`: `Spec => []CoreUsesBest`. `BestInv` says that the swarm the core module
  works with is better than none of the others by their own finds and executions. That `Best`
  exists, and is the first of the best, is proved by induction on the set of the numbers of
  swarms for which there is one (`FirstExists`).

`FuzzOneProofs` proves, for any test cases, dictionaries, checksums and limits that satisfy the
assumptions. All of it rests on `Base`: the types, the buffer `a_collect` (`CollectInv`), the
dictionary (`DictInv`), where the input is (`DataInv`) and what `out_buf` may differ in while tokens
are written over it (`OverInv`).

* `TrimCorrect`: `Spec => []TrimSound`. `DataInv` carries the equality of what is left with what
  was executed last. For the bound on the steps of a pass, `StepInv` relates the steps made to
  the bytes passed or deleted; that they are at most `TRIM_END_STEPS` rests on the step and the
  limit both being powers of two. `pow2` is a recursive function; what is said of it (`Pow2`,
  `Pow2Multiple`, `StepsBounded`) is proved by induction on sets of numbers.
* `DictionaryCorrect`: `Spec => DictionaryKept`, an action property. The lemmas are about the
  two sorts (`SortKeeps`) and about what may be evicted (`Evicted`): it lies in the second
  half of a list that is sorted by use there, and before it are the tokens the stages use.
* `TokensDoNotMix`: `Spec => []OneTokenAtATime`. The buffer is not restored between two tokens
  at one place. It works because tokens get no shorter, and the invariant says so: the bytes that
  differ are those the last token covered, and no token to come is shorter. For insertion
  `InsertInv` says how far `ex_tmp` has followed the input.
* `EffectorMapCorrect`: `Spec => []EffectorMapSound`. `EffInv` says of each byte flipped so far
  that it is left out only without effect, and that `eff_cnt` counts blocks; `StageInv` relates
  `stage_max`, from which skipped trials are subtracted, to the trials made and to come.
* `TokensComeFromRuns`: `Spec => []TokensAreRuns`. `FlipInv` relates `prev_cksum`, `a_len` and
  `a_collect` to the checksums so far: what was offered is what the maximal strings (`IsRun`) tell that
  have ended (`Told`), and the one that has not (`Trailing`) is in `a_collect` as far as it fits
  (`Kept`). The step lemma tells apart whether a flip continues a string, ends one or starts one,
  and whether it is the last of the file.

Two assumptions of `FuzzOne` are needed for these and hold of `config.h`: `MIN_AUTO_EXTRA` is
at least 2 (it is 3): with 1 a flip at the last byte that starts a string of its own would be
collected and not offered; and `TRIM_END_STEPS` is a power of two (it is 1024): `len_p2` is
divided by it.

`DetValuesProofs` proves, for any test cases of any length:

* `ValuesAreCovered`: `Spec => []ValuesCovered`. The property is about the end; `InOrder` says of
  each stage that is over that its loop was run to its end, with what its helpers left out. What
  is left is to see that what a helper takes for done was done. A byte or word that differs by
  what `could_be_bitflip` knows is the work of a walking stage, unless the bits
  lie across the seam; one that `could_be_arith` knows is a sum or a difference, and if it does not
  carry into the other byte it was tried as a byte; one that `could_be_interest` knows was
  tried as a byte, or as a word the other way round.
* `ValuesAreTriedOnce`: `Spec => []ValuesTriedOnce`. `Turns` says that every call is a turn of one
  of the loops, with values its helpers let through. Any two turns that make one file
  are then compared: two walking stages by the bits they flip (`Flipped`), a walking stage with another by
  what `could_be_bitflip` does not know, two sums by the carry that made each of them worth
  trying, words that overlap by the byte they share.

Both need the arithmetic of bytes and words, which the library has no theorems for: a byte is the
sum of its bits, a flip changes one of them, a complement all, swapping exchanges
two bytes, and a sum without carry stays in its byte. Lemmas prove it from the definition of the quotient,
bit by bit. `Octet` and `IsWord` are names that keep the provers from listing 256 or 65536 cases.

What is only model-checked: liveness (`FavoredGetsFuzzed`, `RunEnds`, `StopEnds`, `ResumeEnds`,
`ScanEnds`, `EntryEnds`, `ModulesTakeTurns`), since fairness and ENABLED are out of the prover's
reach, and the three runs that end in a counterexample. Every invariant and every action
property of the passing runs is stated by a theorem. Induction over data is not available as a rule
that takes a predicate; where it is needed (powers of two, the best swarm) it is done for one
fact at a time, on the set of the numbers that have it.

## 6. Not modelled

Nearly all of the repository's lines are the programs that were fuzzed (binutils and others
under `src/program`) and recorded experiments; they are inputs of the fuzzer, and no model of
it covers them. Of the tool, these are left out:

* the operators of havoc, the arithmetic of swarms and scores: numeric weights and byte
  operations without a property of their own;
* `classify_counts`, `minimize_bits` and the hit counts: the models use sets of bytes;
* the 32-bit stages of `DetValues`;
* status screen, statistics, set-up probes, compiler wrappers and the companion programs,
  which have no state over time, and the sequential `afl-tmin` and `afl-analyze`;
* the instrumentation pass, which appears only by what it writes at run time;
* a fresh start over an old directory, the same deletion as `Wipe` with nothing to keep.

## 7. Plan

Done: `FuzzQueue`, `Execution` and `ForkServer` with the refinement, `ResumeDir`, `SyncDir`,
`SaveFaults`, `FuzzOne` with `AutoExtras`, `DetValues`, `Mopt`, and the theorems of section 5.
Every invariant and every action property the passing runs check is proved. Left:

1. `save_auto` and `load_auto`: what becomes of the automatic dictionary between sessions.
2. `classify_counts` and `has_new_bits` word by word, with `minimize_bits`, against a reference.
3. `afl-tmin` as an algorithm: that what it writes still has the trace it started with.
4. The stages over 32 bits in `DetValues`.
