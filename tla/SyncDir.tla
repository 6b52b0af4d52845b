------------------------------ MODULE SyncDir ------------------------------
(***************************************************************************)
(* Parallel fuzzing: sync_fuzzers of one instance scans the queue/ of      *)
(* another one, which at the same time adds test cases to it (create, then *)
(* write), trims them (unlink, create, write) and may be restarted in      *)
(* place (the directory is moved away and rebuilt).  The ids looked at so  *)
(* far are remembered, as one number, in out_dir/.synced/.                 *)
(*                                                                         *)
(* The instances share nothing but files.  readdir returns, in any order,  *)
(* what was in the directory all through the scan; what is added or        *)
(* removed meanwhile it may return or not, and a file made again under its *)
(* old name a second time.                                                 *)
(***************************************************************************)
EXTENDS Naturals

CONSTANTS
  MaxCases,  \* bound on the number of test cases the other instance queues
  MaxStops   \* bound on the number of times this instance is stopped in a scan

ASSUME MaxCasesAssumption == MaxCases \in Nat
ASSUME MaxStopsAssumption == MaxStops \in Nat

Ids == 0 .. MaxCases - 1

VARIABLES
  \* the other instance
  file,        \* its test cases: "none", "empty" or "full"
  queued,      \* number of test cases it has queued
  busy,        \* what it does: [op, id]
  trim_done,   \* ids it has trimmed since it was started
  \* this instance
  pc, min_accept, next_min_accept,
  syncing_case,  \* the id at hand
  synced,        \* contents of .synced/<the other instance>
  \* the directory stream
  returned,    \* ids readdir has returned
  moved,       \* the directory was moved away since opendir
  listable,    \* ids that have been in it at some time since
  present,     \* ids that have been in it all the time since
  \* history
  quiet,       \* ids that have been complete all the time since
  runs,        \* how often each test case was executed here
  relisted,    \* ids that were returned, and then made again under the same name
  stops        \* how often a scan was cut short

other  == <<file, queued, busy, trim_done>>
here   == <<pc, min_accept, next_min_accept, syncing_case, synced>>
stream == <<moved, listable, present, quiet>>
done   == <<runs, relisted>>
vars == <<other, here, returned, stream, done, stops>>

Idle == [op |-> "none", id |-> 0]

Init ==
  /\ file = [i \in Ids |-> "none"] /\ queued = 0 /\ busy = Idle /\ trim_done = {}
  /\ pc = "fuzz" /\ min_accept = 0 /\ next_min_accept = 0 /\ syncing_case = 0
  /\ synced = 0
  /\ returned = {} /\ moved = FALSE /\ listable = {} /\ present = {} /\ quiet = {}
  /\ runs = [i \in Ids |-> 0] /\ relisted = {} /\ stops = 0

-----------------------------------------------------------------------------
(* The other instance.                                                     *)

\* The directory, not one that was moved away, is being scanned.
Scanned == pc # "fuzz" /\ ~moved

\* A name appears in the directory, or disappears.
Appears(i) ==
  /\ listable' = IF Scanned THEN listable \cup {i} ELSE listable
  /\ UNCHANGED <<moved, present, quiet>>
Gone(ids) == present' = present \ ids /\ quiet' = quiet \ ids /\ UNCHANGED listable

\* save_if_interesting: open(O_CREAT | O_EXCL), then write.
Create ==
  /\ busy = Idle /\ queued < MaxCases
  /\ file' = [file EXCEPT ![queued] = "empty"]
  /\ busy' = [op |-> "write", id |-> queued]
  /\ queued' = queued + 1
  /\ Appears(queued)
  /\ UNCHANGED <<trim_done, here, returned, done, stops>>

Write ==
  /\ busy.op = "write"
  /\ file' = [file EXCEPT ![busy.id] = "full"]
  /\ busy' = Idle
  /\ UNCHANGED <<queued, trim_done, here, returned, stream, done, stops>>

\* trim_case, once for each test case: unlink, create, write.
TrimUnlink ==
  /\ busy = Idle
  /\ \E i \in Ids \ trim_done :
       /\ file[i] = "full"
       /\ file' = [file EXCEPT ![i] = "none"]
       /\ busy' = [op |-> "create", id |-> i]
       /\ trim_done' = trim_done \cup {i}
       /\ Gone({i})
  /\ UNCHANGED <<queued, moved, here, returned, done, stops>>

\* The new file may come up in a scan that has seen the old one.
TrimCreate ==
  /\ busy.op = "create"
  /\ file' = [file EXCEPT ![busy.id] = "empty"]
  /\ busy' = [busy EXCEPT !.op = "write"]
  /\ IF Scanned
     THEN /\ returned' = returned \ {busy.id}
          /\ relisted' = relisted \cup (returned \cap {busy.id})
     ELSE UNCHANGED <<returned, relisted>>
  /\ Appears(busy.id)
  /\ UNCHANGED <<queued, trim_done, here, runs, stops>>

\* In-place resume: queue/ becomes _resume/ (and goes on being scanned); then
\* pivot_inputs links every test case into a new queue/ under its old id.
MoveAway ==
  /\ busy = Idle /\ queued > 0
  /\ file' = [i \in Ids |-> "none"]
  /\ busy' = [op |-> "pivot", id |-> 0]
  /\ trim_done' = {}
  /\ moved' = (pc # "fuzz") /\ Gone(Ids)
  /\ UNCHANGED <<queued, here, returned, done, stops>>

Pivot ==
  /\ busy.op = "pivot"
  /\ file' = [file EXCEPT ![busy.id] = "full"]
  /\ busy' = IF busy.id + 1 < queued THEN [busy EXCEPT !.id = @ + 1] ELSE Idle
  /\ UNCHANGED <<queued, trim_done, here, returned, stream, done, stops>>

-----------------------------------------------------------------------------
(* This instance: sync_fuzzers.                                            *)

\* opendir, and the id of the last seen test case.
OpenQueue ==
  /\ pc = "fuzz"
  /\ pc' = "scan" /\ returned' = {} /\ moved' = FALSE
  /\ min_accept' = synced /\ next_min_accept' = synced
  /\ present' = {i \in Ids : file[i] # "none"} /\ listable' = present'
  /\ quiet' = {i \in Ids : file[i] = "full"}
  /\ UNCHANGED <<other, syncing_case, synced, done, stops>>

Returnable == listable \ returned

\* Mutant: the last test case that was seen is taken for a new one.
Fresh0(i) == i + 1 >= min_accept

\* "parse ID and see if we have looked at it before"
Fresh(i) == i >= min_accept

\* An id that was looked at in an earlier scan.
PassOver ==
  /\ pc = "scan"
  /\ \E i \in Returnable : ~Fresh(i) /\ returned' = returned \cup {i}
  /\ UNCHANGED <<other, pc, min_accept, next_min_accept, syncing_case, synced, stream,
                 done, stops>>

\* Mutant: an id counts as seen up to the highest one that came before it.
AcceptInOrder ==
  /\ pc = "scan"
  /\ \E i \in Returnable :
       /\ Fresh(i)
       /\ returned' = returned \cup {i}
       /\ syncing_case' = i
       /\ next_min_accept' = i + 1
       /\ pc' = IF i < next_min_accept THEN "scan" ELSE "open"
  /\ UNCHANGED <<other, min_accept, synced, stream, done, stops>>

Accept ==
  /\ pc = "scan"
  /\ \E i \in Returnable :
       /\ Fresh(i)
       /\ returned' = returned \cup {i}
       /\ syncing_case' = i
       /\ next_min_accept' = IF i >= next_min_accept THEN i + 1 ELSE next_min_accept
  /\ pc' = "open"
  /\ UNCHANGED <<other, min_accept, synced, stream, done, stops>>

\* Mutant: a file that cannot be used is looked at again in the same scan.
SkipAgain ==
  /\ pc = "open" /\ file[syncing_case] # "full"
  /\ pc' = "scan" /\ returned' = returned \ {syncing_case}
  /\ UNCHANGED <<other, min_accept, next_min_accept, syncing_case, synced, stream, done,
                 stops>>

\* The file cannot be opened, or is empty: on to the next one.
Skip ==
  /\ pc = "open" /\ file[syncing_case] # "full"
  /\ pc' = "scan"
  /\ UNCHANGED <<other, min_accept, next_min_accept, syncing_case, synced, returned,
                 stream, done, stops>>

\* run_target and save_if_interesting.
Execute ==
  /\ pc = "open" /\ file[syncing_case] = "full"
  /\ runs' = [runs EXCEPT ![syncing_case] = @ + 1]
  /\ pc' = "scan"
  /\ UNCHANGED <<other, min_accept, next_min_accept, syncing_case, synced, returned,
                 stream, relisted, stops>>

\* readdir has nothing more.
EndOfQueue ==
  /\ pc = "scan" /\ present \subseteq returned
  /\ pc' = "save"
  /\ UNCHANGED <<other, min_accept, next_min_accept, syncing_case, synced, returned,
                 stream, done, stops>>

\* closedir, and the end of the locals.
Close ==
  /\ pc' = "fuzz" /\ min_accept' = 0 /\ next_min_accept' = 0 /\ syncing_case' = 0
  /\ returned' = {} /\ moved' = FALSE /\ listable' = {} /\ present' = {} /\ quiet' = {}

\* Mutant: the number saved is one past the next id.
SaveTooFar ==
  /\ pc = "save"
  /\ synced' = next_min_accept + 1
  /\ Close
  /\ UNCHANGED <<other, done, stops>>

Save ==
  /\ pc = "save"
  /\ synced' = next_min_accept
  /\ Close
  /\ UNCHANGED <<other, done, stops>>

\* stop_soon, or a kill, before the number is written; .synced/ survives an
\* in-place resume.
Stop ==
  /\ pc \in {"scan", "open", "save"} /\ stops < MaxStops
  /\ stops' = stops + 1
  /\ Close
  /\ UNCHANGED <<other, synced, done>>

Other == Create \/ Write \/ TrimUnlink \/ TrimCreate \/ MoveAway \/ Pivot
Sync  == OpenQueue \/ PassOver \/ Accept \/ Skip \/ Execute \/ EndOfQueue \/ Save
Next  == Other \/ Sync \/ Stop

Spec == Init /\ [][Next]_vars
FairSpec == Spec /\ WF_vars(Sync)

-----------------------------------------------------------------------------
(* Properties.                                                             *)

\* Every variable keeps its type; the number in .synced/ is an id the other
\* instance has reached.
TypeOK ==
  /\ file \in [Ids -> {"none", "empty", "full"}]
  /\ queued \in 0 .. MaxCases /\ trim_done \in SUBSET Ids
  /\ busy \in [op : {"none", "write", "create", "pivot"}, id : 0 .. MaxCases]
  /\ pc \in {"fuzz", "scan", "open", "save"}
  /\ {min_accept, next_min_accept, synced} \subseteq 0 .. queued
  /\ syncing_case \in 0 .. MaxCases
  /\ {returned, listable, present, quiet, relisted} \subseteq SUBSET Ids
  /\ moved \in BOOLEAN
  /\ runs \in [Ids -> Nat] /\ stops \in 0 .. MaxStops

\* A scan executes every new test case that nobody touched while it lasted,
\* whatever else is added, trimmed or moved meanwhile.
QuietImported ==
  pc = "save" => \A i \in quiet : i >= min_accept => runs[i] > 0

\* A test case is executed once, and once more at most for every scan that was cut
\* short, unless a trim made the directory list it twice in one scan.
NoRepeats == \A i \in Ids \ relisted : runs[i] <= 1 + stops

\* A scan comes to an end while the other instance keeps working.
ScanEnds == pc # "fuzz" ~> pc = "fuzz"

\* "Each instance will also periodically rescan the top-level sync directory for
\* any test cases found by other fuzzers": what is in the other queue and counts
\* as looked at has been executed here.
EveryCaseImported ==
  pc = "fuzz" => \A i \in Ids : file[i] = "full" /\ i < synced => runs[i] > 0
=============================================================================
