---------------------------- MODULE SyncDirProofs ----------------------------
(***************************************************************************)
(* Proofs about SyncDir, for any number of test cases and of scans that are*)
(* cut short: the types, that a scan leaves out nothing that was there all *)
(* the time, and how often a test case is executed.                        *)
(***************************************************************************)
EXTENDS SyncDir, TLAPS

\* The variables the proofs work with.  What this instance remembers never runs
\* ahead of what the other one has queued.
TypeInv ==
  /\ file \in [Ids -> {"none", "empty", "full"}]
  /\ queued \in 0 .. MaxCases /\ trim_done \subseteq Ids
  /\ busy \in [op : {"none", "write", "create", "pivot"}, id : 0 .. MaxCases]
  /\ pc \in {"fuzz", "scan", "open", "save"}
  /\ min_accept \in 0 .. queued /\ next_min_accept \in 0 .. queued /\ synced \in 0 .. queued
  /\ syncing_case \in 0 .. MaxCases
  /\ returned \subseteq Ids /\ listable \subseteq Ids /\ present \subseteq Ids
  /\ quiet \subseteq Ids /\ relisted \subseteq Ids
  /\ runs \in [Ids -> Nat] /\ stops \in 0 .. MaxStops

\* Only test cases that were queued have a file, or are being written.
QueuedInv ==
  /\ \A i \in Ids : file[i] # "none" => i < queued
  /\ \A i \in listable : i < queued
  /\ busy.op # "none" => busy.id < queued
  /\ busy.op = "create" => file[busy.id] = "none"
  /\ busy.op = "write" => file[busy.id] = "empty"

\* While a scan lasts min_accept is the saved number, and the next one is above
\* every id readdir has returned.
ScanInv ==
  /\ pc # "fuzz" => min_accept = synced /\ min_accept <= next_min_accept
  /\ \A i \in returned : i < min_accept \/ i < next_min_accept
  /\ pc = "open" => syncing_case \in Ids

\* What was executed: between scans the ids below the saved number had their one
\* run, in a scan those below min_accept and those already returned; every scan
\* that was cut short gives the ids it had executed one more.
RunsInv ==
  \A i \in Ids \ relisted :
    /\ runs[i] <= 1 + stops
    /\ pc = "fuzz" /\ i >= synced => runs[i] <= stops
    /\ pc # "fuzz" /\ i >= min_accept /\ i \notin returned => runs[i] <= stops
    /\ pc = "open" /\ i = syncing_case => i \in returned /\ runs[i] <= stops

\* A test case that was complete all through the scan is executed when readdir
\* returns it, whatever else happens to the directory.
QuietInv ==
  /\ quiet \subseteq present
  /\ \A i \in quiet :
       /\ file[i] = "full"
       /\ i >= min_accept /\ i \in returned /\ ~(pc = "open" /\ i = syncing_case) => runs[i] > 0
  /\ QuietImported

\* The inductive invariant.  Its parts hold one another up, TypeInv and QueuedInv first.
Inv == TypeInv /\ QueuedInv /\ ScanInv /\ RunsInv /\ QuietInv

-----------------------------------------------------------------------------
(* Every step keeps each part.                                             *)

\* Every step keeps the types.
LEMMA TypeStep == Inv /\ Next => TypeInv'
<1> SUFFICES ASSUME Inv, Next PROVE TypeInv'
  OBVIOUS
<1> USE DEF other, here, stream, done
<1>1. CASE Create
  BY <1>1, MaxCasesAssumption DEF Create, Appears, Inv, TypeInv, Ids
<1>2. CASE Write
  BY <1>2, MaxCasesAssumption DEF Write, Idle, Inv, TypeInv, QueuedInv, Ids
<1>3. CASE TrimUnlink
  BY <1>3, MaxCasesAssumption DEF TrimUnlink, Gone, Inv, TypeInv, Ids
<1>4. CASE TrimCreate
  <2>1. busy' \in [op : {"none", "write", "create", "pivot"}, id : 0 .. MaxCases]
    BY <1>4 DEF TrimCreate, Inv, TypeInv
  <2>2. busy.id \in Ids
    BY <1>4, MaxCasesAssumption DEF TrimCreate, Inv, TypeInv, QueuedInv, Ids
  <2>3. file' \in [Ids -> {"none", "empty", "full"}]
    BY <1>4 DEF TrimCreate, Inv, TypeInv
  <2> QED BY <1>4, <2>1, <2>2, <2>3 DEF TrimCreate, Appears, Inv, TypeInv
<1>5. CASE MoveAway
  BY <1>5 DEF MoveAway, Gone, Idle, Inv, TypeInv
<1>6. CASE Pivot
  <2>1. busy' \in [op : {"none", "write", "create", "pivot"}, id : 0 .. MaxCases]
    <3>1. CASE busy.id + 1 < queued
      <4>1. busy' = [busy EXCEPT !.id = busy.id + 1] /\ busy.id + 1 \in 0 .. MaxCases
        BY <1>6, <3>1, MaxCasesAssumption DEF Pivot, Inv, TypeInv
      <4> QED BY <4>1 DEF Inv, TypeInv
    <3>2. CASE ~(busy.id + 1 < queued)
      BY <1>6, <3>2, MaxCasesAssumption DEF Pivot, Idle
    <3> QED BY <3>1, <3>2
  <2>2. file' \in [Ids -> {"none", "empty", "full"}]
    BY <1>6 DEF Pivot, Inv, TypeInv
  <2> QED BY <1>6, <2>1, <2>2 DEF Pivot, Inv, TypeInv
<1>7. CASE OpenQueue
  BY <1>7 DEF OpenQueue, Inv, TypeInv
<1>8. CASE PassOver
  BY <1>8 DEF PassOver, Returnable, Inv, TypeInv
<1>9. CASE Accept
  BY <1>9, MaxCasesAssumption DEF Accept, Returnable, Inv, TypeInv, QueuedInv, Ids
<1>10. CASE Skip
  BY <1>10 DEF Skip, Inv, TypeInv
<1>11. CASE Execute
  BY <1>11 DEF Execute, Inv, TypeInv, ScanInv
<1>12. CASE EndOfQueue
  BY <1>12 DEF EndOfQueue, Inv, TypeInv
<1>13. CASE Save
  BY <1>13, MaxCasesAssumption DEF Save, Close, Inv, TypeInv
<1>14. CASE Stop
  BY <1>14, MaxCasesAssumption, MaxStopsAssumption DEF Stop, Close, Inv, TypeInv
<1> QED
  BY <1>1, <1>2, <1>3, <1>4, <1>5, <1>6, <1>7, <1>8, <1>9, <1>10, <1>11, <1>12, <1>13, <1>14
     DEF Next, Other, Sync

\* Every step keeps the files within what was queued.
LEMMA QueuedStep == Inv /\ Next => QueuedInv'
<1> SUFFICES ASSUME Inv, Next PROVE QueuedInv'
  OBVIOUS
<1> USE DEF other, here, stream, done
<1>1. CASE Create
  BY <1>1, MaxCasesAssumption DEF Create, Appears, Inv, TypeInv, QueuedInv, Ids
<1>2. CASE Write
  BY <1>2 DEF Write, Idle, Inv, QueuedInv
<1>3. CASE TrimUnlink
  BY <1>3 DEF TrimUnlink, Gone, Inv, TypeInv, QueuedInv
<1>4. CASE TrimCreate
  BY <1>4, MaxCasesAssumption DEF TrimCreate, Appears, Inv, TypeInv, QueuedInv, Ids
<1>5. CASE MoveAway
  BY <1>5 DEF MoveAway, Gone, Inv, QueuedInv
<1>6. CASE Pivot
  BY <1>6 DEF Pivot, Idle, Inv, QueuedInv
<1>7. CASE OpenQueue
  BY <1>7 DEF OpenQueue, Inv, QueuedInv
<1>8. CASE PassOver
  BY <1>8 DEF PassOver, Inv, QueuedInv
<1>9. CASE Accept
  BY <1>9 DEF Accept, Inv, QueuedInv
<1>10. CASE Skip
  BY <1>10 DEF Skip, Inv, QueuedInv
<1>11. CASE Execute
  BY <1>11 DEF Execute, Inv, QueuedInv
<1>12. CASE EndOfQueue
  BY <1>12 DEF EndOfQueue, Inv, QueuedInv
<1>13. CASE Save
  BY <1>13 DEF Save, Close, Inv, QueuedInv
<1>14. CASE Stop
  BY <1>14 DEF Stop, Close, Inv, QueuedInv
<1> QED
  BY <1>1, <1>2, <1>3, <1>4, <1>5, <1>6, <1>7, <1>8, <1>9, <1>10, <1>11, <1>12, <1>13, <1>14
     DEF Next, Other, Sync

\* Every step keeps what a scan knows of the ids.
LEMMA ScanStep == Inv /\ Next => ScanInv'
<1> SUFFICES ASSUME Inv, Next PROVE ScanInv'
  OBVIOUS
<1> USE DEF other, here, stream, done
<1>1. CASE Create
  BY <1>1 DEF Create, Inv, ScanInv
<1>2. CASE Write
  BY <1>2 DEF Write, Inv, ScanInv
<1>3. CASE TrimUnlink
  BY <1>3 DEF TrimUnlink, Inv, ScanInv
<1>4. CASE TrimCreate
  BY <1>4 DEF TrimCreate, Inv, ScanInv
<1>5. CASE MoveAway
  BY <1>5 DEF MoveAway, Inv, ScanInv
<1>6. CASE Pivot
  BY <1>6 DEF Pivot, Inv, ScanInv
<1>7. CASE OpenQueue
  BY <1>7 DEF OpenQueue, Inv, TypeInv, ScanInv
<1>8. CASE PassOver
  BY <1>8 DEF PassOver, Fresh, Inv, TypeInv, ScanInv, Ids
<1>9. CASE Accept
  BY <1>9 DEF Accept, Returnable, Inv, TypeInv, ScanInv, Ids
<1>10. CASE Skip
  BY <1>10 DEF Skip, Inv, ScanInv
<1>11. CASE Execute
  BY <1>11 DEF Execute, Inv, ScanInv
<1>12. CASE EndOfQueue
  BY <1>12 DEF EndOfQueue, Inv, ScanInv
<1>13. CASE Save
  BY <1>13 DEF Save, Close, ScanInv
<1>14. CASE Stop
  BY <1>14 DEF Stop, Close, ScanInv
<1> QED
  BY <1>1, <1>2, <1>3, <1>4, <1>5, <1>6, <1>7, <1>8, <1>9, <1>10, <1>11, <1>12, <1>13, <1>14
     DEF Next, Other, Sync

\* Only Execute makes a run, of the id at hand, which was fresh and had not been
\* returned before.
LEMMA RunsStep == Inv /\ Next => RunsInv'
<1> SUFFICES ASSUME Inv, Next PROVE RunsInv'
  OBVIOUS
<1> USE DEF other, here, stream, done
<1>1. CASE Create
  BY <1>1 DEF Create, Inv, RunsInv
<1>2. CASE Write
  BY <1>2 DEF Write, Inv, RunsInv
<1>3. CASE TrimUnlink
  BY <1>3 DEF TrimUnlink, Inv, RunsInv
<1>4. CASE TrimCreate
  BY <1>4 DEF TrimCreate, Inv, RunsInv
<1>5. CASE MoveAway
  BY <1>5 DEF MoveAway, Inv, RunsInv
<1>6. CASE Pivot
  BY <1>6 DEF Pivot, Inv, RunsInv
<1>7. CASE OpenQueue
  BY <1>7 DEF OpenQueue, Inv, RunsInv
<1>8. CASE PassOver
  BY <1>8 DEF PassOver, Inv, RunsInv
<1>9. CASE Accept
  BY <1>9 DEF Accept, Returnable, Fresh, Inv, RunsInv
<1>10. CASE Skip
  BY <1>10 DEF Skip, Inv, RunsInv
<1>11. CASE Execute
  BY <1>11 DEF Execute, Inv, TypeInv, RunsInv
<1>12. CASE EndOfQueue
  BY <1>12 DEF EndOfQueue, Inv, RunsInv
<1>13. CASE Save
  BY <1>13 DEF Save, Close, Inv, TypeInv, ScanInv, RunsInv, Ids
<1>14. CASE Stop
  BY <1>14 DEF Stop, Close, Inv, TypeInv, RunsInv
<1> QED
  BY <1>1, <1>2, <1>3, <1>4, <1>5, <1>6, <1>7, <1>8, <1>9, <1>10, <1>11, <1>12, <1>13, <1>14
     DEF Next, Other, Sync

\* The other instance can only take from quiet; a file in it stays full, so that
\* Skip is not taken for it.
LEMMA QuietStep == Inv /\ Next => QuietInv'
<1> SUFFICES ASSUME Inv, Next PROVE QuietInv'
  OBVIOUS
<1> USE DEF other, here, stream, done
<1>1. CASE Create
  BY <1>1 DEF Create, Appears, Inv, TypeInv, QueuedInv, QuietInv, QuietImported
<1>2. CASE Write
  BY <1>2 DEF Write, Inv, QuietInv, QuietImported
<1>3. CASE TrimUnlink
  BY <1>3 DEF TrimUnlink, Gone, Inv, QuietInv, QuietImported
<1>4. CASE TrimCreate
  BY <1>4 DEF TrimCreate, Appears, Inv, QueuedInv, QuietInv, QuietImported
<1>5. CASE MoveAway
  BY <1>5 DEF MoveAway, Gone, Inv, TypeInv, QuietInv, QuietImported
<1>6. CASE Pivot
  BY <1>6 DEF Pivot, Inv, QuietInv, QuietImported
<1>7. CASE OpenQueue
  BY <1>7 DEF OpenQueue, QuietInv, QuietImported
<1>8. CASE PassOver
  BY <1>8 DEF PassOver, Fresh, Inv, QuietInv, QuietImported
<1>9. CASE Accept
  BY <1>9 DEF Accept, Inv, QuietInv, QuietImported
<1>10. CASE Skip
  BY <1>10 DEF Skip, Inv, QuietInv, QuietImported
<1>11. CASE Execute
  BY <1>11 DEF Execute, Inv, TypeInv, QuietInv, QuietImported
<1>12. CASE EndOfQueue
  BY <1>12 DEF EndOfQueue, Inv, QuietInv, QuietImported
<1>13. CASE Save
  BY <1>13 DEF Save, Close, QuietInv, QuietImported
<1>14. CASE Stop
  BY <1>14 DEF Stop, Close, QuietInv, QuietImported
<1> QED
  BY <1>1, <1>2, <1>3, <1>4, <1>5, <1>6, <1>7, <1>8, <1>9, <1>10, <1>11, <1>12, <1>13, <1>14
     DEF Next, Other, Sync

-----------------------------------------------------------------------------
(* The theorems.                                                           *)

\* The first states have no file and no scan.
LEMMA InitInv == Init => Inv
BY MaxCasesAssumption, MaxStopsAssumption DEF Init, Inv, TypeInv, QueuedInv, ScanInv, RunsInv,
   QuietInv, QuietImported, Idle

\* The invariant is inductive.
LEMMA NextInv == Inv /\ [Next]_vars => Inv'
<1>1. Inv /\ Next => Inv'
  BY TypeStep, QueuedStep, ScanStep, RunsStep, QuietStep DEF Inv
<1>2. Inv /\ UNCHANGED vars => Inv'
  BY DEF vars, other, here, stream, done, Inv, TypeInv, QueuedInv, ScanInv, RunsInv, QuietInv,
     QuietImported
<1> QED BY <1>1, <1>2

\* The invariant holds in every state, and moved is a Boolean: Zenon has to show
\* that apart from the arithmetic.
THEOREM SyncKept == Spec => [](Inv /\ moved \in BOOLEAN)
<1>1. Init => moved \in BOOLEAN
  BY Zenon DEF Init
<1>2. Inv /\ moved \in BOOLEAN /\ [Next]_vars => (moved \in BOOLEAN)'
  <2> SUFFICES ASSUME Inv, moved \in BOOLEAN, [Next]_vars PROVE moved' \in BOOLEAN
    OBVIOUS
  <2>1. moved' = moved \/ moved' = FALSE \/ moved' = (pc # "fuzz")
    BY DEF Next, Other, Sync, vars, stream, Create, Write, TrimUnlink, TrimCreate, MoveAway,
       Pivot, OpenQueue, PassOver, Accept, Skip, Execute, EndOfQueue, Save, Stop, Close, Appears
  <2> QED BY <2>1, Zenon
<1> QED BY InitInv, NextInv, <1>1, <1>2, PTL DEF Spec

\* The invariant is stronger than the types.
LEMMA InvTypes == Inv /\ moved \in BOOLEAN => TypeOK
BY DEF Inv, TypeInv, TypeOK

\* Every variable keeps its type; the number in .synced/ is an id the other
\* instance has reached.
THEOREM TypeCorrect == Spec => []TypeOK
BY SyncKept, InvTypes, PTL

\* When sync_fuzzers has read the directory to its end, every new test case that
\* was complete from opendir on has been executed, however many others were added,
\* trimmed or moved away meanwhile.
THEOREM ScanIsComplete == Spec => []QuietImported
<1>1. Inv => QuietImported
  BY DEF Inv, QuietInv
<1> QED BY <1>1, SyncKept, PTL

\* No test case is executed twice, but for scans that were stopped before the
\* number was written and for files a trim made again under a name already read.
THEOREM RepeatsAreBounded == Spec => []NoRepeats
<1>1. Inv => NoRepeats
  BY DEF Inv, RunsInv, NoRepeats
<1> QED BY <1>1, SyncKept, PTL
=============================================================================
