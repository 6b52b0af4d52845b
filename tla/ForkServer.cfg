SPECIFICATION FairSpec
CONSTANTS
  MaxCycles = 2
  MaxRuns = 4
INVARIANTS
  TypeOK
  QuietBetweenRuns
  TraceIsThisRun
PROPERTIES
  ImplementsExecution
  ResumedIsAlive
  RunEnds
  StopEnds
