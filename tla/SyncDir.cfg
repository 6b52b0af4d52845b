SPECIFICATION FairSpec
CONSTANTS
  MaxCases = 2
  MaxStops = 2
INVARIANTS
  TypeOK
  QuietImported
  NoRepeats
PROPERTIES
  ScanEnds
