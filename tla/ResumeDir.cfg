SPECIFICATION FairSpec
CONSTANTS
  Cases = {a, b, c}
  MaxCrashes = 3
INVARIANTS
  TypeOK
  NothingLost
  ResumedWhole
  MarksKept
PROPERTIES
  ResumeEnds
