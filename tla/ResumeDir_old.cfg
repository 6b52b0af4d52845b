SPECIFICATION Spec
CONSTANTS
  Cases = {a, b, c}
  MaxCrashes = 3
INVARIANTS
  OldResumeWhole
