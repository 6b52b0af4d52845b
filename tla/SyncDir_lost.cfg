SPECIFICATION Spec
CONSTANTS
  MaxCases = 2
  MaxStops = 1
INVARIANTS
  EveryCaseImported
