SPECIFICATION Spec
CONSTANTS
  Inputs = {i1, i2, i3}
  Edges = {e1, e2}
  KeepUniqueHang = 2
  KeepUniqueCrash = 2
  TmoutLimit = 2
SYMMETRY Symmetry
INVARIANTS
  TypeOK
  CrashesKept
  FaultsUnique
  FaultsGenuine
PROPERTIES
  GivenUpWhenStuck
