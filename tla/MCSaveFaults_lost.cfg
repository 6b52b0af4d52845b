SPECIFICATION Spec
CONSTANTS
  Inputs = {i1, i2}
  Edges = {e1, e2}
  KeepUniqueHang = 2
  KeepUniqueCrash = 2
  TmoutLimit = 1
SYMMETRY Symmetry
INVARIANTS
  GenuineHangsKept
