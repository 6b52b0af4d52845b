SPECIFICATION Spec
CONSTANTS
  MaxEntries = 3
  MapSize = 2
  Behaviours <- Stable
  FavFactors = {1, 2}
  PointerScores = {0, 1}
  CalChances = 3
  SkipThreshold = 1
  Nil = Nil
INVARIANTS
  TypeOK
  FavoredIsFuzzable
  FavoredCover
  PendingCountersExact
  CalibratedBytesWon
