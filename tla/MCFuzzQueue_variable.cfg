SPECIFICATION FairSpec
CONSTANTS
  MaxEntries = 2
  MapSize = 2
  Behaviours <- Variable
  FavFactors = {1, 2}
  PointerScores = {0}
  CalChances = 3
  SkipThreshold = 1
  Nil = Nil
PROPERTIES
  FavoredGetsFuzzed
INVARIANTS
  TcRefExact
