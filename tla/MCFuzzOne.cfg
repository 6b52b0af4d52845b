SPECIFICATION FairSpec
CONSTANTS
  Bytes <- Letters
  UserExtras <- User
  Builtin <- Integer
  UseAutoExtras = 2
  MaxAutoExtras = 4
  Contents <- Files
  Dictionaries <- Session
  Sums = {1, 2}
  TrimStartSteps = 2
  TrimEndSteps = 4
  TrimMinBytes = 1
  MinAutoExtra = 2
  MaxAutoExtra = 3
  EffBlock = 2
  EffMinLen = 6
  EffMaxPerc = 70
INVARIANTS
  TrimSound
  TokensAreRuns
  EffectorMapSound
  OneTokenAtATime
PROPERTIES
  DictionaryKept
  EntryEnds
