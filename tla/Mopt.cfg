SPECIFICATION FairSpec
CONSTANTS
  SwarmNum = 2
  PeriodPilot = 1
  PeriodCore = 1
  StageMaxes = {1}
  HavocMaxMult = 1
  SpliceCycles = {2}
  MaxHits = 4
INVARIANTS
  FitnessIsOwn
  CoreUsesBest
  BuffersFreed
PROPERTIES
  ModulesTakeTurns
