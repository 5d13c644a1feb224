CONSTANTS
  a = a
  p = p
  q = q
  r = r
  NoRun = NoRun
  Name <- MCName
  Proc <- ThreeProcs
  Cfg <- MCCfg
  MaxNote = 0
  MaxClock = 4
  MaxRuns = 3
SYMMETRY Symmetry
SPECIFICATION Spec
INVARIANTS
  TypeOK
  EntriesExplained
  NothingInvented
  SoloContactsKept
PROPERTIES
  SoloSavesAreCalls
CHECK_DEADLOCK FALSE
