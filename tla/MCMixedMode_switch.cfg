CONSTANTS
  a = a
  h = h
  p = p
  Idle = Idle
  NoRun = NoRun
  Name <- MCName
  MaxNote = 0
  Handler <- MCHandler
  Proc <- MCProc
  Cfg <- MCCfg
  SweepEvery = 1
  MaxClock = 2
  MaxRequests = 1
  MaxStarts = 2
  MaxBadSaves = 0
  MaxRuns = 2
CHECK_DEADLOCK FALSE
SPECIFICATION MixedSpec
INVARIANTS
  OfflineContactsKept
  ServedContactsKept
