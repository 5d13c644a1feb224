CONSTANTS
  a = a
  h = h
  p = p
  Idle = Idle
  NoRun = NoRun
  Name <- MCName
  MaxNote = 0
  Handler <- MCHandler
  Proc <- MCProc
  Cfg <- MCCfg
  SweepEvery = 1
  MaxClock = 3
  MaxRequests = 1
  MaxStarts = 1
  MaxBadSaves = 0
  MaxRuns = 1
CHECK_DEADLOCK FALSE
SPECIFICATION MixedSpec
INVARIANTS
  HeartbeatsRecorded
