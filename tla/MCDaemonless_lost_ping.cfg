CONSTANTS
  a = a
  p = p
  q = q
  r = r
  NoRun = NoRun
  Name <- MCName
  Proc <- TwoProcs
  Cfg <- MCCfg
  MaxNote = 0
  MaxClock = 4
  MaxRuns = 4
SPECIFICATION CronSpec
INVARIANTS
  NoFalseDown
CHECK_DEADLOCK FALSE
