CONSTANTS
  a = a
  z = z
  h = h
  i = i
  Idle = Idle
  Name <- OneName
  MaxNote = 0
  Handler <- MCHandler
  Cfg <- MCCfg
  SweepEvery = 1
  MaxClock = 4
  MaxRequests = 2
  MaxStarts = 2
  MaxBadSaves = 1
CHECK_DEADLOCK FALSE
SYMMETRY Symmetry
SPECIFICATION Spec
INVARIANTS
  TypeOK
  AlertsAccounted
  AckedKept
PROPERTIES
  ImplementsMonitor
  CaughtUpAtStart
