CONSTANTS
  a = a
  z = z
  h = h
  i = i
  Idle = Idle
  Name <- TwoNames
  MaxNote = 0
  Handler <- MCHandler
  Cfg <- MCCfg
  SweepEvery = 1
  MaxClock = 4
  MaxRequests = 2
  MaxStarts = 1
  MaxBadSaves = 0
CHECK_DEADLOCK FALSE
SPECIFICATION HangSpec
PROPERTIES
  SilenceNoticed
  AlertsSettle
  RequestsAnswered
  ShutdownEnds
