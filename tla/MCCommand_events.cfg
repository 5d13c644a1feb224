CONSTANTS
  Text <- MCText
  Lasts <- MCLasts
  GoodName <- MCGoodName
  DefaultSweep = 4
  DefaultGrace = 3
  DefaultTimeout = 3
  NoConfig = NoConfig
  NoEvent = NoEvent
  NoDelivery = NoDelivery
  MaxClock = 6
  MaxLines = 4
  Inputs <- MCInputs
CHECK_DEADLOCK FALSE
SPECIFICATION FairSpec
INVARIANTS
  EachTriedOnce
  BoundedIfNoneLingers
  ExitTellsWhatHappened
  ReadsExactly
PROPERTIES
  LoadsExactly
  Ends
