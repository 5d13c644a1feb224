CONSTANTS
  a = a
  b = b
  Name <- MCName
  Configs <- MCConfigs
  Instants <- MCInstants
  MaxNote = 1
  Notes = {2}
  Monotone = FALSE
  MaxContacts = 3
SPECIFICATION Spec
INVARIANTS
  TypeOK
  EntriesExplained
  OncePerOutage
  OutagesSettled
  FileMatchesFeed
  PrevChained
  SweepIdempotent
  SweepSpacingIrrelevant
  StatusAgrees
PROPERTIES
  DownSticks
  ImplementsAlertFeed
