SPECIFICATION FairSpec
CONSTANTS
  Nil = Nil
  S = S
  Sa = Sa
  Sd = Sd
  Sh = Sh
  T = T
  c1 = c1
  c2 = c2
  Path <- MCPath
  Below <- MCBelow
  Content <- MCContent
  SizeOf <- MCSizeOf
  FirstDisk <- MCFirstDisk
  Shapes <- MCLedgerShapes
  Mounts = {}
  Flaky = {}
  SilentWrites = FALSE
  MaxClock = 3
  ConfigChoices <- MCLedgerConfigs
  Commands = {"scan", "add", "rm", "init", "clear"}
  ScanFull = {FALSE}
  ScanOnly <- MCNoFilter
  Accidents = {"crash", "lost database", "edit during a run"}
INVARIANTS
  OneOwner
  HistorySurvives
  QuietDiskQuietHistory
PROPERTIES
  EventuallySettled
  ImplementsLedger
