SPECIFICATION Spec
CONSTANTS
  Nil = Nil
  S = S
  Sa = Sa
  Sd = Sd
  Sh = Sh
  T = T
  c1 = c1
  c2 = c2
  Path <- MCPath
  Below <- MCBelow
  Content <- MCContent
  SizeOf <- MCSizeOf
  FirstDisk <- MCFirstDisk
  Shapes <- MCLinkShapes
  Mounts = {}
  Flaky = {Sd, Sh, T}
  SilentWrites = TRUE
  MaxClock = 2
  ConfigChoices <- MCExcludeConfigs
  Commands = {"scan"}
  ScanFull = {TRUE}
  ScanOnly <- MCNoFilter
  Accidents = {}
INVARIANTS
  HistoryExplainsRows
  DeletedWasGone
  CalmScanMirrorsDisk
  AlertOncePerOutage
  CalmScanKnowsOutages
