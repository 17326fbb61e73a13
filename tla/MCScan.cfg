SPECIFICATION Spec
CONSTANTS
  Nil = Nil
  S = S
  Sa = Sa
  Sd = Sd
  Sh = Sh
  T = T
  c1 = c1
  c2 = c2
  Path <- MCPath
  Below <- MCBelow
  Content <- MCContent
  SizeOf <- MCSizeOf
  FirstDisk <- MCFirstDisk
  Shapes <- MCShapes
  Mounts = {S}
  Flaky = {}
  SilentWrites = FALSE
  MaxClock = 3
  ConfigChoices <- MCPlainConfig
  Commands = {"scan"}
  ScanFull = {FALSE}
  ScanOnly <- MCNoFilter
  Accidents = {"crash"}
INVARIANTS
  TypeOK
  StampTellsContent
  HistoryExplainsRows
  DeletedWasGone
  CalmScanMirrorsDisk
  AlertOncePerOutage
PROPERTIES
  OutageKeepsBaseline
