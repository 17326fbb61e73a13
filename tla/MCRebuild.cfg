SPECIFICATION Spec
CONSTANTS
  Nil = Nil
  S = S
  Sa = Sa
  Sd = Sd
  Sh = Sh
  T = T
  c1 = c1
  c2 = c2
  Path <- MCPath
  Below <- MCBelow
  Content <- MCContent
  SizeOf <- MCSizeOf
  FirstDisk <- MCFirstDisk
  Shapes <- MCShapes
  Mounts = {}
  Flaky = {}
  SilentWrites = FALSE
  MaxClock = 4
  ConfigChoices <- MCOnlyT
  Commands = {"scan", "add"}
  ScanFull = {FALSE}
  ScanOnly <- MCNoFilter
  Accidents = {"lost database"}
INVARIANTS
  BaselineReportsNothing
