SPECIFICATION Spec
CONSTANTS
  Nil = Nil
  S = S
  Sa = Sa
  Sd = Sd
  Sh = Sh
  T = T
  c1 = c1
  c2 = c2
  Path <- MCPath
  Below <- MCBelow
  Content <- MCContent
  SizeOf <- MCSizeOf
  FirstDisk <- MCFirstDisk
  Shapes <- MCNoShapes
  Mounts = {}
  Flaky = {}
  SilentWrites = FALSE
  MaxClock = 2
  ConfigChoices <- MCDirExcluded
  Commands = {"scan"}
  ScanFull = {FALSE}
  ScanOnly <- MCNoFilter
  Accidents = {}
INVARIANTS
  ExcludedFilesAreForgotten
