SPECIFICATION Spec
CONSTANTS
  A = A
  B = B
  Path <- MCPath
  Below <- MCBelow
  Process = {t, u}
  Timers = {t}
  Nobody = Nobody
  NoFile = NoFile
  ConfigChoices <- MCConfigs
  Commands = {"add", "rm"}
  Accidents = {}
  MaxEvents = 1
PROPERTIES
  RunsDoNotUndoEachOther
