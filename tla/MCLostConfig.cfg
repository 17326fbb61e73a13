SPECIFICATION Spec
CONSTANTS
  A = A
  B = B
  Path <- MCPath
  Below <- MCBelow
  Process = {t}
  Timers = {t}
  Nobody = Nobody
  NoFile = NoFile
  ConfigChoices <- MCConfigs
  Commands = {}
  Accidents = {"lost config", "loss during a run"}
  MaxEvents = 1
PROPERTIES
  MissingConfigDropsNothing
