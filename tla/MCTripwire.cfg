SPECIFICATION Spec
CONSTANTS
  A = A
  B = B
  Path <- MCPath
  Below <- MCBelow
  Process = {t}
  Timers = {t}
  Nobody = Nobody
  NoFile = NoFile
  ConfigChoices <- MCConfigs
  Commands = {}
  Accidents = {"crash", "lost database"}
  MaxEvents = 2
PROPERTIES
  LossIsReported
