SPECIFICATION FairSpec
CONSTANTS
  A = A
  B = B
  Path <- MCPath
  Below <- MCBelow
  Process = {t, u}
  Timers = {t}
  Nobody = Nobody
  NoFile = NoFile
  ConfigChoices <- MCConfigs
  Commands = {"scan", "add", "rm", "init", "list"}
  Accidents = {"crash", "failed step", "lost database", "lost config",
               "loss during a run", "edit during a run"}
  MaxEvents = 3
INVARIANTS
  TypeOK
  SchemaOnce
PROPERTIES
  ActsSerially
  MissingConfigIsRefused
  EventuallyAgrees
