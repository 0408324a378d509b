SPECIFICATION FairSpec
CONSTANTS
  obs1 = obs1
  obs2 = obs2
  warn = warn
  hdr = hdr
  temp = temp
  sky = sky
  None = None
  Text <- MCText
  Header <- MCHeader
  Field <- MCField
  Readings <- MCReadings
  Product <- MCProduct
  Narratives = {warn}
  Alike = {}
  Ratio <- MCRatio
  TextDup = 97
  TextUpdate = 75
  TextHistory = 1
  GateHistory = 2
  GateTTL = 1
  SttMaxQueue = 1
  AlertWindow = 1
  MaxTime = 0
  MaxAired = 3
  MaxLives = 2
INVARIANTS
  TypeOK
  DuplicateIsStored
  RowsHaveReports
PROPERTIES
  QueuedIsSettled
  StopMeansRestart
