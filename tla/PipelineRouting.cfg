SPECIFICATION Spec
CONSTANTS
  obs1 = obs1
  obs2 = obs2
  warn = warn
  hdr = hdr
  temp = temp
  sky = sky
  None = None
  Text <- MCText
  Header <- MCHeader
  Field <- MCField
  Readings <- NoReadings
  Product <- MCProduct
  Narratives = {warn}
  Alike <- MCAlike
  Ratio <- MCRatio
  TextDup = 97
  TextUpdate = 75
  TextHistory = 1
  GateHistory = 2
  GateTTL = 1
  SttMaxQueue = 1
  AlertWindow = 2
  MaxTime = 3
  MaxAired = 3
  MaxLives = 1
INVARIANTS
  RoutineBacklogBounded
  SegmentsConserved
  AirOrderKept
  NarrativeNotShed
