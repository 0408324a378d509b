SPECIFICATION Spec
CONSTANTS
  HeartbeatStale = 1
  AudioSilent = 2
  NovelStale = 2
  SttWedged = 1
  ReadingsStale = 2
  WedgedQueue = 0
  MaxQueue = 1
  FlushTicks = 1
  MaxTime = 3
  MaxSegments = 2
  MaxUpsets = 1
  None = None
  Empty = Empty
  Torn = Torn
INVARIANTS
  TypeOK
  OkIsTrue
  WedgedIsLoud
  HeardIsNotDown
CHECK_DEADLOCK FALSE
