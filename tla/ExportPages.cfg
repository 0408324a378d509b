SPECIFICATION FairSpec
CONSTANTS
  obs = obs
  raw = raw
  det = det
  alr = alr
  worker = worker
  producer = producer
  None = None
  Section <- NoObs
  Order <- NoObsOrder
  Writer <- MCWriter
  Scripts <- NoObsScripts
  Limit <- AlertsLess
  MaxTime = 2
  MaxProducts = 3
INVARIANTS
  TypeOK
  OnlyLateRowsMissed
PROPERTIES
  CatchesUp
  IsSyncFeed
  DrainedMeansAll
  MorePagesAdvance
