SPECIFICATION Spec
CONSTANTS
  None = None
  Programmes <- Audible
  Crest = 200
  CapDb = 20
  BoostDb = 100
  VadFloor <- MCFloor
  PEAK_CLIP <- MCClip
  RMS_LOW <- MCLow
  PEAK_HEADROOM <- MCHeadroom
  SILENT_MIN = 5
  STALE_MIN = 5
  Period = 3
  MaxRetries = 2
  MaxBacklog = 1
  MaxSamples = 1
  MaxDrift = 1
  Patience = 20
INVARIANTS
  DeafRecovers
