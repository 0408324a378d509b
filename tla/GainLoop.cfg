SPECIFICATION Spec
CONSTANTS
  None = None
  Programmes <- MCProgrammes
  Crest = 200
  CapDb = 20
  BoostDb = 100
  VadFloor <- MCFloor
  PEAK_CLIP <- MCClip
  RMS_LOW <- MCLow
  PEAK_HEADROOM <- MCHeadroom
  SILENT_MIN = 3
  STALE_MIN = 3
  Period = 2
  MaxRetries = 2
  MaxBacklog = 1
  MaxSamples = 3
  MaxDrift = 1
  Patience = 0
INVARIANTS
  TypeOK
  NoHunting
PROPERTIES
  GivesUpOnBudget
