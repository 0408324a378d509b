SPECIFICATION Spec
CONSTANTS
  muncie = muncie
  lima = lima
  champaign = champaign
  lyma = lyma
  lime = lime
  they = they
  west = west
  calm = calm
  None = None
  Segments <- MCSegments
  City <- MCCity
  Primary = muncie
  Garble <- MCGarble
  Folds <- MCFolds
  Slot <- MCSlot
  Corrections <- MCCorrections
  SpeedOf <- MCSpeedOf
  PeerMin = 3
  PeerMaxDev = 30
  MaxLen <- MCMaxLen
  Stale = 1
  PruneAfter = 1
  MaxTime = 5
  MaxHeard = 3
  MaxFaults = 1
INVARIANTS
  TypeOK
  SightingsAreAirings
  NewestSurvives
  RecordedWasAired
  WindAgrees
CHECK_DEADLOCK FALSE
