SPECIFICATION Spec
CONSTANTS
  today = today
  tonight = tonight
  thursday = thursday
  home = home
  misheard = misheard
  None = None
  Readouts <- MCReadouts
  Period <- MCPeriod
  Night <- MCNight
  Pred <- MCPred
  Area <- MCArea
  BootArea = home
  MaxLen = 2
  StalePasses = 1
  MaxClauses = 3
  MaxLost = 1
  MaxDeaths = 1
INVARIANTS
  TypeOK
  ServedIsVoted
  RestartKeepsForecast
  StoppedValuesAgeOut
PROPERTIES
  OwnPeriod
