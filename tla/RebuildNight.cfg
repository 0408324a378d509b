SPECIFICATION FairSpec
CONSTANTS
  temp1 = temp1
  temp2 = temp2
  warn = warn
  hdr = hdr
  None = None
  Value = {temp1, temp2}
  Warning = {warn}
  Header = {hdr}
  Fields = {"condition", "almanac"}
  Depth = 3
  Stale = 2
  MaxTime = 7
  MaxHeard = 4
  MaxFaults = 1
INVARIANTS
  TypeOK
  OnlyExposedMissing
  NoDoubleCount
PROPERTIES
  RebuiltIsProjection
  HealsNightly
