SPECIFICATION Spec
CONSTANTS
  h1 = h1
  h2 = h2
  Header = {h1, h2}
  PadFrames = 1
  MinSilenceFrames = 2
  MaxSegFrames = 4
  MinSpeechFrames = 3
  BufferFrames = 5
  DetectFrames = 2
  SilenceFrames = 2
  RecentRaw = 2
  MaxFrames = 9
SYMMETRY HeaderSymmetry
INVARIANTS
  TypeOK
  SpeechIsKept
  HeadersAreRaised
CHECK_DEADLOCK FALSE
