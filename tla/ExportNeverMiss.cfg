SPECIFICATION Spec
CONSTANTS
  obs = obs
  raw = raw
  det = det
  alr = alr
  worker = worker
  producer = producer
  None = None
  Section <- MCSection
  Order <- MCOrder
  Writer <- MCWriter
  Scripts <- MCScripts
  Limit <- Single
  MaxTime = 2
  MaxProducts = 2
INVARIANTS
  NeverMiss
