SPECIFICATION Spec
CONSTANTS
  h2 = h2
  b = b
  c = c
  Handles = {h1, h2}
  Events = {b}
  Valid = {b}
  At <- MCAt
  Known <- MCKnown
  LastSecond = 1
  Nobody = Nobody
INVARIANTS
  RegistryOwnsHandles
PROPERTIES
  NoReqLeaks
CHECK_DEADLOCK FALSE
