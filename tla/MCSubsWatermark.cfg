SPECIFICATION Spec
CONSTANTS
  h2 = h2
  b = b
  c = c
  Handles = {h1}
  Events = {a, b, c, forged}
  Valid = {a, b, c}
  At <- MCAt
  Known <- MCKnown
  LastSecond = 2
  Nobody = Nobody
INVARIANTS
  NoFreshEventLost
PROPERTIES
  RepeatsOnlyBehindWatermark
CHECK_DEADLOCK FALSE
