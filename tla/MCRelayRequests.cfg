SPECIFICATION Spec
CONSTANTS
  Publishes = {p}
  Counts = {}
  Subs = {s}
  Challenges = {x, y}
  Attempts = {a1, a2}
  Nobody = Nobody
  Rounds = 2
INVARIANTS
  BeliefSound
  NoForgottenRequest
PROPERTY
  StaleRetryHarmless
CHECK_DEADLOCK FALSE
