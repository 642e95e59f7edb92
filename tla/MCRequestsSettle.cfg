SPECIFICATION FairSpec
CONSTANTS
  Publishes = {p}
  Counts = {c}
  Subs = {}
  Challenges = {x, y}
  Attempts = {a1, a2}
  Nobody = Nobody
  Rounds = 2
PROPERTY
  RequestsSettle
CHECK_DEADLOCK FALSE
