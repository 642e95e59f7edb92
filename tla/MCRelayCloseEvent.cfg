SPECIFICATION Spec
CONSTANTS
  Conns = {c1, c2}
  Subs = {s1}
  Reqs = {r1}
  Nobody = Nobody
  Threw = Threw
  BackoffLen = 2
INVARIANTS
  CloseEventIsTerminal
CHECK_DEADLOCK FALSE
