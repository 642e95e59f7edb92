SPECIFICATION FairSpec
CONSTANTS
  Conns = {c1, c2, c3}
  Subs = {s1, s2}
  Reqs = {r1}
  Nobody = Nobody
  Threw = Threw
  BackoffLen = 2
INVARIANTS
  TypeOK
  ConnectionOwned
  SubsServed
  NoRequestOutlivesSocket
  StopQuiesces
  NoOrphanSocket
  NeverStranded
PROPERTIES
  AttemptSettles
  DeadPeerDetected
CHECK_DEADLOCK FALSE
