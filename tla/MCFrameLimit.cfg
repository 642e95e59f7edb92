SPECIFICATION Spec
CONSTANTS
  Modes = {"sync"}
  Entries = {e1, e2, e3, e4}
  LastItem = 5
  Buckets = 2
  Threshold = 3
  ClientLimit = 3
  RelayLimit = 4
  MaxRounds = 8
  BatchSize = 2
  Refused = {3}
  Requests = {r1, s1, hs, ha}
  Switches = {s1, hs}
  HandshakeSwitch = hs
  HandshakeAsk = ha
  Calls = {c1, c2, c3}
  Keys = {k1, k2}
  MaxBatch = 2
  MaxClears = 1
  LastVersion = 1
  NoCall = NoCall
  NoKey = NoKey
  Contents <- MCStored
  Filters <- MCFilters
  Absent = Absent
  MaxCursors = 3
  Chunk = 2
  Lists <- MCLists
  Pubkeys = {A, B, C}
  Discovery <- MCDiscovery
  Preferred = {2}
  MaxRelays = 2
  MaxPubkeys = 2
  MaxAsked = 2
  A = A
  B = B
  C = C
INVARIANTS
  ReconcileExact
CHECK_DEADLOCK FALSE
