SPECIFICATION FairSpec
CONSTANTS
  Urls = {u, v}
  Relays = {r1, r2}
  Callers = {c1, c2}
  Watched = {c1}
  Nobody = Nobody
  PinnedUrls = {}
  MaxRelays = 1
  EnableReconnect = TRUE
  Limit = 0
  Cooldown = 1
  Faulty = {u}
  MaxTimers = 2
INVARIANTS
  TypeOK
  PoolOwnsSockets
  SuspendedStaysDown
PROPERTIES
  SuspensionLifts
  CallersSettle
