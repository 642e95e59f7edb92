SPECIFICATION Spec
CONSTANTS
  Urls = {u, v}
  Relays = {r1, r2, r3}
  Callers = {c1, c2}
  Watched = {c1}
  Nobody = Nobody
  PinnedUrls = {}
  MaxRelays = 1
  EnableReconnect = FALSE
  Limit = 1
  Cooldown = 1
  Faulty = {u}
  MaxTimers = 2
INVARIANT
  ConnectionReuse
