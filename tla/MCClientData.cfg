SPECIFICATION MCSpec
CONSTANTS
  A = A
  B = B
  QueryWatch = QueryWatch
  AddrWatch = AddrWatch
  Nothing = Nothing
  Events <- MCEvents
  Watches = {QueryWatch, AddrWatch}
  Target <- MCTarget
  MaxEvents = 1
  MaxWatermarks = 2
  MaxTombstones = 1
  Hydrations <- MCHydrations
  Removals <- MCRemovals
  LastEvent = 2
  MaxTime = 3
  Ahead = FALSE
  MaxTrouble = 1
  Modes = {"own", "other", "feed"}
CONSTRAINT SmallEnough
INVARIANTS
  SnapshotFresh
  NoMissedNotification
  NewestHolds
  FeedSafe
PROPERTY
  EvictionBounds
CHECK_DEADLOCK FALSE
