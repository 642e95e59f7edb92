SPECIFICATION SSpec
CONSTANTS
  A = A
  B = B
  Nothing = Nothing
  Events <- MCEvents
  Batches <- MCBatches
  Removals <- MCRemovals
  Bounds <- MCBounds
  Legacy <- MCLegacy
  Careful = TRUE
  WritesAbort = {"put"}
  MaxTombstones = Nothing
  MaxWatermarks = 0
INVARIANTS
  CacheFaithful
  AddressRowsExact
  DeletedNeverServed
  SqliteAgrees
PROPERTY
  ImplementsMemoryStore
CHECK_DEADLOCK FALSE
