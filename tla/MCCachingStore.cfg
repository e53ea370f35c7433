SPECIFICATION Spec
CONSTANTS
  MaxUpdates = 2
  k1 = k1
  k2 = k2
  NotFound = NotFound
  Miss = Miss
  CacheOn = TRUE
  Key <- MCKey
  Item <- MCItem
  Reader = {r1}
  Upserts <- MCUpserts
  Datasets <- MCDatasets
INVARIANTS
  TypeOK Serial ItemCoherent AllCoherent AllHidesDeleted InitializedCoherent
PROPERTIES
  ImplementsSerialUpdates EventuallyFresh
\* The callers may stop asking.
CHECK_DEADLOCK FALSE
