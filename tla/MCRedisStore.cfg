SPECIFICATION Spec
CONSTANTS
  s1 = s1
  s2 = s2
  s3 = s3
  own = own
  shared = shared
  k1 = k1
  k2 = k2
  Store = {s1, s2, s3}
  Conn = {own, shared}
  ConnOf <- MCConnOf
  ClientFrom <- MCClientFrom
  Key = {k1, k2}
  Item <- MCItem
  Absent = Absent
  OK = OK
  Nil = Nil
  Error = Error
  Nothing = Nothing
  Upserts <- MCUpserts
  Datasets <- MCDatasets
  Before <- MCBefore
  UpAtStart = {shared}
  MaxWrites = 3
  MaxDrops = 1
INVARIANTS TypeOK Guarded
PROPERTIES ImplementsVersionedStore EveryWriteCallsBack
\* The writes of a behaviour are bounded.
CHECK_DEADLOCK FALSE
