SPECIFICATION Spec
CONSTANTS
  s1 = s1
  s2 = s2
  s3 = s3
  own = own
  shared = shared
  k1 = k1
  k2 = k2
  Store = {s1}
  Conn = {own}
  ConnOf <- ArgumentConn
  ClientFrom <- ArgumentClient
  Key = {k1, k2}
  Item <- MCItem
  Absent = Absent
  OK = OK
  Nil = Nil
  Error = Error
  Nothing = Nothing
  Upserts <- MCUpserts
  Datasets <- MCDatasets
  Before <- MCBefore
  UpAtStart = {own}
  MaxWrites = 3
  MaxDrops = 0
PROPERTY NeverOverwritesNewer
CHECK_DEADLOCK FALSE
