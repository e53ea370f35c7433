SPECIFICATION Spec
CONSTANTS
  f1 = f1
  f2 = f2
  s1 = s1
  Flag = {f1, f2}
  Segment = {s1}
  Absent = Absent
  Item <- MCItem
  Upserts <- MCUpserts
  Deletions <- MCDeletions
  DataSets <- MCDataSets
  StoreKinds = {"memory", "persistent"}
  MaxUpdates = 3
INVARIANTS TypeOK TrackerAgrees ChangesAnnounced 
\* The callers may stop.
CHECK_DEADLOCK FALSE
