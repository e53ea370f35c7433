SPECIFICATION Spec

CONSTANTS
  f1 = f1
  w1 = w1
  Flag <- MCFlag
  Segment <- MCSegment
  Waiter <- MCWaiter
  Item <- MCItem
  Absent = Absent
  None = None
  Slot = {1}
  MaxVersion = 2
  MaxErrors = 1

INVARIANTS
  IndirectPutNeverThrows

CHECK_DEADLOCK FALSE
