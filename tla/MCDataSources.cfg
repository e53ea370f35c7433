SPECIFICATION Spec

CONSTANTS
  f1 = f1
  w1 = w1
  Flag <- MCFlag
  Segment <- MCSegment
  Waiter <- MCWaiter
  Item <- MCItem
  Absent = Absent
  None = None
  Slot = {1, 2}
  MaxVersion = 3
  MaxErrors = 2

INVARIANTS
  TypeOK
  ReadyAfterInit
  InSync
  PollNeverGoesBack
  WaitersSettled

PROPERTIES
  ClosedStartsNothing
  WaitersAnswered
  EventuallyInSync

CHECK_DEADLOCK FALSE
