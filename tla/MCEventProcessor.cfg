SPECIFICATION Spec
CONSTANTS
  u1 = u1
  u2 = u2
  c1 = c1
  NoUser = NoUser
  User = {u1, u2}
  Counter = {c1}
  Event <- MCEvent
  Capacity = 2
  UserKeysCapacity = 1
  InlineUsers = FALSE
  MaxEvents = 3
  MaxPosts = 2
INVARIANTS
  TypeOK AtMostOnce ResolvedMeansDelivered DropsReportedOnce UsersAnnounced
  Conserved
PROPERTIES
  ShutdownIsFinal EveryPostSettles
\* The callers may stop sending.
CHECK_DEADLOCK FALSE
