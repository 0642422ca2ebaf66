SPECIFICATION FairSpec
CONSTANTS
  MaxEngagements = 2
  MaxEvents = 1
CHECK_DEADLOCK FALSE
INVARIANTS
  TypeOK
  KnownWhileEngaged
PROPERTIES
  RevokedBeforeReleased
  PlatformFirst
  OrdersStayConnected
  EventuallyServed
  EventuallyRemoved
  EventuallyFinalized
