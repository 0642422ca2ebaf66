SPECIFICATION FairSpec
CONSTANTS
  Deployments = {"d1", "d2"}
  MaxEvents = 3
CONSTRAINT RegularOrGoing
CHECK_DEADLOCK FALSE
INVARIANTS
  TypeOK
  HeldWhileReleased
PROPERTIES
  AccessOutlivesReleases
  
  
  EventuallyReleased
