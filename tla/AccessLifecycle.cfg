SPECIFICATION FairSpec
CONSTANTS
  workload = workload
  mcp = mcp
  visitor = visitor
  Registrations = {workload}
  Own = {workload}
  Timed = {visitor}
  Switches = TRUE
  MaxEvents = 3
CONSTRAINT Apart
CHECK_DEADLOCK FALSE
INVARIANTS
  TypeOK
  NothingLeftBehind
PROPERTIES
  ReadyMeansCurrent
  ClusterOutlivesAccess
  GrantStays
  EventuallyReadyUnlessMissed
  EventuallyGone
  EventuallyExpired
