SPECIFICATION FairSpec
CONSTANTS
  workload = workload
  mcp = mcp
  visitor = visitor
  Registrations = {mcp}
  Own = {}
  Timed = {}
  Switches = FALSE
  MaxEvents = 1
CHECK_DEADLOCK FALSE
PROPERTY EventuallyReady
