SPECIFICATION Spec
CONSTANTS
  workload = workload
  mcp = mcp
  visitor = visitor
  Registrations = {workload}
  Own = {workload}
  Timed = {}
  Switches = TRUE
  MaxEvents = 2
CHECK_DEADLOCK FALSE
PROPERTY ReadyMeansAccess
