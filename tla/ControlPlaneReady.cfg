SPECIFICATION Spec
CONSTANTS
  oidc = oidc
  service1 = service1
  Providers = {oidc}
  Services = {service1}
  Primary = Primary
  MCPFinalizer = MCPFinalizer
  MaxEdits = 2
  MaxFaults = 0
CHECK_DEADLOCK FALSE
INVARIANT ReadyMeansAccess
