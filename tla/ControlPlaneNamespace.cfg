SPECIFICATION FairSpec
CONSTANTS
  oidc = oidc
  service1 = service1
  Providers = {oidc}
  Services = {service1}
  Primary = Primary
  MCPFinalizer = MCPFinalizer
  MaxEdits = 0
  MaxFaults = 1
CHECK_DEADLOCK FALSE
PROPERTY NotStuck
