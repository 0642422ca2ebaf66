SPECIFICATION FairSpec
CONSTANTS
  oidc = oidc
  service1 = service1
  Providers = {oidc}
  Services = {service1}
  Primary = Primary
  MCPFinalizer = MCPFinalizer
  MaxEdits = 2
  MaxFaults = 1
CHECK_DEADLOCK FALSE
INVARIANTS
  TypeOK
  NothingLeftBehind
  SettledIsAligned
PROPERTIES
  PrimaryLast
  AccessOutlivesServices
  EventuallyReady
  EventuallyGone
