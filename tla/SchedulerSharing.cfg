SPECIFICATION Spec
CONSTANTS
  r1 = r1
  r2 = r2
  r3 = r3
  k1 = k1
  k2 = k2
  k3 = k3
  c1 = c1
  c2 = c2
  c3 = c3
  f = f
  NoRequest = NoRequest
  NoCluster = NoCluster
  NoPurpose = NoPurpose
  TemplateName <- NamedAfterTemplate
  HashName <- NamedAfterKey
  Requests = {r1, r2, r3}
  Keys = {k1, k2, k3}
  KeyOf <- OwnKeys
  Purposes = {"pair"}
  PurposeOf <- AllPair
  Clusters = {c1, c2, c3}
  Foreign = {f}
  Definitions <- PairOnly
  Randomized = {r3}
  RandomNames = {c3}
  Strategy = "Random"
  Preexisting = {}
  AdminDeletes = FALSE
  ClustersMayVanish = FALSE
  RequestsMayVanish = FALSE
  MaxFaults = 1
CHECK_DEADLOCK FALSE
INVARIANTS
  TypeOK
  GrantedIsHeld
  AtMostOneCluster
  WithinCapacity
  NoLeftovers
PROPERTIES
  DeletesOnlyUnused
  ImplementsAllocation
