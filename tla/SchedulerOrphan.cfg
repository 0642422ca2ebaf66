SPECIFICATION Spec
CONSTANTS
  r1 = r1
  r2 = r2
  r3 = r3
  k1 = k1
  k2 = k2
  k3 = k3
  c1 = c1
  c2 = c2
  c3 = c3
  f = f
  NoRequest = NoRequest
  NoCluster = NoCluster
  NoPurpose = NoPurpose
  TemplateName <- NamedAfterTemplate
  HashName <- NamedAfterKey
  Requests = {r1, r2, r3}
  Keys = {k1, k2}
  KeyOf <- ReusedKey
  Purposes = {"exclusive"}
  PurposeOf <- AllExclusive
  Clusters = {c1, c2}
  Foreign = {f}
  Definitions <- ExclusiveOnly
  Randomized = {}
  RandomNames = {}
  Strategy = "Balanced"
  Preexisting = {}
  AdminDeletes = FALSE
  ClustersMayVanish = FALSE
  RequestsMayVanish = FALSE
  MaxFaults = 1
CHECK_DEADLOCK FALSE
INVARIANT LastRequestDeletesCluster
