SPECIFICATION FairSpec
CONSTANTS
  r1 = r1
  r2 = r2
  r3 = r3
  k1 = k1
  k2 = k2
  k3 = k3
  c1 = c1
  c2 = c2
  c3 = c3
  f = f
  NoRequest = NoRequest
  NoCluster = NoCluster
  NoPurpose = NoPurpose
  TemplateName <- NamedAfterTemplate
  HashName <- NamedAfterKey
  Requests = {r1, r2}
  Keys = {k1}
  KeyOf <- OneKey
  Purposes = {"exclusive", "unlimited"}
  PurposeOf <- UnlimitedThenExclusive
  Clusters = {c1, c2}
  Foreign = {f}
  Definitions <- ExclusiveAndUnlimited
  Randomized = {}
  RandomNames = {}
  Strategy = "Balanced"
  Preexisting = {c2}
  AdminDeletes = TRUE
  ClustersMayVanish = TRUE
  RequestsMayVanish = TRUE
  MaxFaults = 1
CHECK_DEADLOCK FALSE
INVARIANTS
  AtMostOneCluster
  ReferenceIsKept
PROPERTIES
  EventuallyGranted
  EventuallyGone
