SPECIFICATION FairSpec
CONSTANTS
  a = a
  g = g
  Servers <- MCServers
  KindOf <- MCKindOf
  Sessions <- TwoUsers
  Deployments <- LimitAndSameServer
INVARIANTS
  CountersExact
  SerialOpensBounded
PROPERTY SessionTornDown
