SPECIFICATION ServingSpec
CONSTANTS
  Connections = {r1, r2}
  Issuers <- MCIssuers
  Unstable <- MCUnstable
  Tokens <- MCTokens
  Policies <- MCPolicies
  Traffic <- MCTraffic
  NoToken = NoToken
  Nobody = Nobody
  Unset = Unset
  Broken = Broken
  ReadyTTL = 1
  ReadyTimeout = 1
  ci = ci
  other = other
  alice = alice
INVARIANTS
  ServingTypeOK
  OnlyEntitledAct
  OutagesAreForgotten
PROPERTIES
  ReadyIsRecent
  BucketOutlivesRequests
  ShutdownEnds
  LocksAreReleased
