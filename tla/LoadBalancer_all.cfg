SPECIFICATION FairSpec
CONSTANTS
  e1 = e1  e2 = e2  r1 = r1  r2 = r2  r3 = r3
  NoEdge = NoEdge
  Edges = {e1, e2}
  Requests = {r1, r2}
  FirstNumbers = {0}
  Weight = 50
  TimeToCheck = 2
  Threshold = 1
  Punctual = {e1}
  HeartbeatPeriod = 1
  BalancerCrashes = TRUE
  Fragile = {e2}
INVARIANTS MapsAgree LoadNotOverstated SilenceIsNoticed BalancerInv
PROPERTIES PunctualStayKnown LoadsDecay
