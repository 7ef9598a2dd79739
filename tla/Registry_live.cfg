SPECIFICATION FairSpec
CONSTANTS
  p1 = p1  p2 = p2  p3 = p3
  Peers = {p1, p2}
  RegistryWait = 3
  EdgeWait = 5
  MaxFaults = 3
  Crashes = TRUE
INVARIANTS RegistryInv
PROPERTIES DeadForgotten LiveBecomesKnown PartitionSolved
