SPECIFICATION FairSpec
CONSTANTS
  p1 = p1  p2 = p2  p3 = p3  p4 = p4
  Peers = {p1, p2, p3, p4}
INVARIANTS OnePerComponent Inv
PROPERTIES SearchEnds SearchDescends ImplementsSearch
CHECK_DEADLOCK FALSE
