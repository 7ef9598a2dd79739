SPECIFICATION Spec
CONSTANTS
  Kinds = {"edge"}
  Lengths = {1, 2}
  ChannelSize = 5
  CacheLimit = 4
  Faults = {"source"}
CHECK_DEADLOCK FALSE
INVARIANT NoPanic
