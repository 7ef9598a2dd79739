SPECIFICATION Spec
CONSTANTS
  Kinds = {"local"}
  Lengths = {2}
  ChannelSize = 5
  CacheLimit = 4
  Faults = {}
CHECK_DEADLOCK FALSE
INVARIANT DeliveredInOrder
