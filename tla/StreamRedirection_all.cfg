SPECIFICATION FairSpec
CONSTANTS
  Kinds = {"upload", "edge", "s3", "local"}
  Lengths = {0, 1, 2, 4, 5, 7}
  ChannelSize = 5
  CacheLimit = 4
  Faults = {"source", "sink", "cache"}
CHECK_DEADLOCK FALSE
INVARIANTS SuccessIsWhole CachedIsWhole CacheNeverFull TransferInv
PROPERTIES HandlerReplies TransferEnds ImplementsTransfer
