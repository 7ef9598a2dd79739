SPECIFICATION Spec
CONSTANTS
  f1 = f1  f2 = f2  f3 = f3  h1 = h1  h2 = h2  h3 = h3
  NoThread = NoThread  NoFile = NoFile  NoInode = NoInode
  Threads = {h1, h2}
  Files = {f1, f2, f3}
  Inodes = {1, 2, 3, 4, 5, 6, 7, 8, 9}
  InodesOf <- InodesPerFile
  Inserters <- OneInserter
  Deleters = {h2}
  Cleaners = {}
  Readers = {h2}
  Size <- LargeLast
  Capacity = 2
  Aborts = FALSE
  Crashes = FALSE
INVARIANT NoSelfDeadlock
CHECK_DEADLOCK FALSE
