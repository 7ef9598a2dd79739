SPECIFICATION FairSpec
CONSTANTS
  p1 = p1  p2 = p2  p3 = p3  d1 = d1  d2 = d2  x1 = x1  i1 = i1
  Nobody = Nobody  S3 = S3
  Peers = {p1, p2, p3}
  Downloads = {d1}
  Deletions = {x1}
  Edge <- OneEach
  Id <- SameId
  Neighbours <- Complete
  RequestTTL = 2
  MaxContactable = 2
  MaxCopies = 2
  MaxFaults = 1
INVARIANTS SharingInv ActsOnce
PROPERTIES DownloadsEnd FloodsEnd
CHECK_DEADLOCK FALSE
