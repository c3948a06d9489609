SPECIFICATION FairSpec
CONSTANTS
  ann = ann
  Key = {k1, k2}
  Request <- Uploads
  Handler = {h1, h2}
  Worker = {w1}
  AckMayBeLost <- LostAcks
  None = None
INVARIANTS
  NoDanglingMetadata
  NoUntrackedBlob
PROPERTIES
  ShelfSpec
  OrphansCollected
