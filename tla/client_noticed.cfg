CONSTANTS
  w1 = w1 w2 = w2
  Workspaces = {w1}
  LinkIdentity <- MCLinkIdentity
  MaxRevision = 1
  MaxLinks = 2
  MaxBatch = 2
  None = None
  Failed = Failed
  Unchanged = Unchanged
SPECIFICATION Watching
PROPERTIES
  ChangesAreNoticed
CHECK_DEADLOCK FALSE
