CONSTANTS
  w1 = w1 w2 = w2
  Workspaces = {w1, w2}
  LinkIdentity <- MCLinkIdentity
  MaxRevision = 2
  MaxLinks = 2
  MaxBatch = 2
  None = None
  Failed = Failed
  Unchanged = Unchanged
SPECIFICATION Spec
CONSTRAINT Stories
INVARIANTS
  TypeOK
  NothingCrossesWorkspaces
  ValidatorDescribesBoard
  SequenceKeepsItsRevision
  PlacementsAreCommitted
PROPERTIES
  NothingMovesUnderWork
