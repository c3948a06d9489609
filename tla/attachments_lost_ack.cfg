SPECIFICATION Spec
CONSTANTS
  ann = ann
  Key = {k1, k2}
  Request <- OneUpload
  Handler = {h1}
  Worker = {w1}
  AckMayBeLost <- OneUpload
  None = None
INVARIANTS
  ListedFilesHaveBytes
