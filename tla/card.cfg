CONSTANTS
  f1 = f1  f2 = f2  l1 = l1  l2 = l2
  PageLimit = 2  MaxComments = 5  MaxTexts = 2  MaxSends = 3  MaxPanels = 2  NoPage = NoPage
  Files = {f1, f2}  Limit = 2  MaxIds = 2  MaxKeys = 2  MaxBoards = 1  Unloaded = Unloaded
  Texts = {1, 2}  Links = {l1, l2}  Elsewhere = {l1}
  MaxRevision = 3  MaxEditors = 2  MaxAttempts = 2  None = None
SPECIFICATION CardSpec
CONSTRAINT CardBound
SYMMETRY SameFiles
INVARIANTS
  SentOnce
  CommentsAreContiguous
  ListFitsBoard
  RetryIsRecognised
PROPERTIES
  SavedAsShown
  LinksBringInputBack
CHECK_DEADLOCK FALSE
