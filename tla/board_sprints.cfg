SPECIFICATION Spec
CONSTANTS
  Item = {i1, i2, i3}
  Sprint = {s1, s2, s3}
  Column = {todo, done}
  Project = {}
  Label = {}
  Subject = {ann}
  Creator = ann
  MaxItems = 2
  MaxSprints = 2
  MaxDependencies = 0
  Wip = {0}
  todo = todo
  done = done
  Late = {i3, s3}
  InitColumns <- TwoColumns
  InitColumn <- TwoColumnRecords
  None = None
SYMMETRY ItemSprintSymmetry
VIEW Board
CONSTRAINT SprintStories
INVARIANTS
  ClosureMatchesScope
  LiveWorkWithinLimits
PROPERTIES
  ClosedHistoryFrozen
  ReopenRestoresScope
