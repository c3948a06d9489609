SPECIFICATION Spec
CONSTANTS
  Item = {i1, i2}
  Sprint = {s1}
  Column = {todo, done}
  Project = {p1}
  Label = {l1, l2}
  Subject = {ann, bob}
  Creator = ann
  MaxItems = 2
  MaxSprints = 2
  MaxDependencies = 1
  Wip = {0, 1}
  todo = todo
  done = done
  Late = {}
  InitColumns <- TwoColumns
  InitColumn <- TwoColumnRecords
  None = None
SYMMETRY ItemLabelSymmetry
VIEW Board
CONSTRAINT ContentStories
INVARIANTS
  NeverWedged
PROPERTIES
  RevisionsAdvance
  SaveKeepsReferences
