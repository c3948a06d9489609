CONSTANTS
  w1 = w1 w2 = w2 i1 = i1 i2 = i2 p1 = p1 p2 = p2 m1 = m1 m2 = m2
  g1 = g1 g2 = g2 l1 = l1 l2 = l2 l3 = l3 a1 = a1 a2 = a2
  d1 = d1 d2 = d2 x1 = x1 x2 = x2
  Workspaces = {w1}
  Items = {i1}
  Projects = {p1}
  Targets = {m1}
  Instances = {g1}
  ProjectOf <- MCProjectOf
  Ids = {l1}
  Runs = {1, 2, 3}
  Attempts = {a1, a2}
  Keys = {}
  Deliveries = {}
  Receivers = {}
  Events = {"edit"}
  MaxVersion = 2
  None = None
  Failed = Failed
SPECIFICATION FairSpec
PROPERTIES
  ChangesAreObserved
