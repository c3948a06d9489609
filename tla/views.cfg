CONSTANTS
  Boards <- MCBoards
  Pieces <- MCPieces
  AddressesOpened <- MCOpened
  NamesChanged = {"project"}
  ScopesChosen = {"s"}
  MaxEntries = 3
  MaxChanges = 1
  Queries = {"red"}
  ListFilters <- MCFilters
  ListScopes = {"s", "backlog"}
  AddressesTravelled <- MCTravelled
  MaxRefreshes = 1
  Cards = {"A", "B", "C"}
  Columns = {"todo", "done"}
  Limits <- MCLimits
  DoneColumns = {"done"}
  Dependencies <- MCDependencies
  Scoped = {"B", "C"}
  None = None  End = End
SPECIFICATION MCSpec
CONSTRAINT ViewsBound
INVARIANTS
  AddressIsShown
  ShownIsCurrent
  SelectionIsShown
  CountsMatchTheView
  PayloadSuffices
  DropsLand
PROPERTIES
  TraversalRestores
