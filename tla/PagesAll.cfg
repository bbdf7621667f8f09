CONSTANTS
  Pages = {p1, p2}
  Clients = {c1, c2}
  MaxRevisions = 3
  KeepNewest = 1
  Handlers <- EveryHandler
SPECIFICATION Spec
SYMMETRY Symmetry
INVARIANTS
  RevisionGraph
  ShownWasInstalled
PROPERTIES
  HistoryKept
  NewestKept
