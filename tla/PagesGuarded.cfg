CONSTANTS
  Pages = {p1}
  Clients = {c1, c2}
  MaxRevisions = 5
  KeepNewest = 1
  Handlers <- GuardedHandlers
SPECIFICATION Spec
SYMMETRY Symmetry
INVARIANTS
  OneCurrent
PROPERTIES
  LinearHistory
  ImplementsRegister
