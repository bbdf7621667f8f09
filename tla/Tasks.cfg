CONSTANTS
  Users = {u1, u2}
  Refs = {sample, person}
  Outputs = {sample}
  MaxDate = 2
  SyncMayFail = TRUE
SPECIFICATION Spec
SYMMETRY Symmetry
INVARIANTS
  Timeline
  TrailEndsAtStatus
  FinishedOnlyIfDone
  
PROPERTIES
  DoneGate
  Lifecycle
  TrailIsChain
