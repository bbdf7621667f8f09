CONSTANTS
  Users = {u1, u2}
  Ids = {r1, r2}
  MaxRuns = 2
  Ratings = {3, 4}
SPECIFICATION Spec
SYMMETRY Symmetry
INVARIANT OneRunPerTarget
PROPERTIES
  OthersUntouched
  HighRunWasReviewed
