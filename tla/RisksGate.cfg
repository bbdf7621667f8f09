CONSTANTS
  Users = {u1, u2}
  Ids = {r1}
  MaxRuns = 1
  Ratings = {3, 4}
SPECIFICATION Spec
SYMMETRY Symmetry
PROPERTY SignOffGate
