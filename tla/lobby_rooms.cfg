SPECIFICATION Spec
CONSTANTS
  Players = {p1, p2}
  Rooms = {r1, r2}
  Requests = {q1, q2}
  MaxPlayers = 2
  Entrants = {p1, p2}
  MaxMarked = 1
SYMMETRY Symmetry
INVARIANTS
  TypeOK
  OneOpenRoom
PROPERTIES
  EntrantsAreMembers
CHECK_DEADLOCK FALSE
