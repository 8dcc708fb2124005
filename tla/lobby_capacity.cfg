SPECIFICATION Spec
CONSTANTS
  Players = {p1, p2, p3}
  Rooms = {r1}
  Requests = {q1, q2}
  MaxPlayers = 2
  Entrants = {}
  MaxMarked = 2
SYMMETRY Symmetry
INVARIANTS
  Capacity
CHECK_DEADLOCK FALSE
