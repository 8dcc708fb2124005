SPECIFICATION Spec
CONSTANTS
  Users = {u1, u2}
  Tokens = {k1, k2, k3}
  Requests = {q1, q2, q3}
  NoToken = NoToken
SYMMETRY Symmetry
INVARIANTS
  TypeOK
  RotatedOnce
  OneActivePerFamily
PROPERTIES
  EndedForGood
