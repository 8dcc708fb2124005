SPECIFICATION Spec
CONSTANTS
  Users = {u1}
  Tokens = {k1, k2}
  Requests = {q1, q2}
  NoToken = NoToken
SYMMETRY Symmetry
INVARIANTS
  ReuseRevokesFamily
