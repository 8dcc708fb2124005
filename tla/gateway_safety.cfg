SPECIFICATION Spec
CONSTANTS
  Players = {p1}
  Rooms = {r1}
  Sockets = {s1, s2}
  Tokens = {k1, k2, k3}
  Tasks = {t1, t2}
  NoRoom = NoRoom
  NoToken = NoToken
SYMMETRY Symmetry
INVARIANTS
  TypeOK
  OneConnectionPerPlayer
  TokensRedeemedOnce
  LiveSocketsCount
  JoinedSocketsAreFed
