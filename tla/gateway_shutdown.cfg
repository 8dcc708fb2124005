SPECIFICATION FairShutdownSpec
CONSTANTS
  Players = {p1}
  Rooms = {r1}
  Sockets = {s1, s2}
  Tokens = {k1}
  Tasks = {t1}
  NoRoom = NoRoom
  NoToken = NoToken
PROPERTIES
  GhostsFade
  ShutdownEnds
