SPECIFICATION FairSpec
CONSTANTS
  u1 = u1
  a1 = a1
  Users = {u1}
  Addresses = {a1}
  Keys <- UserAndAddress
  Limit <- ConnectLimit
  Window <- ConnectWindow
  Resends = 1
  Sockets = {s1, s2}
  AccessTtl = 2
  RefreshTtl = 3
  OneSecret = TRUE
INVARIANTS
  TypeOK
  AdmittedPerWindow
  LogoutTakesHold
PROPERTIES
  LetInAgain
