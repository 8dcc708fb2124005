SPECIFICATION Spec
CONSTANTS
  Players = {p1}
  Requests = {q1, q2, q3}
  Amounts = {1, 2}
  StartingCoins = 1
  MaxInt = 3
  XpPerLevel = 2
  MaxEntries = 3
  MaxAwarded = 4
  Nobody = Nobody
SYMMETRY Symmetry
INVARIANTS
  TypeOK
  LedgerAccounts
  BoardAgrees
  NothingMinted
