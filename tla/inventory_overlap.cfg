SPECIFICATION Spec
CONSTANTS
  Keys = {k1, k2}
  Slots = {s1, s2}
  Requests = {q1, q2}
  Amounts = {1, 2}
  Capacity = 1
  MaxQuantity = 2
SYMMETRY Symmetry
INVARIANTS
  TypeOK
  OverfillBound
  NoMoreThanGranted
  WornWasGranted
