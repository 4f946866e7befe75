SPECIFICATION Spec
CONSTANTS
  Package = {p1, p2}
  Client = {c1, c2}
  MaxGeneration = 3
  MaxOperation = 2
  None = None
SYMMETRY Symmetry
INVARIANTS TypeOK RemovalsSettled ListIsTrue NeverStuck
CHECK_DEADLOCK FALSE
