SPECIFICATION Spec
CONSTANTS
  A = A  B = B
  c1 = c1  c2 = c2
  Account = {A, B}
  AccountOf <- MCAccountOf
  Client = {c1, c2}
  Feed <- MCFeed
  BufferSize = 2
SYMMETRY ClientSymmetry
INVARIANTS
  TypeOK
  NoGapWhileConnected
  WrittenInOrder
  CloseReasonIsTrue
CHECK_DEADLOCK FALSE
