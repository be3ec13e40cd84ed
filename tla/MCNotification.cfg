SPECIFICATION Spec
CONSTANTS
  p1 = p1  p2 = p2
  Event = {1, 2, 3}
  Malformed = {3}
  Nameless = {}
  Partition = {p1, p2}
  Topic <- MCTopic
  Copy = {n1, n2}
  MaxRebalances = 1
  MaxFaults = 2
SYMMETRY CopySymmetry
INVARIANTS
  TypeOK
  CommittedIsNotified
  NotifiedInOrder
  RepeatsNeedFaults
PROPERTIES
  ImplementsDelivery
CHECK_DEADLOCK FALSE
