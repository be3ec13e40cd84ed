SPECIFICATION Spec
CONSTANTS
  A = A  B = B  C = C
  p1 = p1  p2 = p2
  Event <- MCEvent
  AccountOf <- MCAccountOf
  Transaction <- MCTransaction
  Partition = {p1, p2}
  PartitionOf <- MCPartitionOf
  Copy = {r1, r2}
  BatchSize = 2
  MaxFaults = 1
INVARIANTS
  OneBatchAtATime
