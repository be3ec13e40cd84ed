SPECIFICATION FairSpec
CONSTANTS
  A = A  B = B
  c1 = c1  c2 = c2
  Account = {A, B}
  AccountOf <- MCAccountOf
  Client = {c1, c2}
  Feed <- MCShortFeed
  BufferSize = 1
PROPERTIES
  DisconnectedLeaves
  EveryMessageReaches
CHECK_DEADLOCK FALSE
