SPECIFICATION FairSpec
CONSTANTS
  p1 = p1  p2 = p2
  Event = {1, 2, 3}
  Malformed = {}
  Nameless = {3}
  Partition = {p1, p2}
  Topic <- MCShortTopic
  Copy = {n1, n2}
  MaxRebalances = 1
  MaxFaults = 1
PROPERTY EveryEventNotified
CHECK_DEADLOCK FALSE
