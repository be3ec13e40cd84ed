SPECIFICATION FairSpec
CONSTANTS
  Program = {"api", "relay", "notification"}
  Request = {r1, r2, r3}
INVARIANTS
  TypeOK
  CleanExitAnswersAll
  DroppedOnlyWhenLate
PROPERTIES
  NoHalfProcess
CHECK_DEADLOCK FALSE
