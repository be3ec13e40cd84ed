SPECIFICATION Spec
CONSTANTS
  Program = {"notification"}
  Request = {r1, r2}
INVARIANT ConnectionsClosed
CHECK_DEADLOCK FALSE
