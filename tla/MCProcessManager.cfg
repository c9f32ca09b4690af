\* Two calls compete for one place.
SPECIFICATION Spec
CONSTANTS
  Runs = {r1, r2}
  MaxSessions = 1
SYMMETRY RunSymmetry
CHECK_DEADLOCK FALSE
INVARIANTS
  TableInv
  LiveProcessIsReachable
  CloseLeavesNothing
PROPERTIES
  OnlyCompletedSessionsLeave
