SPECIFICATION Spec
CONSTANTS
  Clients = {c1, c2}
  Stopper = Stopper
  Nobody = Nobody
  MaxWaiting = 2
  MaxStates = 1
  MaxControls = 3
  MaxScreen = 0
SYMMETRY ClientSymmetry
CHECK_DEADLOCK FALSE
INVARIANT OneLiveControl
