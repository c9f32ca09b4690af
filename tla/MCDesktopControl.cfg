\* Two clients, local Stop, shutdown and a full queue: safety, refinement and liveness,
\* no symmetry.
SPECIFICATION FairSpec
CONSTANTS
  Clients = {c1, c2}
  Stopper = Stopper
  Nobody = Nobody
  MaxWaiting = 1
  MaxStates = 1
  MaxControls = 2
  MaxScreen = 2
CHECK_DEADLOCK FALSE
INVARIANTS
  DesktopInv
  WorkSettlesBeforeReuse
PROPERTIES
  ActsOnFreshObservation
  ImplementsLease
  DesktopSettles
