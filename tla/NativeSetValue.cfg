\* An observation, an act and one trouble.
SPECIFICATION Spec
CONSTANTS
  Looks = {look}
  Acts = {act}
  MaxStates = 1
  MaxTroubles = 1
  MaxWaiting = 1
  MaxWorkers = 1
  MaxEvents = 3
  Resetter = Resetter
  Closer = Closer
  NoCall = NoCall
  NoRequest = NoRequest
CHECK_DEADLOCK FALSE
INVARIANT StoppedIsSettled
