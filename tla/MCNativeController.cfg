\* An observation and two acts of any kind with no trouble, or two of the three with one.
SPECIFICATION Spec
CONSTANTS
  Looks = {look}
  Acts = {a1, a2}
  MaxStates = 1
  MaxTroubles = 1
  MaxWaiting = 2
  MaxWorkers = 2
  MaxEvents = 3
  Resetter = Resetter
  Closer = Closer
  NoCall = NoCall
  NoRequest = NoRequest
SYMMETRY CallSymmetry
CONSTRAINT FewEvents
CHECK_DEADLOCK FALSE
INVARIANTS
  NativeInv
  HeldIsKnown
  NothingLeftDown
  ReturnedIsOver
  StoppedIsQuiet
