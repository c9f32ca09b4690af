\* The reservation of a command that still executes after a reconfiguration.
SPECIFICATION Spec
CONSTANTS
  Commands = {x}
  Computer = Computer
  Nobody = Nobody
  MaxPending = 1
  MaxControls = 1
  MaxStreams = 2
  MaxBoots = 2
CHECK_DEADLOCK FALSE
INVARIANTS
  ExecutionKeepsReservation
