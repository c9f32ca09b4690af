\* One command and native computer use across reconnections, reconfigurations and
\* restarts of the extension: safety and liveness, no symmetry.
SPECIFICATION FairSpec
CONSTANTS
  Commands = {x}
  Computer = Computer
  Nobody = Nobody
  MaxPending = 1
  MaxControls = 1
  MaxStreams = 3
  MaxBoots = 2
CHECK_DEADLOCK FALSE
INVARIANTS
  OneResponsePerCall
  BridgeInv
  VisibleWorkHoldsDesktop
  AcknowledgedWorkIsOver
  NoStaleHandle
PROPERTIES
  NoReplay
  BridgeSettles
