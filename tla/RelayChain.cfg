SPECIFICATION FairSpec
CONSTANTS
  MaxHops = 2
  MaxFrames = 2
  MaxLost = 1
INVARIANT RefusalIsTold
PROPERTIES TunnelIsPipes LeavingReachesCore EndReachesClient
CHECK_DEADLOCK FALSE
