SPECIFICATION FairSpec
CONSTANTS
  a = a b = b
  Links = {l1}
  Tunnels = {t1, t2}
  Ips = {a, b}
  Locks <- MCDeviceLocks
  Limits = {0}
  Caps = {0, 1}
  MaxBatch = 1
  MaxChunk = 1
  MaxUsed = 1
INVARIANTS LockKicksOutsiders
PROPERTIES KickedLeaves DevicesGrowWithinCap
CHECK_DEADLOCK FALSE
