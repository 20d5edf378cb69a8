SPECIFICATION Spec
CONSTANTS
  a = a b = b
  Links = {l1}
  Tunnels = {t1, t2}
  Ips = {a}
  Locks <- MCQuotaLocks
  Limits = {0, 3}
  Caps = {0}
  MaxBatch = 3
  MaxChunk = 2
  MaxUsed = 4
SYMMETRY TunnelSymmetry
INVARIANTS TypeOK UnbilledBelowBatch CutoffBelowBatch
CHECK_DEADLOCK FALSE
