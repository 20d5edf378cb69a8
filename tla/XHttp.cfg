SPECIFICATION FairSpec
CONSTANTS
  Keys = {k1}
  Sessions = {s1, s2}
  Streams = {u1}
  Packets = {p1}
  MaxSessions = 1
  None = None
INVARIANTS TypeOK SlotHasOwner OpenUpstreamHasOwner
PROPERTIES TornDownLeaves LockFreesSlots IdleReaped
CHECK_DEADLOCK FALSE
