SPECIFICATION Spec
CONSTANTS
  Keys = {k1}
  Sessions = {s1, s2}
  Streams = {u1}
  Packets = {}
  MaxSessions = 1
  None = None
INVARIANTS KickedStopsRelaying
CHECK_DEADLOCK FALSE
