SPECIFICATION FairSpec
CONSTANTS
  NumRegions = 2
  Ips = {a1, a2}
  Caps = {0, 1}
  Confirm = 1
  Linger = 1
  MaxMoves = 4
  MaxTrouble = 1
  Unset = Unset
PROPERTIES HoldersStay OverCapEnds LockIsLifted
