SPECIFICATION Spec
CONSTANTS
  MaxSeq = 3
  Posts <- MCRepeats
  Size <- MCSize
  MaxEntries = 2
  MaxBytes = 4
  None = None
INVARIANTS TypeOK EachStreamIsPrefix NothingLost CompleteStream BufferCapped
CHECK_DEADLOCK FALSE
