SPECIFICATION Spec
CONSTANTS
  MaxSeq = 3
  Posts <- MCOnce
  Size <- MCSize
  MaxEntries = 2
  MaxBytes = 2
  None = None
PROPERTIES OverflowOnlyWhenFull
CHECK_DEADLOCK FALSE
