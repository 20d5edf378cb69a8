SPECIFICATION Spec
CONSTANTS
  NumLinks = 2
  Limits = {2}
  Edits = {"enable"}
  MaxUsed = 1
PROPERTIES ReEnableSticks
