SPECIFICATION Spec
CONSTANTS
  Parts = 2
  MaxRead = 5
  MaxMessages = 3
INVARIANT
  MalformedIsMalformed
CHECK_DEADLOCK FALSE
