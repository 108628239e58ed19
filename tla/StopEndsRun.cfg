CONSTANTS
  Clients = {c1}
  Accepts = 1
  CounterSize = 8
SPECIFICATION Spec
PROPERTY StopEndsRun
CHECK_DEADLOCK FALSE
