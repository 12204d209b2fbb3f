SPECIFICATION ControlSpec
CONSTANTS
  MaxNode = 2
  MaxSnapshot = 2
  MaxGeneration = 2
  Keep = 1
INVARIANT RefusedIsNotDispatched
CHECK_DEADLOCK FALSE
