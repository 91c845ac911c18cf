\* Up to two actions of two ticks.
CONSTANTS
  Cost = 2
  MaxIssued = 2
SPECIFICATION Spec
PROPERTIES BusyEnds
CHECK_DEADLOCK FALSE
