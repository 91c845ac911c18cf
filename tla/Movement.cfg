\* Up to four actions, each paid for in two ticks.
CONSTANTS
  Cost = 2
  MaxIssued = 4
SPECIFICATION Spec
INVARIANTS NothingLost PaidFirst BusyIsDoing
PROPERTIES QueueSpec ActionsEnd
CHECK_DEADLOCK FALSE
