\* Three versions of the script after the first, two threads.
CONSTANTS
  Vm = {1, 2}
  Reload = 2
  MaxEdits = 4
  None = None
SPECIFICATION HostSpec
INVARIANTS OldIsSeen
PROPERTIES EditTakesEffect
CHECK_DEADLOCK FALSE
