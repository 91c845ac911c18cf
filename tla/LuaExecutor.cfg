CONSTANTS
  t1 = t1
  t2 = t2
  t3 = t3
  Thread <- MCThread
  FrameSize = 2
  MaxValues = 1
  Fuel = 16
  FuelPerCallback = 8
  FuelPerSeqStep = 4
  FuelPerStep = 4
  Instructions = {1, 64}
  MaxFrames = 3
  MaxWork = 9
SYMMETRY MCSymmetry
SPECIFICATION Spec
INVARIANTS ThreadsSound
PROPERTIES ControlPasses
CHECK_DEADLOCK FALSE
