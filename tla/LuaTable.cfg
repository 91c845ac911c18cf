CONSTANTS
  MaxInt = 5
  Others = {a}
  one = one
  fraction = fraction
  Floats = {one, fraction}
  IntOf <- MCIntOf
  NaN = NaN
  Value = {v}
  Nil = Nil
  BadKey = BadKey
  FirstArray = 2
  Buckets = {2, 4}
  MaxSeen = 4
  MaxCalls = 4
SPECIFICATION Spec
INVARIANTS OnePlace LengthIsBorder WalkIsExact
CHECK_DEADLOCK FALSE
PROPERTY IsMap
