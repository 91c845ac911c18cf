CONSTANTS
  town = town
  Entity = {e1, e2, e3}
  MapEntity = {m1, m2}
  Name = {town}
  NoName = nowhere
  Local <- SomeLocals
  Base = 1
  Extra = 1
  None = None
  MaxCommands = 7
SPECIFICATION Spec
SYMMETRY Interchangeable
INVARIANTS NoDeadChildren CellsMatch IndexExact PlacedUnderParent NamesLead
CHECK_DEADLOCK FALSE
