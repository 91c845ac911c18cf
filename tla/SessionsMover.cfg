\* Two connections that log in to one account.
CONSTANTS
  p1 = p1
  p2 = p2
  p3 = p3
  ann = ann
  bob = bob
  c1 = c1
  c2 = c2
  c3 = c3
  npc = npc
  Conn = {p1, p2}
  Name = {ann}
  Character = {c1, c2}
  NonPlayer = {}
  None = None
  MaxBatch = 1
SPECIFICATION Spec
INVARIANTS MoverHasPuppet
CHECK_DEADLOCK FALSE
