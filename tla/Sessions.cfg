\* Three connections, two accounts, two player characters and a NonPlayer one,
\* one command in a frame.
CONSTANTS
  p1 = p1
  p2 = p2
  p3 = p3
  ann = ann
  bob = bob
  c1 = c1
  c2 = c2
  c3 = c3
  npc = npc
  Conn = {p1, p2, p3}
  Name = {ann, bob}
  Character = {c1, c2, npc}
  NonPlayer = {npc}
  None = None
  MaxBatch = 1
SPECIFICATION Spec
INVARIANTS TypeOK NoDangling CalmIsSafe
PROPERTIES UncontrolledUnloads
CHECK_DEADLOCK FALSE
