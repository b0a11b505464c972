\* Two users (the sending thread is one), three connections, capacity 1: it grows twice.
SPECIFICATION Spec
CONSTANTS
  u1 = u1
  u2 = u2
  b1 = b1
  b2 = b2
  Users = {u1, u2}
  Sender = u1
  MaxClients = 3
  StartCapacity = 1
  Blocks = {b1, b2}
INVARIANTS
  InsideCapacity
  PointersValid
PROPERTIES
  TableSpec
