SPECIFICATION Spec
CONSTANTS
  Objects = {g1, g2}
  Buffers = {m1, m2}
  g1 = g1
  g2 = g2
  m1 = m1
  m2 = m2
INVARIANTS ValueHeld
