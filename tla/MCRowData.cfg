SPECIFICATION RowDataSpec
CONSTANTS
  Objects = {r1, r2, r3, g1}
  Rows = {r1, r2, r3}
  Buffers = {m1, m2}
  Blocks = {b1, b2}
  r1 = r1
  r2 = r2
  r3 = r3
  g1 = g1
  m1 = m1
  m2 = m2
  b1 = b1
  b2 = b2
SYMMETRY Symmetry
INVARIANTS TypeOK SharersCounted ValueAlive NothingLeaks RowsReadable
PROPERTIES DocumentsAreValues ValuesShared
