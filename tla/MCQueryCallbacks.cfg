SPECIFICATION Spec
CONSTANTS
  Queries = {v1, v2, n1}
  ViewQueries = {v1, v2}
  Commands = {c1, c2}
  UseCopies = FALSE
  MaxRows = 2
  v1 = v1
  v2 = v2
  n1 = n1
  c1 = c1
  c2 = c2
SYMMETRY Symmetry
INVARIANTS HandlesValid NoDanglingCallback ActiveWhileOpen
PROPERTIES StoppedIsSilent
