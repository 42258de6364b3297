SPECIFICATION Spec
CONSTANTS
  EndureObjs = {e1}
  ObserveObjs = {o1, o2}
  EndureInners = {ei1}
  ObserveInners = {oi1, oi2}
  Cmds = {c1, c2}
  StatsOps = {x1}
  Servers = {s1, s2}
  Errors = {"temporary", "timeout"}
  Word = 16
  e1 = e1
  o1 = o1
  o2 = o2
  ei1 = ei1
  oi1 = oi1
  oi2 = oi2
  c1 = c1
  c2 = c2
  x1 = x1
  s1 = s1
  s2 = s2
SYMMETRY Symmetry
INVARIANTS OwnedOnce EndureCounts CountsBalanced SuccessIsComplete
PROPERTIES WaitCompletes FirstErrorKept ContextsHandedOn EnduresComplete
