SPECIFICATION Spec
CONSTANTS
  Ops = {o1, o2, s1}
  StatsOps = {s1}
  Contexts = {b1, b2, k1}
  CallbackContexts = {k1}
  Queries = {q1}
  Word = 8
  Uses = {"endure"}
  o1 = o1
  o2 = o2
  s1 = s1
  b1 = b1
  b2 = b2
  q1 = q1
  k1 = k1
SYMMETRY Symmetry
INVARIANTS RemainingExact BatchCounts NoDanglingCookie
PROPERTIES WaitCompletes KeepsPromise
