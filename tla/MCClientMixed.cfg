\* Behaviours end where a response would be dispatched through the cookie of
\* a destroyed handler, so deadlock is not checked.
SPECIFICATION Spec
CONSTANTS
  Ops = {o1, o2, s1}
  StatsOps = {s1}
  Contexts = {b1, b2, k1}
  CallbackContexts = {k1}
  Queries = {}
  Word = 4
  Uses = {"run", "endure", "callback_stats"}
  o1 = o1
  o2 = o2
  s1 = s1
  b1 = b1
  b2 = b2
  k1 = k1
SYMMETRY Symmetry
CHECK_DEADLOCK FALSE
INVARIANTS TypeOK RemainingDrift
PROPERTIES LoneCallsAnswered CountedWaitsComplete
