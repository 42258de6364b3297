SPECIFICATION Spec
CONSTANTS
  Ops = {o1, o2, o3}
  StatsOps = {}
  Contexts = {b1}
  CallbackContexts = {}
  Queries = {}
  Word = 4
  Uses = {"run"}
  o1 = o1
  o2 = o2
  o3 = o3
  b1 = b1
CHECK_DEADLOCK FALSE
PROPERTIES WaitCompletes
