SPECIFICATION Spec
CONSTANTS
  Ops = {o1, o2}
  StatsOps = {}
  Contexts = {}
  CallbackContexts = {}
  Queries = {}
  Word = 4
  Uses = {"run"}
  o1 = o1
  o2 = o2
INVARIANTS SyncStatusSet
