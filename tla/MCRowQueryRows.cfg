SPECIFICATION FairRowSpec
CONSTANTS
  Ops = {o1}
  StatsOps = {}
  Contexts = {k1}
  CallbackContexts = {k1}
  Queries = {v1, n1}
  ViewQueries = {v1}
  MaxRows = 2
  IterateFailed = FALSE
  Word = 2
  Uses = {"endure"}
  o1 = o1
  k1 = k1
  v1 = v1
  n1 = n1
INVARIANTS NoDanglingQuery Incremental AwaitsAnswer
PROPERTIES SyncAnswered StreamsRows IterationEnds
