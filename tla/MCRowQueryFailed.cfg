SPECIFICATION FairRowSpec
CONSTANTS
  Ops = {}
  StatsOps = {}
  Contexts = {}
  CallbackContexts = {}
  Queries = {n1}
  ViewQueries = {}
  MaxRows = 1
  IterateFailed = TRUE
  Word = 2
  Uses = {}
  n1 = n1
PROPERTIES IterationEnds
