\* One evaluation that read the old store while a Sync replaced it.
SPECIFICATION Spec
CONSTANTS
  e1 = e1  e2 = e2  s1 = s1  s2 = s2  Nobody = Nobody
  Evaluators = {e1}
  Syncers = {s1}
  Buckets = 1
  Quantiles <- MCQuantiles
  MaxEvaluations = 1
  MaxSyncs = 1
INVARIANTS GaugeCurrent
CHECK_DEADLOCK FALSE
