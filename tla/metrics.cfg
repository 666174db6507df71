\* Two evaluations at once, two goroutines that sync, one scrape at a time.
SPECIFICATION Spec
CONSTANTS
  e1 = e1  e2 = e2  s1 = s1  s2 = s2  Nobody = Nobody
  Evaluators = {e1, e2}
  Syncers = {s1, s2}
  Buckets = 1
  Quantiles <- MCQuantiles
  MaxEvaluations = 2
  MaxSyncs = 2
SYMMETRY MCSymmetry
INVARIANTS TypeOK GenerationCounts SnapshotConsistent QuantileIsReal
PROPERTIES GenerationAdvances
\* The counters reach their bounds.
CHECK_DEADLOCK FALSE
