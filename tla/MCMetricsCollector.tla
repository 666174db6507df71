------------------------- MODULE MCMetricsCollector -------------------------
\* Instances of MetricsCollector for TLC.
EXTENDS MetricsCollector, TLC

CONSTANTS e1, e2, s1, s2

MCQuantiles == <<50, 99>>
MCSymmetry == Permutations({e1, e2}) \cup Permutations({s1, s2})
=============================================================================
