-------------------------- MODULE MCFlagRepository --------------------------
\* Instances of FlagRepository for TLC.
EXTENDS FlagRepository

CONSTANTS k1, k2, p1, p2, p3, a, b

\* A payload that ValidateFlag accepts, and one that it refuses.
CfgA == [default |-> a, variants |-> {a, b}, rules |-> {b}]
CfgBad == [default |-> a, variants |-> {b}, rules |-> {}]

MCConfigs == {CfgA, CfgBad}
=============================================================================
