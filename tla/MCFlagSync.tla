----------------------------- MODULE MCFlagSync -----------------------------
\* Instances of FlagSync for TLC.
EXTENDS FlagSync, TLC

CONSTANTS k1, k2, h1, h2, a, b

\* Two payloads: the second drops a variant that the first serves by default.
CfgA == [default |-> a, variants |-> {a, b}, rules |-> {b}]
CfgB == [default |-> b, variants |-> {b}, rules |-> {}]
CfgBad == [default |-> a, variants |-> {b}, rules |-> {}]

MCValid == {CfgA, CfgB}
MCOneValid == {CfgA}
MCWithInvalid == {CfgA, CfgBad}
AllOperations == {"create", "update", "delete"}
NoCreates == {"update", "delete"}
NoDeletes == {"create", "update"}
MCProcs == Handlers \cup {Poller, Listener}

\* Keys, handlers and the two background goroutines are interchangeable where no
\* fairness matters.
MCSymmetry ==
  Permutations(Handlers) \cup Permutations(Background) \cup Permutations(Keys)
=============================================================================
