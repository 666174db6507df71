--------------------------- MODULE MCPropagation ---------------------------
\* Instances of Propagation for TLC.
EXTENDS Propagation
=============================================================================
