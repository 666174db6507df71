------------------------- MODULE MCRealtimeListener -------------------------
\* Instances of RealtimeListener for TLC.
EXTENDS RealtimeListener
=============================================================================
