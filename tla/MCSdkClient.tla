---------------------------- MODULE MCSdkClient ----------------------------
\* Instances of SdkClient for TLC.
EXTENDS SdkClient

CONSTANTS a1, a2
=============================================================================
