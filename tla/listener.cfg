\* Four commits fill the session, the channel and the timer at once; two
\* failures break a connection and an attempt to replace it.
SPECIFICATION Spec
CONSTANTS
  MaxCommits = 4
  MaxDrops = 2
INVARIANTS TypeOK NoLostWakeup AtMostOneSyncPerCommit ConnectionClosed
PROPERTIES Refreshed Reconnects Stops
