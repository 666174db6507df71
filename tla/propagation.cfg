\* Four commits, so that one can be in the session, one in the channel and one
\* behind the timer; a connection or an attempt to connect and a Sync fail.
SPECIFICATION PropagationSpec
CONSTANTS
  MaxCommits = 4
  MaxDrops = 2
  MaxFails = 2
INVARIANTS PropagationTypeOK StaleExplained
PROPERTIES StoreMovesForward EventuallyStored
