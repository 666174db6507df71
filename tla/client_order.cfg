\* A Sync of the application overlaps one of the loop.
SPECIFICATION Spec
CONSTANTS
  a1 = a1  a2 = a2
  Apps = {a1}
  Main = a1
  Loop = Loop
  MaxChanges = 2
  MaxFails = 0
INVARIANTS SyncIsFresh
