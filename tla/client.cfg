\* Two application goroutines beside the loop; three contents of the server.
SPECIFICATION Spec
CONSTANTS
  a1 = a1  a2 = a2
  Apps = {a1, a2}
  Main = a1
  Loop = Loop
  MaxChanges = 3
  MaxFails = 2
INVARIANTS TypeOK FilledBeforeUse BackgroundQuiet
PROPERTIES CloseReturns EventuallyFresh
