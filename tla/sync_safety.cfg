\* Two writers, the poller and the listener over two flags with two payloads, so that
\* a load may mix them into one that does not compile.
SPECIFICATION SyncSpec
CONSTANTS
  k1 = k1  k2 = k2  h1 = h1  h2 = h2  a = a  b = b
  Poller = Poller  Listener = Listener  NoProc = NoProc
  NoConfig = NoConfig  NoKey = NoKey
  Names = {a, b}
  Procs <- MCProcs
  Keys = {k1, k2}
  Configs <- MCValid
  Handlers = {h1, h2}
  Operations <- AllOperations
  PoolSize = 2
  MaxWrites = 2
  MaxFaults = 0
  MaxBoots = 1
SYMMETRY MCSymmetry
INVARIANTS SyncTypeOK AckedWriteVisible RefreshOwed
PROPERTIES InstalledInOrder ImplementsReplica
