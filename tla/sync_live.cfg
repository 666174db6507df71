\* One crash and one failed statement, anywhere; everybody waits for the only
\* connection.
SPECIFICATION SyncSpec
CONSTANTS
  k1 = k1  k2 = k2  h1 = h1  h2 = h2  a = a  b = b
  Poller = Poller  Listener = Listener  NoProc = NoProc
  NoConfig = NoConfig  NoKey = NoKey
  Names = {a, b}
  Procs <- MCProcs
  Keys = {k1}
  Configs <- MCOneValid
  Handlers = {h1, h2}
  Operations <- NoCreates
  PoolSize = 1
  MaxWrites = 1
  MaxFaults = 1
  MaxBoots = 2
INVARIANT NoCircularWait
PROPERTIES EventuallyConsistent RequestsAnswered
