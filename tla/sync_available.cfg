\* Updates only, while the poller loads.
SPECIFICATION SyncSpec
CONSTANTS
  k1 = k1  k2 = k2  h1 = h1  h2 = h2  a = a  b = b
  Poller = Poller  Listener = Listener  NoProc = NoProc
  NoConfig = NoConfig  NoKey = NoKey
  Names = {a, b}
  Procs <- MCProcs
  Keys = {k1}
  Configs <- MCValid
  Handlers = {h1}
  Operations <- NoDeletes
  PoolSize = 2
  MaxWrites = 2
  MaxFaults = 0
  MaxBoots = 1
PROPERTIES FlagStaysAvailable
