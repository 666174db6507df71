\* Three callers, one key, two connections.
SPECIFICATION Spec
CONSTANTS
  k1 = k1  k2 = k2  p1 = p1  p2 = p2  p3 = p3  a = a  b = b
  Keys = {k1}
  Names = {a, b}
  Configs <- MCConfigs
  NoConfig = NoConfig
  NoKey = NoKey
  Procs = {p1, p2, p3}
  PoolSize = 2
  MaxWrites = 2
  MaxFaults = 1
INVARIANTS TypeOK DecidedOnCurrentRow
PROPERTIES VersionAdvances
