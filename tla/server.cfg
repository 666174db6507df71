\* Two replicas migrate at once; the life of the first is followed to its end,
\* with three starts in all and two faults.
SPECIFICATION LifecycleSpec
CONSTANTS
  r1 = r1  r2 = r2
  Replicas = {r1, r2}
  Followed = {r1}
  Files = 2
  MaxStarts = 3
  MaxFaults = 2
INVARIANTS LifecycleTypeOK SchemaSound SomebodyGetsOn CleanExit
PROPERTIES ShutdownEnds
\* A program that has ended, or was never started, may stay so.
CHECK_DEADLOCK FALSE
