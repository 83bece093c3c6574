SPECIFICATION StartupSpec
CONSTANTS
  MaxEvents = 2
  Executors = {e1}
  MaxEngineCrashes = 1
  MaxFwkCrashes = 1
  MaxProcDeaths = 1
  MaxHdiLosses = 1
INVARIANTS PoolKnownToEngine SuccessorKept
PROPERTIES EnrolledIsServed UnusedIsUnloaded EventuallyRegistered
\* with the faults used up and everything served or stopped nothing is left to do
CHECK_DEADLOCK FALSE
