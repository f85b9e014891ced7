\* Two runners made by the first Compute, three threads.
CONSTANTS
  t1 = t1  t2 = t2  t3 = t3
  Threads = {t1, t2, t3}
  Size = 2
  Options <- MCOptions
  Nobody = Nobody
  MaxComputes = 3
  MaxSets = 1
SPECIFICATION FairSpec
INVARIANT TypeOK
INVARIANT NoLostWakeup
INVARIANT EagerIsDefined
INVARIANT UpdatersPointToRunners
INVARIANT SetReachesRunners
PROPERTY NullOnlyByGarbage
PROPERTY IsPool
PROPERTY ComputeEnds
CHECK_DEADLOCK FALSE
