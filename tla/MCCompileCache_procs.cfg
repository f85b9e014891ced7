\* Two processes, both modes, one fault.
CONSTANTS
  p1 = p1  p2 = p2  t1 = t1  t2 = t2  t3 = t3
  Threads = {t1, t2, t3}
  Procs = {p1, p2}
  ProcOf <- MCTwoProcs
  Versions = {p1, p2}
  VersionOf <- MCVersions
  Nobody = Nobody
  MaxDefs = 1
  OptionChoices <- MCModes
  CacheUses = {TRUE}
  CrossProcessLock = TRUE
  Win24Build = TRUE
  MaxSessions = 3
  MaxFaults = 1
SYMMETRY MCSymmetry
VIEW MCView
SPECIFICATION Spec
INVARIANT TypeOK
INVARIANT LockedSectionExclusive
INVARIANT OverlapOnlyAfterUnlock
INVARIANT InMemoryStaysOffDisk
INVARIANT OwnSettingsRestored
CHECK_DEADLOCK FALSE
