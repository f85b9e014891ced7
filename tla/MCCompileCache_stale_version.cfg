\* Two processes built from different commits.
CONSTANTS
  p1 = p1  p2 = p2  t1 = t1  t2 = t2  t3 = t3
  Threads = {t1, t3}
  Procs = {p1, p2}
  ProcOf <- MCTwoProcs
  Versions = {p1, p2}
  VersionOf <- MCVersions
  Nobody = Nobody
  MaxDefs = 1
  OptionChoices <- MCDisk
  CacheUses = {TRUE}
  CrossProcessLock = TRUE
  Win24Build = TRUE
  MaxSessions = 2
  MaxFaults = 0
SPECIFICATION Spec
INVARIANT StaleVersionNotUsed
CHECK_DEADLOCK FALSE
