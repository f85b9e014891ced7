\* Two threads of one process, cache on disk and in use, one fault.
CONSTANTS
  p1 = p1  p2 = p2  t1 = t1  t2 = t2  t3 = t3
  Threads = {t1, t2}
  Procs = {p1}
  ProcOf <- MCOneProc
  Versions = {p1, p2}
  VersionOf <- MCVersions
  Nobody = Nobody
  MaxDefs = 2
  OptionChoices <- MCDiskEmbed
  CacheUses = {TRUE}
  CrossProcessLock = TRUE
  Win24Build = TRUE
  MaxSessions = 4
  MaxFaults = 1
SPECIFICATION FairSpec
INVARIANT TornOnlyOnceSpoilt
PROPERTY ReadsBackOwnSave
PROPERTY FirstCompilationDecides
PROPERTY SessionEnds
CHECK_DEADLOCK FALSE
