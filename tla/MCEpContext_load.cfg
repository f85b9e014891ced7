\* Two sessions, every combination of modes, any damage to the archive.
CONSTANTS
  key = key  s1 = s1  s2 = s2  fileA = fileA  json = json  fileX = fileX  fileZ = fileZ
  Sessions = {s1, s2}
  FileNames = {fileA, json, fileX, fileZ}
  None = None
  NOps = 2
  FilesOf <- MCFilesOf
  Json = json
  FileOrder <- MCFileOrder
  SharedOrder <- MCSharedOrder
  Keys = {}
  Nobody = Nobody
  SaverModes = {TRUE, FALSE}
  LoaderModes = {TRUE, FALSE}
  MayBeCut = TRUE
  MaxCrashes = 1
SPECIFICATION FairSpec
INVARIANT TypeOK
INVARIANT UndefinedOnlyOutOfMemory
INVARIANT OpsFindTheirFiles
PROPERTY TornOnlyDuringUntar
PROPERTY LoadEnds
CHECK_DEADLOCK FALSE
