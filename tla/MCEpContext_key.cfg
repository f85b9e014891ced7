\* One encrypted model, nothing damaged.
CONSTANTS
  key = key  s1 = s1  s2 = s2  fileA = fileA  json = json  fileX = fileX  fileZ = fileZ
  Sessions = {s1}
  FileNames = {fileA, json, fileX, fileZ}
  None = None
  NOps = 2
  FilesOf <- MCFilesOf
  Json = json
  FileOrder <- MCFileOrder
  SharedOrder <- MCSharedOrder
  Keys = {key}
  Nobody = Nobody
  SaverModes = {TRUE, FALSE}
  LoaderModes = {TRUE, FALSE}
  MayBeCut = FALSE
  MaxCrashes = 0
SPECIFICATION Spec
INVARIANT OpsHaveTheKey
CHECK_DEADLOCK FALSE
