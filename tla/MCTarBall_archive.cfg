\* Any archive of up to three files, one of them with a long name, cut anywhere.
CONSTANTS
  a = a  b = b  long = long
  Names <- MCNames
  NameSize <- MCNameSize
  NameField = 3
  BlockSize = 2
  MaxCounted = 2
  Sources <- MCSources
  MaxFaults = 1
SPECIFICATION Spec
INVARIANT TypeOK
PROPERTY KeepsArchive
CHECK_DEADLOCK FALSE
