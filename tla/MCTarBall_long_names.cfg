\* One file with a long name, nothing lost.
CONSTANTS
  a = a  b = b  long = long
  Names <- MCNames
  NameSize <- MCNameSize
  NameField = 3
  BlockSize = 2
  MaxCounted = 2
  Sources <- MCLongSources
  MaxFaults = 0
SPECIFICATION Spec
INVARIANT LongNamesRestored
CHECK_DEADLOCK FALSE
