CONSTANTS
  Models <- FourArgs
  MaxOp = 4
  MaxNew = 12
SPECIFICATION FairDpuSpec
CHECK_DEADLOCK FALSE
INVARIANTS
  RewritingTypeOK ComputesTheSame AnchorsLeadBack ConstantsFetchable ShapesAgree CurrentGraphExists
PROPERTIES CellsStay PassEnds
