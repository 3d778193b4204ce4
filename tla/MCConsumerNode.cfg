\* The node is destroyed in the end.
CHECK_DEADLOCK FALSE
SPECIFICATION NodeSpec
CONSTANTS
  StepModulus = 16
  Images <- SmallImages
  Devices = {0, 1}
  MaxFrames = 4
  CopyEveryN = 2
INVARIANTS
  PendingWorkFits
  ReportIsOfItsImage
  NodeOwnsItsBuffers
