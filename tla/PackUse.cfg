CONSTANTS
  Web <- Specs
  FrameSeqs <- Frames
  Uses <- EveryUse
SPECIFICATION Spec
CHECK_DEADLOCK FALSE
INVARIANTS TypeOK ReportExact StrictTellsTruth KeyCovered PlaceTellsRequest VendorsModelSent CoveredIsSent
