SPECIFICATION Spec
CONSTANTS
  MaxRuns = 2
  MaxLen = 2
  Window = 1
INVARIANTS TypeOK PublishedIsWhole ResultIsTrue NothingStaysOpen
PROPERTY UploadEnds
CHECK_DEADLOCK FALSE
