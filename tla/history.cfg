SPECIFICATION FairSpec
CONSTANTS
  Samples = 2
  MaxFirings = 1
  Retention = 2
  SizeLimited = TRUE
  Attempts = 3
  TrimLimit = 2
  MaxClock = 4
  MaxCrashes = 1
INVARIANTS NothingTwice BatchWhole OkMeansRecorded
  KeptIsNewest ExpiredGone
PROPERTIES FreshSurvives Settles
