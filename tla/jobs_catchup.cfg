SPECIFICATION Spec
CONSTANTS
  NumJobs = 1
  Enabled = {1}
  OnStart = {1}
  HasCommand = {1}
  Uploads <- MCUploadsOne
  Due <- MCDueOne
  MaxInt = 127
  TicksPerMinute = 2
  ResultCap = 2
  MaxClock = 5
  PeersAnswer = TRUE
  ChildrenExit = TRUE
PROPERTIES NoCatchUpRun
