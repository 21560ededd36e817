SPECIFICATION FairSpec
CONSTANTS
  NumJobs = 1
  Enabled = {1}
  OnStart = {1}
  HasCommand = {1}
  Uploads <- MCUploadsOne
  Due <- MCDueOne
  MaxInt = 127
  TicksPerMinute = 1
  ResultCap = 2
  MaxClock = 2
  PeersAnswer = TRUE
  ChildrenExit = TRUE
PROPERTIES StopReturns EveryRunEnds DueMinuteServed
