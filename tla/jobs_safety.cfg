SPECIFICATION Spec
CONSTANTS
  NumJobs = 2
  Enabled = {1, 2}
  OnStart = {2}
  HasCommand = {1, 2}
  Uploads <- MCUploadsTwo
  Due <- MCDueTwo
  MaxInt = 127
  TicksPerMinute = 2
  ResultCap = 2
  MaxClock = 3
  PeersAnswer = TRUE
  ChildrenExit = TRUE
INVARIANTS OncePerMinute OutcomesInStartOrder StopDrainsRuns
PROPERTIES ImplementsJobSchedule
