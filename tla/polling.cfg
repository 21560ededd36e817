SPECIFICATION FairSpec
CONSTANTS
  Servers = {"self", "web", "db"}
  Local = {"self"}
  Answering = {"self", "web", "db"}
  Workers = 2
INVARIANTS WorkersBounded StopDrains
PROPERTIES ImplementsRounds StopReturns HealthyPublished
