SPECIFICATION FairSpec
CONSTANTS
  Servers = {"self", "web"}
  Local = {"self"}
  Answering = {"self"}
  Workers = 0
PROPERTIES HealthyPublished
