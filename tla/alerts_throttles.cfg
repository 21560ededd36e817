SPECIFICATION FairSpec
CONSTANTS
  Servers = {"router", "web"}
  Monitored = {"router", "web"}
  DependsOn <- MCBehindRouter
  Names = {"load", "disk", "ping"}
  Rules <- MCRulesOne
  AlertCooldown = 1
  Runbooks <- MCRunbooks
  HasWatchdog = TRUE
  AdviceCooldown = 2
  Routes <- MCNoRoutes
  HasEmail = TRUE
  MailAnswers = TRUE
  CommandsEnd = TRUE
  MaxClock = 3
INVARIANTS AdviceSpacing RunbookSpacing BudgetHolds CommandsAreProvoked
PROPERTIES CycleEnds
