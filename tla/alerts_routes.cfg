SPECIFICATION Spec
CONSTANTS
  Servers = {"router", "web"}
  Monitored = {"router", "web"}
  DependsOn <- MCBehindRouter
  Names = {"load", "disk", "ping"}
  Rules <- MCRulesShared
  AlertCooldown = 1
  Runbooks <- MCNoRunbooks
  HasWatchdog = FALSE
  AdviceCooldown = 1
  Routes <- MCRoutes
  HasEmail = TRUE
  MailAnswers = TRUE
  CommandsEnd = TRUE
  MaxClock = 1
INVARIANTS RoutesAsOrdered AlertSpacing
