SPECIFICATION Spec
CONSTANTS
  Owner = {"o1", "o2"}
  Task = {"d", "e", "f", "g"}
  Profile = {"p1"}
  Request <- ChannelRequests
  Forever = 99
  QueueLease = 1
  ActiveLease = 1
  OfferWindow = 1
  ReturnNotice = 1
  DelayMargin = 0
  OwnerLimit = 2
  LiveLimit = 2
  TaskLimit = 1
  Retained = 1
  Configurations <- ChannelConsents
  PreferenceChoices = {}
  InitialPreferences <- Warned
  NoticeChoices = {}
  InputChoices = {TRUE}
  VisibilityChoices <- DesktopSeen
  PauseReason = {}
  PauseTimes = {}
  InputSurfaces = {}
  Delays = {}
  DeferTimes = {}
  Renewals = {}
  HoldAllowed = FALSE
  StopAllowed = TRUE
  MaxGeneration = 2
  MaxEpoch = 0
INVARIANTS
  TypeOK
  BudgetsHold
  LiveIsBacked
  
