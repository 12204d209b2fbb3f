SPECIFICATION HSpec
CONSTANTS
  Owner = {"o1"}
  Task = {"t1", "t2"}
  Profile = {}
  Request <- ApprovalRequests
  Forever = 99
  QueueLease = 99
  ActiveLease = 99
  OfferWindow = 1
  ReturnNotice = 1
  DelayMargin = 0
  OwnerLimit = 2
  LiveLimit = 2
  TaskLimit = 2
  Retained = 9
  Configurations <- ApprovalConsents
  PreferenceChoices <- CarefulOnly
  InitialPreferences <- Immediate
  NoticeChoices = {}
  InputChoices = {TRUE}
  VisibilityChoices <- DesktopSeen
  PauseReason = {}
  PauseTimes = {}
  InputSurfaces = {"desktop"}
  Delays = {0}
  DeferTimes = {}
  Renewals = {}
  HoldAllowed = TRUE
  StopAllowed = TRUE
  MaxGeneration = 2
  MaxEpoch = 1
PROPERTIES
  ApprovalIsOwn
  ReturnIsWarned
