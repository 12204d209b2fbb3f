SPECIFICATION FairSpec
CONSTANTS
  Owner = {"o1"}
  Task = {"t1"}
  Profile = {}
  Request <- WaitRequests
  Forever = 99
  QueueLease = 2
  ActiveLease = 2
  OfferWindow = 1
  ReturnNotice = 1
  DelayMargin = 0
  OwnerLimit = 2
  LiveLimit = 2
  TaskLimit = 2
  Retained = 9
  Configurations <- WaitConsents
  PreferenceChoices <- WarnedOnly
  InitialPreferences <- Warned
  NoticeChoices = {0}
  InputChoices = {TRUE, FALSE}
  VisibilityChoices <- DesktopSeen
  PauseReason = {}
  PauseTimes = {}
  InputSurfaces = {"desktop"}
  Delays = {0}
  DeferTimes = {}
  Renewals = {2}
  HoldAllowed = TRUE
  StopAllowed = FALSE
  MaxGeneration = 1
  MaxEpoch = 1
PROPERTIES
  Settles
  ConsentRunsOut
