SPECIFICATION Spec
CONSTANTS
  Owner = {"o1", "o2"}
  Task = {"t1", "t2"}
  Profile = {}
  Request <- HandoffRequests
  Forever = 99
  QueueLease = 2
  ActiveLease = 2
  OfferWindow = 2
  ReturnNotice = 1
  DelayMargin = 1
  OwnerLimit = 2
  LiveLimit = 2
  TaskLimit = 1
  Retained = 9
  Configurations <- HandoffConsents
  PreferenceChoices = {}
  InitialPreferences <- Warned
  NoticeChoices = {}
  InputChoices = {TRUE, FALSE}
  VisibilityChoices <- DesktopComesAndGoes
  PauseReason = {}
  PauseTimes = {}
  InputSurfaces = {"desktop"}
  Delays = {}
  DeferTimes = {}
  Renewals = {3}
  HoldAllowed = FALSE
  StopAllowed = FALSE
  MaxGeneration = 1
  MaxEpoch = 0
INVARIANTS
  ReservingIsUnblocked
  TickIdempotent
  TimerCovers
PROPERTIES
  CeilingHolds
  YieldedGoLast
