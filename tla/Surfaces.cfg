SPECIFICATION Spec
CONSTANTS
  Owner = {"o1"}
  Task = {"d", "b", "c"}
  Profile = {"p1"}
  Request <- SurfaceRequests
  Forever = 99
  QueueLease = 99
  ActiveLease = 99
  OfferWindow = 99
  ReturnNotice = 1
  DelayMargin = 0
  OwnerLimit = 2
  LiveLimit = 3
  TaskLimit = 3
  Retained = 9
  Configurations <- SurfaceConsents
  PreferenceChoices = {}
  InitialPreferences <- Immediate
  NoticeChoices = {}
  InputChoices = {TRUE}
  VisibilityChoices <- UnseenOnly
  PauseReason = {}
  PauseTimes = {}
  InputSurfaces = {}
  Delays = {0}
  DeferTimes = {99}
  Renewals = {}
  HoldAllowed = FALSE
  StopAllowed = FALSE
  MaxGeneration = 1
  MaxEpoch = 0
INVARIANTS
  ReservationsDisjoint
  NoOvertaking
PROPERTIES
  Arbitration
