SPECIFICATION Spec
CONSTANTS
  Owner = {"o1"}
  Task = {"t1", "t2"}
  Profile = {"p1"}
  Request <- AuthorityRequests
  Forever = 99
  QueueLease = 1
  ActiveLease = 2
  OfferWindow = 1
  ReturnNotice = 1
  DelayMargin = 0
  OwnerLimit = 2
  LiveLimit = 2
  TaskLimit = 2
  Retained = 9
  Configurations <- AuthorityConsents
  PreferenceChoices = {}
  InitialPreferences <- Immediate
  NoticeChoices = {}
  InputChoices = {TRUE}
  VisibilityChoices <- UnseenOnly
  PauseReason = {"manual"}
  PauseTimes = {1}
  InputSurfaces = {"desktop"}
  Delays = {1}
  DeferTimes = {}
  Renewals = {2}
  HoldAllowed = FALSE
  StopAllowed = FALSE
  MaxGeneration = 2
  MaxEpoch = 0
INVARIANTS
  ScheduleFits
  AuthorizedIsPermitted
