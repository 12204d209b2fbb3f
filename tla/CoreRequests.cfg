SPECIFICATION Spec
CONSTANTS
  Profile = {"p1"}
  Command = {"c1", "c2", "c3"}
  Request <- MixedRequests
  Token = {}
  Forever = 99
  MaxProviders = 1
  MaxKnown = 1
  MaxRequests = 2
  Durations = {2, 99}
  Grants <- One
  Scopes = {TRUE}
  Availabilities <- Guarded
  Replies = {"confirmed"}
  Streams <- None
  MaxConnection = 2
  MaxGeneration = 2
  MaxVersion = 1
INVARIANTS
  TypeOK
  PendingIsCurrent
  OneResult
  RefusedIsNeverSent
  SlotsSuffice
  TimerCovers
