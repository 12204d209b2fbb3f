SPECIFICATION FairSpec
CONSTANTS
  Profile = {"p1", "p2"}
  Command = {"c1", "c2"}
  Request <- EndlessRequests
  Token = {}
  Forever = 99
  MaxProviders = 2
  MaxKnown = 1
  MaxRequests = 2
  Durations = {99}
  Grants <- One
  Scopes = {TRUE}
  Availabilities <- None
  Replies = {"confirmed", "declined", "unknown"}
  Streams <- None
  MaxConnection = 2
  MaxGeneration = 2
  MaxVersion = 0
PROPERTIES
  Finishes
