SPECIFICATION HSpec
CONSTANTS
  Profile = {"p1", "p2"}
  Command = {}
  Request <- NoRequests
  Token = {"k"}
  Forever = 99
  MaxProviders = 2
  MaxKnown = 2
  MaxRequests = 2
  Durations = {2}
  Grants <- Pair
  Scopes = {TRUE, FALSE}
  Availabilities <- Dark
  Replies = {"confirmed", "unknown"}
  Streams <- ToolStream
  MaxConnection = 2
  MaxGeneration = 4
  MaxVersion = 1
INVARIANTS
  ConsentIsOperators
PROPERTIES
  FencesStayDead
