\* Every component around the admission policy, one at a time.
SPECIFICATION Spec
CONSTANT
  Part = {"queue", "lock", "channel", "owner", "scoped", "commands", "journals", "agent", "numbers", "image", "workspaces",
          "domains", "stages", "resident", "portal", "browser", "control", "device", "requests", "headset", "android"}
  Process = {"p1", "p2"}
  Nobody = "nobody"
  MaxGeneration = 2
  Owner = {"o1", "o2"}
  Caller = {"c1"}
  Resource = {"r"}
  Target <- OneTarget
  WaitLease = 2
  OfferLease = 1
  ActiveLease = 1
  WaitTime = 2
  Duration = 2
  Lifetime = 3
  MaxEntries = 2
  Retained = 1
  Thread = {"t1", "t2"}
  MaxCalls = 2
  Requests = 2
  MaxSession = 2
  MaxOffer = 2
  Interval = 2
  RunMode = {"claim", "workspace", "queued"}
  Leases = {5, 9, 14}
  Slow = 12
  Client = {"a", "b"}
  MachineKind = {"linux", "device"}
  MaxClaims = 1
  Uses <- TwoOperators
  JournalCommand = {"c1", "c2"}
  CleanupCommand = {"c2"}
  EventsKept = 2
  RunLimit = 4
  Page = 1
  Element = {"e1", "e2", "e3"}
  Value = {"v", "w"}
  MaxNumber = 3
  MaxBoots = 5
  Workspace = {"w1", "w2"}
  NoWorkspace = "none"
  MaxTemporary = 1
  MaxRetained = 1
  LinuxCreation = {"l1"}
  WindowsCreation = {"w1"}
  NoCreation = "none"
  Route = {"libvirt", "utm", "windows"}
  MaxVersion = 2
  MaxAge = 1
  Channel = {"c1", "c2"}
  NoOwner = "none"
  Key = {"k1", "k2"}
  Peer = {"b1"}
  Authority = {"a1"}
  Audit = {"u1"}
  Outgoing = 1
  MaxNode = 2
  MaxSnapshot = 2
  SnapshotsKept = 1
  Takeover = {"p1", "p2", "p3"}
  Setting = {"s1", "s2"}
  MaxBoot = 3
INVARIANTS
  ComponentTypeOK
  TurnsAreKept
  CallsAreSettled
  NothingTwice
  AuthorityOutlivesTask
  PassedOnAsSeen
  
  NothingHeldForNobody
  ResultsAreTrue
  DevicesAreGivenBack
PROPERTIES
  
  AnswersAreHonest
  
CHECK_DEADLOCK FALSE
