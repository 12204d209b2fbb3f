-------------------------- MODULE ComponentProofs ---------------------------
(***************************************************************************)
(* What the components promise together, for every value of the constants: *)
(* the properties of Components as theorems of its specification.          *)
(*                                                                         *)
(* A part is one component under the names it has in Components.  Per part *)
(*   ..Begins, ..Moves   its initial states and steps are the component's, *)
(*   ..Fits              the constants are as the component asks,          *)
(*   ..Means, ..Types    what is proved of it there is what is said here,  *)
(*   ..Acts, ..Behaves   a behaviour of that part is one of the component; *)
(* the theorems at the end join what each component was proved to do.      *)
(***************************************************************************)
EXTENDS Components, EndpointProofs

-----------------------------------------------------------------------------
(* The components proved elsewhere, as they are used here.                 *)

Turns == INSTANCE ClaimQueueProofs WITH answer <- given
Works == INSTANCE ClientProofs WITH Modes <- RunMode, held <- lease
Platform == INSTANCE PlatformProofs WITH
  OneAtATime <- TRUE, ReadsFail <- FALSE, media <- screen, chan <- channel

\* A behaviour stays with its part.
LEMMA PartStays == ASSUME [Next]_vars PROVE UNCHANGED part
BY DEF Next, Step, vars

\* The admission queue: its transaction and its operations are the component's.
LEMMA SameEnd == ASSUME NEW s, NEW gone PROVE Queue!End(s, gone) = Turns!End(s, gone)
BY DEF
  Queue!NoClaim, Queue!QueuedId, Queue!Mine, Queue!End, Turns!NoClaim, Turns!QueuedId, Turns!Mine, Turns!End

LEMMA SameOffer == ASSUME NEW s PROVE Queue!Offer(s) = Turns!Offer(s)
BY DEF
  Queue!Waiting, Queue!Reserving, Queue!InQueue, Queue!Live, Queue!Held, Queue!Reserved, Queue!IsNext, Queue!Offer,
  Turns!Waiting, Turns!Reserving, Turns!InQueue, Turns!Live, Turns!Held, Turns!Reserved, Turns!IsNext, Turns!Offer

LEMMA SameRefresh == ASSUME NEW s PROVE Queue!Refresh(s) = Turns!Refresh(s)
BY SameEnd, SameOffer DEF
  Queue!QueuedId, Queue!Running, Queue!InQueue, Queue!Live, Queue!Held, Queue!Mine, Queue!ProcessAlive, Queue!IsOver,
  Queue!Refresh, Turns!QueuedId, Turns!Running, Turns!InQueue, Turns!Live, Turns!Held, Turns!Mine,
  Turns!ProcessAlive, Turns!IsOver, Turns!Refresh

LEMMA SameAdmitted == ASSUME NEW s, NEW o PROVE Queue!Admitted(s, o) = Turns!Admitted(s, o)
BY DEF
  Queue!Waiting, Queue!NoEntry, Queue!InQueue, Queue!Live, Queue!Upto, Queue!From, Queue!Admitted, Queue!Cardinality,
  Turns!Waiting, Turns!NoEntry, Turns!InQueue, Turns!Live, Turns!Upto, Turns!From, Turns!Admitted, Turns!Cardinality

LEMMA SameCancelled == ASSUME NEW s, NEW o PROVE Queue!Cancelled(s, o) = Turns!Cancelled(s, o)
BY SameEnd, SameRefresh DEF
  Queue!InQueue, Queue!Live, Queue!Cancelled, Turns!InQueue, Turns!Live, Turns!Cancelled

LEMMA SameSubmit == ASSUME NEW o, Queue!Submit(o) PROVE Turns!Submit(o)
BY SameAdmitted, SameRefresh DEF
  Queue!NoAnswer, Queue!InQueue, Queue!Live, Queue!Saw, Queue!Submit, Queue!Cardinality, Turns!NoAnswer,
  Turns!InQueue, Turns!Live, Turns!Saw, Turns!Submit, Turns!Cardinality

LEMMA SamePoll == ASSUME NEW o, Queue!Poll(o) PROVE Turns!Poll(o)
BY SameRefresh DEF
  Queue!NoAnswer, Queue!InQueue, Queue!Poll, Turns!NoAnswer, Turns!InQueue, Turns!Poll

LEMMA SameHeartbeat == ASSUME NEW o, Queue!Heartbeat(o) PROVE Turns!Heartbeat(o)
BY SameRefresh DEF
  Queue!NoAnswer, Queue!InQueue, Queue!Stay, Queue!Saw, Queue!Heartbeat, Turns!NoAnswer, Turns!InQueue, Turns!Stay,
  Turns!Saw, Turns!Heartbeat

LEMMA SameWait == ASSUME NEW o, Queue!Wait(o) PROVE Turns!Wait(o)
BY SameRefresh DEF
  Queue!NoAnswer, Queue!InQueue, Queue!Stay, Queue!Saw, Queue!Wait, Turns!NoAnswer, Turns!InQueue, Turns!Stay,
  Turns!Saw, Turns!Wait

LEMMA SameAccept == ASSUME NEW o, Queue!Accept(o) PROVE Turns!Accept(o)
BY SameEnd, SameRefresh DEF
  Queue!NoAnswer, Queue!QueuedId, Queue!InQueue, Queue!Held, Queue!Stay, Queue!Saw, Queue!Intent, Queue!Claim,
  Queue!Activated, Queue!Accept, Turns!NoAnswer, Turns!QueuedId, Turns!InQueue, Turns!Held, Turns!Stay, Turns!Saw,
  Turns!Intent, Turns!Claim, Turns!Activated, Turns!Accept

LEMMA SameAcceptDies == ASSUME NEW o, Queue!AcceptDies(o) PROVE Turns!AcceptDies(o)
BY SameRefresh DEF
  Queue!NoAnswer, Queue!QueuedId, Queue!InQueue, Queue!Held, Queue!Intent, Queue!Claim, Queue!AcceptDies,
  Turns!NoAnswer, Turns!QueuedId, Turns!InQueue, Turns!Held, Turns!Intent, Turns!Claim, Turns!AcceptDies

LEMMA SameCancel == ASSUME NEW o, Queue!Cancel(o) PROVE Turns!Cancel(o)
BY SameCancelled, SameRefresh DEF
  Queue!NoAnswer, Queue!InQueue, Queue!Stay, Queue!Saw, Queue!Cancel, Turns!NoAnswer, Turns!InQueue, Turns!Stay,
  Turns!Saw, Turns!Cancel

LEMMA SameLeave == ASSUME NEW o, Queue!Leave(o) PROVE Turns!Leave(o)
BY SameCancelled, SameRefresh DEF
  Queue!NoAnswer, Queue!Leave, Turns!NoAnswer, Turns!Leave

LEMMA SameDie == ASSUME NEW o, Queue!Die(o) PROVE Turns!Die(o)
BY DEF
  Queue!NoAnswer, Queue!Die, Turns!NoAnswer, Turns!Die

LEMMA SameLegacyAcquire == ASSUME NEW c, NEW r, Queue!LegacyAcquire(c, r) PROVE Turns!LegacyAcquire(c, r)
BY SameRefresh DEF
  Queue!NoAnswer, Queue!LegacyId, Queue!Reserving, Queue!InQueue, Queue!Live, Queue!Held, Queue!Reserved,
  Queue!Claim, Queue!Answers, Queue!Refuses, Queue!LegacyAcquire, Turns!NoAnswer, Turns!LegacyId, Turns!Reserving,
  Turns!InQueue, Turns!Live, Turns!Held, Turns!Reserved, Turns!Claim, Turns!Answers, Turns!Refuses,
  Turns!LegacyAcquire

LEMMA SameCheck == ASSUME NEW r, NEW id, Queue!Check(r, id) PROVE Turns!Check(r, id)
BY SameRefresh DEF
  Queue!NoAnswer, Queue!Held, Queue!Answers, Queue!Refuses, Queue!Holds, Queue!Check, Turns!NoAnswer, Turns!Held,
  Turns!Answers, Turns!Refuses, Turns!Holds, Turns!Check

LEMMA SameRenew == ASSUME NEW r, NEW id, Queue!Renew(r, id) PROVE Turns!Renew(r, id)
BY SameRefresh DEF
  Queue!NoAnswer, Queue!Held, Queue!Least, Queue!Answers, Queue!Refuses, Queue!Holds, Queue!Renew, Turns!NoAnswer,
  Turns!Held, Turns!Least, Turns!Answers, Turns!Refuses, Turns!Holds, Turns!Renew

LEMMA SameRelease == ASSUME NEW r, NEW id, Queue!Release(r, id) PROVE Turns!Release(r, id)
BY DEF
  Queue!NoAnswer, Queue!NoClaim, Queue!Refuses, Queue!Release, Turns!NoAnswer, Turns!NoClaim, Turns!Refuses,
  Turns!Release

LEMMA SameStatus == ASSUME Queue!Status PROVE Turns!Status
BY SameRefresh DEF
  Queue!NoAnswer, Queue!Refuses, Queue!Status, Turns!NoAnswer, Turns!Refuses, Turns!Status

LEMMA SameRefreshDies == ASSUME Queue!RefreshDies PROVE Turns!RefreshDies
BY SameRefresh DEF
  Queue!NoAnswer, Queue!Refuses, Queue!RefreshDies, Turns!NoAnswer, Turns!Refuses, Turns!RefreshDies

LEMMA SameTick == ASSUME Queue!Tick PROVE Turns!Tick
BY DEF
  Queue!NoAnswer, Queue!Less, Queue!Tick, Turns!NoAnswer, Turns!Less, Turns!Tick

LEMMA QueueBegins == ASSUME Queue!QueueInit PROVE Turns!QueueInit
BY DEF
  Queue!NoAnswer, Queue!NoClaim, Queue!NoEntry, Queue!QueueInit, Turns!NoAnswer, Turns!NoClaim, Turns!NoEntry,
  Turns!QueueInit

LEMMA QueueMoves == ASSUME Queue!QueueNext PROVE Turns!QueueNext
<1>1. ASSUME NEW o, Queue!Connection(o) PROVE Turns!Connection(o)
  BY <1>1, SameSubmit, SamePoll, SameHeartbeat, SameWait, SameAccept, SameAcceptDies, SameCancel, SameLeave, SameDie
     DEF Queue!Connection, Turns!Connection
<1>2. Queue!Ids = Turns!Ids
  BY DEF Queue!Ids, Turns!Ids, Queue!QueuedId, Turns!QueuedId, Queue!LegacyId, Turns!LegacyId
<1> QED
  BY <1>1, <1>2, SameLegacyAcquire, SameCheck, SameRenew, SameRelease, SameStatus, SameRefreshDies, SameTick
     DEF Queue!QueueNext, Turns!QueueNext

LEMMA QueueFits == Turns!ConstantsAreGood
BY ConstantsFit DEF Turns!ConstantsAreGood,
  Queue!LeasesArePositive, Queue!TargetsAreResources, Queue!CallersAreNotOwners, Queue!OwnersAreFinite,
  Queue!IsFiniteSet, Turns!LeasesArePositive, Turns!TargetsAreResources, Turns!CallersAreNotOwners,
  Turns!OwnersAreFinite, Turns!IsFiniteSet

LEMMA QueueMeans ==
  ASSUME Turns!TurnsAreKept, Turns!OffersAreGood, Turns!VouchedClaimIsLive
  PROVE  Queue!TurnsAreKept /\ Queue!OffersAreGood /\ Queue!VouchedClaimIsLive
BY DEF
  Queue!QueuedId, Queue!Waiting, Queue!Reserving, Queue!InQueue, Queue!Live, Queue!Held, Queue!ProcessAlive,
  Queue!TurnsAreKept, Queue!OffersAreGood, Queue!VouchedClaimIsLive, Turns!QueuedId, Turns!Waiting, Turns!Reserving,
  Turns!InQueue, Turns!Live, Turns!Held, Turns!ProcessAlive, Turns!TurnsAreKept, Turns!OffersAreGood,
  Turns!VouchedClaimIsLive

LEMMA QueueTypes == ASSUME Turns!QueueTypeOK PROVE Queue!QueueTypeOK
<1>1. Queue!Ids = Turns!Ids
  BY DEF Queue!Ids, Turns!Ids, Queue!QueuedId, Turns!QueuedId, Queue!LegacyId, Turns!LegacyId
<1>2. Queue!Waiting = Turns!Waiting /\ Queue!States = Turns!States
  BY DEF Queue!Waiting, Turns!Waiting, Queue!Reserving, Turns!Reserving, Queue!States, Turns!States
<1>3. \A o \in Owner : Queue!InQueue(store, o) <=> Turns!InQueue(store, o)
  BY DEF Queue!InQueue, Turns!InQueue
<1>4. Queue!Cardinality(Owner) = Turns!Cardinality(Owner)
  BY DEF Queue!Cardinality, Turns!Cardinality
<1> QED
  BY <1>1, <1>2, <1>3, <1>4 DEF Queue!QueueTypeOK, Turns!QueueTypeOK

LEMMA QueueEndsWithItsOwn == ASSUME Turns!EndsWithItsOwn PROVE Queue!EndsWithItsOwn
BY DEF
  Queue!NoAnswer, Queue!NoClaim, Queue!QueuedId, Queue!Held, Queue!Refuses, Queue!Release, Queue!EndsWithItsOwn,
  Turns!NoAnswer, Turns!NoClaim, Turns!QueuedId, Turns!Held, Turns!Refuses, Turns!Release, Turns!EndsWithItsOwn

LEMMA QueueActs ==
  ASSUME part = "queue", [Next]_vars
  PROVE  [Turns!QueueNext]_(Turns!queueVars) /\ (UNCHANGED Turns!queueVars => UNCHANGED vars)
BY QueueMoves DEF Next, Step, vars, Turns!queueVars

LEMMA QueueBehaves == Spec => (part = "queue" => Turns!QueueSpec)
<1>1. Init /\ part = "queue" => Turns!QueueInit
  BY QueueBegins DEF Init
<1>2. [Next]_vars => (part = "queue" => (part = "queue")' /\ [Turns!QueueNext]_(Turns!queueVars))
  BY QueueActs, PartStays
<1> QED
  BY <1>1, <1>2, PTL DEF Spec, Turns!QueueSpec

\* The guarded channel.
LEMMA CallsBegins == ASSUME Calls!ChannelInit PROVE Works!ChannelInit
BY DEF
  Calls!Idle, Calls!ChannelInit, Works!Idle, Works!ChannelInit

LEMMA CallsMoves == ASSUME Calls!ChannelNext PROVE Works!ChannelNext
BY DEF
  Calls!Idle, Calls!Id, Calls!Answers, Calls!Failed, Calls!Woken, Calls!Fail, Calls!Register, Calls!TooLarge,
  Calls!Write, Calls!GivesUp, Calls!Return, Calls!Read, Calls!ReadEnds, Calls!Serve, Calls!AdapterEnds, Calls!Stop,
  Calls!FailStopped, Calls!ClosePipe, Calls!KeepaliveFails, Calls!ChannelNext, Works!Idle, Works!Id, Works!Answers,
  Works!Failed, Works!Woken, Works!Fail, Works!Register, Works!TooLarge, Works!Write, Works!GivesUp, Works!Return,
  Works!Read, Works!ReadEnds, Works!Serve, Works!AdapterEnds, Works!Stop, Works!FailStopped, Works!ClosePipe,
  Works!KeepaliveFails, Works!ChannelNext

LEMMA CallsFits == Works!CallsAreBounded
BY ConstantsFit DEF
  Calls!CallsAreBounded, Calls!IsFiniteSet, Works!CallsAreBounded, Works!IsFiniteSet

LEMMA CallsTypes == ASSUME Works!ChannelTypeOK PROVE Calls!ChannelTypeOK
BY DEF
  Calls!Answers, Calls!ChannelTypeOK, Calls!Cardinality, Works!Answers, Works!ChannelTypeOK, Works!Cardinality

LEMMA CallsMeans ==
  ASSUME Works!FailureReachesEveryCall, Works!NumbersAreInOrder
  PROVE  Calls!FailureReachesEveryCall /\ Calls!NumbersAreInOrder
BY DEF
  Calls!FailureReachesEveryCall, Calls!NumbersAreInOrder, Works!FailureReachesEveryCall, Works!NumbersAreInOrder

LEMMA CallsActs ==
  ASSUME part = "channel", [Next]_vars
  PROVE  [Works!ChannelNext]_(Works!channelVars) /\ (UNCHANGED Works!channelVars => UNCHANGED vars)
BY CallsMoves DEF Next, Step, vars, Works!channelVars

LEMMA CallsBehaves == Spec => (part = "channel" => Works!ChannelSpec)
<1>1. Init /\ part = "channel" => Works!ChannelInit
  BY CallsBegins DEF Init
<1>2. [Next]_vars => (part = "channel" => (part = "channel")' /\ [Works!ChannelNext]_(Works!channelVars))
  BY CallsActs, PartStays
<1> QED
  BY <1>1, <1>2, PTL DEF Spec, Works!ChannelSpec

\* The owner of a control session.
LEMMA IntentsBegins == ASSUME Intents!OwnerInit PROVE Works!OwnerInit
BY DEF
  Intents!OwnerInit, Works!OwnerInit

LEMMA IntentsMoves == ASSUME Intents!OwnerNext PROVE Works!OwnerNext
BY DEF
  Intents!At, Intents!Goes, Intents!Accepting, Intents!Calling, Intents!Sending, Intents!Following,
  Intents!Activated, Intents!Offered, Intents!Stopped, Intents!Close, Intents!Plain, Intents!HandsOver,
  Intents!Handoff, Intents!Open, Intents!Wait, Intents!Accept, Intents!Check, Intents!Call, Intents!Continues,
  Intents!TakeAnswer, Intents!EndedOwner, Intents!GiveUp, Intents!Alive, Intents!Keepalive, Intents!Die,
  Intents!Offer, Intents!Disconnected, Intents!Withdraw, Intents!Tick, Intents!Answered, Intents!Holds,
  Intents!CarryOut, Intents!Decline, Intents!OwnerNext, Works!At, Works!Goes, Works!Accepting, Works!Calling,
  Works!Sending, Works!Following, Works!Activated, Works!Offered, Works!Stopped, Works!Close, Works!Plain,
  Works!HandsOver, Works!Handoff, Works!Open, Works!Wait, Works!Accept, Works!Check, Works!Call, Works!Continues,
  Works!TakeAnswer, Works!EndedOwner, Works!GiveUp, Works!Alive, Works!Keepalive, Works!Die, Works!Offer,
  Works!Disconnected, Works!Withdraw, Works!Tick, Works!Answered, Works!Holds, Works!CarryOut, Works!Decline,
  Works!OwnerNext

LEMMA IntentsFits == Works!LimitsArePositive
BY ConstantsFit DEF
  Intents!LimitsArePositive, Works!LimitsArePositive

LEMMA IntentsTypes == ASSUME Works!OwnerTypeOK PROVE Intents!OwnerTypeOK
BY DEF
  Intents!Outcomes, Intents!Places, Intents!Numbers, Intents!Sessions, Intents!Intents, Intents!Clients,
  Intents!Written, Intents!Done, Intents!OwnerTypeOK, Works!Outcomes, Works!Places, Works!Numbers, Works!Sessions,
  Works!Intents, Works!Clients, Works!Written, Works!Done, Works!OwnerTypeOK

LEMMA IntentsMeans ==
  ASSUME Works!NothingTwice
  PROVE  Intents!NothingTwice
BY DEF
  Intents!NothingTwice, Works!NothingTwice

LEMMA IntentsActs ==
  ASSUME part = "owner", [Next]_vars
  PROVE  [Works!OwnerNext]_(Works!ownerVars) /\ (UNCHANGED Works!ownerVars => UNCHANGED vars)
BY IntentsMoves DEF Next, Step, vars, Works!ownerVars

LEMMA IntentsBehaves == Spec => (part = "owner" => Works!OwnerSpec)
<1>1. Init /\ part = "owner" => Works!OwnerInit
  BY IntentsBegins DEF Init
<1>2. [Next]_vars => (part = "owner" => (part = "owner")' /\ [Works!OwnerNext]_(Works!ownerVars))
  BY IntentsActs, PartStays
<1> QED
  BY <1>1, <1>2, PTL DEF Spec, Works!OwnerSpec

\* Scoped runs.
LEMMA ScopedBegins == ASSUME Scoped!RunInit PROVE Works!RunInit
BY DEF
  Scoped!RunInit, Works!RunInit

LEMMA ScopedMoves == ASSUME Scoped!RunNext PROVE Works!RunNext
BY DEF
  Scoped!MinLease, Scoped!Grace, Scoped!Cleaning, Scoped!Error, Scoped!Nothing, Scoped!Inspect, Scoped!Leased,
  Scoped!Acquired, Scoped!AcquireAccepted, Scoped!AcquireInvalid, Scoped!AcquireRefused, Scoped!AcquireLost,
  Scoped!Prepare, Scoped!PrepareFails, Scoped!Launch, Scoped!ChildEnds, Scoped!Poll, Scoped!RenewIsDue,
  Scoped!RenewTime, Scoped!RenewAccepted, Scoped!RenewFails, Scoped!Kill, Scoped!TreeStopped, Scoped!StopFails,
  Scoped!ReleaseNothing, Scoped!Releasable, Scoped!Release, Scoped!ReleaseFails, Scoped!Signal, Scoped!Less,
  Scoped!MayTakeTime, Scoped!TimePasses, Scoped!AdmissionEnds, Scoped!RunStep, Scoped!RunNext, Works!MinLease,
  Works!Grace, Works!Cleaning, Works!Error, Works!Nothing, Works!Inspect, Works!Leased, Works!Acquired,
  Works!AcquireAccepted, Works!AcquireInvalid, Works!AcquireRefused, Works!AcquireLost, Works!Prepare,
  Works!PrepareFails, Works!Launch, Works!ChildEnds, Works!Poll, Works!RenewIsDue, Works!RenewTime,
  Works!RenewAccepted, Works!RenewFails, Works!Kill, Works!TreeStopped, Works!StopFails, Works!ReleaseNothing,
  Works!Releasable, Works!Release, Works!ReleaseFails, Works!Signal, Works!Less, Works!MayTakeTime, Works!TimePasses,
  Works!AdmissionEnds, Works!RunStep, Works!RunNext

LEMMA ScopedFits == Works!LeasesAreNatural /\ Works!ModesAreKnown
BY ConstantsFit DEF
  Scoped!LeasesAreNatural, Scoped!ModesAreKnown, Works!LeasesAreNatural, Works!ModesAreKnown

LEMMA ScopedTypes == ASSUME Works!RunTypeOK PROVE Scoped!RunTypeOK
BY DEF
  Scoped!Cleanups, Scoped!RunTypeOK, Works!Cleanups, Works!RunTypeOK

LEMMA ScopedMeans ==
  ASSUME Works!AuthorityOutlivesTask, Works!LeaseOutlivesTask, Works!CleanExitLeavesNothing
  PROVE  Scoped!AuthorityOutlivesTask /\ Scoped!LeaseOutlivesTask /\ Scoped!CleanExitLeavesNothing
BY DEF
  Scoped!LeaseOutlivesTask, Scoped!AuthorityOutlivesTask, Scoped!CleanExitLeavesNothing, Works!LeaseOutlivesTask,
  Works!AuthorityOutlivesTask, Works!CleanExitLeavesNothing

LEMMA ScopedActs ==
  ASSUME part = "scoped", [Next]_vars
  PROVE  [Works!RunNext]_(Works!runVars) /\ (UNCHANGED Works!runVars => UNCHANGED vars)
BY ScopedMoves DEF Next, Step, vars, Works!runVars

LEMMA ScopedBehaves == Spec => (part = "scoped" => Works!RunSpec)
<1>1. Init /\ part = "scoped" => Works!RunInit
  BY ScopedBegins DEF Init
<1>2. [Next]_vars => (part = "scoped" => (part = "scoped")' /\ [Works!RunNext]_(Works!runVars))
  BY ScopedActs, PartStays
<1> QED
  BY <1>1, <1>2, PTL DEF Spec, Works!RunSpec

\* Workspaces.
LEMMA WorkspacesBegins == ASSUME Workspaces!WorkspaceInit PROVE Platform!WorkspaceInit
BY DEF
  Workspaces!NoReceiptYet, Workspaces!NoJob, Workspaces!WorkspaceInit, Platform!NoReceiptYet, Platform!NoJob,
  Platform!WorkspaceInit

LEMMA WorkspacesMoves == ASSUME Workspaces!WorkspaceNext PROVE Platform!WorkspaceNext
BY DEF
  Workspaces!Intents, Workspaces!NoReceiptYet, Workspaces!NoJob, Workspaces!Known, Workspaces!CountOf,
  Workspaces!Updated, Workspaces!Whole, Workspaces!InDoubt, Workspaces!Refused, Workspaces!Acquire, Workspaces!With,
  Workspaces!DefinedIn, Workspaces!CreateVolume, Workspaces!Define, Workspaces!InspectDerived, Workspaces!Without,
  Workspaces!Undo, Workspaces!Claimed, Workspaces!CreateReceipt, Workspaces!StartDerived, Workspaces!ReleaseRetained,
  Workspaces!ReleaseIsolated, Workspaces!ShutdownDerived, Workspaces!UndefineDerived, Workspaces!ReleaseRefused,
  Workspaces!DeleteVolume, Workspaces!Killed, Workspaces!UseBase, Workspaces!UseWorkspace, Workspaces!WorkspaceNext,
  Workspaces!Cardinality, Platform!Intents, Platform!NoReceiptYet, Platform!NoJob, Platform!Known, Platform!CountOf,
  Platform!Updated, Platform!Whole, Platform!InDoubt, Platform!Refused, Platform!Acquire, Platform!With,
  Platform!DefinedIn, Platform!CreateVolume, Platform!Define, Platform!InspectDerived, Platform!Without,
  Platform!Undo, Platform!Claimed, Platform!CreateReceipt, Platform!StartDerived, Platform!ReleaseRetained,
  Platform!ReleaseIsolated, Platform!ShutdownDerived, Platform!UndefineDerived, Platform!ReleaseRefused,
  Platform!DeleteVolume, Platform!Killed, Platform!UseBase, Platform!UseWorkspace, Platform!WorkspaceNext,
  Platform!Cardinality

LEMMA WorkspacesFits == Platform!NoWorkspaceIsNone
BY ConstantsFit DEF
  Workspaces!NoWorkspaceIsNone, Platform!NoWorkspaceIsNone

LEMMA WorkspacesTypes == ASSUME Platform!WorkspaceTypeOK PROVE Workspaces!WorkspaceTypeOK
BY DEF
  Workspaces!Intents, Workspaces!WorkspaceTypeOK, Platform!Intents, Platform!WorkspaceTypeOK

LEMMA WorkspacesMeans ==
  ASSUME Platform!NothingIsLost
  PROVE  Workspaces!NothingIsLost
BY DEF
  Workspaces!Known, Workspaces!Whole, Workspaces!NothingIsLost, Platform!Known, Platform!Whole,
  Platform!NothingIsLost

LEMMA WorkspacesActs ==
  ASSUME part = "workspaces", [Next]_vars
  PROVE  [Platform!WorkspaceNext]_(Platform!workspaceVars) /\ (UNCHANGED Platform!workspaceVars => UNCHANGED vars)
BY WorkspacesMoves DEF Next, Step, vars, Platform!workspaceVars

LEMMA WorkspacesBehaves == Spec => (part = "workspaces" => Platform!WorkspaceSpec)
<1>1. Init /\ part = "workspaces" => Platform!WorkspaceInit
  BY WorkspacesBegins DEF Init
<1>2. [Next]_vars => (part = "workspaces" => (part = "workspaces")' /\ [Platform!WorkspaceNext]_(Platform!workspaceVars))
  BY WorkspacesActs, PartStays
<1> QED
  BY <1>1, <1>2, PTL DEF Spec, Platform!WorkspaceSpec

\* The factory of domains.
LEMMA DomainsBegins == ASSUME Domains!FactoryInit PROVE Platform!FactoryInit
BY DEF
  Domains!Creation, Domains!Volumes, Domains!NoDomain, Domains!NothingTaken, Domains!FactoryInit, Platform!Creation,
  Platform!Volumes, Platform!NoDomain, Platform!NothingTaken, Platform!FactoryInit

LEMMA DomainsMoves == ASSUME Domains!FactoryNext PROVE Platform!FactoryNext
BY DEF
  Domains!Creation, Domains!Volumes, Domains!NoDomain, Domains!Needed, Domains!NothingTaken, Domains!CreationGoes,
  Domains!BeginCreation, Domains!CheckVolume, Domains!NextVolume, Domains!MakeVolume, Domains!MakeVolumeFails,
  Domains!DefineDomain, Domains!Removable, Domains!RollBack, Domains!PowerChanges, Domains!MediaStage,
  Domains!Takeable, Domains!DetachMedium, Domains!DeleteCandidate, Domains!Earliest, Domains!TakeVolume,
  Domains!FactoryNext, Platform!Creation, Platform!Volumes, Platform!NoDomain, Platform!Needed,
  Platform!NothingTaken, Platform!CreationGoes, Platform!BeginCreation, Platform!CheckVolume, Platform!NextVolume,
  Platform!MakeVolume, Platform!MakeVolumeFails, Platform!DefineDomain, Platform!Removable, Platform!RollBack,
  Platform!PowerChanges, Platform!MediaStage, Platform!Takeable, Platform!DetachMedium, Platform!DeleteCandidate,
  Platform!Earliest, Platform!TakeVolume, Platform!FactoryNext

LEMMA DomainsFits == Platform!CreationsDiffer
BY ConstantsFit DEF
  Domains!Creation, Domains!CreationsDiffer, Platform!Creation, Platform!CreationsDiffer

LEMMA DomainsTypes == ASSUME Platform!FactoryTypeOK PROVE Domains!FactoryTypeOK
BY DEF
  Domains!Creation, Domains!Volumes, Domains!FactoryTypeOK, Platform!Creation, Platform!Volumes,
  Platform!FactoryTypeOK

LEMMA DomainsMeans ==
  ASSUME Platform!CreatedKeepsItsVolumes
  PROVE  Domains!CreatedKeepsItsVolumes
BY DEF
  Domains!Creation, Domains!CreatedKeepsItsVolumes, Platform!Creation, Platform!CreatedKeepsItsVolumes

LEMMA DomainsActs ==
  ASSUME part = "domains", [Next]_vars
  PROVE  [Platform!FactoryNext]_(Platform!factoryVars) /\ (UNCHANGED Platform!factoryVars => UNCHANGED vars)
BY DomainsMoves DEF Next, Step, vars, Platform!factoryVars

LEMMA DomainsBehaves == Spec => (part = "domains" => Platform!FactorySpec)
<1>1. Init /\ part = "domains" => Platform!FactoryInit
  BY DomainsBegins DEF Init
<1>2. [Next]_vars => (part = "domains" => (part = "domains")' /\ [Platform!FactoryNext]_(Platform!factoryVars))
  BY DomainsActs, PartStays
<1> QED
  BY <1>1, <1>2, PTL DEF Spec, Platform!FactorySpec

\* The Linux resident.
LEMMA ResidentBegins == ASSUME Resident!ResidentInit PROVE Platform!ResidentInit
BY DEF
  Resident!NoTicket, Resident!Silence, Resident!ResidentInit, Platform!NoTicket, Platform!Silence,
  Platform!ResidentInit

LEMMA ResidentMoves == ASSUME Resident!ResidentNext PROVE Platform!ResidentNext
BY DEF
  Resident!NoTicket, Resident!Silence, Resident!Facts, Resident!Cancelled, Resident!Changed, Resident!Views,
  Resident!HasAuthority, Resident!Authorized, Resident!Refreshed, Resident!OwnerIs, Resident!Quiet, Resident!Answers,
  Resident!Coordinator, Resident!OpenChannel, Resident!Accept, Resident!Dispatch, Resident!Completes,
  Resident!Observed, Resident!CloseChannel, Resident!Cleanup, Resident!Ends, Resident!Worker, Resident!Checks,
  Resident!Start, Resident!AskAuthority, Resident!CheckAgain, Resident!Effect, Resident!Returns, Resident!Outcome,
  Resident!Done, Resident!Deadline, Resident!TimePasses, Resident!StopArrives, Resident!StopAccess,
  Resident!ConfigureAccess, Resident!Yield, Resident!PolicyEvent, Resident!Monitor, Resident!StorageChanges,
  Resident!CoreDies, Resident!PolicyFailed, Resident!Answering, Resident!Silently, Resident!ResidentNext,
  Platform!NoTicket, Platform!Silence, Platform!Facts, Platform!Cancelled, Platform!Changed, Platform!Views,
  Platform!HasAuthority, Platform!Authorized, Platform!Refreshed, Platform!OwnerIs, Platform!Quiet, Platform!Answers,
  Platform!Coordinator, Platform!OpenChannel, Platform!Accept, Platform!Dispatch, Platform!Completes,
  Platform!Observed, Platform!CloseChannel, Platform!Cleanup, Platform!Ends, Platform!Worker, Platform!Checks,
  Platform!Start, Platform!AskAuthority, Platform!CheckAgain, Platform!Effect, Platform!Returns, Platform!Outcome,
  Platform!Done, Platform!Deadline, Platform!TimePasses, Platform!StopArrives, Platform!StopAccess,
  Platform!ConfigureAccess, Platform!Yield, Platform!PolicyEvent, Platform!Monitor, Platform!StorageChanges,
  Platform!CoreDies, Platform!PolicyFailed, Platform!Answering, Platform!Silently, Platform!ResidentNext

LEMMA ResidentFits == Platform!NoOwnerIsNoChannel
BY ConstantsFit DEF
  Resident!NoOwnerIsNoChannel, Platform!NoOwnerIsNoChannel

LEMMA ResidentTypes == ASSUME Platform!ResidentTypeOK PROVE Resident!ResidentTypeOK
BY DEF
  Resident!ResidentTypeOK, Platform!ResidentTypeOK

LEMMA ResidentMeans ==
  ASSUME Platform!SlotIsOwned
  PROVE  Resident!SlotIsOwned
BY DEF
  Resident!SlotIsOwned, Platform!SlotIsOwned

LEMMA ResidentIsHonest == ASSUME Platform!IsHonest PROVE Resident!IsHonest
BY DEF
  Resident!IsHonest, Platform!IsHonest

LEMMA ResidentIsFenced == ASSUME Platform!IsFenced PROVE Resident!IsFenced
BY DEF
  Resident!IsFenced, Platform!IsFenced

LEMMA ResidentActs ==
  ASSUME part = "resident", [Next]_vars
  PROVE  [Platform!ResidentNext]_(Platform!residentVars) /\ (UNCHANGED Platform!residentVars => UNCHANGED vars)
BY ResidentMoves DEF Next, Step, vars, Platform!residentVars

LEMMA ResidentBehaves == Spec => (part = "resident" => Platform!ResidentSpec)
<1>1. Init /\ part = "resident" => Platform!ResidentInit
  BY ResidentBegins DEF Init
<1>2. [Next]_vars => (part = "resident" => (part = "resident")' /\ [Platform!ResidentNext]_(Platform!residentVars))
  BY ResidentActs, PartStays
<1> QED
  BY <1>1, <1>2, PTL DEF Spec, Platform!ResidentSpec

\* The portal.
LEMMA PortalBegins == ASSUME Portal!PortalInit PROVE Platform!PortalInit
BY DEF
  Portal!NoMedia, Portal!NoGesture, Portal!Off, Portal!PortalInit, Platform!NoMedia, Platform!NoGesture,
  Platform!Off, Platform!PortalInit

LEMMA PortalMoves == ASSUME Portal!PortalNext PROVE Platform!PortalNext
BY DEF
  Portal!Steps, Portal!NoMedia, Portal!NoGesture, Portal!Off, Portal!Disposed, Portal!Close, Portal!SharingEnds,
  Portal!Connect, Portal!After, Portal!Response, Portal!Refusal, Portal!TimedOut, Portal!Opens, Portal!Plays,
  Portal!Disposes, Portal!Prepared, Portal!Disposal, Portal!BeginGesture, Portal!Owed, Portal!Press,
  Portal!Interrupted, Portal!Release, Portal!Delivered, Portal!PortalNext, Portal!Cardinality, Platform!Steps,
  Platform!NoMedia, Platform!NoGesture, Platform!Off, Platform!Disposed, Platform!Close, Platform!SharingEnds,
  Platform!Connect, Platform!After, Platform!Response, Platform!Refusal, Platform!TimedOut, Platform!Opens,
  Platform!Plays, Platform!Disposes, Platform!Prepared, Platform!Disposal, Platform!BeginGesture, Platform!Owed,
  Platform!Press, Platform!Interrupted, Platform!Release, Platform!Delivered, Platform!PortalNext,
  Platform!Cardinality

LEMMA PortalTypes == ASSUME Platform!PortalTypeOK PROVE Portal!PortalTypeOK
BY DEF
  Portal!Steps, Portal!PortalTypeOK, Platform!Steps, Platform!PortalTypeOK

LEMMA PortalMeans ==
  ASSUME Platform!StreamsAreOwned, Platform!GesturesLetGo
  PROVE  Portal!StreamsAreOwned /\ Portal!GesturesLetGo
BY DEF
  Portal!StreamsAreOwned, Portal!GesturesLetGo, Platform!StreamsAreOwned, Platform!GesturesLetGo

LEMMA PortalActs ==
  ASSUME part = "portal", [Next]_vars
  PROVE  [Platform!PortalNext]_(Platform!portalVars) /\ (UNCHANGED Platform!portalVars => UNCHANGED vars)
BY PortalMoves DEF Next, Step, vars, Platform!portalVars

LEMMA PortalBehaves == Spec => (part = "portal" => Platform!PortalSpec)
<1>1. Init /\ part = "portal" => Platform!PortalInit
  BY PortalBegins DEF Init
<1>2. [Next]_vars => (part = "portal" => (part = "portal")' /\ [Platform!PortalNext]_(Platform!portalVars))
  BY PortalActs, PartStays
<1> QED
  BY <1>1, <1>2, PTL DEF Spec, Platform!PortalSpec

\* The browser of the Linux resident.
LEMMA BrowserBegins == ASSUME Browser!BrowserInit PROVE Platform!BrowserInit
BY DEF
  Browser!Absent, Browser!NoAuthority, Browser!BrowserInit, Platform!Absent, Platform!NoAuthority,
  Platform!BrowserInit

LEMMA BrowserMoves == ASSUME Browser!BrowserNext PROVE Platform!BrowserNext
BY DEF
  Browser!Absent, Browser!NoAuthority, Browser!Valid, Browser!Open, Browser!Ended, Browser!Doubt,
  Browser!Invalidated, Browser!Configure, Browser!Fence, Browser!Yielded, Browser!CancelInvalid, Browser!Execute,
  Browser!Completed, Browser!AuditBegins, Browser!Confirmed, Browser!AuditResult, Browser!Register, Browser!Closed,
  Browser!Attach, Browser!Attached, Browser!Enqueue, Browser!Disconnect, Browser!Take, Browser!Stale,
  Browser!Unwanted, Browser!Look, Browser!Send, Browser!Torn, Browser!LeaveOut, Browser!WriterEnds,
  Browser!PolicyDies, Browser!BrowserNext, Platform!Absent, Platform!NoAuthority, Platform!Valid, Platform!Open,
  Platform!Ended, Platform!Doubt, Platform!Invalidated, Platform!Configure, Platform!Fence, Platform!Yielded,
  Platform!CancelInvalid, Platform!Execute, Platform!Completed, Platform!AuditBegins, Platform!Confirmed,
  Platform!AuditResult, Platform!Register, Platform!Closed, Platform!Attach, Platform!Attached, Platform!Enqueue,
  Platform!Disconnect, Platform!Take, Platform!Stale, Platform!Unwanted, Platform!Look, Platform!Send, Platform!Torn,
  Platform!LeaveOut, Platform!WriterEnds, Platform!PolicyDies, Platform!BrowserNext

LEMMA BrowserFits == Platform!AuthoritiesExist /\ Platform!BrowserLimits
BY ConstantsFit DEF
  Browser!AuthoritiesExist, Browser!BrowserLimits, Platform!AuthoritiesExist, Platform!BrowserLimits

LEMMA BrowserTypes == ASSUME Platform!BrowserTypeOK PROVE Browser!BrowserTypeOK
BY DEF
  Browser!BrowserTypeOK, Platform!BrowserTypeOK

LEMMA BrowserMeans ==
  ASSUME Platform!AuditsAreHonest, Platform!StaleStops
  PROVE  Browser!AuditsAreHonest /\ Browser!StaleStops
BY DEF
  Browser!AuditsAreHonest, Browser!StaleStops, Platform!AuditsAreHonest, Platform!StaleStops

LEMMA BrowserEndsTorn == ASSUME Platform!EndsTorn PROVE Browser!EndsTorn
BY DEF
  Browser!EndsTorn, Platform!EndsTorn

LEMMA BrowserActs ==
  ASSUME part = "browser", [Next]_vars
  PROVE  [Platform!BrowserNext]_(Platform!browserVars) /\ (UNCHANGED Platform!browserVars => UNCHANGED vars)
BY BrowserMoves DEF Next, Step, vars, Platform!browserVars

LEMMA BrowserBehaves == Spec => (part = "browser" => Platform!BrowserSpec)
<1>1. Init /\ part = "browser" => Platform!BrowserInit
  BY BrowserBegins DEF Init
<1>2. [Next]_vars => (part = "browser" => (part = "browser")' /\ [Platform!BrowserNext]_(Platform!browserVars))
  BY BrowserActs, PartStays
<1> QED
  BY <1>1, <1>2, PTL DEF Spec, Platform!BrowserSpec

\* The lease of a headset.
LEMMA HeadsetBegins == ASSUME Headset!QuestInit PROVE Platform!QuestInit
BY DEF
  Headset!Own, Headset!NoJournal, Headset!Idle, Headset!QuestInit, Platform!Own, Platform!NoJournal, Platform!Idle,
  Platform!QuestInit

LEMMA HeadsetMoves == ASSUME Headset!QuestNext PROVE Platform!QuestNext
BY DEF
  Headset!Own, Headset!Leased, Headset!Unset, Headset!Values, Headset!Begins, Headset!Motion, Headset!Saved,
  Headset!NoJournal, Headset!Idle, Headset!At, Headset!Is, Headset!Alive, Headset!Goes, Headset!Starts,
  Headset!Turns, Headset!Set, Headset!Turn, Headset!OwnerActive, Headset!Mine, Headset!Journals, Headset!Lock,
  Headset!Begin, Headset!LookAtJournal, Headset!Save, Headset!WriteJournal, Headset!Change, Headset!Started,
  Headset!ChildEnds, Headset!ScriptEnds, Headset!Ask, Headset!Restore, Headset!Restored, Headset!EndRestore,
  Headset!Unlock, Headset!Switch, Headset!Switched, Headset!Verified, Headset!Restart, Headset!Die,
  Headset!QuestStep, Headset!QuestNext, Platform!Own, Platform!Leased, Platform!Unset, Platform!Values,
  Platform!Begins, Platform!Motion, Platform!Saved, Platform!NoJournal, Platform!Idle, Platform!At, Platform!Is,
  Platform!Alive, Platform!Goes, Platform!Starts, Platform!Turns, Platform!Set, Platform!Turn, Platform!OwnerActive,
  Platform!Mine, Platform!Journals, Platform!Lock, Platform!Begin, Platform!LookAtJournal, Platform!Save,
  Platform!WriteJournal, Platform!Change, Platform!Started, Platform!ChildEnds, Platform!ScriptEnds, Platform!Ask,
  Platform!Restore, Platform!Restored, Platform!EndRestore, Platform!Unlock, Platform!Switch, Platform!Switched,
  Platform!Verified, Platform!Restart, Platform!Die, Platform!QuestStep, Platform!QuestNext

LEMMA HeadsetFits == Platform!NobodyIsNoProcess
BY ConstantsFit DEF
  Headset!NobodyIsNoProcess, Platform!NobodyIsNoProcess

LEMMA HeadsetTypes == ASSUME Platform!QuestTypeOK PROVE Headset!QuestTypeOK
BY DEF
  Headset!Own, Headset!Leased, Headset!Unset, Headset!Values, Headset!Kinds, Headset!Motion, Headset!Places,
  Headset!Saved, Headset!QuestTypeOK, Platform!Own, Platform!Leased, Platform!Unset, Platform!Values, Platform!Kinds,
  Platform!Motion, Platform!Places, Platform!Saved, Platform!QuestTypeOK

LEMMA HeadsetMeans ==
  ASSUME Platform!ChangesAreRecoverable
  PROVE  Headset!ChangesAreRecoverable
BY DEF
  Headset!Own, Headset!NoJournal, Headset!ChangesAreRecoverable, Platform!Own, Platform!NoJournal,
  Platform!ChangesAreRecoverable

LEMMA HeadsetListensUnleased == ASSUME Platform!ListensUnleased PROVE Headset!ListensUnleased
BY DEF
  Headset!ListensUnleased, Platform!ListensUnleased

LEMMA HeadsetActs ==
  ASSUME part = "headset", [Next]_vars
  PROVE  [Platform!QuestNext]_(Platform!questVars) /\ (UNCHANGED Platform!questVars => UNCHANGED vars)
BY HeadsetMoves DEF Next, Step, vars, Platform!questVars

LEMMA HeadsetBehaves == Spec => (part = "headset" => Platform!QuestSpec)
<1>1. Init /\ part = "headset" => Platform!QuestInit
  BY HeadsetBegins DEF Init
<1>2. [Next]_vars => (part = "headset" => (part = "headset")' /\ [Platform!QuestNext]_(Platform!questVars))
  BY HeadsetActs, PartStays
<1> QED
  BY <1>1, <1>2, PTL DEF Spec, Platform!QuestSpec

-----------------------------------------------------------------------------
(* The components of Endpoints, as parts.                                  *)

LEMMA LockActs ==
  ASSUME part = "lock", [Next]_vars
  PROVE  [Lock!LockNext]_(Lock!lockVars) /\ (UNCHANGED Lock!lockVars => UNCHANGED vars)
BY DEF Next, Step, vars, Lock!lockVars

LEMMA LockBehaves == Spec => (part = "lock" => Lock!LockSpec)
<1>1. Init /\ part = "lock" => Lock!LockInit
  BY DEF Init
<1>2. [Next]_vars => (part = "lock" => (part = "lock")' /\ [Lock!LockNext]_(Lock!lockVars))
  BY LockActs, PartStays
<1> QED
  BY <1>1, <1>2, PTL DEF Spec, Lock!LockSpec

LEMMA AgentActs ==
  ASSUME part = "agent", [Next]_vars
  PROVE  [Agent!AgentNext]_(Agent!agentVars) /\ (UNCHANGED Agent!agentVars => UNCHANGED vars)
BY DEF Next, Step, vars, Agent!agentVars

LEMMA AgentBehaves == Spec => (part = "agent" => Agent!AgentSpec)
<1>1. Init /\ part = "agent" => Agent!AgentInit
  BY DEF Init
<1>2. [Next]_vars => (part = "agent" => (part = "agent")' /\ [Agent!AgentNext]_(Agent!agentVars))
  BY AgentActs, PartStays
<1> QED
  BY <1>1, <1>2, PTL DEF Spec, Agent!AgentSpec

LEMMA JournalsActs ==
  ASSUME part = "journals", [Next]_vars
  PROVE  [Journals!JournalsNext]_(Journals!journalVars) /\ (UNCHANGED Journals!journalVars => UNCHANGED vars)
BY DEF Next, Step, vars, Journals!journalVars

LEMMA JournalsBehaves == Spec => (part = "journals" => Journals!JournalsSpec)
<1>1. Init /\ part = "journals" => Journals!JournalsInit
  BY DEF Init
<1>2. [Next]_vars => (part = "journals" => (part = "journals")' /\ [Journals!JournalsNext]_(Journals!journalVars))
  BY JournalsActs, PartStays
<1> QED
  BY <1>1, <1>2, PTL DEF Spec, Journals!JournalsSpec

LEMMA CommandsActs ==
  ASSUME part = "commands", [Next]_vars
  PROVE  [Commands!CommandsNext]_(Commands!clientVars) /\ (UNCHANGED Commands!clientVars => UNCHANGED vars)
BY DEF Next, Step, vars, Commands!clientVars

LEMMA CommandsBehaves == Spec => (part = "commands" => Commands!CommandsSpec)
<1>1. Init /\ part = "commands" => Commands!CommandsInit
  BY DEF Init
<1>2. [Next]_vars => (part = "commands" => (part = "commands")' /\ [Commands!CommandsNext]_(Commands!clientVars))
  BY CommandsActs, PartStays
<1> QED
  BY <1>1, <1>2, PTL DEF Spec, Commands!CommandsSpec

LEMMA NumbersActs ==
  ASSUME part = "numbers", [Next]_vars
  PROVE  [Numbers!NumbersNext]_(Numbers!numbersVars) /\ (UNCHANGED Numbers!numbersVars => UNCHANGED vars)
BY DEF Next, Step, vars, Numbers!numbersVars

LEMMA NumbersBehaves == Spec => (part = "numbers" => Numbers!NumbersSpec)
<1>1. Init /\ part = "numbers" => Numbers!NumbersInit
  BY DEF Init
<1>2. [Next]_vars => (part = "numbers" => (part = "numbers")' /\ [Numbers!NumbersNext]_(Numbers!numbersVars))
  BY NumbersActs, PartStays
<1> QED
  BY <1>1, <1>2, PTL DEF Spec, Numbers!NumbersSpec

LEMMA StagesActs ==
  ASSUME part = "stages", [Next]_vars
  PROVE  [Stages!StageNext]_(Stages!stageVars) /\ (UNCHANGED Stages!stageVars => UNCHANGED vars)
BY DEF Next, Step, vars, Stages!stageVars

LEMMA StagesBehaves == Spec => (part = "stages" => Stages!StageSpec)
<1>1. Init /\ part = "stages" => Stages!StageInit
  BY DEF Init
<1>2. [Next]_vars => (part = "stages" => (part = "stages")' /\ [Stages!StageNext]_(Stages!stageVars))
  BY StagesActs, PartStays
<1> QED
  BY <1>1, <1>2, PTL DEF Spec, Stages!StageSpec

LEMMA ImageActs ==
  ASSUME part = "image", [Next]_vars
  PROVE  [Image!ImageNext]_(Image!imageVars) /\ (UNCHANGED Image!imageVars => UNCHANGED vars)
BY DEF Next, Step, vars, Image!imageVars

LEMMA ImageBehaves == Spec => (part = "image" => Image!ImageSpec)
<1>1. Init /\ part = "image" => Image!ImageInit
  BY DEF Init
<1>2. [Next]_vars => (part = "image" => (part = "image")' /\ [Image!ImageNext]_(Image!imageVars))
  BY ImageActs, PartStays
<1> QED
  BY <1>1, <1>2, PTL DEF Spec, Image!ImageSpec

LEMMA ControlActs ==
  ASSUME part = "control", [Next]_vars
  PROVE  [Control!ControlNext]_(Control!controlVars) /\ (UNCHANGED Control!controlVars => UNCHANGED vars)
BY DEF Next, Step, vars, Control!controlVars

LEMMA ControlBehaves == Spec => (part = "control" => Control!ControlSpec)
<1>1. Init /\ part = "control" => Control!ControlInit
  BY DEF Init
<1>2. [Next]_vars => (part = "control" => (part = "control")' /\ [Control!ControlNext]_(Control!controlVars))
  BY ControlActs, PartStays
<1> QED
  BY <1>1, <1>2, PTL DEF Spec, Control!ControlSpec

LEMMA DeviceActs ==
  ASSUME part = "device", [Next]_vars
  PROVE  [Device!DeviceNext]_(Device!deviceVars) /\ (UNCHANGED Device!deviceVars => UNCHANGED vars)
BY DEF Next, Step, vars, Device!deviceVars

LEMMA DeviceBehaves == Spec => (part = "device" => Device!DeviceSpec)
<1>1. Init /\ part = "device" => Device!DeviceInit
  BY DEF Init
<1>2. [Next]_vars => (part = "device" => (part = "device")' /\ [Device!DeviceNext]_(Device!deviceVars))
  BY DeviceActs, PartStays
<1> QED
  BY <1>1, <1>2, PTL DEF Spec, Device!DeviceSpec

LEMMA PhoneActs ==
  ASSUME part = "requests", [Next]_vars
  PROVE  [Phone!ControlNext]_(Phone!controlVars) /\ (UNCHANGED Phone!controlVars => UNCHANGED vars)
BY DEF Next, Step, vars, Phone!controlVars

LEMMA PhoneBehaves == Spec => (part = "requests" => Phone!ControlSpec)
<1>1. Init /\ part = "requests" => Phone!ControlInit
  BY DEF Init
<1>2. [Next]_vars => (part = "requests" => (part = "requests")' /\ [Phone!ControlNext]_(Phone!controlVars))
  BY PhoneActs, PartStays
<1> QED
  BY <1>1, <1>2, PTL DEF Spec, Phone!ControlSpec

LEMMA AndroidActs ==
  ASSUME part = "android", [Next]_vars
  PROVE  [Android!AndroidNext]_(Android!androidVars) /\ (UNCHANGED Android!androidVars => UNCHANGED vars)
BY DEF Next, Step, vars, Android!androidVars

LEMMA AndroidBehaves == Spec => (part = "android" => Android!AndroidSpec)
<1>1. Init /\ part = "android" => Android!AndroidInit
  BY DEF Init
<1>2. [Next]_vars => (part = "android" => (part = "android")' /\ [Android!AndroidNext]_(Android!androidVars))
  BY AndroidActs, PartStays
<1> QED
  BY <1>1, <1>2, PTL DEF Spec, Android!AndroidSpec

-----------------------------------------------------------------------------
(* What the components promise together.                                   *)

\* The parts an operator or a client works with keep their types.
ClientPartsTyped ==
  /\ part = "queue" => Queue!QueueTypeOK
  /\ part = "lock" => Lock!LockTypeOK
  /\ part = "channel" => Calls!ChannelTypeOK
  /\ part = "owner" => Intents!OwnerTypeOK
  /\ part = "scoped" => Scoped!RunTypeOK
  /\ part = "commands" => Commands!CommandsTypeOK
  /\ part = "journals" => Journals!JournalsTypeOK
  /\ part = "agent" => Agent!AgentTypeOK
  /\ part = "numbers" => Numbers!NumbersTypeOK

LEMMA ClientTypesAreKept == Spec => []ClientPartsTyped
<1>1. Turns!QueueSpec => []Turns!QueueTypeOK
  BY QueueFits, Turns!QueueTypesAreKept
<1>2. Lock!LockSpec => []Lock!LockTypeOK
  BY LockTypesAreKept, ConstantsFit
<1>3. Works!ChannelSpec => []Works!ChannelTypeOK
  BY CallsFits, Works!ChannelTypesAreKept
<1>4. Works!OwnerSpec => []Works!OwnerTypeOK
  BY IntentsFits, Works!OwnerTypesAreKept
<1>5. Works!RunSpec => []Works!RunTypeOK
  BY ScopedFits, Works!RunTypesAreKept
<1>6. Commands!CommandsSpec => []Commands!CommandsTypeOK
  BY CommandsPassOn, ConstantsFit, PTL
<1>7. Journals!JournalsSpec => []Journals!JournalsTypeOK
  BY JournalsAreTrue, ConstantsFit, PTL
<1>8. Agent!AgentSpec => []Agent!AgentTypeOK
  BY AgentTypesAreKept
<1>9. Numbers!NumbersSpec => []Numbers!NumbersTypeOK
  BY NumbersAreTrue, ConstantsFit, PTL
<1>m. /\ part = "queue" => Turns!QueueTypeOK
      /\ part = "lock" => Lock!LockTypeOK
      /\ part = "channel" => Works!ChannelTypeOK
      /\ part = "owner" => Works!OwnerTypeOK
      /\ part = "scoped" => Works!RunTypeOK
      /\ part = "commands" => Commands!CommandsTypeOK
      /\ part = "journals" => Journals!JournalsTypeOK
      /\ part = "agent" => Agent!AgentTypeOK
      /\ part = "numbers" => Numbers!NumbersTypeOK
      => ClientPartsTyped
  BY QueueTypes, CallsTypes, IntentsTypes, ScopedTypes DEF ClientPartsTyped
<1>s. [Next]_vars => /\ (part = "queue")' <=> part = "queue"
                     /\ (part = "lock")' <=> part = "lock"
                     /\ (part = "channel")' <=> part = "channel"
                     /\ (part = "owner")' <=> part = "owner"
                     /\ (part = "scoped")' <=> part = "scoped"
                     /\ (part = "commands")' <=> part = "commands"
                     /\ (part = "journals")' <=> part = "journals"
                     /\ (part = "agent")' <=> part = "agent"
                     /\ (part = "numbers")' <=> part = "numbers"
  BY PartStays
<1> QED
  BY
    <1>1, <1>2, <1>3, <1>4, <1>5, <1>6, <1>7, <1>8, <1>9, <1>m, <1>s, QueueBehaves, LockBehaves, CallsBehaves,
    IntentsBehaves, ScopedBehaves, CommandsBehaves, JournalsBehaves, AgentBehaves, NumbersBehaves, PTL DEF Spec

\* The parts that make and keep machines keep their types.
ProviderPartsTyped ==
  /\ part = "image" => Image!ImageTypeOK
  /\ part = "workspaces" => Workspaces!WorkspaceTypeOK
  /\ part = "domains" => Domains!FactoryTypeOK
  /\ part = "stages" => Stages!StagesTypeOK

LEMMA ProviderTypesAreKept == Spec => []ProviderPartsTyped
<1>1. Image!ImageSpec => []Image!ImageTypeOK
  BY PromotionIsAlwaysEarned, ConstantsFit, PTL
<1>2. Platform!WorkspaceSpec => []Platform!WorkspaceTypeOK
  BY WorkspacesFits, Platform!WorkspaceTypesAreKept
<1>3. Platform!FactorySpec => []Platform!FactoryTypeOK
  BY DomainsFits, Platform!FactoryTypesAreKept
<1>4. Stages!StageSpec => []Stages!StagesTypeOK
  BY StagesAreEarned, ConstantsFit, PTL
<1>m. /\ part = "image" => Image!ImageTypeOK
      /\ part = "workspaces" => Platform!WorkspaceTypeOK
      /\ part = "domains" => Platform!FactoryTypeOK
      /\ part = "stages" => Stages!StagesTypeOK
      => ProviderPartsTyped
  BY WorkspacesTypes, DomainsTypes DEF ProviderPartsTyped
<1>s. [Next]_vars => /\ (part = "image")' <=> part = "image"
                     /\ (part = "workspaces")' <=> part = "workspaces"
                     /\ (part = "domains")' <=> part = "domains"
                     /\ (part = "stages")' <=> part = "stages"
  BY PartStays
<1> QED
  BY
    <1>1, <1>2, <1>3, <1>4, <1>m, <1>s, ImageBehaves, WorkspacesBehaves, DomainsBehaves, StagesBehaves,
    PTL DEF Spec

\* The residents and the devices keep their types.
DevicePartsTyped ==
  /\ part = "resident" => Resident!ResidentTypeOK
  /\ part = "portal" => Portal!PortalTypeOK
  /\ part = "browser" => Browser!BrowserTypeOK
  /\ part = "control" => Control!ControlTypeOK
  /\ part = "device" => Device!DeviceTypeOK
  /\ part = "requests" => Phone!ControlTypeOK
  /\ part = "headset" => Headset!QuestTypeOK
  /\ part = "android" => Android!AndroidTypeOK

LEMMA DeviceTypesAreKept == Spec => []DevicePartsTyped
<1>1. Platform!ResidentSpec => []Platform!ResidentTypeOK
  BY ResidentFits, Platform!ResidentTypesAreKept
<1>2. Platform!PortalSpec => []Platform!PortalTypeOK
  BY Platform!PortalTypesAreKept
<1>3. Platform!BrowserSpec => []Platform!BrowserTypeOK
  BY BrowserFits, Platform!BrowserTypesAreKept
<1>4. Control!ControlSpec => []Control!ControlTypeOK
  BY ControlTypesAreKept, ConstantsFit
<1>5. Device!DeviceSpec => []Device!DeviceTypeOK
  BY OneAlwaysHasThePhone, ConstantsFit, PTL
<1>6. Phone!ControlSpec => []Phone!ControlTypeOK
  BY PhoneTypesAreKept
<1>7. Platform!QuestSpec => []Platform!QuestTypeOK
  BY HeadsetFits, Platform!QuestTypesAreKept
<1>8. Android!AndroidSpec => []Android!AndroidTypeOK
  BY UnlocksAreAlwaysSafe, ConstantsFit, PTL
<1>m. /\ part = "resident" => Platform!ResidentTypeOK
      /\ part = "portal" => Platform!PortalTypeOK
      /\ part = "browser" => Platform!BrowserTypeOK
      /\ part = "control" => Control!ControlTypeOK
      /\ part = "device" => Device!DeviceTypeOK
      /\ part = "requests" => Phone!ControlTypeOK
      /\ part = "headset" => Platform!QuestTypeOK
      /\ part = "android" => Android!AndroidTypeOK
      => DevicePartsTyped
  BY ResidentTypes, PortalTypes, BrowserTypes, HeadsetTypes DEF DevicePartsTyped
<1>s. [Next]_vars => /\ (part = "resident")' <=> part = "resident"
                     /\ (part = "portal")' <=> part = "portal"
                     /\ (part = "browser")' <=> part = "browser"
                     /\ (part = "control")' <=> part = "control"
                     /\ (part = "device")' <=> part = "device"
                     /\ (part = "requests")' <=> part = "requests"
                     /\ (part = "headset")' <=> part = "headset"
                     /\ (part = "android")' <=> part = "android"
  BY PartStays
<1> QED
  BY
    <1>1, <1>2, <1>3, <1>4, <1>5, <1>6, <1>7, <1>8, <1>m, <1>s, ResidentBehaves, PortalBehaves, BrowserBehaves,
    ControlBehaves, DeviceBehaves, PhoneBehaves, HeadsetBehaves, AndroidBehaves, PTL DEF Spec

\* Every component keeps its types and the limits of its queues and counters, for
\* every value of the constants: also the queue of claims, the numbers of a guarded
\* channel and what waits for a browser extension.
THEOREM ComponentTypesAreKept == Spec => []ComponentTypeOK
<1>1. Init => part \in Part
  BY DEF Init
<1>2. part \in Part /\ [Next]_vars => (part \in Part)'
  BY PartStays
<1>3. part \in Part /\ ClientPartsTyped /\ ProviderPartsTyped /\ DevicePartsTyped => ComponentTypeOK
  BY DEF ClientPartsTyped, ProviderPartsTyped, DevicePartsTyped, ComponentTypeOK
<1> QED
  BY <1>1, <1>2, <1>3, ClientTypesAreKept, ProviderTypesAreKept, DeviceTypesAreKept, PTL DEF Spec

\* The admission queue keeps turns, an offer is to a free resource and a claim
\* vouched for is live, and two operations on the store do not meet, for any
\* number of connections and any lengths of leases; the last for two processes
\* at most, see LockRecovery.cfg (admission.py, claims.py).
THEOREM TurnsAreAlwaysKept == ASSUME AtMostTwo PROVE Spec => []TurnsAreKept
<1>1. Turns!QueueSpec => [](Turns!TurnsAreKept /\ Turns!OffersAreGood /\ Turns!VouchedClaimIsLive)
  <2>1. Turns!QueueSpec => []Turns!TurnsAreKept
    BY QueueFits, Turns!TurnsAreKeptAlways
  <2>2. Turns!QueueSpec => []Turns!OffersAreGood
    BY QueueFits, Turns!OffersStayGood
  <2>3. Turns!QueueSpec => []Turns!VouchedClaimIsLive
    BY QueueFits, Turns!VouchedClaimsAreLive
  <2> QED
    BY <2>1, <2>2, <2>3, PTL
<1>2. Lock!LockSpec => []Lock!Exclusion
  BY TwoNeverMeet, ConstantsFit
<1>3. /\ part = "queue" => Turns!TurnsAreKept /\ Turns!OffersAreGood /\ Turns!VouchedClaimIsLive
      /\ part = "lock" => Lock!Exclusion
      => TurnsAreKept
  BY QueueMeans DEF TurnsAreKept
<1>4. [Next]_vars => ((part = "queue")' <=> part = "queue") /\ ((part = "lock")' <=> part = "lock")
  BY PartStays
<1> QED
  BY <1>1, <1>2, <1>3, <1>4, QueueBehaves, LockBehaves, PTL DEF Spec

\* A claim goes by its release, with the entry it belongs to, or when its lease
\* is over, whatever the connections and the legacy callers do (claims.py).
THEOREM ClaimsAlwaysEndWithTheirOwn == Spec => ClaimsEndWithTheirOwn
<1>1. Turns!QueueSpec => [][Turns!EndsWithItsOwn]_(Turns!queueVars)
  BY QueueFits, Turns!ClaimsEndWithTheirOwnAlways DEF Turns!ClaimsEndWithTheirOwn
<1>2. [Next]_vars /\ (part = "queue" => [Turns!EndsWithItsOwn]_(Turns!queueVars))
        => [part = "queue" => Queue!EndsWithItsOwn]_vars
  BY QueueActs, QueueEndsWithItsOwn
<1>3. [Next]_vars => ((part = "queue")' <=> part = "queue")
  BY PartStays
<1> QED
  BY <1>1, <1>2, <1>3, QueueBehaves, PTL DEF Spec, ClaimsEndWithTheirOwn

\* Whoever waits for an answer of a guarded channel has one when it fails, and
\* the numbers arrive in order, with any number of threads (control_session.py).
THEOREM CallsAreAlwaysSettled == Spec => []CallsAreSettled
<1>1. Works!ChannelSpec => [](Works!FailureReachesEveryCall /\ Works!NumbersAreInOrder)
  BY Works!FailuresReachEveryCall, Works!NumbersStayInOrder, PTL
<1>2. (part = "channel" => Works!FailureReachesEveryCall /\ Works!NumbersAreInOrder) => CallsAreSettled
  BY CallsMeans DEF CallsAreSettled
<1>3. [Next]_vars => ((part = "channel")' <=> part = "channel")
  BY PartStays
<1> QED
  BY <1>1, <1>2, <1>3, CallsBehaves, PTL DEF Spec

\* No request is carried out twice, however many sessions it is handed to
\* (control_session.py and the command line that drives it).
THEOREM NothingIsCarriedOutTwice == Spec => []NothingTwice
<1>1. Works!OwnerSpec => []Works!NothingTwice
  BY IntentsFits, Works!NothingIsDoneTwice
<1>2. (part = "owner" => Works!NothingTwice) => NothingTwice
  BY IntentsMeans DEF NothingTwice
<1>3. [Next]_vars => ((part = "owner")' <=> part = "owner")
  BY PartStays
<1> QED
  BY <1>1, <1>2, <1>3, IntentsBehaves, PTL DEF Spec

\* A task never outlives its lease, nor its authority, and a clean exit leaves
\* nothing, for leases of any length (scoped_run.py).
THEOREM AuthorityAlwaysOutlivesTask == Spec => []AuthorityOutlivesTask
<1>1. Works!RunSpec => [](Works!AuthorityOutlivesTask /\ Works!LeaseOutlivesTask /\ Works!CleanExitLeavesNothing)
  <2>1. Works!RunSpec => []Works!AuthorityOutlivesTask
    BY ScopedFits, Works!AuthorityIsHeldForTasks
  <2>2. Works!RunSpec => []Works!LeaseOutlivesTask
    BY ScopedFits, Works!TasksNeverOutliveTheirLease
  <2>3. Works!RunSpec => []Works!CleanExitLeavesNothing
    BY ScopedFits, Works!CleanExitsLeaveNothing
  <2> QED
    BY <2>1, <2>2, <2>3, PTL
<1>2. (part = "scoped" => Works!AuthorityOutlivesTask /\ Works!LeaseOutlivesTask /\ Works!CleanExitLeavesNothing)
        => AuthorityOutlivesTask
  BY ScopedMeans DEF AuthorityOutlivesTask
<1>3. [Next]_vars => ((part = "scoped")' <=> part = "scoped")
  BY PartStays
<1> QED
  BY <1>1, <1>2, <1>3, ScopedBehaves, PTL DEF Spec

\* A machine is passed on only as what it was seen to be: eligible with the claim
\* still held, confirmed by its guest with its password on the disk, or a base
\* with its three clean boots; for any number of operators, versions and boots.
THEOREM PassedOnAlwaysAsSeen == Spec => []PassedOnAsSeen
<1>1. Commands!CommandsSpec => [](Commands!EligibleIsHandedOff /\ Commands!FailureIsTold)
  BY CommandsPassOn, ConstantsFit, PTL
<1>2. Stages!StageSpec => [](Stages!HandoffIsEarned /\ Stages!PasswordIsKept /\ Stages!StagesLeadOn)
  BY StagesAreEarned, ConstantsFit, PTL
<1>3. Image!ImageSpec => []Image!PromotionIsEarned
  BY PromotionIsAlwaysEarned, ConstantsFit, PTL
<1>4. /\ part = "commands" => Commands!EligibleIsHandedOff /\ Commands!FailureIsTold
      /\ part = "stages" => Stages!HandoffIsEarned /\ Stages!PasswordIsKept /\ Stages!StagesLeadOn
      /\ part = "image" => Image!PromotionIsEarned
      => PassedOnAsSeen
  BY DEF PassedOnAsSeen
<1>5. [Next]_vars => /\ (part = "commands")' <=> part = "commands"
                     /\ (part = "stages")' <=> part = "stages"
                     /\ (part = "image")' <=> part = "image"
  BY PartStays
<1> QED
  BY <1>1, <1>2, <1>3, <1>4, <1>5, CommandsBehaves, StagesBehaves, ImageBehaves, PTL DEF Spec

\* A disk is never without a receipt or a domain that names it, a machine under
\* construction keeps its volumes, and the journals of a client are complete,
\* wherever a process dies (libvirt_provider.py, the factories, runs.py).
THEOREM NothingIsLostAnywhere == Spec => []NothingIsLost
<1>1. Platform!WorkspaceSpec => []Platform!NothingIsLost
  BY WorkspacesFits, Platform!NothingIsEverLost
<1>2. Platform!FactorySpec => []Platform!CreatedKeepsItsVolumes
  BY DomainsFits, Platform!CandidatesKeepVolumes
<1>3. Journals!JournalsSpec => [](Journals!ReadyIsPaired /\ Journals!SuccessIsRecorded /\ Journals!PagesAreComplete)
  BY JournalsAreTrue, ConstantsFit, PTL
<1>4. /\ part = "workspaces" => Platform!NothingIsLost
      /\ part = "domains" => Platform!CreatedKeepsItsVolumes
      /\ part = "journals" => Journals!ReadyIsPaired /\ Journals!SuccessIsRecorded /\ Journals!PagesAreComplete
      => NothingIsLost
  BY WorkspacesMeans, DomainsMeans DEF NothingIsLost
<1>5. [Next]_vars => /\ (part = "workspaces")' <=> part = "workspaces"
                     /\ (part = "domains")' <=> part = "domains"
                     /\ (part = "journals")' <=> part = "journals"
  BY PartStays
<1> QED
  BY <1>1, <1>2, <1>3, <1>4, <1>5, WorkspacesBehaves, DomainsBehaves, JournalsBehaves, PTL DEF Spec

\* The control slot, the streams of the portal and the keys of a gesture have an
\* owner who is there, for any number of channels and keys (the Linux resident).
THEOREM NothingIsHeldForNobody == Spec => []NothingHeldForNobody
<1>1. Platform!ResidentSpec => []Platform!SlotIsOwned
  BY ResidentFits, Platform!SlotsAreOwned
<1>2. Platform!PortalSpec => [](Platform!StreamsAreOwned /\ Platform!GesturesLetGo)
  BY Platform!StreamsHaveOwners, Platform!GesturesHoldNothing, PTL
<1>3. /\ part = "resident" => Platform!SlotIsOwned
      /\ part = "portal" => Platform!StreamsAreOwned /\ Platform!GesturesLetGo
      => NothingHeldForNobody
  BY ResidentMeans, PortalMeans DEF NothingHeldForNobody
<1>4. [Next]_vars => ((part = "resident")' <=> part = "resident") /\ ((part = "portal")' <=> part = "portal")
  BY PartStays
<1> QED
  BY <1>1, <1>2, <1>3, <1>4, ResidentBehaves, PortalBehaves, PTL DEF Spec

\* An accepted action was carried out on the element it names, audits confirm
\* only what was never in doubt, a stale frame stops, and a numbered text tells
\* elements apart, for any number of snapshots, peers and elements.
THEOREM ResultsAreAlwaysTrue == Spec => []ResultsAreTrue
<1>1. Control!ControlSpec => []Control!AcceptedIsDone
  BY AcceptedIsAlwaysDone, ConstantsFit
<1>2. Platform!BrowserSpec => [](Platform!AuditsAreHonest /\ Platform!StaleStops)
  <2>1. Platform!BrowserSpec => []Platform!AuditsAreHonest
    BY BrowserFits, Platform!AuditsStayHonest
  <2>2. Platform!BrowserSpec => []Platform!StaleStops
    BY BrowserFits, Platform!StaleAlwaysStops
  <2> QED
    BY <2>1, <2>2, PTL
<1>3. Numbers!NumbersSpec => [](Numbers!TextsSayEnough /\ Numbers!NumbersStay)
  BY NumbersAreTrue, ConstantsFit, PTL
<1>4. /\ part = "control" => Control!AcceptedIsDone
      /\ part = "browser" => Platform!AuditsAreHonest /\ Platform!StaleStops
      /\ part = "numbers" => Numbers!TextsSayEnough /\ Numbers!NumbersStay
      => ResultsAreTrue
  BY BrowserMeans DEF ResultsAreTrue
<1>5. [Next]_vars => /\ (part = "control")' <=> part = "control"
                     /\ (part = "browser")' <=> part = "browser"
                     /\ (part = "numbers")' <=> part = "numbers"
  BY PartStays
<1> QED
  BY <1>1, <1>2, <1>3, <1>4, <1>5, ControlBehaves, BrowserBehaves, NumbersBehaves, PTL DEF Spec

\* A device lease is one process's, what was changed under it can be put back,
\* and a lock code is typed at most once by the one who knows it is safe, for
\* any number of processes, settings and restarts.
THEOREM DevicesAreAlwaysGivenBack == Spec => []DevicesAreGivenBack
<1>1. Device!DeviceSpec => [](Device!OneHasThePhone /\ Device!CollectedIsOwn)
  BY OneAlwaysHasThePhone, ConstantsFit, PTL
<1>2. Platform!QuestSpec => []Platform!ChangesAreRecoverable
  BY HeadsetFits, Platform!ChangesStayRecoverable
<1>3. Android!AndroidSpec => []Android!UnlocksAreSafe
  BY UnlocksAreAlwaysSafe, ConstantsFit, PTL
<1>4. /\ part = "device" => Device!OneHasThePhone /\ Device!CollectedIsOwn
      /\ part = "headset" => Platform!ChangesAreRecoverable
      /\ part = "android" => Android!UnlocksAreSafe
      => DevicesAreGivenBack
  BY HeadsetMeans DEF DevicesAreGivenBack
<1>5. [Next]_vars => /\ (part = "device")' <=> part = "device"
                     /\ (part = "headset")' <=> part = "headset"
                     /\ (part = "android")' <=> part = "android"
  BY PartStays
<1> QED
  BY <1>1, <1>2, <1>3, <1>4, <1>5, DeviceBehaves, HeadsetBehaves, AndroidBehaves, PTL DEF Spec

\* What a call is answered is what became of it: in the Linux resident, whose
\* late preflight also stays fenced, and for requests to an iPhone.
THEOREM AnswersAreAlwaysHonest == Spec => AnswersAreHonest
<1>1. Platform!ResidentSpec => [][Platform!IsHonest]_(Platform!residentVars)
  BY ResidentFits, Platform!AnswersStayHonest DEF Platform!AnswersAreHonest
<1>2. Platform!ResidentSpec => [][Platform!IsFenced]_(Platform!residentVars)
  BY ResidentFits, Platform!PreflightStaysFenced DEF Platform!PreflightIsFenced
<1>3. Phone!ControlSpec => [][Phone!TellsWhatHappened]_(Phone!controlVars)
  BY AnswersAreTold DEF Phone!AnswersTellWhatHappened
<1>4. /\ [Next]_vars
      /\ part = "resident" => [Platform!IsHonest]_(Platform!residentVars) /\ [Platform!IsFenced]_(Platform!residentVars)
      /\ part = "requests" => [Phone!TellsWhatHappened]_(Phone!controlVars)
      => [/\ part = "resident" => Resident!IsHonest /\ Resident!IsFenced
          /\ part = "requests" => Phone!TellsWhatHappened]_vars
  BY ResidentActs, ResidentIsHonest, ResidentIsFenced, PhoneActs
<1>5. [Next]_vars => ((part = "resident")' <=> part = "resident") /\ ((part = "requests")' <=> part = "requests")
  BY PartStays
<1> QED
  BY <1>1, <1>2, <1>3, <1>4, <1>5, ResidentBehaves, PhoneBehaves, PTL DEF Spec, AnswersAreHonest

\* After an outcome nobody knows nothing more goes out: no operation of the
\* agent before a reset, no byte after half a frame; and no transport of a
\* headset is opened under the lease of another.
THEOREM NothingGoesOutAfterUnknown == Spec => NothingAfterUnknown
<1>1. Agent!AgentSpec => [][Agent!SendsKnowing]_(Agent!agentVars)
  BY NothingIsSentBlind DEF Agent!UnknownNeedsReset
<1>2. Platform!BrowserSpec => [][Platform!EndsTorn]_(Platform!browserVars)
  BY BrowserFits, Platform!FramesStayWhole DEF Platform!FramesAreWhole
<1>3. Platform!QuestSpec => [][Platform!ListensUnleased]_(Platform!questVars)
  BY HeadsetFits, Platform!TransportIsKept DEF Platform!TransportStays
<1>4. /\ [Next]_vars
      /\ part = "agent" => [Agent!SendsKnowing]_(Agent!agentVars)
      /\ part = "browser" => [Platform!EndsTorn]_(Platform!browserVars)
      /\ part = "headset" => [Platform!ListensUnleased]_(Platform!questVars)
      => [/\ part = "agent" => Agent!SendsKnowing
          /\ part = "browser" => Browser!EndsTorn
          /\ part = "headset" => Headset!ListensUnleased]_vars
  BY AgentActs, BrowserActs, BrowserEndsTorn, HeadsetActs, HeadsetListensUnleased
<1>5. [Next]_vars => /\ (part = "agent")' <=> part = "agent"
                     /\ (part = "browser")' <=> part = "browser"
                     /\ (part = "headset")' <=> part = "headset"
  BY PartStays
<1> QED
  BY <1>1, <1>2, <1>3, <1>4, <1>5, AgentBehaves, BrowserBehaves, HeadsetBehaves, PTL DEF Spec, NothingAfterUnknown
=============================================================================
