----------------------------- MODULE Components -----------------------------
(***************************************************************************)
(* The components around the admission policy, beside each other.  They    *)
(* share no state, so a behaviour belongs to one part: part is chosen in   *)
(* the initial state, and only the variables of that component change.     *)
(* Constants have the names they have in the components, except where two  *)
(* components use one name for different things.                           *)
(***************************************************************************)
EXTENDS Endpoints, Sequences

CONSTANT Part   \* the components to check

VARIABLE part

(* Clients of a machine: claims, channels, scoped runs. *)
CONSTANTS Owner, Caller, Resource, Target, WaitLease, OfferLease, ActiveLease, WaitTime, Duration, Lifetime,
          MaxEntries, Retained
VARIABLES store, conn, view, given
Queue == INSTANCE ClaimQueue WITH answer <- given

CONSTANTS Thread, MaxCalls
VARIABLES call, chan, adapter
Calls == INSTANCE ControlChannel

CONSTANTS Requests, MaxSession, MaxOffer, Interval
VARIABLES intent, client, flight, carried
Intents == INSTANCE ControlOwner

CONSTANTS RunMode, Leases, Slow
VARIABLES run, lease
Scoped == INSTANCE ScopedRun WITH Modes <- RunMode, held <- lease

(* Providers of machines: disks and workspaces. *)
CONSTANTS Workspace, NoWorkspace, MaxTemporary, MaxRetained
VARIABLES host, receipt, job
Workspaces == INSTANCE LibvirtWorkspace

CONSTANTS LinuxCreation, WindowsCreation, NoCreation
VARIABLES domain, volume, making, taking
Domains == INSTANCE DomainFactory

(* Residents and devices. *)
CONSTANTS Channel, NoOwner
VARIABLES res, core, channel, ticket, told
Resident == INSTANCE LinuxResident WITH chan <- channel

CONSTANT Key
VARIABLES portal, screen, streams, gesture, held
Portal == INSTANCE LinuxPortal WITH media <- screen

CONSTANTS Peer, Authority, Audit, Outgoing
VARIABLES access, peer, authority, audit
Browser == INSTANCE LinuxBrowser

CONSTANT Setting
VARIABLES headset, task, lock, scripts, record
Headset == INSTANCE QuestLease WITH OneAtATime <- TRUE, ReadsFail <- FALSE

\* What the components ask of their constants.
ASSUME ConstantsFit ==
  /\ Queue!LeasesArePositive /\ Queue!TargetsAreResources /\ Queue!CallersAreNotOwners /\ Queue!OwnersAreFinite
  /\ Lock!NobodyIsNoProcess /\ Calls!CallsAreBounded /\ Intents!LimitsArePositive
  /\ Scoped!LeasesAreNatural /\ Scoped!ModesAreKnown /\ Journals!LimitsArePositive /\ Numbers!NumbersAreBounded
  /\ Commands!UsesAreKnown /\ Stages!BoundsAreKnown /\ Image!BootsAreBounded
  /\ Workspaces!LimitsAreNatural /\ Workspaces!NoWorkspaceIsNone /\ Domains!CreationsDiffer
  /\ Resident!NoOwnerIsNoChannel /\ Browser!AuthoritiesExist /\ Browser!BrowserLimits /\ Control!LimitsArePositive
  /\ Device!NobodyIsNoProcess /\ Headset!NobodyIsNoProcess /\ Android!ProcessesAreFinite

-----------------------------------------------------------------------------
(* The variables of the other components stay out of a behaviour.          *)
Absent == "absent"

Init ==
  /\ part \in Part
  /\ IF part = "queue" THEN Queue!QueueInit
     ELSE store = Absent /\ conn = Absent /\ view = Absent /\ given = Absent
  /\ IF part = "lock" THEN Lock!LockInit
     ELSE guard = Absent /\ place = Absent /\ read = Absent /\ late = Absent
  /\ IF part = "channel" THEN Calls!ChannelInit
     ELSE call = Absent /\ chan = Absent /\ adapter = Absent
  /\ IF part = "owner" THEN Intents!OwnerInit
     ELSE intent = Absent /\ client = Absent /\ flight = Absent /\ carried = Absent
  /\ IF part = "scoped" THEN Scoped!RunInit
     ELSE run = Absent /\ lease = Absent
  /\ IF part = "commands" THEN Commands!CommandsInit
     ELSE target = Absent /\ claimed = Absent /\ clients = Absent
  /\ IF part = "journals" THEN Journals!JournalsInit
     ELSE history = Absent /\ journal = Absent /\ writer = Absent /\ reader = Absent
  /\ IF part = "agent" THEN Agent!AgentInit
     ELSE server = Absent /\ worker = Absent /\ link = Absent
  /\ IF part = "numbers" THEN Numbers!NumbersInit
     ELSE app = Absent /\ belief = Absent /\ numbered = Absent
  /\ IF part = "image" THEN Image!ImageInit
     ELSE vm = Absent /\ image = Absent /\ command = Absent
  /\ IF part = "workspaces" THEN Workspaces!WorkspaceInit
     ELSE host = Absent /\ receipt = Absent /\ job = Absent
  /\ IF part = "domains" THEN Domains!FactoryInit
     ELSE domain = Absent /\ volume = Absent /\ making = Absent /\ taking = Absent
  /\ IF part = "stages" THEN Stages!StageInit
     ELSE candidate = Absent /\ media = Absent /\ files = Absent /\ jobs = Absent
  /\ IF part = "resident" THEN Resident!ResidentInit
     ELSE res = Absent /\ core = Absent /\ channel = Absent /\ ticket = Absent /\ told = Absent
  /\ IF part = "portal" THEN Portal!PortalInit
     ELSE portal = Absent /\ screen = Absent /\ streams = Absent /\ gesture = Absent /\ held = Absent
  /\ IF part = "browser" THEN Browser!BrowserInit
     ELSE access = Absent /\ peer = Absent /\ authority = Absent /\ audit = Absent
  /\ IF part = "control" THEN Control!ControlInit
     ELSE desktop = Absent /\ resident = Absent /\ shown = Absent /\ asked = Absent /\ reply = Absent
  /\ IF part = "device" THEN Device!DeviceInit
     ELSE handset = Absent /\ process = Absent /\ capture = Absent /\ taken = Absent
  /\ IF part = "requests" THEN Phone!ControlInit
     ELSE iphone = Absent /\ output = Absent /\ request = Absent /\ answer = Absent
  /\ IF part = "headset" THEN Headset!QuestInit
     ELSE headset = Absent /\ task = Absent /\ lock = Absent /\ scripts = Absent /\ record = Absent
  /\ IF part = "android" THEN Android!AndroidInit
     ELSE android = Absent /\ mutation = Absent /\ invocation = Absent

Step(p) ==
  /\ part = p /\ UNCHANGED part
  /\ IF p = "queue" THEN Queue!QueueNext ELSE UNCHANGED <<store, conn, view, given>>
  /\ IF p = "lock" THEN Lock!LockNext ELSE UNCHANGED <<guard, place, read, late>>
  /\ IF p = "channel" THEN Calls!ChannelNext ELSE UNCHANGED <<call, chan, adapter>>
  /\ IF p = "owner" THEN Intents!OwnerNext ELSE UNCHANGED <<intent, client, flight, carried>>
  /\ IF p = "scoped" THEN Scoped!RunNext ELSE UNCHANGED <<run, lease>>
  /\ IF p = "commands" THEN Commands!CommandsNext ELSE UNCHANGED <<target, claimed, clients>>
  /\ IF p = "journals" THEN Journals!JournalsNext ELSE UNCHANGED <<history, journal, writer, reader>>
  /\ IF p = "agent" THEN Agent!AgentNext ELSE UNCHANGED <<server, worker, link>>
  /\ IF p = "numbers" THEN Numbers!NumbersNext ELSE UNCHANGED <<app, belief, numbered>>
  /\ IF p = "image" THEN Image!ImageNext ELSE UNCHANGED <<vm, image, command>>
  /\ IF p = "workspaces" THEN Workspaces!WorkspaceNext ELSE UNCHANGED <<host, receipt, job>>
  /\ IF p = "domains" THEN Domains!FactoryNext ELSE UNCHANGED <<domain, volume, making, taking>>
  /\ IF p = "stages" THEN Stages!StageNext ELSE UNCHANGED <<candidate, media, files, jobs>>
  /\ IF p = "resident" THEN Resident!ResidentNext ELSE UNCHANGED <<res, core, channel, ticket, told>>
  /\ IF p = "portal" THEN Portal!PortalNext ELSE UNCHANGED <<portal, screen, streams, gesture, held>>
  /\ IF p = "browser" THEN Browser!BrowserNext ELSE UNCHANGED <<access, peer, authority, audit>>
  /\ IF p = "control" THEN Control!ControlNext ELSE UNCHANGED <<desktop, resident, shown, asked, reply>>
  /\ IF p = "device" THEN Device!DeviceNext ELSE UNCHANGED <<handset, process, capture, taken>>
  /\ IF p = "requests" THEN Phone!ControlNext ELSE UNCHANGED <<iphone, output, request, answer>>
  /\ IF p = "headset" THEN Headset!QuestNext ELSE UNCHANGED <<headset, task, lock, scripts, record>>
  /\ IF p = "android" THEN Android!AndroidNext ELSE UNCHANGED <<android, mutation, invocation>>

Next == \E p \in Part : Step(p)

vars == <<part, store, conn, view, given, guard, place, read, late, call, chan, adapter, intent, client, flight, carried,
          run, lease, target, claimed, clients, history, journal, writer, reader,
          server, worker, link, app, belief, numbered, vm, image, command,
          host, receipt, job, domain, volume, making, taking, candidate, media, files, jobs,
          res, core, channel, ticket, told, portal, screen, streams, gesture, held, access, peer, authority, audit,
          desktop, resident, shown, asked, reply, handset, process, capture, taken, iphone, output, request, answer,
          headset, task, lock, scripts, record, android, mutation, invocation>>

Spec == Init /\ [][Next]_vars

-----------------------------------------------------------------------------
(* What is checked.  A component that is not the chosen part stays in its  *)
(* initial state, so every conjunct speaks of its own part.                *)

\* Every component keeps its types and the limits of its queues and counters.
ComponentTypeOK ==
  /\ part \in Part
  /\ part = "queue" => Queue!QueueTypeOK
  /\ part = "lock" => Lock!LockTypeOK
  /\ part = "channel" => Calls!ChannelTypeOK
  /\ part = "owner" => Intents!OwnerTypeOK
  /\ part = "scoped" => Scoped!RunTypeOK
  /\ part = "commands" => Commands!CommandsTypeOK
  /\ part = "journals" => Journals!JournalsTypeOK
  /\ part = "agent" => Agent!AgentTypeOK
  /\ part = "numbers" => Numbers!NumbersTypeOK
  /\ part = "image" => Image!ImageTypeOK
  /\ part = "workspaces" => Workspaces!WorkspaceTypeOK
  /\ part = "domains" => Domains!FactoryTypeOK
  /\ part = "stages" => Stages!StagesTypeOK
  /\ part = "resident" => Resident!ResidentTypeOK
  /\ part = "portal" => Portal!PortalTypeOK
  /\ part = "browser" => Browser!BrowserTypeOK
  /\ part = "control" => Control!ControlTypeOK
  /\ part = "device" => Device!DeviceTypeOK
  /\ part = "requests" => Phone!ControlTypeOK
  /\ part = "headset" => Headset!QuestTypeOK
  /\ part = "android" => Android!AndroidTypeOK

\* The admission queue keeps turns: nobody is overtaken, an offer is to the
\* first in line, and a claim vouched for is live (admission.py).  Two
\* operations on the store do not meet in it either (claims.py); of three,
\* two can, see LockRecovery.cfg.
TurnsAreKept ==
  /\ part = "queue" => Queue!TurnsAreKept /\ Queue!OffersAreGood /\ Queue!VouchedClaimIsLive
  /\ part = "lock" => Lock!Exclusion

\* A claim is ended only by the owner who has it, or by its lease (claims.py).
ClaimsEndWithTheirOwn == [][part = "queue" => Queue!EndsWithItsOwn]_vars

\* Every call of a guarded channel ends when the channel does, and the adapter
\* sees the numbers of the calls in order (control_session.py).
CallsAreSettled ==
  part = "channel" => Calls!FailureReachesEveryCall /\ Calls!NumbersAreInOrder

\* A request handed from session to session is not carried out twice
\* (control_session.py and the command line that drives it).
NothingTwice == part = "owner" => Intents!NothingTwice

\* A task under a lease never runs without it, and a run that says it left
\* nothing behind did (scoped_run.py).
AuthorityOutlivesTask ==
  part = "scoped" =>
    Scoped!AuthorityOutlivesTask /\ Scoped!LeaseOutlivesTask /\ Scoped!CleanExitLeavesNothing

\* A machine is passed on only as what it was seen to be: eligible, verified,
\* ready to be detached, with its password where a reader finds it.
PassedOnAsSeen ==
  /\ part = "commands" => Commands!EligibleIsHandedOff /\ Commands!FailureIsTold
  /\ part = "stages" => Stages!HandoffIsEarned /\ Stages!PasswordIsKept /\ Stages!StagesLeadOn
  /\ part = "image" => Image!PromotionIsEarned

\* What was made or done is not lost, whoever dies on the way: the disk of a
\* workspace or of a machine under construction has a receipt or an owner that
\* names it, and the journals of a client show its run, its result and every
\* page of its history.
NothingIsLost ==
  /\ part = "workspaces" => Workspaces!NothingIsLost
  /\ part = "domains" => Domains!CreatedKeepsItsVolumes
  /\ part = "journals" => Journals!ReadyIsPaired /\ Journals!SuccessIsRecorded /\ Journals!PagesAreComplete

\* A resident holds nothing for an owner who is gone: the control slot, the
\* portal's streams and the keys pressed by a gesture.
NothingHeldForNobody ==
  /\ part = "resident" => Resident!SlotIsOwned
  /\ part = "portal" => Portal!StreamsAreOwned /\ Portal!GesturesLetGo

\* A result says no more than was seen: an accepted action was carried out on
\* the element it names, an audit confirms only what was never in doubt, a
\* stale frame stops, and a numbered text tells elements apart.
ResultsAreTrue ==
  /\ part = "control" => Control!AcceptedIsDone
  /\ part = "browser" => Browser!AuditsAreHonest /\ Browser!StaleStops
  /\ part = "numbers" => Numbers!TextsSayEnough /\ Numbers!NumbersStay

\* A device lease is one process's, and what was changed under it can be put
\* back by whoever comes after it.
DevicesAreGivenBack ==
  /\ part = "device" => Device!OneHasThePhone /\ Device!CollectedIsOwn
  /\ part = "headset" => Headset!ChangesAreRecoverable
  /\ part = "android" => Android!UnlocksAreSafe

\* What is answered to a call is what became of it, also when the call is
\* cancelled, its owner goes away, or the target turns out another than before.
AnswersAreHonest ==
  [][/\ part = "resident" => Resident!IsHonest /\ Resident!IsFenced
     /\ part = "requests" => Phone!TellsWhatHappened]_vars

\* After an outcome nobody knows nothing more goes out: no operation before the
\* agent resets, no byte after half a frame; and no transport of a headset is
\* opened under the lease of another.
NothingAfterUnknown ==
  [][/\ part = "agent" => Agent!SendsKnowing
     /\ part = "browser" => Browser!EndsTorn
     /\ part = "headset" => Headset!ListensUnleased]_vars
=============================================================================
