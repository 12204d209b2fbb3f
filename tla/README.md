# Verification of machine-control

machine-control lets agents operate a person's computer: its desktop, its browser
profiles and its virtual machines. Between the agents and the machine stand a few
small programs that decide *who may act, when, and under which consent*, and around those the
clients, providers and device drivers that hold claims, leases, disks and settings while
processes die and answers come late. This directory models both in TLA+, checks them with
TLC on small instances, and proves the most important properties for every instance with
TLAPS.

Contents: [the system](#the-system), [the two policies modelled](#the-admission-policy),
[the components around them](#the-components-around-the-policies), [runs](#the-runs),
[proofs](#the-proofs), [findings](#findings), [not modelled](#not-modelled),
[where to go on](#where-to-go-on). `PROJECT.json` holds the machine-readable lists: components, runs,
mutants, the map from definitions to source lines, hazards and theorems. Paths below
are relative to the repository.

## The system

| part | state it keeps | operations | hard because |
|---|---|---|---|
| **Admission policy** `runtime/src/admission.ts` | list of tasks with five deadlines each, consents, pauses, deferrals, the takeover cooldown, approvals | submit, heartbeat, accept, renew, cancel; approve, postpone, hold, start now, deny, defer; configure, pause, resume, input, stop; tick | eight independent reasons block a task; one pass decides expiry, order and grants; tasks return after interruptions |
| **Browser policy** `runtime/src/core.ts` | connections, the approval and its generations, withdrawals, pending and unsettled requests, checkpoints | connect, approve, withdraw, availability, checkpoint and restore, request, begin, complete, cancel, stream fences | effects are carried out later; seven ways a request ends race with each other; replies are late, repeated or missing |
| Policy host `runtime/node/policy-host.ts`, `main.ts` | one checkpoint, the promises of native commands, one timer | a frame at a time; tick | deadlines added between frames; completion after an await |
| Extension provider `runtime/src/extension-provider.ts`, `provider-dispatch.ts` | calls in flight to the browser extension | submit, answer, late answer, loss | the extension reconnects between call and answer |
| Browser streams `runtime/src/streams.ts` | endpoints, streams, reserved bytes | open, frame, close, timeouts | budgets across half-open streams |
| Claim store `providers/claims/claims.py` | lock directory, one record per resource, shared by processes | acquire, check, renew, release; removal of a stale lock | processes die between two file operations |
| Claim queue `providers/claims/admission.py`, `admission_channel.py`, `client/claim_session.py` | queue entries in front of the claim store, a connection for each | submit, status, heartbeat, accept, cancel, sweep | a crash between entry and claim |
| Control session `client/control_session.py` | pending calls, a failure that is for good, the intent and its fence | call, heartbeat, renew, close; handoff of a request | three threads; requests carried out after the client gave up |
| Agent session `client/agent_session*.py` | a worker, a retained transport, numbers of elements | snippets, calls, reset | a killed worker after an unknown outcome; numbers that must not be reused |
| Scoped run `client/scoped_run.py` | a claim, a workspace, a process tree | acquire, run, renew, clean up | renewal and killing race the lease |
| Command line and journals `client/machine_control.py`, `*_journal.py`, `audit_history.py` | audit, provisioning journal | lifecycle, maintenance, claims, candidates, escapes | checks on a machine that others use; full or unwritable journals |
| Workspaces `providers/libvirt-linux/workspace_domain.py`, `providers/workspaces` | domains, volumes, receipts | derive, start, shut down, release | each command of virsh can be refused, time out, or be the last |
| Domain factory, VirtualBox images `domain_factory.py`, `virtualbox-windows` | domains, volumes, media; qualifications of boots | create, detach, delete; qualify, stop, promote | creations of one name at once; a machine that goes on meanwhile |
| Image factories `platforms/*/scripts/factory-stages.py`, `credential.py` | attestations, the credential and its pending copy | stage reports, attestation, handoff of a credential | commands and reports by several people over days |
| Linux resident `desktop/native/linux` | control slot, tickets, portal, browser peers | dispatch, Stop, configure, gestures, relay | coordinator, worker and recovery thread; the policy process dies |
| Linux appliance `platforms/linux/guests/ubuntu/ui` | snapshots and references | snapshot, act, type, launch | the screen changes; an effect whose call fails |
| Device platforms `platforms/ios`, `quest`, `android` | leases, journals of settings, log capture, a mutation lock | sessions, requests, recovery, unlock, reboot | a process is killed, a device restarts, a read fails |
| Windows residents `src/MachineControl.Windows` | deadlines of relock, prepared renewals, one-time grants | prepare, commit, extend, relock, unlock | three processes extend one deadline |
| macOS residents `platforms/macos` | the same, with other system calls | | |
| Desktop application `desktop/src-tauri` | a permit counter, files that survive a restart in an update | acquire, drop; resume, abandon | restart in the middle |
| Chrome extension `providers/chrome-extension` | requests in execution | execute, cancel | the service worker is unloaded at any time |
| Outer providers, other devices, release | mostly calls of other programs | | no protocol of their own |

How they interact: agents reach a resident over channels, and each channel is an
*owner* in the admission policy. The host process holds one admission policy and one
browser policy and calls them synchronously, one frame after another; both return
effects, which the host carries out. The browser policy's dispatch effects go to the
extension provider and from there to the Chrome extension. Time enters through one
timer, set to the smaller `nextDeadline()` of the two policies. The native residents
report readiness and human input to the admission policy. Claims are independent of
all of this: they are files between processes of clients.

Correctness, part by part:

* admission policy: never two sessions on one resource; nobody acts while anything
  forbids it; no approval, consent or deadline reaches further than it was given;
  nobody overtakes, nobody waits for ever;
* browser policy: nothing is pending without the authority it was accepted under;
  one result for a request; "safe to retry" is true; a withdrawn consent does not
  come back; a dead fence stays dead;
* claims: one holder, served in turn; a crash leaves something that can be recovered, and
  recovery ends nobody else's claim;
* sessions and runs: every call ends; nothing is done twice; no task outlives its authority;
* providers: what was made is named by something; only what was seen to work is passed on;
* residents: nothing is held for an owner who is gone; answers are true;
* devices: one process has the device; what it changed can be put back.

## The admission policy

| module | what it is |
|---|---|
| `AccessAdmission` | class `AccessAdmission`: all of its fields in the record `policy`, one action per public method that changes state |
| `AdmissionProperties` | invariants, action properties, refinement and liveness |
| `AdmissionHistory` | the same behaviours with a record of what the person decided, for promises about earlier decisions |
| `ExclusiveUse` | the abstract specification: a task takes all it uses at once, while none of it is in use |
| `AdmissionInputs`, `MCAccessAdmission`, `MCAdmissionHistory` | small instances for TLC |
| `AdmissionSafetyProofs` | theorems: types, order, disjoint reservations, the refinement; what a tick settles: polling decides nothing, nobody is overtaken, `authorize()` is right, the timer is never late |
| `AdmissionTaskProofs` | what a task may count on: backing, schedule, budgets, its deadline, its place after a yield; approvals and warnings, over `AdmissionHistory` |

The object is synchronous and calls nothing that changes it, so one method call is one
step. Correspondence of the less obvious parts:

* `tick()` is the operator `Ticked`, composed of its passes: `Swept` (leases, deadlines,
  consents; sessions taken back, moved to the end), `Arbitrated` (the walk that reserves
  resources) and `Trimmed` (ended tasks forgotten). Every method that ticks has it in
  its action. A method that throws after its opening `tick()` has changed the state as
  `Poll` does, and so have `status()`, `query()`, `authorize()` and mouse movement.
* Time. The code keeps absolute deadlines; the model keeps the time *remaining*, 0 once
  past, and `Pass` ages everything by one unit. The code only compares deadlines with
  the clock and takes minima and maxima of them, so both describe the same decisions.
  `Forever` is `Infinity`. Ages are bounded because the durations given are.
* The list `#intents` is the function `front`: for each task the tasks before it. Moves
  to the end and removals are one line each, and "walk in list order" becomes a
  recursion-free condition, `GrantedBy`, that has exactly one solution (proved as
  `GrantedIsDefined`), so that the module can be reasoned about without recursion.
* A task is one identity per accepted submission. `Request[t].key` is the client's
  request identifier: two tasks with one owner and key are a repeated submission.
* A report of what is known already and a `resume()` of what is not paused do what `Poll`
  does; `Ready`, `InputReady` and the three forms of `resume()` are guarded accordingly.
* `\E p \in {Ticked(policy)}` binds the policy after the opening tick of a method.
* Generations of resources are left out: they are part of a fence that also holds a
  session identifier never used twice.

**Reasons to pause.** `Blocked(p, t)` is "`#blocks` is not empty": any pause of the task's
surfaces or of everything, an adapter that is not ready, a hold, a schedule, unobserved
input, a deferral of one of its resources (all of these are `Obstructed(p, t)`), and the
takeover cooldown, which `approve()` and `startNow()` end when it is the only one. `Denied` is `#denied` and ends
a task; `NeedsApproval` is `#needsApproval` and makes it wait.

## The browser policy

| module | what it is |
|---|---|
| `ResidentCore` | class `ResidentCore`: its fields in the record `core`, one action per public method that changes state |
| `CoreProperties` | invariants, the action property and liveness |
| `CoreHistory` | the same behaviours with the consents the operator gave |
| `MCResidentCore`, `MCCoreHistory` | small instances |
| `CoreProofs` | theorems: types, pending requests, results and refusals; slots, timer, fences and consents, over `CoreHistory` |

The class returns effects instead of calling out. A dispatch effect stays in the field
`dispatches` until the host calls `begin()` for it, any number of other calls later:
that gap is where authority may change. `sent` are the commands a provider received;
a sent command may be completed any number of times, at any later moment or never
(`Complete`), which covers late, duplicated and lost replies and those of connections
that are gone. Three fields are there for the properties: `sent`, `finishes` (how many
results were issued) and `outcome` (what the last of them said). Objects compared by
identity (a `ProviderConnection`, an `Approval`) are their generation numbers. A refused
request changes what `tick()` changes, the action `Tick`. `Checkpoint(k)` may overwrite
the object kept in place `k`: a host may drop what it holds.

## The components around the policies

Each is a module of its own, with its state, an action for each step that another process
can come between, and its properties. Files and locks are shared by processes that may be
killed (`Die`, `Killed`); commands of other programs may be refused, or have their effect
without telling (`...Fails`, `...Lost`). Definitions of what is outside this repository
(virsh, phones, people, the operating system) are marked external in the map.

| module | code | what is checked of it |
|---|---|---|
| `StoreLock` | `store_lock`, `remove_stale_lock`: `mkdir`, the pid, the rename of a stale lock, each a step | two operations never meet in the store (`Exclusion`); with three, two can: see [findings](#findings) |
| `ClaimQueue` | every command on claims, the queue (the place of each owner in its list), its connections and their client | nobody is overtaken, an offer is to the first in line, a claim vouched for is live; a claim is ended only by its own owner or its lease, whoever dies inside `accept()` |
| `ControlChannel` | threads of `ControlSession`: `_rpc`, `_read`, `_fail`, `_keepalive`, `close`, and the adapter's loop | a failure reaches every call; numbers reach the adapter in order |
| `ControlOwner` | `wait`, `call`, `_keepalive`, the loop of `control call` and `control stream`, the handoff of a plain request | a request is carried out once, in order, and not after one in doubt |
| `ScopedRun` | class `Run`, `handle_run`, `ProcessTree` | a task never runs without its lease; what it held is released after it has ended; a clean exit leaves nothing |
| `ClientCommands` | commands of the command line with the checks before and after them, several clients and a machine that goes on | a candidate called eligible is handed off; a failure is told |
| `ClientJournals` | audit around every command, provisioning journal, usage note | what succeeded is recorded, a run called ready is paired, pages lose nothing |
| `AgentSession` | server and worker of the agent, retained transport | nothing is dispatched after an unknown outcome until the agent has reset |
| `ElementNumbers` | `_render_tree`: numbers and patches of an accessibility tree | a number keeps its element; the patched text tells elements apart |
| `VirtualBoxImage` | `adapter.py`, `images.py` | a promoted disk was seen through three boots and completed shutdowns, and not changed since |
| `LibvirtWorkspace` | `workspace_domain.py`, receipts, their shell driver | a volume or a domain is named by a receipt, or is of an operation under way |
| `DomainFactory` | `domain_factory.py`, two creations at once with a removal | a finished machine keeps its volumes |
| `FactoryStages` | stage reports of Linux and Windows, attestations, `credential.py` | a handoff was earned by each stage before it; the password is where a reader finds it; a stage leads on |
| `LinuxResident` | `desktop.py`, `work.py`, `access.py`, `channel.py`, `policy.py`: coordinator, worker, Stop, control slot | the slot has an owner; "refused" means not dispatched, "done" means under unbroken authority |
| `LinuxPortal` | `portal.py` | streams have an owner; a gesture lets go of every key it pressed |
| `LinuxBrowser` | `browser.py`: queues, writers, authorities, audits | audits confirm only what was never in doubt; a stale frame stops; nothing follows half a frame |
| `LinuxControl` | `linuxcontrol.py` | an accepted action was done on the element its reference was given for |
| `IosDevice` | lease and log capture of `ios_device.py` | one process has the phone; a collected log is its own |
| `IosControl` | typed requests, readback, files, reboot | the result says what happened, also when the readback or the phone fails |
| `QuestLease` | journal, settings and wireless switch of a headset | what was changed can be put back from the journal; nothing listens under another's lease |
| `AndroidUnlock` | guarded unlock and reboot | the PIN goes out once, to the boot that was observed, where no wipe threatens |

`Components` composes them: the constant `Part` names the components, a behaviour
chooses one of them, and the variables of the others stay `Absent`. The components share no
state in one process (each is a program of its own, on files of its own), so one at a time
shows all that their interleaving would, at a fraction of its states. Its properties are the
conjunctions of the components' properties that answer one question together, and
`ConstantsFit` is what the components assume of their constants. `Endpoints` declares the
components at the two ends (the store's lock, the client's session, journals and commands, the
factories' stages and images, the controls of a desktop and of phones) with their instances;
`Components` adds the rest. `MCComponents` is the small instance TLC checks, and
`ComponentProofs` proves the same properties for every value of the constants.

Proofs: `ClaimQueueProofs` (`ClaimQueue`), `ClientProofs` (`ControlOwner`, `ControlChannel`,
`ScopedRun`), `PlatformProofs` (`LinuxBrowser`, `LinuxPortal`, `LinuxResident`,
`LibvirtWorkspace`, `DomainFactory`, `QuestLease`), `EndpointProofs` (the components of
`Endpoints`) and `ComponentProofs` (the composition).

**Assumptions that stand as constants.** Where the code is right only under something it does
not enforce, a constant says so, the run sets it, and the other value breaks the property:

| constant | says | where the code relies on it |
|---|---|---|
| `OneTakeover` (`IosDevice`) | of three processes, two do not take over the dead one's lease at once | `acquire_lease` 1184-1195: judge, clean, unlink on a path |
| `OneTaker` (`AndroidUnlock`) | the same for the mutation lock; and none judges a lock without content | `mutation_lease` 126-134 |
| `BootIdReads` (`AndroidUnlock`) | a phone seen up answers the next read of its boot identifier | `reboot_device` 935-941 |
| `OneAtATime` (`QuestLease`) | two invocations do not begin or restore at once | the journal is read and then written without a lock, 631-660 |
| `ReadsFail` (`QuestLease`), FALSE | a failed read is not taken for an absent value | `read_remote_journal` 314-328, settings 295-301 |
| `ListingFails` (`IosControl`), FALSE | a listing of devices that fails is not taken for a disconnection | `wait_for_reboot_effect` 1331-1338 |

`ShortOperations` of `StoreLock` ("Normal claim operations are short", `claims.py` 162) is of
the other kind: `components` does not assume it, and `lock_recovery` does, so that what it
finds is not the work of a slow operation.

None of the others contradicts a statement of the repository, so they are assumptions here and
not findings; a maintainer may want to look at each.

## The runs

One unit of time stands for about five seconds; the durations 1 and 2 that most runs use
put every pair of deadlines in both orders, and limits of 1 to 3 are reached and exceeded.

| run | question | instance |
|---|---|---|
| `handoff` | Does anything keep a reservation while it is blocked (`ReservingIsUnblocked`)? Does polling decide anything (`TickIdempotent`)? Is the timer ever late (`TimerCovers`)? Do deadlines only shrink (`CeilingHolds`), and do interrupted tasks go last (`YieldedGoLast`)? | two disruptive desktop tasks of two channels, a person typing, an adapter that comes and goes |
| `authority` | Is everything that `authorize()` lets through permitted at that very moment, however late the last tick (`AuthorizedIsPermitted`)? Can a task that is put off still start then (`ScheduleFits`)? | a desktop and a compound task, consents that run out or are withdrawn, timed pauses, takeovers |
| `surfaces` | Are reservations disjoint, served in list order (`NoOvertaking`), and do sessions implement `ExclusiveUse` (`Arbitration`)? | a desktop task, a browser task and one that needs both, with approvals and deferrals |
| `channels` | Do budgets and deduplication hold, is every live task backed by an open channel and a consent (`LiveIsBacked`), is the list one order (`ListIsOrdered`)? | four submissions, two of one request, two channels, a browser whose adapter never reports, Stop, one ended task remembered |
| `approvals` | Does an approval open the gate only for its own task and situation (`ApprovalIsOwn`)? Is a task that returns after a takeover warned about (`ReturnIsWarned`)? | two tasks, Ask and Automatic, holds, Stop, and takeovers with and without reapproval |
| `waits` | Does every waiting task get its session or end (`Settles`)? Does a finite consent end it for good, however often it renews and is interrupted (`ConsentRunsOut`)? | one task that renews and yields without bound, held once and approved, both kinds of consent |
| `core_requests` | `PendingIsCurrent`, `OneResult`, `RefusedIsNeverSent`, `SlotsSuffice`, `TimerCovers` | three requests, two with one identifier, room for two; two connections, a write, a developer tool, approvals with and without an end |
| `core_consent` | Is authority ever more than the operator said (`ConsentIsOperators`)? Does a refused fence stay refused (`FencesStayDead`)? | two profiles, one checkpoint, approvals that run out, the screen locking, Stop |
| `core_finishes` | Does every request get its result (`Finishes`), with a silent provider and an approval without an end? | two requests, two connections; also the refusal of one known profile too many |
| `components` | the questions of the table above, as thirteen properties over 21 components | two or three processes, threads or tasks of each component, limits of 1 to 5; about 1,080,000 states |
| `lock_recovery` | Does the recovery of a stale lock keep two processes from the store (`Exclusion`)? **No.** | three processes, one of which dies in the store |
| `linux_refusals` | Is `refused` answered only when nothing was dispatched (`RefusedIsNotDispatched`)? **No.** | one element, two snapshots, two resident processes |

**Bounds.** `MaxGeneration`, `MaxEpoch`, `MaxConnection` and `MaxVersion` cap counters and
stand in the guards of the actions that count. `MaxEpoch = 1` lets a reapproval be asked
for once, which is enough for an approval given before it to be stale; `MaxGeneration = 2`
gives an approval and its replacement, and 4 in `core_consent` an approval, another or a
change of availability, and a restore. Two tasks are enough for conflicts and order; three
for the compound task that is kept out by the owner of something the task before it does
not need, the case in which list order is subtle. `Replies` are the answers a run enumerates: `core_requests` asks only whether there was one. Switches such as `HoldAllowed` and empty
input sets turn off inputs a run does not ask about; between them the runs take every
action. No run uses symmetry: tasks and commands differ in what they request.
In `components` each bound lets its case happen twice: two requests over two sessions and two
offers (`ControlOwner`), two calls of each of two threads (`ControlChannel`), two owners and a
caller of the legacy command on one resource (`ClaimQueue`), leases that are shorter and
longer than a renewal may take (`ScopedRun`: 5, 9 and 14 thirds of a second), five boots where
three are required, so that two can be spoilt (`VirtualBoxImage`), three elements for three
numbers, so that one can be replaced, moved and removed (`ElementNumbers`), one workspace of
each kind where two are asked for, two restarts of a phone for two
invocations, and three processes at the lease of a phone, so that two can find the third dead. Where a
module has a limit of the code (`Outgoing`, `Keep`, `MaxEntries`, `Retained`, `Page`,
`RunLimit`), the run sets it to 1, 2 or 4 and reaches it.

**Fairness.** `FairSpec` has weak fairness of `Pass` and of the tick (`Poll`, `Tick`). Time
passes by itself. The tick is justified by `schedule()` in `runtime/node/main.ts` (13-25):
the host sets a timer for `nextDeadline()` after each frame and each tick, and
`TimerCovers` shows for both policies that nothing falls due before it. Nothing is assumed
of agents, of the person or of providers.

**Deadlock** is checked in the runs of the two policies, where time can always pass. The
components are programs that end: a command, a run or a session is over, or its process died.

**Mutants.** For each property there is an operator, marked `Mutant ...`, that changes one
definition the way a plausible mistake would; put in its place, the property fails. The
modules of the components hold more of them than the list of mutants in `PROJECT.json`: a
property of `components` is a conjunction, and the others break its other conjuncts. One
that is worth knowing: that consents end tasks is protected twice, by the check at each tick
(`Denied`) and by the cap on each renewal (`WithinConsent`), and removing either one is not
enough to break `ConsentRunsOut`; only a renewal that prolongs the consent itself is.

## The proofs

All constants are arbitrary, under the assumptions named in the modules: numbers are
natural numbers, sets of tasks and commands are finite, requests have the shape that
`submit()` and `request()` validate, inputs have their types. No bound of a run is used.

*Admission policy.* `TypesAreKept` needs one lemma per action. For the rest the invariant is
`Safe`: the types, one order of the list (`OrderedIn`), disjoint reservations, and no reason
to pause a reserving task. It is inductive only together: the walk of `tick()` reserves in
list order, so `GrantedBy` has a solution only if the list is one order (`GrantedIsDefined`,
by a minimal element of a finite set), and its solution is disjoint from sessions only if
those were disjoint before. The argument is about `Ticked`: whatever a method did before its
closing tick, `TickedSafe` restores the invariant from a weaker one (types, order, disjoint
sessions); methods that do not tick (`QuietIsSafe`) touch none of it. Four theorems follow:
`ListStaysOrdered`, `ReservationsStayDisjoint`, `ReservationsStayUnblocked`, and
`SessionsAreExclusive`, which shows that the policy implements `ExclusiveUse` under the map
that takes the active tasks as the users.

*What a tick settles* (`AdmissionSafetyProofs`). A policy is `Settled` if no task is overdue, no
session is blocked, every waiting task has the state that the walk would give it, and no ended
task is surplus. `TickSettles`: each pass of `tick()` leaves what the later ones need (a sweep
leaves none overdue, the walk makes none overdue, a trim is done once). `SettledStays`: a tick of
a settled policy is the identity, since two policies that look alike to the walk have the same
grants (`SameWalk`; the solution of `GrantedBy` is unique by `OneOutcome`, an argument by a
smallest set of disagreement). The two together are `TicksAreIdempotent`. `NobodyOvertakes`
reads off a settled policy why the earlier task was not granted. `AuthorizedArePermitted` follows
from `SessionStays`: a session that a tick leaves alone was not overdue and not blocked. For
`TimersCover`, `SleepSettles`: ageing a settled policy by less than its earliest deadline leaves
it settled, so the tick at that moment does nothing.

*What a task may count on* (`AdmissionTaskProofs`). Each needs a different part of one invariant,
`Sound`, which is `Safe` with `TaskIn` (an open channel for each live task, waits within
deadlines, scheduled starts within waits and consents, no request twice, the budgets) and, after
a step that ticks, `ConsentedIn`. Steps are compared with relations between the policy before and
after: `Line` (states only go on, deadlines do not grow, an interrupted task goes behind),
`Good` (`Line`, and `TaskIn` is kept) and `Quiet` (nothing a task counts on has changed), which
compose with each other and with the tick (`QuietBetweenTicks`, `QuietBeforeTick`), so that a method
is a few lines: what it does between its ticks is quiet or it is treated by itself. The
invariants `LiveStaysBacked`, `SchedulesStayPossible`, `BudgetsAlwaysHold` and the action properties
`CeilingsHold` and `YieldedAlwaysGoLast` follow. The budgets are bounds on cardinalities: `Submit`
adds one task to a finite set that was not full.

*Decisions made earlier* (`AdmissionTaskProofs`). `Remembered` ties the policy to the history: an
approval of a live task that still counts is one the history knows (`ApprovedIn`), a waived
warning of a task that yields is one the history knows (`WelcomeIn`), and what is `gated` is in
`approvalRequired`. Methods that the history does not watch keep it because they give no live task
another approval or waiver (`Words`). `ApprovalsAreOwn` follows since an offer that stands after a
tick needs no approval (`TickedOffer`). `ReturnsAreWarned` needs in addition that no method brings
a task that owes a warning from before its announcement to the end of it (`Shyly`); `startNow()`
is the exception, and `approve()` records the waiver. That `ReturnNotice` is not zero
(`admission.ts` 199: 5000 ms) is part of `ConstantsAreNatural` for this theorem: with a zero
there would be no warning.

*Browser policy.* The invariant is `Sound`: types; the books of each command (`BooksKept`: a
result for each ended command and none for others, dispatched commands are sent and hold a
slot, unsent ones hold none, refused ones were never sent); and, for each pending command,
that it still has the approval, the generation, the connection, the profile and the
availability it was accepted under (`IsCurrent`). Every way in which authority ends goes
through `Ended`, and one lemma about it carries most of the proof. `PendingStaysCurrent`,
`ResultsComeOnce` and `RefusalsAreTrue` follow. A consequence is that the second half of
`begin()` (the recheck of authority, `StillAuthorized`) never refuses in this program: it is
a second line of defence.

*Browser policy over time* (`CoreProofs`, second half). A tick, and every way a request ends, only
takes (`Lessens`), so each argument is about the change a method makes after it.
`SlotsAlwaysSuffice`: no method retains more than one request more, and only where there was
room (`StepTakesOne`); the rest is the cardinality of finite sets. `TheTimerCovers`: a policy is
`Calm` if its approval and its pending requests have time left; a tick makes it calm, a calm one
is not changed by a tick, and less than its earliest deadline of sleep keeps it calm.
`FencesNeverRevive`: generations and connections only advance, and within one generation the
approval only gets narrower and nothing becomes available (`Advances`); a fence is never newer
than the policy (`FencesAreKnown`), so one that is valid after a step has the generation of
before, and was valid before. `AuthorityIsConsent` has the invariant `RestsOn`: what is approved of a
profile does not outlast the consent given for it, and the same holds of each checkpoint whose
count of withdrawals of that profile is still the current one. A checkpoint that a withdrawal has
overtaken stays behind for good.

*Owner of a control intent* (`ClientProofs`). `NothingTwice` of `ControlOwner`, for streams, sessions, offers
and leases of any length (`LimitsArePositive` is all that is assumed of the constants). It is
not inductive: what may still be carried out rests on what is in flight. `OwnerInv` adds that
at most the client's current request is in flight, unanswered, and everything before it came
out clean (`InFlight`); that the same holds where the client is about to send (`NotYetSent`);
and that an answer says what became of the request it answers (`AnswerIsTrue`). A step of the
client keeps it because the client goes on only on a clean answer or hands over only on a
refusal; a step of the provider because it takes the request out of flight as it answers.
`NothingIsDoneTwice` follows, and `OwnerTypesAreKept`, which it rests on. That a client that
gave up is covered is the point of `client.at = "over"` in `InFlight`: the request may be
carried out then, and nothing is sent after it.

*Guarded channel* (`ClientProofs`). For any number of threads and calls. A failure wakes the calls
that are pending, so `FailuresReachEveryCall` needs that the pending ones are exactly the calls that
are registered or sent and have no mail (`PendingAreWaiting`): a call is registered before its frame
is written, and taken out of `pending` by whoever puts its mail in the box. `NumbersStayInOrder`
needs that every number given out has been written (`EveryNumberIsWritten`), which the lock around
counter and write gives: what the adapter has served and what lies before it add up to `sequence`.
No bound of the calls is part of the argument. The bounds themselves are a theorem of their own
(`ChannelTypesAreKept`): the numbers given out are at most the calls that are past writing, of
which there are finitely many (`CallsInv`).

*Scoped runs* (`ClientProofs`). For leases of any length. `TasksNeverOutliveTheirLease` is an
argument about margins: a lease that is accepted has at least `MinLease`, a renewal is due after a
third of it, and what is left then is never less than `Margin`, two seconds, until the run has given
the child up; the grace of the kill is shorter than that. `RunSound` keeps, for each stage, what is
left against what is still to be waited for (`LeaseInv`), that only a stage with a claim has a child
(`ChildInv`), and what the provider holds against what the run says of itself (`HoldingInv`): a claim
while there is a child, nothing once the run is done without an error. `AuthorityIsHeldForTasks`,
`CleanExitsLeaveNothing` and `RunTypesAreKept` follow from the same invariant.

*Claims and their queue* (`ClaimQueueProofs`). For any finite set of connections, any callers and
resources and any leases. The two files are written one after the other, so the invariant
`QueueInv` relates them: a queued claim has its entry, live, on its own target and at work
(`ClaimsAreQueued`); an entry left `activating` is one of a process that died (`Connected`);
everyone live has a number of their own (`Numbers`). `refresh()` is `Offer` after `End`, and
`RefreshKeeps` says of it what all operations use: it keeps a good store good, an entry at work
after it is that of a living process with a heartbeat, and a claim it took was of a queued owner.
`TurnsAreKeptAlways`, `OffersStayGood` and `VouchedClaimsAreLive` follow (the last because a claim
that survived `refresh()` has an entry at work, and `activating` would mean that its process had
died, which `refresh()` would have seen). `ClaimsEndWithTheirOwnAlways` compares stores before and
after a step (`OnlyOwn`), a relation that goes through a refresh (`OwnThroughRefresh`). The list of
entries is kept as the place of each owner in it, 0 for none, so that "the last 128 that ended" and
"as many as fit" are counts of a finite set: no induction over a sequence is needed to show that an
admission loses nobody who is live (`AdmittedGives`). The limits of the store are proved from an
invariant of their own, `LimitsInv`, that adds to `QueueInv`: places are different numbers up to
`MaxEntries` (the live ones and those kept fit, by counting finite sets), what has been forgotten
had ended, and no more sequence numbers are given than connections have asked, each of which asks once
(`QueueTypesAreKept`).

*Browser transports* (`PlatformProofs`). For any peers, authorities, audits, queues and stops
(`AuthoritiesExist` is assumed for the placeholder in the initial state). The ghost `doubted` of an open
audit records that its authority went; `AuditsStayHonest` needs that this can be seen in the authority
itself: it has been given out, so that it is not given out again, and is gone or revoked for good
(`AuditSound`). `StaleAlwaysStops` needs that a frame nobody wants stays unwanted (generations only grow,
no authority is un-revoked: `Ages`), so that a writer who got one chunk of it out does not look at it
a second time (`WriterSound`); frames in a queue are never newer than access is. `FramesStayWhole`
needs that a torn peer has no writer. `BrowserTypesAreKept` is about its limits: no more than
`Outgoing` frames wait for a peer, and a policy that died counts no further generation.

*Derived workspaces* (`PlatformProofs`). For any workspaces and limits. `NothingIsLost` speaks of
workspaces nothing is being done with; `StageSound` says of the one under way, for each stage, whether
domain, volume and receipt exist, and that a definition that answered is remembered (`defined`), which is
what the cleanup of a failed derivation goes by. A step changes one workspace (`OneWorkspace`), goes on
(`GoesOn`), ends with it whole or gone (`EndsWhole`), or leaves it in doubt (`EndsInDoubt`).

*Lease of a headset* (`PlatformProofs`). For any settings and invocations, assuming `OneAtATime` and
not `ReadsFail`, the two conditions of the table above without which TLC finds the property violated.
Every copy of what to put back, in the journal or in an invocation, is what the user chose
(`HeadsetSound`, `TaskSound`): a new journal is only made where there is none, and a headset without one is as its user
left it. A restoration that missed nothing has put back each setting it is done with, so that the journal
is removed only from such a headset. That a switch opens the transport only without a journal
(`TransportIsKept`) rests on nobody else being under way between its look and its command.

*Factory candidates* (`PlatformProofs`). For any creations of either kind under one name. What is dangerous
is what takes volumes away by name: a rollback, and the removal of detached or deleted volumes one after
the other while the name may already belong to somebody else. `TakingSound` says that a volume still to be
taken was let go by its maker (`LetGo`): that one is removed, or was created and this is a medium its
domain has no more. A creation under way owns only volumes it made (`CreationSound`), so no rollback and no
removal meets a volume of another. `CandidatesKeepVolumes` follows.

*Desktop sharing* (`PlatformProofs`). `StreamsHaveOwners` rests on the portal showing a stream only while the
media thread has no job (`MediaSound`): close() then always finds the one slot free to dispose of it, and
an unwanted stream that comes late finds it free because `done()` frees it before `prepared()` runs.
One lemma on close() (`Closing`) carries all ways in which sharing ends. For `GesturesHoldNothing`,
what is held down is owed a release or was lost, and nothing is held under a portal that is not
ready (`GestureSound`).

*Desktop work* (`PlatformProofs`). For any number of owners. `SlotsAreOwned` and `AnswersStayHonest` come from
the two directions between the ticket and the owner that waits for it (`SlotSound`).
`PreflightStaysFenced` is the one that is not local: between the answer of the policy process and the last
check of the worker the session may be yielded and accepted by another, without the worker being
told. `SeenSound` says that who has the session is who the resident has seen to have it, and that a
confirmed ticket that is not cancelled is one of the owner seen: giving the session to another changes
what is seen, and that cancels the ticket. That an owner yields and gets the session back in
between leaves the ticket alone, as it may.

*Lock of the store* (`EndpointProofs`). `LockInv`: the directory is there while somebody holds it, the pid in it is of
somebody who is inside or died there, and who has judged a lock stale is the only one left. That the last
holds is where `AtMostTwo` (processes) is needed, the hypothesis of `TwoNeverMeet`: with three it is false,
which is the first finding below. `LockTypesAreKept` has no such hypothesis.

*Agent session* (`EndpointProofs`). `NothingIsSentBlind`: an outcome that nobody knows stays with a worker that
is dead or whose transport stopped, and `Call` is the only action that sends (`AgentInv`).

*Journals* (`EndpointProofs`). For any commands and lengths. What a command has come to says what the two journals have
of it, its intent before anything is sent and its result once it ends well (`CommandSound`); what a reader
has not read of what it first saw, and is still there, is older than its cursor (`ReaderSound`), which new events
never are, since they are numbered above all before them (`JournalsInv`). `JournalsAreTrue` follows.

*Commands of the client* (`EndpointProofs`). For any clients and uses. What is left to do of each command is on its
route (`OnRoute`; the routes are short, so what may be left is listed). `ClientSound` says of each client
what its report rests on: while its claim is live, the machine is off, owned by no workspace, and its
credential verified. That this is still so when it reports is not local: other clients and the machine take
steps in between. It holds because only the holder of a claim changes the machine (`GuardSpares`, `SparedTo`),
a machine never comes up from off by itself, and a later claim has another number. `CommandsPassOn` follows.

*Stages of a candidate* (`EndpointProofs`). For any versions and ages. A receipt is of a file that was accepted, what was
attested has happened, and a password that no receipt names yet is the pending one (`FilesSound`); what a
credential command has put beside the file is the pending one too (`CredentialSound`), and only one command has
anything there. `StagesAreEarned` follows; that an unfinished machine is always offered a command
(`StagesLeadOn`) is a case distinction over what its last stage left.

*Images* (`EndpointProofs`). For any number of boots. What is selected of a history is defined by counts of finite
sets (`Nth`, `Selected`), not by a recursive filter. No boot in the history lost its power or went off unasked
(`HistorySound`), nor did the qualified one as long as the machine is on or is being shut down (`QualifiedSound`);
cut boots are past ones (`MachineSound`), so that a base stays as good as it was when it was protected
(`BaseSound`). `PromotionIsAlwaysEarned` follows.

*Numbers of elements* (`EndpointProofs`). For any elements and texts. A number once given stays with its element,
and the texts that a model has been told keep elements apart (`NumbersInv`): `NumbersAreTrue`.

*Control of a desktop* (`EndpointProofs`). For any snapshots. What the resident remembers of a snapshot is what it
showed last under its own generation (`Remembered`), a call works on the element its reference was given out for
(`CallSound`), and an accepted reply is about that element (`ReplySound`): `AcceptedIsAlwaysDone`.

*Phones* (`EndpointProofs`). For any processes, restarts and captures. `OneAlwaysHasThePhone`: who uses the phone is in
its lease, and who judges a lease judges a dead one's, alone (`LeaseSound`); what is captured is of the session in
the state file, of one about to write it, or of one killed in between (`CaptureSound`). `AnswersAreTold` rests on what was sent,
stopped or lost at each stage of a request (`PhoneInv`). `UnlocksAreAlwaysSafe`: the tries the phone
counted are the invocations that sent the code (`Senders`), each of them at a phone seen with no wipe to
fear (`PinSound`), while its name was in the lock (`LockSound`). They are proved for the instances of `Endpoints`,
with the values of the table above: `OneTakeover`, `OneTaker` and `BootIdReads` hold, `ListingFails` does not.

*The composition* (`ComponentProofs`). A behaviour stays with the part it began with (`PartStays`). For each part
`..Begins` and `..Moves` show that its initial states and steps are those of the component the theorems
are about, `..Fits` that `ConstantsFit` gives what they assume, `..Means` and `..Types` that what they state is what is
said in `Components`; `..Behaves` puts that together: a behaviour of `Components` in this part is one of the
component. The theorems then join what each component was proved to do. Every invariant and action property that the
run `components` checks is one, `ComponentTypeOK` (with every limit of a queue or a counter) included; only
`TurnsAreAlwaysKept` has a hypothesis, `AtMostTwo`, because of the lock.

*Only model-checked.* Liveness (`Settles`, `ConsentRunsOut`, `Finishes`), which is out of the
prover's reach. Every other property that a passing run checks, invariants and action properties
alike, is a theorem. `PROJECT.json` lists the results a reader would look for; the theorems
on types of single components (`RunTypesAreKept`, `PortalTypesAreKept` and others) are proved with them,
and `ComponentTypesAreKept` rests on them.

## Findings

* **The grace period does not exclude the race it is there for** (`lock_recovery`,
  `claims.py` 157-188). The comment says that without a grace period "a third process can
  then create a new lock at the same path and have that live lock renamed as stale". The
  grace is looked at before the owner is judged, and the rename acts on the path: two
  processes that judge the lock of a dead one, one of them slower, are the same race. It needs
  three processes, a death in the store, and two that wait; two processes cannot do it, which
  `TurnsAreKept` shows.
* **`refused` is answered for what was dispatched** (`linux_refusals`, `linuxcontrol.py`
  910-946). `topics/capabilities-and-results.md` 214-215 defines `refused` as something having
  "prevented dispatch". `handle()` turns every exception into a refusal, also one raised after
  the pointer was moved, the clipboard taken, or the application started.

## Not modelled

In the modelled parts: the events and views given to user interfaces, wording of reasons,
checks of field shapes (stated as assumptions on requests), revision counters, the encoding
of operations and results, discovery and read-only commands. Generations of resources
(`admission.ts` 165 forgets them with a profile and starts again at one) are left out because
the fence also holds a session identifier never used twice. Of the checks of claims by
`channel.py` for each frame only the check is modelled, not the frames.

`request()` and `complete()` in `core.ts` settle expired requests first; `request()` can
still throw on malformed parameters afterwards (line 371), and the results of those expired
requests are then lost to the caller. The policy host validates parameters before it calls
(`policy-host.ts` 721), so no caller in the repository reaches this and the model's requests
are well-formed.

Whole parts, with the reason for each in `PROJECT.json`:

* the policy host and the extension provider compose what is modelled here with promises in
  one event loop; both policies in one composition are larger than TLC can take on;
* the Windows and macOS residents are C#, Swift and Objective-C over pipes, tokens and
  accessibility calls; their control flow has its counterpart in `LinuxResident`, except for
  the relock guardian;
* the desktop application, the Chrome extension, ChromeOS, Steam Deck, ADB, UTM, the bootstrap
  of macOS and the release scripts are mostly calls of other programs.

## Where to go on

1. The relock guardian of Windows (`PreparedRenewal.cs`, `DesktopRelockGuardian.cs`): resident,
   service and guardian with lost acknowledgements; theorem: the deadline of the guardian is
   never later than what the other two agreed to.
2. An abstract specification of a claim (held by one, until it lets go or its lease ends), which
   `ClaimQueue` implements and on which the guarded channel, the scoped run and the commands of
   the client rest; the proofs about each are there.
3. The extension provider alone, with its late answers and reconnections; abstract
   specification: each call is answered once.
4. Liveness of `ClaimQueue` under the fairness of its heartbeats.
