-------------------------- MODULE AccessAdmission --------------------------
(***************************************************************************)
(* The resident's shared admission policy: class AccessAdmission of        *)
(* runtime/src/admission.ts.  Agents submit tasks for the desktop and for  *)
(* browser profiles; a person configures, pauses, defers, approves and     *)
(* takes over; the policy decides which task may act.                      *)
(*                                                                         *)
(* The object is synchronous, so one public method is one step.  The       *)
(* module keeps its private fields in one record, policy.  Most methods    *)
(* begin or end with the method tick(), here the operator Ticked; a method *)
(* that throws after its opening tick is the action Poll.                  *)
(*                                                                         *)
(* Time.  The code stores absolute deadlines and compares them with one    *)
(* monotonic clock.  Here each deadline is the time that remains until it, *)
(* 0 once it has passed, and Pass ages them all.  The code only ever       *)
(* compares a deadline with the clock, takes minima and maxima of          *)
(* deadlines that are not past, and adds to the clock, so nothing is lost. *)
(* Forever and beyond are deadlines that never come: the code's Infinity   *)
(* (until turned off, until Resume).                                       *)
(***************************************************************************)
EXTENDS Integers, FiniteSets

CONSTANTS
  Owner,        \* admitted channels (AdmissionOwner handles), each opened once
  Task,         \* intents: one identity per accepted submission
  Profile,      \* browser installation identities
  Request,      \* Task -> the immutable AdmissionRequest it carries
  Forever,      \* a deadline that never comes
  QueueLease,   \* 60 s: liveness of a waiting task
  ActiveLease,  \*  5 s: liveness of an active session
  OfferWindow,  \* 15 s: life of an activation offer
  ReturnNotice, \*  5 s: least warning after a takeover
  DelayMargin,  \*  1 s: what must remain after a scheduled start
  OwnerLimit,   \* 256 open channels
  LiveLimit,    \* 256 live tasks
  TaskLimit,    \*   4 live tasks of one owner
  Retained      \* 256 ended tasks kept for inspection and deduplication

CONSTANTS       \* the inputs a run enumerates, and the bounds on counters
  Configurations, \* [Surface -> set of [mode, left, profiles]]
  PreferenceChoices, \* set of [desktop, browser, yieldWait, reapprove]
  InitialPreferences,
  NoticeChoices,  \* arguments of notice()
  VisibilityChoices, \* [Surface -> set of [ready, notice]]
  InputChoices,   \* values the adapter reports to inputReady()
  PauseReason, PauseTimes,
  InputSurfaces,  \* surfaces on which a person may be seen typing
  Delays,         \* arguments of approve() and postpone(), 0 included
  DeferTimes, Renewals, HoldAllowed, StopAllowed,
  MaxGeneration, MaxEpoch

Surface == {"desktop", "browser"}
Scope == Surface \union {"all"}
Mode == {"off", "ask", "automatic"}
Resource == {"desktop", "human-input"} \union Profile
Waiting == {"waiting_for_resource", "waiting_for_approval", "paused",
            "announcing", "offered"}
Reserving == {"announcing", "offered", "active"}
Live == Waiting \union {"active"}
NotApproved == -1

ASSUME ConstantsAreNatural ==
  /\ Forever \in Nat \ {0} /\ QueueLease \in Nat \ {0} /\ ActiveLease \in Nat \ {0}
  /\ OfferWindow \in Nat \ {0} /\ ReturnNotice \in Nat \ {0} /\ DelayMargin \in Nat
  /\ OwnerLimit \in Nat /\ LiveLimit \in Nat /\ TaskLimit \in Nat /\ Retained \in Nat
  /\ MaxGeneration \in Nat /\ MaxEpoch \in Nat
  /\ HoldAllowed \in BOOLEAN /\ StopAllowed \in BOOLEAN

ASSUME TasksAreFinite == IsFiniteSet(Task)

\* What submit() validates of a request before it queues it (256-283).
ASSUME RequestsAreValid ==
  /\ Profile \intersect {"desktop", "human-input"} = {}
  /\ Request \in [Task -> [owner : Owner, key : STRING,
                           surfaces : (SUBSET Surface) \ {{}},
                           profiles : SUBSET Profile, disruptive : BOOLEAN,
                           wait : Nat \ {0}, duration : Nat \ {0}]]
  /\ \A t \in Task : Request[t].profiles = {} <=> "browser" \notin Request[t].surfaces

Preference == [desktop : Nat, browser : Nat, yieldWait : Nat \ {0}, reapprove : BOOLEAN]

ASSUME InputsAreTyped ==
  /\ Configurations \in [Surface -> SUBSET [mode : Mode, left : Nat \ {0}, profiles : SUBSET Profile]]
  /\ PreferenceChoices \subseteq Preference /\ InitialPreferences \in Preference
  /\ NoticeChoices \subseteq Nat /\ InputChoices \subseteq BOOLEAN
  /\ VisibilityChoices \in [Surface -> SUBSET [ready : BOOLEAN, notice : BOOLEAN]]
  /\ PauseTimes \subseteq Nat \ {0} /\ InputSurfaces \subseteq Surface
  /\ Delays \subseteq Nat /\ DeferTimes \subseteq Nat \ {0} /\ Renewals \subseteq Nat \ {0}

VARIABLE policy

-----------------------------------------------------------------------------
(* Time that remains, and small arithmetic. *)

Lesser(a, b) == IF a <= b THEN a ELSE b
Greater(a, b) == IF a >= b THEN a ELSE b

\* Mutant of Aged: a deadline that has passed goes on counting.
AgedPastZero(left, d) == IF left >= Forever THEN left ELSE left - d

\* The time left of a deadline once d more has passed.
Aged(left, d) == IF left >= Forever THEN left ELSE IF left > d THEN left - d ELSE 0

\* The earliest of the consent deadlines of task t's surfaces, and of x.
WithinConsent(p, t, x) ==
  LET consent(s) == IF s \in Request[t].surfaces THEN p.config[s].left ELSE Forever
  IN  Lesser(x, Lesser(consent("desktop"), consent("browser")))

-----------------------------------------------------------------------------
(* Requests. *)

YieldsToHuman(t) == Request[t].disruptive /\ "desktop" \in Request[t].surfaces

\* What a session of t owns, all of it or nothing.
Resources == [t \in Task |->
  Request[t].profiles
    \union (IF "desktop" \in Request[t].surfaces THEN {"desktop"} ELSE {})
    \union (IF YieldsToHuman(t) THEN {"human-input"} ELSE {})]

Conflict(t, u) == Resources[t] \intersect Resources[u] # {}

-----------------------------------------------------------------------------
(* The task record and the policy's fields. *)

Intent == [
  state : {"new", "ended", "forgotten"} \union Live,
  wait : Nat,        \* deadline
  task : Nat,        \* taskDeadline
  lease : Nat,       \* heartbeat
  stage : Nat,       \* noticeDeadline, offerDeadline or activeDeadline, by state
  notBefore : Nat,
  announced : BOOLEAN, held : BOOLEAN, skipNotice : BOOLEAN, yielded : BOOLEAN,
  approvals : [Surface -> Int], approvalEpochs : [Surface -> Int]]

\* A task not submitted yet; also, but for its state, one of which the code
\* reads nothing any more.
BlankIntent == [
  state |-> "new", wait |-> 0, task |-> 0, lease |-> 0, stage |-> 0, notBefore |-> 0,
  announced |-> FALSE, held |-> FALSE, skipNotice |-> FALSE, yielded |-> FALSE,
  approvals |-> [s \in Surface |-> NotApproved],
  approvalEpochs |-> [s \in Surface |-> NotApproved]]

EndedIntent == [BlankIntent EXCEPT !.state = "ended"]
ForgottenIntent == [BlankIntent EXCEPT !.state = "forgotten"]

PolicyState == [
  owners : [Owner -> {"new", "open", "closed"}],
  intents : [Task -> Intent],
  front : [Task -> SUBSET Task],  \* the tasks before this one in the list #intents
  config : [Surface -> [mode : Mode, left : Nat, generation : Nat]],
  profiles : SUBSET Profile,
  available : [Surface -> [ready : BOOLEAN, notice : BOOLEAN]],
  pauses : [Scope -> [PauseReason -> Nat]],          \* "all" is #globalPauses
  deferrals : [Resource -> [Surface -> Nat]],
  takeoverSurfaces : SUBSET Surface,
  inputReady : BOOLEAN,
  humanCooldown : Nat,
  postYieldWarning : BOOLEAN,
  preferences : Preference,
  approvalRequired : SUBSET Surface,
  approvalEpochs : [Surface -> Nat]]

Init ==
  policy = [
    owners |-> [o \in Owner |-> "new"],
    intents |-> [t \in Task |-> BlankIntent],
    front |-> [t \in Task |-> {}],
    config |-> [s \in Surface |-> [mode |-> "off", left |-> 0, generation |-> 0]],
    profiles |-> {},
    available |-> [s \in Surface |-> [ready |-> FALSE, notice |-> FALSE]],
    pauses |-> [c \in Scope |-> [r \in PauseReason |-> 0]],
    deferrals |-> [r \in Resource |-> [s \in Surface |-> 0]],
    takeoverSurfaces |-> {},
    inputReady |-> FALSE,
    humanCooldown |-> 0,
    postYieldWarning |-> FALSE,
    preferences |-> InitialPreferences,
    approvalRequired |-> {},
    approvalEpochs |-> [s \in Surface |-> 0]]

IsLive(p, t) == p.intents[t].state \in Live
IsActive(p, t) == p.intents[t].state = "active"   \* intent.session is set
LiveTasks(p) == {t \in Task : IsLive(p, t)}
Listed(p) == {t \in Task : p.intents[t].state \notin {"new", "forgotten"}}

-----------------------------------------------------------------------------
(* Why a task may not run. *)

\* Mutant of Denied: a consent that ran out still covers the task.
DeniedUnlessExpired(p, t) ==
  \E s \in Request[t].surfaces :
    \/ p.config[s].mode = "off"
    \/ s = "browser" /\ ~ (Request[t].profiles \subseteq p.profiles)

\* Consent does not cover the task: it ends (#denied).
Denied(p, t) ==
  \E s \in Request[t].surfaces :
    \/ p.config[s].mode = "off"
    \/ p.config[s].left = 0
    \/ s = "browser" /\ ~ (Request[t].profiles \subseteq p.profiles)

\* Something other than a takeover is in the way for now.
Obstructed(p, t) ==
  \/ \E c \in Request[t].surfaces \union {"all"}, r \in PauseReason : p.pauses[c][r] > 0
  \/ \E s \in Request[t].surfaces : ~ p.available[s].ready
  \/ p.intents[t].held
  \/ p.intents[t].notBefore > 0
  \/ YieldsToHuman(t) /\ ~ p.inputReady
  \/ \E r \in Resources[t], s \in Surface : p.deferrals[r][s] > 0

\* A task that may not run for now pauses (#blocks).
Blocked(p, t) == Obstructed(p, t) \/ (YieldsToHuman(t) /\ p.humanCooldown > 0)

\* A person has to say yes first (#needsApproval).
NeedsApproval(p, t) ==
  \E s \in Request[t].surfaces :
    /\ p.config[s].mode = "ask" \/ s \in p.approvalRequired
    /\ \/ p.intents[t].approvals[s] # p.config[s].generation
       \/ p.intents[t].approvalEpochs[s] # p.approvalEpochs[s]

\* How long the task is announced before it is offered (#noticeFor).
NoticeFor(p, t) ==
  LET shown(s, seconds) ==
        IF s \in Request[t].surfaces /\ p.available[s].notice THEN seconds ELSE 0
      returning == \/ p.intents[t].yielded
                   \/ p.postYieldWarning /\ YieldsToHuman(t)
  IN  IF p.intents[t].skipNotice THEN 0
      ELSE Greater(IF returning /\ p.available["desktop"].notice THEN ReturnNotice ELSE 0,
                   IF Request[t].disruptive
                   THEN Greater(shown("desktop", p.preferences.desktop),
                                shown("browser", p.preferences.browser))
                   ELSE 0)

-----------------------------------------------------------------------------
(* tick() in its four passes: leases and deadlines, the order of the list, *)
(* the reservation of resources, and the trimming of ended tasks.          *)

\* Mutant of Clocks: a heartbeat keeps a task for ever.
LeaseOnly(i) == {i.lease}

\* What must not run out for a live task: its lease, its deadline, the lifetime
\* of its session or offer, and, unless it is active, its wait.
Clocks(i) ==
  {i.lease, i.task}
    \union (IF i.state \in {"active", "offered"} THEN {i.stage} ELSE {})
    \union (IF i.state # "active" THEN {i.wait} ELSE {})

Overdue(p, t) == IsLive(p, t) /\ (Denied(p, t) \/ 0 \in Clocks(p.intents[t]))

\* Mutant of YieldedIntent: the new wait outlives the task.
YieldedPastDeadline(p, t) ==
  [p.intents[t] EXCEPT
     !.state = "paused", !.lease = QueueLease, !.stage = 0,
     !.wait = Greater(Request[t].wait, p.humanCooldown + NoticeFor(p, t) + OfferWindow)]

\* A yielded task waits anew: long enough for its cooldown, its warning and its
\* offer, never past its own task deadline.
YieldedIntent(p, t) ==
  LET return == p.humanCooldown + NoticeFor(p, t) + OfferWindow
  IN  [p.intents[t] EXCEPT
         !.state = "paused", !.lease = QueueLease, !.stage = 0,
         !.wait = Lesser(p.intents[t].task, Greater(Request[t].wait, return))]

\* Mutant of ToTail: an interrupted task comes first again.
ToHead(p, Y) ==
  [t \in Task |-> IF t \in Y THEN p.front[t] \intersect Y
                  ELSE IF t \in Listed(p) THEN p.front[t] \union Y ELSE {}]

\* The list with the tasks Y moved to its end, in the order they had.
ToTail(p, Y) ==
  [t \in Task |-> IF t \in Y THEN (Listed(p) \ Y) \union (p.front[t] \intersect Y)
                  ELSE p.front[t] \ Y]

\* The tasks X end; the sessions of Y are taken back and their tasks go to the
\* end of the list.
SweptOf(p, X, Y) ==
  [p EXCEPT
     !.intents = [t \in Task |-> IF t \in X THEN EndedIntent
                                 ELSE IF t \in Y THEN YieldedIntent(p, t)
                                 ELSE p.intents[t]],
     !.front = ToTail(p, Y)]

Interrupts(p, t) == IsActive(p, t) /\ Blocked(p, t) /\ ~ Overdue(p, t)

Swept(p) == SweptOf(p, {t \in Task : Overdue(p, t)}, {t \in Task : Interrupts(p, t)})

\* A task that may reserve its resources if nobody before it has them.
Eligible(p, t) ==
  /\ p.intents[t].state \in Waiting
  /\ ~ Blocked(p, t)
  /\ ~ NeedsApproval(p, t)
  /\ \A u \in Task : IsActive(p, u) => ~ Conflict(t, u)

\* Mutants of GrantedBy: only sessions reserve; the last in the list comes first.
GrantedAll(p, E, R) == R = E
GrantedFromTail(p, E, R) ==
  \A t \in E : t \in R <=> \A u \in R : t \in p.front[u] => ~ Conflict(t, u)

\* The walk over the list that reserves resources: a task gets all of its
\* resources if no session and no task granted before it owns one of them.
GrantedBy(p, E, R) ==
  \A t \in E : t \in R <=> \A u \in R \intersect p.front[t] : ~ Conflict(t, u)
GrantedAmong(p, E) == CHOOSE R \in SUBSET E : GrantedBy(p, E, R)
Granted(p) == GrantedAmong(p, {t \in Task : Eligible(p, t)})

\* Offered at once, or announced for some time first.
Announced(i, notice) ==
  [i EXCEPT !.announced = @ \/ notice > 0,
            !.state = IF notice = 0 THEN "offered" ELSE "announcing",
            !.stage = IF notice = 0 THEN OfferWindow ELSE notice]

GrantedIntent(p, t) ==
  LET i == p.intents[t]
  IN  IF i.state = "offered" THEN i
      ELSE Announced(i, IF i.state = "announcing" THEN i.stage ELSE NoticeFor(p, t))

\* Why task t waits although the tasks R were granted theirs: it is blocked, or
\* someone has what it needs, or nobody has approved it.
Reason(p, R, t) ==
  IF Blocked(p, t) THEN "paused"
  ELSE IF \E u \in Task : /\ IsActive(p, u) \/ u \in R \intersect p.front[t]
                          /\ Conflict(t, u)
  THEN "waiting_for_resource"
  ELSE "waiting_for_approval"

ArbitratedFor(p, R) ==
  [p EXCEPT !.intents = [t \in Task |->
     IF p.intents[t].state \notin Waiting THEN p.intents[t]
     ELSE IF t \in R THEN GrantedIntent(p, t)
     ELSE [p.intents[t] EXCEPT !.state = Reason(p, R, t), !.stage = 0]]]

Arbitrated(p) == ArbitratedFor(p, Granted(p))

\* Ended tasks with Retained younger ended tasks behind them.
Surplus(p) ==
  LET ended == {t \in Task : p.intents[t].state = "ended"}
  IN  {t \in ended : Cardinality({u \in ended : t \in p.front[u]}) >= Retained}

Trimmed(p) ==
  LET S == Surplus(p)
  IN  [p EXCEPT
         !.intents = [t \in Task |-> IF t \in S THEN ForgottenIntent ELSE p.intents[t]],
         !.front = [t \in Task |-> IF t \in S THEN {} ELSE p.front[t] \ S]]

\* Mutant of Ticked: resources are given out before the deadlines are looked at.
TickedLate(p) == Trimmed(Swept(Arbitrated(p)))

Ticked(p) == Trimmed(Arbitrated(Swept(p)))

-----------------------------------------------------------------------------
(* Channels and submissions. *)

Finished(p, T) ==
  [p EXCEPT !.intents = [t \in Task |-> IF t \in T /\ IsLive(p, t) THEN EndedIntent
                                        ELSE p.intents[t]]]

Open(o) ==
  /\ policy.owners[o] = "new"
  /\ Cardinality({c \in Owner : policy.owners[c] = "open"}) < OwnerLimit
  /\ policy' = [policy EXCEPT !.owners[o] = "open"]

\* Mutant of Close: the tasks of the channel live on.
CloseKeepingTasks(o) ==
  /\ policy.owners[o] = "open"
  /\ policy' = Ticked([policy EXCEPT !.owners[o] = "closed"])

Close(o) ==
  LET mine == {t \in Task : Request[t].owner = o}
  IN  /\ policy.owners[o] = "open"
      /\ policy' = Ticked([Finished(policy, mine) EXCEPT !.owners[o] = "closed"])

\* Mutant of Duplicate: a request is forgotten as soon as its task ended.
DuplicateLive(p, t) ==
  \E u \in LiveTasks(p) : /\ Request[u].owner = Request[t].owner
                          /\ Request[u].key = Request[t].key

\* Another listed task of the owner already carries the request's identifier.
Duplicate(p, t) ==
  \E u \in Listed(p) : /\ Request[u].owner = Request[t].owner
                       /\ Request[u].key = Request[t].key

QueueFull(p, t) ==
  \/ Cardinality(LiveTasks(p)) >= LiveLimit
  \/ Cardinality({u \in LiveTasks(p) : Request[u].owner = Request[t].owner}) >= TaskLimit

SubmittedIntent(t) ==
  [BlankIntent EXCEPT !.state = "waiting_for_resource", !.wait = Request[t].wait,
                      !.task = Request[t].wait + Request[t].duration,
                      !.lease = QueueLease]

\* Mutant of Queued: the list forgets that ended tasks stand in it.
QueuedBehindLive(p, t) ==
  [p EXCEPT !.intents[t] = SubmittedIntent(t), !.front[t] = LiveTasks(p)]

Queued(p, t) ==
  [p EXCEPT !.intents[t] = SubmittedIntent(t), !.front[t] = Listed(p)]

Submit(t) ==
  \E p \in {Ticked(policy)} :
    /\ policy.owners[Request[t].owner] = "open"
    /\ policy.intents[t].state = "new"
    /\ ~ Duplicate(p, t)
    /\ ~ QueueFull(p, t)
    /\ policy' = Ticked(Queued(p, t))

\* The task is listed and its channel is still open (#owned).
Owned(p, t) == p.owners[Request[t].owner] = "open" /\ t \in Listed(p)

\* inspect(owner, id, heartbeat = true)
Heartbeat(t) ==
  \E p \in {Ticked(policy)} :
    /\ Owned(p, t) /\ IsLive(p, t)
    /\ policy' = [p EXCEPT !.intents[t].lease =
                     IF IsActive(p, t) THEN ActiveLease ELSE QueueLease]

\* accept() with the number of the current offer, which its owner read before:
\* an offer that this call's own tick makes has a number nobody knows yet.
Accepted(p, t) ==
  LET i == p.intents[t]
      current == {s \in Request[t].surfaces : i.approvalEpochs[s] = p.approvalEpochs[s]}
  IN  [p EXCEPT
         !.intents[t] = [i EXCEPT
            !.state = "active", !.yielded = FALSE, !.skipNotice = FALSE, !.wait = 0,
            !.stage = Lesser(Request[t].duration, i.task), !.lease = ActiveLease],
         !.approvalRequired = @ \ current,
         !.postYieldWarning = @ /\ ~ YieldsToHuman(t)]

\* Mutant of Accept: the offer may be as young as the call.
AcceptAtOnce(t) ==
  \E p \in {Ticked(policy)} :
    /\ Owned(p, t)
    /\ p.intents[t].state = "offered"
    /\ policy' = Accepted(p, t)

Accept(t) ==
  \E p \in {Ticked(policy)} :
    /\ Owned(p, t)
    /\ policy.intents[t].state = "offered"
    /\ p.intents[t].state = "offered"
    /\ policy' = Accepted(p, t)

\* authorize() with the fence of the current session, p being the policy after
\* its tick.  It changes nothing else (Poll); an older fence is refused.
Authorized(p, t) == Owned(p, t) /\ IsActive(p, t)

\* Mutant of Renew: a renewal prolongs the consent as well.
RenewSliding(t, d) ==
  \E p \in {Ticked(policy)} :
    LET i == p.intents[t]
    IN  /\ Authorized(p, t)
        /\ policy' = [p EXCEPT
             !.intents[t] = [i EXCEPT !.stage = Greater(@, d), !.task = Greater(@, d),
                                      !.lease = ActiveLease],
             !.config = [s \in Surface |->
               IF s \in Request[t].surfaces THEN [@[s] EXCEPT !.left = Greater(@, d)]
               ELSE @[s]]]

Renew(t, d) ==
  \E p \in {Ticked(policy)} :
    LET i == p.intents[t]
        left == WithinConsent(p, t, Greater(i.stage, d))
    IN  /\ Authorized(p, t)
        /\ policy' = [p EXCEPT !.intents[t] =
                        [i EXCEPT !.stage = left, !.task = Greater(i.task, left),
                                  !.lease = ActiveLease]]

Cancel(t) ==
  \E p \in {Ticked(policy)} :
    /\ Owned(p, t) /\ IsLive(p, t)
    /\ policy' = Ticked(Finished(p, {t}))

-----------------------------------------------------------------------------
(* The person's decisions about one task. *)

\* Mutant of ApprovalRequired: approvals given before stay good.
ApprovalRequiredOnce(p, S) == [p EXCEPT !.approvalRequired = @ \union S]

\* #requireApproval
ApprovalRequired(p, S) ==
  [p EXCEPT !.approvalRequired = @ \union S,
            !.approvalEpochs = [s \in Surface |-> IF s \in S THEN @[s] + 1 ELSE @[s]]]

\* Mutant of DelayAllowed: consent is not looked at.
DelayFitsTask(p, t, d, notice) ==
  d + (IF d > 0 THEN notice + DelayMargin ELSE 0) < Lesser(p.intents[t].wait, p.intents[t].task)

\* #delayAllowed
DelayAllowed(p, t, d, notice) ==
  LET ceiling == WithinConsent(p, t, Lesser(p.intents[t].wait, p.intents[t].task))
  IN  d + (IF d > 0 THEN notice + DelayMargin ELSE 0) < ceiling

Approved(p, t, d) ==
  LET mine == Request[t].surfaces
      i == p.intents[t]
      q == [p EXCEPT !.intents[t] = [i EXCEPT
              !.approvals = [s \in Surface |-> IF s \in mine THEN p.config[s].generation ELSE @[s]],
              !.approvalEpochs = [s \in Surface |-> IF s \in mine THEN p.approvalEpochs[s] ELSE @[s]],
              !.held = FALSE, !.notBefore = d, !.skipNotice = TRUE]]
  IN  \* Allow ends the cooldown when nothing else is in the way.
      IF d = 0 /\ YieldsToHuman(t) /\ ~ Obstructed(q, t)
      THEN [q EXCEPT !.humanCooldown = 0]
      ELSE q

Approve(t, d) ==
  \E p \in {Ticked(policy)} :
    /\ IsLive(p, t) /\ ~ IsActive(p, t)
    /\ DelayAllowed(p, t, d, 0)
    /\ policy' = Ticked(Approved(p, t, d))

Postpone(t, d) ==
  \E p \in {Ticked(policy)} :
    /\ d > 0
    /\ IsLive(p, t) /\ ~ IsActive(p, t)
    /\ DelayAllowed(p, t, d, NoticeFor(p, t))
    /\ policy' = Ticked([p EXCEPT !.intents[t].notBefore = d])

HeldBy(p, t) ==
  ApprovalRequired([p EXCEPT !.intents[t].held = TRUE, !.intents[t].skipNotice = FALSE],
                   Request[t].surfaces)

Hold(t) ==
  \E p \in {Ticked(policy)} :
    /\ HoldAllowed /\ IsLive(p, t)
    /\ \A s \in Request[t].surfaces : p.approvalEpochs[s] < MaxEpoch
    /\ policy' = Ticked(HeldBy(p, t))

\* The click on a notice: it ends a cooldown that is the only thing in the way,
\* then the announcement.
Acknowledged(p, t) ==
  IF /\ p.intents[t].state = "paused" /\ p.intents[t].announced
     /\ p.humanCooldown > 0 /\ p.inputReady
     /\ ~ Obstructed(p, t)
     /\ ~ NeedsApproval(p, t)
  THEN Ticked([p EXCEPT !.humanCooldown = 0])
  ELSE p

StartNow(t) ==
  \E p \in {Ticked(policy)} : \E q \in {Acknowledged(p, t)} :
    /\ IsLive(p, t)
    /\ policy' = IF q.intents[t].state = "announcing"
                 THEN Ticked([q EXCEPT !.intents[t].stage = 0])
                 ELSE q

Deny(t) ==
  \E p \in {Ticked(policy)} :
    IsLive(p, t) /\ policy' = Ticked(Finished(p, {t}))

Defer(t, d) ==
  \E p \in {Ticked(policy)} :
    /\ IsLive(p, t)
    /\ policy' = Ticked([p EXCEPT !.deferrals = [r \in Resource |-> [s \in Surface |->
                   IF r \in Resources[t] /\ s \in Request[t].surfaces THEN d ELSE @[r][s]]]])

-----------------------------------------------------------------------------
(* The person's and the adapters' decisions about surfaces. *)

NewConsent(old, c) ==
  [mode |-> c.mode, left |-> IF c.mode = "off" THEN 0 ELSE c.left,
   generation |-> old.generation + 1]

\* A new consent ceiling ends every task that was admitted under the old one.
Reconfigured(p, s, c) ==
  LET old == {t \in Task : s \in Request[t].surfaces}
      dropped(r) == s = "browser" /\ r \in Profile /\ r \notin c.profiles
  IN  [Finished(p, old) EXCEPT
         !.approvalRequired = @ \ {s},
         !.config[s] = NewConsent(@, c),
         !.profiles = IF s = "browser" THEN c.profiles ELSE @,
         !.deferrals = [r \in Resource |->
                          IF dropped(r) THEN [x \in Surface |-> 0] ELSE @[r]]]

Configure(s, c) ==
  /\ policy.config[s].generation < MaxGeneration
  /\ policy' = Ticked(Reconfigured(policy, s, c))

SetPreferences(c) == policy' = [policy EXCEPT !.preferences = c]

\* notice(): one length for both surfaces.
Notice(d) == policy' = [policy EXCEPT !.preferences.desktop = d, !.preferences.browser = d]

Ready(s, v) ==
  /\ policy.available[s] # v
  /\ policy' = Ticked([policy EXCEPT !.available[s] = v])

\* Mutant of InputReady: it reports the loss of input observation too late.
InputReadyUnticked(b) == policy' = [policy EXCEPT !.inputReady = b]

InputReady(b) ==
  /\ policy.inputReady # b
  /\ policy' = Ticked([policy EXCEPT !.inputReady = b])

Pause(c, r, d) == policy' = Ticked([policy EXCEPT !.pauses[c][r] = d])

\* resume() of a pause.  To resume what is not paused changes nothing but what
\* Poll changes, and so does a report of what is known already.  Resuming
\* "physical_takeover" or "operator_deferral" lifts what input() or defer() set.
Resume(c, r) ==
  /\ policy.pauses[c][r] > 0
  /\ policy' = Ticked([policy EXCEPT !.pauses[c][r] = 0])

ResumeTakeover(c) ==
  LET rest == IF c = "all" THEN {} ELSE policy.takeoverSurfaces \ {c}
  IN  /\ \E s \in policy.takeoverSurfaces : c \in {s, "all"}
      /\ policy' = Ticked([policy EXCEPT
                              !.takeoverSurfaces = rest,
                              !.humanCooldown = IF rest = {} THEN 0 ELSE @])

ResumeDeferral(c) ==
  /\ \E r \in Resource, s \in Surface : policy.deferrals[r][s] > 0 /\ c \in {s, "all"}
  /\ policy' = Ticked([policy EXCEPT !.deferrals = [r \in Resource |-> [s \in Surface |->
                          IF c \in {s, "all"} THEN 0 ELSE @[r][s]]]])

\* Mutant of Interrupted: a task keeps its right to start without a warning.
InterruptedAsWelcome(p, t) == [p.intents[t] EXCEPT !.yielded = @ \/ IsActive(p, t)]

Interrupted(p, t) ==
  [p.intents[t] EXCEPT !.yielded = @ \/ IsActive(p, t), !.skipNotice = FALSE]

\* A deliberate key, button or scroll while a disruptive session is running.
TakenOver(p, s) ==
  LET fresh == p.humanCooldown = 0
      q == IF fresh /\ p.preferences.reapprove THEN ApprovalRequired(p, {"desktop"}) ELSE p
  IN  [q EXCEPT
         !.humanCooldown = IF fresh THEN p.preferences.yieldWait ELSE @,
         !.takeoverSurfaces = (IF fresh THEN {} ELSE @) \union {s},
         !.postYieldWarning = TRUE,
         !.intents = [t \in Task |->
            IF IsLive(p, t) /\ YieldsToHuman(t) THEN Interrupted(p, t) ELSE p.intents[t]]]

Input(s) ==
  \E p \in {Ticked(policy)} :
    /\ \E t \in Task : IsActive(p, t) /\ YieldsToHuman(t) /\ s \in Request[t].surfaces
    /\ p.preferences.reapprove => p.approvalEpochs["desktop"] < MaxEpoch
    /\ policy' = Ticked(TakenOver(p, s))

\* Everything ends and nothing is allowed until it is configured again.
Stop ==
  /\ StopAllowed
  /\ \A s \in Surface : policy.config[s].generation < MaxGeneration
  /\ policy' = [Finished(policy, Task) EXCEPT
                  !.config = [s \in Surface |->
                     [mode |-> "off", left |-> 0, generation |-> @[s].generation + 1]],
                  !.deferrals = [r \in Resource |-> [s \in Surface |-> 0]],
                  !.takeoverSurfaces = {}, !.humanCooldown = 0,
                  !.postYieldWarning = FALSE, !.approvalRequired = {}]

-----------------------------------------------------------------------------
(* Time, the host's timer, and every call that only ticks: status(),       *)
(* query(), authorize(), inspect() without heartbeat, mouse movement, and  *)
(* each call refused after its opening tick.                               *)

Poll == policy' = Ticked(policy)

AgedIntent(i, d) ==
  [i EXCEPT !.wait = Aged(@, d), !.task = Aged(@, d), !.lease = Aged(@, d),
            !.stage = Aged(@, d), !.notBefore = Aged(@, d)]

AgedPolicy(p, d) ==
  [p EXCEPT
     !.intents = [t \in Task |-> AgedIntent(p.intents[t], d)],
     !.config = [s \in Surface |-> [p.config[s] EXCEPT !.left = Aged(@, d)]],
     !.pauses = [c \in Scope |-> [r \in PauseReason |-> Aged(@[c][r], d)]],
     !.deferrals = [r \in Resource |-> [s \in Surface |-> Aged(@[r][s], d)]],
     !.humanCooldown = Aged(@, d)]

Pass == policy' = AgedPolicy(policy, 1)

\* Mutant of IntentDeadlines: nothing wakes the host for the end of a notice.
ClocksAsDeadlines(p, t) == Clocks(p.intents[t]) \union {p.intents[t].notBefore}

\* nextDeadline(): when the host's timer has to call tick() next.
IntentDeadlines(p, t) ==
  LET i == p.intents[t]
  IN  Clocks(i) \union {i.notBefore} \union (IF i.state = "announcing" THEN {i.stage} ELSE {})

Deadlines(p) ==
  {x \in (UNION {IntentDeadlines(p, t) : t \in LiveTasks(p)})
          \union {p.deferrals[r][s] : r \in Resource, s \in Surface}
          \union {p.pauses[c][r] : c \in Scope, r \in PauseReason}
          \union {p.humanCooldown}
          \union {p.config[s].left : s \in Surface} : x \in 1..Forever - 1}

TaskStep(t) ==
  \/ Submit(t)
  \/ Heartbeat(t)
  \/ Accept(t)
  \/ \E d \in Renewals : Renew(t, d)
  \/ Cancel(t)

PersonStep(t) ==
  \/ \E d \in Delays : Approve(t, d)
  \/ \E d \in Delays : Postpone(t, d)
  \/ Hold(t)
  \/ StartNow(t)
  \/ Deny(t)
  \/ \E d \in DeferTimes : Defer(t, d)

SurfaceStep ==
  \/ \E s \in Surface : \E c \in Configurations[s] : Configure(s, c)
  \/ \E c \in PreferenceChoices : SetPreferences(c)
  \/ \E d \in NoticeChoices : Notice(d)
  \/ \E s \in Surface : \E v \in VisibilityChoices[s] : Ready(s, v)
  \/ \E b \in InputChoices : InputReady(b)
  \/ \E c \in Scope, r \in PauseReason, d \in PauseTimes : Pause(c, r, d)
  \/ \E c \in Scope, r \in PauseReason : Resume(c, r)
  \/ \E c \in Scope : ResumeTakeover(c)
  \/ \E c \in Scope : ResumeDeferral(c)
  \/ \E s \in InputSurfaces : Input(s)
  \/ Stop

Next ==
  \/ \E o \in Owner : Open(o)
  \/ \E o \in Owner : Close(o)
  \/ \E t \in Task : TaskStep(t)
  \/ \E t \in Task : PersonStep(t)
  \/ SurfaceStep
  \/ Poll
  \/ Pass

Spec == Init /\ [][Next]_policy

\* Time passes, and the host's timer fires (main.ts 13-25).
FairSpec == Spec /\ WF_policy(Pass) /\ WF_policy(Poll)
=============================================================================
