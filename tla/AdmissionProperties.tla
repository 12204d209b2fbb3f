------------------------ MODULE AdmissionProperties ------------------------
(***************************************************************************)
(* What the admission policy promises, over the states and steps of        *)
(* AccessAdmission.  Promises about what the person said earlier need the  *)
(* history that module AdmissionHistory adds.                              *)
(***************************************************************************)
EXTENDS AccessAdmission

\* Every private field keeps its shape.
TypeOK == policy \in PolicyState

\* Two tasks that are announced, offered or active never share a resource:
\* the walk of tick() reserves, accept() adds nothing it did not reserve.
ReservationsDisjoint ==
  \A t, u \in Task :
    /\ t # u
    /\ policy.intents[t].state \in Reserving
    /\ policy.intents[u].state \in Reserving
    => ~ Conflict(t, u)

\* Whatever blocks a task (a pause, a hold, a schedule, a deferral of one of its
\* resources by any request, the cooldown after a takeover, an adapter that is
\* not ready) takes its session, offer and notice away in the very step that
\* sets it: no method leaves a reserving task with a reason to be paused.
ReservingIsUnblocked ==
  \A t \in Task : policy.intents[t].state \in Reserving => ~ Blocked(policy, t)

\* A live task always has a consent it was admitted under and a channel that is
\* still open: turning a surface off or closing the channel ends it at once.
LiveIsBacked ==
  \A t \in LiveTasks(policy) :
    /\ policy.owners[Request[t].owner] = "open"
    /\ \A s \in Request[t].surfaces : policy.config[s].mode # "off"
    /\ "browser" \in Request[t].surfaces => Request[t].profiles \subseteq policy.profiles

\* What authorize() lets through, however late the last tick was: a session
\* whose owner was heard from in time, under a running consent for exactly its
\* profiles, with nothing paused, deferred or taken over, and alone on its
\* resources.
AuthorizedIsPermitted ==
  \A p \in {Ticked(policy)}, t \in Task : Authorized(p, t) =>
    LET i == policy.intents[t]
    IN  /\ i.state = "active" /\ i.lease > 0 /\ i.stage > 0 /\ i.task > 0
        /\ policy.owners[Request[t].owner] = "open"
        /\ \A s \in Request[t].surfaces :
             /\ policy.config[s].mode # "off" /\ policy.config[s].left > 0
             /\ policy.available[s].ready
             /\ \A r \in PauseReason : policy.pauses[s][r] = 0
        /\ "browser" \in Request[t].surfaces => Request[t].profiles \subseteq policy.profiles
        /\ \A r \in PauseReason : policy.pauses["all"][r] = 0
        /\ \A r \in Resources[t], s \in Surface : policy.deferrals[r][s] = 0
        /\ YieldsToHuman(t) => policy.inputReady /\ policy.humanCooldown = 0
        /\ \A u \in Task \ {t} : Authorized(p, u) => ~ Conflict(t, u)

\* A task with an offer or a notice did not pass a conflicting task that stands
\* before it and could run: that one is blocked, unapproved, or kept out by the
\* owner of something else it needs.
NoOvertaking ==
  \A p \in {Ticked(policy)} :
    \A u \in Task : p.intents[u].state \in {"announcing", "offered"} =>
      \A t \in p.front[u] :
        IsLive(p, t) /\ Conflict(t, u) =>
          \/ Blocked(p, t)
          \/ NeedsApproval(p, t)
          \/ \E v \in Task \ {t, u} : p.intents[v].state \in Reserving /\ Conflict(t, v)

\* A second submission of the same request by the same channel never becomes a
\* second task, and neither one channel nor all together exceed their budget.
BudgetsHold ==
  /\ \A t, u \in Listed(policy) :
       /\ t # u /\ Request[t].owner = Request[u].owner
       => Request[t].key # Request[u].key
  /\ Cardinality(LiveTasks(policy)) <= LiveLimit
  /\ \A o \in Owner : Cardinality({t \in LiveTasks(policy) : Request[t].owner = o}) <= TaskLimit

\* The list #intents has one order: every two listed tasks are ordered, no task
\* stands before itself, and "before" is transitive.
ListIsOrdered ==
  /\ \A t \in Task : /\ t \notin policy.front[t]
                     /\ policy.front[t] \subseteq Listed(policy)
                     /\ \A u \in policy.front[t] : policy.front[u] \subseteq policy.front[t]
  /\ \A t, u \in Listed(policy) : t # u => t \in policy.front[u] \/ u \in policy.front[t]
  /\ \A t \in Task \ Listed(policy) : policy.front[t] = {}

\* A tick with no time between changes nothing: status(), query() and refused
\* calls, which tick as often as a client likes to poll, decide nothing.
TickIdempotent == \A p \in {Ticked(policy)} : Ticked(p) = p

\* A task scheduled for later can still start then: its start comes before its
\* wait, its own deadline and the consent of each of its surfaces run out.
ScheduleFits ==
  \A t \in Task :
    LET i == policy.intents[t]
    IN  i.state \in Waiting /\ i.notBefore > 0 =>
          /\ i.notBefore < i.wait /\ i.notBefore < i.task
          /\ \A s \in Request[t].surfaces : i.notBefore < policy.config[s].left

\* The host sleeps until nextDeadline(); nothing falls due before it, so a
\* timer set from it is never late for a transition that time alone causes.
TimerCovers ==
  \A p \in {Ticked(policy)} : \A due \in {Deadlines(p)} :
    LET early == IF due = {} THEN 1 ELSE (CHOOSE x \in due : \A y \in due : x <= y) - 1
    IN  \A q \in {AgedPolicy(p, early)} : Ticked(q) = q

-----------------------------------------------------------------------------

\* The task deadline is a ceiling: waiting, yielding, resuming and heartbeats
\* only spend it.  It is pushed out by nothing but a renewal, which needs a
\* session before and after and never reaches past the consent.
CeilingStep ==
  \A t \in Task :
    LET i == policy.intents[t]
        j == policy'.intents[t]
    IN  /\ j.task > i.task =>
             \/ i.state = "new"
             \/ /\ i.state = "active" /\ j.state = "active" /\ j.task = j.stage
                /\ \A s \in Request[t].surfaces : j.task <= policy'.config[s].left
        /\ j.state \in Waiting => j.wait <= j.task
CeilingHolds == [][CeilingStep]_policy

\* A session that is taken back goes behind every task that was waiting, so
\* resuming again and again never starves them; the others keep their order.
TailStep ==
  LET waits(t) == policy.intents[t].state \in Waiting /\ IsLive(policy', t)
      yields(t) == IsActive(policy, t) /\ policy'.intents[t].state \in Waiting
  IN  \A t, u \in Task :
        waits(u) => /\ yields(t) => u \in policy'.front[t]
                    /\ waits(t) => (u \in policy'.front[t] <=> u \in policy.front[t])
YieldedGoLast == [][TailStep]_policy

\* Sessions are exclusive use: all resources of a task at once, only when every
\* one of them was free before the step, and never passed on directly.
Arbiter == INSTANCE ExclusiveUse
             WITH Uses <- Resources, using <- {t \in Task : IsActive(policy, t)}
Arbitration == Arbiter!Spec

-----------------------------------------------------------------------------

\* No task waits for ever: it gets its session or it ends.
Settles == \A t \in Task : policy.intents[t].state \in Waiting
                             ~> policy.intents[t].state \notin Waiting

\* Under a finite consent every admitted task ends, however often its owner
\* renews and however often it is interrupted.
ConsentRunsOut ==
  \A t \in Task :
    /\ IsLive(policy, t)
    /\ \E s \in Request[t].surfaces : policy.config[s].left < Forever
    ~> ~ IsLive(policy, t)
=============================================================================
