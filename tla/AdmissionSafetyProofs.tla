------------------------ MODULE AdmissionSafetyProofs ------------------------
(***************************************************************************)
(* Theorems about the admission policy, for every set of tasks, profiles   *)
(* and inputs: every field keeps its range, and the arbitration is sound.  *)
(* Reservations never overlap, nothing blocked keeps one, and sessions     *)
(* implement exclusive use.  The walk of tick() over the list is the       *)
(* operator Granted; that it has a value rests on the order of the list    *)
(* (ListIsOrdered), so the order is part of the inductive invariant.       *)
(*                                                                         *)
(* The second half is about one tick: what it decides, it decides for      *)
(* good.  A second tick with no time between changes nothing, and neither  *)
(* does one that comes before the deadline the host set its timer for.     *)
(* Both rest on the notion of a settled policy, whose every task already   *)
(* is where tick() would put it.  What a tick leaves standing is in turn   *)
(* what authorize() and the order of the list rest on.                     *)
(***************************************************************************)
EXTENDS AdmissionProperties, FiniteSetTheorems, TLAPS

-----------------------------------------------------------------------------
(* Types of the parts. *)

LEMMA RequestTyped ==
  ASSUME NEW t \in Task
  PROVE  /\ Request[t].owner \in Owner
         /\ Request[t].surfaces \subseteq Surface
         /\ Request[t].profiles \subseteq Profile
         /\ Request[t].disruptive \in BOOLEAN
         /\ Request[t].wait \in Nat /\ Request[t].duration \in Nat
         /\ Resources[t] \subseteq Resource
BY RequestsAreValid DEF Resources, Resource, Surface

LEMMA SmallerTyped ==
  ASSUME NEW a \in Nat, NEW b \in Nat
  PROVE  Lesser(a, b) \in Nat /\ Greater(a, b) \in Nat
BY DEF Lesser, Greater

LEMMA AgedTyped ==
  ASSUME NEW left \in Nat, NEW d \in Nat
  PROVE  Aged(left, d) \in Nat
BY ConstantsAreNatural DEF Aged

LEMMA NoticeTyped ==
  ASSUME NEW p \in PolicyState, NEW t \in Task
  PROVE  NoticeFor(p, t) \in Nat
<1>1. /\ p.preferences.desktop \in Nat /\ p.preferences.browser \in Nat
  BY DEF PolicyState, Preference
<1>2. QED
  BY <1>1, SmallerTyped, ConstantsAreNatural DEF NoticeFor, Greater

LEMMA BlankTyped == BlankIntent \in Intent /\ EndedIntent \in Intent /\ ForgottenIntent \in Intent
<1>1. BlankIntent \in Intent
  BY DEF BlankIntent, Intent, NotApproved
<1>2. EndedIntent \in Intent
  BY <1>1 DEF EndedIntent, Intent
<1>3. ForgottenIntent \in Intent
  BY <1>1 DEF ForgottenIntent, Intent
<1>4. QED
  BY <1>1, <1>2, <1>3

LEMMA PausedTyped ==
  ASSUME NEW i \in Intent, NEW w \in Nat
  PROVE  [i EXCEPT !.state = "paused", !.lease = QueueLease, !.stage = 0, !.wait = w] \in Intent
BY ConstantsAreNatural DEF Intent, Live, Waiting

LEMMA YieldedTyped ==
  ASSUME NEW p \in PolicyState, NEW t \in Task
  PROVE  YieldedIntent(p, t) \in Intent
<1>1. p.intents[t] \in Intent /\ p.humanCooldown \in Nat
  BY DEF PolicyState
<1> DEFINE w == Lesser(p.intents[t].task,
                       Greater(Request[t].wait, p.humanCooldown + NoticeFor(p, t) + OfferWindow))
<1>2. w \in Nat
  <2>1. p.humanCooldown + NoticeFor(p, t) + OfferWindow \in Nat
    BY <1>1, NoticeTyped, ConstantsAreNatural
  <2>2. Greater(Request[t].wait, p.humanCooldown + NoticeFor(p, t) + OfferWindow) \in Nat
    BY <2>1, RequestTyped, SmallerTyped
  <2>3. p.intents[t].task \in Nat
    BY <1>1 DEF Intent
  <2>4. QED
    BY <2>2, <2>3, SmallerTyped
<1>3. YieldedIntent(p, t) =
        [p.intents[t] EXCEPT !.state = "paused", !.lease = QueueLease, !.stage = 0, !.wait = w]
  BY DEF YieldedIntent
<1>4. QED
  BY <1>1, <1>2, <1>3, PausedTyped

LEMMA GrantedTyped ==
  ASSUME NEW p \in PolicyState, NEW t \in Task
  PROVE  GrantedIntent(p, t) \in Intent
<1>1. p.intents[t] \in Intent
  BY DEF PolicyState
<1>2. ASSUME NEW i \in Intent, NEW n \in Nat
      PROVE  Announced(i, n) \in Intent
  BY <1>2, ConstantsAreNatural DEF Announced, Intent, Live, Waiting
<1> DEFINE n == IF p.intents[t].state = "announcing" THEN p.intents[t].stage ELSE NoticeFor(p, t)
<1>3. n \in Nat
  BY <1>1, NoticeTyped DEF Intent
<1>4. GrantedIntent(p, t) \in {p.intents[t], Announced(p.intents[t], n)}
  BY DEF GrantedIntent
<1> HIDE DEF n
<1>5. QED
  BY <1>1, <1>2, <1>3, <1>4

\* A new value for the intents, or for the intents and the list.
LEMMA IntentsTyped ==
  ASSUME NEW p \in PolicyState, NEW f \in [Task -> Intent]
  PROVE  [p EXCEPT !.intents = f] \in PolicyState
BY DEF PolicyState

LEMMA FieldsTyped ==
  ASSUME NEW p \in PolicyState
  PROVE  p.intents \in [Task -> Intent] /\ p.front \in [Task -> SUBSET Task]
BY DEF PolicyState

-----------------------------------------------------------------------------
(* The four passes of tick() and the operations keep the types. *)

LEMMA SweptTyped == ASSUME NEW p \in PolicyState PROVE Swept(p) \in PolicyState
<1> DEFINE X == {t \in Task : Overdue(p, t)}
           Y == {t \in Task : Interrupts(p, t)}
           f == [t \in Task |-> IF t \in X THEN EndedIntent
                                ELSE IF t \in Y THEN YieldedIntent(p, t)
                                ELSE p.intents[t]]
<1>1. f \in [Task -> Intent]
  BY FieldsTyped, YieldedTyped, BlankTyped
<1>2. ToTail(p, Y) \in [Task -> SUBSET Task]
  BY FieldsTyped DEF ToTail, Listed
<1>3. Swept(p) = [p EXCEPT !.intents = f, !.front = ToTail(p, Y)]
  BY DEF Swept, SweptOf
<1> HIDE DEF f, Y
<1>4. QED
  BY <1>1, <1>2, <1>3 DEF PolicyState

LEMMA ArbitratedTyped == ASSUME NEW p \in PolicyState PROVE Arbitrated(p) \in PolicyState
<1> DEFINE R == Granted(p)
           f == [t \in Task |->
                   IF p.intents[t].state \notin Waiting THEN p.intents[t]
                   ELSE IF t \in R THEN GrantedIntent(p, t)
                   ELSE [p.intents[t] EXCEPT !.state = Reason(p, R, t), !.stage = 0]]
<1>1. ASSUME NEW i \in Intent, NEW x \in {"paused", "waiting_for_resource", "waiting_for_approval"}
      PROVE  [i EXCEPT !.state = x, !.stage = 0] \in Intent
  BY <1>1 DEF Intent, Live, Waiting
<1>2. \A t \in Task : Reason(p, R, t) \in {"paused", "waiting_for_resource", "waiting_for_approval"}
  BY DEF Reason
<1>3. Arbitrated(p) = [p EXCEPT !.intents = f]
  BY DEF Arbitrated, ArbitratedFor
<1> HIDE DEF R
<1>4. f \in [Task -> Intent]
  BY <1>1, <1>2, FieldsTyped, GrantedTyped
<1>5. QED
  BY <1>3, <1>4, IntentsTyped

LEMMA TrimmedTyped == ASSUME NEW p \in PolicyState PROVE Trimmed(p) \in PolicyState
<1> DEFINE S == Surplus(p)
           f == [t \in Task |-> IF t \in S THEN ForgottenIntent ELSE p.intents[t]]
           g == [t \in Task |-> IF t \in S THEN {} ELSE p.front[t] \ S]
<1>1. Trimmed(p) = [p EXCEPT !.intents = f, !.front = g]
  BY DEF Trimmed
<1> HIDE DEF S
<1>2. f \in [Task -> Intent] /\ g \in [Task -> SUBSET Task]
  BY FieldsTyped, BlankTyped
<1> HIDE DEF f, g
<1>3. QED
  BY <1>1, <1>2 DEF PolicyState

LEMMA TickedTyped == ASSUME NEW p \in PolicyState PROVE Ticked(p) \in PolicyState
BY SweptTyped, ArbitratedTyped, TrimmedTyped DEF Ticked

LEMMA FinishedTyped == ASSUME NEW p \in PolicyState, NEW T PROVE Finished(p, T) \in PolicyState
<1> DEFINE f == [t \in Task |-> IF t \in T /\ IsLive(p, t) THEN EndedIntent ELSE p.intents[t]]
<1>1. f \in [Task -> Intent]
  BY FieldsTyped, BlankTyped
<1>2. Finished(p, T) = [p EXCEPT !.intents = f]
  BY DEF Finished
<1>3. QED
  BY <1>1, <1>2, IntentsTyped

\* One intent of the policy replaced.
LEMMA IntentTyped ==
  ASSUME NEW p \in PolicyState, NEW t \in Task, NEW i \in Intent
  PROVE  [p EXCEPT !.intents[t] = i] \in PolicyState
BY DEF PolicyState

LEMMA SubmittedTyped == ASSUME NEW t \in Task PROVE SubmittedIntent(t) \in Intent
<1>1. ASSUME NEW i \in Intent, NEW w \in Nat, NEW d \in Nat
      PROVE  [i EXCEPT !.state = "waiting_for_resource", !.wait = w, !.task = d,
                       !.lease = QueueLease] \in Intent
  BY ConstantsAreNatural DEF Intent, Live, Waiting
<1>2. Request[t].wait \in Nat /\ Request[t].wait + Request[t].duration \in Nat
  BY RequestTyped
<1>3. QED
  BY <1>1, <1>2, BlankTyped DEF SubmittedIntent

LEMMA QueuedTyped == ASSUME NEW p \in PolicyState, NEW t \in Task PROVE Queued(p, t) \in PolicyState
BY SubmittedTyped DEF Queued, PolicyState, Listed

LEMMA AcceptedTyped == ASSUME NEW p \in PolicyState, NEW t \in Task PROVE Accepted(p, t) \in PolicyState
<1> DEFINE i == p.intents[t]
           j == [i EXCEPT !.state = "active", !.yielded = FALSE, !.skipNotice = FALSE, !.wait = 0,
                          !.stage = Lesser(Request[t].duration, i.task), !.lease = ActiveLease]
           current == {s \in Request[t].surfaces : i.approvalEpochs[s] = p.approvalEpochs[s]}
           required == p.approvalRequired \ current
           warning == p.postYieldWarning /\ ~ YieldsToHuman(t)
<1>1. i \in Intent /\ Lesser(Request[t].duration, i.task) \in Nat
  BY FieldsTyped, RequestTyped, SmallerTyped DEF Intent
<1>2. ASSUME NEW x \in Intent, NEW d \in Nat
      PROVE  [x EXCEPT !.state = "active", !.yielded = FALSE, !.skipNotice = FALSE, !.wait = 0,
                       !.stage = d, !.lease = ActiveLease] \in Intent
  BY <1>2, ConstantsAreNatural DEF Intent, Live
<1>3. j \in Intent
  BY <1>1, <1>2
<1>4. required \in SUBSET Surface /\ warning \in BOOLEAN
  BY DEF PolicyState
<1>5. Accepted(p, t) = [p EXCEPT !.intents[t] = j, !.approvalRequired = required,
                                 !.postYieldWarning = warning]
  BY DEF Accepted
<1> HIDE DEF j, required, warning
<1>6. [p EXCEPT !.intents[t] = j] \in PolicyState
  BY <1>3, IntentTyped
<1>7. ASSUME NEW q \in PolicyState
      PROVE  [q EXCEPT !.approvalRequired = required, !.postYieldWarning = warning] \in PolicyState
  BY <1>4 DEF PolicyState
<1>8. QED
  BY <1>5, <1>6, <1>7

LEMMA ConsentTyped ==
  ASSUME NEW p \in PolicyState, NEW t \in Task, NEW x \in Nat
  PROVE  WithinConsent(p, t, x) \in Nat
<1>1. p.config["desktop"].left \in Nat /\ p.config["browser"].left \in Nat
  BY DEF PolicyState, Surface
<1>2. QED
  BY <1>1, ConstantsAreNatural DEF WithinConsent, Lesser

LEMMA RequiredTyped ==
  ASSUME NEW p \in PolicyState, NEW S \in SUBSET Surface
  PROVE  ApprovalRequired(p, S) \in PolicyState
<1> DEFINE e == [s \in Surface |-> IF s \in S THEN p.approvalEpochs[s] + 1 ELSE p.approvalEpochs[s]]
<1>1. e \in [Surface -> Nat] /\ p.approvalRequired \union S \in SUBSET Surface
  BY DEF PolicyState
<1>2. ApprovalRequired(p, S) = [p EXCEPT !.approvalRequired = @ \union S, !.approvalEpochs = e]
  BY DEF ApprovalRequired
<1> HIDE DEF e
<1>3. QED
  BY <1>1, <1>2 DEF PolicyState

LEMMA ApprovedTyped ==
  ASSUME NEW p \in PolicyState, NEW t \in Task, NEW d \in Nat
  PROVE  Approved(p, t, d) \in PolicyState
<1> DEFINE mine == Request[t].surfaces
           i == p.intents[t]
           a == [s \in Surface |-> IF s \in mine THEN p.config[s].generation ELSE i.approvals[s]]
           e == [s \in Surface |-> IF s \in mine THEN p.approvalEpochs[s] ELSE i.approvalEpochs[s]]
           j == [i EXCEPT !.approvals = a, !.approvalEpochs = e,
                          !.held = FALSE, !.notBefore = d, !.skipNotice = TRUE]
           q == [p EXCEPT !.intents[t] = j]
<1>1. i \in Intent
  BY FieldsTyped
<1>2. a \in [Surface -> Int] /\ e \in [Surface -> Int]
  BY <1>1 DEF PolicyState, Intent
<1>3. Approved(p, t, d) \in {q, [q EXCEPT !.humanCooldown = 0]}
  BY DEF Approved
<1> HIDE DEF a, e, i
<1>4. j \in Intent
  BY <1>1, <1>2 DEF Intent
<1> HIDE DEF j
<1>5. q \in PolicyState
  BY <1>4, IntentTyped
<1> HIDE DEF q
<1>6. [q EXCEPT !.humanCooldown = 0] \in PolicyState
  BY <1>5 DEF PolicyState
<1>7. QED
  BY <1>3, <1>5, <1>6

LEMMA ReconfiguredTyped ==
  ASSUME NEW p \in PolicyState, NEW s \in Surface, NEW c \in Configurations[s]
  PROVE  Reconfigured(p, s, c) \in PolicyState
<1> DEFINE old == {t \in Task : s \in Request[t].surfaces}
           q == Finished(p, old)
           dropped(r) == s = "browser" /\ r \in Profile /\ r \notin c.profiles
           def == [r \in Resource |-> IF dropped(r) THEN [x \in Surface |-> 0] ELSE q.deferrals[r]]
           consent == NewConsent(q.config[s], c)
           known == IF s = "browser" THEN c.profiles ELSE q.profiles
<1>1. q \in PolicyState
  BY FinishedTyped
<1>2. c \in [mode : Mode, left : Nat \ {0}, profiles : SUBSET Profile]
  BY InputsAreTyped
<1>3. Reconfigured(p, s, c) =
        [q EXCEPT !.approvalRequired = @ \ {s}, !.config[s] = consent, !.profiles = known,
                  !.deferrals = def]
  BY DEF Reconfigured
<1> HIDE DEF q
<1>4. def \in [Resource -> [Surface -> Nat]]
  BY <1>1 DEF PolicyState
<1>5. consent \in [mode : Mode, left : Nat, generation : Nat]
  <2>1. q.config[s].generation \in Nat
    BY <1>1 DEF PolicyState
  <2>2. QED
    BY <1>2, <2>1 DEF NewConsent
<1>6. known \in SUBSET Profile
  BY <1>1, <1>2 DEF PolicyState
<1> HIDE DEF def, consent, known
<1>7. [q EXCEPT !.approvalRequired = @ \ {s}, !.config[s] = consent] \in PolicyState
  BY <1>1, <1>5 DEF PolicyState
<1>8. ASSUME NEW r \in PolicyState
      PROVE  [r EXCEPT !.profiles = known, !.deferrals = def] \in PolicyState
  BY <1>4, <1>6 DEF PolicyState
<1>9. QED
  BY <1>3, <1>7, <1>8

LEMMA TakenOverTyped ==
  ASSUME NEW p \in PolicyState, NEW s \in Surface
  PROVE  TakenOver(p, s) \in PolicyState
<1> DEFINE fresh == p.humanCooldown = 0
           q == IF fresh /\ p.preferences.reapprove THEN ApprovalRequired(p, {"desktop"}) ELSE p
           f == [t \in Task |-> IF IsLive(p, t) /\ YieldsToHuman(t) THEN Interrupted(p, t) ELSE p.intents[t]]
           wait == IF fresh THEN p.preferences.yieldWait ELSE q.humanCooldown
           surfaces == (IF fresh THEN {} ELSE q.takeoverSurfaces) \union {s}
<1>1. q \in PolicyState
  BY RequiredTyped DEF Surface
<1>2. f \in [Task -> Intent]
  <2>1. ASSUME NEW t \in Task PROVE Interrupted(p, t) \in Intent
    <3>1. p.intents[t] \in Intent
      BY FieldsTyped
    <3>2. QED
      BY <3>1 DEF Interrupted, Intent
  <2>2. QED
    BY <2>1, FieldsTyped
<1>3. TakenOver(p, s) = [q EXCEPT !.humanCooldown = wait, !.takeoverSurfaces = surfaces,
                                  !.postYieldWarning = TRUE, !.intents = f]
  BY DEF TakenOver
<1> HIDE DEF q, f
<1>4. wait \in Nat /\ surfaces \in SUBSET Surface
  BY <1>1 DEF PolicyState, Preference
<1> HIDE DEF wait, surfaces
<1>5. [q EXCEPT !.humanCooldown = wait, !.takeoverSurfaces = surfaces] \in PolicyState
  BY <1>1, <1>4 DEF PolicyState
<1>6. ASSUME NEW r \in PolicyState
      PROVE  [r EXCEPT !.postYieldWarning = TRUE, !.intents = f] \in PolicyState
  BY <1>2 DEF PolicyState
<1>7. QED
  BY <1>3, <1>5, <1>6

LEMMA AgedPolicyTyped ==
  ASSUME NEW p \in PolicyState, NEW d \in Nat
  PROVE  AgedPolicy(p, d) \in PolicyState
<1> DEFINE f == [t \in Task |-> AgedIntent(p.intents[t], d)]
           c == [s \in Surface |-> [p.config[s] EXCEPT !.left = Aged(@, d)]]
           u == [x \in Scope |-> [r \in PauseReason |-> Aged(p.pauses[x][r], d)]]
           e == [r \in Resource |-> [s \in Surface |-> Aged(p.deferrals[r][s], d)]]
           h == Aged(p.humanCooldown, d)
           q == [p EXCEPT !.intents = f, !.config = c]
           r == [q EXCEPT !.pauses = u]
<1>1. f \in [Task -> Intent]
  <2>1. ASSUME NEW i \in Intent PROVE AgedIntent(i, d) \in Intent
    <3>1. /\ Aged(i.wait, d) \in Nat /\ Aged(i.task, d) \in Nat /\ Aged(i.lease, d) \in Nat
          /\ Aged(i.stage, d) \in Nat /\ Aged(i.notBefore, d) \in Nat
      BY AgedTyped DEF Intent
    <3>2. QED
      BY <3>1 DEF AgedIntent, Intent
  <2>2. QED
    BY <2>1, FieldsTyped
<1>2. c \in [Surface -> [mode : Mode, left : Nat, generation : Nat]]
  <2>1. ASSUME NEW x \in [mode : Mode, left : Nat, generation : Nat]
        PROVE  [x EXCEPT !.left = Aged(@, d)] \in [mode : Mode, left : Nat, generation : Nat]
    <3>1. Aged(x.left, d) \in Nat
      BY AgedTyped
    <3>2. QED
      BY <3>1
  <2>2. p.config \in [Surface -> [mode : Mode, left : Nat, generation : Nat]]
    BY DEF PolicyState
  <2>3. QED
    BY <2>1, <2>2
<1>3. u \in [Scope -> [PauseReason -> Nat]]
  <2>1. \A x \in Scope, y \in PauseReason : p.pauses[x][y] \in Nat
    BY DEF PolicyState
  <2>2. \A x \in Scope, y \in PauseReason : Aged(p.pauses[x][y], d) \in Nat
    BY <2>1, AgedTyped
  <2>3. QED
    BY <2>2
<1>4. e \in [Resource -> [Surface -> Nat]]
  <2>1. \A x \in Resource, s \in Surface : p.deferrals[x][s] \in Nat
    BY DEF PolicyState
  <2>2. \A x \in Resource, s \in Surface : Aged(p.deferrals[x][s], d) \in Nat
    BY <2>1, AgedTyped
  <2>3. QED
    BY <2>2
<1>5. h \in Nat
  BY AgedTyped DEF PolicyState
<1>6. AgedPolicy(p, d) = [r EXCEPT !.deferrals = e, !.humanCooldown = h]
  BY DEF AgedPolicy
<1> HIDE DEF f, c, u, e, h
<1>7. q \in PolicyState
  BY <1>1, <1>2 DEF PolicyState
<1> HIDE DEF q
<1>8. r \in PolicyState
  BY <1>3, <1>7 DEF PolicyState
<1> HIDE DEF r
<1>9. QED
  BY <1>4, <1>5, <1>6, <1>8 DEF PolicyState

LEMMA InitTyped == Init => TypeOK
<1> SUFFICES ASSUME Init PROVE policy \in PolicyState
  BY DEF TypeOK
<1>1. InitialPreferences \in Preference
  BY InputsAreTyped
<1>2. QED
  BY <1>1, BlankTyped DEF Init, PolicyState, Mode

LEMMA TaskStepTyped ==
  ASSUME TypeOK, NEW t \in Task, TaskStep(t)
  PROVE  TypeOK'
<1> DEFINE p == Ticked(policy)
<1>1. policy \in PolicyState /\ p \in PolicyState
  BY TickedTyped DEF TypeOK
<1> HIDE DEF p
<1>2. p.intents[t] \in Intent
  BY <1>1, FieldsTyped
<1>3. CASE Submit(t)
  BY <1>1, <1>3, QueuedTyped, TickedTyped DEF Submit, TypeOK, p
<1>4. CASE Heartbeat(t)
  <2> DEFINE x == IF IsActive(p, t) THEN ActiveLease ELSE QueueLease
             j == [p.intents[t] EXCEPT !.lease = x]
  <2>1. policy' = [p EXCEPT !.intents[t].lease = x]
    BY <1>4 DEF Heartbeat, p
  <2>2. x \in Nat
    BY ConstantsAreNatural
  <2> HIDE DEF x
  <2>3. j \in Intent
    BY <1>2, <2>2 DEF Intent
  <2>4. policy' = [p EXCEPT !.intents[t] = j]
    BY <2>1
  <2> HIDE DEF j
  <2>5. QED
    BY <1>1, <2>3, <2>4, IntentTyped DEF TypeOK
<1>5. CASE Accept(t)
  BY <1>1, <1>5, AcceptedTyped DEF Accept, TypeOK, p
<1>6. ASSUME NEW d \in Renewals, Renew(t, d)
      PROVE  TypeOK'
  <2> DEFINE i == p.intents[t]
             left == WithinConsent(p, t, Greater(i.stage, d))
             task == Greater(i.task, left)
             j == [i EXCEPT !.stage = left, !.task = task, !.lease = ActiveLease]
  <2>1. policy' = [p EXCEPT !.intents[t] = j]
    BY <1>6 DEF Renew, p
  <2>2. d \in Nat /\ i.stage \in Nat /\ i.task \in Nat
    BY <1>2, InputsAreTyped DEF Intent
  <2>3. left \in Nat
    BY <1>1, <2>2, ConsentTyped, SmallerTyped
  <2> HIDE DEF left
  <2>4. task \in Nat
    BY <2>2, <2>3, SmallerTyped
  <2> HIDE DEF task
  <2>5. j \in Intent
    BY <1>2, <2>3, <2>4, ConstantsAreNatural DEF Intent
  <2> HIDE DEF j
  <2>6. QED
    BY <1>1, <2>1, <2>5, IntentTyped DEF TypeOK
<1>7. CASE Cancel(t)
  BY <1>1, <1>7, FinishedTyped, TickedTyped DEF Cancel, TypeOK, p
<1>8. QED
  BY <1>3, <1>4, <1>5, <1>6, <1>7 DEF TaskStep

LEMMA PersonStepTyped ==
  ASSUME TypeOK, NEW t \in Task, PersonStep(t)
  PROVE  TypeOK'
<1> DEFINE p == Ticked(policy)
<1>1. policy \in PolicyState /\ p \in PolicyState
  BY TickedTyped DEF TypeOK
<1> HIDE DEF p
<1>2. p.intents[t] \in Intent
  BY <1>1, FieldsTyped
<1>3. ASSUME NEW d \in Delays, Approve(t, d)
      PROVE  TypeOK'
  <2>1. d \in Nat
    BY InputsAreTyped
  <2>2. QED
    BY <1>1, <1>3, <2>1, ApprovedTyped, TickedTyped DEF Approve, TypeOK, p
<1>4. ASSUME NEW d \in Delays, Postpone(t, d)
      PROVE  TypeOK'
  <2>1. d \in Nat
    BY InputsAreTyped
  <2>2. [p EXCEPT !.intents[t].notBefore = d] \in PolicyState
    BY <1>1, <1>2, <2>1 DEF PolicyState, Intent
  <2>3. QED
    BY <1>4, <2>2, TickedTyped DEF Postpone, TypeOK, p
<1>5. CASE Hold(t)
  <2> DEFINE q == [p EXCEPT !.intents[t].held = TRUE, !.intents[t].skipNotice = FALSE]
             j == [p.intents[t] EXCEPT !.held = TRUE, !.skipNotice = FALSE]
  <2>1. j \in Intent
    BY <1>2 DEF Intent
  <2>2. q = [p EXCEPT !.intents[t] = j]
    BY <1>1 DEF PolicyState
  <2>3. q \in PolicyState
    BY <1>1, <2>1, <2>2, IntentTyped
  <2>4. HeldBy(p, t) \in PolicyState
    BY <2>3, RequiredTyped, RequestTyped DEF HeldBy
  <2>5. QED
    BY <1>5, <2>4, TickedTyped DEF Hold, TypeOK, p
<1>6. CASE StartNow(t)
  <2> DEFINE a == Acknowledged(p, t)
  <2>1. a \in PolicyState
    <3>1. [p EXCEPT !.humanCooldown = 0] \in PolicyState
      BY <1>1 DEF PolicyState
    <3>2. QED
      BY <1>1, <3>1, TickedTyped DEF Acknowledged
  <2>2. policy' \in {a, Ticked([a EXCEPT !.intents[t].stage = 0])}
    BY <1>6 DEF StartNow, p
  <2> HIDE DEF a
  <2>3. [a EXCEPT !.intents[t].stage = 0] \in PolicyState
    <3> DEFINE j == [a.intents[t] EXCEPT !.stage = 0]
    <3>1. j \in Intent
      <4>1. a.intents[t] \in Intent
        BY <2>1, FieldsTyped
      <4>2. QED
        BY <4>1 DEF Intent
    <3>2. [a EXCEPT !.intents[t].stage = 0] = [a EXCEPT !.intents[t] = j]
      OBVIOUS
    <3> HIDE DEF j
    <3>3. QED
      BY <2>1, <3>1, <3>2, IntentTyped
  <2>4. QED
    BY <2>1, <2>2, <2>3, TickedTyped DEF TypeOK
<1>7. CASE Deny(t)
  BY <1>1, <1>7, FinishedTyped, TickedTyped DEF Deny, TypeOK, p
<1>8. ASSUME NEW d \in DeferTimes, Defer(t, d)
      PROVE  TypeOK'
  <2> DEFINE e == [r \in Resource |-> [s \in Surface |->
                     IF r \in Resources[t] /\ s \in Request[t].surfaces THEN d ELSE p.deferrals[r][s]]]
  <2>1. e \in [Resource -> [Surface -> Nat]]
    BY <1>1, InputsAreTyped DEF PolicyState
  <2>2. policy' = Ticked([p EXCEPT !.deferrals = e])
    BY <1>8 DEF Defer, p
  <2> HIDE DEF e
  <2>3. [p EXCEPT !.deferrals = e] \in PolicyState
    BY <1>1, <2>1 DEF PolicyState
  <2>4. QED
    BY <2>2, <2>3, TickedTyped DEF TypeOK
<1>9. QED
  BY <1>3, <1>4, <1>5, <1>6, <1>7, <1>8 DEF PersonStep

LEMMA SurfaceStepTyped ==
  ASSUME TypeOK, SurfaceStep
  PROVE  TypeOK'
<1>1. policy \in PolicyState
  BY DEF TypeOK
<1>2. ASSUME NEW s \in Surface, NEW c \in Configurations[s], Configure(s, c)
      PROVE  TypeOK'
  BY <1>1, <1>2, ReconfiguredTyped, TickedTyped DEF Configure, TypeOK
<1>3. ASSUME NEW c \in PreferenceChoices, SetPreferences(c)
      PROVE  TypeOK'
  <2>1. c \in Preference
    BY InputsAreTyped
  <2>2. QED
    BY <1>1, <1>3, <2>1 DEF SetPreferences, PolicyState, TypeOK
<1>4. ASSUME NEW d \in NoticeChoices, Notice(d)
      PROVE  TypeOK'
  <2> DEFINE x == [policy.preferences EXCEPT !.desktop = d, !.browser = d]
  <2>1. x \in Preference
    BY <1>1, InputsAreTyped DEF PolicyState, Preference
  <2>2. policy' = [policy EXCEPT !.preferences = x]
    BY <1>1, <1>4 DEF Notice, PolicyState
  <2> HIDE DEF x
  <2>3. QED
    BY <1>1, <2>1, <2>2 DEF PolicyState, TypeOK
<1>5. ASSUME NEW s \in Surface, NEW v \in VisibilityChoices[s], Ready(s, v)
      PROVE  TypeOK'
  <2>1. v \in [ready : BOOLEAN, notice : BOOLEAN]
    BY InputsAreTyped
  <2>2. [policy EXCEPT !.available[s] = v] \in PolicyState
    BY <1>1, <2>1 DEF PolicyState
  <2>3. QED
    BY <1>5, <2>2, TickedTyped DEF Ready, TypeOK
<1>6. ASSUME NEW b \in InputChoices, InputReady(b)
      PROVE  TypeOK'
  <2>1. b \in BOOLEAN
    BY InputsAreTyped
  <2>2. [policy EXCEPT !.inputReady = b] \in PolicyState
    BY <1>1, <2>1 DEF PolicyState
  <2>3. QED
    BY <1>6, <2>2, TickedTyped DEF InputReady, TypeOK
<1>7. ASSUME NEW c \in Scope, NEW r \in PauseReason, NEW d \in Nat,
             policy' = Ticked([policy EXCEPT !.pauses[c][r] = d])
      PROVE  TypeOK'
  <2> DEFINE x == [policy.pauses[c] EXCEPT ![r] = d]
  <2>1. x \in [PauseReason -> Nat]
    BY <1>1 DEF PolicyState
  <2>2. [policy EXCEPT !.pauses[c][r] = d] = [policy EXCEPT !.pauses[c] = x]
    BY <1>1 DEF PolicyState
  <2> HIDE DEF x
  <2>3. [policy EXCEPT !.pauses[c] = x] \in PolicyState
    BY <1>1, <2>1 DEF PolicyState
  <2>4. QED
    BY <1>7, <2>2, <2>3, TickedTyped DEF TypeOK
<1>8. ASSUME NEW c \in Scope, ResumeTakeover(c)
      PROVE  TypeOK'
  <2> DEFINE rest == IF c = "all" THEN {} ELSE policy.takeoverSurfaces \ {c}
             h == IF rest = {} THEN 0 ELSE policy.humanCooldown
  <2>1. rest \in SUBSET Surface /\ h \in Nat
    BY <1>1 DEF PolicyState
  <2>2. policy' = Ticked([policy EXCEPT !.takeoverSurfaces = rest, !.humanCooldown = h])
    BY <1>8 DEF ResumeTakeover
  <2> HIDE DEF rest, h
  <2>3. [policy EXCEPT !.takeoverSurfaces = rest, !.humanCooldown = h] \in PolicyState
    BY <1>1, <2>1 DEF PolicyState
  <2>4. QED
    BY <2>2, <2>3, TickedTyped DEF TypeOK
<1>9. ASSUME NEW c \in Scope, ResumeDeferral(c)
      PROVE  TypeOK'
  <2> DEFINE e == [r \in Resource |-> [s \in Surface |->
                     IF c \in {"all", s} THEN 0 ELSE policy.deferrals[r][s]]]
  <2>1. e \in [Resource -> [Surface -> Nat]]
    BY <1>1 DEF PolicyState
  <2>2. policy' = Ticked([policy EXCEPT !.deferrals = e])
    BY <1>9 DEF ResumeDeferral
  <2> HIDE DEF e
  <2>3. [policy EXCEPT !.deferrals = e] \in PolicyState
    BY <1>1, <2>1 DEF PolicyState
  <2>4. QED
    BY <2>2, <2>3, TickedTyped DEF TypeOK
<1>10. ASSUME NEW s \in InputSurfaces, Input(s)
       PROVE  TypeOK'
  <2>1. s \in Surface
    BY InputsAreTyped
  <2>2. QED
    BY <1>1, <1>10, <2>1, TakenOverTyped, TickedTyped DEF Input, TypeOK
<1>11. CASE Stop
  <2> DEFINE q == Finished(policy, Task)
             c == [s \in Surface |-> [mode |-> "off", left |-> 0, generation |-> q.config[s].generation + 1]]
             e == [r \in Resource |-> [s \in Surface |-> 0]]
  <2>1. q \in PolicyState
    BY <1>1, FinishedTyped
  <2>2. policy' = [q EXCEPT !.config = c, !.deferrals = e,
                            !.takeoverSurfaces = {}, !.humanCooldown = 0,
                            !.postYieldWarning = FALSE, !.approvalRequired = {}]
    BY <1>11 DEF Stop
  <2> HIDE DEF q
  <2>3. c \in [Surface -> [mode : Mode, left : Nat, generation : Nat]]
    BY <2>1 DEF PolicyState, Mode
  <2>4. e \in [Resource -> [Surface -> Nat]]
    OBVIOUS
  <2> HIDE DEF c, e
  <2> DEFINE r == [q EXCEPT !.config = c, !.deferrals = e]
  <2>5. r \in PolicyState
    BY <2>1, <2>3, <2>4 DEF PolicyState
  <2>6. policy' = [r EXCEPT !.takeoverSurfaces = {}, !.humanCooldown = 0,
                            !.postYieldWarning = FALSE, !.approvalRequired = {}]
    BY <2>2
  <2> HIDE DEF r
  <2>7. QED
    BY <2>5, <2>6 DEF PolicyState, TypeOK
<1>12. QED
  <2>1. \A d \in PauseTimes : d \in Nat
    BY InputsAreTyped
  <2>2. QED
    BY <2>1, <1>2, <1>3, <1>4, <1>5, <1>6, <1>7, <1>8, <1>9, <1>10, <1>11
       DEF SurfaceStep, Pause, Resume

LEMMA NextTyped ==
  ASSUME TypeOK, [Next]_policy
  PROVE  TypeOK'
<1>1. policy \in PolicyState
  BY DEF TypeOK
<1>2. ASSUME NEW o \in Owner, Open(o)
      PROVE  TypeOK'
  BY <1>1, <1>2 DEF Open, PolicyState, TypeOK
<1>3. ASSUME NEW o \in Owner, Close(o)
      PROVE  TypeOK'
  <2> DEFINE q == Finished(policy, {t \in Task : Request[t].owner = o})
  <2>1. q \in PolicyState
    BY <1>1, FinishedTyped
  <2>2. policy' = Ticked([q EXCEPT !.owners[o] = "closed"])
    BY <1>3 DEF Close
  <2> HIDE DEF q
  <2>3. [q EXCEPT !.owners[o] = "closed"] \in PolicyState
    BY <2>1 DEF PolicyState
  <2>4. QED
    BY <2>2, <2>3, TickedTyped DEF TypeOK
<1>4. CASE Poll
  BY <1>1, <1>4, TickedTyped DEF Poll, TypeOK
<1>5. CASE Pass
  BY <1>1, <1>5, AgedPolicyTyped DEF Pass, TypeOK
<1>6. CASE UNCHANGED policy
  BY <1>6 DEF TypeOK
<1>7. QED
  BY <1>2, <1>3, <1>4, <1>5, <1>6, TaskStepTyped, PersonStepTyped, SurfaceStepTyped DEF Next

\* Every method of the policy keeps every private field in its range, for any
\* number of channels, tasks, profiles and pauses, and any timing.
THEOREM TypesAreKept == Spec => []TypeOK
BY InitTyped, NextTyped, PTL DEF Spec

-----------------------------------------------------------------------------
(* The walk over the list gives every eligible task one answer. *)

LEMMA SmallestSubset ==
  ASSUME NEW S, IsFiniteSet(S), NEW C \in SUBSET (SUBSET S), C # {}
  PROVE  \E x \in C : \A y \in C : y \subseteq x => y = x
<1>1. IsWellFoundedOn(StrictSubsetOrdering(S), SUBSET S)
  BY FS_StrictSubsetOrderingWellFounded, FS_FiniteSubsetsOfFinite
<1>2. PICK x \in C : \A y \in C : ~ (<<y, x>> \in StrictSubsetOrdering(S))
  BY <1>1, WFMin
<1>3. ASSUME NEW y \in C, y \subseteq x PROVE y = x
  BY <1>2, <1>3 DEF StrictSubsetOrdering
<1>4. QED
  BY <1>3

\* What ListIsOrdered says, of any value of the policy.
OrderedIn(p) ==
  /\ \A t \in Task : /\ t \notin p.front[t]
                     /\ p.front[t] \subseteq Listed(p)
                     /\ \A u \in p.front[t] : p.front[u] \subseteq p.front[t]
  /\ \A t, u \in Listed(p) : t # u => t \in p.front[u] \/ u \in p.front[t]
  /\ \A t \in Task \ Listed(p) : p.front[t] = {}

\* The tasks of W come first in the list among those of E, and the walk over
\* them has an outcome.
Walked(p, E, W) ==
  /\ \A t \in W : p.front[t] \intersect E \subseteq W
  /\ \E R \in SUBSET W : GrantedBy(p, W, R)

LEMMA WalkGoesOn ==
  ASSUME NEW p \in PolicyState, OrderedIn(p),
         NEW E \in SUBSET Task, NEW W \in SUBSET E, W # E, Walked(p, E, W)
  PROVE  \E t \in E \ W : Walked(p, E, W \union {t})
<1>0. PICK R \in SUBSET W : GrantedBy(p, W, R)
  BY DEF Walked
<1> DEFINE C == {p.front[t] \intersect E : t \in E \ W}
<1>1. C \in SUBSET (SUBSET E) /\ C # {}
  OBVIOUS
<1>2. PICK x \in C : \A y \in C : y \subseteq x => y = x
  <2>1. IsFiniteSet(E)
    BY TasksAreFinite, FS_Subset
  <2> HIDE DEF C
  <2>2. QED
    BY <1>1, <2>1, SmallestSubset
<1>3. PICK t \in E \ W : x = p.front[t] \intersect E
  BY <1>2
<1>4. p.front[t] \intersect E \subseteq W
  <2> SUFFICES ASSUME NEW u \in p.front[t] \intersect E, u \notin W
               PROVE  FALSE
    OBVIOUS
  <2>1. p.front[u] \intersect E \in C
    OBVIOUS
  <2>2. p.front[u] \intersect E \subseteq p.front[t] \intersect E
    BY DEF OrderedIn
  <2>3. p.front[u] \intersect E = p.front[t] \intersect E
    BY <1>2, <1>3, <2>1, <2>2
  <2>4. u \notin p.front[u]
    BY DEF OrderedIn
  <2>5. QED
    BY <2>3, <2>4
<1>5. \A u \in W \union {t} : p.front[u] \intersect E \subseteq W \union {t}
  BY <1>4 DEF Walked
<1>6. \A u \in W : t \notin p.front[u]
  BY DEF Walked
<1>7. t \notin p.front[t]
  BY DEF OrderedIn
<1> DEFINE Q == IF \A u \in R \intersect p.front[t] : ~ Conflict(t, u) THEN R \union {t} ELSE R
<1>8. GrantedBy(p, W \union {t}, Q)
  <2>1. ASSUME NEW u \in W
        PROVE  Q \intersect p.front[u] = R \intersect p.front[u] /\ (u \in Q <=> u \in R)
    BY <1>6
  <2>2. Q \intersect p.front[t] = R \intersect p.front[t]
    BY <1>7
  <2>3. t \in Q <=> \A u \in R \intersect p.front[t] : ~ Conflict(t, u)
    OBVIOUS
  <2> HIDE DEF Q
  <2>4. QED
    BY <1>0, <2>1, <2>2, <2>3 DEF GrantedBy
<1>9. QED
  BY <1>5, <1>8 DEF Walked

LEMMA GrantedIsDefined ==
  ASSUME NEW p \in PolicyState, OrderedIn(p)
  PROVE  LET E == {t \in Task : Eligible(p, t)}
         IN  Granted(p) \subseteq E /\ GrantedBy(p, E, Granted(p))
<1> DEFINE E == {t \in Task : Eligible(p, t)}
           C == {D \in SUBSET E : Walked(p, E, E \ D)}
<1>0. E \in SUBSET Task
  OBVIOUS
<1>1. E \in C
  BY DEF Walked, GrantedBy
<1> HIDE DEF E
<1>2. PICK D \in C : \A y \in C : y \subseteq D => y = D
  <2>1. IsFiniteSet(E)
    BY <1>0, TasksAreFinite, FS_Subset
  <2>2. C \in SUBSET (SUBSET E) /\ C # {}
    BY <1>1
  <2> HIDE DEF C
  <2>3. QED
    BY <2>1, <2>2, SmallestSubset
<1>3. D = {}
  <2> SUFFICES ASSUME D # {} PROVE FALSE
    OBVIOUS
  <2> DEFINE W == E \ D
  <2>1. W \in SUBSET E /\ W # E /\ Walked(p, E, W)
    BY <1>2
  <2>2. \E t \in E \ W : Walked(p, E, W \union {t})
    <3> HIDE DEF W
    <3>1. QED
      BY <1>0, <2>1, WalkGoesOn
  <2>3. PICK t \in E \ W : Walked(p, E, W \union {t})
    BY <2>2
  <2>4. W \union {t} = E \ (D \ {t})
    OBVIOUS
  <2>5. D \ {t} \in C
    BY <2>3, <2>4
  <2>6. QED
    BY <1>2, <2>5
<1>4. \E R \in SUBSET E : GrantedBy(p, E, R)
  <2>1. E \ {} = E
    OBVIOUS
  <2>2. QED
    BY <1>2, <1>3, <2>1 DEF Walked
<1>5. Granted(p) = CHOOSE R \in SUBSET E : GrantedBy(p, E, R)
  BY DEF Granted, GrantedAmong, E
<1>6. QED
  BY <1>4, <1>5 DEF E

-----------------------------------------------------------------------------
(* The list keeps its order, whoever moves to its end or leaves it. *)

LEMMA OrderFollows ==
  ASSUME NEW p \in PolicyState, NEW q \in PolicyState, OrderedIn(p),
         Listed(q) = Listed(p), \A t \in Task : q.front[t] = p.front[t]
  PROVE  OrderedIn(q)
BY DEF OrderedIn, Listed

LEMMA OrderAfterMove ==
  ASSUME NEW p \in PolicyState, NEW q \in PolicyState, OrderedIn(p),
         NEW Y \in SUBSET Listed(p), Listed(q) = Listed(p),
         \A t \in Task : q.front[t] = ToTail(p, Y)[t]
  PROVE  OrderedIn(q)
<1> DEFINE L == Listed(p)
<1>1. \A t \in Y : q.front[t] = (L \ Y) \union (p.front[t] \intersect Y)
  BY DEF ToTail, Listed
<1>2. \A t \in Task \ Y : q.front[t] = p.front[t] \ Y
  BY DEF ToTail
<1>3. ASSUME NEW t \in Task
      PROVE  /\ t \notin q.front[t]
             /\ q.front[t] \subseteq L
             /\ \A u \in q.front[t] : q.front[u] \subseteq q.front[t]
  <2>1. /\ t \notin p.front[t] /\ p.front[t] \subseteq L
        /\ \A u \in p.front[t] : p.front[u] \subseteq p.front[t]
        /\ \A u \in L : p.front[u] \subseteq L
        /\ L \subseteq Task
    BY DEF OrderedIn, Listed
  <2> HIDE DEF L
  <2>2. CASE t \in Y
    BY <1>1, <1>2, <2>1, <2>2
  <2>3. CASE t \notin Y
    BY <1>1, <1>2, <2>1, <2>3
  <2>4. QED
    BY <2>2, <2>3
<1>4. ASSUME NEW t \in L, NEW u \in L, t # u
      PROVE  t \in q.front[u] \/ u \in q.front[t]
  <2>1. t \in p.front[u] \/ u \in p.front[t]
    BY <1>4 DEF OrderedIn
  <2>2. t \in Task /\ u \in Task
    BY DEF Listed
  <2> HIDE DEF L
  <2>3. QED
    BY <1>1, <1>2, <2>1, <2>2
<1>5. ASSUME NEW t \in Task \ L PROVE q.front[t] = {}
  BY <1>2 DEF OrderedIn
<1>6. QED
  BY <1>3, <1>4, <1>5 DEF OrderedIn

LEMMA SweptOrdered ==
  ASSUME NEW p \in PolicyState, OrderedIn(p)
  PROVE  OrderedIn(Swept(p)) /\ Listed(Swept(p)) = Listed(p)
<1> DEFINE over == {t \in Task : Overdue(p, t)}
           Y == {t \in Task : Interrupts(p, t)}
           q == Swept(p)
<1>1. q \in PolicyState
  BY SweptTyped
<1>2. \A t \in Task : q.intents[t] = IF t \in over THEN EndedIntent
                                     ELSE IF t \in Y THEN YieldedIntent(p, t)
                                     ELSE p.intents[t]
  BY DEF Swept, SweptOf, PolicyState
<1>3. \A t \in Task : q.front[t] = ToTail(p, Y)[t]
  BY DEF Swept, SweptOf, PolicyState
<1>4. EndedIntent.state = "ended"
  BY DEF EndedIntent, BlankIntent
<1>5. \A t \in Task : YieldedIntent(p, t).state = "paused"
  BY FieldsTyped DEF YieldedIntent, Intent
<1>6. \A t \in over : p.intents[t].state \notin {"new", "forgotten"}
  BY DEF Overdue, IsLive, Live, Waiting
<1>7. Y \subseteq Listed(p) /\ \A t \in Y : p.intents[t].state = "active"
  BY DEF Interrupts, IsActive, Listed
<1>8. Listed(q) = Listed(p)
  <2> HIDE DEF q, over, Y
  <2>1. ASSUME NEW t \in Task
        PROVE  q.intents[t].state \in {"new", "forgotten"} <=> p.intents[t].state \in {"new", "forgotten"}
    BY <1>2, <1>4, <1>5, <1>6, <1>7
  <2>2. QED
    BY <2>1 DEF Listed
<1>9. QED
  <2> HIDE DEF q, over, Y
  <2>1. OrderedIn(q)
    BY <1>1, <1>3, <1>7, <1>8, OrderAfterMove
  <2>2. QED
    BY <1>8, <2>1 DEF q

LEMMA ArbitratedIntents ==
  ASSUME NEW p \in PolicyState, NEW t \in Task
  PROVE  LET i == p.intents[t]
             j == Arbitrated(p).intents[t]
         IN  /\ i.state \notin Waiting => j = i
             /\ i.state \in Waiting /\ t \in Granted(p) => j.state \in {"announcing", "offered"}
             /\ i.state \in Waiting /\ t \notin Granted(p) =>
                  j.state \in {"paused", "waiting_for_resource", "waiting_for_approval"}
             /\ j.held = i.held /\ j.notBefore = i.notBefore
<1> DEFINE i == p.intents[t]
           j == Arbitrated(p).intents[t]
<1>1. i \in Intent
  BY FieldsTyped
<1>2. PICK x \in {"paused", "waiting_for_resource", "waiting_for_approval"} :
        j = IF i.state \notin Waiting THEN i
            ELSE IF t \in Granted(p) THEN GrantedIntent(p, t)
            ELSE [i EXCEPT !.state = x, !.stage = 0]
  <2> DEFINE x == Reason(p, Granted(p), t)
  <2>1. j = IF i.state \notin Waiting THEN i
            ELSE IF t \in Granted(p) THEN GrantedIntent(p, t)
            ELSE [i EXCEPT !.state = x, !.stage = 0]
    BY DEF Arbitrated, ArbitratedFor, PolicyState
  <2>2. x \in {"paused", "waiting_for_resource", "waiting_for_approval"}
    BY DEF Reason
  <2> HIDE DEF x
  <2>3. QED
    BY <2>1, <2>2
<1>3. /\ i.state \in Waiting => GrantedIntent(p, t).state \in {"announcing", "offered"}
      /\ GrantedIntent(p, t).held = i.held
      /\ GrantedIntent(p, t).notBefore = i.notBefore
  BY <1>1 DEF GrantedIntent, Announced, Intent
<1>4. \A y \in {"paused", "waiting_for_resource", "waiting_for_approval"} :
        /\ [i EXCEPT !.state = y, !.stage = 0].state = y
        /\ [i EXCEPT !.state = y, !.stage = 0].held = i.held
        /\ [i EXCEPT !.state = y, !.stage = 0].notBefore = i.notBefore
  BY <1>1 DEF Intent
<1> HIDE DEF i, j
<1>5. QED
  BY <1>2, <1>3, <1>4 DEF i, j

LEMMA ArbitratedOrdered ==
  ASSUME NEW p \in PolicyState, OrderedIn(p)
  PROVE  OrderedIn(Arbitrated(p))
<1> DEFINE q == Arbitrated(p)
<1>1. q \in PolicyState
  BY ArbitratedTyped
<1>2. \A t \in Task : q.front[t] = p.front[t]
  BY DEF Arbitrated, ArbitratedFor, PolicyState
<1>3. ASSUME NEW t \in Task
      PROVE  q.intents[t].state \in {"new", "forgotten"} <=> p.intents[t].state \in {"new", "forgotten"}
  BY ArbitratedIntents DEF Waiting
<1> HIDE DEF q
<1>4. Listed(q) = Listed(p)
  BY <1>3 DEF Listed
<1>5. QED
  BY <1>1, <1>2, <1>4, OrderFollows DEF q

LEMMA TrimmedIntents ==
  ASSUME NEW p \in PolicyState, NEW t \in Task
  PROVE  Trimmed(p).intents[t] = IF t \in Surplus(p) THEN ForgottenIntent ELSE p.intents[t]
BY DEF Trimmed, PolicyState

LEMMA TrimmedOrdered ==
  ASSUME NEW p \in PolicyState, OrderedIn(p)
  PROVE  OrderedIn(Trimmed(p))
<1> DEFINE S == Surplus(p)
           q == Trimmed(p)
<1>1. \A t \in Task : q.front[t] = IF t \in S THEN {} ELSE p.front[t] \ S
  BY DEF Trimmed, PolicyState
<1>2. \A t \in Task : q.intents[t] = IF t \in S THEN ForgottenIntent ELSE p.intents[t]
  BY TrimmedIntents
<1>3. ForgottenIntent.state = "forgotten"
  BY DEF ForgottenIntent, BlankIntent
<1> HIDE DEF q
<1>4. Listed(q) = Listed(p) \ S
  BY <1>2, <1>3 DEF Listed
<1>5. S \subseteq Task
  BY DEF Surplus
<1> HIDE DEF S
<1>6. ASSUME NEW t \in Task
      PROVE  /\ t \notin q.front[t]
             /\ q.front[t] \subseteq Listed(q)
             /\ \A u \in q.front[t] : q.front[u] \subseteq q.front[t]
  <2>1. /\ t \notin p.front[t] /\ p.front[t] \subseteq Listed(p)
        /\ \A u \in p.front[t] : p.front[u] \subseteq p.front[t]
        /\ Listed(p) \subseteq Task
    BY DEF OrderedIn, Listed
  <2>2. QED
    BY <1>1, <1>4, <2>1
<1>7. ASSUME NEW t \in Listed(q), NEW u \in Listed(q), t # u
      PROVE  t \in q.front[u] \/ u \in q.front[t]
  <2>1. t \in Task /\ u \in Task
    BY DEF Listed
  <2>2. t \in p.front[u] \/ u \in p.front[t]
    BY <1>4, <1>7 DEF OrderedIn
  <2>3. QED
    BY <1>1, <1>4, <2>1, <2>2
<1>8. ASSUME NEW t \in Task \ Listed(q) PROVE q.front[t] = {}
  BY <1>1, <1>4 DEF OrderedIn
<1>9. OrderedIn(q)
  BY <1>6, <1>7, <1>8 DEF OrderedIn
<1>10. QED
  BY <1>9 DEF q

-----------------------------------------------------------------------------
(* What blocks a task. *)

LEMMA BlocksVanish ==
  ASSUME NEW p \in PolicyState, NEW q \in PolicyState, NEW t \in Task,
         \A c \in Scope, r \in PauseReason : q.pauses[c][r] > 0 => p.pauses[c][r] > 0,
         \A s \in Surface : p.available[s].ready => q.available[s].ready,
         q.intents[t].held => p.intents[t].held,
         q.intents[t].notBefore > 0 => p.intents[t].notBefore > 0,
         p.inputReady => q.inputReady,
         q.humanCooldown > 0 => p.humanCooldown > 0,
         \A r \in Resource, s \in Surface : q.deferrals[r][s] > 0 => p.deferrals[r][s] > 0
  PROVE  (Blocked(q, t) => Blocked(p, t))
<1>1. Request[t].surfaces \union {"all"} \subseteq Scope /\ Resources[t] \subseteq Resource
  BY RequestTyped DEF Scope
<1>2. Request[t].surfaces \subseteq Surface
  BY RequestTyped
<1>3. QED
  BY <1>1, <1>2 DEF Blocked, Obstructed

\* The parts of the policy that say what blocks a task.
Obstacles(p) == <<p.pauses, p.available, p.inputReady, p.humanCooldown, p.deferrals>>

LEMMA SameObstacles ==
  ASSUME NEW p \in PolicyState, NEW q \in PolicyState, NEW t \in Task,
         Obstacles(q) = Obstacles(p),
         q.intents[t].held = p.intents[t].held,
         q.intents[t].notBefore = p.intents[t].notBefore
  PROVE  (Blocked(q, t) <=> Blocked(p, t))
<1>1. /\ q.pauses = p.pauses /\ q.available = p.available /\ q.inputReady = p.inputReady
      /\ q.humanCooldown = p.humanCooldown /\ q.deferrals = p.deferrals
  BY DEF Obstacles
<1>2. (Blocked(q, t) => Blocked(p, t))
  BY <1>1, BlocksVanish
<1>3. (Blocked(p, t) => Blocked(q, t))
  BY <1>1, BlocksVanish
<1>4. QED
  BY <1>2, <1>3

-----------------------------------------------------------------------------
(* After a tick reservations are disjoint and unblocked. *)

ReservesIn(p, t) == p.intents[t].state \in Reserving

DisjointIn(p) ==
  \A t, u \in Task : t # u /\ ReservesIn(p, t) /\ ReservesIn(p, u) => ~ Conflict(t, u)
ActiveDisjointIn(p) ==
  \A t, u \in Task : t # u /\ IsActive(p, t) /\ IsActive(p, u) => ~ Conflict(t, u)
UnblockedIn(p) == \A t \in Task : ReservesIn(p, t) => ~ Blocked(p, t)

LEMMA ConflictIsSymmetric == \A t, u \in Task : Conflict(t, u) <=> Conflict(u, t)
BY DEF Conflict

LEMMA SweptActive ==
  ASSUME NEW p \in PolicyState, NEW t \in Task, IsActive(Swept(p), t)
  PROVE  IsActive(p, t) /\ ~ Blocked(Swept(p), t)
<1> DEFINE over == {u \in Task : Overdue(p, u)}
           Y == {u \in Task : Interrupts(p, u)}
           q == Swept(p)
<1>1. q.intents[t] = IF t \in over THEN EndedIntent
                     ELSE IF t \in Y THEN YieldedIntent(p, t)
                     ELSE p.intents[t]
  BY DEF Swept, SweptOf, PolicyState
<1>2. EndedIntent.state = "ended"
  BY DEF EndedIntent, BlankIntent
<1>3. YieldedIntent(p, t).state = "paused"
  BY FieldsTyped DEF YieldedIntent, Intent
<1>4. t \notin over /\ t \notin Y /\ q.intents[t] = p.intents[t]
  BY <1>1, <1>2, <1>3 DEF IsActive
<1>5. IsActive(p, t) /\ ~ Blocked(p, t)
  BY <1>4 DEF Interrupts, IsActive
<1>6. Obstacles(q) = Obstacles(p) /\ q \in PolicyState
  BY SweptTyped DEF Swept, SweptOf, PolicyState, Obstacles
<1> HIDE DEF q
<1>7. (Blocked(q, t) <=> Blocked(p, t))
  BY <1>4, <1>6, SameObstacles
<1>8. QED
  BY <1>5, <1>7 DEF q

LEMMA ArbitratedStates ==
  ASSUME NEW p \in PolicyState, OrderedIn(p), NEW t \in Task
  PROVE  /\ IsActive(Arbitrated(p), t) <=> IsActive(p, t)
         /\ ReservesIn(Arbitrated(p), t) => IsActive(p, t) \/ t \in Granted(p)
         /\ t \in Granted(p) => Eligible(p, t)
         /\ (Blocked(Arbitrated(p), t) <=> Blocked(p, t))
<1> DEFINE q == Arbitrated(p)
<1>1. t \in Granted(p) => Eligible(p, t)
  BY GrantedIsDefined
<1>2. IsActive(q, t) <=> IsActive(p, t)
  BY ArbitratedIntents DEF IsActive, Waiting
<1>3. ReservesIn(q, t) => IsActive(p, t) \/ t \in Granted(p)
  BY ArbitratedIntents DEF IsActive, ReservesIn, Reserving, Waiting
<1>4. Obstacles(q) = Obstacles(p) /\ q \in PolicyState
  BY ArbitratedTyped DEF Arbitrated, ArbitratedFor, PolicyState, Obstacles
<1>5. q.intents[t].held = p.intents[t].held /\ q.intents[t].notBefore = p.intents[t].notBefore
  BY ArbitratedIntents
<1> HIDE DEF q
<1>6. (Blocked(q, t) <=> Blocked(p, t))
  BY <1>4, <1>5, SameObstacles
<1>7. QED
  BY <1>1, <1>2, <1>3, <1>6 DEF q

LEMMA ArbitratedSafe ==
  ASSUME NEW p \in PolicyState, OrderedIn(p), ActiveDisjointIn(p),
         \A t \in Task : IsActive(p, t) => ~ Blocked(p, t)
  PROVE  DisjointIn(Arbitrated(p)) /\ UnblockedIn(Arbitrated(p))
<1> DEFINE q == Arbitrated(p)
           R == Granted(p)
<1>1. UnblockedIn(q)
  BY ArbitratedStates DEF UnblockedIn, Eligible
<1>2. ASSUME NEW t \in Task, NEW u \in Task, t # u, ReservesIn(q, t), ReservesIn(q, u)
      PROVE  ~ Conflict(t, u)
  <2>1. /\ IsActive(p, t) \/ t \in R
        /\ IsActive(p, u) \/ u \in R
    BY <1>2, ArbitratedStates
  <2>2. CASE IsActive(p, t) /\ IsActive(p, u)
    BY <1>2, <2>2 DEF ActiveDisjointIn
  <2>3. CASE t \in R /\ IsActive(p, u)
    BY <2>3, ArbitratedStates DEF Eligible
  <2>4. CASE IsActive(p, t) /\ u \in R
    BY <2>4, ArbitratedStates, ConflictIsSymmetric DEF Eligible
  <2>5. CASE t \in R /\ u \in R
    <3>1. Eligible(p, t) /\ Eligible(p, u)
      BY <2>5, ArbitratedStates
    <3>2. t \in Listed(p) /\ u \in Listed(p)
      BY <3>1 DEF Eligible, Waiting, Listed
    <3>3. t \in p.front[u] \/ u \in p.front[t]
      BY <1>2, <3>2 DEF OrderedIn
    <3>4. GrantedBy(p, {v \in Task : Eligible(p, v)}, R)
      BY GrantedIsDefined
    <3> HIDE DEF R
    <3>5. QED
      BY <2>5, <3>1, <3>3, <3>4, ConflictIsSymmetric DEF GrantedBy
  <2>6. QED
    BY <2>1, <2>2, <2>3, <2>4, <2>5
<1>3. QED
  BY <1>1, <1>2 DEF DisjointIn

LEMMA TrimmedStates ==
  ASSUME NEW p \in PolicyState, NEW t \in Task, ReservesIn(Trimmed(p), t)
  PROVE  /\ ReservesIn(p, t)
         /\ IsActive(Trimmed(p), t) => IsActive(p, t)
         /\ (Blocked(Trimmed(p), t) <=> Blocked(p, t))
<1> DEFINE q == Trimmed(p)
<1>1. ForgottenIntent.state = "forgotten"
  BY DEF ForgottenIntent, BlankIntent
<1>2. q.intents[t] = p.intents[t]
  BY <1>1, TrimmedIntents DEF ReservesIn, Reserving
<1>3. Obstacles(q) = Obstacles(p) /\ q \in PolicyState
  BY TrimmedTyped DEF Trimmed, PolicyState, Obstacles
<1> HIDE DEF q
<1>4. (Blocked(q, t) <=> Blocked(p, t))
  BY <1>2, <1>3, SameObstacles
<1>5. QED
  BY <1>2, <1>4 DEF q, ReservesIn, IsActive

\* One tick from any state with an ordered list and disjoint sessions.
LEMMA TickedSafe ==
  ASSUME NEW p \in PolicyState, OrderedIn(p), ActiveDisjointIn(p)
  PROVE  /\ OrderedIn(Ticked(p))
         /\ DisjointIn(Ticked(p))
         /\ UnblockedIn(Ticked(p))
         /\ \A t \in Task : IsActive(Ticked(p), t) => IsActive(p, t)
<1> DEFINE q == Swept(p)
           r == Arbitrated(q)
<1>1. /\ q \in PolicyState /\ OrderedIn(q)
      /\ \A t \in Task : IsActive(q, t) => IsActive(p, t) /\ ~ Blocked(q, t)
  BY SweptTyped, SweptOrdered, SweptActive
<1> HIDE DEF q
<1>2. ActiveDisjointIn(q)
  BY <1>1 DEF ActiveDisjointIn
<1>3. /\ r \in PolicyState /\ OrderedIn(r) /\ DisjointIn(r) /\ UnblockedIn(r)
      /\ \A t \in Task : IsActive(r, t) => IsActive(q, t)
  BY <1>1, <1>2, ArbitratedTyped, ArbitratedOrdered, ArbitratedSafe, ArbitratedStates
<1> HIDE DEF r
<1>4. OrderedIn(Trimmed(r))
  BY <1>3, TrimmedOrdered
<1>5. DisjointIn(Trimmed(r)) /\ UnblockedIn(Trimmed(r))
  BY <1>3, TrimmedStates DEF DisjointIn, UnblockedIn
<1>6. \A t \in Task : IsActive(Trimmed(r), t) => IsActive(r, t)
  BY <1>3, TrimmedStates DEF IsActive, ReservesIn, Reserving
<1>7. QED
  BY <1>1, <1>3, <1>4, <1>5, <1>6 DEF Ticked, q, r

-----------------------------------------------------------------------------
(* What the operations do to the list and to the sessions. *)

SafeIn(p) ==
  /\ p \in PolicyState
  /\ OrderedIn(p)
  /\ DisjointIn(p)
  /\ UnblockedIn(p)

Sessions(p) == {t \in Task : IsActive(p, t)}

\* q has the list of p, and at most its sessions.
Keeps(p, q) ==
  /\ \A t \in Task : q.front[t] = p.front[t]
  /\ \A t \in Task : \/ q.intents[t].state = p.intents[t].state
                     \/ p.intents[t].state \in Live /\ q.intents[t].state = "ended"

LEMMA DisjointSessions == \A p : DisjointIn(p) => ActiveDisjointIn(p)
BY DEF DisjointIn, ActiveDisjointIn, ReservesIn, IsActive, Reserving

LEMMA TickIsSafe ==
  ASSUME NEW p, SafeIn(p)
  PROVE  SafeIn(Ticked(p)) /\ Sessions(Ticked(p)) \subseteq Sessions(p)
BY TickedTyped, TickedSafe, DisjointSessions DEF SafeIn, Sessions

LEMMA KeptOrder ==
  ASSUME NEW p \in PolicyState, OrderedIn(p), NEW q \in PolicyState, Keeps(p, q)
  PROVE  OrderedIn(q) /\ Sessions(q) \subseteq Sessions(p)
<1>1. Listed(q) = Listed(p)
  BY DEF Keeps, Listed, Live, Waiting
<1>2. Sessions(q) \subseteq Sessions(p)
  BY DEF Keeps, Sessions, IsActive
<1>3. OrderedIn(q)
  BY <1>1, OrderFollows DEF Keeps
<1>4. QED
  BY <1>2, <1>3

\* An operation that keeps the list, and then ticks.
LEMMA TickAfter ==
  ASSUME NEW p, SafeIn(p), NEW q \in PolicyState, Keeps(p, q)
  PROVE  SafeIn(Ticked(q)) /\ Sessions(Ticked(q)) \subseteq Sessions(p)
<1>1. p \in PolicyState /\ OrderedIn(p) /\ ActiveDisjointIn(p)
  BY DisjointSessions DEF SafeIn
<1>2. OrderedIn(q) /\ Sessions(q) \subseteq Sessions(p)
  BY <1>1, KeptOrder
<1>3. ActiveDisjointIn(q)
  BY <1>1, <1>2 DEF ActiveDisjointIn, Sessions
<1>4. QED
  BY <1>2, <1>3, TickedTyped, TickedSafe DEF SafeIn, Sessions

\* An operation that does not tick and gives nobody more than it had.
LEMMA QuietIsSafe ==
  ASSUME NEW p, SafeIn(p), NEW q \in PolicyState, Keeps(p, q),
         \A t \in Task : (Blocked(q, t) => Blocked(p, t))
  PROVE  SafeIn(q) /\ Sessions(q) \subseteq Sessions(p)
<1>1. \A t \in Task : ReservesIn(q, t) => ReservesIn(p, t)
  BY DEF Keeps, ReservesIn, Reserving
<1>2. DisjointIn(q) /\ UnblockedIn(q)
  BY <1>1 DEF SafeIn, DisjointIn, UnblockedIn
<1>3. QED
  BY <1>2, KeptOrder DEF SafeIn

LEMMA FinishedKeeps ==
  ASSUME NEW p \in PolicyState, NEW T
  PROVE  Keeps(p, Finished(p, T))
<1>1. \A t \in Task : /\ Finished(p, T).front[t] = p.front[t]
                      /\ Finished(p, T).intents[t] =
                           IF t \in T /\ IsLive(p, t) THEN EndedIntent ELSE p.intents[t]
  BY DEF Finished, PolicyState
<1>2. EndedIntent.state = "ended"
  BY DEF EndedIntent, BlankIntent
<1>3. QED
  BY <1>1, <1>2 DEF Keeps, IsLive

LEMMA QueuedOrdered ==
  ASSUME NEW p \in PolicyState, OrderedIn(p), NEW t \in Task, p.intents[t].state = "new"
  PROVE  OrderedIn(Queued(p, t)) /\ Sessions(Queued(p, t)) \subseteq Sessions(p)
<1> DEFINE q == Queued(p, t)
           L == Listed(p)
<1>1. SubmittedIntent(t).state = "waiting_for_resource"
  BY DEF SubmittedIntent, BlankIntent
<1>2. /\ q.intents[t] = SubmittedIntent(t) /\ q.front[t] = L
      /\ \A u \in Task \ {t} : q.intents[u] = p.intents[u] /\ q.front[u] = p.front[u]
  BY DEF Queued, PolicyState
<1> HIDE DEF q
<1>3. Sessions(q) \subseteq Sessions(p)
  BY <1>1, <1>2 DEF Sessions, IsActive
<1>4. Listed(q) = L \union {t} /\ t \notin L /\ L \subseteq Task
  BY <1>1, <1>2 DEF Listed
<1>5. /\ \A u \in Task : /\ u \notin p.front[u]
                        /\ p.front[u] \subseteq L
                        /\ \A v \in p.front[u] : p.front[v] \subseteq p.front[u]
      /\ \A u, v \in L : u # v => u \in p.front[v] \/ v \in p.front[u]
      /\ \A u \in Task \ L : p.front[u] = {}
  BY DEF OrderedIn
<1> HIDE DEF L
<1>6. ASSUME NEW u \in Task
      PROVE  /\ u \notin q.front[u]
             /\ q.front[u] \subseteq Listed(q)
             /\ \A v \in q.front[u] : q.front[v] \subseteq q.front[u]
  BY <1>2, <1>4, <1>5
<1>7. ASSUME NEW u \in Listed(q), NEW v \in Listed(q), u # v
      PROVE  u \in q.front[v] \/ v \in q.front[u]
  BY <1>2, <1>4, <1>5, <1>7
<1>8. ASSUME NEW u \in Task \ Listed(q) PROVE q.front[u] = {}
  BY <1>2, <1>4, <1>5
<1>9. OrderedIn(q)
  BY <1>6, <1>7, <1>8 DEF OrderedIn
<1>10. QED
  BY <1>3, <1>9 DEF q

\* One field of one intent replaced, or several, but not its state.
LEMMA ChangeKeeps ==
  ASSUME NEW p \in PolicyState, NEW t \in Task, NEW j \in Intent, j.state = p.intents[t].state
  PROVE  Keeps(p, [p EXCEPT !.intents[t] = j])
<1> DEFINE q == [p EXCEPT !.intents[t] = j]
<1>1. \A u \in Task : q.front[u] = p.front[u]
  OBVIOUS
<1>2. \A u \in Task : q.intents[u] = IF u = t THEN j ELSE p.intents[u]
  BY FieldsTyped
<1> HIDE DEF q
<1>3. Keeps(p, q)
  BY <1>1, <1>2 DEF Keeps
<1>4. QED
  BY <1>3 DEF q

-----------------------------------------------------------------------------
(* Every step. *)

\* A safe state after a step in which nobody gets a session.
Follows(p, q) == SafeIn(q) /\ Sessions(q) \subseteq Sessions(p)

LEMMA TickFollows ==
  ASSUME NEW p, SafeIn(p), NEW q \in PolicyState, Keeps(Ticked(p), q)
  PROVE  Follows(p, Ticked(q))
<1>1. SafeIn(Ticked(p)) /\ Sessions(Ticked(p)) \subseteq Sessions(p)
  BY TickIsSafe
<1>2. QED
  BY <1>1, TickAfter DEF Follows

LEMMA SubmitFollows ==
  ASSUME SafeIn(policy), NEW t \in Task, Submit(t)
  PROVE  Follows(policy, policy')
<1> DEFINE p == Ticked(policy)
<1>1. SafeIn(p) /\ Sessions(p) \subseteq Sessions(policy)
  BY TickIsSafe
<1>2. p.intents[t].state = "new"
  <2>1. policy.intents[t].state = "new"
    BY DEF Submit
  <2>2. Swept(policy).intents[t] = policy.intents[t]
    BY <2>1 DEF Swept, SweptOf, PolicyState, SafeIn, Overdue, Interrupts, IsLive, IsActive, Live,
               Waiting
  <2>3. /\ Swept(policy) \in PolicyState
        /\ Arbitrated(Swept(policy)) \in PolicyState
    BY SweptTyped, ArbitratedTyped DEF SafeIn
  <2>4. Arbitrated(Swept(policy)).intents[t] = policy.intents[t]
    BY <2>1, <2>2, <2>3, ArbitratedIntents DEF Waiting
  <2>5. t \notin Surplus(Arbitrated(Swept(policy)))
    BY <2>1, <2>4 DEF Surplus
  <2>6. QED
    BY <2>1, <2>3, <2>4, <2>5, TrimmedIntents DEF Ticked
<1> HIDE DEF p
<1>3. /\ Queued(p, t) \in PolicyState /\ OrderedIn(Queued(p, t))
      /\ Sessions(Queued(p, t)) \subseteq Sessions(p)
  BY <1>1, <1>2, QueuedTyped, QueuedOrdered DEF SafeIn
<1>4. ActiveDisjointIn(Queued(p, t))
  BY <1>1, <1>3, DisjointSessions DEF SafeIn, ActiveDisjointIn, Sessions
<1>5. policy' = Ticked(Queued(p, t))
  BY DEF Submit, p
<1>6. SafeIn(policy') /\ Sessions(policy') \subseteq Sessions(Queued(p, t))
  BY <1>3, <1>4, <1>5, TickedTyped, TickedSafe DEF SafeIn, Sessions
<1>7. QED
  BY <1>1, <1>3, <1>6 DEF Follows

\* heartbeat and renew() write the clocks of one live task.
LEMMA ClocksFollow ==
  ASSUME SafeIn(policy), NEW t \in Task, NEW j \in Intent,
         policy' = [Ticked(policy) EXCEPT !.intents[t] = j],
         j.state = Ticked(policy).intents[t].state,
         j.held = Ticked(policy).intents[t].held,
         j.notBefore = Ticked(policy).intents[t].notBefore
  PROVE  Follows(policy, policy')
<1> DEFINE p == Ticked(policy)
           q == [p EXCEPT !.intents[t] = j]
<1>1. SafeIn(p) /\ Sessions(p) \subseteq Sessions(policy)
  BY TickIsSafe
<1> HIDE DEF p
<1>2. p \in PolicyState /\ q \in PolicyState /\ Keeps(p, q)
  BY <1>1, IntentTyped, ChangeKeeps DEF SafeIn, p
<1>3. ASSUME NEW u \in Task PROVE (Blocked(q, u) <=> Blocked(p, u))
  <2>1. q.intents[u] = IF u = t THEN j ELSE p.intents[u]
    BY <1>2, FieldsTyped
  <2>2. Obstacles(q) = Obstacles(p)
    BY DEF Obstacles
  <2> HIDE DEF q
  <2>3. QED
    BY <1>2, <2>1, <2>2, SameObstacles DEF p
<1> HIDE DEF q
<1>4. SafeIn(q) /\ Sessions(q) \subseteq Sessions(p)
  BY <1>1, <1>2, <1>3, QuietIsSafe
<1>5. QED
  BY <1>1, <1>4 DEF Follows, p, q

LEMMA AcceptFollows ==
  ASSUME SafeIn(policy), NEW t \in Task, Accept(t)
  PROVE  /\ SafeIn(policy')
         /\ t \notin Sessions(policy) /\ t \in Sessions(policy')
         /\ Sessions(policy') \subseteq Sessions(policy) \union {t}
         /\ \A u \in Sessions(policy) : ~ Conflict(t, u)
<1> DEFINE p == Ticked(policy)
           q == Accepted(p, t)
<1>1. SafeIn(p) /\ Sessions(p) \subseteq Sessions(policy)
  BY TickIsSafe
<1>2. policy' = q /\ p.intents[t].state = "offered" /\ policy.intents[t].state = "offered"
  BY DEF Accept
<1> HIDE DEF p
<1>3. p \in PolicyState /\ q \in PolicyState
  BY <1>1, AcceptedTyped DEF SafeIn
<1>4. /\ \A u \in Task : q.front[u] = p.front[u]
      /\ \A u \in Task \ {t} : q.intents[u] = p.intents[u]
      /\ q.intents[t].state = "active"
      /\ q.intents[t].held = p.intents[t].held
      /\ q.intents[t].notBefore = p.intents[t].notBefore
  <2> DEFINE i == p.intents[t]
             x == Lesser(Request[t].duration, i.task)
             j == [i EXCEPT !.state = "active", !.yielded = FALSE, !.skipNotice = FALSE, !.wait = 0,
                            !.stage = x, !.lease = ActiveLease]
  <2>1. q.front = p.front /\ q.intents = [p.intents EXCEPT ![t] = j]
    BY <1>3 DEF Accepted, PolicyState
  <2>2. i \in Intent
    BY <1>3, FieldsTyped
  <2> HIDE DEF x, i
  <2>3. j.state = "active" /\ j.held = i.held /\ j.notBefore = i.notBefore
    BY <2>2 DEF Intent
  <2> HIDE DEF j
  <2>4. q.intents[t] = j /\ \A u \in Task \ {t} : q.intents[u] = p.intents[u]
    BY <1>3, <2>1, FieldsTyped
  <2>5. QED
    BY <2>1, <2>3, <2>4 DEF i
<1>5. Obstacles(q) = Obstacles(p)
  BY <1>3 DEF Accepted, PolicyState, Obstacles
<1> HIDE DEF q
<1>6. \A u \in Task : (Blocked(q, u) <=> Blocked(p, u))
  <2>1. \A u \in Task : /\ q.intents[u].held = p.intents[u].held
                        /\ q.intents[u].notBefore = p.intents[u].notBefore
    BY <1>4
  <2>2. QED
    BY <1>3, <1>5, <2>1, SameObstacles
<1>7. \A u \in Task : ReservesIn(q, u) => ReservesIn(p, u)
  BY <1>2, <1>4 DEF ReservesIn, Reserving
<1>8. Listed(q) = Listed(p)
  <2>1. \A u \in Task : q.intents[u].state \in {"new", "forgotten"}
                        <=> p.intents[u].state \in {"new", "forgotten"}
    BY <1>2, <1>4
  <2>2. QED
    BY <2>1 DEF Listed
<1>9. SafeIn(q)
  <2>1. OrderedIn(q)
    BY <1>1, <1>3, <1>4, <1>8, OrderFollows DEF SafeIn
  <2>2. DisjointIn(q) /\ UnblockedIn(q)
    BY <1>1, <1>6, <1>7 DEF SafeIn, DisjointIn, UnblockedIn
  <2>3. QED
    BY <1>3, <2>1, <2>2 DEF SafeIn
<1>10. t \notin Sessions(policy) /\ t \in Sessions(q) /\ Sessions(q) \subseteq Sessions(policy) \union {t}
  BY <1>1, <1>2, <1>4 DEF Sessions, IsActive
<1>11. ASSUME NEW u \in Sessions(policy) PROVE ~ Conflict(t, u)
  <2>1. ReservesIn(policy, t) /\ ReservesIn(policy, u) /\ u # t /\ u \in Task
    BY <1>2, <1>10 DEF ReservesIn, Reserving, Sessions, IsActive
  <2>2. QED
    BY <2>1 DEF SafeIn, DisjointIn
<1>12. QED
  BY <1>2, <1>9, <1>10, <1>11

LEMMA TaskStepFollows ==
  ASSUME SafeIn(policy), NEW t \in Task, TaskStep(t), ~ Accept(t)
  PROVE  Follows(policy, policy')
<1> DEFINE p == Ticked(policy)
<1>1. SafeIn(p) /\ p \in PolicyState
  BY TickIsSafe DEF SafeIn
<1> HIDE DEF p
<1>2. p.intents[t] \in Intent
  BY <1>1, FieldsTyped
<1>3. CASE Submit(t)
  BY <1>3, SubmitFollows
<1>4. CASE Heartbeat(t)
  <2> DEFINE x == IF IsActive(p, t) THEN ActiveLease ELSE QueueLease
             j == [p.intents[t] EXCEPT !.lease = x]
  <2>1. policy' = [p EXCEPT !.intents[t] = j]
    BY <1>4 DEF Heartbeat, p
  <2>2. x \in Nat
    BY ConstantsAreNatural
  <2> HIDE DEF x
  <2>3. /\ j \in Intent /\ j.state = p.intents[t].state /\ j.held = p.intents[t].held
        /\ j.notBefore = p.intents[t].notBefore
    BY <1>2, <2>2 DEF Intent
  <2> HIDE DEF j
  <2>4. QED
    BY <2>1, <2>3, ClocksFollow DEF p
<1>5. ASSUME NEW d \in Renewals, Renew(t, d)
      PROVE  Follows(policy, policy')
  <2> DEFINE i == p.intents[t]
             left == WithinConsent(p, t, Greater(i.stage, d))
             task == Greater(i.task, left)
             j == [i EXCEPT !.stage = left, !.task = task, !.lease = ActiveLease]
  <2>1. policy' = [p EXCEPT !.intents[t] = j]
    BY <1>5 DEF Renew, p
  <2>2. d \in Nat /\ i.stage \in Nat /\ i.task \in Nat
    BY <1>2, InputsAreTyped DEF Intent
  <2>3. left \in Nat
    BY <1>1, <2>2, ConsentTyped, SmallerTyped
  <2> HIDE DEF left
  <2>4. task \in Nat
    BY <2>2, <2>3, SmallerTyped
  <2> HIDE DEF task
  <2>5. j \in Intent /\ j.state = i.state /\ j.held = i.held /\ j.notBefore = i.notBefore
    BY <1>2, <2>3, <2>4, ConstantsAreNatural DEF Intent
  <2> HIDE DEF j
  <2>6. QED
    BY <2>1, <2>5, ClocksFollow DEF p
<1>6. CASE Cancel(t)
  BY <1>1, <1>6, FinishedTyped, FinishedKeeps, TickFollows DEF Cancel, p
<1>7. QED
  BY <1>3, <1>4, <1>5, <1>6 DEF TaskStep

LEMMA ApprovedKeeps ==
  ASSUME NEW p \in PolicyState, NEW t \in Task, NEW d \in Nat
  PROVE  Keeps(p, Approved(p, t, d))
<1> DEFINE mine == Request[t].surfaces
           i == p.intents[t]
           a == [s \in Surface |-> IF s \in mine THEN p.config[s].generation ELSE i.approvals[s]]
           e == [s \in Surface |-> IF s \in mine THEN p.approvalEpochs[s] ELSE i.approvalEpochs[s]]
           j == [i EXCEPT !.approvals = a, !.approvalEpochs = e,
                          !.held = FALSE, !.notBefore = d, !.skipNotice = TRUE]
           q == [p EXCEPT !.intents[t] = j]
<1>1. i \in Intent
  BY FieldsTyped
<1>2. Approved(p, t, d) \in {q, [q EXCEPT !.humanCooldown = 0]}
  BY DEF Approved
<1>3. a \in [Surface -> Int] /\ e \in [Surface -> Int]
  BY <1>1 DEF PolicyState, Intent
<1> HIDE DEF a, e, i
<1>4. j \in Intent /\ j.state = i.state
  BY <1>1, <1>3 DEF Intent
<1> HIDE DEF j
<1>5. q \in PolicyState /\ Keeps(p, q)
  BY <1>4, IntentTyped, ChangeKeeps DEF i
<1> HIDE DEF q
<1>6. /\ [q EXCEPT !.humanCooldown = 0].front = q.front
      /\ [q EXCEPT !.humanCooldown = 0].intents = q.intents
  BY <1>5 DEF PolicyState
<1>7. Keeps(p, [q EXCEPT !.humanCooldown = 0])
  BY <1>5, <1>6 DEF Keeps
<1>8. QED
  BY <1>2, <1>5, <1>7

LEMMA HeldKeeps ==
  ASSUME NEW p \in PolicyState, NEW t \in Task
  PROVE  HeldBy(p, t) \in PolicyState /\ Keeps(p, HeldBy(p, t))
<1> DEFINE q == [p EXCEPT !.intents[t].held = TRUE, !.intents[t].skipNotice = FALSE]
           j == [p.intents[t] EXCEPT !.held = TRUE, !.skipNotice = FALSE]
<1>1. j \in Intent /\ j.state = p.intents[t].state
  <2>1. p.intents[t] \in Intent
    BY FieldsTyped
  <2>2. QED
    BY <2>1 DEF Intent
<1>2. q = [p EXCEPT !.intents[t] = j]
  BY DEF PolicyState
<1> HIDE DEF j
<1>3. q \in PolicyState /\ Keeps(p, q)
  BY <1>1, <1>2, IntentTyped, ChangeKeeps
<1> HIDE DEF q
<1>4. ApprovalRequired(q, Request[t].surfaces).front = q.front
      /\ ApprovalRequired(q, Request[t].surfaces).intents = q.intents
  BY <1>3 DEF ApprovalRequired, PolicyState
<1>5. HeldBy(p, t) = ApprovalRequired(q, Request[t].surfaces)
  BY DEF HeldBy, q
<1>6. QED
  BY <1>3, <1>4, <1>5, RequiredTyped, RequestTyped DEF Keeps

LEMMA PersonStepFollows ==
  ASSUME SafeIn(policy), NEW t \in Task, PersonStep(t)
  PROVE  Follows(policy, policy')
<1> DEFINE p == Ticked(policy)
<1>1. SafeIn(p) /\ p \in PolicyState /\ Sessions(p) \subseteq Sessions(policy)
  BY TickIsSafe DEF SafeIn
<1> HIDE DEF p
<1>2. p.intents[t] \in Intent
  BY <1>1, FieldsTyped
<1>3. ASSUME NEW d \in Delays, Approve(t, d)
      PROVE  Follows(policy, policy')
  <2>1. d \in Nat
    BY InputsAreTyped
  <2>2. QED
    BY <1>1, <1>3, <2>1, ApprovedTyped, ApprovedKeeps, TickFollows DEF Approve, p
<1>4. ASSUME NEW d \in Delays, Postpone(t, d)
      PROVE  Follows(policy, policy')
  <2> DEFINE j == [p.intents[t] EXCEPT !.notBefore = d]
  <2>1. j \in Intent /\ j.state = p.intents[t].state
    BY <1>2, InputsAreTyped DEF Intent
  <2>2. policy' = Ticked([p EXCEPT !.intents[t] = j])
    BY <1>4 DEF Postpone, p
  <2> HIDE DEF j
  <2>3. [p EXCEPT !.intents[t] = j] \in PolicyState /\ Keeps(p, [p EXCEPT !.intents[t] = j])
    BY <1>1, <2>1, IntentTyped, ChangeKeeps
  <2>4. QED
    BY <2>2, <2>3, TickFollows DEF p
<1>5. CASE Hold(t)
  BY <1>1, <1>5, HeldKeeps, TickFollows DEF Hold, p
<1>6. CASE StartNow(t)
  <2> DEFINE a == Acknowledged(p, t)
             j == [a.intents[t] EXCEPT !.stage = 0]
  <2>1. SafeIn(a) /\ Sessions(a) \subseteq Sessions(policy)
    <3> DEFINE q == [p EXCEPT !.humanCooldown = 0]
    <3>1. q \in PolicyState /\ q.front = p.front /\ q.intents = p.intents
      BY <1>1 DEF PolicyState
    <3>2. a = p \/ a = Ticked(q)
      BY DEF Acknowledged
    <3> HIDE DEF q
    <3>3. Keeps(p, q)
      BY <3>1 DEF Keeps
    <3>4. SafeIn(Ticked(q)) /\ Sessions(Ticked(q)) \subseteq Sessions(p)
      BY <1>1, <3>1, <3>3, TickAfter
    <3>5. QED
      BY <1>1, <3>2, <3>4
  <2>2. policy' \in {a, Ticked([a EXCEPT !.intents[t] = j])}
    BY <1>6 DEF StartNow, p
  <2> HIDE DEF a
  <2>3. j \in Intent /\ j.state = a.intents[t].state
    <3>1. a.intents[t] \in Intent
      BY <2>1, FieldsTyped DEF SafeIn
    <3>2. QED
      BY <3>1 DEF Intent
  <2> HIDE DEF j
  <2> DEFINE r == [a EXCEPT !.intents[t] = j]
  <2>4. r \in PolicyState /\ Keeps(a, r)
    BY <2>1, <2>3, IntentTyped, ChangeKeeps DEF SafeIn
  <2> HIDE DEF r
  <2>5. SafeIn(Ticked(r)) /\ Sessions(Ticked(r)) \subseteq Sessions(a)
    BY <2>1, <2>4, TickAfter
  <2>6. QED
    BY <2>1, <2>2, <2>5 DEF Follows, r
<1>7. CASE Deny(t)
  BY <1>1, <1>7, FinishedTyped, FinishedKeeps, TickFollows DEF Deny, p
<1>8. ASSUME NEW d \in DeferTimes, Defer(t, d)
      PROVE  Follows(policy, policy')
  <2> DEFINE e == [r \in Resource |-> [s \in Surface |->
                     IF r \in Resources[t] /\ s \in Request[t].surfaces THEN d ELSE p.deferrals[r][s]]]
             q == [p EXCEPT !.deferrals = e]
  <2>1. e \in [Resource -> [Surface -> Nat]]
    BY <1>1, InputsAreTyped DEF PolicyState
  <2>2. policy' = Ticked(q)
    BY <1>8 DEF Defer, p
  <2> HIDE DEF e
  <2>3. q \in PolicyState /\ q.front = p.front /\ q.intents = p.intents
    BY <1>1, <2>1 DEF PolicyState
  <2> HIDE DEF q
  <2>4. Keeps(p, q)
    BY <2>3 DEF Keeps
  <2>5. QED
    BY <2>2, <2>3, <2>4, TickFollows DEF p
<1>9. QED
  BY <1>3, <1>4, <1>5, <1>6, <1>7, <1>8 DEF PersonStep

\* A person or an adapter changes something other than the tasks, and it ticks.
LEMMA SettingFollows ==
  ASSUME SafeIn(policy), NEW q \in PolicyState, policy' = Ticked(q),
         q.front = policy.front, q.intents = policy.intents
  PROVE  Follows(policy, policy')
<1>1. Keeps(policy, q)
  BY DEF Keeps
<1>2. QED
  BY <1>1, TickAfter DEF Follows

\* The same without the tick, where it blocks nothing.
LEMMA NoteFollows ==
  ASSUME SafeIn(policy), policy' \in PolicyState, Obstacles(policy') = Obstacles(policy),
         policy'.front = policy.front, policy'.intents = policy.intents
  PROVE  Follows(policy, policy')
<1>1. Keeps(policy, policy')
  BY DEF Keeps
<1>2. \A t \in Task : (Blocked(policy', t) <=> Blocked(policy, t))
  BY SameObstacles DEF SafeIn
<1>3. QED
  BY <1>1, <1>2, QuietIsSafe DEF Follows

LEMMA ReconfiguredKeeps ==
  ASSUME NEW p \in PolicyState, NEW s \in Surface, NEW c \in Configurations[s]
  PROVE  Keeps(p, Reconfigured(p, s, c))
<1> DEFINE q == Finished(p, {t \in Task : s \in Request[t].surfaces})
<1>1. q \in PolicyState /\ Keeps(p, q)
  BY FinishedTyped, FinishedKeeps
<1>2. Reconfigured(p, s, c).front = q.front /\ Reconfigured(p, s, c).intents = q.intents
  <2> HIDE DEF q
  <2>1. QED
    BY <1>1 DEF Reconfigured, PolicyState, q
<1> HIDE DEF q
<1>3. QED
  BY <1>1, <1>2 DEF Keeps

LEMMA TakenOverKeeps ==
  ASSUME NEW p \in PolicyState, NEW s \in Surface
  PROVE  Keeps(p, TakenOver(p, s))
<1> DEFINE q == IF p.humanCooldown = 0 /\ p.preferences.reapprove
                THEN ApprovalRequired(p, {"desktop"}) ELSE p
           f == [t \in Task |-> IF IsLive(p, t) /\ YieldsToHuman(t) THEN Interrupted(p, t) ELSE p.intents[t]]
<1>1. q \in PolicyState /\ q.front = p.front
  <2>1. ApprovalRequired(p, {"desktop"}) \in PolicyState
    BY RequiredTyped DEF Surface
  <2>2. ApprovalRequired(p, {"desktop"}).front = p.front
    BY DEF ApprovalRequired, PolicyState
  <2>3. QED
    BY <2>1, <2>2
<1>2. \A t \in Task : f[t].state = p.intents[t].state
  <2>1. ASSUME NEW t \in Task PROVE Interrupted(p, t).state = p.intents[t].state
    <3>1. p.intents[t] \in Intent
      BY FieldsTyped
    <3>2. QED
      BY <3>1 DEF Interrupted, Intent
  <2>2. QED
    BY <2>1
<1>3. TakenOver(p, s).front = q.front /\ TakenOver(p, s).intents = f
  <2> HIDE DEF f
  <2>1. PICK h, x : TakenOver(p, s) = [q EXCEPT !.humanCooldown = h, !.takeoverSurfaces = x,
                                               !.postYieldWarning = TRUE, !.intents = f]
    BY DEF TakenOver, f
  <2> HIDE DEF q
  <2>2. QED
    BY <1>1, <2>1 DEF PolicyState
<1> HIDE DEF q, f
<1>4. QED
  BY <1>1, <1>2, <1>3 DEF Keeps

LEMMA SurfaceStepFollows ==
  ASSUME SafeIn(policy), SurfaceStep
  PROVE  Follows(policy, policy')
<1>1. policy \in PolicyState /\ TypeOK
  BY DEF SafeIn, TypeOK
<1>2. policy' \in PolicyState
  BY <1>1, SurfaceStepTyped DEF TypeOK
<1>3. ASSUME NEW s \in Surface, NEW c \in Configurations[s], Configure(s, c)
      PROVE  Follows(policy, policy')
  BY <1>1, <1>3, ReconfiguredTyped, ReconfiguredKeeps, TickAfter DEF Configure, Follows
<1>4. ASSUME NEW c \in PreferenceChoices, SetPreferences(c)
      PROVE  Follows(policy, policy')
  BY <1>1, <1>2, <1>4, NoteFollows DEF SetPreferences, PolicyState, Obstacles
<1>5. ASSUME NEW d \in NoticeChoices, Notice(d)
      PROVE  Follows(policy, policy')
  BY <1>1, <1>2, <1>5, NoteFollows DEF Notice, PolicyState, Obstacles
<1>6. ASSUME NEW s \in Surface, NEW v \in VisibilityChoices[s], Ready(s, v)
      PROVE  Follows(policy, policy')
  <2> DEFINE q == [policy EXCEPT !.available[s] = v]
  <2>1. v \in [ready : BOOLEAN, notice : BOOLEAN]
    BY InputsAreTyped
  <2>2. q \in PolicyState /\ q.front = policy.front /\ q.intents = policy.intents
    BY <1>1, <2>1 DEF PolicyState
  <2>3. QED
    BY <1>6, <2>2, SettingFollows DEF Ready
<1>7. ASSUME NEW b \in InputChoices, InputReady(b)
      PROVE  Follows(policy, policy')
  <2> DEFINE q == [policy EXCEPT !.inputReady = b]
  <2>1. q \in PolicyState /\ q.front = policy.front /\ q.intents = policy.intents
    BY <1>1, InputsAreTyped DEF PolicyState
  <2>2. QED
    BY <1>7, <2>1, SettingFollows DEF InputReady
<1>8. ASSUME NEW c \in Scope, NEW r \in PauseReason, NEW d \in Nat,
             policy' = Ticked([policy EXCEPT !.pauses[c][r] = d])
      PROVE  Follows(policy, policy')
  <2> DEFINE x == [policy.pauses[c] EXCEPT ![r] = d]
             q == [policy EXCEPT !.pauses[c] = x]
  <2>1. x \in [PauseReason -> Nat]
    BY <1>1 DEF PolicyState
  <2>2. policy' = Ticked(q)
    BY <1>8
  <2> HIDE DEF x
  <2>3. q \in PolicyState /\ q.front = policy.front /\ q.intents = policy.intents
    BY <1>1, <2>1 DEF PolicyState
  <2>4. QED
    BY <2>2, <2>3, SettingFollows
<1>9. ASSUME NEW c \in Scope, ResumeTakeover(c)
      PROVE  Follows(policy, policy')
  <2> DEFINE rest == IF c = "all" THEN {} ELSE policy.takeoverSurfaces \ {c}
             h == IF rest = {} THEN 0 ELSE policy.humanCooldown
             q == [policy EXCEPT !.takeoverSurfaces = rest, !.humanCooldown = h]
  <2>1. rest \in SUBSET Surface /\ h \in Nat
    BY <1>1 DEF PolicyState
  <2>2. policy' = Ticked(q)
    BY <1>9 DEF ResumeTakeover
  <2> HIDE DEF rest, h
  <2>3. q \in PolicyState /\ q.front = policy.front /\ q.intents = policy.intents
    BY <1>1, <2>1 DEF PolicyState
  <2>4. QED
    BY <2>2, <2>3, SettingFollows
<1>10. ASSUME NEW c \in Scope, ResumeDeferral(c)
       PROVE  Follows(policy, policy')
  <2> DEFINE e == [r \in Resource |-> [s \in Surface |->
                     IF c \in {"all", s} THEN 0 ELSE policy.deferrals[r][s]]]
             q == [policy EXCEPT !.deferrals = e]
  <2>1. e \in [Resource -> [Surface -> Nat]]
    BY <1>1 DEF PolicyState
  <2>2. policy' = Ticked(q)
    BY <1>10 DEF ResumeDeferral
  <2> HIDE DEF e
  <2>3. q \in PolicyState /\ q.front = policy.front /\ q.intents = policy.intents
    BY <1>1, <2>1 DEF PolicyState
  <2>4. QED
    BY <2>2, <2>3, SettingFollows
<1>11. ASSUME NEW s \in InputSurfaces, Input(s)
       PROVE  Follows(policy, policy')
  <2>1. s \in Surface
    BY InputsAreTyped
  <2>2. Ticked(policy) \in PolicyState
    BY <1>1, TickedTyped
  <2>3. QED
    BY <1>11, <2>1, <2>2, TakenOverTyped, TakenOverKeeps, TickFollows DEF Input
<1>12. CASE Stop
  <2> DEFINE q == Finished(policy, Task)
  <2>1. q \in PolicyState
    BY <1>1, FinishedTyped
  <2>2. \A t \in Task : q.intents[t].state \notin Live
    <3>1. \A t \in Task : q.intents[t] = IF IsLive(policy, t) THEN EndedIntent ELSE policy.intents[t]
      BY <1>1 DEF Finished, PolicyState
    <3>2. EndedIntent.state = "ended"
      BY DEF EndedIntent, BlankIntent
    <3>3. QED
      BY <3>1, <3>2 DEF IsLive, Live, Waiting
  <2>3. Keeps(policy, q)
    BY <1>1, FinishedKeeps
  <2>4. policy'.front = q.front /\ policy'.intents = q.intents
    <3>1. PICK c, e : policy' = [q EXCEPT !.config = c, !.deferrals = e,
                                          !.takeoverSurfaces = {}, !.humanCooldown = 0,
                                          !.postYieldWarning = FALSE, !.approvalRequired = {}]
      BY <1>12 DEF Stop
    <3> HIDE DEF q
    <3>2. QED
      BY <2>1, <3>1 DEF PolicyState
  <2> HIDE DEF q
  <2>5. Keeps(policy, policy')
    BY <2>3, <2>4 DEF Keeps
  <2>6. OrderedIn(policy') /\ Sessions(policy') \subseteq Sessions(policy)
    BY <1>1, <1>2, <2>5, KeptOrder DEF SafeIn
  <2>7. DisjointIn(policy') /\ UnblockedIn(policy')
    BY <2>2, <2>4 DEF DisjointIn, UnblockedIn, ReservesIn, Reserving, Live, Waiting
  <2>8. QED
    BY <1>2, <2>6, <2>7 DEF Follows, SafeIn
<1>13. QED
  <2>1. \A d \in PauseTimes : d \in Nat
    BY InputsAreTyped
  <2>2. QED
    BY <2>1, <1>3, <1>4, <1>5, <1>6, <1>7, <1>8, <1>9, <1>10, <1>11, <1>12
       DEF SurfaceStep, Pause, Resume

LEMMA CloseFollows ==
  ASSUME SafeIn(policy), NEW o \in Owner, Close(o)
  PROVE  Follows(policy, policy')
<1> DEFINE f == Finished(policy, {t \in Task : Request[t].owner = o})
           q == [f EXCEPT !.owners[o] = "closed"]
<1>1. f \in PolicyState /\ Keeps(policy, f)
  BY FinishedTyped, FinishedKeeps DEF SafeIn
<1>2. policy' = Ticked(q)
  BY DEF Close
<1> HIDE DEF f
<1>3. q \in PolicyState /\ q.front = f.front /\ q.intents = f.intents
  BY <1>1 DEF PolicyState
<1> HIDE DEF q
<1>4. Keeps(policy, q)
  BY <1>1, <1>3 DEF Keeps
<1>5. QED
  BY <1>2, <1>3, <1>4, TickAfter DEF Follows

\* Time only removes what blocks.
LEMMA PassFollows ==
  ASSUME SafeIn(policy), Pass
  PROVE  Follows(policy, policy')
<1> DEFINE p == policy
           q == AgedPolicy(p, 1)
<1>1. p \in PolicyState /\ q \in PolicyState /\ policy' = q
  BY AgedPolicyTyped DEF SafeIn, Pass
<1>2. \A x \in Nat : Aged(x, 1) > 0 => x > 0
  BY DEF Aged
<1>3. /\ q.front = p.front /\ q.available = p.available /\ q.inputReady = p.inputReady
      /\ q.intents = [t \in Task |-> AgedIntent(p.intents[t], 1)]
      /\ q.pauses = [c \in Scope |-> [r \in PauseReason |-> Aged(p.pauses[c][r], 1)]]
      /\ q.deferrals = [r \in Resource |-> [s \in Surface |-> Aged(p.deferrals[r][s], 1)]]
      /\ q.humanCooldown = Aged(p.humanCooldown, 1)
  BY <1>1 DEF AgedPolicy, PolicyState
<1>4. ASSUME NEW i \in Intent
      PROVE  /\ AgedIntent(i, 1).state = i.state /\ AgedIntent(i, 1).held = i.held
             /\ AgedIntent(i, 1).notBefore = Aged(i.notBefore, 1)
             /\ i.notBefore \in Nat
  BY DEF AgedIntent, Intent
<1> HIDE DEF q
<1>5. \A t \in Task : /\ q.intents[t].state = p.intents[t].state
                      /\ q.intents[t].held = p.intents[t].held
                      /\ q.intents[t].notBefore > 0 => p.intents[t].notBefore > 0
  BY <1>1, <1>2, <1>3, <1>4, FieldsTyped
<1>6. Keeps(p, q)
  BY <1>3, <1>5 DEF Keeps
<1>7. \A c \in Scope, r \in PauseReason : q.pauses[c][r] > 0 => p.pauses[c][r] > 0
  BY <1>1, <1>2, <1>3 DEF PolicyState
<1>8. \A r \in Resource, s \in Surface : q.deferrals[r][s] > 0 => p.deferrals[r][s] > 0
  BY <1>1, <1>2, <1>3 DEF PolicyState
<1>9. q.humanCooldown > 0 => p.humanCooldown > 0
  BY <1>1, <1>2, <1>3 DEF PolicyState
<1>10. ASSUME NEW t \in Task PROVE (Blocked(q, t) => Blocked(p, t))
  BY <1>1, <1>3, <1>5, <1>7, <1>8, <1>9, BlocksVanish
<1>11. QED
  BY <1>1, <1>6, <1>10, QuietIsSafe DEF Follows

LEMMA StepFollows ==
  ASSUME SafeIn(policy), Next, \A t \in Task : ~ Accept(t)
  PROVE  Follows(policy, policy')
<1>1. ASSUME NEW o \in Owner, Open(o)
      PROVE  Follows(policy, policy')
  <2>1. policy \in PolicyState /\ policy' = [policy EXCEPT !.owners[o] = "open"]
    BY <1>1 DEF Open, SafeIn
  <2>2. /\ policy' \in PolicyState /\ Obstacles(policy') = Obstacles(policy)
        /\ policy'.front = policy.front /\ policy'.intents = policy.intents
    BY <2>1 DEF PolicyState, Obstacles
  <2>3. QED
    BY <2>2, NoteFollows
<1>2. CASE Poll
  BY <1>2, TickIsSafe DEF Poll, Follows
<1>3. QED
  BY <1>1, <1>2, CloseFollows, TaskStepFollows, PersonStepFollows, SurfaceStepFollows, PassFollows
     DEF Next

LEMMA InitSafe == Init => SafeIn(policy) /\ Sessions(policy) = {}
<1> SUFFICES ASSUME Init PROVE SafeIn(policy) /\ Sessions(policy) = {}
  OBVIOUS
<1>1. policy \in PolicyState
  BY InitTyped DEF TypeOK
<1>2. \A t \in Task : policy.intents[t].state = "new" /\ policy.front[t] = {}
  BY DEF Init, BlankIntent
<1>3. Listed(policy) = {} /\ Sessions(policy) = {}
  BY <1>2 DEF Listed, Sessions, IsActive
<1>4. OrderedIn(policy)
  BY <1>2, <1>3 DEF OrderedIn
<1>5. DisjointIn(policy) /\ UnblockedIn(policy)
  BY <1>2 DEF DisjointIn, UnblockedIn, ReservesIn, Reserving
<1>6. QED
  BY <1>1, <1>3, <1>4, <1>5 DEF SafeIn

LEMMA StepIsSafe == SafeIn(policy) /\ [Next]_policy => SafeIn(policy')
<1> SUFFICES ASSUME SafeIn(policy), [Next]_policy PROVE SafeIn(policy')
  OBVIOUS
<1>1. CASE UNCHANGED policy
  BY <1>1
<1>2. ASSUME NEW t \in Task, Accept(t) PROVE SafeIn(policy')
  BY <1>2, AcceptFollows
<1>3. CASE Next /\ \A t \in Task : ~ Accept(t)
  BY <1>3, StepFollows DEF Follows
<1>4. QED
  BY <1>1, <1>2, <1>3

Safe == SafeIn(policy)

LEMMA AlwaysSafe == Spec => []Safe
<1>1. Init => Safe
  BY InitSafe DEF Safe
<1>2. Safe /\ [Next]_policy => Safe'
  BY StepIsSafe DEF Safe
<1>3. QED
  BY <1>1, <1>2, PTL DEF Spec

-----------------------------------------------------------------------------

\* The list of tasks stays ordered through submissions, tasks that move to its
\* end and tasks that are forgotten; arbitration in list order rests on it.
THEOREM ListStaysOrdered == Spec => []ListIsOrdered
<1>1. Safe => ListIsOrdered
  BY DEF Safe, SafeIn, OrderedIn, ListIsOrdered
<1>2. QED
  BY <1>1, AlwaysSafe, PTL

\* No two tasks that are announced, offered or active ever share a resource.
THEOREM ReservationsStayDisjoint == Spec => []ReservationsDisjoint
<1>1. Safe => ReservationsDisjoint
  BY DEF Safe, SafeIn, DisjointIn, ReservesIn, ReservationsDisjoint
<1>2. QED
  BY <1>1, AlwaysSafe, PTL

\* No task keeps a notice, an offer or a session in a state in which the policy
\* has a reason to pause it.
THEOREM ReservationsStayUnblocked == Spec => []ReservingIsUnblocked
<1>1. Safe => ReservingIsUnblocked
  BY DEF Safe, SafeIn, UnblockedIn, ReservesIn, ReservingIsUnblocked
<1>2. QED
  BY <1>1, AlwaysSafe, PTL

\* Sessions implement exclusive use: a task gets all of its resources in one
\* step, only if none of them was in use before that step.
THEOREM SessionsAreExclusive == Spec => Arbitration
<1>1. Init => Arbiter!Init
  BY InitSafe DEF Arbiter!Init, Sessions
<1>2. ASSUME Safe, [Next]_policy
      PROVE  [Arbiter!Next]_(Sessions(policy))
  <2>1. CASE UNCHANGED policy
    BY <2>1 DEF Sessions, IsActive
  <2>2. ASSUME NEW t \in Task, Accept(t) PROVE Arbiter!Next
    <3>1. /\ t \notin Sessions(policy) /\ t \in Sessions(policy')
          /\ Sessions(policy') \subseteq Sessions(policy) \union {t}
          /\ \A u \in Sessions(policy) : ~ Conflict(t, u)
      BY <1>2, <2>2, AcceptFollows DEF Safe
    <3>2. Arbiter!Free(t)
      BY <3>1 DEF Arbiter!Free, Sessions, Conflict
    <3> DEFINE kept == Sessions(policy') \ {t}
    <3>3. kept \in SUBSET Sessions(policy) /\ Sessions(policy') = kept \union {t}
      BY <3>1
    <3>4. Arbiter!Take(t)
      <4>1. t \notin {u \in Task : IsActive(policy, u)}
        BY <3>1 DEF Sessions
      <4>2. \E k \in SUBSET {u \in Task : IsActive(policy, u)} :
              {u \in Task : IsActive(policy', u)} = k \union {t}
        BY <3>3 DEF Sessions
      <4>3. {u \in Task : IsActive(policy, u)}' = {u \in Task : IsActive(policy', u)}
        BY DEF IsActive
      <4>4. QED
        BY <3>2, <4>1, <4>2, <4>3 DEF Arbiter!Take
    <3>5. QED
      BY <3>4 DEF Arbiter!Next
  <2>3. CASE Next /\ \A t \in Task : ~ Accept(t)
    <3>1. Sessions(policy') \subseteq Sessions(policy)
      BY <1>2, <2>3, StepFollows DEF Safe, Follows
    <3>2. QED
      BY <3>1 DEF Arbiter!Next, Arbiter!Lose, Sessions
  <2>4. QED
    BY <1>2, <2>1, <2>2, <2>3
<1>3. QED
  BY <1>1, <1>2, AlwaysSafe, PTL DEF Spec, Arbitration, Arbiter!Spec, Sessions

-----------------------------------------------------------------------------
(* What the passes of a tick do to one task, and what they leave alone.    *)

\* The fields of the policy that are not about single tasks.
Settings(p) == <<p.owners, p.config, p.profiles, p.preferences, p.approvalRequired,
                 p.approvalEpochs, p.postYieldWarning, p.takeoverSurfaces, Obstacles(p)>>

LEMMA SettingsFields ==
  ASSUME NEW p, NEW q, Settings(q) = Settings(p)
  PROVE  /\ q.owners = p.owners /\ q.config = p.config /\ q.profiles = p.profiles
         /\ q.preferences = p.preferences /\ q.approvalRequired = p.approvalRequired
         /\ q.approvalEpochs = p.approvalEpochs /\ q.postYieldWarning = p.postYieldWarning
         /\ q.takeoverSurfaces = p.takeoverSurfaces /\ Obstacles(q) = Obstacles(p)
         /\ q.pauses = p.pauses /\ q.available = p.available /\ q.inputReady = p.inputReady
         /\ q.humanCooldown = p.humanCooldown /\ q.deferrals = p.deferrals
BY DEF Settings, Obstacles

LEMMA BlankStates ==
  /\ BlankIntent.state = "new" /\ EndedIntent.state = "ended"
  /\ ForgottenIntent.state = "forgotten"
BY DEF BlankIntent, EndedIntent, ForgottenIntent

LEMMA SweptTask ==
  ASSUME NEW p \in PolicyState, NEW t \in Task
  PROVE  /\ Swept(p).intents[t] = IF Overdue(p, t) THEN EndedIntent
                                  ELSE IF Interrupts(p, t) THEN YieldedIntent(p, t)
                                  ELSE p.intents[t]
         /\ Swept(p).front[t] = ToTail(p, {u \in Task : Interrupts(p, u)})[t]
         /\ Settings(Swept(p)) = Settings(p)
<1>1. Settings(Swept(p)) = Settings(p)
  BY DEF Swept, SweptOf, PolicyState, Settings, Obstacles
<1>2. QED
  BY <1>1 DEF Swept, SweptOf, PolicyState

\* An interrupted task waits anew, with every clock running.
LEMMA YieldedTask ==
  ASSUME NEW p \in PolicyState, NEW t \in Task
  PROVE  LET i == p.intents[t]
             j == YieldedIntent(p, t)
         IN  /\ j.state = "paused" /\ j.lease = QueueLease /\ j.stage = 0
             /\ j.task = i.task /\ j.held = i.held /\ j.notBefore = i.notBefore
             /\ j.approvals = i.approvals /\ j.approvalEpochs = i.approvalEpochs
             /\ j.wait <= j.task
             /\ i.task > 0 => j.wait > 0
<1> DEFINE i == p.intents[t]
           w == Lesser(i.task, Greater(Request[t].wait, p.humanCooldown + NoticeFor(p, t) + OfferWindow))
<1>1. i \in Intent /\ i.task \in Nat /\ p.humanCooldown \in Nat
  BY FieldsTyped DEF PolicyState, Intent
<1>2. YieldedIntent(p, t) =
        [i EXCEPT !.state = "paused", !.lease = QueueLease, !.stage = 0, !.wait = w]
  BY DEF YieldedIntent
<1>3. w \in Nat /\ w <= i.task /\ (i.task > 0 => w > 0)
  <2>1. Request[t].wait \in Nat \ {0}
    BY RequestsAreValid
  <2>2. p.humanCooldown + NoticeFor(p, t) + OfferWindow \in Nat
    BY <1>1, NoticeTyped, ConstantsAreNatural
  <2> DEFINE r == p.humanCooldown + NoticeFor(p, t) + OfferWindow
  <2> HIDE DEF r, i
  <2>3. QED
    BY <1>1, <2>1, <2>2 DEF Lesser, Greater, r
<1> HIDE DEF w
<1>4. QED
  BY <1>1, <1>2, <1>3 DEF Intent

\* What the walk leaves alone in a task, and where it puts it.
SameClaim(i, j) ==
  /\ j.wait = i.wait /\ j.task = i.task /\ j.lease = i.lease
  /\ j.held = i.held /\ j.notBefore = i.notBefore
  /\ j.approvals = i.approvals /\ j.approvalEpochs = i.approvalEpochs

Restaged(i, a, x, m) == [i EXCEPT !.announced = a, !.state = x, !.stage = m]

LEMMA RestagedTask ==
  ASSUME NEW i \in Intent, NEW a, NEW x, NEW m, NEW j, j = Restaged(i, a, x, m)
  PROVE  /\ SameClaim(i, j) /\ j.announced = a /\ j.state = x /\ j.stage = m
         /\ a = i.announced /\ x = i.state /\ m = i.stage => j = i
BY DEF Intent, SameClaim, Restaged

LEMMA AnnouncedTask ==
  ASSUME NEW i \in Intent, NEW n \in Nat
  PROVE  LET j == Announced(i, n)
         IN  /\ SameClaim(i, j) /\ j \in Intent
             /\ \/ n = 0 /\ j.state = "offered" /\ j.stage = OfferWindow
                \/ n > 0 /\ j.state = "announcing" /\ j.stage = n /\ j.announced
<1> DEFINE j == Announced(i, n)
           x == IF n = 0 THEN "offered" ELSE "announcing"
           m == IF n = 0 THEN OfferWindow ELSE n
<1>1. OfferWindow \in Nat
  BY ConstantsAreNatural
<1>2. j \in Intent
  BY <1>1 DEF Announced, Intent, Live, Waiting
<1>3. PICK a : a = (i.announced \/ n > 0)
  OBVIOUS
<1>4. j = Restaged(i, a, x, m)
  BY <1>3 DEF Announced, Restaged
<1> HIDE DEF j, x, m
<1>5. SameClaim(i, j) /\ j.announced = a /\ j.state = x /\ j.stage = m
  BY <1>4, RestagedTask
<1>6. \/ n = 0 /\ j.state = "offered" /\ j.stage = OfferWindow
      \/ n > 0 /\ j.state = "announcing" /\ j.stage = n /\ j.announced
  <2>1. CASE n = 0
    BY <1>5, <2>1 DEF x, m
  <2>2. CASE n > 0
    <3>1. x = "announcing" /\ m = n
      BY <2>2 DEF x, m
    <3>2. a = TRUE
      BY <1>3, <2>2, Zenon
    <3>3. j.announced
      BY <1>5, <3>2, Zenon
    <3>4. QED
      BY <1>5, <2>2, <3>1, <3>3, Zenon
  <2>3. QED
    BY <2>1, <2>2
<1>7. QED
  BY <1>2, <1>5, <1>6 DEF j

\* A notice that is announced already, with time left, stays as it is.
LEMMA AnnouncedAgain ==
  ASSUME NEW i \in Intent, i.state = "announcing"
  PROVE  (Announced(i, i.stage) = i <=> i.announced /\ i.stage > 0)
<1> DEFINE j == Announced(i, i.stage)
           a == i.announced \/ i.stage > 0
           x == IF i.stage = 0 THEN "offered" ELSE "announcing"
           m == IF i.stage = 0 THEN OfferWindow ELSE i.stage
<1>1. i.stage \in Nat /\ i.announced \in BOOLEAN
  BY DEF Intent
<1>2. CASE i.stage = 0
  BY <1>1, <1>2, AnnouncedTask
<1>3. CASE i.stage > 0 /\ ~ i.announced
  BY <1>1, <1>3, AnnouncedTask
<1>4. CASE i.stage > 0 /\ i.announced
  <2>1. j = Restaged(i, a, x, m)
    BY DEF Announced, Restaged
  <2>2. a = i.announced
    BY <1>1, <1>4
  <2>3. x = i.state /\ m = i.stage
    BY <1>4
  <2> HIDE DEF j, a, x, m
  <2>4. j = i
    BY <2>1, <2>2, <2>3, RestagedTask
  <2>5. QED
    BY <1>4, <2>4 DEF j
<1>5. QED
  BY <1>1, <1>2, <1>3, <1>4

LEMMA GrantedTask ==
  ASSUME NEW p \in PolicyState, NEW t \in Task
  PROVE  LET i == p.intents[t]
             j == GrantedIntent(p, t)
         IN  /\ SameClaim(i, j) /\ j \in Intent
             /\ j.state \in {"announcing", "offered"}
             /\ j.state = "offered" /\ (i.state = "offered" => i.stage > 0) => j.stage > 0
             /\ j.state = "announcing" => j.stage > 0 /\ j.announced
<1> DEFINE i == p.intents[t]
           n == IF i.state = "announcing" THEN i.stage ELSE NoticeFor(p, t)
<1>1. i \in Intent /\ n \in Nat
  BY FieldsTyped, NoticeTyped DEF Intent
<1>2. CASE i.state = "offered"
  BY <1>1, <1>2 DEF GrantedIntent, SameClaim
<1>3. CASE i.state # "offered"
  <2>1. GrantedIntent(p, t) = Announced(i, n)
    BY <1>3 DEF GrantedIntent
  <2> HIDE DEF n, i
  <2>2. OfferWindow > 0
    BY ConstantsAreNatural
  <2>3. QED
    BY <1>1, <1>3, <2>1, <2>2, AnnouncedTask DEF i
<1>4. QED
  BY <1>2, <1>3

LEMMA ArbitratedTask ==
  ASSUME NEW p \in PolicyState, NEW t \in Task
  PROVE  LET i == p.intents[t]
             j == Arbitrated(p).intents[t]
         IN  /\ SameClaim(i, j)
             /\ i.state \notin Waiting => j = i
             /\ i.state \in Waiting /\ t \in Granted(p) => j = GrantedIntent(p, t)
             /\ i.state \in Waiting /\ t \notin Granted(p) =>
                  j.state = Reason(p, Granted(p), t) /\ j.stage = 0
             /\ Arbitrated(p).front[t] = p.front[t]
             /\ Settings(Arbitrated(p)) = Settings(p)
<1> DEFINE i == p.intents[t]
           x == Reason(p, Granted(p), t)
           j == Arbitrated(p).intents[t]
           k == [i EXCEPT !.state = x, !.stage = 0]
<1>1. Settings(Arbitrated(p)) = Settings(p) /\ Arbitrated(p).front[t] = p.front[t]
  BY DEF Arbitrated, ArbitratedFor, PolicyState, Settings, Obstacles
<1>2. j = IF i.state \notin Waiting THEN i
          ELSE IF t \in Granted(p) THEN GrantedIntent(p, t)
          ELSE k
  BY DEF Arbitrated, ArbitratedFor, PolicyState
<1>3. i \in Intent
  BY FieldsTyped
<1> HIDE DEF x
<1>4. SameClaim(i, k) /\ k.state = x /\ k.stage = 0
  BY <1>3 DEF Intent, SameClaim
<1>5. SameClaim(i, i)
  BY DEF SameClaim
<1> HIDE DEF i, j, k
<1>6. QED
  BY <1>1, <1>2, <1>4, <1>5, GrantedTask DEF i, j, x

LEMMA TrimmedTask ==
  ASSUME NEW p \in PolicyState, NEW t \in Task
  PROVE  /\ Trimmed(p).intents[t] = IF t \in Surplus(p) THEN ForgottenIntent ELSE p.intents[t]
         /\ Trimmed(p).front[t] = IF t \in Surplus(p) THEN {} ELSE p.front[t] \ Surplus(p)
         /\ t \in Surplus(p) => p.intents[t].state = "ended"
         /\ Settings(Trimmed(p)) = Settings(p)
<1>1. Settings(Trimmed(p)) = Settings(p)
  BY DEF Trimmed, PolicyState, Settings, Obstacles
<1>2. t \in Surplus(p) => p.intents[t].state = "ended"
  BY DEF Surplus
<1>3. QED
  BY <1>1, <1>2, TrimmedIntents DEF Trimmed, PolicyState

-----------------------------------------------------------------------------
(* The walk decides the same for two policies that it cannot tell apart.   *)

LEMMA OneOutcome ==
  ASSUME NEW p \in PolicyState, OrderedIn(p), NEW E \in SUBSET Listed(p),
         NEW R \in SUBSET E, GrantedBy(p, E, R),
         NEW Q \in SUBSET E, GrantedBy(p, E, Q)
  PROVE  Q = R
<1> SUFFICES ASSUME Q # R PROVE FALSE
  OBVIOUS
<1> DEFINE D == {t \in E : ~ (t \in Q <=> t \in R)}
           C == {p.front[t] \intersect E : t \in D}
<1>1. E \in SUBSET Task /\ D # {} /\ D \in SUBSET E
  BY DEF Listed
<1>2. PICK x \in C : \A y \in C : y \subseteq x => y = x
  <2>1. IsFiniteSet(E)
    BY <1>1, TasksAreFinite, FS_Subset
  <2>2. C \in SUBSET (SUBSET E) /\ C # {}
    BY <1>1
  <2> HIDE DEF C
  <2>3. QED
    BY <2>1, <2>2, SmallestSubset
<1>3. PICK t \in D : x = p.front[t] \intersect E
  BY <1>2
<1>4. ASSUME NEW u \in E, u \in p.front[t] PROVE u \in Q <=> u \in R
  <2> SUFFICES ASSUME u \in D PROVE FALSE
    BY <1>4
  <2>1. p.front[u] \intersect E \in C
    OBVIOUS
  <2>2. p.front[u] \intersect E \subseteq p.front[t] \intersect E
    BY <1>1, <1>4 DEF OrderedIn
  <2>3. p.front[u] \intersect E = p.front[t] \intersect E
    BY <1>2, <1>3, <2>1, <2>2
  <2>4. u \notin p.front[u]
    BY <1>1 DEF OrderedIn
  <2>5. QED
    BY <1>4, <2>3, <2>4
<1>5. Q \intersect p.front[t] = R \intersect p.front[t]
  BY <1>4
<1>6. QED
  BY <1>1, <1>3, <1>5 DEF GrantedBy

\* For the walk p and q are alike.
Alike(p, q) ==
  /\ \A t \in Task : p.intents[t].state \in Waiting <=> q.intents[t].state \in Waiting
  /\ \A t \in Task : IsActive(p, t) <=> IsActive(q, t)
  /\ \A t \in Task : p.intents[t].state \in Waiting =>
       /\ Blocked(p, t) <=> Blocked(q, t)
       /\ NeedsApproval(p, t) <=> NeedsApproval(q, t)
       /\ \A u \in Task : q.intents[u].state \in Waiting =>
            (u \in p.front[t] <=> u \in q.front[t])

LEMMA SameWalk ==
  ASSUME NEW p \in PolicyState, OrderedIn(p), NEW q \in PolicyState, OrderedIn(q), Alike(p, q)
  PROVE  /\ Granted(q) = Granted(p)
         /\ \A t \in Granted(p) : t \in Task /\ p.intents[t].state \in Waiting
         /\ \A t \in Task : p.intents[t].state \in Waiting =>
              Reason(q, Granted(q), t) = Reason(p, Granted(p), t)
<1> DEFINE E == {t \in Task : Eligible(p, t)}
           R == Granted(p)
<1>1. ASSUME NEW t \in Task PROVE Eligible(q, t) <=> Eligible(p, t)
  BY DEF Eligible, Alike
<1>2. E = {t \in Task : Eligible(q, t)}
  BY <1>1
<1>3. E \in SUBSET Listed(p) /\ E \in SUBSET Listed(q)
  BY <1>1 DEF Eligible, Listed, Waiting
<1>4. \A t \in E : p.intents[t].state \in Waiting /\ q.intents[t].state \in Waiting /\ t \in Task
  BY <1>1 DEF Eligible
<1>5. R \in SUBSET E /\ GrantedBy(p, E, R)
  BY GrantedIsDefined
<1>6. Granted(q) \in SUBSET E /\ GrantedBy(q, E, Granted(q))
  <2> HIDE DEF E
  <2>1. QED
    BY <1>2, GrantedIsDefined
<1> HIDE DEF E, R
<1>7. GrantedBy(q, E, R)
  <2>1. ASSUME NEW t \in E PROVE R \intersect q.front[t] = R \intersect p.front[t]
    BY <1>4, <1>5 DEF Alike
  <2>2. QED
    BY <1>5, <2>1 DEF GrantedBy
<1>8. Granted(q) = R
  BY <1>3, <1>5, <1>6, <1>7, OneOutcome
<1>9. ASSUME NEW t \in Task, p.intents[t].state \in Waiting
      PROVE  Reason(q, R, t) = Reason(p, R, t)
  <2>1. \A u \in Task : u \in R \intersect p.front[t] <=> u \in R \intersect q.front[t]
    BY <1>4, <1>5, <1>9 DEF Alike
  <2>2. \A u \in Task : IsActive(p, u) <=> IsActive(q, u)
    BY DEF Alike
  <2>3. Blocked(p, t) <=> Blocked(q, t)
    BY <1>9 DEF Alike
  <2>4. (\E u \in Task : (IsActive(q, u) \/ u \in R \intersect q.front[t]) /\ Conflict(t, u))
        <=> (\E u \in Task : (IsActive(p, u) \/ u \in R \intersect p.front[t]) /\ Conflict(t, u))
    BY <2>1, <2>2
  <2>5. QED
    BY <2>3, <2>4 DEF Reason
<1>10. QED
  BY <1>4, <1>5, <1>8, <1>9 DEF R

-----------------------------------------------------------------------------
(* A settled policy: a tick finds nothing to do. *)

PlacedIn(p, t) ==
  IF t \in Granted(p)
  THEN \/ p.intents[t].state = "offered"
       \/ /\ p.intents[t].state = "announcing" /\ p.intents[t].announced
          /\ p.intents[t].stage > 0
  ELSE p.intents[t].state = Reason(p, Granted(p), t) /\ p.intents[t].stage = 0

Settled(p) ==
  /\ \A t \in Task : ~ Overdue(p, t) /\ ~ Interrupts(p, t)
  /\ \A t \in Task : p.intents[t].state \in Waiting => PlacedIn(p, t)
  /\ Surplus(p) = {}

LEMMA SettledStays ==
  ASSUME NEW p \in PolicyState, Settled(p)
  PROVE  Ticked(p) = p
<1>1. ASSUME NEW f \in [Task -> Intent], NEW g \in [Task -> SUBSET Task],
             f = p.intents, g = p.front
      PROVE  [p EXCEPT !.intents = f] = p /\ [p EXCEPT !.intents = f, !.front = g] = p
  BY <1>1 DEF PolicyState
<1>2. p.intents \in [Task -> Intent] /\ p.front \in [Task -> SUBSET Task]
  BY FieldsTyped
<1>3. Swept(p) = p
  <2> DEFINE X == {t \in Task : Overdue(p, t)}
             Y == {t \in Task : Interrupts(p, t)}
             f == [t \in Task |-> IF t \in X THEN EndedIntent
                                  ELSE IF t \in Y THEN YieldedIntent(p, t)
                                  ELSE p.intents[t]]
  <2>1. X = {} /\ Y = {}
    BY DEF Settled
  <2>2. Swept(p) = [p EXCEPT !.intents = f, !.front = ToTail(p, Y)]
    BY DEF Swept, SweptOf
  <2> HIDE DEF X, Y
  <2>3. f = p.intents /\ ToTail(p, Y) = p.front
    BY <1>2, <2>1 DEF ToTail
  <2> HIDE DEF f
  <2>4. QED
    BY <1>1, <1>2, <2>2, <2>3
<1>4. Arbitrated(p) = p
  <2> DEFINE R == Granted(p)
             f == [t \in Task |->
                     IF p.intents[t].state \notin Waiting THEN p.intents[t]
                     ELSE IF t \in R THEN GrantedIntent(p, t)
                     ELSE [p.intents[t] EXCEPT !.state = Reason(p, R, t), !.stage = 0]]
  <2>1. Arbitrated(p) = [p EXCEPT !.intents = f]
    BY DEF Arbitrated, ArbitratedFor
  <2>2. ASSUME NEW t \in Task, p.intents[t].state \in Waiting, t \in R
        PROVE  GrantedIntent(p, t) = p.intents[t]
    <3>1. CASE p.intents[t].state = "offered"
      BY <3>1 DEF GrantedIntent
    <3>2. CASE p.intents[t].state # "offered"
      <4>1. p.intents[t].state = "announcing" /\ p.intents[t].announced /\ p.intents[t].stage > 0
        BY <2>2, <3>2 DEF Settled, PlacedIn
      <4>2. GrantedIntent(p, t) = Announced(p.intents[t], p.intents[t].stage)
        BY <4>1 DEF GrantedIntent
      <4>3. QED
        BY <1>2, <4>1, <4>2, AnnouncedAgain
    <3>3. QED
      BY <3>1, <3>2
  <2>3. ASSUME NEW t \in Task, p.intents[t].state \in Waiting, t \notin R
        PROVE  [p.intents[t] EXCEPT !.state = Reason(p, R, t), !.stage = 0] = p.intents[t]
    <3>1. ASSUME NEW i \in Intent, NEW x, NEW m, x = i.state, m = i.stage
          PROVE  [i EXCEPT !.state = x, !.stage = m] = i
      BY <3>1 DEF Intent
    <3>2. Reason(p, R, t) = p.intents[t].state /\ 0 = p.intents[t].stage
      BY <2>3 DEF Settled, PlacedIn
    <3>3. QED
      BY <1>2, <3>1, <3>2
  <2> HIDE DEF R
  <2>4. f = p.intents
    BY <1>2, <2>2, <2>3
  <2> HIDE DEF f
  <2>5. QED
    BY <1>1, <1>2, <2>1, <2>4
<1>5. Trimmed(p) = p
  <2> DEFINE S == Surplus(p)
             f == [t \in Task |-> IF t \in S THEN ForgottenIntent ELSE p.intents[t]]
             g == [t \in Task |-> IF t \in S THEN {} ELSE p.front[t] \ S]
  <2>1. Trimmed(p) = [p EXCEPT !.intents = f, !.front = g]
    BY DEF Trimmed
  <2>2. S = {}
    BY DEF Settled
  <2> HIDE DEF S
  <2>3. f = p.intents /\ g = p.front
    BY <1>2, <2>2
  <2> HIDE DEF f, g
  <2>4. QED
    BY <1>1, <1>2, <2>1, <2>3
<1>6. QED
  BY <1>3, <1>4, <1>5 DEF Ticked

-----------------------------------------------------------------------------
(* A tick settles the policy. *)

LEMMA SameReasons ==
  ASSUME NEW p \in PolicyState, NEW q \in PolicyState, NEW t \in Task,
         Settings(q) = Settings(p), SameClaim(p.intents[t], q.intents[t])
  PROVE  /\ Blocked(q, t) <=> Blocked(p, t)
         /\ NeedsApproval(q, t) <=> NeedsApproval(p, t)
         /\ Denied(q, t) <=> Denied(p, t)
<1>1. /\ Obstacles(q) = Obstacles(p)
      /\ q.config = p.config /\ q.profiles = p.profiles /\ q.approvalRequired = p.approvalRequired
      /\ q.approvalEpochs = p.approvalEpochs
  BY SettingsFields
<1>2. /\ q.intents[t].held = p.intents[t].held /\ q.intents[t].notBefore = p.intents[t].notBefore
      /\ q.intents[t].approvals = p.intents[t].approvals
      /\ q.intents[t].approvalEpochs = p.intents[t].approvalEpochs
  BY DEF SameClaim
<1>3. Blocked(q, t) <=> Blocked(p, t)
  BY <1>1, <1>2, SameObstacles
<1>4. NeedsApproval(q, t) <=> NeedsApproval(p, t)
  BY <1>1, <1>2 DEF NeedsApproval
<1>5. Denied(q, t) <=> Denied(p, t)
  BY <1>1 DEF Denied
<1>6. QED
  BY <1>3, <1>4, <1>5

LEMMA SweepLeavesNoneOverdue ==
  ASSUME NEW p \in PolicyState, NEW t \in Task
  PROVE  ~ Overdue(Swept(p), t)
<1> DEFINE q == Swept(p)
<1> SUFFICES ASSUME IsLive(q, t) PROVE ~ Denied(q, t) /\ 0 \notin Clocks(q.intents[t])
  BY DEF Overdue
<1>1. q \in PolicyState /\ Settings(q) = Settings(p)
  BY SweptTyped, SweptTask
<1>2. q.intents[t] = IF Overdue(p, t) THEN EndedIntent
                     ELSE IF Interrupts(p, t) THEN YieldedIntent(p, t)
                     ELSE p.intents[t]
  BY SweptTask
<1>3. Denied(q, t) <=> Denied(p, t)
  BY <1>1, SettingsFields DEF Denied
<1>4. ~ Overdue(p, t)
  BY <1>2, BlankStates DEF IsLive, Live, Waiting
<1> HIDE DEF q
<1>5. CASE Interrupts(p, t)
  <2> DEFINE i == p.intents[t]
             j == q.intents[t]
  <2>1. IsLive(p, t) /\ ~ Denied(p, t) /\ 0 \notin Clocks(i)
    BY <1>4, <1>5 DEF Overdue, Interrupts, IsActive, IsLive, Live
  <2>2. i.task \in Nat /\ i.task > 0
    <3>1. i \in Intent
      BY FieldsTyped
    <3>2. QED
      BY <2>1, <3>1 DEF Clocks, Intent
  <2>3. j.state = "paused" /\ j.lease = QueueLease /\ j.task = i.task /\ j.wait > 0
    BY <1>2, <1>4, <1>5, <2>2, YieldedTask
  <2>4. QueueLease > 0
    BY ConstantsAreNatural
  <2> HIDE DEF i, j
  <2>5. 0 \notin Clocks(j)
    BY <2>2, <2>3, <2>4 DEF Clocks
  <2>6. QED
    BY <1>3, <2>1, <2>5 DEF j
<1>6. CASE ~ Interrupts(p, t)
  BY <1>2, <1>3, <1>4, <1>6 DEF Overdue, IsLive
<1>7. QED
  BY <1>5, <1>6

LEMMA WalkLeavesNoneOverdue ==
  ASSUME NEW p \in PolicyState, NEW t \in Task, ~ Overdue(p, t)
  PROVE  ~ Overdue(Arbitrated(p), t)
<1> DEFINE q == Arbitrated(p)
           i == p.intents[t]
           j == q.intents[t]
<1> SUFFICES ASSUME IsLive(q, t) PROVE ~ Denied(q, t) /\ 0 \notin Clocks(j)
  BY DEF Overdue
<1>1. q \in PolicyState /\ Settings(q) = Settings(p) /\ SameClaim(i, j)
  BY ArbitratedTyped, ArbitratedTask
<1>2. Denied(q, t) <=> Denied(p, t)
  BY <1>1, SettingsFields DEF Denied
<1>3. i.state \notin Waiting => j = i
  BY ArbitratedTask
<1>4. CASE i.state \notin Waiting
  BY <1>2, <1>3, <1>4 DEF Overdue, IsLive
<1>5. CASE i.state \in Waiting
  <2>1. ~ Denied(p, t) /\ 0 \notin Clocks(i)
    BY <1>5 DEF Overdue, IsLive, Live
  <2>2. i.lease # 0 /\ i.task # 0 /\ i.wait # 0 /\ (i.state = "offered" => i.stage # 0)
    BY <1>5, <2>1 DEF Clocks, Waiting
  <2>3. i.stage \in Nat
    BY FieldsTyped DEF Intent
  <2>4. j.state \in {"active", "offered"} => j.stage # 0
    <3>1. CASE t \in Granted(p)
      <4>1. j = GrantedIntent(p, t)
        BY <1>5, <3>1, ArbitratedTask
      <4> HIDE DEF j
      <4>2. j.state \in {"announcing", "offered"} /\ (j.state = "offered" => j.stage > 0)
        BY <2>2, <2>3, <4>1, GrantedTask
      <4>3. QED
        BY <4>2
    <3>2. CASE t \notin Granted(p)
      <4>1. j.state = Reason(p, Granted(p), t)
        BY <1>5, <3>2, ArbitratedTask
      <4>2. QED
        BY <4>1 DEF Reason
    <3>3. QED
      BY <3>1, <3>2
  <2>5. j.lease # 0 /\ j.task # 0 /\ j.wait # 0
    BY <1>1, <2>2 DEF SameClaim
  <2> HIDE DEF j, i
  <2>6. 0 \notin Clocks(j)
    BY <2>4, <2>5 DEF Clocks
  <2>7. QED
    BY <1>2, <2>1, <2>6
<1>6. QED
  BY <1>4, <1>5

\* After the trim nobody is surplus any more.
LEMMA TrimmedOnce ==
  ASSUME NEW p \in PolicyState
  PROVE  Surplus(Trimmed(p)) = {}
<1> DEFINE q == Trimmed(p)
           S == Surplus(p)
           ended(x) == {u \in Task : x.intents[u].state = "ended"}
           behind(x, t) == {u \in ended(x) : t \in x.front[u]}
<1>1. ASSUME NEW t \in ended(q) PROVE t \in ended(p) /\ t \notin S
  BY <1>1, TrimmedTask, BlankStates
<1>2. ASSUME NEW t \in ended(q), Cardinality(behind(q, t)) >= Retained
      PROVE  FALSE
  <2>1. t \in ended(p) /\ t \notin S
    BY <1>1
  <2>2. ~ (Cardinality(behind(p, t)) >= Retained)
    BY <2>1 DEF Surplus
  <2>3. behind(q, t) \subseteq behind(p, t)
    <3>1. ASSUME NEW u \in behind(q, t) PROVE u \in behind(p, t)
      <4>1. u \in ended(p) /\ u \notin S /\ u \in Task /\ t \in q.front[u]
        BY <1>1
      <4>2. q.front[u] = IF u \in S THEN {} ELSE p.front[u] \ S
        BY <4>1, TrimmedTask
      <4>3. t \in p.front[u]
        BY <4>1, <4>2
      <4>4. QED
        BY <4>1, <4>3
    <3>2. QED
      BY <3>1
  <2>4. IsFiniteSet(behind(p, t))
    BY TasksAreFinite, FS_Subset
  <2> DEFINE A == behind(q, t)
             B == behind(p, t)
  <2> HIDE DEF A, B
  <2>5. Cardinality(A) <= Cardinality(B) /\ Cardinality(B) \in Nat /\ Cardinality(A) \in Nat
    BY <2>3, <2>4, FS_Subset, FS_CardinalityType DEF A, B
  <2>6. QED
    BY <1>2, <2>2, <2>5, ConstantsAreNatural DEF A, B
<1>3. QED
  BY <1>2 DEF Surplus

LEMMA TickSettles ==
  ASSUME NEW p \in PolicyState, OrderedIn(p)
  PROVE  Settled(Ticked(p))
<1> DEFINE a == Swept(p)
           b == Arbitrated(a)
           c == Trimmed(b)
<1>1. a \in PolicyState /\ OrderedIn(a)
  BY SweptTyped, SweptOrdered
<1>2. \A t \in Task : ~ Overdue(a, t) /\ (IsActive(a, t) => ~ Blocked(a, t))
  BY SweepLeavesNoneOverdue, SweptActive
<1> HIDE DEF a
<1>3. b \in PolicyState /\ OrderedIn(b) /\ \A t \in Task : ~ Overdue(b, t)
  BY <1>1, <1>2, ArbitratedTyped, ArbitratedOrdered, WalkLeavesNoneOverdue
<1>4. Settings(b) = Settings(a)
  <2>1. CASE Task = {}
    BY <1>1, <2>1 DEF Arbitrated, ArbitratedFor, PolicyState, Settings, Obstacles
  <2>2. CASE Task # {}
    BY <1>1, <2>2, ArbitratedTask
  <2>3. QED
    BY <2>1, <2>2
<1>5. \A t \in Task :
        /\ SameClaim(a.intents[t], b.intents[t])
        /\ a.intents[t].state \notin Waiting => b.intents[t] = a.intents[t]
        /\ a.intents[t].state \in Waiting /\ t \in Granted(a) => b.intents[t] = GrantedIntent(a, t)
        /\ a.intents[t].state \in Waiting /\ t \notin Granted(a) =>
             b.intents[t].state = Reason(a, Granted(a), t) /\ b.intents[t].stage = 0
        /\ b.front[t] = a.front[t]
  BY <1>1, ArbitratedTask
<1>6. \A t \in Task : a.intents[t].state \in Waiting <=> b.intents[t].state \in Waiting
  <2>1. ASSUME NEW t \in Task, a.intents[t].state \in Waiting
        PROVE  b.intents[t].state \in Waiting
    BY <1>1, <2>1, ArbitratedIntents DEF Waiting
  <2>2. QED
    BY <1>5, <2>1
<1> HIDE DEF b
<1>7. c \in PolicyState /\ OrderedIn(c) /\ Surplus(c) = {}
  BY <1>3, TrimmedTyped, TrimmedOrdered, TrimmedOnce
<1>8. Settings(c) = Settings(a)
  BY <1>3, <1>4 DEF Trimmed, PolicyState, Settings, Obstacles
<1>9. \A t \in Task :
        /\ c.intents[t] = IF t \in Surplus(b) THEN ForgottenIntent ELSE b.intents[t]
        /\ c.front[t] = IF t \in Surplus(b) THEN {} ELSE b.front[t] \ Surplus(b)
        /\ t \in Surplus(b) => b.intents[t].state = "ended"
  BY <1>3, TrimmedTask
<1> HIDE DEF c
<1>10. \A t \in Task : b.intents[t].state # "ended" => c.intents[t] = b.intents[t]
  BY <1>9
<1>11. \A t \in Task : b.intents[t].state = "ended" => c.intents[t].state \in {"ended", "forgotten"}
  BY <1>9, BlankStates
<1>12. Alike(a, c)
  <2>1. ASSUME NEW t \in Task PROVE a.intents[t].state \in Waiting <=> c.intents[t].state \in Waiting
    BY <1>6, <1>10, <1>11 DEF Waiting
  <2>2. ASSUME NEW t \in Task PROVE IsActive(a, t) <=> IsActive(c, t)
    <3>1. IsActive(a, t) <=> IsActive(b, t)
      BY <1>5, <1>6 DEF IsActive, Waiting
    <3>2. QED
      BY <3>1, <1>10, <1>11 DEF IsActive
  <2>3. ASSUME NEW t \in Task, a.intents[t].state \in Waiting
        PROVE  /\ Blocked(a, t) <=> Blocked(c, t)
               /\ NeedsApproval(a, t) <=> NeedsApproval(c, t)
               /\ \A u \in Task : c.intents[u].state \in Waiting =>
                    (u \in a.front[t] <=> u \in c.front[t])
    <3>1. b.intents[t].state \in Waiting /\ b.intents[t].state # "ended"
      BY <1>6, <2>3 DEF Waiting
    <3>2. c.intents[t] = b.intents[t] /\ t \notin Surplus(b)
      BY <1>9, <3>1
    <3>3. SameClaim(a.intents[t], c.intents[t])
      BY <1>5, <3>2
    <3>4. \A u \in Task : c.intents[u].state \in Waiting => u \notin Surplus(b)
      BY <1>9, BlankStates DEF Waiting
    <3>5. QED
      BY <1>1, <1>5, <1>7, <1>8, <1>9, <3>2, <3>3, <3>4, SameReasons
  <2>4. QED
    BY <2>1, <2>2, <2>3 DEF Alike
<1>13. /\ Granted(c) = Granted(a)
       /\ \A t \in Granted(a) : t \in Task /\ a.intents[t].state \in Waiting
       /\ \A t \in Task : a.intents[t].state \in Waiting =>
            Reason(c, Granted(c), t) = Reason(a, Granted(a), t)
  BY <1>1, <1>7, <1>12, SameWalk
<1>14. ASSUME NEW t \in Task PROVE ~ Overdue(c, t) /\ ~ Interrupts(c, t)
  <2>1. Denied(c, t) <=> Denied(b, t)
    BY <1>4, <1>8, SettingsFields DEF Denied
  <2>2. ~ Overdue(c, t)
    BY <1>3, <1>10, <1>11, <2>1 DEF Overdue, IsLive, Live, Waiting
  <2>3. ASSUME IsActive(c, t) PROVE ~ Blocked(c, t)
    <3>1. IsActive(a, t) /\ a.intents[t].state \notin Waiting
      BY <1>12, <2>3 DEF Alike, IsActive, Waiting
    <3>2. b.intents[t] = a.intents[t] /\ c.intents[t] = b.intents[t]
      BY <1>5, <1>10, <3>1 DEF IsActive
    <3>3. SameClaim(a.intents[t], c.intents[t])
      BY <3>2 DEF SameClaim
    <3>4. QED
      BY <1>1, <1>2, <1>7, <1>8, <3>1, <3>3, SameReasons
  <2>4. QED
    BY <2>2, <2>3 DEF Interrupts
<1>15. ASSUME NEW t \in Task, c.intents[t].state \in Waiting PROVE PlacedIn(c, t)
  <2>1. a.intents[t].state \in Waiting /\ c.intents[t] = b.intents[t]
    BY <1>10, <1>11, <1>12, <1>15 DEF Alike, Waiting
  <2>2. CASE t \in Granted(a)
    <3>1. c.intents[t] = GrantedIntent(a, t)
      BY <1>5, <2>1, <2>2
    <3>2. \/ c.intents[t].state = "offered"
          \/ /\ c.intents[t].state = "announcing" /\ c.intents[t].announced
             /\ c.intents[t].stage > 0
      BY <1>1, <3>1, GrantedTask
    <3>3. QED
      BY <1>13, <2>2, <3>2 DEF PlacedIn
  <2>3. CASE t \notin Granted(a)
    BY <1>5, <1>13, <2>1, <2>3 DEF PlacedIn
  <2>4. QED
    BY <2>2, <2>3
<1>16. Settled(c)
  BY <1>7, <1>14, <1>15 DEF Settled
<1>17. QED
  BY <1>16 DEF Ticked, a, b, c

\* Polling decides nothing: status(), query() and every refused call tick as
\* often as a client likes, and the second of two ticks changes nothing.
THEOREM TicksAreIdempotent == Spec => []TickIdempotent
<1>1. ASSUME Safe PROVE TickIdempotent
  <2>1. policy \in PolicyState /\ OrderedIn(policy)
    BY <1>1 DEF Safe, SafeIn
  <2>2. Ticked(policy) \in PolicyState /\ Settled(Ticked(policy))
    BY <2>1, TickedTyped, TickSettles
  <2>3. Ticked(Ticked(policy)) = Ticked(policy)
    BY <2>2, SettledStays
  <2>4. QED
    BY <2>3 DEF TickIdempotent
<1>2. QED
  BY <1>1, AlwaysSafe, PTL

-----------------------------------------------------------------------------
(* The order of the list. *)

LEMMA NobodyIsOvertaken ==
  ASSUME NEW p \in PolicyState, OrderedIn(p), Settled(p),
         NEW u \in Task, p.intents[u].state \in {"announcing", "offered"},
         NEW t \in p.front[u], IsLive(p, t), Conflict(t, u),
         ~ Blocked(p, t), ~ NeedsApproval(p, t)
  PROVE  \E v \in Task \ {t, u} : p.intents[v].state \in Reserving /\ Conflict(t, v)
<1> DEFINE R == Granted(p)
           E == {v \in Task : Eligible(p, v)}
<1>0. /\ t \in Task /\ t # u /\ u \notin p.front[u]
      /\ \A v \in p.front[t] : v \in p.front[u] /\ v # t
  BY DEF OrderedIn, Listed
<1>1. R \subseteq E /\ GrantedBy(p, E, R)
  BY GrantedIsDefined
<1>2. \A v \in R : v \in Task /\ p.intents[v].state \in {"announcing", "offered"}
  <2>1. \A v \in R : v \in Task /\ p.intents[v].state \in Waiting
    BY <1>1 DEF Eligible
  <2>2. QED
    BY <2>1 DEF Settled, PlacedIn
<1>3. u \in R
  <2>1. PlacedIn(p, u)
    BY DEF Settled, Waiting
  <2>2. QED
    BY <2>1 DEF PlacedIn, Reason
<1> HIDE DEF R
<1>4. Eligible(p, u)
  BY <1>1, <1>3
<1>5. ~ IsActive(p, t)
  BY <1>0, <1>4, ConflictIsSymmetric DEF Eligible
<1>6. p.intents[t].state \in Waiting
  BY <1>5 DEF IsLive, IsActive, Live
<1>7. CASE Eligible(p, t)
  <2>1. t \notin R
    BY <1>0, <1>1, <1>3, <1>4, ConflictIsSymmetric DEF GrantedBy
  <2>2. PICK v \in R \intersect p.front[t] : Conflict(t, v)
    BY <1>0, <1>1, <1>7, <2>1 DEF GrantedBy
  <2>3. v \in Task \ {t, u}
    BY <1>0, <1>2, <2>2
  <2>4. QED
    BY <1>2, <2>2, <2>3 DEF Reserving
<1>8. CASE ~ Eligible(p, t)
  <2>1. PICK v \in Task : IsActive(p, v) /\ Conflict(t, v)
    BY <1>0, <1>6, <1>8 DEF Eligible
  <2>2. v # t /\ v # u
    BY <1>5, <2>1 DEF IsActive
  <2>3. QED
    BY <2>1, <2>2 DEF IsActive, Reserving
<1>9. QED
  BY <1>7, <1>8

\* Nobody is passed by a task behind it that needs the same resource, unless it
\* could not have run anyway.
THEOREM NobodyOvertakes == Spec => []NoOvertaking
<1>1. ASSUME Safe PROVE NoOvertaking
  <2> DEFINE p == Ticked(policy)
  <2>1. policy \in PolicyState /\ OrderedIn(policy)
    BY <1>1 DEF Safe, SafeIn
  <2>2. p \in PolicyState /\ OrderedIn(p) /\ Settled(p)
    BY <1>1, <2>1, TickedTyped, TickSettles, TickIsSafe DEF Safe, SafeIn
  <2> HIDE DEF p
  <2>3. ASSUME NEW u \in Task, p.intents[u].state \in {"announcing", "offered"},
               NEW t \in p.front[u], IsLive(p, t), Conflict(t, u)
        PROVE  \/ Blocked(p, t)
               \/ NeedsApproval(p, t)
               \/ \E v \in Task \ {t, u} : p.intents[v].state \in Reserving /\ Conflict(t, v)
    BY <2>2, <2>3, NobodyIsOvertaken
  <2>4. QED
    BY <2>3 DEF NoOvertaking, p
<1>2. QED
  BY <1>1, AlwaysSafe, PTL

-----------------------------------------------------------------------------
(* What authorize() lets through. *)

LEMMA SessionStays ==
  ASSUME NEW p \in PolicyState, OrderedIn(p), NEW t \in Task, IsActive(Ticked(p), t)
  PROVE  /\ IsActive(p, t) /\ ~ Overdue(p, t) /\ ~ Blocked(p, t)
         /\ Ticked(p).intents[t] = p.intents[t]
<1> DEFINE a == Swept(p)
           b == Arbitrated(a)
<1>1. a \in PolicyState /\ b \in PolicyState
  BY SweptTyped, ArbitratedTyped
<1> HIDE DEF a, b
<1>2. Ticked(p).intents[t] = b.intents[t] /\ IsActive(b, t)
  BY <1>1, TrimmedTask, BlankStates DEF Ticked, IsActive, a, b
<1>3. b.intents[t] = a.intents[t] /\ IsActive(a, t)
  <2>1. a.intents[t].state \in Waiting => b.intents[t].state # "active"
    BY <1>1, ArbitratedIntents DEF b
  <2>2. QED
    BY <1>1, <1>2, <2>1, ArbitratedTask DEF IsActive, b
<1>4. ~ Overdue(p, t) /\ ~ Interrupts(p, t) /\ a.intents[t] = p.intents[t]
  <2>1. YieldedIntent(p, t).state = "paused"
    BY YieldedTask
  <2>2. QED
    BY <1>3, <2>1, SweptTask, BlankStates DEF IsActive, a
<1>5. QED
  BY <1>2, <1>3, <1>4 DEF IsActive, Interrupts

LEMMA TickKeepsSettings ==
  ASSUME NEW p \in PolicyState
  PROVE  Settings(Ticked(p)) = Settings(p)
<1> DEFINE a == Swept(p)
           b == Arbitrated(a)
<1>1. a \in PolicyState /\ Settings(a) = Settings(p)
  BY SweptTyped DEF Swept, SweptOf, PolicyState, Settings, Obstacles
<1> HIDE DEF a
<1>2. b \in PolicyState /\ Settings(b) = Settings(a)
  BY <1>1, ArbitratedTyped DEF Arbitrated, ArbitratedFor, PolicyState, Settings, Obstacles
<1> HIDE DEF b
<1>3. Settings(Trimmed(b)) = Settings(b)
  BY <1>2 DEF Trimmed, PolicyState, Settings, Obstacles
<1>4. QED
  BY <1>1, <1>2, <1>3 DEF Ticked, a, b

LEMMA PermittedIn ==
  ASSUME NEW p \in PolicyState, NEW t \in Task,
         IsActive(p, t), ~ Overdue(p, t), ~ Blocked(p, t)
  PROVE  LET i == p.intents[t]
         IN  /\ i.state = "active" /\ i.lease > 0 /\ i.stage > 0 /\ i.task > 0
             /\ \A s \in Request[t].surfaces :
                  /\ p.config[s].mode # "off" /\ p.config[s].left > 0
                  /\ p.available[s].ready
                  /\ \A r \in PauseReason : p.pauses[s][r] = 0
             /\ "browser" \in Request[t].surfaces => Request[t].profiles \subseteq p.profiles
             /\ \A r \in PauseReason : p.pauses["all"][r] = 0
             /\ \A r \in Resources[t], s \in Surface : p.deferrals[r][s] = 0
             /\ YieldsToHuman(t) => p.inputReady /\ p.humanCooldown = 0
<1> DEFINE i == p.intents[t]
<1>1. i.state = "active" /\ ~ Denied(p, t) /\ 0 \notin Clocks(i)
  BY DEF Overdue, IsLive, IsActive, Live
<1>2. i.lease # 0 /\ i.stage # 0 /\ i.task # 0
  BY <1>1 DEF Clocks
<1>3. i.lease > 0 /\ i.stage > 0 /\ i.task > 0
  <2>1. i \in Intent
    BY FieldsTyped
  <2>2. i.lease \in Nat /\ i.stage \in Nat /\ i.task \in Nat
    BY <2>1 DEF Intent
  <2> HIDE DEF i
  <2>3. QED
    BY <1>2, <2>2
<1>4. Request[t].surfaces \subseteq Surface /\ Resources[t] \subseteq Resource
  BY RequestTyped
<1>5. ASSUME NEW s \in Request[t].surfaces
      PROVE  /\ p.config[s].mode # "off" /\ p.config[s].left > 0
             /\ p.available[s].ready
             /\ \A r \in PauseReason : p.pauses[s][r] = 0
  <2>1. p.config[s].left \in Nat /\ \A r \in PauseReason : p.pauses[s][r] \in Nat
    BY <1>4 DEF PolicyState, Scope
  <2>2. QED
    BY <1>1, <2>1 DEF Denied, Blocked, Obstructed
<1>6. "browser" \in Request[t].surfaces => Request[t].profiles \subseteq p.profiles
  BY <1>1 DEF Denied
<1>7. \A r \in PauseReason : p.pauses["all"][r] = 0
  <2>1. \A r \in PauseReason : p.pauses["all"][r] \in Nat
    BY DEF PolicyState, Scope
  <2>2. QED
    BY <2>1 DEF Blocked, Obstructed
<1>8. \A r \in Resources[t], s \in Surface : p.deferrals[r][s] = 0
  <2>1. \A r \in Resources[t], s \in Surface : p.deferrals[r][s] \in Nat
    BY <1>4 DEF PolicyState
  <2>2. QED
    BY <2>1 DEF Blocked, Obstructed
<1>9. YieldsToHuman(t) => p.inputReady /\ p.humanCooldown = 0
  <2>1. p.humanCooldown \in Nat
    BY DEF PolicyState
  <2>2. QED
    BY <2>1 DEF Blocked, Obstructed
<1>10. QED
  BY <1>1, <1>3, <1>5, <1>6, <1>7, <1>8, <1>9

\* However late the last tick was, authorize() answers yes only to a session of
\* an open channel that was heard from in time, under a running consent, with
\* nothing paused, deferred or taken over, and alone on its resources.
THEOREM AuthorizedArePermitted == Spec => []AuthorizedIsPermitted
<1>1. ASSUME Safe PROVE AuthorizedIsPermitted
  <2> DEFINE p == Ticked(policy)
  <2>1. policy \in PolicyState /\ OrderedIn(policy)
    BY <1>1 DEF Safe, SafeIn
  <2>2. p \in PolicyState /\ DisjointIn(p) /\ p.owners = policy.owners
    <3>1. SafeIn(p)
      BY <1>1, TickIsSafe DEF Safe
    <3>2. Settings(p) = Settings(policy)
      BY <2>1, TickKeepsSettings
    <3>3. QED
      BY <3>1, <3>2, SettingsFields DEF SafeIn
  <2>3. \A t \in Task : IsActive(p, t) => IsActive(policy, t) /\ ~ Overdue(policy, t) /\ ~ Blocked(policy, t)
    BY <2>1, SessionStays
  <2> HIDE DEF p
  <2>4. ASSUME NEW t \in Task, Authorized(p, t)
        PROVE  LET i == policy.intents[t]
               IN  /\ i.state = "active" /\ i.lease > 0 /\ i.stage > 0 /\ i.task > 0
                   /\ policy.owners[Request[t].owner] = "open"
                   /\ \A s \in Request[t].surfaces :
                        /\ policy.config[s].mode # "off" /\ policy.config[s].left > 0
                        /\ policy.available[s].ready
                        /\ \A r \in PauseReason : policy.pauses[s][r] = 0
                   /\ "browser" \in Request[t].surfaces => Request[t].profiles \subseteq policy.profiles
                   /\ \A r \in PauseReason : policy.pauses["all"][r] = 0
                   /\ \A r \in Resources[t], s \in Surface : policy.deferrals[r][s] = 0
                   /\ YieldsToHuman(t) => policy.inputReady /\ policy.humanCooldown = 0
                   /\ \A u \in Task \ {t} : Authorized(p, u) => ~ Conflict(t, u)
    <3>1. IsActive(p, t) /\ policy.owners[Request[t].owner] = "open"
      BY <2>2, <2>4 DEF Authorized, Owned
    <3>2. \A u \in Task \ {t} : Authorized(p, u) => ~ Conflict(t, u)
      BY <2>2, <3>1 DEF Authorized, DisjointIn, ReservesIn, Reserving, IsActive
    <3>3. QED
      BY <2>1, <2>3, <3>1, <3>2, PermittedIn
  <2>5. QED
    BY <2>4 DEF AuthorizedIsPermitted, p
<1>2. QED
  BY <1>1, AlwaysSafe, PTL

-----------------------------------------------------------------------------
(* The host's timer. *)

\* What passing time leaves alone in a task, and what it does to the rest.
LEMMA AgedTask ==
  ASSUME NEW i \in Intent, NEW d \in Nat, NEW j, j = AgedIntent(i, d)
  PROVE  /\ j.state = i.state /\ j.held = i.held /\ j.announced = i.announced
         /\ j.skipNotice = i.skipNotice /\ j.yielded = i.yielded
         /\ j.approvals = i.approvals /\ j.approvalEpochs = i.approvalEpochs
         /\ j.wait = Aged(i.wait, d) /\ j.task = Aged(i.task, d) /\ j.lease = Aged(i.lease, d)
         /\ j.stage = Aged(i.stage, d) /\ j.notBefore = Aged(i.notBefore, d)
BY DEF Intent, AgedIntent

LEMMA AgedFields ==
  ASSUME NEW p \in PolicyState, NEW d \in Nat, NEW q, q = AgedPolicy(p, d)
  PROVE  /\ q \in PolicyState
         /\ q.owners = p.owners /\ q.front = p.front /\ q.profiles = p.profiles
         /\ q.available = p.available /\ q.inputReady = p.inputReady
         /\ q.approvalRequired = p.approvalRequired /\ q.approvalEpochs = p.approvalEpochs
         /\ \A t \in Task : q.intents[t] = AgedIntent(p.intents[t], d)
         /\ \A s \in Surface : /\ q.config[s].mode = p.config[s].mode
                               /\ q.config[s].generation = p.config[s].generation
                               /\ q.config[s].left = Aged(p.config[s].left, d)
         /\ \A c \in Scope, r \in PauseReason : q.pauses[c][r] = Aged(p.pauses[c][r], d)
         /\ \A r \in Resource, s \in Surface : q.deferrals[r][s] = Aged(p.deferrals[r][s], d)
         /\ q.humanCooldown = Aged(p.humanCooldown, d)
<1> DEFINE f == [t \in Task |-> AgedIntent(p.intents[t], d)]
           c == [s \in Surface |-> [p.config[s] EXCEPT !.left = Aged(@, d)]]
           u == [x \in Scope |-> [r \in PauseReason |-> Aged(p.pauses[x][r], d)]]
           e == [r \in Resource |-> [s \in Surface |-> Aged(p.deferrals[r][s], d)]]
           h == Aged(p.humanCooldown, d)
<1>1. q = [p EXCEPT !.intents = f, !.config = c, !.pauses = u, !.deferrals = e, !.humanCooldown = h]
  BY DEF AgedPolicy
<1>2. /\ \A t \in Task : f[t] = AgedIntent(p.intents[t], d)
      /\ \A x \in Scope, r \in PauseReason : u[x][r] = Aged(p.pauses[x][r], d)
      /\ \A r \in Resource, s \in Surface : e[r][s] = Aged(p.deferrals[r][s], d)
  OBVIOUS
<1>3. \A s \in Surface : /\ c[s].mode = p.config[s].mode
                         /\ c[s].generation = p.config[s].generation
                         /\ c[s].left = Aged(p.config[s].left, d)
  BY DEF PolicyState
<1>4. q \in PolicyState
  BY AgedPolicyTyped
<1> HIDE DEF f, c, u, e, h
<1>5. /\ q.owners = p.owners /\ q.front = p.front /\ q.profiles = p.profiles
      /\ q.available = p.available /\ q.inputReady = p.inputReady
      /\ q.approvalRequired = p.approvalRequired /\ q.approvalEpochs = p.approvalEpochs
      /\ q.intents = f /\ q.config = c /\ q.pauses = u /\ q.deferrals = e /\ q.humanCooldown = h
  BY <1>1 DEF PolicyState
<1>6. QED
  BY <1>2, <1>3, <1>4, <1>5 DEF h

\* Before the first deadline nothing runs out.
LEMMA NothingRunsOut ==
  ASSUME NEW x \in Nat, NEW e \in Nat, x \in 1..Forever - 1 => x > e
  PROVE  /\ Aged(x, e) = 0 <=> x = 0
         /\ Aged(x, e) > 0 <=> x > 0
BY ConstantsAreNatural DEF Aged

LEMMA SleepSettles ==
  ASSUME NEW p \in PolicyState, OrderedIn(p), Settled(p),
         NEW e \in Nat, \A x \in Deadlines(p) : x > e
  PROVE  AgedPolicy(p, e) \in PolicyState /\ Settled(AgedPolicy(p, e))
<1> DEFINE q == AgedPolicy(p, e)
           S(x) == x \in Nat /\ (x \in 1..Forever - 1 => x > e)
<1>1. /\ q \in PolicyState
      /\ q.front = p.front /\ q.profiles = p.profiles
      /\ q.available = p.available /\ q.inputReady = p.inputReady
      /\ q.approvalRequired = p.approvalRequired /\ q.approvalEpochs = p.approvalEpochs
      /\ \A t \in Task : q.intents[t] = AgedIntent(p.intents[t], e)
      /\ \A s \in Surface : /\ q.config[s].mode = p.config[s].mode
                            /\ q.config[s].generation = p.config[s].generation
                            /\ q.config[s].left = Aged(p.config[s].left, e)
      /\ \A c \in Scope, r \in PauseReason : q.pauses[c][r] = Aged(p.pauses[c][r], e)
      /\ \A r \in Resource, s \in Surface : q.deferrals[r][s] = Aged(p.deferrals[r][s], e)
      /\ q.humanCooldown = Aged(p.humanCooldown, e)
  BY AgedFields
<1> HIDE DEF q
<1>2. \A t \in Task : p.intents[t] \in Intent
  BY FieldsTyped
<1>3. \A t \in Task : /\ q.intents[t].state = p.intents[t].state
                      /\ q.intents[t].held = p.intents[t].held
                      /\ q.intents[t].announced = p.intents[t].announced
                      /\ q.intents[t].approvals = p.intents[t].approvals
                      /\ q.intents[t].approvalEpochs = p.intents[t].approvalEpochs
                      /\ q.intents[t].wait = Aged(p.intents[t].wait, e)
                      /\ q.intents[t].task = Aged(p.intents[t].task, e)
                      /\ q.intents[t].lease = Aged(p.intents[t].lease, e)
                      /\ q.intents[t].stage = Aged(p.intents[t].stage, e)
                      /\ q.intents[t].notBefore = Aged(p.intents[t].notBefore, e)
  BY <1>1, <1>2, AgedTask
\* Every deadline the policy reads is one the timer is set for.
<1>4. /\ \A s \in Surface : S(p.config[s].left)
      /\ \A c \in Scope, r \in PauseReason : S(p.pauses[c][r])
      /\ \A r \in Resource, s \in Surface : S(p.deferrals[r][s])
      /\ S(p.humanCooldown)
  <2>1. ASSUME NEW x \in Nat,
               \/ \E s \in Surface : x = p.config[s].left
               \/ \E c \in Scope, r \in PauseReason : x = p.pauses[c][r]
               \/ \E r \in Resource, s \in Surface : x = p.deferrals[r][s]
               \/ x = p.humanCooldown
        PROVE  x \in 1..Forever - 1 => x > e
    BY <2>1 DEF Deadlines
  <2>2. QED
    BY <2>1 DEF PolicyState
<1>5. ASSUME NEW t \in Task, IsLive(p, t)
      PROVE  LET i == p.intents[t]
             IN  /\ S(i.lease) /\ S(i.task) /\ S(i.notBefore)
                 /\ i.state # "active" => S(i.wait)
                 /\ i.state \in {"active", "offered", "announcing"} => S(i.stage)
  <2> DEFINE i == p.intents[t]
  <2>1. /\ i.lease \in Nat /\ i.task \in Nat /\ i.notBefore \in Nat
        /\ i.wait \in Nat /\ i.stage \in Nat
    BY <1>2 DEF Intent
  <2>2. \A x \in IntentDeadlines(p, t) : x \in 1..Forever - 1 => x > e
    BY <1>5 DEF Deadlines, LiveTasks
  <2>3. /\ i.lease \in IntentDeadlines(p, t) /\ i.task \in IntentDeadlines(p, t)
        /\ i.notBefore \in IntentDeadlines(p, t)
        /\ i.state # "active" => i.wait \in IntentDeadlines(p, t)
        /\ i.state \in {"active", "offered", "announcing"} => i.stage \in IntentDeadlines(p, t)
    BY DEF IntentDeadlines, Clocks
  <2> HIDE DEF i
  <2>4. QED
    BY <2>1, <2>2, <2>3 DEF i
<1>6. \A x : S(x) => (Aged(x, e) = 0 <=> x = 0) /\ (Aged(x, e) > 0 <=> x > 0)
  BY NothingRunsOut
<1> HIDE DEF S
<1>7. ASSUME NEW t \in Task PROVE Denied(q, t) <=> Denied(p, t)
  <2>1. \A s \in Surface : q.config[s].left = 0 <=> p.config[s].left = 0
    BY <1>1, <1>4, <1>6
  <2>2. QED
    BY <1>1, <2>1, RequestTyped DEF Denied
<1>8. ASSUME NEW t \in Task, IsLive(p, t) PROVE Blocked(q, t) <=> Blocked(p, t)
  <2>1. \A c \in Scope, r \in PauseReason : q.pauses[c][r] > 0 <=> p.pauses[c][r] > 0
    BY <1>1, <1>4, <1>6
  <2>2. \A r \in Resource, s \in Surface : q.deferrals[r][s] > 0 <=> p.deferrals[r][s] > 0
    BY <1>1, <1>4, <1>6
  <2>3. q.humanCooldown > 0 <=> p.humanCooldown > 0
    BY <1>1, <1>4, <1>6
  <2>4. q.intents[t].notBefore > 0 <=> p.intents[t].notBefore > 0
    BY <1>3, <1>5, <1>6, <1>8
  <2>5. Blocked(q, t) => Blocked(p, t)
    BY <1>1, <1>3, <2>1, <2>2, <2>3, <2>4, BlocksVanish
  <2>6. Blocked(p, t) => Blocked(q, t)
    BY <1>1, <1>3, <2>1, <2>2, <2>3, <2>4, BlocksVanish
  <2>7. QED
    BY <2>5, <2>6
<1>9. ASSUME NEW t \in Task PROVE NeedsApproval(q, t) <=> NeedsApproval(p, t)
  BY <1>1, <1>3, RequestTyped DEF NeedsApproval
<1>10. ASSUME NEW t \in Task PROVE ~ Overdue(q, t) /\ ~ Interrupts(q, t)
  <2>1. ~ Overdue(p, t) /\ ~ Interrupts(p, t)
    BY DEF Settled
  <2>2. CASE ~ IsLive(p, t)
    BY <1>3, <2>2 DEF Overdue, Interrupts, IsActive, IsLive, Live
  <2>3. CASE IsLive(p, t)
    <3> DEFINE i == p.intents[t]
               j == q.intents[t]
    <3>1. ~ Denied(q, t) /\ 0 \notin Clocks(i)
      BY <1>7, <2>1, <2>3 DEF Overdue
    <3>2. /\ j.lease = 0 <=> i.lease = 0
          /\ j.task = 0 <=> i.task = 0
          /\ i.state # "active" => (j.wait = 0 <=> i.wait = 0)
          /\ i.state \in {"active", "offered"} => (j.stage = 0 <=> i.stage = 0)
          /\ j.state = i.state
      BY <1>3, <1>5, <1>6, <2>3
    <3> HIDE DEF i, j
    <3>3. 0 \notin Clocks(j)
      BY <3>1, <3>2 DEF Clocks
    <3>4. Interrupts(q, t) => Interrupts(p, t)
      BY <1>3, <1>8, <2>1, <2>3 DEF Interrupts, IsActive
    <3>5. QED
      BY <2>1, <3>1, <3>3, <3>4 DEF Overdue, j
  <2>4. QED
    BY <2>2, <2>3
<1>11. OrderedIn(q)
  <2>1. Listed(q) = Listed(p)
    BY <1>3 DEF Listed
  <2>2. QED
    BY <1>1, <2>1, OrderFollows
<1>12. Alike(p, q)
  <2>1. \A t \in Task : p.intents[t].state \in Waiting => IsLive(p, t)
    BY DEF IsLive, Live
  <2>2. QED
    BY <1>1, <1>3, <1>8, <1>9, <2>1 DEF Alike, IsActive
<1>13. /\ Granted(q) = Granted(p)
       /\ \A t \in Task : p.intents[t].state \in Waiting =>
            Reason(q, Granted(q), t) = Reason(p, Granted(p), t)
  BY <1>1, <1>11, <1>12, SameWalk
<1>14. ASSUME NEW t \in Task, q.intents[t].state \in Waiting PROVE PlacedIn(q, t)
  <2>1. p.intents[t].state \in Waiting /\ IsLive(p, t) /\ PlacedIn(p, t)
    BY <1>3, <1>14 DEF Settled, IsLive, Live
  <2>2. p.intents[t].state = "announcing" /\ p.intents[t].stage > 0 => q.intents[t].stage > 0
    BY <1>3, <1>5, <1>6, <2>1
  <2>3. p.intents[t].stage = 0 => q.intents[t].stage = 0
    BY <1>3, ConstantsAreNatural DEF Aged
  <2>4. QED
    BY <1>3, <1>13, <2>1, <2>2, <2>3 DEF PlacedIn
<1>15. Surplus(q) = {}
  <2>1. Surplus(q) = Surplus(p)
    BY <1>1, <1>3 DEF Surplus
  <2>2. QED
    BY <2>1 DEF Settled
<1>16. Settled(q)
  BY <1>10, <1>14, <1>15 DEF Settled
<1>17. QED
  BY <1>1, <1>16 DEF q

LEMMA EarliestDeadline ==
  ASSUME NEW D \in SUBSET (1..Forever - 1), D # {}
  PROVE  LET m == CHOOSE x \in D : \A y \in D : x <= y
         IN  m \in D /\ \A y \in D : m <= y
<1> DEFINE C == {0..x : x \in D}
<1>1. IsFiniteSet(0..Forever - 1)
  BY FS_Interval, ConstantsAreNatural
<1>2. C \in SUBSET (SUBSET (0..Forever - 1)) /\ C # {}
  <2>1. ASSUME NEW x \in D PROVE 0..x \subseteq 0..Forever - 1
    <3>1. x \in 1..Forever - 1 /\ Forever \in Nat
      BY ConstantsAreNatural
    <3>2. QED
      BY <3>1
  <2>2. QED
    BY <2>1
<1>3. PICK c \in C : \A y \in C : y \subseteq c => y = c
  <2> DEFINE S == 0..Forever - 1
  <2>1. IsFiniteSet(S) /\ C \in SUBSET (SUBSET S) /\ C # {}
    BY <1>1, <1>2
  <2> HIDE DEF C, S
  <2>2. QED
    BY <2>1, SmallestSubset
<1>4. PICK x \in D : c = 0..x
  BY <1>3
<1>5. ASSUME NEW y \in D PROVE x <= y
  <2> SUFFICES ASSUME y < x PROVE FALSE
    BY ConstantsAreNatural
  <2>1. 0..y \in C
    OBVIOUS
  <2>2. x \in Nat /\ y \in Nat
    BY ConstantsAreNatural
  <2>3. 0..y \subseteq 0..x /\ x \in 0..x /\ x \notin 0..y
    BY <2>2
  <2>4. QED
    BY <1>3, <1>4, <2>1, <2>3
<1>6. QED
  BY <1>4, <1>5

\* The host's timer is never late: a tick before the time nextDeadline() gives
\* finds nothing to do, whatever the policy is waiting for.
THEOREM TimersCover == Spec => []TimerCovers
<1>1. ASSUME Safe PROVE TimerCovers
  <2> DEFINE p == Ticked(policy)
             due == Deadlines(p)
             m == CHOOSE x \in due : \A y \in due : x <= y
             early == IF due = {} THEN 1 ELSE m - 1
             q == AgedPolicy(p, early)
  <2>1. p \in PolicyState /\ OrderedIn(p) /\ Settled(p)
    BY <1>1, TickIsSafe, TickSettles DEF Safe, SafeIn
  <2> HIDE DEF p
  <2>2. due \in SUBSET (1..Forever - 1)
    BY DEF Deadlines
  <2> HIDE DEF due
  <2>3. due # {} => m \in due /\ \A y \in due : m <= y
    BY <2>2, EarliestDeadline
  <2> HIDE DEF m
  <2>4. early \in Nat /\ \A x \in due : x > early
    <3>1. \A x \in due : x \in Nat /\ x >= 1
      BY <2>2, ConstantsAreNatural
    <3>2. QED
      BY <2>3, <3>1
  <2> HIDE DEF early
  <2>5. q \in PolicyState /\ Settled(q)
    BY <2>1, <2>4, SleepSettles DEF due
  <2>6. Ticked(q) = q
    <3> HIDE DEF q
    <3>1. QED
      BY <2>5, SettledStays
  <2>7. QED
    BY <2>6 DEF TimerCovers, p, due, m, early, q
<1>2. QED
  BY <1>1, AlwaysSafe, PTL
=============================================================================
