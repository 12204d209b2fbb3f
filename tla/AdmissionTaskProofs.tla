------------------------ MODULE AdmissionTaskProofs ------------------------
(***************************************************************************)
(* What a task of the admission policy may rely on and what it may cost:   *)
(* the channel and the consent behind it, its place in the budgets, its    *)
(* schedule, its deadline and its turn in the list.  The invariant is      *)
(* TaskIn; the relation Line says what every step but two leaves of the    *)
(* order and of the deadlines, and composes, so that a method with a tick  *)
(* before it and one after it needs no argument of its own.                *)
(* The last part is about what AdmissionHistory records: an approval opens *)
(* the gate for its own task and situation only, and a task that comes     *)
(* back after a takeover is announced first.                               *)
(***************************************************************************)
EXTENDS AdmissionHistory, AdmissionSafetyProofs

-----------------------------------------------------------------------------
(* What one tick does to one task, and to two. *)

LEMMA TickedTask ==
  ASSUME NEW p \in PolicyState, NEW t \in Task
  PROVE  LET i == p.intents[t]
             j == Ticked(p).intents[t]
         IN  /\ j.state = "new" <=> i.state = "new"
             /\ j.state \notin {"new", "forgotten"} => i.state \notin {"new", "forgotten"}
             /\ IsLive(Ticked(p), t) =>
                  /\ IsLive(p, t) /\ ~ Overdue(p, t)
                  /\ j.task = i.task /\ j.notBefore = i.notBefore
                  /\ i.state \in Waiting => j.state \in Waiting /\ j.wait = i.wait
                  /\ i.state = "active" /\ j.state \in Waiting =>
                       j.wait <= j.task /\ Interrupts(p, t)
             /\ j.task <= i.task
<1> DEFINE a == Swept(p)
           b == Arbitrated(a)
           i == p.intents[t]
           k == a.intents[t]
           m == b.intents[t]
           j == Ticked(p).intents[t]
<1>1. a \in PolicyState /\ b \in PolicyState
  BY SweptTyped, ArbitratedTyped
<1>2. k = IF Overdue(p, t) THEN EndedIntent
          ELSE IF Interrupts(p, t) THEN YieldedIntent(p, t) ELSE i
  BY SweptTask
<1> HIDE DEF a, b
<1>3. /\ m.task = k.task /\ m.wait = k.wait /\ m.notBefore = k.notBefore
      /\ k.state \notin Waiting => m = k
      /\ k.state \in Waiting => m.state \in Waiting
  BY <1>1, ArbitratedTask, ArbitratedIntents DEF SameClaim, Waiting, b
<1>4. j = m \/ (j = ForgottenIntent /\ m.state = "ended")
  BY <1>1, TrimmedTask DEF Ticked, a, b
<1>5. /\ i.task \in Nat /\ i \in Intent
      /\ EndedIntent.task = 0 /\ ForgottenIntent.task = 0
  BY FieldsTyped DEF Intent, EndedIntent, ForgottenIntent, BlankIntent
<1>6. /\ Overdue(p, t) => i.state \in Live
      /\ Interrupts(p, t) => i.state = "active" /\ ~ Overdue(p, t)
  BY DEF Overdue, Interrupts, IsLive, IsActive
<1> DEFINE y == YieldedIntent(p, t)
<1>7. y.state = "paused" /\ y.task = i.task /\ y.notBefore = i.notBefore /\ y.wait <= y.task
  BY YieldedTask
<1> HIDE DEF i, k, m, j, y
<1>8. CASE Overdue(p, t)
  <2>1. k = EndedIntent /\ m = k
    BY <1>2, <1>3, <1>8, BlankStates DEF Waiting
  <2>2. j \in {EndedIntent, ForgottenIntent}
    BY <1>4, <2>1
  <2>3. ~ IsLive(Ticked(p), t) /\ j.state \in {"ended", "forgotten"} /\ j.task = 0
    BY <1>5, <2>2, BlankStates DEF IsLive, Live, Waiting, j
  <2>4. QED
    BY <1>5, <1>6, <1>8, <2>3 DEF Live, Waiting, i, j
<1>9. CASE Interrupts(p, t)
  <2>1. k = y
    BY <1>2, <1>6, <1>9 DEF y
  <2>2. m.state \in Waiting /\ j = m
    BY <1>3, <1>4, <1>7, <2>1 DEF Waiting
  <2>3. j.task = i.task /\ j.notBefore = i.notBefore /\ j.wait <= j.task
    BY <1>3, <1>7, <2>1, <2>2
  <2>4. QED
    BY <1>5, <1>6, <1>9, <2>2, <2>3 DEF IsLive, Live, Waiting, i, j
<1>10. CASE ~ Overdue(p, t) /\ ~ Interrupts(p, t)
  <2>1. k = i
    BY <1>2, <1>10 DEF i
  <2>2. CASE j = m
    <3>1. /\ j.task = i.task /\ j.wait = i.wait /\ j.notBefore = i.notBefore
          /\ i.state \notin Waiting => j = i
          /\ i.state \in Waiting => j.state \in Waiting
      BY <1>3, <2>1, <2>2
    <3>2. QED
      BY <1>5, <1>10, <3>1 DEF IsLive, Live, Waiting, i, j
  <2>3. CASE j = ForgottenIntent /\ m.state = "ended"
    <3>1. i.state = "ended"
      BY <1>3, <2>1, <2>3 DEF Waiting
    <3>2. QED
      BY <1>5, <2>3, <3>1, BlankStates DEF IsLive, Live, Waiting, i, j
  <2>4. QED
    BY <1>4, <2>2, <2>3
<1>11. QED
  BY <1>8, <1>9, <1>10

\* Tasks that wait keep their order, and what is interrupted goes behind them.
LEMMA TickedOrder ==
  ASSUME NEW p \in PolicyState, NEW t \in Task, NEW u \in Task,
         p.intents[u].state \in Waiting, IsLive(Ticked(p), t), IsLive(Ticked(p), u)
  PROVE  /\ ~ Interrupts(p, t) => (u \in Ticked(p).front[t] <=> u \in p.front[t])
         /\ Interrupts(p, t) => u \in Ticked(p).front[t]
<1> DEFINE a == Swept(p)
           b == Arbitrated(a)
           Y == {x \in Task : Interrupts(p, x)}
<1>1. a \in PolicyState /\ b \in PolicyState
  BY SweptTyped, ArbitratedTyped
<1>2. a.front[t] = ToTail(p, Y)[t]
  BY SweptTask
<1>3. u \notin Y /\ u \in Listed(p)
  BY DEF Interrupts, IsActive, Waiting, Listed
<1> HIDE DEF a, b
<1>4. b.front[t] = a.front[t]
  BY <1>1, ArbitratedTask DEF b
<1>5. t \notin Surplus(b) /\ u \notin Surplus(b)
  <2>1. ASSUME NEW x \in Surplus(b) PROVE x \in Task /\ ~ IsLive(Ticked(p), x)
    <3>1. x \in Task
      BY DEF Surplus
    <3>2. Ticked(p).intents[x] = ForgottenIntent
      BY <1>1, <3>1, TrimmedTask DEF Ticked, a, b
    <3>3. QED
      BY <3>1, <3>2, BlankStates DEF IsLive, Live, Waiting
  <2>2. QED
    BY <2>1
<1>6. Ticked(p).front[t] = b.front[t] \ Surplus(b)
  BY <1>1, <1>5, TrimmedTask DEF Ticked, a, b
<1>7. CASE Interrupts(p, t)
  <2>1. ToTail(p, Y)[t] = (Listed(p) \ Y) \union (p.front[t] \intersect Y)
    BY <1>7 DEF ToTail
  <2>2. QED
    BY <1>2, <1>3, <1>4, <1>5, <1>6, <1>7, <2>1
<1>8. CASE ~ Interrupts(p, t)
  <2>1. ToTail(p, Y)[t] = p.front[t] \ Y
    BY <1>8 DEF ToTail
  <2>2. QED
    BY <1>2, <1>3, <1>4, <1>5, <1>6, <1>8, <2>1
<1>9. QED
  BY <1>7, <1>8

-----------------------------------------------------------------------------
(* The invariant, and the order and the deadlines from step to step. *)

\* A start that is scheduled comes before all that runs out.
Fits(p, t) ==
  LET i == p.intents[t]
  IN  i.notBefore > 0 => /\ i.notBefore < i.wait /\ i.notBefore < i.task
                         /\ \A s \in Request[t].surfaces : i.notBefore < p.config[s].left

WaitsInTime(p, t) ==
  p.intents[t].state \in Waiting => p.intents[t].wait <= p.intents[t].task /\ Fits(p, t)

NothingTwiceIn(p) ==
  \A t, u \in Listed(p) :
    t # u /\ Request[t].owner = Request[u].owner => Request[t].key # Request[u].key

BudgetIn(p) ==
  /\ Cardinality(LiveTasks(p)) <= LiveLimit
  /\ \A o \in Owner : Cardinality({t \in LiveTasks(p) : Request[t].owner = o}) <= TaskLimit

TaskIn(p) ==
  /\ \A t \in Task : IsLive(p, t) => p.owners[Request[t].owner] = "open"
  /\ \A t \in Task : WaitsInTime(p, t)
  /\ \A t \in Task : IsActive(p, t) => p.intents[t].notBefore = 0
  /\ NothingTwiceIn(p)
  /\ BudgetIn(p)

\* A consent covers the task.
Covered(p, t) ==
  /\ \A s \in Request[t].surfaces : p.config[s].mode # "off"
  /\ "browser" \in Request[t].surfaces => Request[t].profiles \subseteq p.profiles

ConsentedIn(p) == \A t \in Task : IsLive(p, t) => Covered(p, t)

\* From p to q the tasks that wait keep their turn, what is taken back goes
\* behind them, nobody starts and no deadline is put off.
Line(p, q) ==
  /\ \A t \in Task :
       /\ q.intents[t].state = "new" => p.intents[t].state = "new"
       /\ IsLive(q, t) => IsLive(p, t) \/ p.intents[t].state = "new"
       /\ p.intents[t].state \in Waiting /\ IsLive(q, t) => q.intents[t].state \in Waiting
       /\ p.intents[t].state # "new" => q.intents[t].task <= p.intents[t].task
  /\ \A t, u \in Task : p.intents[u].state \in Waiting /\ IsLive(q, u) =>
       /\ p.intents[t].state \in Waiting /\ IsLive(q, t) =>
            (u \in q.front[t] <=> u \in p.front[t])
       /\ IsActive(p, t) /\ q.intents[t].state \in Waiting => u \in q.front[t]

LEMMA LineGoesOn ==
  ASSUME NEW p \in PolicyState, NEW q \in PolicyState, NEW r \in PolicyState,
         Line(p, q), Line(q, r)
  PROVE  Line(p, r)
<1>1. ASSUME NEW t \in Task
      PROVE  /\ r.intents[t].state = "new" => p.intents[t].state = "new"
             /\ IsLive(r, t) => IsLive(p, t) \/ p.intents[t].state = "new"
             /\ p.intents[t].state \in Waiting /\ IsLive(r, t) =>
                  IsLive(q, t) /\ q.intents[t].state \in Waiting /\ r.intents[t].state \in Waiting
             /\ IsActive(p, t) /\ IsLive(r, t) => IsLive(q, t)
             /\ p.intents[t].state # "new" => r.intents[t].task <= p.intents[t].task
  <2>1. /\ r.intents[t].state = "new" => q.intents[t].state = "new"
        /\ IsLive(r, t) => IsLive(q, t) \/ q.intents[t].state = "new"
        /\ q.intents[t].state \in Waiting /\ IsLive(r, t) => r.intents[t].state \in Waiting
        /\ q.intents[t].state # "new" => r.intents[t].task <= q.intents[t].task
    BY DEF Line
  <2>2. /\ q.intents[t].state = "new" => p.intents[t].state = "new"
        /\ IsLive(q, t) => IsLive(p, t) \/ p.intents[t].state = "new"
        /\ p.intents[t].state \in Waiting /\ IsLive(q, t) => q.intents[t].state \in Waiting
        /\ p.intents[t].state # "new" => q.intents[t].task <= p.intents[t].task
    BY DEF Line
  <2>3. p.intents[t].task \in Nat /\ q.intents[t].task \in Nat /\ r.intents[t].task \in Nat
    BY FieldsTyped DEF Intent
  <2>4. p.intents[t].state \in Live => p.intents[t].state # "new"
    BY DEF Live, Waiting
  <2>5. p.intents[t].state # "new" => r.intents[t].task <= p.intents[t].task
    BY <2>1, <2>2, <2>3
  <2>6. IsActive(p, t) => p.intents[t].state # "new"
    BY DEF IsActive
  <2>7. p.intents[t].state \in Waiting => p.intents[t].state # "new"
    BY DEF Waiting
  <2>8. QED
    BY <2>1, <2>2, <2>5, <2>6, <2>7
<1>2. ASSUME NEW t \in Task, NEW u \in Task, p.intents[u].state \in Waiting, IsLive(r, u)
      PROVE  /\ p.intents[t].state \in Waiting /\ IsLive(r, t) =>
                  (u \in r.front[t] <=> u \in p.front[t])
             /\ IsActive(p, t) /\ r.intents[t].state \in Waiting => u \in r.front[t]
  <2>1. IsLive(q, u) /\ q.intents[u].state \in Waiting
    BY <1>1, <1>2
  <2>2. /\ p.intents[t].state \in Waiting /\ IsLive(q, t) =>
             (u \in q.front[t] <=> u \in p.front[t])
        /\ IsActive(p, t) /\ q.intents[t].state \in Waiting => u \in q.front[t]
    BY <1>2, <2>1 DEF Line
  <2>3. /\ q.intents[t].state \in Waiting /\ IsLive(r, t) =>
             (u \in r.front[t] <=> u \in q.front[t])
        /\ IsActive(q, t) /\ r.intents[t].state \in Waiting => u \in r.front[t]
    BY <1>2, <2>1 DEF Line
  <2>4. ASSUME p.intents[t].state \in Waiting, IsLive(r, t)
        PROVE  u \in r.front[t] <=> u \in p.front[t]
    BY <1>1, <2>2, <2>3, <2>4
  <2>5. ASSUME IsActive(p, t), r.intents[t].state \in Waiting
        PROVE  u \in r.front[t]
    <3>1. IsLive(r, t) /\ IsLive(q, t)
      BY <1>1, <2>5 DEF IsLive, Live
    <3>2. IsActive(q, t) \/ q.intents[t].state \in Waiting
      BY <3>1 DEF IsLive, Live, IsActive
    <3>3. QED
      BY <2>2, <2>3, <2>5, <3>1, <3>2
  <2>6. QED
    BY <2>4, <2>5
<1>3. QED
  BY <1>1, <1>2 DEF Line

\* Budgets and identifiers survive as long as nothing is added.
LEMMA FewerTasks ==
  ASSUME NEW p \in PolicyState, NEW q \in PolicyState,
         LiveTasks(q) \subseteq LiveTasks(p), Listed(q) \subseteq Listed(p)
  PROVE  /\ NothingTwiceIn(p) => NothingTwiceIn(q)
         /\ BudgetIn(p) => BudgetIn(q)
<1>1. NothingTwiceIn(p) => NothingTwiceIn(q)
  BY DEF NothingTwiceIn
<1>2. ASSUME NEW A, NEW B \in SUBSET A, A \subseteq Task, NEW n \in Nat, Cardinality(A) <= n
      PROVE  Cardinality(B) <= n
  <2>1. IsFiniteSet(A)
    BY <1>2, TasksAreFinite, FS_Subset
  <2>2. Cardinality(B) <= Cardinality(A) /\ Cardinality(A) \in Nat /\ Cardinality(B) \in Nat
    BY <2>1, FS_Subset, FS_CardinalityType
  <2>3. QED
    BY <1>2, <2>2
<1>3. LiveTasks(p) \subseteq Task
  BY DEF LiveTasks
<1>4. ASSUME BudgetIn(p), NEW o \in Owner
      PROVE  Cardinality({t \in LiveTasks(q) : Request[t].owner = o}) <= TaskLimit
  <2> DEFINE A == {t \in LiveTasks(p) : Request[t].owner = o}
             B == {t \in LiveTasks(q) : Request[t].owner = o}
  <2>1. B \in SUBSET A /\ A \subseteq Task /\ Cardinality(A) <= TaskLimit
    BY <1>3, <1>4 DEF BudgetIn
  <2> HIDE DEF A, B
  <2>2. Cardinality(B) <= TaskLimit
    BY <1>2, <2>1, ConstantsAreNatural
  <2>3. QED
    BY <2>2 DEF B
<1>5. BudgetIn(p) => Cardinality(LiveTasks(q)) <= LiveLimit
  BY <1>2, <1>3, ConstantsAreNatural DEF BudgetIn
<1>6. QED
  BY <1>1, <1>4, <1>5 DEF BudgetIn

\* One tick keeps the line and the invariant, and leaves only covered tasks.
LEMMA TickKeepsTasks ==
  ASSUME NEW p \in PolicyState
  PROVE  /\ Line(p, Ticked(p))
         /\ TaskIn(p) => TaskIn(Ticked(p))
         /\ ConsentedIn(Ticked(p))
<1> DEFINE q == Ticked(p)
<1>1. \A t \in Task :
        LET i == p.intents[t]
            j == q.intents[t]
        IN  /\ j.state = "new" <=> i.state = "new"
            /\ j.state \notin {"new", "forgotten"} => i.state \notin {"new", "forgotten"}
            /\ IsLive(q, t) =>
                 /\ IsLive(p, t) /\ ~ Overdue(p, t)
                 /\ j.task = i.task /\ j.notBefore = i.notBefore
                 /\ i.state \in Waiting => j.state \in Waiting /\ j.wait = i.wait
                 /\ i.state = "active" /\ j.state \in Waiting => j.wait <= j.task /\ Interrupts(p, t)
            /\ j.task <= i.task
  BY TickedTask
<1>2. ASSUME NEW t \in Task, NEW u \in Task,
             p.intents[u].state \in Waiting, IsLive(q, t), IsLive(q, u)
      PROVE  /\ ~ Interrupts(p, t) => (u \in q.front[t] <=> u \in p.front[t])
             /\ Interrupts(p, t) => u \in q.front[t]
  BY <1>2, TickedOrder
<1>3. q \in PolicyState /\ Settings(q) = Settings(p)
  BY TickedTyped, TickKeepsSettings
<1> HIDE DEF q
<1>4. q.owners = p.owners /\ q.config = p.config /\ q.profiles = p.profiles
  BY <1>3, SettingsFields
<1>5. Line(p, q)
  <2>1. ASSUME NEW t \in Task, NEW u \in Task, p.intents[u].state \in Waiting, IsLive(q, u)
        PROVE  /\ p.intents[t].state \in Waiting /\ IsLive(q, t) =>
                    (u \in q.front[t] <=> u \in p.front[t])
               /\ IsActive(p, t) /\ q.intents[t].state \in Waiting => u \in q.front[t]
    <3>1. p.intents[t].state \in Waiting => ~ Interrupts(p, t)
      BY DEF Interrupts, IsActive, Waiting
    <3>2. q.intents[t].state \in Waiting => IsLive(q, t)
      BY DEF IsLive, Live
    <3>3. QED
      BY <1>1, <1>2, <2>1, <3>1, <3>2 DEF IsActive
  <2>2. QED
    BY <1>1, <2>1 DEF Line
<1>6. ConsentedIn(q)
  BY <1>1, <1>4 DEF ConsentedIn, Covered, Overdue, Denied
<1>7. ASSUME TaskIn(p) PROVE TaskIn(q)
  <2>1. \A t \in Task : IsLive(q, t) => q.owners[Request[t].owner] = "open"
    BY <1>1, <1>4, <1>7 DEF TaskIn
  <2>2. \A t \in Task : IsActive(q, t) => q.intents[t].notBefore = 0
    BY <1>1, <1>7 DEF TaskIn, IsActive, IsLive, Live, Waiting
  <2>3. ASSUME NEW t \in Task PROVE WaitsInTime(q, t)
    <3> SUFFICES ASSUME q.intents[t].state \in Waiting
                 PROVE  q.intents[t].wait <= q.intents[t].task /\ Fits(q, t)
      BY DEF WaitsInTime
    <3>1. IsLive(q, t)
      BY DEF IsLive, Live
    <3>2. CASE p.intents[t].state \in Waiting
      <4>1. p.intents[t].wait <= p.intents[t].task /\ Fits(p, t)
        BY <1>7, <3>2 DEF TaskIn, WaitsInTime
      <4>2. QED
        BY <1>1, <1>4, <3>1, <3>2, <4>1 DEF Fits
    <3>3. CASE IsActive(p, t)
      <4>1. p.intents[t].notBefore = 0
        BY <1>7, <3>3 DEF TaskIn
      <4>2. QED
        BY <1>1, <3>1, <3>3, <4>1 DEF Fits, IsActive
    <3>4. QED
      BY <1>1, <3>1, <3>2, <3>3 DEF IsLive, Live, IsActive
  <2>4. LiveTasks(q) \subseteq LiveTasks(p) /\ Listed(q) \subseteq Listed(p)
    BY <1>1 DEF LiveTasks, Listed
  <2>5. NothingTwiceIn(q) /\ BudgetIn(q)
    BY <1>3, <1>7, <2>4, FewerTasks DEF TaskIn
  <2>6. QED
    BY <2>1, <2>2, <2>3, <2>5 DEF TaskIn
<1>8. QED
  BY <1>5, <1>6, <1>7 DEF q

-----------------------------------------------------------------------------
(* What the operations do to the tasks. *)

\* From p to q the line goes on and the invariant survives.
Good(p, q) == q \in PolicyState /\ Line(p, q) /\ (TaskIn(p) => TaskIn(q))

LEMMA GoodGoesOn ==
  ASSUME NEW p \in PolicyState, NEW q, NEW r, Good(p, q), Good(q, r)
  PROVE  Good(p, r)
BY LineGoesOn DEF Good

LEMMA TickIsGood ==
  ASSUME NEW p \in PolicyState
  PROVE  Good(p, Ticked(p)) /\ ConsentedIn(Ticked(p))
BY TickKeepsTasks, TickedTyped DEF Good

LEMMA KeptLine ==
  ASSUME NEW p \in PolicyState, NEW q \in PolicyState, Keeps(p, q),
         \A t \in Task : p.intents[t].state # "new" => q.intents[t].task <= p.intents[t].task
  PROVE  Line(p, q)
<1>1. ASSUME NEW t \in Task
      PROVE  /\ q.intents[t].state = "new" => p.intents[t].state = "new"
             /\ IsLive(q, t) => q.intents[t].state = p.intents[t].state
             /\ q.intents[t].state \in Waiting => q.intents[t].state = p.intents[t].state
  BY DEF Keeps, IsLive, Live, Waiting
<1>2. QED
  BY <1>1 DEF Line, Keeps, IsLive, IsActive, Live, Waiting

LEMMA KeptTasks ==
  ASSUME NEW p \in PolicyState, NEW q \in PolicyState, Keeps(p, q), TaskIn(p),
         \A t \in Task : IsLive(q, t) /\ p.owners[Request[t].owner] = "open" =>
                           q.owners[Request[t].owner] = "open",
         \A t \in Task : WaitsInTime(q, t),
         \A t \in Task : IsActive(q, t) => q.intents[t].notBefore = 0
  PROVE  TaskIn(q)
<1>1. \A t \in Task : /\ IsLive(q, t) => IsLive(p, t)
                      /\ q.intents[t].state \notin {"new", "forgotten"} =>
                           p.intents[t].state \notin {"new", "forgotten"}
  BY DEF Keeps, IsLive, Live, Waiting
<1>2. LiveTasks(q) \subseteq LiveTasks(p) /\ Listed(q) \subseteq Listed(p)
  BY <1>1 DEF LiveTasks, Listed
<1>3. NothingTwiceIn(q) /\ BudgetIn(q)
  BY <1>2, FewerTasks DEF TaskIn
<1>4. QED
  BY <1>1, <1>3 DEF TaskIn

\* The backing and the clocks of task t are in q what they are in p.
Stands(p, q, t) ==
  /\ q.intents[t].wait = p.intents[t].wait
  /\ q.intents[t].task = p.intents[t].task
  /\ q.intents[t].notBefore = p.intents[t].notBefore
  /\ p.owners[Request[t].owner] = "open" => q.owners[Request[t].owner] = "open"
  /\ \A s \in Request[t].surfaces : q.config[s] = p.config[s]
  /\ "browser" \in Request[t].surfaces => q.profiles = p.profiles

\* Tasks may end, and nothing happens to the others.
Quiet(p, q) ==
  /\ q \in PolicyState
  /\ Keeps(p, q)
  /\ \A t \in Task : IsLive(q, t) => Stands(p, q, t)
  /\ \A t \in Task : q.intents[t].task <= p.intents[t].task

LEMMA QuietIsGood ==
  ASSUME NEW p \in PolicyState, NEW q, Quiet(p, q)
  PROVE  Good(p, q) /\ (ConsentedIn(p) => ConsentedIn(q))
<1>1. q \in PolicyState /\ Keeps(p, q)
  BY DEF Quiet
<1>2. Line(p, q)
  BY <1>1, KeptLine DEF Quiet
<1>3. \A t \in Task : IsLive(q, t) => /\ q.intents[t].state = p.intents[t].state
                                     /\ IsLive(p, t) /\ Stands(p, q, t)
  BY <1>1 DEF Quiet, Keeps, IsLive, Live, Waiting
<1>4. ConsentedIn(p) => ConsentedIn(q)
  BY <1>3 DEF ConsentedIn, Covered, Stands
<1>5. ASSUME TaskIn(p) PROVE TaskIn(q)
  <2>1. ASSUME NEW t \in Task PROVE WaitsInTime(q, t)
    <3>1. q.intents[t].state \in Waiting => IsLive(q, t)
      BY DEF IsLive, Live
    <3>2. QED
      BY <1>3, <1>5, <3>1 DEF TaskIn, WaitsInTime, Fits, Stands
  <2>2. \A t \in Task : IsActive(q, t) => q.intents[t].notBefore = 0
    BY <1>3, <1>5 DEF TaskIn, IsActive, IsLive, Live, Stands
  <2>3. QED
    BY <1>1, <1>3, <1>5, <2>1, <2>2, KeptTasks DEF Stands
<1>6. QED
  BY <1>1, <1>2, <1>4, <1>5 DEF Good

\* An operation between two ticks, or before one.
LEMMA QuietBetweenTicks ==
  ASSUME NEW p \in PolicyState, NEW q, Quiet(Ticked(p), q)
  PROVE  Good(p, Ticked(q)) /\ ConsentedIn(Ticked(q))
<1>1. Good(p, Ticked(p)) /\ Ticked(p) \in PolicyState
  BY TickIsGood DEF Good
<1>2. Good(Ticked(p), q) /\ q \in PolicyState
  BY <1>1, QuietIsGood DEF Good
<1>3. Good(p, q)
  BY <1>1, <1>2, GoodGoesOn
<1>4. QED
  BY <1>2, <1>3, TickIsGood, GoodGoesOn

LEMMA QuietBeforeTick ==
  ASSUME NEW p \in PolicyState, NEW q, Quiet(p, q)
  PROVE  Good(p, Ticked(q)) /\ ConsentedIn(Ticked(q))
<1>1. Good(p, q) /\ q \in PolicyState
  BY QuietIsGood DEF Good
<1>2. QED
  BY <1>1, TickIsGood, GoodGoesOn

\* An operation that writes none of what the tasks rely on.
LEMMA SettingIsQuiet ==
  ASSUME NEW p \in PolicyState, NEW q \in PolicyState,
         q.front = p.front, q.intents = p.intents, q.config = p.config, q.profiles = p.profiles,
         \A o \in Owner : p.owners[o] = "open" => q.owners[o] = "open"
  PROVE  Quiet(p, q)
<1>1. Keeps(p, q)
  BY DEF Keeps
<1>2. \A t \in Task : p.intents[t].task \in Nat
  BY FieldsTyped DEF Intent
<1>3. \A t \in Task : Stands(p, q, t)
  BY RequestTyped DEF Stands
<1>4. QED
  BY <1>1, <1>2, <1>3 DEF Quiet

\* An operation that writes fields of one task that no property here reads.
LEMMA ChangeIsQuiet ==
  ASSUME NEW p \in PolicyState, NEW t \in Task, NEW j \in Intent,
         j.state = p.intents[t].state, j.wait = p.intents[t].wait,
         j.task = p.intents[t].task, j.notBefore = p.intents[t].notBefore
  PROVE  Quiet(p, [p EXCEPT !.intents[t] = j])
<1> DEFINE q == [p EXCEPT !.intents[t] = j]
<1>1. q \in PolicyState /\ Keeps(p, q)
  BY IntentTyped, ChangeKeeps
<1>2. q.owners = p.owners /\ q.config = p.config /\ q.profiles = p.profiles
  OBVIOUS
<1>3. \A u \in Task : q.intents[u] = IF u = t THEN j ELSE p.intents[u]
  BY FieldsTyped
<1> HIDE DEF q
<1>4. \A u \in Task : p.intents[u].task \in Nat
  BY FieldsTyped DEF Intent
<1>5. \A u \in Task : Stands(p, q, u)
  BY <1>2, <1>3 DEF Stands
<1>6. Quiet(p, q)
  BY <1>1, <1>3, <1>4 , <1>5 DEF Quiet
<1>7. QED
  BY <1>6 DEF q

LEMMA QuietGoesOn ==
  ASSUME NEW p \in PolicyState, NEW q, NEW r \in PolicyState, Quiet(p, q),
         r.front = q.front, r.intents = q.intents,
         \A t \in Task : IsLive(r, t) =>
           /\ q.owners[Request[t].owner] = "open" => r.owners[Request[t].owner] = "open"
           /\ \A s \in Request[t].surfaces : r.config[s] = q.config[s]
           /\ "browser" \in Request[t].surfaces => r.profiles = q.profiles
  PROVE  Quiet(p, r)
<1>1. Keeps(p, r)
  BY DEF Quiet, Keeps
<1>2. \A t \in Task : IsLive(r, t) => IsLive(q, t)
  BY DEF IsLive
<1>3. \A t \in Task : IsLive(r, t) => Stands(p, r, t)
  BY <1>2 DEF Quiet, Stands
<1>4. QED
  BY <1>1, <1>3 DEF Quiet

\* Tasks that end keep nobody else from anything.
LEMMA FinishedIsQuiet ==
  ASSUME NEW p \in PolicyState, NEW T
  PROVE  /\ Quiet(p, Finished(p, T))
         /\ \A t \in Task : IsLive(Finished(p, T), t) => t \notin T
<1> DEFINE q == Finished(p, T)
<1>1. q \in PolicyState /\ Keeps(p, q)
  BY FinishedTyped, FinishedKeeps
<1>2. /\ \A t \in Task : q.intents[t] = IF t \in T /\ IsLive(p, t) THEN EndedIntent ELSE p.intents[t]
      /\ q.owners = p.owners /\ q.config = p.config /\ q.profiles = p.profiles
  BY DEF Finished, PolicyState
<1>3. EndedIntent.task = 0 /\ EndedIntent.state = "ended"
  BY DEF EndedIntent, BlankIntent
<1>4. \A t \in Task : p.intents[t].task \in Nat
  BY FieldsTyped DEF Intent
<1> HIDE DEF q
<1>5. \A t \in Task : IsLive(q, t) => q.intents[t] = p.intents[t] /\ t \notin T
  BY <1>2, <1>3 DEF IsLive, Live, Waiting
<1>6. \A t \in Task : IsLive(q, t) => Stands(p, q, t)
  BY <1>2, <1>5 DEF Stands
<1>7. \A t \in Task : q.intents[t].task <= p.intents[t].task
  BY <1>2, <1>3, <1>4
<1>8. QED
  BY <1>1, <1>5, <1>6, <1>7 DEF Quiet, q

LEMMA HeldIsQuiet ==
  ASSUME NEW p \in PolicyState, NEW t \in Task
  PROVE  Quiet(p, HeldBy(p, t))
<1> DEFINE j == [p.intents[t] EXCEPT !.held = TRUE, !.skipNotice = FALSE]
           q == [p EXCEPT !.intents[t] = j]
           r == HeldBy(p, t)
<1>1. /\ j \in Intent /\ j.state = p.intents[t].state /\ j.wait = p.intents[t].wait
      /\ j.task = p.intents[t].task /\ j.notBefore = p.intents[t].notBefore
  <2>1. p.intents[t] \in Intent
    BY FieldsTyped
  <2>2. QED
    BY <2>1 DEF Intent
<1>2. r = ApprovalRequired(q, Request[t].surfaces)
  BY DEF HeldBy, PolicyState
<1> HIDE DEF j
<1>3. Quiet(p, q)
  BY <1>1, ChangeIsQuiet
<1> HIDE DEF q
<1>4. r \in PolicyState
  BY HeldKeeps
<1>5. /\ r.front = q.front /\ r.intents = q.intents
      /\ r.owners = q.owners /\ r.config = q.config /\ r.profiles = q.profiles
  BY <1>2, <1>3 DEF ApprovalRequired, PolicyState, Quiet
<1> HIDE DEF r
<1>6. Quiet(p, r)
  BY <1>3, <1>4, <1>5, QuietGoesOn
<1>7. QED
  BY <1>6 DEF r

LEMMA ReconfiguredIsQuiet ==
  ASSUME NEW p \in PolicyState, NEW s \in Surface, NEW c \in Configurations[s]
  PROVE  Quiet(p, Reconfigured(p, s, c))
<1> DEFINE T == {t \in Task : s \in Request[t].surfaces}
           q == Finished(p, T)
           r == Reconfigured(p, s, c)
<1>1. Quiet(p, q) /\ \A t \in Task : IsLive(q, t) => t \notin T
  BY FinishedIsQuiet
<1>2. r \in PolicyState
  BY ReconfiguredTyped
<1>3. /\ r.front = q.front /\ r.intents = q.intents /\ r.owners = q.owners
      /\ \A x \in Surface \ {s} : r.config[x] = q.config[x]
      /\ s # "browser" => r.profiles = q.profiles
  <2>1. PICK a, g, e : r = [q EXCEPT !.approvalRequired = a, !.config[s] = g,
                                     !.profiles = IF s = "browser" THEN c.profiles ELSE @,
                                     !.deferrals = e]
    BY DEF Reconfigured
  <2> HIDE DEF q, r
  <2>2. q \in PolicyState
    BY <1>1 DEF Quiet
  <2>3. QED
    BY <2>1, <2>2 DEF PolicyState
<1> HIDE DEF q, r
<1>4. \A t \in Task : IsLive(r, t) => s \notin Request[t].surfaces
  BY <1>1, <1>3 DEF IsLive
<1>5. ASSUME NEW t \in Task, IsLive(r, t)
      PROVE  /\ q.owners[Request[t].owner] = "open" => r.owners[Request[t].owner] = "open"
             /\ \A x \in Request[t].surfaces : r.config[x] = q.config[x]
             /\ "browser" \in Request[t].surfaces => r.profiles = q.profiles
  BY <1>3, <1>4, <1>5, RequestTyped
<1>6. Quiet(p, r)
  BY <1>1, <1>2, <1>3, <1>5, QuietGoesOn
<1>7. QED
  BY <1>6 DEF r

LEMMA TakenOverIsQuiet ==
  ASSUME NEW p \in PolicyState, NEW s \in Surface
  PROVE  Quiet(p, TakenOver(p, s))
<1> DEFINE q == IF p.humanCooldown = 0 /\ p.preferences.reapprove
                THEN ApprovalRequired(p, {"desktop"}) ELSE p
           f == [t \in Task |-> IF IsLive(p, t) /\ YieldsToHuman(t) THEN Interrupted(p, t) ELSE p.intents[t]]
           r == TakenOver(p, s)
<1>1. /\ q \in PolicyState
      /\ q.owners = p.owners /\ q.config = p.config /\ q.profiles = p.profiles
  <2>1. ApprovalRequired(p, {"desktop"}) \in PolicyState
    BY RequiredTyped DEF Surface
  <2>2. /\ ApprovalRequired(p, {"desktop"}).owners = p.owners
        /\ ApprovalRequired(p, {"desktop"}).config = p.config
        /\ ApprovalRequired(p, {"desktop"}).profiles = p.profiles
    BY DEF ApprovalRequired, PolicyState
  <2>3. QED
    BY <2>1, <2>2
<1>2. \A t \in Task : /\ f[t].wait = p.intents[t].wait
                      /\ f[t].task = p.intents[t].task
                      /\ f[t].notBefore = p.intents[t].notBefore
  <2>1. ASSUME NEW t \in Task
        PROVE  /\ Interrupted(p, t).wait = p.intents[t].wait
               /\ Interrupted(p, t).task = p.intents[t].task
               /\ Interrupted(p, t).notBefore = p.intents[t].notBefore
    <3>1. p.intents[t] \in Intent
      BY FieldsTyped
    <3>2. QED
      BY <3>1 DEF Interrupted, Intent
  <2>2. QED
    BY <2>1
<1>3. r.owners = q.owners /\ r.config = q.config /\ r.profiles = q.profiles /\ r.intents = f
  <2> HIDE DEF f
  <2>1. PICK h, x : r = [q EXCEPT !.humanCooldown = h, !.takeoverSurfaces = x,
                                  !.postYieldWarning = TRUE, !.intents = f]
    BY DEF TakenOver, f
  <2> HIDE DEF q, r
  <2>2. QED
    BY <1>1, <2>1 DEF PolicyState
<1>4. r \in PolicyState /\ Keeps(p, r)
  BY TakenOverTyped, TakenOverKeeps
<1> HIDE DEF q, f, r
<1>5. \A t \in Task : p.intents[t].task \in Nat
  BY FieldsTyped DEF Intent
<1>6. \A t \in Task : Stands(p, r, t)
  BY <1>1, <1>2, <1>3 DEF Stands
<1>7. Quiet(p, r)
  BY <1>2, <1>3, <1>4, <1>5, <1>6 DEF Quiet
<1>8. QED
  BY <1>7 DEF r

\* The earliest consent of a task's surfaces, and what it is compared with.
LEMMA WithinEach ==
  ASSUME NEW p \in PolicyState, NEW t \in Task, NEW x \in Nat
  PROVE  /\ WithinConsent(p, t, x) \in Nat
         /\ WithinConsent(p, t, x) <= x
         /\ \A s \in Request[t].surfaces : WithinConsent(p, t, x) <= p.config[s].left
<1>1. p.config["desktop"].left \in Nat /\ p.config["browser"].left \in Nat
  BY DEF PolicyState, Surface
<1>2. Request[t].surfaces \subseteq {"desktop", "browser"}
  BY RequestTyped DEF Surface
<1> DEFINE a == IF "desktop" \in Request[t].surfaces THEN p.config["desktop"].left ELSE Forever
           b == IF "browser" \in Request[t].surfaces THEN p.config["browser"].left ELSE Forever
<1>3. WithinConsent(p, t, x) = Lesser(x, Lesser(a, b)) /\ a \in Nat /\ b \in Nat
  BY <1>1, ConstantsAreNatural DEF WithinConsent
<1>4. \A s \in Request[t].surfaces : p.config[s].left \in {a, b}
  BY <1>2
<1> HIDE DEF a, b
<1>5. /\ Lesser(x, Lesser(a, b)) \in Nat /\ Lesser(x, Lesser(a, b)) <= x
      /\ Lesser(x, Lesser(a, b)) <= a /\ Lesser(x, Lesser(a, b)) <= b
  BY <1>3 DEF Lesser
<1>6. QED
  BY <1>3, <1>4, <1>5

\* A start that approve() or postpone() accepts fits.
LEMMA DelayFits ==
  ASSUME NEW p \in PolicyState, NEW t \in Task, NEW d \in Nat, NEW n \in Nat,
         DelayAllowed(p, t, d, n), d > 0
  PROVE  /\ d < p.intents[t].wait /\ d < p.intents[t].task
         /\ \A s \in Request[t].surfaces : d < p.config[s].left
<1> DEFINE w == p.intents[t].wait
           k == p.intents[t].task
           c == WithinConsent(p, t, Lesser(w, k))
<1>1. w \in Nat /\ k \in Nat /\ DelayMargin \in Nat
  BY FieldsTyped, ConstantsAreNatural DEF Intent
<1>2. d + (n + DelayMargin) < c
  BY DEF DelayAllowed
<1> HIDE DEF w, k
<1>3. Lesser(w, k) \in Nat /\ Lesser(w, k) <= w /\ Lesser(w, k) <= k
  BY <1>1 DEF Lesser
<1>4. /\ c \in Nat /\ c <= Lesser(w, k)
      /\ \A s \in Request[t].surfaces : c <= p.config[s].left
  BY <1>3, WithinEach
<1>5. \A s \in Request[t].surfaces : p.config[s].left \in Nat
  BY RequestTyped DEF PolicyState
<1> HIDE DEF c
<1>6. d < c
  BY <1>1, <1>2, <1>4
<1>7. d < w /\ d < k
  BY <1>1, <1>3, <1>4, <1>6
<1>8. \A s \in Request[t].surfaces : d < p.config[s].left
  BY <1>4, <1>5, <1>6
<1>9. QED
  BY <1>7, <1>8 DEF w, k

\* approve() and postpone() write when a waiting task may start.
LEMMA DelayIsGood ==
  ASSUME NEW p \in PolicyState, NEW t \in Task, NEW d \in Nat, NEW n \in Nat,
         ~ IsActive(p, t), DelayAllowed(p, t, d, n),
         NEW q \in PolicyState, Keeps(p, q),
         q.owners = p.owners, q.config = p.config,
         \A u \in Task \ {t} : q.intents[u] = p.intents[u],
         q.intents[t].wait = p.intents[t].wait, q.intents[t].task = p.intents[t].task,
         q.intents[t].notBefore = d
  PROVE  Good(p, q)
<1>1. \A u \in Task : p.intents[u].task \in Nat /\ q.intents[u].task = p.intents[u].task
                                               /\ q.intents[u].wait = p.intents[u].wait
  BY FieldsTyped DEF Intent
<1>2. Line(p, q)
  BY <1>1, KeptLine
<1>3. ASSUME TaskIn(p) PROVE TaskIn(q)
  <2>1. ASSUME NEW u \in Task PROVE WaitsInTime(q, u)
    <3>1. CASE u = t
      <4>1. q.intents[t].state \in Waiting => p.intents[t].state \in Waiting
        BY DEF Keeps, Live, Waiting
      <4>2. d > 0 => /\ d < p.intents[t].wait /\ d < p.intents[t].task
                     /\ \A s \in Request[t].surfaces : d < p.config[s].left
        BY DelayFits
      <4>3. QED
        BY <1>1, <1>3, <3>1, <4>1, <4>2 DEF TaskIn, WaitsInTime, Fits
    <3>2. CASE u # t
      BY <1>3, <3>2 DEF TaskIn, WaitsInTime, Fits
    <3>3. QED
      BY <3>1, <3>2
  <2>2. ASSUME NEW u \in Task, IsActive(q, u) PROVE q.intents[u].notBefore = 0
    <3>1. IsActive(p, u)
      BY <2>2 DEF Keeps, IsActive
    <3>2. QED
      BY <1>3, <3>1 DEF TaskIn
  <2>3. QED
    BY <1>3, <2>1, <2>2, KeptTasks
<1>4. QED
  BY <1>2, <1>3 DEF Good

\* A submission that is neither a duplicate nor over budget joins the tasks.
LEMMA QueuedIsGood ==
  ASSUME NEW p \in PolicyState, NEW t \in Task, p.intents[t].state = "new",
         p.owners[Request[t].owner] = "open", ~ Duplicate(p, t), ~ QueueFull(p, t)
  PROVE  Good(p, Queued(p, t))
<1> DEFINE q == Queued(p, t)
           j == SubmittedIntent(t)
<1>1. /\ j.state = "waiting_for_resource" /\ j.notBefore = 0
      /\ j.wait = Request[t].wait /\ j.task = Request[t].wait + Request[t].duration
  BY DEF SubmittedIntent, BlankIntent
<1>2. j.wait <= j.task
  <2>1. Request[t].wait \in Nat /\ Request[t].duration \in Nat
    BY RequestTyped
  <2> HIDE DEF j
  <2>2. QED
    BY <1>1, <2>1
<1>3. /\ q.intents[t] = j
      /\ \A u \in Task \ {t} : q.intents[u] = p.intents[u] /\ q.front[u] = p.front[u]
      /\ q.owners = p.owners /\ q.config = p.config
  BY DEF Queued, PolicyState
<1>4. q \in PolicyState
  BY QueuedTyped
<1> HIDE DEF q, j
<1>5. Line(p, q)
  <2>1. \A u \in Task : p.intents[u].task \in Nat
    BY FieldsTyped DEF Intent
  <2>2. ASSUME NEW u \in Task
        PROVE  /\ q.intents[u].state = "new" => p.intents[u].state = "new"
               /\ IsLive(q, u) => IsLive(p, u) \/ p.intents[u].state = "new"
               /\ p.intents[u].state \in Waiting => q.intents[u].state \in Waiting
               /\ p.intents[u].state # "new" => q.intents[u].task <= p.intents[u].task
    BY <1>1, <1>3, <2>1 DEF IsLive, Waiting
  <2>3. ASSUME NEW v \in Task, NEW u \in Task, p.intents[u].state \in Waiting
        PROVE  /\ p.intents[v].state \in Waiting => (u \in q.front[v] <=> u \in p.front[v])
               /\ IsActive(p, v) => q.intents[v].state \notin Waiting
    <3>1. p.intents[v].state \in Waiting \/ IsActive(p, v) => v # t
      BY DEF Waiting, IsActive
    <3>2. QED
      BY <1>3, <3>1 DEF IsActive, Waiting
  <2>4. QED
    BY <2>2, <2>3 DEF Line
<1>6. t \notin LiveTasks(p) /\ LiveTasks(q) = LiveTasks(p) \union {t} /\ LiveTasks(p) \subseteq Task
  BY <1>1, <1>3 DEF LiveTasks, IsLive, Live, Waiting
<1>7. Listed(q) = Listed(p) \union {t} /\ t \notin Listed(p)
  BY <1>1, <1>3 DEF Listed
<1>8. ASSUME TaskIn(p) PROVE TaskIn(q)
  <2>1. \A u \in Task : IsLive(q, u) => q.owners[Request[u].owner] = "open"
    BY <1>3, <1>8 DEF TaskIn, IsLive
  <2>2. \A u \in Task : WaitsInTime(q, u)
    BY <1>1, <1>2, <1>3, <1>8 DEF TaskIn, WaitsInTime, Fits
  <2>3. \A u \in Task : IsActive(q, u) => q.intents[u].notBefore = 0
    BY <1>1, <1>3, <1>8 DEF TaskIn, IsActive
  <2>4. NothingTwiceIn(q)
    BY <1>7, <1>8 DEF TaskIn, NothingTwiceIn, Duplicate
  <2>5. ASSUME NEW A \in SUBSET Task, NEW n \in Nat, ~ (Cardinality(A) >= n)
        PROVE  Cardinality(A \union {t}) <= n
    <3>1. IsFiniteSet(A)
      BY TasksAreFinite, FS_Subset
    <3>2. Cardinality(A) \in Nat
      BY <3>1, FS_CardinalityType
    <3>3. Cardinality(A \union {t}) = IF t \in A THEN Cardinality(A) ELSE Cardinality(A) + 1
      BY <3>1, FS_AddElement
    <3>4. QED
      BY <2>5, <3>2, <3>3
  <2>6. Cardinality(LiveTasks(q)) <= LiveLimit
    <3>1. ~ (Cardinality(LiveTasks(p)) >= LiveLimit)
      BY DEF QueueFull
    <3>2. QED
      BY <1>6, <2>5, <3>1, ConstantsAreNatural
  <2>7. ASSUME NEW o \in Owner
        PROVE  Cardinality({u \in LiveTasks(q) : Request[u].owner = o}) <= TaskLimit
    <3> DEFINE A == {u \in LiveTasks(p) : Request[u].owner = o}
               B == {u \in LiveTasks(q) : Request[u].owner = o}
    <3>1. A \in SUBSET Task
      BY <1>6
    <3>2. CASE Request[t].owner = o
      <4>1. B = A \union {t}
        BY <1>6, <3>2
      <4>2. ~ (Cardinality(A) >= TaskLimit)
        BY <3>2 DEF QueueFull
      <4> HIDE DEF A, B
      <4>3. Cardinality(B) <= TaskLimit
        BY <2>5, <3>1, <4>1, <4>2, ConstantsAreNatural
      <4>4. QED
        BY <4>3 DEF B
    <3>3. CASE Request[t].owner # o
      <4>1. B = A
        BY <1>6, <3>3
      <4>2. Cardinality(A) <= TaskLimit
        BY <1>8 DEF TaskIn, BudgetIn
      <4>3. QED
        BY <4>1, <4>2
    <3>4. QED
      BY <3>2, <3>3
  <2>8. BudgetIn(q)
    BY <2>6, <2>7 DEF BudgetIn
  <2>9. QED
    BY <2>1, <2>2, <2>3, <2>4, <2>8 DEF TaskIn
<1>9. QED
  BY <1>4, <1>5, <1>8 DEF Good, q

LEMMA AgedInOrder ==
  ASSUME NEW x \in Nat, NEW y \in Nat
  PROVE  /\ Aged(x, 1) <= x
         /\ x <= y => Aged(x, 1) <= Aged(y, 1)
         /\ x < y /\ Aged(x, 1) > 0 => Aged(x, 1) < Aged(y, 1)
         /\ Aged(x, 1) > 0 => x > 0
         /\ x = 0 => Aged(x, 1) = 0
BY ConstantsAreNatural DEF Aged

\* Time passes for all deadlines alike.
LEMMA PassIsGood ==
  ASSUME NEW p \in PolicyState
  PROVE  LET q == AgedPolicy(p, 1)
         IN  Good(p, q) /\ (ConsentedIn(p) => ConsentedIn(q))
<1> DEFINE q == AgedPolicy(p, 1)
<1>1. /\ q \in PolicyState /\ q.owners = p.owners /\ q.front = p.front /\ q.profiles = p.profiles
      /\ \A t \in Task : q.intents[t] = AgedIntent(p.intents[t], 1)
      /\ \A s \in Surface : /\ q.config[s].mode = p.config[s].mode
                            /\ q.config[s].left = Aged(p.config[s].left, 1)
  BY AgedFields
<1> HIDE DEF q
<1>2. \A t \in Task : p.intents[t] \in Intent
  BY FieldsTyped
<1>3. \A t \in Task : /\ q.intents[t].state = p.intents[t].state
                      /\ q.intents[t].wait = Aged(p.intents[t].wait, 1)
                      /\ q.intents[t].task = Aged(p.intents[t].task, 1)
                      /\ q.intents[t].notBefore = Aged(p.intents[t].notBefore, 1)
  BY <1>1, <1>2, AgedTask
<1>4. \A t \in Task : /\ p.intents[t].wait \in Nat /\ p.intents[t].task \in Nat
                      /\ p.intents[t].notBefore \in Nat
  BY <1>2 DEF Intent
<1>5. \A s \in Surface : p.config[s].left \in Nat
  BY DEF PolicyState
<1>6. Keeps(p, q)
  BY <1>1, <1>3 DEF Keeps
<1>7. Line(p, q)
  BY <1>1, <1>3, <1>4, <1>6, AgedInOrder, KeptLine
<1>8. ConsentedIn(p) => ConsentedIn(q)
  BY <1>1, <1>3, RequestTyped DEF ConsentedIn, Covered, IsLive
<1>9. ASSUME TaskIn(p) PROVE TaskIn(q)
  <2>1. ASSUME NEW t \in Task PROVE WaitsInTime(q, t)
    <3> SUFFICES ASSUME q.intents[t].state \in Waiting
                 PROVE  q.intents[t].wait <= q.intents[t].task /\ Fits(q, t)
      BY DEF WaitsInTime
    <3> DEFINE i == p.intents[t]
    <3>1. i.wait <= i.task /\ Fits(p, t)
      BY <1>3, <1>9 DEF TaskIn, WaitsInTime
    <3>2. q.intents[t].wait <= q.intents[t].task
      BY <1>3, <1>4, <3>1, AgedInOrder
    <3>3. ASSUME Aged(i.notBefore, 1) > 0
          PROVE  /\ Aged(i.notBefore, 1) < Aged(i.wait, 1)
                 /\ Aged(i.notBefore, 1) < Aged(i.task, 1)
                 /\ \A s \in Request[t].surfaces : Aged(i.notBefore, 1) < Aged(p.config[s].left, 1)
      <4>1. i.notBefore > 0
        BY <1>4, <3>3, AgedInOrder
      <4>2. /\ i.notBefore < i.wait /\ i.notBefore < i.task
            /\ \A s \in Request[t].surfaces : i.notBefore < p.config[s].left
        BY <3>1, <4>1 DEF Fits
      <4> HIDE DEF i
      <4>3. \A s \in Request[t].surfaces : p.config[s].left \in Nat
        BY <1>5, RequestTyped
      <4>4. i.notBefore \in Nat /\ i.wait \in Nat /\ i.task \in Nat
        BY <1>4 DEF i
      <4>5. QED
        BY <3>3, <4>2, <4>3, <4>4, AgedInOrder
    <3>4. Fits(q, t)
      BY <1>1, <1>3, <3>3, RequestTyped DEF Fits
    <3>5. QED
      BY <3>2, <3>4
  <2>2. \A t \in Task : IsActive(q, t) => q.intents[t].notBefore = 0
    BY <1>3, <1>4, <1>9, AgedInOrder DEF TaskIn, IsActive
  <2>3. QED
    BY <1>1, <1>6, <1>9, <2>1, <2>2, KeptTasks
<1>10. QED
  BY <1>1, <1>7, <1>8, <1>9 DEF Good, q

-----------------------------------------------------------------------------
(* Every step. *)

\* What CeilingStep says of deadlines and what TailStep says, from p to q.
CeilingIn(p, q) ==
  \A t \in Task :
    LET i == p.intents[t]
        j == q.intents[t]
    IN  j.task > i.task =>
          \/ i.state = "new"
          \/ /\ i.state = "active" /\ j.state = "active" /\ j.task = j.stage
             /\ \A s \in Request[t].surfaces : j.task <= q.config[s].left

TailIn(p, q) ==
  \A t, u \in Task : p.intents[u].state \in Waiting /\ IsLive(q, u) =>
    /\ IsActive(p, t) /\ q.intents[t].state \in Waiting => u \in q.front[t]
    /\ p.intents[t].state \in Waiting /\ IsLive(q, t) => (u \in q.front[t] <=> u \in p.front[t])

Fair(p, q) == /\ CeilingIn(p, q)
              /\ TailIn(p, q)
              /\ TaskIn(p) => TaskIn(q)
              /\ ConsentedIn(p) => ConsentedIn(q)

LEMMA GoodIsFair ==
  ASSUME NEW p \in PolicyState, NEW q, Good(p, q), ConsentedIn(p) => ConsentedIn(q)
  PROVE  Fair(p, q)
<1>1. TailIn(p, q)
  BY DEF Good, Line, TailIn
<1>2. CeilingIn(p, q)
  <2>1. \A t \in Task : p.intents[t].task \in Nat /\ q.intents[t].task \in Nat
    BY FieldsTyped DEF Intent, Good
  <2>2. \A t \in Task : p.intents[t].state # "new" => ~ (q.intents[t].task > p.intents[t].task)
    BY <2>1 DEF Good, Line
  <2>3. QED
    BY <2>2 DEF CeilingIn
<1>3. QED
  BY <1>1, <1>2 DEF Fair, Good

\* What accept() and renew() write in the intent of their task.
LEMMA AcceptedFields ==
  ASSUME NEW p \in PolicyState, NEW t \in Task
  PROVE  LET q == Accepted(p, t)
         IN  /\ q \in PolicyState
             /\ q.front = p.front /\ q.owners = p.owners /\ q.config = p.config
             /\ q.profiles = p.profiles
             /\ \A u \in Task \ {t} : q.intents[u] = p.intents[u]
             /\ q.intents[t].state = "active"
             /\ q.intents[t].task = p.intents[t].task
             /\ q.intents[t].notBefore = p.intents[t].notBefore
<1> DEFINE i == p.intents[t]
           q == Accepted(p, t)
           x == Lesser(Request[t].duration, i.task)
           j == [i EXCEPT !.state = "active", !.yielded = FALSE, !.skipNotice = FALSE, !.wait = 0,
                          !.stage = x, !.lease = ActiveLease]
<1>1. i \in Intent /\ q \in PolicyState
  BY FieldsTyped, AcceptedTyped
<1>2. /\ q.intents = [p.intents EXCEPT ![t] = j]
      /\ q.front = p.front /\ q.owners = p.owners /\ q.config = p.config
      /\ q.profiles = p.profiles
  BY DEF Accepted, PolicyState
<1> HIDE DEF x, i, q
<1>3. j.state = "active" /\ j.task = i.task /\ j.notBefore = i.notBefore
  BY <1>1 DEF Intent
<1> HIDE DEF j
<1>4. q.intents[t] = j /\ \A u \in Task \ {t} : q.intents[u] = p.intents[u]
  BY <1>2, FieldsTyped
<1>5. QED
  BY <1>1, <1>2, <1>3, <1>4 DEF i, q

LEMMA AcceptIsFair ==
  ASSUME SafeIn(policy), NEW t \in Task, Accept(t)
  PROVE  Fair(policy, policy')
<1> DEFINE p == Ticked(policy)
           q == Accepted(p, t)
<1>1. policy \in PolicyState /\ SafeIn(p)
  BY TickIsSafe DEF SafeIn
<1>2. Good(policy, p) /\ ConsentedIn(p)
  BY <1>1, TickIsGood
<1>3. policy' = q /\ p.intents[t].state = "offered"
  BY DEF Accept
<1> HIDE DEF p
<1>4. p \in PolicyState
  BY <1>1 DEF SafeIn
<1>5. /\ q \in PolicyState
      /\ q.front = p.front /\ q.owners = p.owners /\ q.config = p.config
      /\ q.profiles = p.profiles
      /\ \A u \in Task \ {t} : q.intents[u] = p.intents[u]
      /\ q.intents[t].state = "active"
      /\ q.intents[t].task = p.intents[t].task
      /\ q.intents[t].notBefore = p.intents[t].notBefore
  BY <1>4, AcceptedFields
<1> HIDE DEF q
<1>6. \A u \in Task : /\ IsLive(q, u) <=> IsLive(p, u)
                      /\ q.intents[u].state \in Waiting => q.intents[u].state = p.intents[u].state
                      /\ q.intents[u].task = p.intents[u].task
                      /\ u \in Listed(q) <=> u \in Listed(p)
  BY <1>3, <1>5 DEF IsLive, Live, Waiting, Listed
<1>7. TailIn(policy, q)
  BY <1>2, <1>5, <1>6 DEF TailIn, Good, Line
<1>8. CeilingIn(policy, q)
  <2>1. \A u \in Task : policy.intents[u].task \in Nat /\ p.intents[u].task \in Nat
    BY <1>1, <1>4, FieldsTyped DEF Intent
  <2>2. \A u \in Task : policy.intents[u].state # "new" => ~ (q.intents[u].task > policy.intents[u].task)
    BY <1>2, <1>6, <2>1 DEF Good, Line
  <2>3. QED
    BY <2>2 DEF CeilingIn
<1>9. ConsentedIn(q)
  BY <1>2, <1>5, <1>6 DEF ConsentedIn, Covered
\* An offer stands only where nothing blocks, no scheduled start included.
<1>10. p.intents[t].notBefore = 0
  <2>1. ~ Blocked(p, t)
    BY <1>1, <1>3 DEF SafeIn, UnblockedIn, ReservesIn, Reserving
  <2>2. p.intents[t].notBefore \in Nat
    BY <1>4, FieldsTyped DEF Intent
  <2>3. QED
    BY <2>1, <2>2 DEF Blocked, Obstructed
<1>11. ASSUME TaskIn(p) PROVE TaskIn(q)
  <2>1. \A u \in Task : WaitsInTime(q, u)
    <3>1. \A u \in Task : q.intents[u].state \in Waiting => u # t
      BY <1>5 DEF Waiting
    <3>2. QED
      BY <1>5, <1>11, <3>1 DEF TaskIn, WaitsInTime, Fits
  <2>2. \A u \in Task : IsActive(q, u) => q.intents[u].notBefore = 0
    BY <1>5, <1>10, <1>11 DEF TaskIn, IsActive
  <2>3. LiveTasks(q) \subseteq LiveTasks(p) /\ Listed(q) \subseteq Listed(p)
    BY <1>6 DEF LiveTasks, Listed
  <2>4. NothingTwiceIn(q) /\ BudgetIn(q)
    BY <1>4, <1>5, <1>11, <2>3, FewerTasks DEF TaskIn
  <2>5. QED
    BY <1>5, <1>6, <1>11, <2>1, <2>2, <2>4 DEF TaskIn
<1>12. QED
  BY <1>2, <1>3, <1>7, <1>8, <1>9, <1>11 DEF Fair, Good

LEMMA RenewIsFair ==
  ASSUME SafeIn(policy), NEW t \in Task, NEW d \in Renewals, Renew(t, d)
  PROVE  Fair(policy, policy')
<1> DEFINE p == Ticked(policy)
           i == p.intents[t]
           left == WithinConsent(p, t, Greater(i.stage, d))
           k == Greater(i.task, left)
           j == [i EXCEPT !.stage = left, !.task = k, !.lease = ActiveLease]
           q == [p EXCEPT !.intents[t] = j]
<1>1. policy \in PolicyState /\ OrderedIn(policy) /\ p \in PolicyState
  BY TickedTyped DEF SafeIn
<1>2. Good(policy, p) /\ ConsentedIn(p)
  BY <1>1, TickIsGood
<1>3. policy' = q /\ IsActive(p, t)
  BY DEF Renew, Authorized
<1>4. IsActive(policy, t)
  BY <1>1, <1>3, SessionStays
<1> HIDE DEF p
<1>5. i \in Intent /\ i.stage \in Nat /\ i.task \in Nat /\ d \in Nat
  BY <1>1, FieldsTyped, InputsAreTyped DEF Intent
<1>6. left \in Nat /\ \A s \in Request[t].surfaces : left <= p.config[s].left
  BY <1>1, <1>5, SmallerTyped, WithinEach
<1> HIDE DEF left
<1>7. k \in Nat /\ (k > i.task => k = left)
  BY <1>5, <1>6 DEF Greater
<1> HIDE DEF k
<1>8. j \in Intent /\ j.state = i.state /\ j.notBefore = i.notBefore /\ j.stage = left /\ j.task = k
  BY <1>5, <1>6, <1>7, ConstantsAreNatural DEF Intent
<1> HIDE DEF j
<1>9. q \in PolicyState /\ Keeps(p, q)
  BY <1>1, <1>8, IntentTyped, ChangeKeeps
<1>10. /\ \A u \in Task : q.intents[u] = IF u = t THEN j ELSE p.intents[u]
       /\ q.front = p.front /\ q.owners = p.owners /\ q.config = p.config /\ q.profiles = p.profiles
  BY <1>1, FieldsTyped
<1> HIDE DEF q
<1>11. \A u \in Task : q.intents[u].state = p.intents[u].state
  BY <1>8, <1>10
<1>12. TailIn(policy, q)
  BY <1>2, <1>10, <1>11 DEF TailIn, Good, Line, IsLive
<1>13. CeilingIn(policy, q)
  <2>1. \A u \in Task : policy.intents[u].task \in Nat /\ p.intents[u].task \in Nat
    BY <1>1, FieldsTyped DEF Intent
  <2>2. \A u \in Task : policy.intents[u].state # "new" => p.intents[u].task <= policy.intents[u].task
    BY <1>2 DEF Good, Line
  <2>3. \A u \in Task \ {t} : policy.intents[u].state # "new" =>
          ~ (q.intents[u].task > policy.intents[u].task)
    BY <1>10, <2>1, <2>2
  <2>4. ASSUME q.intents[t].task > policy.intents[t].task
        PROVE  /\ policy.intents[t].state = "active" /\ q.intents[t].state = "active"
               /\ q.intents[t].task = q.intents[t].stage
               /\ \A s \in Request[t].surfaces : q.intents[t].task <= q.config[s].left
    <3>1. i.task <= policy.intents[t].task /\ policy.intents[t].task \in Nat
      BY <1>4, <2>1, <2>2 DEF IsActive
    <3>2. q.intents[t] = j
      BY <1>10
    <3>3. k = left
      BY <1>5, <1>7, <1>8, <2>4, <3>1, <3>2
    <3>4. QED
      BY <1>3, <1>4, <1>6, <1>8, <1>10, <3>2, <3>3 DEF IsActive
  <2>5. QED
    BY <2>3, <2>4 DEF CeilingIn
<1>14. ConsentedIn(q)
  BY <1>2, <1>10, <1>11 DEF ConsentedIn, Covered, IsLive
<1>15. ASSUME TaskIn(p) PROVE TaskIn(q)
  <2>1. \A u \in Task : WaitsInTime(q, u)
    <3>1. \A u \in Task : q.intents[u].state \in Waiting => u # t
      BY <1>3, <1>11 DEF Waiting, IsActive
    <3>2. QED
      BY <1>10, <1>15, <3>1 DEF TaskIn, WaitsInTime, Fits
  <2>2. \A u \in Task : IsActive(q, u) => q.intents[u].notBefore = 0
    BY <1>8, <1>10, <1>11, <1>15 DEF TaskIn, IsActive
  <2>3. QED
    BY <1>1, <1>9, <1>10, <1>15, <2>1, <2>2, KeptTasks
<1>16. QED
  BY <1>2, <1>3, <1>12, <1>13, <1>14, <1>15 DEF Fair, Good

LEMMA TaskStepIsFair ==
  ASSUME SafeIn(policy), NEW t \in Task, TaskStep(t)
  PROVE  Fair(policy, policy')
<1> DEFINE p == Ticked(policy)
<1>1. policy \in PolicyState /\ p \in PolicyState
  BY TickedTyped DEF SafeIn
<1>2. Good(policy, p) /\ ConsentedIn(p) /\ p.owners = policy.owners
  BY <1>1, TickIsGood, TickKeepsSettings, SettingsFields
<1>3. policy.intents[t].state = "new" => p.intents[t].state = "new"
  BY <1>1, TickedTask
<1> HIDE DEF p
<1>4. CASE Submit(t)
  <2>1. /\ p.intents[t].state = "new" /\ p.owners[Request[t].owner] = "open"
        /\ ~ Duplicate(p, t) /\ ~ QueueFull(p, t) /\ policy' = Ticked(Queued(p, t))
    BY <1>2, <1>3, <1>4 DEF Submit, p
  <2>2. Good(p, Queued(p, t)) /\ Queued(p, t) \in PolicyState
    BY <1>1, <2>1, QueuedIsGood DEF Good
  <2>3. Good(policy, Queued(p, t))
    BY <1>1, <1>2, <2>2, GoodGoesOn
  <2>4. Good(policy, policy') /\ ConsentedIn(policy')
    BY <1>1, <2>1, <2>2, <2>3, TickIsGood, GoodGoesOn
  <2>5. QED
    BY <1>1, <2>4, GoodIsFair
<1>5. CASE Heartbeat(t)
  <2> DEFINE x == IF IsActive(p, t) THEN ActiveLease ELSE QueueLease
             j == [p.intents[t] EXCEPT !.lease = x]
             q == [p EXCEPT !.intents[t] = j]
  <2>1. policy' = q
    BY <1>5 DEF Heartbeat, p
  <2>2. x \in Nat /\ p.intents[t] \in Intent
    BY <1>1, ConstantsAreNatural, FieldsTyped
  <2> HIDE DEF x
  <2>3. /\ j \in Intent /\ j.state = p.intents[t].state /\ j.wait = p.intents[t].wait
        /\ j.task = p.intents[t].task /\ j.notBefore = p.intents[t].notBefore
    BY <2>2 DEF Intent
  <2> HIDE DEF j
  <2>4. Quiet(p, q)
    BY <1>1, <2>3, ChangeIsQuiet
  <2> HIDE DEF q
  <2>5. Good(p, q) /\ ConsentedIn(q)
    BY <1>1, <1>2, <2>4, QuietIsGood
  <2>6. Good(policy, q)
    BY <1>1, <1>2, <2>5, GoodGoesOn
  <2>7. QED
    BY <1>1, <2>1, <2>5, <2>6, GoodIsFair
<1>6. CASE Accept(t)
  BY <1>6, AcceptIsFair
<1>7. ASSUME NEW d \in Renewals, Renew(t, d)
      PROVE  Fair(policy, policy')
  BY <1>7, RenewIsFair
<1>8. CASE Cancel(t)
  <2>1. policy' = Ticked(Finished(p, {t})) /\ Quiet(p, Finished(p, {t}))
    BY <1>1, <1>8, FinishedIsQuiet DEF Cancel, p
  <2>2. QED
    BY <1>1, <2>1, QuietBetweenTicks, GoodIsFair DEF p
<1>9. QED
  BY <1>4, <1>5, <1>6, <1>7, <1>8 DEF TaskStep

\* approve() and postpone() after their opening tick, and their closing one.
LEMMA DelayIsFair ==
  ASSUME SafeIn(policy), NEW q, Good(Ticked(policy), q), policy' = Ticked(q)
  PROVE  Fair(policy, policy')
<1>1. /\ policy \in PolicyState /\ Ticked(policy) \in PolicyState /\ q \in PolicyState
      /\ Good(policy, Ticked(policy))
  BY TickIsGood DEF SafeIn, Good
<1>2. Good(policy, q)
  BY <1>1, GoodGoesOn
<1>3. Good(policy, policy') /\ ConsentedIn(policy')
  BY <1>1, <1>2, TickIsGood, GoodGoesOn
<1>4. QED
  BY <1>1, <1>3, GoodIsFair

LEMMA ApproveIsFair ==
  ASSUME SafeIn(policy), NEW t \in Task, NEW d \in Delays, Approve(t, d)
  PROVE  Fair(policy, policy')
<1> DEFINE p == Ticked(policy)
           mine == Request[t].surfaces
           i == p.intents[t]
           a == [s \in Surface |-> IF s \in mine THEN p.config[s].generation ELSE i.approvals[s]]
           e == [s \in Surface |-> IF s \in mine THEN p.approvalEpochs[s] ELSE i.approvalEpochs[s]]
           j == [i EXCEPT !.approvals = a, !.approvalEpochs = e,
                          !.held = FALSE, !.notBefore = d, !.skipNotice = TRUE]
           q == [p EXCEPT !.intents[t] = j]
           r == Approved(p, t, d)
<1>1. p \in PolicyState /\ d \in Nat
  BY TickedTyped, InputsAreTyped DEF SafeIn
<1>2. policy' = Ticked(r) /\ ~ IsActive(p, t) /\ DelayAllowed(p, t, d, 0)
  BY DEF Approve
<1> HIDE DEF p
<1>3. i \in Intent
  BY <1>1, FieldsTyped
<1>4. r \in {q, [q EXCEPT !.humanCooldown = 0]}
  BY DEF Approved
<1>5. r \in PolicyState /\ Keeps(p, r)
  BY <1>1, ApprovedTyped, ApprovedKeeps
<1> HIDE DEF a, e, i, r
<1>6. j.wait = i.wait /\ j.task = i.task /\ j.notBefore = d
  BY <1>3 DEF Intent
<1> HIDE DEF j
<1>7. /\ r.owners = p.owners /\ r.config = p.config
      /\ r.intents = [p.intents EXCEPT ![t] = j]
  BY <1>1, <1>4 DEF PolicyState
<1>8. r.intents[t] = j /\ \A u \in Task \ {t} : r.intents[u] = p.intents[u]
  BY <1>1, <1>7, FieldsTyped
<1>9. Good(p, r)
  BY <1>1, <1>2, <1>5, <1>6, <1>7, <1>8, DelayIsGood DEF i
<1>10. QED
  BY <1>2, <1>9, DelayIsFair DEF p

LEMMA PostponeIsFair ==
  ASSUME SafeIn(policy), NEW t \in Task, NEW d \in Delays, Postpone(t, d)
  PROVE  Fair(policy, policy')
<1> DEFINE p == Ticked(policy)
           i == p.intents[t]
           j == [i EXCEPT !.notBefore = d]
           q == [p EXCEPT !.intents[t] = j]
<1>1. p \in PolicyState /\ d \in Nat /\ NoticeFor(p, t) \in Nat
  BY TickedTyped, NoticeTyped, InputsAreTyped DEF SafeIn
<1>2. policy' = Ticked(q) /\ ~ IsActive(p, t) /\ DelayAllowed(p, t, d, NoticeFor(p, t))
  BY DEF Postpone
<1> HIDE DEF p
<1>3. i \in Intent
  BY <1>1, FieldsTyped
<1>4. j \in Intent /\ j.state = i.state /\ j.wait = i.wait /\ j.task = i.task /\ j.notBefore = d
  BY <1>1, <1>3 DEF Intent
<1> HIDE DEF j
<1>5. q \in PolicyState /\ Keeps(p, q)
  BY <1>1, <1>4, IntentTyped, ChangeKeeps
<1>6. /\ q.owners = p.owners /\ q.config = p.config
      /\ q.intents[t] = j /\ \A u \in Task \ {t} : q.intents[u] = p.intents[u]
  BY <1>1, FieldsTyped
<1> HIDE DEF q, i
<1>7. Good(p, q)
  BY <1>1, <1>2, <1>4, <1>5, <1>6, DelayIsGood DEF i
<1>8. QED
  BY <1>2, <1>7, DelayIsFair DEF p

LEMMA StartNowIsFair ==
  ASSUME SafeIn(policy), NEW t \in Task, StartNow(t)
  PROVE  Fair(policy, policy')
<1> DEFINE p == Ticked(policy)
           a == Acknowledged(p, t)
           j == [a.intents[t] EXCEPT !.stage = 0]
           r == [a EXCEPT !.intents[t] = j]
<1>1. /\ policy \in PolicyState /\ p \in PolicyState
      /\ Good(policy, p) /\ ConsentedIn(p)
  BY TickedTyped, TickIsGood DEF SafeIn
<1> HIDE DEF p
<1>2. Good(p, a) /\ ConsentedIn(a)
  <2> DEFINE q == [p EXCEPT !.humanCooldown = 0]
  <2>1. /\ q \in PolicyState /\ q.front = p.front /\ q.intents = p.intents
        /\ q.config = p.config /\ q.profiles = p.profiles /\ q.owners = p.owners
    BY <1>1 DEF PolicyState
  <2>2. a = p \/ a = Ticked(q)
    BY DEF Acknowledged
  <2> HIDE DEF q
  <2>3. Quiet(p, q)
    BY <1>1, <2>1, SettingIsQuiet
  <2>4. Good(p, Ticked(q)) /\ ConsentedIn(Ticked(q))
    BY <1>1, <2>3, QuietBeforeTick
  <2>5. Quiet(p, p)
    BY <1>1, SettingIsQuiet
  <2>6. Good(p, p)
    BY <1>1, <2>5, QuietIsGood
  <2>7. QED
    BY <1>1, <2>2, <2>4, <2>6
<1>3. policy' \in {a, Ticked(r)}
  BY DEF StartNow, p
<1> HIDE DEF a
<1>4. a \in PolicyState /\ Good(policy, a)
  BY <1>1, <1>2, GoodGoesOn DEF Good
<1>5. /\ j \in Intent /\ j.state = a.intents[t].state /\ j.wait = a.intents[t].wait
      /\ j.task = a.intents[t].task /\ j.notBefore = a.intents[t].notBefore
  <2>1. a.intents[t] \in Intent
    BY <1>4, FieldsTyped
  <2>2. QED
    BY <2>1 DEF Intent
<1> HIDE DEF j
<1>6. Quiet(a, r)
  BY <1>4, <1>5, ChangeIsQuiet
<1> HIDE DEF r
<1>7. Good(a, Ticked(r)) /\ ConsentedIn(Ticked(r))
  BY <1>4, <1>6, QuietBeforeTick
<1>8. Good(policy, Ticked(r))
  BY <1>1, <1>4, <1>7, GoodGoesOn
<1>9. QED
  BY <1>1, <1>2, <1>3, <1>4, <1>7, <1>8, GoodIsFair

LEMMA PersonStepIsFair ==
  ASSUME SafeIn(policy), NEW t \in Task, PersonStep(t)
  PROVE  Fair(policy, policy')
<1> DEFINE p == Ticked(policy)
<1>1. policy \in PolicyState /\ p \in PolicyState
  BY TickedTyped DEF SafeIn
<1> HIDE DEF p
<1>2. ASSUME NEW q, Quiet(p, q), policy' = Ticked(q)
      PROVE  Fair(policy, policy')
  BY <1>1, <1>2, QuietBetweenTicks, GoodIsFair DEF p
<1>3. CASE Hold(t)
  <2>1. policy' = Ticked(HeldBy(p, t))
    BY <1>3 DEF Hold, p
  <2>2. QED
    BY <1>1, <1>2, <2>1, HeldIsQuiet
<1>4. CASE Deny(t)
  <2>1. policy' = Ticked(Finished(p, {t}))
    BY <1>4 DEF Deny, p
  <2>2. QED
    BY <1>1, <1>2, <2>1, FinishedIsQuiet
<1>5. ASSUME NEW d \in DeferTimes, Defer(t, d)
      PROVE  Fair(policy, policy')
  <2> DEFINE e == [r \in Resource |-> [s \in Surface |->
                     IF r \in Resources[t] /\ s \in Request[t].surfaces THEN d ELSE p.deferrals[r][s]]]
             q == [p EXCEPT !.deferrals = e]
  <2>1. e \in [Resource -> [Surface -> Nat]]
    BY <1>1, InputsAreTyped DEF PolicyState
  <2>2. policy' = Ticked(q)
    BY <1>5 DEF Defer, p
  <2> HIDE DEF e
  <2>3. /\ q \in PolicyState /\ q.front = p.front /\ q.intents = p.intents
        /\ q.config = p.config /\ q.profiles = p.profiles /\ q.owners = p.owners
    BY <1>1, <2>1 DEF PolicyState
  <2> HIDE DEF q
  <2>4. QED
    BY <1>1, <1>2, <2>2, <2>3, SettingIsQuiet
<1>6. QED
  BY <1>3, <1>4, <1>5, ApproveIsFair, PostponeIsFair, StartNowIsFair DEF PersonStep

\* A person or an adapter writes what no task relies on, and it ticks or not.
LEMMA SettingIsFair ==
  ASSUME SafeIn(policy), NEW q \in PolicyState, policy' \in {q, Ticked(q)},
         q.front = policy.front, q.intents = policy.intents,
         q.config = policy.config, q.profiles = policy.profiles,
         \A o \in Owner : policy.owners[o] = "open" => q.owners[o] = "open"
  PROVE  Fair(policy, policy')
<1>1. policy \in PolicyState
  BY DEF SafeIn
<1>2. Quiet(policy, q)
  BY <1>1, SettingIsQuiet
<1>3. /\ Good(policy, q) /\ (ConsentedIn(policy) => ConsentedIn(q))
      /\ Good(policy, Ticked(q)) /\ ConsentedIn(Ticked(q))
  BY <1>1, <1>2, QuietIsGood, QuietBeforeTick
<1>4. QED
  BY <1>1, <1>3, GoodIsFair

LEMMA QuietIsFair ==
  ASSUME SafeIn(policy), NEW q, Quiet(policy, q), policy' \in {q, Ticked(q)}
  PROVE  Fair(policy, policy')
<1>1. policy \in PolicyState
  BY DEF SafeIn
<1>2. /\ Good(policy, q) /\ (ConsentedIn(policy) => ConsentedIn(q))
      /\ Good(policy, Ticked(q)) /\ ConsentedIn(Ticked(q))
  BY <1>1, QuietIsGood, QuietBeforeTick
<1>3. QED
  BY <1>1, <1>2, GoodIsFair

LEMMA SurfaceStepIsFair ==
  ASSUME SafeIn(policy), SurfaceStep
  PROVE  Fair(policy, policy')
<1>1. policy \in PolicyState /\ TypeOK
  BY DEF SafeIn, TypeOK
<1>2. policy' \in PolicyState
  BY <1>1, SurfaceStepTyped DEF TypeOK
<1>3. ASSUME NEW s \in Surface, NEW c \in Configurations[s], Configure(s, c)
      PROVE  Fair(policy, policy')
  BY <1>1, <1>3, ReconfiguredIsQuiet, QuietIsFair DEF Configure
<1>4. ASSUME NEW c \in PreferenceChoices, SetPreferences(c)
      PROVE  Fair(policy, policy')
  <2>1. /\ policy'.front = policy.front /\ policy'.intents = policy.intents
        /\ policy'.config = policy.config /\ policy'.profiles = policy.profiles
        /\ policy'.owners = policy.owners
    BY <1>1, <1>4 DEF SetPreferences, PolicyState
  <2>2. QED
    BY <1>2, <2>1, SettingIsFair
<1>5. ASSUME NEW d \in NoticeChoices, Notice(d)
      PROVE  Fair(policy, policy')
  <2>1. /\ policy'.front = policy.front /\ policy'.intents = policy.intents
        /\ policy'.config = policy.config /\ policy'.profiles = policy.profiles
        /\ policy'.owners = policy.owners
    BY <1>1, <1>5 DEF Notice, PolicyState
  <2>2. QED
    BY <1>2, <2>1, SettingIsFair
<1>6. ASSUME NEW s \in Surface, NEW v \in VisibilityChoices[s], Ready(s, v)
      PROVE  Fair(policy, policy')
  <2> DEFINE q == [policy EXCEPT !.available[s] = v]
  <2>1. v \in [ready : BOOLEAN, notice : BOOLEAN]
    BY InputsAreTyped
  <2>2. /\ q \in PolicyState /\ q.front = policy.front /\ q.intents = policy.intents
        /\ q.config = policy.config /\ q.profiles = policy.profiles /\ q.owners = policy.owners
    BY <1>1, <2>1 DEF PolicyState
  <2>3. policy' = Ticked(q)
    BY <1>6 DEF Ready
  <2> HIDE DEF q
  <2>4. QED
    BY <2>2, <2>3, SettingIsFair
<1>7. ASSUME NEW b \in InputChoices, InputReady(b)
      PROVE  Fair(policy, policy')
  <2> DEFINE q == [policy EXCEPT !.inputReady = b]
  <2>1. /\ q \in PolicyState /\ q.front = policy.front /\ q.intents = policy.intents
        /\ q.config = policy.config /\ q.profiles = policy.profiles /\ q.owners = policy.owners
    BY <1>1, InputsAreTyped DEF PolicyState
  <2>2. policy' = Ticked(q)
    BY <1>7 DEF InputReady
  <2> HIDE DEF q
  <2>3. QED
    BY <2>1, <2>2, SettingIsFair
<1>8. ASSUME NEW c \in Scope, NEW r \in PauseReason, NEW d \in Nat,
             policy' = Ticked([policy EXCEPT !.pauses[c][r] = d])
      PROVE  Fair(policy, policy')
  <2> DEFINE x == [policy.pauses[c] EXCEPT ![r] = d]
             q == [policy EXCEPT !.pauses[c] = x]
  <2>1. x \in [PauseReason -> Nat]
    BY <1>1 DEF PolicyState
  <2>2. policy' = Ticked(q)
    BY <1>8
  <2> HIDE DEF x
  <2>3. /\ q \in PolicyState /\ q.front = policy.front /\ q.intents = policy.intents
        /\ q.config = policy.config /\ q.profiles = policy.profiles /\ q.owners = policy.owners
    BY <1>1, <2>1 DEF PolicyState
  <2> HIDE DEF q
  <2>4. QED
    BY <2>2, <2>3, SettingIsFair
<1>9. ASSUME NEW c \in Scope, ResumeTakeover(c)
      PROVE  Fair(policy, policy')
  <2> DEFINE rest == IF c = "all" THEN {} ELSE policy.takeoverSurfaces \ {c}
             h == IF rest = {} THEN 0 ELSE policy.humanCooldown
             q == [policy EXCEPT !.takeoverSurfaces = rest, !.humanCooldown = h]
  <2>1. rest \in SUBSET Surface /\ h \in Nat
    BY <1>1 DEF PolicyState
  <2>2. policy' = Ticked(q)
    BY <1>9 DEF ResumeTakeover
  <2> HIDE DEF rest, h
  <2>3. /\ q \in PolicyState /\ q.front = policy.front /\ q.intents = policy.intents
        /\ q.config = policy.config /\ q.profiles = policy.profiles /\ q.owners = policy.owners
    BY <1>1, <2>1 DEF PolicyState
  <2> HIDE DEF q
  <2>4. QED
    BY <2>2, <2>3, SettingIsFair
<1>10. ASSUME NEW c \in Scope, ResumeDeferral(c)
       PROVE  Fair(policy, policy')
  <2> DEFINE e == [r \in Resource |-> [s \in Surface |->
                     IF c \in {"all", s} THEN 0 ELSE policy.deferrals[r][s]]]
             q == [policy EXCEPT !.deferrals = e]
  <2>1. e \in [Resource -> [Surface -> Nat]]
    BY <1>1 DEF PolicyState
  <2>2. policy' = Ticked(q)
    BY <1>10 DEF ResumeDeferral
  <2> HIDE DEF e
  <2>3. /\ q \in PolicyState /\ q.front = policy.front /\ q.intents = policy.intents
        /\ q.config = policy.config /\ q.profiles = policy.profiles /\ q.owners = policy.owners
    BY <1>1, <2>1 DEF PolicyState
  <2> HIDE DEF q
  <2>4. QED
    BY <2>2, <2>3, SettingIsFair
<1>11. ASSUME NEW s \in InputSurfaces, Input(s)
       PROVE  Fair(policy, policy')
  <2>1. s \in Surface
    BY InputsAreTyped
  <2> DEFINE q == TakenOver(Ticked(policy), s)
  <2>2. Quiet(Ticked(policy), q)
    BY <1>1, <2>1, TickedTyped, TakenOverIsQuiet
  <2>3. policy' = Ticked(q)
    BY <1>11 DEF Input
  <2> HIDE DEF q
  <2>4. QED
    BY <1>1, <2>2, <2>3, QuietBetweenTicks, GoodIsFair
<1>12. CASE Stop
  <2> DEFINE q == Finished(policy, Task)
  <2>1. Quiet(policy, q) /\ \A t \in Task : ~ IsLive(q, t)
    BY <1>1, FinishedIsQuiet
  <2>2. policy'.front = q.front /\ policy'.intents = q.intents
    <3>1. PICK c, e : policy' = [q EXCEPT !.config = c, !.deferrals = e,
                                          !.takeoverSurfaces = {}, !.humanCooldown = 0,
                                          !.postYieldWarning = FALSE, !.approvalRequired = {}]
      BY <1>12 DEF Stop
    <3> HIDE DEF q
    <3>2. QED
      BY <2>1, <3>1 DEF PolicyState, Quiet
  <2> HIDE DEF q
  <2>3. Quiet(policy, policy')
    BY <1>1, <1>2, <2>1, <2>2, QuietGoesOn DEF IsLive
  <2>4. QED
    BY <2>3, QuietIsFair
<1>13. QED
  <2>1. \A d \in PauseTimes : d \in Nat
    BY InputsAreTyped
  <2>2. QED
    BY <2>1, <1>3, <1>4, <1>5, <1>6, <1>7, <1>8, <1>9, <1>10, <1>11, <1>12
       DEF SurfaceStep, Pause, Resume

LEMMA CloseIsFair ==
  ASSUME SafeIn(policy), NEW o \in Owner, Close(o)
  PROVE  Fair(policy, policy')
<1> DEFINE mine == {t \in Task : Request[t].owner = o}
           f == Finished(policy, mine)
           q == [f EXCEPT !.owners[o] = "closed"]
<1>1. Quiet(policy, f) /\ \A t \in Task : IsLive(f, t) => t \notin mine
  BY FinishedIsQuiet DEF SafeIn
<1>2. policy' = Ticked(q)
  BY DEF Close
<1> HIDE DEF f
<1>3. /\ q \in PolicyState /\ q.front = f.front /\ q.intents = f.intents
      /\ q.config = f.config /\ q.profiles = f.profiles
      /\ \A x \in Owner \ {o} : q.owners[x] = f.owners[x]
  BY <1>1 DEF PolicyState, Quiet
<1> HIDE DEF q
<1>4. \A t \in Task : IsLive(q, t) => q.owners[Request[t].owner] = f.owners[Request[t].owner]
  BY <1>1, <1>3, RequestTyped DEF IsLive
<1>5. Quiet(policy, q)
  BY <1>1, <1>3, <1>4, QuietGoesOn DEF SafeIn
<1>6. QED
  BY <1>2, <1>5, QuietIsFair

LEMMA StepIsFair ==
  ASSUME SafeIn(policy), [Next]_policy
  PROVE  Fair(policy, policy')
<1>1. policy \in PolicyState
  BY DEF SafeIn
<1>2. CASE UNCHANGED policy
  BY <1>1, <1>2, SettingIsFair
<1>3. ASSUME NEW o \in Owner, Open(o)
      PROVE  Fair(policy, policy')
  <2>1. policy' = [policy EXCEPT !.owners[o] = "open"]
    BY <1>3 DEF Open
  <2>2. /\ policy' \in PolicyState
        /\ policy'.front = policy.front /\ policy'.intents = policy.intents
        /\ policy'.config = policy.config /\ policy'.profiles = policy.profiles
        /\ \A x \in Owner : policy.owners[x] = "open" => policy'.owners[x] = "open"
    BY <1>1, <2>1 DEF PolicyState
  <2>3. QED
    BY <2>2, SettingIsFair
<1>4. CASE Poll
  BY <1>1, <1>4, TickIsGood, GoodIsFair DEF Poll
<1>5. CASE Pass
  BY <1>1, <1>5, PassIsGood, GoodIsFair DEF Pass
<1>6. QED
  BY <1>2, <1>3, <1>4, <1>5, CloseIsFair, TaskStepIsFair, PersonStepIsFair, SurfaceStepIsFair
     DEF Next

-----------------------------------------------------------------------------

Sound == Safe /\ TaskIn(policy) /\ ConsentedIn(policy)

LEMMA InitIsSound == Init => Sound
<1> SUFFICES ASSUME Init PROVE TaskIn(policy) /\ ConsentedIn(policy)
  BY InitSafe DEF Sound, Safe
<1>1. \A t \in Task : policy.intents[t].state = "new"
  BY DEF Init, BlankIntent
<1>2. LiveTasks(policy) = {} /\ Listed(policy) = {}
  BY <1>1 DEF LiveTasks, Listed, IsLive, Live, Waiting
<1>3. \A t \in Task : ~ IsLive(policy, t) /\ ~ IsActive(policy, t) /\ WaitsInTime(policy, t)
  BY <1>1 DEF IsLive, IsActive, Live, Waiting, WaitsInTime
<1>4. NothingTwiceIn(policy)
  BY <1>2 DEF NothingTwiceIn
<1>5. BudgetIn(policy)
  <2>1. \A o \in Owner : {t \in LiveTasks(policy) : Request[t].owner = o} = {}
    BY <1>2
  <2>2. QED
    BY <1>2, <2>1, FS_EmptySet, ConstantsAreNatural DEF BudgetIn
<1>6. QED
  BY <1>3, <1>4, <1>5 DEF TaskIn, ConsentedIn

LEMMA AlwaysSound == Spec => []Sound
<1>1. Init => Sound
  BY InitIsSound
<1>2. Sound /\ [Next]_policy => Sound'
  <2> SUFFICES ASSUME Sound, [Next]_policy PROVE Sound'
    OBVIOUS
  <2>1. Fair(policy, policy') /\ SafeIn(policy')
    BY StepIsFair, StepIsSafe DEF Sound, Safe
  <2>2. QED
    BY <2>1 DEF Sound, Safe, Fair
<1>3. QED
  BY <1>1, <1>2, PTL DEF Spec

\* No task outlives the channel that submitted it or the consent it was admitted
\* under: both end their tasks in the step that closes them.
THEOREM LiveStaysBacked == Spec => []LiveIsBacked
<1>1. Sound => LiveIsBacked
  BY DEF Sound, TaskIn, ConsentedIn, Covered, LiveIsBacked, LiveTasks
<1>2. QED
  BY <1>1, AlwaysSound, PTL

\* A start that approve() or postpone() scheduled stays possible: it comes before
\* the wait, the task deadline and each consent run out, however time passes.
THEOREM SchedulesStayPossible == Spec => []ScheduleFits
<1>1. Sound => ScheduleFits
  BY DEF Sound, TaskIn, WaitsInTime, Fits, ScheduleFits
<1>2. QED
  BY <1>1, AlwaysSound, PTL

\* A request is accepted once, and the budgets hold for every number of tasks.
THEOREM BudgetsAlwaysHold == Spec => []BudgetsHold
<1>1. Sound => BudgetsHold
  BY DEF Sound, TaskIn, NothingTwiceIn, BudgetIn, BudgetsHold
<1>2. QED
  BY <1>1, AlwaysSound, PTL

\* The task deadline is a ceiling that only the renewal of a session raises, and
\* that never past its consents; no wait reaches beyond it.
THEOREM CeilingsHold == Spec => CeilingHolds
<1>1. ASSUME Sound, [Next]_policy PROVE [CeilingStep]_policy
  <2>1. CeilingIn(policy, policy') /\ TaskIn(policy')
    BY <1>1, StepIsFair DEF Sound, Safe, Fair
  <2>2. QED
    BY <2>1 DEF CeilingIn, TaskIn, WaitsInTime, CeilingStep
<1>2. QED
  BY <1>1, AlwaysSound, PTL DEF Spec, CeilingHolds

\* A session that is taken back goes behind every task that was waiting, and the
\* tasks that wait keep their order, in every step of the policy.
THEOREM YieldedAlwaysGoLast == Spec => YieldedGoLast
<1>1. ASSUME Sound, [Next]_policy PROVE [TailStep]_policy
  <2>1. TailIn(policy, policy')
    BY <1>1, StepIsFair DEF Sound, Safe, Fair
  <2>2. \A t \in Task : policy'.intents[t].state \in Waiting => IsLive(policy', t)
    BY DEF IsLive, Live
  <2>3. QED
    BY <2>1, <2>2 DEF TailIn, TailStep
<1>2. QED
  BY <1>1, AlwaysSound, PTL DEF Spec, YieldedGoLast

-----------------------------------------------------------------------------
(* What a tick leaves of the person's word about a task. *)

SameWord(i, j) == j.approvalEpochs = i.approvalEpochs /\ j.skipNotice = i.skipNotice

LEMMA YieldedWord ==
  ASSUME NEW p \in PolicyState, NEW t \in Task
  PROVE  SameWord(p.intents[t], YieldedIntent(p, t))
<1> DEFINE i == p.intents[t]
<1>1. PICK w : YieldedIntent(p, t) =
                 [i EXCEPT !.state = "paused", !.lease = QueueLease, !.stage = 0, !.wait = w]
  BY DEF YieldedIntent
<1>2. i \in Intent
  BY FieldsTyped
<1> HIDE DEF i
<1>3. QED
  BY <1>1, <1>2 DEF Intent, SameWord, i

LEMMA GrantedWord ==
  ASSUME NEW p \in PolicyState, NEW t \in Task
  PROVE  SameWord(p.intents[t], GrantedIntent(p, t))
<1> DEFINE i == p.intents[t]
           n == IF i.state = "announcing" THEN i.stage ELSE NoticeFor(p, t)
<1>1. i \in Intent
  BY FieldsTyped
<1>2. SameWord(i, i)
  BY DEF SameWord
<1> HIDE DEF n
<1>3. SameWord(i, Announced(i, n))
  <2>1. PICK a, x, m : Announced(i, n) = Restaged(i, a, x, m)
    BY DEF Announced, Restaged
  <2> HIDE DEF i
  <2>2. QED
    BY <1>1, <2>1 DEF Restaged, Intent, SameWord
<1>4. GrantedIntent(p, t) \in {i, Announced(i, n)}
  BY DEF GrantedIntent, n
<1>5. QED
  BY <1>2, <1>3, <1>4

LEMMA ArbitratedWord ==
  ASSUME NEW p \in PolicyState, NEW t \in Task
  PROVE  SameWord(p.intents[t], Arbitrated(p).intents[t])
<1> DEFINE i == p.intents[t]
           x == Reason(p, Granted(p), t)
           k == [i EXCEPT !.state = x, !.stage = 0]
<1>1. Arbitrated(p).intents[t] \in {i, GrantedIntent(p, t), k}
  BY DEF Arbitrated, ArbitratedFor, PolicyState
<1>2. i \in Intent
  BY FieldsTyped
<1> HIDE DEF x
<1>3. SameWord(i, k)
  <2> HIDE DEF i
  <2>1. QED
    BY <1>2 DEF Intent, SameWord
<1>4. SameWord(i, i)
  BY DEF SameWord
<1>5. QED
  BY <1>1, <1>3, <1>4, GrantedWord

\* A tick changes nothing in what the person said about a task that lives on.
LEMMA TickedWord ==
  ASSUME NEW p \in PolicyState, NEW t \in Task, IsLive(Ticked(p), t)
  PROVE  /\ IsLive(p, t) /\ SameWord(p.intents[t], Ticked(p).intents[t])
         /\ Ticked(p).intents[t].held = p.intents[t].held
<1> DEFINE a == Swept(p)
           b == Arbitrated(a)
           i == p.intents[t]
           k == a.intents[t]
           m == b.intents[t]
           j == Ticked(p).intents[t]
<1>1. a \in PolicyState /\ b \in PolicyState
  BY SweptTyped, ArbitratedTyped
<1>2. IsLive(p, t) /\ ~ Overdue(p, t)
  BY TickedTask
<1>3. SameWord(i, k) /\ k.held = i.held
  <2>1. SameWord(i, i)
    BY DEF SameWord
  <2>2. YieldedIntent(p, t).held = i.held
    BY YieldedTask
  <2>3. QED
    BY <1>2, <2>1, <2>2, SweptTask, YieldedWord
<1> HIDE DEF a
<1>4. SameWord(k, m) /\ m.held = k.held
  BY <1>1, ArbitratedWord, ArbitratedIntents
<1> HIDE DEF b
<1>5. j = m
  <2>1. j \in {m, ForgottenIntent}
    BY <1>1, TrimmedTask DEF Ticked, a, b
  <2>2. QED
    BY <2>1, BlankStates DEF IsLive, Live, Waiting
<1> HIDE DEF i, k, m, j
<1>6. SameWord(i, j) /\ j.held = i.held
  BY <1>3, <1>4, <1>5 DEF SameWord
<1>7. QED
  BY <1>2, <1>6 DEF i, j

-----------------------------------------------------------------------------
(* An offer needs no approval, and after a takeover it was announced. *)

\* The next start of t would be announced: a takeover asks for it, the desktop
\* can show it, and nobody waived it.
Warns(p, t) ==
  p.postYieldWarning /\ p.available["desktop"].notice /\ ~ p.intents[t].skipNotice

\* Task t is not about to start without a notice.
Shy(p, t) == /\ p.intents[t].state # "offered"
             /\ p.intents[t].state = "announcing" => p.intents[t].stage > 0

LEMMA WarnedNotice ==
  ASSUME NEW p \in PolicyState, NEW t \in Task, YieldsToHuman(t), Warns(p, t)
  PROVE  NoticeFor(p, t) > 0
<1> DEFINE returning == p.intents[t].yielded \/ (p.postYieldWarning /\ YieldsToHuman(t))
           least == IF returning /\ p.available["desktop"].notice THEN ReturnNotice ELSE 0
           shown(s, seconds) ==
             IF s \in Request[t].surfaces /\ p.available[s].notice THEN seconds ELSE 0
           usual == IF Request[t].disruptive
                    THEN Greater(shown("desktop", p.preferences.desktop),
                                 shown("browser", p.preferences.browser))
                    ELSE 0
<1>1. NoticeFor(p, t) = Greater(least, usual)
  BY DEF NoticeFor, Warns
<1>2. least = ReturnNotice
  BY DEF Warns
<1>3. usual \in Nat
  <2>1. p.preferences.desktop \in Nat /\ p.preferences.browser \in Nat
    BY DEF PolicyState, Preference
  <2>2. QED
    BY <2>1 DEF Greater
<1> HIDE DEF least, usual
<1>4. QED
  BY <1>1, <1>2, <1>3, ConstantsAreNatural DEF Greater

LEMMA TickedOffer ==
  ASSUME NEW p \in PolicyState, OrderedIn(p), NEW t \in Task,
         Ticked(p).intents[t].state = "offered"
  PROVE  ~ NeedsApproval(Ticked(p), t)
<1> DEFINE a == Swept(p)
           b == Arbitrated(a)
<1>1. a \in PolicyState /\ OrderedIn(a) /\ b \in PolicyState /\ Ticked(p) \in PolicyState
  BY SweptTyped, SweptOrdered, ArbitratedTyped, TickedTyped
<1>2. Settings(a) = Settings(p) /\ Settings(Ticked(p)) = Settings(p)
  BY SweptTask, TickKeepsSettings
<1> HIDE DEF a
<1>3. Ticked(p).intents[t] = b.intents[t]
  <2>1. Ticked(p).intents[t] \in {b.intents[t], ForgottenIntent}
    BY <1>1, TrimmedTask DEF Ticked, a, b
  <2>2. QED
    BY <2>1, BlankStates
<1>4. b.intents[t].state = "offered"
  BY <1>3
<1>5. SameClaim(a.intents[t], b.intents[t])
  BY <1>1, ArbitratedTask
<1>6. a.intents[t].state \in Waiting /\ t \in Granted(a)
  BY <1>1, <1>4, ArbitratedIntents DEF Waiting
<1>7. ~ NeedsApproval(a, t)
  BY <1>1, <1>6, ArbitratedStates DEF Eligible
<1>8. SameClaim(a.intents[t], Ticked(p).intents[t])
  BY <1>3, <1>5
<1>9. Settings(Ticked(p)) = Settings(a)
  BY <1>2
<1>10. QED
  BY <1>1, <1>7, <1>8, <1>9, SameReasons

\* A tick offers nothing at once that it should announce.
LEMMA TickedShy ==
  ASSUME NEW p \in PolicyState, NEW t \in Task, YieldsToHuman(t), Shy(p, t),
         IsLive(Ticked(p), t), Warns(Ticked(p), t)
  PROVE  Shy(Ticked(p), t)
<1> DEFINE a == Swept(p)
           b == Arbitrated(a)
           i == p.intents[t]
           k == a.intents[t]
           m == b.intents[t]
<1>1. a \in PolicyState /\ b \in PolicyState
  BY SweptTyped, ArbitratedTyped
<1>2. IsLive(p, t) /\ SameWord(i, Ticked(p).intents[t]) /\ ~ Overdue(p, t)
  BY TickedWord, TickedTask
<1>3. k = YieldedIntent(p, t) \/ k = i
  BY <1>2, SweptTask
<1>4. Shy(a, t) /\ SameWord(i, k)
  <2>1. YieldedIntent(p, t).state = "paused" /\ SameWord(i, YieldedIntent(p, t))
    BY YieldedTask, YieldedWord
  <2>2. SameWord(i, i)
    BY DEF SameWord
  <2>3. QED
    BY <1>3, <2>1, <2>2 DEF Shy
<1>5. Settings(a) = Settings(p) /\ Settings(Ticked(p)) = Settings(p)
  BY SweptTask, TickKeepsSettings
<1>6. Ticked(p).intents[t] = m
  <2>1. Ticked(p).intents[t] \in {m, ForgottenIntent}
    BY <1>1, TrimmedTask DEF Ticked, a, b
  <2>2. QED
    BY <2>1, BlankStates DEF IsLive, Live, Waiting
<1>7. Warns(a, t)
  <2>1. a.postYieldWarning = Ticked(p).postYieldWarning /\ a.available = Ticked(p).available
    BY <1>5, SettingsFields
  <2>2. k.skipNotice = Ticked(p).intents[t].skipNotice
    BY <1>2, <1>4 DEF SameWord
  <2> HIDE DEF a
  <2>3. QED
    BY <2>1, <2>2, Zenon DEF Warns, k
<1> HIDE DEF a
<1>8. NoticeFor(a, t) > 0
  BY <1>1, <1>7, WarnedNotice
<1>9. Shy(b, t)
  <2>1. k \in Intent /\ NoticeFor(a, t) \in Nat /\ k.stage \in Nat
    BY <1>1, FieldsTyped, NoticeTyped DEF Intent
  <2>2. CASE k.state \notin Waiting
    <3>1. m = k
      BY <1>1, <2>2, ArbitratedTask
    <3>2. QED
      BY <1>4, <3>1 DEF Shy
  <2>3. CASE k.state \in Waiting /\ t \notin Granted(a)
    <3>1. m.state \in {"paused", "waiting_for_resource", "waiting_for_approval"}
      BY <1>1, <2>3, ArbitratedIntents
    <3>2. QED
      BY <3>1 DEF Shy
  <2>4. CASE k.state \in Waiting /\ t \in Granted(a)
    <3> DEFINE n == IF k.state = "announcing" THEN k.stage ELSE NoticeFor(a, t)
    <3>1. m = Announced(k, n)
      BY <1>1, <1>4, <2>4, ArbitratedTask DEF GrantedIntent, Shy
    <3>2. n \in Nat /\ n > 0
      BY <1>4, <1>8, <2>1 DEF Shy
    <3> HIDE DEF n, k
    <3>3. m.state = "announcing" /\ m.stage = n
      BY <2>1, <3>1, <3>2, AnnouncedTask
    <3>4. QED
      BY <3>2, <3>3 DEF Shy
  <2>5. QED
    BY <2>2, <2>3, <2>4
<1>10. QED
  BY <1>6, <1>9 DEF Shy

-----------------------------------------------------------------------------
(* From one policy to the next nothing is said.                            *)

Unsaid(i) == (\A s \in Surface : i.approvalEpochs[s] = NotApproved) /\ ~ i.skipNotice

\* What the person said about t stands; about a new task nothing was said.
Words(p, q, t) ==
  /\ q.intents[t].state = "new" => p.intents[t].state = "new"
  /\ IsLive(q, t) => IF p.intents[t].state = "new" THEN Unsaid(q.intents[t])
                     ELSE IsLive(p, t) /\ SameWord(p.intents[t], q.intents[t])

\* A task that has to be announced is not hurried past its notice.
Shyly(p, q, t) ==
  YieldsToHuman(t) /\ IsLive(q, t) /\ Warns(q, t) /\ Shy(p, t) => Shy(q, t)

\* No takeover asks for more warnings than before.
NoNewSigns(p, q) ==
  (q.postYieldWarning => p.postYieldWarning) /\ q.available = p.available

SameDemands(p, q) ==
  q.approvalEpochs = p.approvalEpochs /\ q.approvalRequired = p.approvalRequired

Untold(p, q) == /\ NoNewSigns(p, q) /\ SameDemands(p, q)
                /\ \A t \in Task : Words(p, q, t) /\ Shyly(p, q, t)

LEMMA WordsGoOn ==
  ASSUME NEW p, NEW q, NEW r, NEW t, Words(p, q, t), Words(q, r, t)
  PROVE  Words(p, r, t)
BY Zenon DEF Words, SameWord, Unsaid

LEMMA ShyGoesOn ==
  ASSUME NEW p, NEW q, NEW r, NEW t,
         Shyly(p, q, t), Words(q, r, t), Shyly(q, r, t), NoNewSigns(q, r)
  PROVE  Shyly(p, r, t)
<1> SUFFICES ASSUME YieldsToHuman(t), IsLive(r, t), Warns(r, t), Shy(p, t)
             PROVE  Shy(r, t)
  BY Zenon DEF Shyly
<1>1. CASE q.intents[t].state = "new"
  <2>1. Shy(q, t)
    BY <1>1 DEF Shy
  <2>2. QED
    BY <2>1, Zenon DEF Shyly
<1>2. CASE q.intents[t].state # "new"
  <2>1. IsLive(q, t) /\ r.intents[t].skipNotice = q.intents[t].skipNotice
    BY <1>2, Zenon DEF Words, SameWord
  <2>2. Warns(q, t)
    BY <2>1, Zenon DEF NoNewSigns, Warns
  <2>3. QED
    BY <2>1, <2>2, Zenon DEF Shyly
<1>3. QED
  BY <1>1, <1>2

LEMMA UntoldGoesOn ==
  ASSUME NEW p, NEW q, NEW r, Untold(p, q), Untold(q, r)
  PROVE  Untold(p, r)
<1>1. NoNewSigns(p, r) /\ SameDemands(p, r)
  BY DEF Untold, NoNewSigns, SameDemands
<1>2. QED
  BY <1>1, WordsGoOn, ShyGoesOn, Zenon DEF Untold

LEMMA TickIsUntold ==
  ASSUME NEW p \in PolicyState
  PROVE  Ticked(p) \in PolicyState /\ Untold(p, Ticked(p))
<1>1. Ticked(p) \in PolicyState
  BY TickedTyped
<1>2. NoNewSigns(p, Ticked(p)) /\ SameDemands(p, Ticked(p))
  BY TickKeepsSettings, SettingsFields, Zenon DEF NoNewSigns, SameDemands
<1>3. ASSUME NEW t \in Task PROVE Words(p, Ticked(p), t)
  <2>1. Ticked(p).intents[t].state = "new" <=> p.intents[t].state = "new"
    BY TickedTask
  <2>2. IsLive(Ticked(p), t) => Ticked(p).intents[t].state # "new"
    BY DEF IsLive, Live, Waiting
  <2>3. QED
    BY <2>1, <2>2, TickedWord, Zenon DEF Words
<1>4. ASSUME NEW t \in Task PROVE Shyly(p, Ticked(p), t)
  BY TickedShy, Zenon DEF Shyly
<1>5. QED
  BY <1>1, <1>2, <1>3, <1>4 DEF Untold

\* An intent that keeps its word, its state and the time of its notice.
LEMMA SameIsUntold ==
  ASSUME NEW p, NEW q, NEW t, q.intents[t].state = p.intents[t].state,
         SameWord(p.intents[t], q.intents[t]),
         p.intents[t].state = "announcing" => q.intents[t].stage = p.intents[t].stage
  PROVE  Words(p, q, t) /\ Shyly(p, q, t)
<1>1. IsLive(q, t) => IsLive(p, t) /\ p.intents[t].state # "new"
  BY DEF IsLive, Live, Waiting
<1>2. Shy(p, t) => Shy(q, t)
  BY DEF Shy
<1>3. QED
  BY <1>1, <1>2, Zenon DEF Words, Shyly

LEMMA EndedIsUntold ==
  ASSUME NEW p, NEW q, NEW t, q.intents[t].state = "ended"
  PROVE  Words(p, q, t) /\ Shyly(p, q, t)
<1>1. ~ IsLive(q, t) /\ q.intents[t].state # "new"
  BY DEF IsLive, Live, Waiting
<1>2. QED
  BY <1>1, Zenon DEF Words, Shyly

LEMMA SettingIsUntold ==
  ASSUME NEW p, NEW q, q.intents = p.intents, NoNewSigns(p, q), SameDemands(p, q)
  PROVE  Untold(p, q)
<1>1. \A t \in Task : SameWord(p.intents[t], q.intents[t])
  BY DEF SameWord
<1>2. QED
  BY <1>1, SameIsUntold DEF Untold

LEMMA FinishedIsUntold ==
  ASSUME NEW p \in PolicyState, NEW T
  PROVE  /\ Finished(p, T) \in PolicyState /\ Untold(p, Finished(p, T))
         /\ \A t \in Task : /\ Finished(p, T).intents[t] \in {p.intents[t], EndedIntent}
                            /\ IsLive(Finished(p, T), t) => t \notin T
<1> DEFINE q == Finished(p, T)
<1>1. q \in PolicyState /\ NoNewSigns(p, q) /\ SameDemands(p, q)
  <2>1. PICK f : q = [p EXCEPT !.intents = f]
    BY DEF Finished
  <2>2. q \in PolicyState
    BY FinishedTyped
  <2> HIDE DEF q
  <2>3. QED
    BY <2>1, <2>2 DEF PolicyState, NoNewSigns, SameDemands
<1>2. \A t \in Task : q.intents[t] = p.intents[t] \/ q.intents[t] = EndedIntent
  BY DEF Finished, PolicyState
<1>3. \A t \in Task : IsLive(q, t) => t \notin T
  BY FinishedIsQuiet
<1> HIDE DEF q
<1>4. ASSUME NEW t \in Task PROVE Words(p, q, t) /\ Shyly(p, q, t)
  <2>1. CASE q.intents[t] = p.intents[t]
    <3>1. SameWord(p.intents[t], q.intents[t])
      BY <2>1 DEF SameWord
    <3>2. QED
      BY <2>1, <3>1, SameIsUntold
  <2>2. CASE q.intents[t] = EndedIntent
    BY <2>2, BlankStates, EndedIsUntold
  <2>3. QED
    BY <1>2, <2>1, <2>2
<1>5. QED
  BY <1>1, <1>2, <1>3, <1>4 DEF Untold, q

LEMMA ChangeIsUntold ==
  ASSUME NEW p \in PolicyState, NEW t \in Task, NEW j \in Intent,
         j.state = p.intents[t].state, SameWord(p.intents[t], j),
         p.intents[t].state = "announcing" => j.stage = p.intents[t].stage
  PROVE  /\ [p EXCEPT !.intents[t] = j] \in PolicyState
         /\ Untold(p, [p EXCEPT !.intents[t] = j])
<1> DEFINE q == [p EXCEPT !.intents[t] = j]
<1>1. q \in PolicyState
  BY IntentTyped
<1>2. /\ NoNewSigns(p, q) /\ SameDemands(p, q)
      /\ q.intents[t] = j /\ \A u \in Task \ {t} : q.intents[u] = p.intents[u]
  BY FieldsTyped DEF NoNewSigns, SameDemands, PolicyState
<1> HIDE DEF q
<1>3. ASSUME NEW u \in Task PROVE Words(p, q, u) /\ Shyly(p, q, u)
  <2>1. CASE u = t
    BY <1>2, <2>1, SameIsUntold
  <2>2. CASE u # t
    <3>1. q.intents[u] = p.intents[u] /\ SameWord(p.intents[u], q.intents[u])
      BY <1>2, <2>2 DEF SameWord
    <3>2. QED
      BY <3>1, SameIsUntold
  <2>3. QED
    BY <2>1, <2>2
<1>4. QED
  BY <1>1, <1>2, <1>3 DEF Untold, q

LEMMA QueuedIsUntold ==
  ASSUME NEW p \in PolicyState, NEW t \in Task, p.intents[t].state = "new"
  PROVE  Queued(p, t) \in PolicyState /\ Untold(p, Queued(p, t))
<1> DEFINE q == Queued(p, t)
           j == SubmittedIntent(t)
<1>1. /\ q \in PolicyState /\ NoNewSigns(p, q) /\ SameDemands(p, q)
      /\ q.intents[t] = j /\ \A u \in Task \ {t} : q.intents[u] = p.intents[u]
  <2>1. PICK L : q = [p EXCEPT !.intents[t] = j, !.front[t] = L]
    BY DEF Queued
  <2>2. q \in PolicyState
    BY QueuedTyped
  <2> HIDE DEF q, j
  <2>3. q.intents = [p.intents EXCEPT ![t] = j] /\ NoNewSigns(p, q) /\ SameDemands(p, q)
    BY <2>1 DEF PolicyState, NoNewSigns, SameDemands
  <2>4. QED
    BY <2>2, <2>3, FieldsTyped
<1>2. j.state = "waiting_for_resource" /\ Unsaid(j)
  BY DEF SubmittedIntent, BlankIntent, Unsaid
<1> HIDE DEF q, j
<1>3. ASSUME NEW u \in Task PROVE Words(p, q, u) /\ Shyly(p, q, u)
  <2>1. CASE u = t
    <3>1. q.intents[u].state # "new" /\ Shy(q, u)
      BY <1>1, <1>2, <2>1 DEF Shy
    <3>2. QED
      BY <1>1, <1>2, <2>1, <3>1, Zenon DEF Words, Shyly
  <2>2. CASE u # t
    <3>1. q.intents[u] = p.intents[u] /\ SameWord(p.intents[u], q.intents[u])
      BY <1>1, <2>2 DEF SameWord
    <3>2. QED
      BY <3>1, SameIsUntold
  <2>3. QED
    BY <2>1, <2>2
<1>4. QED
  BY <1>1, <1>3 DEF Untold, q

-----------------------------------------------------------------------------
(* The steps that say nothing: what a task may start with stays what it was, *)
(* and only the click on its notice hurries it.                              *)

Mute(p, q) ==
  /\ SameDemands(p, q)
  /\ \A t \in Task : Words(p, q, t) /\ (Shyly(p, q, t) \/ StartNow(t))

LEMMA UntoldIsMute ==
  ASSUME NEW p, NEW q, Untold(p, q)
  PROVE  Mute(p, q)
BY Zenon DEF Untold, Mute

\* Something happens without a word, and it ticks.
LEMMA TickAfterIsMute ==
  ASSUME NEW p, NEW q \in PolicyState, Untold(p, q)
  PROVE  Mute(p, Ticked(q))
<1>1. Untold(p, Ticked(q))
  BY TickIsUntold, UntoldGoesOn
<1>2. QED
  BY <1>1, UntoldIsMute

LEMMA SettingIsMute ==
  ASSUME NEW p \in PolicyState, NEW q \in PolicyState,
         q.intents = p.intents, NoNewSigns(p, q), SameDemands(p, q)
  PROVE  Mute(p, q) /\ Mute(p, Ticked(q))
<1>1. Untold(p, q)
  BY SettingIsUntold
<1>2. QED
  BY <1>1, UntoldIsMute, TickAfterIsMute

\* A call with an opening tick.
LEMMA AfterTickIsMute ==
  ASSUME NEW p \in PolicyState, NEW q \in PolicyState, Untold(Ticked(p), q)
  PROVE  Mute(p, q) /\ Mute(p, Ticked(q))
<1>1. Untold(p, q)
  BY TickIsUntold, UntoldGoesOn
<1>2. QED
  BY <1>1, UntoldIsMute, TickAfterIsMute

LEMMA ClocksAreMute ==
  ASSUME NEW p \in PolicyState, NEW t \in Task, NEW j \in Intent,
         j.state = Ticked(p).intents[t].state, SameWord(Ticked(p).intents[t], j),
         j.state = "announcing" => j.stage = Ticked(p).intents[t].stage
  PROVE  LET q == [Ticked(p) EXCEPT !.intents[t] = j]
         IN  Mute(p, q) /\ Mute(p, Ticked(q))
<1> DEFINE a == Ticked(p)
           q == [a EXCEPT !.intents[t] = j]
<1>1. a \in PolicyState
  BY TickedTyped
<1>2. j.state = a.intents[t].state /\ SameWord(a.intents[t], j)
  OBVIOUS
<1>3. a.intents[t].state = "announcing" => j.stage = a.intents[t].stage
  OBVIOUS
<1> HIDE DEF a
<1>4. q \in PolicyState /\ Untold(a, q)
  BY <1>1, <1>2, <1>3, ChangeIsUntold
<1> HIDE DEF q
<1>5. Mute(p, q) /\ Mute(p, Ticked(q))
  BY <1>4, AfterTickIsMute DEF a
<1>6. QED
  BY <1>5 DEF q, a

LEMMA TaskStepIsMute ==
  ASSUME policy \in PolicyState, NEW t \in Task,
         \/ Submit(t) \/ Heartbeat(t) \/ Cancel(t) \/ Deny(t)
         \/ \E d \in Renewals : Renew(t, d)
         \/ \E d \in Delays : Postpone(t, d)
  PROVE  Mute(policy, policy')
<1> DEFINE p == Ticked(policy)
           i == p.intents[t]
<1>1. p \in PolicyState
  BY TickedTyped
<1>2. i \in Intent
  BY <1>1, FieldsTyped
<1> HIDE DEF p
<1>3. CASE Submit(t)
  <2>1. policy.intents[t].state = "new" /\ policy' = Ticked(Queued(p, t))
    BY <1>3 DEF Submit, p
  <2>2. p.intents[t].state = "new"
    BY <2>1, TickedTask DEF p
  <2>3. Queued(p, t) \in PolicyState /\ Untold(p, Queued(p, t))
    BY <1>1, <2>2, QueuedIsUntold
  <2>4. QED
    BY <2>1, <2>3, AfterTickIsMute DEF p
<1>4. CASE Heartbeat(t)
  <2> DEFINE x == IF IsActive(p, t) THEN ActiveLease ELSE QueueLease
             j == [i EXCEPT !.lease = x]
  <2>1. policy' = [p EXCEPT !.intents[t] = j]
    BY <1>4 DEF Heartbeat, p
  <2>2. x \in Nat
    BY ConstantsAreNatural
  <2> HIDE DEF x, i
  <2>3. j \in Intent /\ j.state = i.state /\ SameWord(i, j) /\ j.stage = i.stage
    BY <1>2, <2>2 DEF Intent, SameWord
  <2> HIDE DEF j
  <2>4. QED
    BY <2>1, <2>3, ClocksAreMute DEF p, i
<1>5. CASE Cancel(t) \/ Deny(t)
  <2>1. policy' = Ticked(Finished(p, {t}))
    BY <1>5 DEF Cancel, Deny, p
  <2>2. Finished(p, {t}) \in PolicyState /\ Untold(p, Finished(p, {t}))
    BY <1>1, FinishedIsUntold
  <2>3. QED
    BY <2>1, <2>2, AfterTickIsMute DEF p
<1>6. ASSUME NEW d \in Renewals, Renew(t, d) PROVE Mute(policy, policy')
  <2> DEFINE left == WithinConsent(p, t, Greater(i.stage, d))
             k == Greater(i.task, left)
             j == [i EXCEPT !.stage = left, !.task = k, !.lease = ActiveLease]
  <2>1. policy' = [p EXCEPT !.intents[t] = j] /\ i.state = "active"
    BY <1>6 DEF Renew, Authorized, IsActive, p
  <2>2. left \in Nat /\ k \in Nat
    <3>1. i.stage \in Nat /\ i.task \in Nat /\ d \in Nat
      BY <1>2, InputsAreTyped DEF Intent
    <3> HIDE DEF i
    <3>2. Greater(i.stage, d) \in Nat
      BY <3>1, SmallerTyped
    <3>3. left \in Nat
      BY <1>1, <3>2, ConsentTyped
    <3> HIDE DEF left
    <3>4. QED
      BY <3>1, <3>3, SmallerTyped
  <2> HIDE DEF left, k, i
  <2>3. j \in Intent /\ j.state = i.state /\ SameWord(i, j)
    BY <1>2, <2>2, ConstantsAreNatural DEF Intent, SameWord
  <2> HIDE DEF j
  <2>4. j.state # "announcing"
    BY <2>1, <2>3
  <2>5. QED
    BY <2>1, <2>3, <2>4, ClocksAreMute DEF p, i
<1>7. ASSUME NEW d \in Delays, Postpone(t, d) PROVE Mute(policy, policy')
  <2> DEFINE j == [i EXCEPT !.notBefore = d]
  <2>1. policy' = Ticked([p EXCEPT !.intents[t] = j])
    BY <1>7 DEF Postpone, p
  <2>2. d \in Nat
    BY InputsAreTyped
  <2> HIDE DEF i
  <2>3. j \in Intent /\ j.state = i.state /\ SameWord(i, j) /\ j.stage = i.stage
    BY <1>2, <2>2 DEF Intent, SameWord
  <2> HIDE DEF j
  <2>4. QED
    BY <2>1, <2>3, ClocksAreMute DEF p, i
<1>8. QED
  BY <1>3, <1>4, <1>5, <1>6, <1>7

\* startNow() hurries its own task and no other.
LEMMA StartNowIsMute ==
  ASSUME policy \in PolicyState, NEW t \in Task, StartNow(t)
  PROVE  Mute(policy, policy')
<1> DEFINE p == Ticked(policy)
           a == Acknowledged(p, t)
           j == [a.intents[t] EXCEPT !.stage = 0]
           r == [a EXCEPT !.intents[t] = j]
<1>1. p \in PolicyState /\ Untold(policy, p)
  BY TickIsUntold
<1> HIDE DEF p
<1>2. a \in PolicyState /\ Untold(policy, a)
  <2> DEFINE q == [p EXCEPT !.humanCooldown = 0]
  <2>1. q \in PolicyState /\ q.intents = p.intents /\ NoNewSigns(p, q) /\ SameDemands(p, q)
    BY <1>1 DEF PolicyState, NoNewSigns, SameDemands
  <2>2. a = p \/ a = Ticked(q)
    BY DEF Acknowledged
  <2> HIDE DEF q
  <2>3. Untold(policy, q)
    BY <1>1, <2>1, SettingIsUntold, UntoldGoesOn
  <2>4. Ticked(q) \in PolicyState /\ Untold(policy, Ticked(q))
    BY <2>1, <2>3, TickIsUntold, UntoldGoesOn
  <2>5. QED
    BY <1>1, <2>2, <2>4
<1>3. policy' = a \/ policy' = Ticked(r)
  BY DEF StartNow, p
<1> HIDE DEF a
<1>4. j \in Intent /\ j.state = a.intents[t].state /\ SameWord(a.intents[t], j)
  <2>1. a.intents[t] \in Intent
    BY <1>2, FieldsTyped
  <2>2. QED
    BY <2>1 DEF Intent, SameWord
<1> HIDE DEF j
<1>5. /\ r \in PolicyState /\ NoNewSigns(a, r) /\ SameDemands(a, r)
      /\ r.intents[t] = j /\ \A u \in Task \ {t} : r.intents[u] = a.intents[u]
  <2>1. r \in PolicyState
    BY <1>2, <1>4, IntentTyped
  <2>2. NoNewSigns(a, r) /\ SameDemands(a, r)
    BY <1>2 DEF NoNewSigns, SameDemands, PolicyState
  <2>3. QED
    BY <1>2, <2>1, <2>2, FieldsTyped
<1> HIDE DEF r
<1>6. Words(a, r, t)
  <2>1. IsLive(r, t) => IsLive(a, t) /\ a.intents[t].state # "new"
    BY <1>4, <1>5 DEF IsLive, Live, Waiting
  <2>2. QED
    BY <1>4, <1>5, <2>1, Zenon DEF Words
<1>7. \A u \in Task \ {t} : Words(a, r, u) /\ Shyly(a, r, u)
  <2>1. \A u \in Task \ {t} : SameWord(a.intents[u], r.intents[u])
    BY <1>5 DEF SameWord
  <2>2. QED
    BY <1>5, <2>1, SameIsUntold
<1>8. CASE policy' = a
  BY <1>2, <1>8, UntoldIsMute
<1>9. CASE policy' = Ticked(r)
  <2>1. Untold(r, Ticked(r))
    BY <1>5, TickIsUntold
  <2>2. SameDemands(policy, Ticked(r))
    BY <1>2, <1>5, <2>1 DEF Untold, SameDemands
  <2>3. NoNewSigns(a, Ticked(r))
    BY <1>5, <2>1 DEF Untold, NoNewSigns
  <2>4. \A u \in Task : Words(a, Ticked(r), u)
    BY <1>6, <1>7, <2>1, WordsGoOn DEF Untold
  <2>5. \A u \in Task \ {t} : Shyly(a, Ticked(r), u)
    BY <1>7, <2>1, ShyGoesOn DEF Untold
  <2>6. \A u \in Task : Words(policy, Ticked(r), u)
    BY <1>2, <2>4, WordsGoOn DEF Untold
  <2>7. \A u \in Task \ {t} : Shyly(policy, Ticked(r), u)
    BY <1>2, <2>3, <2>4, <2>5, ShyGoesOn DEF Untold
  <2>8. QED
    BY <1>9, <2>2, <2>6, <2>7 DEF Mute
<1>10. QED
  BY <1>3, <1>8, <1>9

LEMMA SurfaceStepIsMute ==
  ASSUME policy \in PolicyState, policy' \in PolicyState,
         \/ \E c \in PreferenceChoices : SetPreferences(c)
         \/ \E d \in NoticeChoices : Notice(d)
         \/ \E s \in Surface : \E v \in VisibilityChoices[s] : Ready(s, v)
         \/ \E b \in InputChoices : InputReady(b)
         \/ \E c \in Scope, r \in PauseReason : Resume(c, r)
         \/ \E c \in Scope, r \in PauseReason, d \in PauseTimes : Pause(c, r, d)
         \/ \E c \in Scope : ResumeTakeover(c) \/ ResumeDeferral(c)
         \/ \E t \in Task : \E d \in DeferTimes : Defer(t, d)
  PROVE  Mute(policy, policy')
<1>1. ASSUME NEW c \in PreferenceChoices, SetPreferences(c) PROVE Mute(policy, policy')
  <2>1. policy'.intents = policy.intents /\ NoNewSigns(policy, policy') /\ SameDemands(policy, policy')
    BY <1>1 DEF SetPreferences, PolicyState, NoNewSigns, SameDemands
  <2>2. QED
    BY <2>1, SettingIsMute
<1>2. ASSUME NEW d \in NoticeChoices, Notice(d) PROVE Mute(policy, policy')
  <2>1. policy'.intents = policy.intents /\ NoNewSigns(policy, policy') /\ SameDemands(policy, policy')
    BY <1>2 DEF Notice, PolicyState, NoNewSigns, SameDemands
  <2>2. QED
    BY <2>1, SettingIsMute
\* The desktop can show notices again: what it announces now was not announced before.
<1>3. ASSUME NEW s \in Surface, NEW v \in VisibilityChoices[s], Ready(s, v)
      PROVE  Mute(policy, policy')
  <2> DEFINE q == [policy EXCEPT !.available[s] = v]
  <2>1. v \in [ready : BOOLEAN, notice : BOOLEAN]
    BY InputsAreTyped
  <2>2. q \in PolicyState /\ q.intents = policy.intents /\ SameDemands(policy, q)
    BY <2>1 DEF PolicyState, SameDemands
  <2>3. policy' = Ticked(q)
    BY <1>3 DEF Ready
  <2> HIDE DEF q
  <2>4. Untold(q, policy')
    BY <2>2, <2>3, TickIsUntold
  <2>5. \A t \in Task : Words(policy, policy', t) /\ Shyly(policy, policy', t)
    BY <2>2, <2>4 DEF Untold, Words, Shyly, IsLive, Shy
  <2>6. SameDemands(policy, policy')
    BY <2>2, <2>4 DEF Untold, SameDemands
  <2>7. QED
    BY <2>5, <2>6 DEF Mute
<1>4. ASSUME NEW b \in InputChoices, InputReady(b) PROVE Mute(policy, policy')
  <2> DEFINE q == [policy EXCEPT !.inputReady = b]
  <2>1. q \in PolicyState /\ q.intents = policy.intents /\ NoNewSigns(policy, q) /\ SameDemands(policy, q)
    BY InputsAreTyped DEF PolicyState, NoNewSigns, SameDemands
  <2>2. policy' = Ticked(q)
    BY <1>4 DEF InputReady
  <2> HIDE DEF q
  <2>3. QED
    BY <2>1, <2>2, SettingIsMute
<1>5. ASSUME NEW c \in Scope, NEW r \in PauseReason, NEW d \in Nat,
             policy' = Ticked([policy EXCEPT !.pauses[c][r] = d])
      PROVE  Mute(policy, policy')
  <2> DEFINE x == [policy.pauses[c] EXCEPT ![r] = d]
             q == [policy EXCEPT !.pauses[c] = x]
  <2>1. x \in [PauseReason -> Nat]
    BY DEF PolicyState
  <2>2. policy' = Ticked(q)
    BY <1>5
  <2> HIDE DEF x
  <2>3. q \in PolicyState /\ q.intents = policy.intents /\ NoNewSigns(policy, q) /\ SameDemands(policy, q)
    BY <2>1 DEF PolicyState, NoNewSigns, SameDemands
  <2> HIDE DEF q
  <2>4. QED
    BY <2>2, <2>3, SettingIsMute
<1>6. ASSUME NEW c \in Scope, ResumeTakeover(c) PROVE Mute(policy, policy')
  <2> DEFINE rest == IF c = "all" THEN {} ELSE policy.takeoverSurfaces \ {c}
             h == IF rest = {} THEN 0 ELSE policy.humanCooldown
             q == [policy EXCEPT !.takeoverSurfaces = rest, !.humanCooldown = h]
  <2>1. rest \in SUBSET Surface /\ h \in Nat
    BY DEF PolicyState
  <2>2. policy' = Ticked(q)
    BY <1>6 DEF ResumeTakeover
  <2> HIDE DEF rest, h
  <2>3. q \in PolicyState /\ q.intents = policy.intents /\ NoNewSigns(policy, q) /\ SameDemands(policy, q)
    BY <2>1 DEF PolicyState, NoNewSigns, SameDemands
  <2> HIDE DEF q
  <2>4. QED
    BY <2>2, <2>3, SettingIsMute
<1>7. ASSUME NEW c \in Scope, ResumeDeferral(c) PROVE Mute(policy, policy')
  <2> DEFINE e == [r \in Resource |-> [s \in Surface |->
                     IF c \in {"all", s} THEN 0 ELSE policy.deferrals[r][s]]]
             q == [policy EXCEPT !.deferrals = e]
  <2>1. e \in [Resource -> [Surface -> Nat]]
    BY DEF PolicyState
  <2>2. policy' = Ticked(q)
    BY <1>7 DEF ResumeDeferral
  <2> HIDE DEF e
  <2>3. q \in PolicyState /\ q.intents = policy.intents /\ NoNewSigns(policy, q) /\ SameDemands(policy, q)
    BY <2>1 DEF PolicyState, NoNewSigns, SameDemands
  <2> HIDE DEF q
  <2>4. QED
    BY <2>2, <2>3, SettingIsMute
<1>8. ASSUME NEW t \in Task, NEW d \in DeferTimes, Defer(t, d) PROVE Mute(policy, policy')
  <2> DEFINE p == Ticked(policy)
             e == [r \in Resource |-> [s \in Surface |->
                     IF r \in Resources[t] /\ s \in Request[t].surfaces THEN d ELSE p.deferrals[r][s]]]
             q == [p EXCEPT !.deferrals = e]
  <2>1. p \in PolicyState
    BY TickedTyped
  <2> HIDE DEF p
  <2>2. e \in [Resource -> [Surface -> Nat]]
    BY <2>1, InputsAreTyped DEF PolicyState
  <2>3. policy' = Ticked(q)
    BY <1>8 DEF Defer, p
  <2> HIDE DEF e
  <2>4. q \in PolicyState /\ q.intents = p.intents /\ NoNewSigns(p, q) /\ SameDemands(p, q)
    BY <2>1, <2>2 DEF PolicyState, NoNewSigns, SameDemands
  <2> HIDE DEF q
  <2>5. QED
    BY <2>3, <2>4, SettingIsUntold, AfterTickIsMute DEF p
<1>9. QED
  <2>1. \A d \in PauseTimes : d \in Nat
    BY InputsAreTyped
  <2>2. QED
    BY <2>1, <1>1, <1>2, <1>3, <1>4, <1>5, <1>6, <1>7, <1>8 DEF Pause, Resume

LEMMA ChannelStepIsMute ==
  ASSUME policy \in PolicyState, NEW o \in Owner, Open(o) \/ Close(o)
  PROVE  Mute(policy, policy')
<1>1. CASE Open(o)
  <2>1. policy' = [policy EXCEPT !.owners[o] = "open"]
    BY <1>1 DEF Open
  <2>2. /\ policy' \in PolicyState /\ policy'.intents = policy.intents
        /\ NoNewSigns(policy, policy') /\ SameDemands(policy, policy')
    BY <2>1 DEF PolicyState, NoNewSigns, SameDemands
  <2>3. QED
    BY <2>2, SettingIsMute
<1>2. CASE Close(o)
  <2> DEFINE mine == {t \in Task : Request[t].owner = o}
             f == Finished(policy, mine)
             q == [f EXCEPT !.owners[o] = "closed"]
  <2>1. f \in PolicyState /\ Untold(policy, f)
    BY FinishedIsUntold
  <2>2. policy' = Ticked(q)
    BY <1>2 DEF Close
  <2> HIDE DEF f
  <2>3. q \in PolicyState /\ q.intents = f.intents /\ NoNewSigns(f, q) /\ SameDemands(f, q)
    BY <2>1 DEF PolicyState, NoNewSigns, SameDemands
  <2> HIDE DEF q
  <2>4. Untold(policy, q)
    BY <2>1, <2>3, SettingIsUntold, UntoldGoesOn
  <2>5. QED
    BY <2>2, <2>3, <2>4, TickAfterIsMute
<1>3. QED
  BY <1>1, <1>2

-----------------------------------------------------------------------------
(* What the policy remembers of the person's word is what the history says. *)

\* An approval that still counts is one that the history knows of.
ApprovedIn(p, A) ==
  \A t \in Task : IsLive(p, t) => \A s \in Request[t].surfaces :
    /\ p.intents[t].approvalEpochs[s] <= p.approvalEpochs[s]
    /\ p.intents[t].approvalEpochs[s] = p.approvalEpochs[s] => t \in A[s]

\* So is a waived warning of a task that yields to the person.
WelcomeIn(p, W) ==
  \A t \in Task : YieldsToHuman(t) /\ IsLive(p, t) /\ p.intents[t].skipNotice => t \in W

Remembered(p, A, G, W) ==
  ApprovedIn(p, A) /\ WelcomeIn(p, W) /\ G \subseteq p.approvalRequired

LEMMA WordsAreRemembered ==
  ASSUME NEW p, NEW q \in PolicyState, SameDemands(p, q),
         \A t \in Task : Words(p, q, t),
         NEW A, NEW G, NEW W, Remembered(p, A, G, W)
  PROVE  Remembered(q, A, G, W)
<1>1. ASSUME NEW t \in Task, IsLive(q, t), NEW s \in Request[t].surfaces
      PROVE  /\ q.intents[t].approvalEpochs[s] <= q.approvalEpochs[s]
             /\ q.intents[t].approvalEpochs[s] = q.approvalEpochs[s] => t \in A[s]
  <2>1. CASE p.intents[t].state = "new"
    <3>1. q.intents[t].approvalEpochs[s] = NotApproved
      BY <1>1, <2>1, RequestTyped, Zenon DEF Words, Unsaid
    <3>2. q.approvalEpochs[s] \in Nat
      BY <1>1, RequestTyped DEF PolicyState
    <3>3. QED
      BY <3>1, <3>2 DEF NotApproved
  <2>2. CASE p.intents[t].state # "new"
    <3>1. IsLive(p, t) /\ q.intents[t].approvalEpochs = p.intents[t].approvalEpochs
      BY <1>1, <2>2, Zenon DEF Words, SameWord
    <3>2. QED
      BY <3>1 DEF Remembered, ApprovedIn, SameDemands
  <2>3. QED
    BY <2>1, <2>2
<1>2. ApprovedIn(q, A)
  BY <1>1 DEF ApprovedIn
<1>3. WelcomeIn(q, W)
  BY Zenon DEF Remembered, WelcomeIn, Words, SameWord, Unsaid
<1>4. QED
  BY <1>2, <1>3 DEF Remembered, SameDemands

LEMMA TickRemembers ==
  ASSUME NEW p \in PolicyState, NEW A, NEW G, NEW W, Remembered(p, A, G, W)
  PROVE  Remembered(Ticked(p), A, G, W)
<1>1. Ticked(p) \in PolicyState /\ Untold(p, Ticked(p))
  BY TickIsUntold
<1>2. QED
  BY <1>1, WordsAreRemembered DEF Untold

\* On the surfaces S an approval is demanded anew, and no task has one yet.
Demands(p, q, S) ==
  /\ \A s \in Surface : q.approvalEpochs[s] = IF s \in S THEN p.approvalEpochs[s] + 1
                                               ELSE p.approvalEpochs[s]
  /\ \A t \in Task : IsLive(q, t) =>
       IsLive(p, t) /\ q.intents[t].approvalEpochs = p.intents[t].approvalEpochs

\* The approvals of A that B does not have were for surfaces of S.
LosesOnly(A, B, S) == \A s \in Surface \ S : A[s] \subseteq B[s]

\* Where an approval is demanded anew, none that was given before counts.
LEMMA DemandedAnew ==
  ASSUME NEW p \in PolicyState, NEW q, NEW S, NEW A, NEW B,
         ApprovedIn(p, A), Demands(p, q, S), LosesOnly(A, B, S)
  PROVE  ApprovedIn(q, B)
<1> SUFFICES ASSUME NEW t \in Task, IsLive(q, t), NEW s \in Request[t].surfaces
             PROVE  /\ q.intents[t].approvalEpochs[s] <= q.approvalEpochs[s]
                    /\ q.intents[t].approvalEpochs[s] = q.approvalEpochs[s] => t \in B[s]
  BY DEF ApprovedIn
<1>1. s \in Surface /\ IsLive(p, t) /\ q.intents[t].approvalEpochs = p.intents[t].approvalEpochs
  BY RequestTyped DEF Demands
<1>2. p.approvalEpochs[s] \in Nat /\ p.intents[t].approvalEpochs[s] \in Int
  <2>1. p.intents[t] \in Intent
    BY FieldsTyped
  <2>2. QED
    BY <1>1, <2>1 DEF PolicyState, Intent
<1>3. /\ p.intents[t].approvalEpochs[s] <= p.approvalEpochs[s]
      /\ p.intents[t].approvalEpochs[s] = p.approvalEpochs[s] => t \in A[s]
  BY <1>1 DEF ApprovedIn
<1>4. CASE s \in S
  <2>1. q.approvalEpochs[s] = p.approvalEpochs[s] + 1
    BY <1>1, <1>4 DEF Demands
  <2>2. QED
    BY <1>1, <1>2, <1>3, <2>1
<1>5. CASE s \notin S
  <2>1. q.approvalEpochs[s] = p.approvalEpochs[s] /\ A[s] \subseteq B[s]
    BY <1>1, <1>5 DEF Demands, LosesOnly
  <2>2. QED
    BY <1>1, <1>3, <2>1
<1>6. QED
  BY <1>4, <1>5

-----------------------------------------------------------------------------
(* What the person says about one task.                                    *)

LEMMA ApprovedFields ==
  ASSUME NEW p \in PolicyState, NEW t \in Task, NEW d \in Nat
  PROVE  LET q == Approved(p, t, d)
         IN  /\ q \in PolicyState /\ NoNewSigns(p, q) /\ SameDemands(p, q)
             /\ \A u \in Task \ {t} : q.intents[u] = p.intents[u]
             /\ q.intents[t].state = p.intents[t].state
             /\ \A s \in Surface \ Request[t].surfaces :
                  q.intents[t].approvalEpochs[s] = p.intents[t].approvalEpochs[s]
             /\ \A s \in Request[t].surfaces :
                  q.intents[t].approvalEpochs[s] = p.approvalEpochs[s]
<1> DEFINE mine == Request[t].surfaces
           i == p.intents[t]
           a == [s \in Surface |-> IF s \in mine THEN p.config[s].generation ELSE i.approvals[s]]
           e == [s \in Surface |-> IF s \in mine THEN p.approvalEpochs[s] ELSE i.approvalEpochs[s]]
           j == [i EXCEPT !.approvals = a, !.approvalEpochs = e,
                          !.held = FALSE, !.notBefore = d, !.skipNotice = TRUE]
           q == [p EXCEPT !.intents[t] = j]
           r == Approved(p, t, d)
<1>1. i \in Intent /\ r \in PolicyState
  BY FieldsTyped, ApprovedTyped
<1>2. r \in {q, [q EXCEPT !.humanCooldown = 0]}
  BY DEF Approved
<1>3. /\ \A s \in Surface \ mine : e[s] = i.approvalEpochs[s]
      /\ \A s \in mine : e[s] = p.approvalEpochs[s]
  BY RequestTyped
<1> HIDE DEF a, e, i, r
<1>4. j.state = i.state /\ j.approvalEpochs = e
  BY <1>1 DEF Intent
<1> HIDE DEF j
<1>5. /\ r.intents = [p.intents EXCEPT ![t] = j]
      /\ NoNewSigns(p, r) /\ SameDemands(p, r)
  BY <1>2 DEF PolicyState, NoNewSigns, SameDemands
<1>6. r.intents[t] = j /\ \A u \in Task \ {t} : r.intents[u] = p.intents[u]
  BY <1>5, FieldsTyped
<1>7. QED
  BY <1>1, <1>3, <1>4, <1>5, <1>6 DEF r, i

LEMMA SameTaskIsUntold ==
  ASSUME NEW p, NEW q, NEW t, q.intents[t] = p.intents[t]
  PROVE  Words(p, q, t) /\ Shyly(p, q, t)
<1>1. SameWord(p.intents[t], q.intents[t])
  BY DEF SameWord
<1>2. QED
  BY <1>1, SameIsUntold

\* After its opening tick a call does no more to t, but for its closing tick.
LEMMA ShyBetweenTicks ==
  ASSUME NEW p \in PolicyState, NEW q \in PolicyState, NoNewSigns(Ticked(p), q),
         NEW t \in Task, Words(Ticked(p), q, t), Shyly(Ticked(p), q, t)
  PROVE  Shyly(p, q, t) /\ Shyly(p, Ticked(q), t)
<1>1. Untold(p, Ticked(p)) /\ Untold(q, Ticked(q))
  BY TickIsUntold
<1>2. Shyly(p, q, t)
  BY <1>1, ShyGoesOn DEF Untold
<1>3. QED
  BY <1>1, <1>2, ShyGoesOn DEF Untold

LEMMA ApproveIsHeard ==
  ASSUME policy \in PolicyState, Remembered(policy, approvedFor, gated, welcomed),
         NEW t \in Task, NEW d \in Delays, ApproveH(t, d)
  PROVE  /\ Remembered(policy', approvedFor', gated', welcomed')
         /\ \A u \in Task : Shyly(policy, policy', u) \/ u \in welcomed'
<1> DEFINE p == Ticked(policy)
           q == Approved(p, t, d)
<1>1. p \in PolicyState /\ Remembered(p, approvedFor, gated, welcomed) /\ d \in Nat
  BY TickedTyped, TickRemembers, InputsAreTyped
<1>2. policy' = Ticked(q)
  BY DEF ApproveH, Approve
<1> HIDE DEF p
<1>3. /\ q \in PolicyState /\ NoNewSigns(p, q) /\ SameDemands(p, q)
      /\ \A u \in Task \ {t} : q.intents[u] = p.intents[u]
      /\ q.intents[t].state = p.intents[t].state
      /\ \A s \in Request[t].surfaces : q.intents[t].approvalEpochs[s] = p.approvalEpochs[s]
  BY <1>1, ApprovedFields
<1> HIDE DEF q
<1>4. /\ \A s \in Surface : approvedFor[s] \subseteq approvedFor'[s]
      /\ \A s \in Request[t].surfaces : t \in approvedFor'[s]
      /\ welcomed' = welcomed \union {t} /\ gated' = gated
  BY RequestTyped DEF ApproveH
<1>5. ApprovedIn(q, approvedFor')
  <2>1. \A u \in Task \ {t} : IsLive(q, u) => IsLive(p, u)
    BY <1>3 DEF IsLive
  <2>2. \A s \in Request[t].surfaces : p.approvalEpochs[s] \in Nat
    BY <1>1, RequestTyped DEF PolicyState
  <2>3. ASSUME NEW u \in Task, IsLive(q, u), NEW s \in Request[u].surfaces
        PROVE  /\ q.intents[u].approvalEpochs[s] <= q.approvalEpochs[s]
               /\ q.intents[u].approvalEpochs[s] = q.approvalEpochs[s] => u \in approvedFor'[s]
    <3>1. CASE u = t
      BY <1>3, <1>4, <2>2, <2>3, <3>1 DEF SameDemands
    <3>2. CASE u # t
      <4>1. s \in Surface
        BY RequestTyped
      <4>2. /\ p.intents[u].approvalEpochs[s] <= p.approvalEpochs[s]
            /\ p.intents[u].approvalEpochs[s] = p.approvalEpochs[s] => u \in approvedFor[s]
        BY <1>1, <2>1, <2>3, <3>2 DEF Remembered, ApprovedIn
      <4>3. QED
        BY <1>3, <1>4, <3>2, <4>1, <4>2 DEF SameDemands
    <3>3. QED
      BY <3>1, <3>2
  <2>4. QED
    BY <2>3 DEF ApprovedIn
<1>6. WelcomeIn(q, welcomed')
  BY <1>1, <1>3, <1>4 DEF WelcomeIn, Remembered, IsLive
<1>7. Remembered(q, approvedFor', gated', welcomed')
  BY <1>1, <1>3, <1>4, <1>5, <1>6 DEF Remembered, SameDemands
<1>8. Remembered(policy', approvedFor', gated', welcomed')
  BY <1>2, <1>3, <1>7, TickRemembers
<1>9. \A u \in Task \ {t} : Shyly(policy, policy', u)
  BY <1>2, <1>3, SameTaskIsUntold, ShyBetweenTicks DEF p
<1>10. QED
  BY <1>4, <1>8, <1>9

LEMMA HeldFields ==
  ASSUME NEW p \in PolicyState, NEW t \in Task
  PROVE  LET q == HeldBy(p, t)
             S == Request[t].surfaces
         IN  /\ q \in PolicyState /\ NoNewSigns(p, q)
             /\ q.approvalRequired = p.approvalRequired \union S
             /\ \A s \in Surface : q.approvalEpochs[s] = IF s \in S THEN p.approvalEpochs[s] + 1
                                                         ELSE p.approvalEpochs[s]
             /\ \A u \in Task \ {t} : q.intents[u] = p.intents[u]
             /\ q.intents[t].state = p.intents[t].state
             /\ q.intents[t].approvalEpochs = p.intents[t].approvalEpochs
             /\ q.intents[t].held /\ ~ q.intents[t].skipNotice
<1> DEFINE j == [p.intents[t] EXCEPT !.held = TRUE, !.skipNotice = FALSE]
           h == [p EXCEPT !.intents[t] = j]
           q == HeldBy(p, t)
           S == Request[t].surfaces
           e == [s \in Surface |-> IF s \in S THEN p.approvalEpochs[s] + 1 ELSE p.approvalEpochs[s]]
<1>1. /\ j \in Intent /\ j.state = p.intents[t].state
      /\ j.approvalEpochs = p.intents[t].approvalEpochs
      /\ j.held = TRUE /\ j.skipNotice = FALSE
  <2>1. p.intents[t] \in Intent
    BY FieldsTyped
  <2>2. QED
    BY <2>1 DEF Intent
<1>2. q = ApprovalRequired(h, S)
  BY DEF HeldBy, PolicyState
<1> HIDE DEF j
<1>3. h \in PolicyState
  BY <1>1, IntentTyped
<1>4. /\ h.intents = [p.intents EXCEPT ![t] = j]
      /\ h.approvalRequired = p.approvalRequired /\ h.approvalEpochs = p.approvalEpochs
      /\ NoNewSigns(p, h)
  BY DEF PolicyState, NoNewSigns
<1> HIDE DEF h
<1>5. /\ q.intents = h.intents /\ q.approvalRequired = p.approvalRequired \union S
      /\ q.approvalEpochs = e /\ NoNewSigns(h, q)
  BY <1>2, <1>3, <1>4 DEF ApprovalRequired, PolicyState, NoNewSigns
<1>6. q \in PolicyState
  BY HeldKeeps
<1> HIDE DEF q
<1>7. q.intents[t] = j /\ \A u \in Task \ {t} : q.intents[u] = p.intents[u]
  BY <1>4, <1>5, FieldsTyped
<1>8. NoNewSigns(p, q)
  BY <1>4, <1>5 DEF NoNewSigns
<1>9. q.intents[t].held /\ ~ q.intents[t].skipNotice
  BY <1>1, <1>7, Zenon
<1>10. QED
  BY <1>1, <1>5, <1>6, <1>7, <1>8, <1>9 DEF q

\* A hold demands a new approval, and holds its task back.
LEMMA HoldIsHeard ==
  ASSUME policy \in PolicyState, SafeIn(policy'),
         Remembered(policy, approvedFor, gated, welcomed), NEW t \in Task, HoldH(t)
  PROVE  /\ Remembered(policy', approvedFor', gated', welcomed')
         /\ \A u \in Task : Shyly(policy, policy', u) \/ policy'.intents[u].state # "offered"
<1> DEFINE p == Ticked(policy)
           q == HeldBy(p, t)
           S == Request[t].surfaces
<1>1. p \in PolicyState /\ Remembered(p, approvedFor, gated, welcomed)
  BY TickedTyped, TickRemembers
<1>2. policy' = Ticked(q)
  BY DEF HoldH, Hold
<1> HIDE DEF p
<1>3. /\ q \in PolicyState /\ NoNewSigns(p, q)
      /\ q.approvalRequired = p.approvalRequired \union S
      /\ \A s \in Surface : q.approvalEpochs[s] = IF s \in S THEN p.approvalEpochs[s] + 1
                                                  ELSE p.approvalEpochs[s]
      /\ \A u \in Task \ {t} : q.intents[u] = p.intents[u]
      /\ q.intents[t].state = p.intents[t].state
      /\ q.intents[t].approvalEpochs = p.intents[t].approvalEpochs
      /\ q.intents[t].held /\ ~ q.intents[t].skipNotice
  BY <1>1, HeldFields
<1> HIDE DEF q
<1>4. /\ \A s \in Surface \ S : approvedFor'[s] = approvedFor[s]
      /\ gated' = gated \union S /\ welcomed' = welcomed \ {t}
  BY DEF HoldH, Without
<1> HIDE DEF S
<1>5. ApprovedIn(q, approvedFor')
  <2>1. \A u \in Task : IsLive(q, u) =>
          IsLive(p, u) /\ q.intents[u].approvalEpochs = p.intents[u].approvalEpochs
    BY <1>3 DEF IsLive
  <2>2. Demands(p, q, S)
    BY <1>3, <2>1 DEF Demands
  <2>3. LosesOnly(approvedFor, approvedFor', S)
    BY <1>4 DEF LosesOnly
  <2>4. p \in PolicyState /\ ApprovedIn(p, approvedFor)
    BY <1>1 DEF Remembered
  <2>5. QED
    BY <2>2, <2>3, <2>4, DemandedAnew
<1>6. WelcomeIn(q, welcomed')
  <2>1. ASSUME NEW u \in Task, YieldsToHuman(u), IsLive(q, u), q.intents[u].skipNotice
        PROVE  u \in welcomed'
    <3>1. u # t
      BY <1>3, <2>1, Zenon
    <3>2. YieldsToHuman(u) /\ IsLive(p, u) /\ p.intents[u].skipNotice
      BY <1>3, <2>1, <3>1, Zenon DEF IsLive
    <3>3. u \in welcomed
      BY <1>1, <3>2, Zenon DEF Remembered, WelcomeIn
    <3>4. QED
      BY <1>4, <3>1, <3>3
  <2>2. QED
    BY <2>1, Zenon DEF WelcomeIn
<1>7. Remembered(q, approvedFor', gated', welcomed')
  BY <1>1, <1>3, <1>4, <1>5, <1>6 DEF Remembered
<1>8. Remembered(policy', approvedFor', gated', welcomed')
  BY <1>2, <1>3, <1>7, TickRemembers
<1>9. \A u \in Task \ {t} : Shyly(policy, policy', u)
  BY <1>2, <1>3, SameTaskIsUntold, ShyBetweenTicks DEF p
<1>10. policy'.intents[t].state # "offered"
  <2> SUFFICES ASSUME policy'.intents[t].state = "offered" PROVE FALSE
    OBVIOUS
  <2>1. IsLive(policy', t)
    BY DEF IsLive, Live, Waiting
  <2>2. policy'.intents[t].held = q.intents[t].held
    BY <1>2, <1>3, <2>1, TickedWord
  <2>3. policy'.intents[t].held
    BY <1>3, <2>2, Zenon
  <2>4. Blocked(policy', t)
    BY <2>3, Zenon DEF Blocked, Obstructed
  <2>5. ~ Blocked(policy', t)
    BY DEF SafeIn, UnblockedIn, ReservesIn, Reserving
  <2>6. QED
    BY <2>4, <2>5
<1>11. QED
  BY <1>8, <1>9, <1>10

-----------------------------------------------------------------------------
(* A takeover, an acceptance, a new configuration and the end of all.      *)

\* A takeover may demand approvals anew, and it takes every waived warning of
\* the tasks that yield to the person.
LEMMA TakenOverFields ==
  ASSUME NEW p \in PolicyState, NEW s \in Surface, p.humanCooldown = 0
  PROVE  LET q == TakenOver(p, s)
             S == IF p.preferences.reapprove THEN {"desktop"} ELSE {}
         IN  /\ q \in PolicyState /\ q.humanCooldown > 0
             /\ q.approvalRequired = p.approvalRequired \union S
             /\ \A x \in Surface : q.approvalEpochs[x] = IF x \in S THEN p.approvalEpochs[x] + 1
                                                         ELSE p.approvalEpochs[x]
             /\ \A t \in Task : /\ q.intents[t].state = p.intents[t].state
                                /\ q.intents[t].approvalEpochs = p.intents[t].approvalEpochs
                                /\ YieldsToHuman(t) /\ IsLive(p, t) => ~ q.intents[t].skipNotice
<1> DEFINE a == IF p.preferences.reapprove THEN ApprovalRequired(p, {"desktop"}) ELSE p
           S == IF p.preferences.reapprove THEN {"desktop"} ELSE {}
           f == [t \in Task |-> IF IsLive(p, t) /\ YieldsToHuman(t) THEN Interrupted(p, t)
                                ELSE p.intents[t]]
           w == p.preferences.yieldWait
           q == TakenOver(p, s)
<1>1. q \in PolicyState
  BY TakenOverTyped
<1>2. /\ a \in PolicyState /\ a.approvalRequired = p.approvalRequired \union S
      /\ \A x \in Surface : a.approvalEpochs[x] = IF x \in S THEN p.approvalEpochs[x] + 1
                                                  ELSE p.approvalEpochs[x]
  <2>1. CASE p.preferences.reapprove
    <3>1. ApprovalRequired(p, {"desktop"}) \in PolicyState
      BY RequiredTyped DEF Surface
    <3>2. /\ ApprovalRequired(p, {"desktop"}).approvalRequired = p.approvalRequired \union {"desktop"}
          /\ \A x \in Surface : ApprovalRequired(p, {"desktop"}).approvalEpochs[x]
                                = IF x \in {"desktop"} THEN p.approvalEpochs[x] + 1
                                  ELSE p.approvalEpochs[x]
      BY DEF ApprovalRequired, PolicyState
    <3>3. QED
      BY <2>1, <3>1, <3>2
  <2>2. CASE ~ p.preferences.reapprove
    BY <2>2
  <2>3. QED
    BY <2>1, <2>2
<1>3. w \in Nat \ {0}
  BY DEF PolicyState, Preference
<1>4. PICK y : q = [a EXCEPT !.humanCooldown = w, !.takeoverSurfaces = y,
                             !.postYieldWarning = TRUE, !.intents = f]
  BY DEF TakenOver
<1>5. \A t \in Task : /\ f[t].state = p.intents[t].state
                      /\ f[t].approvalEpochs = p.intents[t].approvalEpochs
                      /\ YieldsToHuman(t) /\ IsLive(p, t) => f[t].skipNotice = FALSE
  <2>1. ASSUME NEW t \in Task
        PROVE  LET j == Interrupted(p, t)
               IN  /\ j.state = p.intents[t].state
                   /\ j.approvalEpochs = p.intents[t].approvalEpochs
                   /\ j.skipNotice = FALSE
    <3>1. p.intents[t] \in Intent
      BY FieldsTyped
    <3>2. QED
      BY <3>1 DEF Interrupted, Intent
  <2>2. QED
    BY <2>1
<1> HIDE DEF a, f, q, w
<1>6. /\ q.humanCooldown = w /\ q.intents = f
      /\ q.approvalRequired = a.approvalRequired /\ q.approvalEpochs = a.approvalEpochs
  BY <1>2, <1>4 DEF PolicyState
<1>7. q.humanCooldown > 0
  BY <1>3, <1>6
<1> HIDE DEF S
<1>8. \A t \in Task : /\ q.intents[t].state = p.intents[t].state
                      /\ q.intents[t].approvalEpochs = p.intents[t].approvalEpochs
                      /\ YieldsToHuman(t) /\ IsLive(p, t) => ~ q.intents[t].skipNotice
  BY <1>5, <1>6, Zenon
<1>9. q.approvalRequired = p.approvalRequired \union S
  BY <1>2, <1>6
<1>10. \A x \in Surface : q.approvalEpochs[x] = IF x \in S THEN p.approvalEpochs[x] + 1
                                               ELSE p.approvalEpochs[x]
  BY <1>2, <1>6
<1>11. QED
  BY <1>1, <1>7, <1>8, <1>9, <1>10 DEF q, S

LEMMA InputIsHeard ==
  ASSUME SafeIn(policy), SafeIn(policy'),
         Remembered(policy, approvedFor, gated, welcomed), NEW s \in Surface, InputH(s)
  PROVE  /\ Remembered(policy', approvedFor', gated', welcomed')
         /\ \A u \in Task : YieldsToHuman(u) => policy'.intents[u].state # "offered"
<1> DEFINE p == Ticked(policy)
           q == TakenOver(p, s)
           S == IF p.preferences.reapprove THEN {"desktop"} ELSE {}
<1>1. policy \in PolicyState /\ SafeIn(p) /\ p \in PolicyState
  BY TickIsSafe DEF SafeIn
<1>2. /\ policy' = Ticked(q) /\ approvedFor' = Without(S)
      /\ gated' = gated \union S /\ welcomed' = {}
      /\ \E t \in Task : IsActive(p, t) /\ YieldsToHuman(t)
  <2>1. policy.preferences = p.preferences
    BY <1>1, TickKeepsSettings, SettingsFields
  <2>2. QED
    BY <2>1 DEF InputH, Input
<1>3. Remembered(p, approvedFor, gated, welcomed)
  BY <1>1, TickRemembers
<1> HIDE DEF p
\* Until now nobody was at the desk: a disruptive session was running.
<1>4. p.humanCooldown = 0
  <2>1. PICK t \in Task : IsActive(p, t) /\ YieldsToHuman(t)
    BY <1>2
  <2>2. ~ Blocked(p, t)
    BY <1>1, <2>1 DEF SafeIn, UnblockedIn, ReservesIn, Reserving, IsActive
  <2>3. p.humanCooldown \in Nat
    BY <1>1 DEF PolicyState
  <2>4. QED
    BY <2>1, <2>2, <2>3 DEF Blocked
<1>5. /\ q \in PolicyState /\ q.humanCooldown > 0
      /\ q.approvalRequired = p.approvalRequired \union S
      /\ \A x \in Surface : q.approvalEpochs[x] = IF x \in S THEN p.approvalEpochs[x] + 1
                                                  ELSE p.approvalEpochs[x]
      /\ \A t \in Task : /\ q.intents[t].state = p.intents[t].state
                         /\ q.intents[t].approvalEpochs = p.intents[t].approvalEpochs
                         /\ YieldsToHuman(t) /\ IsLive(p, t) => ~ q.intents[t].skipNotice
  BY <1>1, <1>4, TakenOverFields
<1> HIDE DEF q, S
<1>6. ApprovedIn(q, approvedFor')
  <2>1. \A t \in Task : IsLive(q, t) =>
          IsLive(p, t) /\ q.intents[t].approvalEpochs = p.intents[t].approvalEpochs
    BY <1>5 DEF IsLive
  <2>2. LosesOnly(approvedFor, approvedFor', S)
    BY <1>2 DEF Without, LosesOnly
  <2>3. Demands(p, q, S)
    BY <1>5, <2>1 DEF Demands
  <2>4. p \in PolicyState /\ ApprovedIn(p, approvedFor)
    BY <1>1, <1>3 DEF Remembered
  <2>5. QED
    BY <2>2, <2>3, <2>4, DemandedAnew
<1>7. WelcomeIn(q, welcomed')
  BY <1>5, Zenon DEF WelcomeIn, IsLive
<1>8. Remembered(q, approvedFor', gated', welcomed')
  BY <1>2, <1>3, <1>5, <1>6, <1>7 DEF Remembered
<1>9. Remembered(policy', approvedFor', gated', welcomed')
  BY <1>2, <1>5, <1>8, TickRemembers
\* From now on the person is.
<1>10. ASSUME NEW u \in Task, YieldsToHuman(u), policy'.intents[u].state = "offered"
       PROVE  FALSE
  <2>1. policy'.humanCooldown = q.humanCooldown
    BY <1>2, <1>5, TickKeepsSettings, SettingsFields
  <2>2. Blocked(policy', u)
    BY <1>5, <1>10, <2>1 DEF Blocked
  <2>3. QED
    BY <1>10, <2>2 DEF SafeIn, UnblockedIn, ReservesIn, Reserving
<1>11. QED
  BY <1>9, <1>10

LEMMA AcceptedWord ==
  ASSUME NEW p \in PolicyState, NEW t \in Task
  PROVE  LET q == Accepted(p, t)
             current == {s \in Request[t].surfaces :
                           p.intents[t].approvalEpochs[s] = p.approvalEpochs[s]}
         IN  /\ q \in PolicyState /\ NoNewSigns(p, q)
             /\ q.approvalEpochs = p.approvalEpochs
             /\ q.approvalRequired = p.approvalRequired \ current
             /\ \A u \in Task \ {t} : q.intents[u] = p.intents[u]
             /\ q.intents[t].state = "active"
             /\ q.intents[t].approvalEpochs = p.intents[t].approvalEpochs
             /\ ~ q.intents[t].skipNotice
<1> DEFINE i == p.intents[t]
           current == {s \in Request[t].surfaces : i.approvalEpochs[s] = p.approvalEpochs[s]}
           q == Accepted(p, t)
           x == Lesser(Request[t].duration, i.task)
           j == [i EXCEPT !.state = "active", !.yielded = FALSE, !.skipNotice = FALSE, !.wait = 0,
                          !.stage = x, !.lease = ActiveLease]
           w == p.postYieldWarning /\ ~ YieldsToHuman(t)
<1>1. i \in Intent /\ q \in PolicyState
  BY FieldsTyped, AcceptedTyped
<1>2. q = [p EXCEPT !.intents[t] = j, !.approvalRequired = p.approvalRequired \ current,
                    !.postYieldWarning = w]
  BY DEF Accepted, PolicyState
<1>3. w => p.postYieldWarning
  OBVIOUS
<1> HIDE DEF x, i, q, current, w
<1>4. j.state = "active" /\ j.approvalEpochs = i.approvalEpochs /\ j.skipNotice = FALSE
  BY <1>1 DEF Intent
<1> HIDE DEF j
<1>5. /\ q.intents = [p.intents EXCEPT ![t] = j]
      /\ q.approvalEpochs = p.approvalEpochs
      /\ q.approvalRequired = p.approvalRequired \ current
      /\ q.available = p.available
      /\ q.postYieldWarning = w
  BY <1>2 DEF PolicyState
<1>6. q.intents[t] = j /\ \A u \in Task \ {t} : q.intents[u] = p.intents[u]
  BY <1>5, FieldsTyped
<1>7. ~ q.intents[t].skipNotice
  BY <1>4, <1>6, Zenon
<1>8. NoNewSigns(p, q)
  BY <1>3, <1>5, Zenon DEF NoNewSigns
<1>9. QED
  BY <1>1, <1>4, <1>5, <1>6, <1>7, <1>8 DEF i, q, current

\* A session starts with every approval it needs.
LEMMA AcceptIsApproved ==
  ASSUME SafeIn(policy), Remembered(policy, approvedFor, gated, welcomed),
         NEW t \in Task, Accept(t), NEW s \in Request[t].surfaces,
         policy.config[s].mode = "ask" \/ s \in gated
  PROVE  t \in approvedFor[s]
<1> DEFINE p == Ticked(policy)
<1>1. /\ policy \in PolicyState /\ p \in PolicyState
      /\ Remembered(p, approvedFor, gated, welcomed) /\ p.config = policy.config
  <2>1. policy \in PolicyState
    BY DEF SafeIn
  <2>2. QED
    BY <2>1, TickedTyped, TickRemembers, TickKeepsSettings, SettingsFields
<1>2. p.intents[t].state = "offered"
  BY DEF Accept
<1>3. ~ NeedsApproval(p, t)
  BY <1>1, <1>2, TickedOffer DEF SafeIn
<1> HIDE DEF p
<1>4. p.config[s].mode = "ask" \/ s \in p.approvalRequired
  BY <1>1 DEF Remembered
<1>5. p.intents[t].approvalEpochs[s] = p.approvalEpochs[s]
  BY <1>3, <1>4 DEF NeedsApproval
<1>6. IsLive(p, t)
  BY <1>2 DEF IsLive, Live, Waiting
<1>7. QED
  BY <1>1, <1>5, <1>6 DEF Remembered, ApprovedIn

\* It settles the demands that its approvals met.
LEMMA AcceptIsHeard ==
  ASSUME SafeIn(policy), Remembered(policy, approvedFor, gated, welcomed),
         NEW t \in Task, AcceptH(t)
  PROVE  /\ Remembered(policy', approvedFor', gated', welcomed')
         /\ \A u \in Task : Shyly(policy, policy', u) \/ policy'.intents[u].state # "offered"
<1> DEFINE p == Ticked(policy)
           q == Accepted(p, t)
           current == {s \in Request[t].surfaces :
                         p.intents[t].approvalEpochs[s] = p.approvalEpochs[s]}
<1>1. /\ policy \in PolicyState /\ p \in PolicyState
      /\ Remembered(p, approvedFor, gated, welcomed) /\ p.config = policy.config
  <2>1. policy \in PolicyState
    BY DEF SafeIn
  <2>2. QED
    BY <2>1, TickedTyped, TickRemembers, TickKeepsSettings, SettingsFields
<1>2. /\ policy' = q /\ p.intents[t].state = "offered"
      /\ gated' = gated \ {s \in Request[t].surfaces : t \in approvedFor[s]}
      /\ approvedFor' = approvedFor /\ welcomed' = welcomed
  BY DEF AcceptH, Accept
<1>3. /\ q \in PolicyState /\ NoNewSigns(p, q)
      /\ q.approvalEpochs = p.approvalEpochs
      /\ q.approvalRequired = p.approvalRequired \ current
      /\ \A u \in Task \ {t} : q.intents[u] = p.intents[u]
      /\ q.intents[t].state = "active"
      /\ q.intents[t].approvalEpochs = p.intents[t].approvalEpochs
      /\ ~ q.intents[t].skipNotice
  BY <1>1, AcceptedWord
<1> HIDE DEF p, q
<1>4. current \subseteq {s \in Request[t].surfaces : t \in approvedFor[s]}
  <2>1. IsLive(p, t)
    BY <1>2 DEF IsLive, Live, Waiting
  <2>2. QED
    BY <1>1, <2>1 DEF Remembered, ApprovedIn
<1> HIDE DEF current
<1>5. Remembered(q, approvedFor, gated', welcomed)
  <2>1. ApprovedIn(q, approvedFor)
    <3>1. \A u \in Task : /\ IsLive(q, u) => IsLive(p, u)
                          /\ q.intents[u].approvalEpochs = p.intents[u].approvalEpochs
      BY <1>2, <1>3 DEF IsLive, Live, Waiting
    <3>2. QED
      BY <1>1, <1>3, <3>1 DEF Remembered, ApprovedIn
  <2>2. WelcomeIn(q, welcomed)
    <3>1. ASSUME NEW u \in Task, YieldsToHuman(u), IsLive(q, u), q.intents[u].skipNotice
          PROVE  u \in welcomed
      <4>1. u # t
        BY <1>3, <3>1, Zenon
      <4>2. IsLive(p, u) /\ p.intents[u].skipNotice
        BY <1>3, <3>1, <4>1, Zenon DEF IsLive
      <4>3. QED
        BY <1>1, <3>1, <4>2, Zenon DEF Remembered, WelcomeIn
    <3>2. QED
      BY <3>1, Zenon DEF WelcomeIn
  <2>3. gated' \subseteq q.approvalRequired
    BY <1>1, <1>2, <1>3, <1>4 DEF Remembered
  <2>4. QED
    BY <2>1, <2>2, <2>3 DEF Remembered
<1>6. ASSUME NEW u \in Task \ {t} PROVE Shyly(policy, q, u)
  BY <1>1, <1>3, SameTaskIsUntold, ShyBetweenTicks DEF p
<1>7. QED
  BY <1>2, <1>3, <1>5, <1>6

LEMMA ReconfiguredFields ==
  ASSUME NEW p \in PolicyState, NEW s \in Surface, NEW c \in Configurations[s]
  PROVE  LET q == Reconfigured(p, s, c)
         IN  /\ q \in PolicyState /\ NoNewSigns(p, q)
             /\ q.approvalEpochs = p.approvalEpochs
             /\ q.approvalRequired = p.approvalRequired \ {s}
             /\ \A t \in Task : /\ q.intents[t] \in {p.intents[t], EndedIntent}
                                /\ IsLive(q, t) => s \notin Request[t].surfaces
<1> DEFINE T == {t \in Task : s \in Request[t].surfaces}
           f == Finished(p, T)
           q == Reconfigured(p, s, c)
<1>1. /\ f \in PolicyState /\ Untold(p, f)
      /\ \A t \in Task : /\ f.intents[t] \in {p.intents[t], EndedIntent}
                         /\ IsLive(f, t) => t \notin T
  BY FinishedIsUntold
<1>2. q \in PolicyState
  BY ReconfiguredTyped
<1>3. PICK g, x, e : q = [f EXCEPT !.approvalRequired = f.approvalRequired \ {s}, !.config[s] = g,
                                   !.profiles = x, !.deferrals = e]
  BY <1>1 DEF Reconfigured, PolicyState
<1> HIDE DEF q, f
<1>4. /\ q.intents = f.intents /\ q.approvalEpochs = f.approvalEpochs
      /\ q.approvalRequired = f.approvalRequired \ {s}
      /\ q.available = f.available /\ q.postYieldWarning = f.postYieldWarning
  BY <1>1, <1>3 DEF PolicyState
<1>5. NoNewSigns(p, q) /\ q.approvalEpochs = p.approvalEpochs
      /\ q.approvalRequired = p.approvalRequired \ {s}
  BY <1>1, <1>4 DEF Untold, NoNewSigns, SameDemands
<1>6. \A t \in Task : /\ q.intents[t] \in {p.intents[t], EndedIntent}
                      /\ IsLive(q, t) => s \notin Request[t].surfaces
  BY <1>1, <1>4 DEF IsLive
<1>7. QED
  BY <1>2, <1>5, <1>6 DEF q

\* A new configuration ends the tasks of its surface, and with them every
\* approval for it and every demand on it.
LEMMA ConfigureIsHeard ==
  ASSUME policy \in PolicyState, Remembered(policy, approvedFor, gated, welcomed),
         NEW s \in Surface, NEW c \in Configurations[s], ConfigureH(s, c)
  PROVE  /\ Remembered(policy', approvedFor', gated', welcomed')
         /\ \A u \in Task : Shyly(policy, policy', u)
<1> DEFINE q == Reconfigured(policy, s, c)
<1>1. /\ policy' = Ticked(q) /\ approvedFor' = Without({s})
      /\ gated' = gated \ {s} /\ welcomed' = welcomed
  BY DEF ConfigureH, Configure
<1>2. /\ q \in PolicyState /\ NoNewSigns(policy, q)
      /\ q.approvalEpochs = policy.approvalEpochs
      /\ q.approvalRequired = policy.approvalRequired \ {s}
      /\ \A t \in Task : /\ q.intents[t] \in {policy.intents[t], EndedIntent}
                         /\ IsLive(q, t) => s \notin Request[t].surfaces
  BY ReconfiguredFields
<1> HIDE DEF q
<1>3. \A t \in Task : IsLive(q, t) => IsLive(policy, t) /\ q.intents[t] = policy.intents[t]
  BY <1>2, BlankStates DEF IsLive, Live, Waiting
<1>4. ApprovedIn(q, approvedFor')
  <2>1. ASSUME NEW t \in Task, IsLive(q, t), NEW x \in Request[t].surfaces
        PROVE  /\ q.intents[t].approvalEpochs[x] <= q.approvalEpochs[x]
               /\ q.intents[t].approvalEpochs[x] = q.approvalEpochs[x] => t \in approvedFor'[x]
    <3>1. x \in Surface /\ approvedFor'[x] = approvedFor[x]
      BY <1>1, <1>2, <2>1, RequestTyped DEF Without
    <3>2. QED
      BY <1>2, <1>3, <2>1, <3>1 DEF Remembered, ApprovedIn
  <2>2. QED
    BY <2>1 DEF ApprovedIn
<1>5. WelcomeIn(q, welcomed')
  BY <1>1, <1>3, Zenon DEF Remembered, WelcomeIn
<1>6. Remembered(q, approvedFor', gated', welcomed')
  BY <1>1, <1>2, <1>4, <1>5 DEF Remembered
<1>7. Remembered(policy', approvedFor', gated', welcomed')
  BY <1>1, <1>2, <1>6, TickRemembers
<1>8. ASSUME NEW u \in Task PROVE Shyly(policy, policy', u)
  <2>1. Shyly(policy, q, u)
    <3>1. CASE q.intents[u] = policy.intents[u]
      BY <3>1, SameTaskIsUntold
    <3>2. CASE q.intents[u] = EndedIntent
      BY <3>2, BlankStates, EndedIsUntold
    <3>3. QED
      BY <1>2, <3>1, <3>2
  <2>2. Untold(q, Ticked(q))
    BY <1>2, TickIsUntold
  <2>3. QED
    BY <1>1, <2>1, <2>2, ShyGoesOn DEF Untold
<1>9. QED
  BY <1>7, <1>8

LEMMA StopIsHeard ==
  ASSUME policy \in PolicyState, policy' \in PolicyState, StopH
  PROVE  /\ Remembered(policy', approvedFor', gated', welcomed')
         /\ \A u \in Task : policy'.intents[u].state # "offered"
<1> DEFINE q == Finished(policy, Task)
<1>1. /\ q \in PolicyState /\ \A t \in Task : ~ IsLive(q, t)
  BY FinishedIsUntold
<1>2. policy'.intents = q.intents /\ gated' = {}
  <2>1. PICK c, e : policy' = [q EXCEPT !.config = c, !.deferrals = e,
                                        !.takeoverSurfaces = {}, !.humanCooldown = 0,
                                        !.postYieldWarning = FALSE, !.approvalRequired = {}]
    BY DEF StopH, Stop
  <2> HIDE DEF q
  <2>2. policy'.intents = q.intents
    BY <1>1, <2>1 DEF PolicyState
  <2>3. QED
    BY <2>2 DEF StopH
<1> HIDE DEF q
<1>3. \A t \in Task : ~ IsLive(policy', t)
  BY <1>1, <1>2 DEF IsLive
<1>4. Remembered(policy', approvedFor', gated', welcomed')
  BY <1>2, <1>3, Zenon DEF Remembered, ApprovedIn, WelcomeIn
<1>5. \A u \in Task : policy'.intents[u].state # "offered"
  BY <1>3 DEF IsLive, Live, Waiting
<1>6. QED
  BY <1>4, <1>5

LEMMA PassIsHeard ==
  ASSUME policy \in PolicyState, Remembered(policy, approvedFor, gated, welcomed),
         Pass, UNCHANGED history
  PROVE  /\ Remembered(policy', approvedFor', gated', welcomed')
         /\ \A u \in Task : policy'.intents[u].state = policy.intents[u].state
<1>1. policy' = AgedPolicy(policy, 1)
  BY DEF Pass
<1>2. /\ policy' \in PolicyState
      /\ policy'.approvalRequired = policy.approvalRequired
      /\ policy'.approvalEpochs = policy.approvalEpochs
      /\ \A t \in Task : policy'.intents[t] = AgedIntent(policy.intents[t], 1)
  BY <1>1, AgedFields
<1>3. \A t \in Task : /\ policy'.intents[t].state = policy.intents[t].state
                      /\ SameWord(policy.intents[t], policy'.intents[t])
  <2>1. ASSUME NEW t \in Task
        PROVE  /\ policy'.intents[t].state = policy.intents[t].state
               /\ SameWord(policy.intents[t], policy'.intents[t])
    <3>1. policy.intents[t] \in Intent
      BY FieldsTyped
    <3>2. QED
      BY <1>2, <3>1, AgedTask DEF SameWord
  <2>2. QED
    BY <2>1
<1>4. \A t \in Task : Words(policy, policy', t)
  BY <1>3 DEF Words, IsLive, Live, Waiting
<1>5. Remembered(policy', approvedFor, gated, welcomed)
  BY <1>2, <1>4, WordsAreRemembered DEF SameDemands
<1>6. QED
  BY <1>3, <1>5 DEF history

-----------------------------------------------------------------------------
(* Every step.                                                             *)

\* What a step may do to the offer of a task that yields to the person.
Hearing(t) ==
  \/ Shyly(policy, policy', t)
  \/ StartNow(t)
  \/ t \in welcomed'
  \/ policy'.intents[t].state # "offered"
  \/ policy'.intents[t].state = policy.intents[t].state

LEMMA HearingIsWarned ==
  ASSUME Remembered(policy', approvedFor', gated', welcomed'),
         \A t \in Task : YieldsToHuman(t) => Hearing(t)
  PROVE  WarnedStep
<1> SUFFICES ASSUME NEW t \in Task, YieldsToHuman(t), policy'.postYieldWarning,
                    policy'.available["desktop"].notice,
                    policy.intents[t].state \notin {"announcing", "offered"},
                    policy'.intents[t].state = "offered"
             PROVE  t \in welcomed' \/ StartNow(t)
  BY DEF WarnedStep
<1>1. IsLive(policy', t)
  BY DEF IsLive, Live, Waiting
<1>2. CASE policy'.intents[t].skipNotice
  BY <1>1, <1>2, Zenon DEF Remembered, WelcomeIn
<1>3. CASE ~ policy'.intents[t].skipNotice
  <2>1. Warns(policy', t) /\ Shy(policy, t) /\ ~ Shy(policy', t)
    BY <1>3, Zenon DEF Warns, Shy
  <2>2. ~ Shyly(policy, policy', t)
    BY <1>1, <2>1, Zenon DEF Shyly
  <2>3. QED
    BY <2>2 DEF Hearing
<1>4. QED
  BY <1>2, <1>3, Zenon

\* What a step does of itself, whatever the history.
LEMMA MuteIsHeard ==
  ASSUME policy' \in PolicyState, Remembered(policy, approvedFor, gated, welcomed),
         Mute(policy, policy'), UNCHANGED history
  PROVE  /\ Remembered(policy', approvedFor', gated', welcomed')
         /\ \A t \in Task : Hearing(t)
<1>1. Remembered(policy', approvedFor, gated, welcomed)
  BY WordsAreRemembered DEF Mute
<1>2. QED
  BY <1>1 DEF history, Mute, Hearing

LEMMA UnwatchedIsHeard ==
  ASSUME SafeIn(policy), policy' \in PolicyState,
         Remembered(policy, approvedFor, gated, welcomed), Unwatched, UNCHANGED history
  PROVE  /\ Remembered(policy', approvedFor', gated', welcomed')
         /\ \A t \in Task : Hearing(t)
<1>1. policy \in PolicyState
  BY DEF SafeIn
<1>2. CASE \E o \in Owner : Open(o) \/ Close(o)
  BY <1>1, <1>2, ChannelStepIsMute, MuteIsHeard
<1>3. CASE \E t \in Task : \/ Submit(t) \/ Heartbeat(t) \/ Cancel(t) \/ Deny(t)
                           \/ \E d \in Renewals : Renew(t, d)
                           \/ \E d \in Delays : Postpone(t, d)
  BY <1>1, <1>3, TaskStepIsMute, MuteIsHeard
<1>4. CASE \E t \in Task : StartNow(t)
  BY <1>1, <1>4, StartNowIsMute, MuteIsHeard
<1>5. CASE \/ \E c \in PreferenceChoices : SetPreferences(c)
           \/ \E d \in NoticeChoices : Notice(d)
           \/ \E s \in Surface : \E v \in VisibilityChoices[s] : Ready(s, v)
           \/ \E b \in InputChoices : InputReady(b)
           \/ \E c \in Scope, r \in PauseReason : Resume(c, r)
           \/ \E c \in Scope, r \in PauseReason, d \in PauseTimes : Pause(c, r, d)
           \/ \E c \in Scope : ResumeTakeover(c) \/ ResumeDeferral(c)
           \/ \E t \in Task : \E d \in DeferTimes : Defer(t, d)
  BY <1>1, <1>5, SurfaceStepIsMute, MuteIsHeard
<1>6. CASE Poll
  <2>1. Untold(policy, policy')
    BY <1>1, <1>6, TickIsUntold DEF Poll
  <2>2. QED
    BY <2>1, UntoldIsMute, MuteIsHeard
<1>7. CASE Pass
  BY <1>1, <1>7, PassIsHeard DEF Hearing
<1>8. QED
  BY <1>2, <1>3, <1>4, <1>5, <1>6, <1>7 DEF Unwatched

\* The history only watches.
LEMMA HistoryWatches == HNext => Next
<1> SUFFICES ASSUME HNext PROVE Next
  OBVIOUS
<1>1. ASSUME NEW t \in Task, NEW d \in Delays, ApproveH(t, d) PROVE Next
  BY <1>1 DEF ApproveH, Next, PersonStep
<1>2. ASSUME NEW t \in Task, HoldH(t) PROVE Next
  BY <1>2 DEF HoldH, Next, PersonStep
<1>3. ASSUME NEW s \in InputSurfaces, InputH(s) PROVE Next
  BY <1>3 DEF InputH, Next, SurfaceStep
<1>4. ASSUME NEW t \in Task, AcceptH(t) PROVE Next
  BY <1>4 DEF AcceptH, Next, TaskStep
<1>5. ASSUME NEW s \in Surface, NEW c \in Configurations[s], ConfigureH(s, c) PROVE Next
  BY <1>5 DEF ConfigureH, Next, SurfaceStep
<1>6. CASE StopH
  BY <1>6 DEF StopH, Next, SurfaceStep
<1>7. CASE Unwatched
  BY <1>7 DEF Unwatched, Next, TaskStep, PersonStep, SurfaceStep
<1>8. QED
  BY <1>1, <1>2, <1>3, <1>4, <1>5, <1>6, <1>7 DEF HNext

\* A session starts only where its approvals are its own, whatever the step is called.
LEMMA StepIsApproved ==
  ASSUME SafeIn(policy), Remembered(policy, approvedFor, gated, welcomed), Next
  PROVE  ApprovedStep
<1> SUFFICES ASSUME NEW t \in Task, IsActive(policy', t), ~ IsActive(policy, t),
                    NEW s \in Request[t].surfaces,
                    policy.config[s].mode = "ask" \/ s \in gated
             PROVE  t \in approvedFor[s]
  BY DEF ApprovedStep
<1>1. t \in Sessions(policy') /\ t \notin Sessions(policy)
  BY DEF Sessions
<1>2. PICK u \in Task : Accept(u)
  BY <1>1, StepFollows DEF Follows
<1>3. u = t
  BY <1>1, <1>2, AcceptFollows
<1>4. QED
  BY <1>2, <1>3, AcceptIsApproved

HSafe == SafeIn(policy) /\ Remembered(policy, approvedFor, gated, welcomed)

LEMMA HistoryStarts == HInit => HSafe
<1> SUFFICES ASSUME HInit PROVE HSafe
  OBVIOUS
<1>1. SafeIn(policy)
  BY InitSafe DEF HInit
<1>2. \A t \in Task : ~ IsLive(policy, t)
  BY BlankStates DEF HInit, Init, IsLive, Live, Waiting
<1>3. Remembered(policy, approvedFor, gated, welcomed)
  BY <1>2, Zenon DEF HInit, Remembered, ApprovedIn, WelcomeIn
<1>4. QED
  BY <1>1, <1>3 DEF HSafe

LEMMA HistoryGoesOn ==
  ASSUME HSafe, HNext
  PROVE  HSafe' /\ ApprovedStep /\ WarnedStep
<1>1. /\ SafeIn(policy) /\ policy \in PolicyState
      /\ Remembered(policy, approvedFor, gated, welcomed)
  BY DEF HSafe, SafeIn
<1>2. Next
  BY HistoryWatches
<1>3. SafeIn(policy') /\ policy' \in PolicyState
  BY <1>1, <1>2, StepIsSafe DEF SafeIn
<1> DEFINE Told == /\ Remembered(policy', approvedFor', gated', welcomed')
                    /\ \A t \in Task : YieldsToHuman(t) => Hearing(t)
<1>4. ASSUME NEW t \in Task, NEW d \in Delays, ApproveH(t, d) PROVE Told
  BY <1>1, <1>4, ApproveIsHeard DEF Hearing
<1>5. ASSUME NEW t \in Task, HoldH(t) PROVE Told
  BY <1>1, <1>3, <1>5, HoldIsHeard DEF Hearing
<1>6. ASSUME NEW s \in InputSurfaces, InputH(s) PROVE Told
  <2>1. s \in Surface
    BY InputsAreTyped
  <2>2. QED
    BY <1>1, <1>3, <1>6, <2>1, InputIsHeard DEF Hearing
<1>7. ASSUME NEW t \in Task, AcceptH(t) PROVE Told
  BY <1>1, <1>7, AcceptIsHeard DEF Hearing
<1>8. ASSUME NEW s \in Surface, NEW c \in Configurations[s], ConfigureH(s, c) PROVE Told
  BY <1>1, <1>8, ConfigureIsHeard DEF Hearing
<1>9. ASSUME StopH PROVE Told
  BY <1>1, <1>3, <1>9, StopIsHeard DEF Hearing
<1>10. ASSUME Unwatched, UNCHANGED history PROVE Told
  BY <1>1, <1>3, <1>10, UnwatchedIsHeard
<1>11. Told
  <2> HIDE DEF Told
  <2>1. QED
    BY <1>4, <1>5, <1>6, <1>7, <1>8, <1>9, <1>10 DEF HNext
<1>12. ApprovedStep
  BY <1>1, <1>2, StepIsApproved
<1>13. WarnedStep
  BY <1>11, HearingIsWarned
<1>14. QED
  BY <1>3, <1>11, <1>12, <1>13 DEF HSafe

LEMMA HistoryIsSafe ==
  ASSUME HSafe, [HNext]_<<policy, history>>
  PROVE  HSafe' /\ [ApprovedStep /\ WarnedStep]_<<policy, history>>
<1>1. CASE HNext
  BY <1>1, HistoryGoesOn
<1>2. CASE UNCHANGED <<policy, history>>
  BY <1>2 DEF HSafe, history
<1>3. QED
  BY <1>1, <1>2

\* An approval belongs to one task and to the situation it was given in: in
\* every run of the policy with its history a session starts on an Ask surface,
\* or after a hold or a takeover with reapproval, only for a task that the person
\* approved since (#needsApproval and #requireApproval of admission.ts).
THEOREM ApprovalsAreOwn == HSpec => ApprovalIsOwn
<1>1. HSafe /\ [HNext]_<<policy, history>> => HSafe' /\ [ApprovedStep]_<<policy, history>>
  BY HistoryIsSafe
<1>2. QED
  BY HistoryStarts, <1>1, PTL DEF HSpec, ApprovalIsOwn

\* After a takeover the first disruptive desktop task comes back with a warning,
\* unless the person approved it since or clicked its notice: in every run
\* (input(), #noticeFor and the passes of tick() of admission.ts).
THEOREM ReturnsAreWarned == HSpec => ReturnIsWarned
<1>1. HSafe /\ [HNext]_<<policy, history>> => HSafe' /\ [WarnedStep]_<<policy, history>>
  BY HistoryIsSafe
<1>2. QED
  BY HistoryStarts, <1>1, PTL DEF HSpec, ReturnIsWarned
=============================================================================
