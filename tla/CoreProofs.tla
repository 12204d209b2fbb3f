----------------------------- MODULE CoreProofs ------------------------------
(***************************************************************************)
(* Theorems about the browser policy, for every set of profiles, commands, *)
(* checkpoints and inputs.  Each public method is tick() followed by a     *)
(* change of a few fields and the end of some requests, so the lemmas go   *)
(* from Ended to Expired to the methods: types, pending requests, results  *)
(* and refusals first, then what the policy gives away over time, which is *)
(* slots, the sleep of the host's timer, the authority of a fence, and     *)
(* consent.  There tick(), and every way a request ends, only takes        *)
(* (Lessens), so each argument is about the change that follows.           *)
(***************************************************************************)
EXTENDS CoreHistory, FiniteSetTheorems, TLAPS

-----------------------------------------------------------------------------
(* What is kept of each command: its books, and the authority it rests on. *)

\* Results are counted once, a slot belongs to what was sent, and a command is
\* sent only on the way from queued to dispatched.
BooksKept(p, c) ==
  LET phase == p.pending[c].phase
  IN  /\ p.finishes[c] = IF phase = "ended" THEN 1 ELSE 0
      /\ phase # "ended" => p.outcome[c] = "none"
      /\ phase = "dispatched" => c \in p.sent /\ c \in p.unsettled
      /\ phase \in {"new", "queued"} => c \notin p.sent
      /\ c \in p.unsettled => c \in p.sent
      /\ p.outcome[c] = "refused" => c \notin p.sent

IsCurrent(p, c) ==
  LET r == Request[c]
  IN  /\ p.pending[c].approval = p.approval.generation /\ p.approval # NoApproval
      /\ p.pending[c].generation = p.authorizationGeneration
      /\ p.providers[r.profile] # 0
      /\ p.pending[c].connection = p.providers[r.profile]
      /\ r.profile \in p.approval.profiles \ p.withdrawn
      /\ Permitted(p, r)

Booked(p) == p \in CoreState /\ \A c \in Command : BooksKept(p, c)

Sound(p) == Booked(p) /\ \A c \in Command : IsPending(p, c) => IsCurrent(p, c)

LEMMA RequestTyped ==
  ASSUME NEW c \in Command
  PROVE  /\ Request[c].profile \in Profile /\ Request[c].timeout \in Nat
         /\ Request[c].writes \in BOOLEAN /\ Request[c].devtools \in BOOLEAN
BY RequestsAreWellFormed

LEMMA AgedTyped ==
  ASSUME NEW left \in Nat, NEW d \in Nat
  PROVE  Aged(left, d) \in Nat
BY LimitsAreNatural DEF Aged

-----------------------------------------------------------------------------
(* The end of requests. *)

LEMMA EndedTyped ==
  ASSUME NEW p \in CoreState, NEW C
  PROVE  Ended(p, C) \in CoreState
<1> DEFINE over == C \intersect PendingSet(p)
           f == [c \in Command |->
                   IF c \in over THEN [p.pending[c] EXCEPT !.phase = "ended", !.left = 0]
                   ELSE p.pending[c]]
           n == [c \in Command |-> IF c \in over THEN p.finishes[c] + 1 ELSE p.finishes[c]]
           o == [c \in Command |->
                   IF c \notin over THEN p.outcome[c]
                   ELSE IF p.pending[c].phase = "dispatched" THEN "unknown" ELSE "refused"]
<1>1. f \in [Command -> Pending]
  <2>1. ASSUME NEW i \in Pending PROVE [i EXCEPT !.phase = "ended", !.left = 0] \in Pending
    BY <2>1 DEF Pending
  <2>2. p.pending \in [Command -> Pending]
    BY DEF CoreState
  <2>3. QED
    BY <2>1, <2>2
<1>2. n \in [Command -> Nat]
  BY DEF CoreState
<1>3. o \in [Command -> {"none", "refused", "unknown", "declined", "confirmed"}]
  BY DEF CoreState
<1>4. Ended(p, C) = [p EXCEPT !.pending = f, !.finishes = n, !.outcome = o]
  BY DEF Ended
<1> HIDE DEF f, n, o
<1>5. QED
  BY <1>1, <1>2, <1>3, <1>4 DEF CoreState

\* What ends, and that nothing else changes.
LEMMA EndedFields ==
  ASSUME NEW p \in CoreState, NEW C
  PROVE  LET q == Ended(p, C)
         IN  /\ q.providers = p.providers /\ q.providerGeneration = p.providerGeneration
             /\ q.known = p.known /\ q.approval = p.approval
             /\ q.authorizationGeneration = p.authorizationGeneration
             /\ q.withdrawn = p.withdrawn /\ q.withdrawalVersions = p.withdrawalVersions
             /\ q.readable = p.readable /\ q.writable = p.writable
             /\ q.unsettled = p.unsettled /\ q.checkpoints = p.checkpoints
             /\ q.fences = p.fences /\ q.dispatches = p.dispatches /\ q.sent = p.sent
BY DEF Ended, CoreState

LEMMA EndedCommands ==
  ASSUME NEW p \in CoreState, NEW C, NEW c \in Command
  PROVE  LET q == Ended(p, C)
         IN  IF c \in C /\ IsPending(p, c)
             THEN /\ q.pending[c].phase = "ended"
                  /\ q.finishes[c] = p.finishes[c] + 1
                  /\ q.outcome[c] = IF p.pending[c].phase = "dispatched" THEN "unknown"
                                    ELSE "refused"
             ELSE /\ q.pending[c] = p.pending[c]
                  /\ q.finishes[c] = p.finishes[c] /\ q.outcome[c] = p.outcome[c]
<1>1. p.pending[c] \in Pending
  BY DEF CoreState
<1>2. c \in PendingSet(p) <=> IsPending(p, c)
  BY DEF PendingSet
<1>3. Ended(p, C).pending[c] = IF c \in C \intersect PendingSet(p)
                               THEN [p.pending[c] EXCEPT !.phase = "ended", !.left = 0]
                               ELSE p.pending[c]
  BY DEF Ended, CoreState
<1>4. Ended(p, C).finishes[c] = IF c \in C \intersect PendingSet(p) THEN p.finishes[c] + 1
                                ELSE p.finishes[c]
  BY DEF Ended, CoreState
<1>5. Ended(p, C).outcome[c] = IF c \notin C \intersect PendingSet(p) THEN p.outcome[c]
                               ELSE IF p.pending[c].phase = "dispatched" THEN "unknown"
                               ELSE "refused"
  BY DEF Ended, CoreState
<1>6. [p.pending[c] EXCEPT !.phase = "ended", !.left = 0].phase = "ended"
  BY <1>1 DEF Pending
<1>7. QED
  BY <1>2, <1>3, <1>4, <1>5, <1>6

LEMMA EndedBooked ==
  ASSUME NEW p, Booked(p), NEW C
  PROVE  /\ Booked(Ended(p, C))
         /\ \A c \in Command : IsPending(Ended(p, C), c) <=> IsPending(p, c) /\ c \notin C
<1> DEFINE q == Ended(p, C)
<1>1. p \in CoreState /\ \A c \in Command : BooksKept(p, c)
  BY DEF Booked
<1>2. q \in CoreState
  BY <1>1, EndedTyped
<1>3. q.sent = p.sent /\ q.unsettled = p.unsettled
  BY <1>1, EndedFields
<1> HIDE DEF q
<1>4. ASSUME NEW c \in Command
      PROVE  /\ BooksKept(q, c)
             /\ IsPending(q, c) <=> IsPending(p, c) /\ c \notin C
  <2>1. BooksKept(p, c)
    BY <1>1
  <2>2. CASE c \in C /\ IsPending(p, c)
    <3>1. /\ q.pending[c].phase = "ended"
          /\ q.finishes[c] = p.finishes[c] + 1
          /\ q.outcome[c] = IF p.pending[c].phase = "dispatched" THEN "unknown" ELSE "refused"
      BY <1>1, <2>2, EndedCommands DEF q
    <3>2. QED
      BY <1>3, <2>1, <2>2, <3>1 DEF BooksKept, IsPending
  <2>3. CASE ~ (c \in C /\ IsPending(p, c))
    <3>1. /\ q.pending[c] = p.pending[c]
          /\ q.finishes[c] = p.finishes[c] /\ q.outcome[c] = p.outcome[c]
      BY <1>1, <2>3, EndedCommands DEF q
    <3>2. QED
      BY <1>3, <2>1, <2>3, <3>1 DEF BooksKept, IsPending
  <2>4. QED
    BY <2>2, <2>3
<1>5. QED
  BY <1>2, <1>4 DEF q, Booked

\* If what stays pending is current, it still is once the others have ended.
LEMMA EndedSound ==
  ASSUME NEW p, Booked(p), NEW C,
         \A c \in Command : IsPending(p, c) /\ c \notin C => IsCurrent(p, c)
  PROVE  Sound(Ended(p, C))
<1> DEFINE q == Ended(p, C)
<1>1. p \in CoreState
  BY DEF Booked
<1>2. /\ q.providers = p.providers /\ q.approval = p.approval
      /\ q.authorizationGeneration = p.authorizationGeneration
      /\ q.withdrawn = p.withdrawn /\ q.readable = p.readable /\ q.writable = p.writable
  BY <1>1, EndedFields
<1>3. Booked(q) /\ \A c \in Command : IsPending(q, c) <=> IsPending(p, c) /\ c \notin C
  BY EndedBooked
<1>4. ASSUME NEW c \in Command, IsPending(q, c)
      PROVE  IsCurrent(q, c)
  <2>1. IsPending(p, c) /\ c \notin C /\ IsCurrent(p, c)
    BY <1>3, <1>4
  <2>2. q.pending[c] = p.pending[c]
    BY <1>1, <2>1, EndedCommands
  <2> HIDE DEF q
  <2>3. QED
    BY <1>2, <2>1, <2>2 DEF IsCurrent, Permitted
<1>5. QED
  BY <1>3, <1>4 DEF Sound

LEMMA UnapprovedSound ==
  ASSUME NEW p, Booked(p)
  PROVE  Sound(Unapproved(p)) /\ \A c \in Command : ~ IsPending(Unapproved(p), c)
<1> DEFINE g == p.authorizationGeneration + 1
           q == [p EXCEPT !.approval = NoApproval, !.authorizationGeneration = g]
<1>1. p \in CoreState
  BY DEF Booked
<1>2. q \in CoreState
  <2>1. NoApproval \in Approval
    BY DEF NoApproval, Approval
  <2>2. g \in Nat
    BY <1>1 DEF CoreState
  <2> HIDE DEF g
  <2>3. QED
    BY <1>1, <2>1, <2>2 DEF CoreState
<1>3. \A c \in Command : BooksKept(q, c)
  BY <1>1 DEF Booked, BooksKept, CoreState
<1>4. Unapproved(p) = Ended(q, Command)
  BY DEF Unapproved
<1> HIDE DEF q
<1>5. Booked(q)
  BY <1>2, <1>3 DEF Booked
<1>6. QED
  BY <1>4, <1>5, EndedSound, EndedBooked

LEMMA ExpiredSound ==
  ASSUME NEW p, Sound(p)
  PROVE  Sound(Expired(p))
<1> DEFINE q == IF p.approval # NoApproval /\ p.approval.left = 0 THEN Unapproved(p) ELSE p
<1>1. Sound(q)
  BY UnapprovedSound DEF Sound
<1>2. Expired(p) = Ended(q, {c \in Command : q.pending[c].left = 0})
  BY DEF Expired
<1> HIDE DEF q
<1>3. QED
  BY <1>1, <1>2, EndedSound DEF Sound

\* A change of fields that neither the books nor the authority of the pending
\* requests speak of.
LEMMA AsideSound ==
  ASSUME NEW p, NEW q, Sound(p), q \in CoreState,
         q.pending = p.pending, q.finishes = p.finishes, q.outcome = p.outcome,
         q.sent = p.sent, q.unsettled = p.unsettled,
         q.approval = p.approval, q.authorizationGeneration = p.authorizationGeneration,
         q.withdrawn = p.withdrawn, q.readable = p.readable, q.writable = p.writable,
         q.providers = p.providers
  PROVE  Sound(q)
BY DEF Sound, Booked, BooksKept, IsPending, IsCurrent, Permitted

-----------------------------------------------------------------------------
(* Providers and the operator. *)

LEMMA ConnectSound ==
  ASSUME Sound(core), NEW f \in Profile, Connect(f)
  PROVE  Sound(core')
<1>1. core \in CoreState
  BY DEF Sound, Booked
<1> DEFINE n == core.providerGeneration + 1
<1>2. n \in Nat /\ n # 0 /\ core.providers[f] = 0
  BY <1>1 DEF CoreState, Connect
<1>3. CASE core' = [core EXCEPT !.providerGeneration = n]
  <2>1. core' \in CoreState
    BY <1>1, <1>2, <1>3 DEF CoreState
  <2>2. QED
    BY <1>1, <1>3, <2>1, AsideSound DEF CoreState
<1>4. CASE core' = [core EXCEPT !.providerGeneration = n, !.known = @ \union {f},
                                !.providers[f] = n]
  <2>1. core' \in CoreState
    BY <1>1, <1>2, <1>4 DEF CoreState
  <2>2. /\ core'.pending = core.pending /\ core'.finishes = core.finishes
        /\ core'.outcome = core.outcome /\ core'.sent = core.sent
        /\ core'.unsettled = core.unsettled
        /\ core'.approval = core.approval
        /\ core'.authorizationGeneration = core.authorizationGeneration
        /\ core'.withdrawn = core.withdrawn
        /\ core'.readable = core.readable /\ core'.writable = core.writable
        /\ \A g \in Profile : g # f => core'.providers[g] = core.providers[g]
    BY <1>1, <1>4 DEF CoreState
  <2>3. ASSUME NEW c \in Command, IsPending(core, c)
        PROVE  IsCurrent(core', c)
    <3>1. IsCurrent(core, c)
      BY <2>3 DEF Sound
    <3>2. Request[c].profile # f
      BY <1>2, <3>1 DEF IsCurrent
    <3>3. QED
      BY <2>2, <3>1, <3>2, RequestTyped DEF IsCurrent, Permitted
  <2>4. QED
    BY <2>1, <2>2, <2>3 DEF Sound, Booked, BooksKept, IsPending
<1>5. QED
  BY <1>3, <1>4 DEF Connect

LEMMA ApprovedSound ==
  ASSUME NEW p, Sound(p), NEW S \in SUBSET Profile, NEW d \in Nat, NEW devtools \in BOOLEAN
  PROVE  Sound(Approved(p, S, d, devtools))
<1> DEFINE q == Unapproved(Expired(p))
           a == [generation |-> q.authorizationGeneration, profiles |-> S,
                 left |-> d, devtools |-> devtools]
<1>1. Booked(q) /\ \A c \in Command : ~ IsPending(q, c)
  BY ExpiredSound, UnapprovedSound DEF Sound
<1>2. Approved(p, S, d, devtools) = [q EXCEPT !.withdrawn = {}, !.approval = a]
  BY DEF Approved
<1>3. q \in CoreState
  BY <1>1 DEF Booked
<1>4. a \in Approval
  BY <1>3 DEF Approval, CoreState
<1> HIDE DEF q, a
<1> DEFINE r == [q EXCEPT !.withdrawn = {}, !.approval = a]
<1>5. r \in CoreState
  BY <1>3, <1>4 DEF CoreState
<1>6. /\ r.pending = q.pending /\ r.finishes = q.finishes /\ r.outcome = q.outcome
      /\ r.sent = q.sent /\ r.unsettled = q.unsettled
  BY <1>3 DEF CoreState
<1> HIDE DEF r
<1>7. QED
  BY <1>1, <1>2, <1>5, <1>6 DEF r, Sound, Booked, BooksKept, IsPending

LEMMA WithdrawSound ==
  ASSUME Sound(core), NEW f \in Profile, Withdraw(f)
  PROVE  Sound(core')
<1> DEFINE p == Expired(core)
           C == {c \in Command : p.pending[c].connection = p.providers[f]}
           w == p.withdrawn \union {f}
           v == [p.withdrawalVersions EXCEPT ![f] = @ + 1]
           q == [p EXCEPT !.withdrawn = w, !.withdrawalVersions = v]
<1>1. Sound(p)
  BY ExpiredSound
<1>2. p \in CoreState
  BY <1>1 DEF Sound, Booked
<1>3. core' = Ended(q, C)
  BY DEF Withdraw
<1> HIDE DEF p, C
<1>4. q \in CoreState
  <2>1. w \in SUBSET Profile /\ v \in [Profile -> Nat]
    BY <1>2 DEF CoreState
  <2> HIDE DEF w, v
  <2>2. QED
    BY <1>2, <2>1 DEF CoreState
<1>5. /\ q.pending = p.pending /\ q.finishes = p.finishes /\ q.outcome = p.outcome
      /\ q.sent = p.sent /\ q.unsettled = p.unsettled
      /\ q.approval = p.approval /\ q.authorizationGeneration = p.authorizationGeneration
      /\ q.readable = p.readable /\ q.writable = p.writable /\ q.providers = p.providers
      /\ q.withdrawn = p.withdrawn \union {f}
  BY <1>2 DEF CoreState
<1> HIDE DEF q
<1>6. Booked(q)
  BY <1>1, <1>4, <1>5 DEF Sound, Booked, BooksKept
<1>7. ASSUME NEW c \in Command, IsPending(q, c), c \notin C
      PROVE  IsCurrent(q, c)
  <2>1. IsCurrent(p, c)
    BY <1>1, <1>5, <1>7 DEF Sound, IsPending
  <2>2. Request[c].profile # f
    BY <1>7, <2>1 DEF C, IsCurrent
  <2>3. QED
    BY <1>5, <2>1, <2>2 DEF IsCurrent, Permitted
<1>8. QED
  BY <1>3, <1>6, <1>7, EndedSound

LEMMA DisconnectSound ==
  ASSUME Sound(core), NEW f \in Profile, Disconnect(f)
  PROVE  Sound(core')
<1> DEFINE p == Expired(core)
           C == {c \in Command : p.pending[c].connection = p.providers[f]}
           q == [p EXCEPT !.providers[f] = 0]
<1>1. Sound(p)
  BY ExpiredSound
<1>2. p \in CoreState
  BY <1>1 DEF Sound, Booked
<1>3. core' = Ended(q, C)
  BY DEF Disconnect
<1> HIDE DEF p, C
<1>4. q \in CoreState
  BY <1>2 DEF CoreState
<1>5. /\ q.pending = p.pending /\ q.finishes = p.finishes /\ q.outcome = p.outcome
      /\ q.sent = p.sent /\ q.unsettled = p.unsettled
      /\ q.approval = p.approval /\ q.authorizationGeneration = p.authorizationGeneration
      /\ q.readable = p.readable /\ q.writable = p.writable /\ q.withdrawn = p.withdrawn
      /\ \A g \in Profile : g # f => q.providers[g] = p.providers[g]
  BY <1>2 DEF CoreState
<1> HIDE DEF q
<1>6. Booked(q)
  BY <1>1, <1>4, <1>5 DEF Sound, Booked, BooksKept
<1>7. ASSUME NEW c \in Command, IsPending(q, c), c \notin C
      PROVE  IsCurrent(q, c)
  <2>1. IsCurrent(p, c)
    BY <1>1, <1>5, <1>7 DEF Sound, IsPending
  <2>2. Request[c].profile # f
    BY <1>7, <2>1 DEF C, IsCurrent
  <2>3. QED
    BY <1>5, <2>1, <2>2, RequestTyped DEF IsCurrent, Permitted
<1>8. QED
  BY <1>3, <1>6, <1>7, EndedSound

LEMMA RetireSound ==
  ASSUME Sound(core), NEW n \in Nat, Retire(n)
  PROVE  Sound(core')
<1> DEFINE u == {c \in core.unsettled : core.pending[c].connection # n}
<1>1. core \in CoreState
  BY DEF Sound, Booked
<1>2. core' = [core EXCEPT !.unsettled = u]
  BY DEF Retire
<1>3. u \in SUBSET Command
  BY <1>1 DEF CoreState
<1>4. ASSUME NEW c \in Command, core.pending[c].phase = "dispatched", c \in core.unsettled
      PROVE  c \in u
  <2>1. IsCurrent(core, c)
    BY <1>4 DEF Sound, IsPending
  <2>2. core.pending[c].connection \in {core.providers[f] : f \in Profile}
    BY <2>1, RequestTyped DEF IsCurrent
  <2>3. QED
    BY <1>4, <2>2 DEF Retire
<1>5. u \subseteq core.unsettled
  OBVIOUS
<1> HIDE DEF u
<1>6. core' \in CoreState
  BY <1>1, <1>2, <1>3 DEF CoreState
<1>7. /\ core'.pending = core.pending /\ core'.finishes = core.finishes
      /\ core'.outcome = core.outcome /\ core'.sent = core.sent /\ core'.unsettled = u
      /\ core'.approval = core.approval
      /\ core'.authorizationGeneration = core.authorizationGeneration
      /\ core'.withdrawn = core.withdrawn /\ core'.providers = core.providers
      /\ core'.readable = core.readable /\ core'.writable = core.writable
  BY <1>1, <1>2 DEF CoreState
<1>8. \A c \in Command : BooksKept(core', c)
  BY <1>4, <1>5, <1>7 DEF Sound, Booked, BooksKept
<1>9. QED
  BY <1>6, <1>7, <1>8 DEF Sound, Booked, IsPending, IsCurrent, Permitted

LEMMA AvailabilitySound ==
  ASSUME Sound(core), NEW v \in Availabilities, Availability(v)
  PROVE  Sound(core')
<1> DEFINE p == Expired(core)
           g == p.authorizationGeneration + 1
           q == [p EXCEPT !.readable = v.readable, !.writable = v.writable,
                          !.authorizationGeneration = g]
<1>1. Sound(p)
  BY ExpiredSound
<1>2. p \in CoreState
  BY <1>1 DEF Sound, Booked
<1>3. core' = Ended(q, Command)
  BY DEF Availability
<1>4. g \in Nat
  BY <1>2 DEF CoreState
<1>5. v.readable \in BOOLEAN /\ v.writable \in BOOLEAN
  BY InputsAreTyped
<1> HIDE DEF p, g
<1>6. q \in CoreState
  BY <1>2, <1>4, <1>5 DEF CoreState
<1>7. /\ q.pending = p.pending /\ q.finishes = p.finishes /\ q.outcome = p.outcome
      /\ q.sent = p.sent /\ q.unsettled = p.unsettled
  BY <1>2 DEF CoreState
<1> HIDE DEF q
<1>8. Booked(q)
  BY <1>1, <1>6, <1>7 DEF Sound, Booked, BooksKept
<1>9. QED
  BY <1>3, <1>8, EndedSound

\* A change of the checkpoints alone.
LEMMA CheckpointsSound ==
  ASSUME Sound(core), NEW x \in [Token -> Checkpointed]
  PROVE  Sound([core EXCEPT !.checkpoints = x])
<1> DEFINE q == [core EXCEPT !.checkpoints = x]
<1>1. core \in CoreState
  BY DEF Sound, Booked
<1>2. q \in CoreState
  BY <1>1 DEF CoreState
<1>3. /\ q.pending = core.pending /\ q.finishes = core.finishes /\ q.outcome = core.outcome
      /\ q.sent = core.sent /\ q.unsettled = core.unsettled
      /\ q.approval = core.approval
      /\ q.authorizationGeneration = core.authorizationGeneration
      /\ q.withdrawn = core.withdrawn /\ q.readable = core.readable
      /\ q.writable = core.writable /\ q.providers = core.providers
  BY <1>1 DEF CoreState
<1> HIDE DEF q
<1>4. Sound(q)
  BY <1>2, <1>3, AsideSound
<1>5. QED
  BY <1>4 DEF q

LEMMA UnsavedTyped == Unsaved \in Checkpointed
BY DEF Unsaved, Checkpointed, Dropped

LEMMA StopSound ==
  ASSUME Sound(core), Stop
  PROVE  Sound(core')
<1> DEFINE x == [k \in Token |-> Unsaved]
<1>1. x \in [Token -> Checkpointed]
  BY UnsavedTyped
<1>2. core' = Unapproved([core EXCEPT !.checkpoints = x])
  BY DEF Stop
<1> HIDE DEF x
<1>3. QED
  BY <1>1, <1>2, CheckpointsSound, UnapprovedSound DEF Sound

LEMMA CheckpointSound ==
  ASSUME Sound(core), NEW k \in Token, Checkpoint(k)
  PROVE  Sound(core')
<1> DEFINE w == [f \in Profile |-> IF f \in core.approval.profiles \ core.withdrawn
                                   THEN core.withdrawalVersions[f] ELSE Dropped]
           y == [saved |-> TRUE, left |-> core.approval.left,
                 devtools |-> core.approval.devtools, withdrawals |-> w]
           x == [core.checkpoints EXCEPT ![k] = y]
<1>1. core \in CoreState
  BY DEF Sound, Booked
<1>2. w \in [Profile -> Nat \union {Dropped}]
  BY <1>1 DEF CoreState
<1>3. core.approval.left \in Nat /\ core.approval.devtools \in BOOLEAN
  BY <1>1 DEF CoreState, Approval
<1>4. core' = [core EXCEPT !.checkpoints = x]
  BY DEF Checkpoint
<1> HIDE DEF w
<1>5. y \in Checkpointed
  BY <1>2, <1>3 DEF Checkpointed
<1> HIDE DEF y
<1>6. x \in [Token -> Checkpointed]
  BY <1>1, <1>5 DEF CoreState
<1>7. QED
  BY <1>4, <1>6, CheckpointsSound

LEMMA RestoreSound ==
  ASSUME Sound(core), NEW k \in Token, Restore(k)
  PROVE  Sound(core')
<1> DEFINE x == [core.checkpoints EXCEPT ![k] = Unsaved]
           p == [core EXCEPT !.checkpoints = x]
           saved == core.checkpoints[k]
           S == Unwithdrawn(core, k)
<1>1. core.checkpoints \in [Token -> Checkpointed]
  BY DEF Sound, Booked, CoreState
<1>2. saved.left \in Nat /\ saved.devtools \in BOOLEAN
  BY <1>1 DEF Checkpointed
<1>3. x \in [Token -> Checkpointed]
  BY <1>1, UnsavedTyped
<1>4. core' = IF saved.left = 0 \/ S = {} THEN Unapproved(p)
              ELSE Approved(p, S, saved.left, saved.devtools)
  BY DEF Restore
<1>5. S \in SUBSET Profile
  BY DEF Unwithdrawn
<1> HIDE DEF x
<1>6. Sound(p)
  BY <1>3, CheckpointsSound
<1> HIDE DEF p, saved, S
<1>7. QED
  BY <1>2, <1>4, <1>5, <1>6, UnapprovedSound, ApprovedSound DEF Sound

-----------------------------------------------------------------------------
(* Requests, fences and time. *)

LEMMA RequestSound ==
  ASSUME Sound(core), NEW c \in Command, RequestAccepted(c)
  PROVE  Sound(core')
<1> DEFINE p == Expired(core)
           r == Request[c]
           i == [phase |-> "queued", connection |-> p.providers[r.profile],
                 approval |-> p.approval.generation,
                 generation |-> p.authorizationGeneration, left |-> r.timeout]
           x == [p.pending EXCEPT ![c] = i]
           y == p.dispatches \union {c}
<1>1. Sound(p) /\ core \in CoreState
  BY ExpiredSound DEF Sound, Booked
<1>2. p \in CoreState
  BY <1>1 DEF Sound, Booked
<1>3. core' = [p EXCEPT !.dispatches = y, !.pending = x]
  BY DEF RequestAccepted
<1>4. Acceptable(p, c)
  BY DEF RequestAccepted
<1>5. p.pending[c].phase = "new"
  <2>1. core.pending[c].phase = "new"
    BY DEF RequestAccepted
  <2>2. p.pending[c] = core.pending[c]
    <3> DEFINE u == Unapproved(core)
               g == [core EXCEPT !.approval = NoApproval, !.authorizationGeneration = @ + 1]
    <3>1. ~ IsPending(core, c)
      BY <2>1 DEF IsPending
    <3>2. u \in CoreState /\ ~ IsPending(u, c)
      BY UnapprovedSound DEF Sound, Booked
    <3>3. g \in CoreState /\ g.pending = core.pending /\ u = Ended(g, Command)
      <4>1. NoApproval \in Approval /\ core.authorizationGeneration + 1 \in Nat
        BY <1>1 DEF NoApproval, Approval, CoreState
      <4>2. g.pending = core.pending
        BY <1>1 DEF CoreState
      <4>3. g \in CoreState
        BY <1>1, <4>1 DEF CoreState
      <4>4. QED
        BY <4>2, <4>3 DEF Unapproved
    <3> HIDE DEF g
    <3>4. ~ IsPending(g, c)
      BY <3>1, <3>3 DEF IsPending
    <3>5. u.pending[c] = core.pending[c]
      BY <3>3, <3>4, EndedCommands
    <3> HIDE DEF u
    <3>6. QED
      BY <1>1, <3>1, <3>2, <3>5, EndedCommands DEF Expired, u
  <2>3. QED
    BY <2>1, <2>2
<1>6. r.profile \in Profile /\ r.timeout \in Nat
  BY RequestTyped
<1> HIDE DEF p, r
<1>7. i \in Pending
  <2>1. /\ p.providers[r.profile] \in Nat /\ p.authorizationGeneration \in Nat
        /\ p.approval.generation \in Nat
    BY <1>2, <1>6 DEF CoreState, Approval
  <2>2. QED
    BY <1>6, <2>1 DEF Pending
<1>8. x \in [Command -> Pending] /\ y \in SUBSET Command
  <2> HIDE DEF i
  <2>1. QED
    BY <1>2, <1>7 DEF CoreState
<1>9. x[c] = i /\ \A b \in Command : b # c => x[b] = p.pending[b]
  BY <1>2 DEF CoreState
<1> HIDE DEF x, y
<1>10. core' \in CoreState
  BY <1>2, <1>3, <1>8 DEF CoreState
<1>11. /\ core'.pending = x /\ core'.finishes = p.finishes /\ core'.outcome = p.outcome
       /\ core'.sent = p.sent /\ core'.unsettled = p.unsettled
       /\ core'.approval = p.approval
       /\ core'.authorizationGeneration = p.authorizationGeneration
       /\ core'.withdrawn = p.withdrawn /\ core'.providers = p.providers
       /\ core'.readable = p.readable /\ core'.writable = p.writable
  BY <1>2, <1>3 DEF CoreState
<1>12. BooksKept(core', c)
  BY <1>1, <1>5, <1>9, <1>11 DEF Sound, Booked, BooksKept
<1>13. IsCurrent(core', c)
  <2>1. p.approval # NoApproval
    BY <1>4 DEF Acceptable, NoApproval, r
  <2>2. QED
    BY <1>4, <1>9, <1>11, <2>1 DEF Acceptable, IsCurrent, Permitted, r
<1>14. ASSUME NEW b \in Command, b # c
       PROVE  BooksKept(core', b) /\ (IsPending(core', b) => IsCurrent(core', b))
  <2>1. core'.pending[b] = p.pending[b]
    BY <1>9, <1>11, <1>14
  <2>2. BooksKept(p, b) /\ (IsPending(p, b) => IsCurrent(p, b))
    BY <1>1 DEF Sound, Booked
  <2>3. QED
    BY <1>11, <2>1, <2>2 DEF BooksKept, IsPending, IsCurrent, Permitted
<1>15. QED
  BY <1>10, <1>12, <1>13, <1>14 DEF Sound, Booked

\* One command moves on; the fields of the others and the authority stay.
LEMMA CommandSound ==
  ASSUME NEW p, Sound(p), NEW q, q \in CoreState, NEW c \in Command,
         BooksKept(q, c), IsPending(q, c) => IsPending(p, c),
         q.pending[c].connection = p.pending[c].connection,
         q.pending[c].approval = p.pending[c].approval,
         q.pending[c].generation = p.pending[c].generation,
         \A b \in Command : b # c =>
           /\ q.pending[b] = p.pending[b] /\ q.finishes[b] = p.finishes[b]
           /\ q.outcome[b] = p.outcome[b]
           /\ (b \in q.sent <=> b \in p.sent)
           /\ (b \in q.unsettled <=> b \in p.unsettled),
         q.approval = p.approval, q.authorizationGeneration = p.authorizationGeneration,
         q.withdrawn = p.withdrawn, q.readable = p.readable, q.writable = p.writable,
         q.providers = p.providers
  PROVE  Sound(q)
<1>1. ASSUME NEW b \in Command
      PROVE  BooksKept(q, b) /\ (IsPending(q, b) => IsCurrent(q, b))
  <2>1. BooksKept(p, b) /\ (IsPending(p, b) => IsCurrent(p, b))
    BY DEF Sound, Booked
  <2>2. CASE b = c
    BY <2>1, <2>2 DEF IsCurrent, Permitted
  <2>3. CASE b # c
    BY <2>1, <2>3 DEF BooksKept, IsPending, IsCurrent, Permitted
  <2>4. QED
    BY <2>2, <2>3
<1>2. QED
  BY <1>1 DEF Sound, Booked

LEMMA BeginSound ==
  ASSUME Sound(core), NEW c \in Command, Begin(c)
  PROVE  Sound(core')
<1> DEFINE e == Expired(core)
           y == e.dispatches \ {c}
           p == [e EXCEPT !.dispatches = y]
           x == [p.pending EXCEPT ![c].phase = "dispatched"]
           u == p.unsettled \union {c}
           v == p.sent \union {c}
           q == [p EXCEPT !.pending = x, !.unsettled = u, !.sent = v]
<1>1. Sound(e)
  BY ExpiredSound
<1>2. e \in CoreState
  BY <1>1 DEF Sound, Booked
<1>3. core' = IF p.pending[c].phase # "queued" THEN p
              ELSE IF ~ StillAuthorized(p, c) THEN Ended(p, {c}) ELSE q
  BY DEF Begin
<1> HIDE DEF e
<1>4. Sound(p)
  <2>1. y \in SUBSET Command
    BY <1>2 DEF CoreState
  <2> HIDE DEF y
  <2>2. p \in CoreState
    BY <1>2, <2>1 DEF CoreState
  <2>3. /\ p.pending = e.pending /\ p.finishes = e.finishes /\ p.outcome = e.outcome
        /\ p.sent = e.sent /\ p.unsettled = e.unsettled
        /\ p.approval = e.approval /\ p.authorizationGeneration = e.authorizationGeneration
        /\ p.withdrawn = e.withdrawn /\ p.readable = e.readable /\ p.writable = e.writable
        /\ p.providers = e.providers
    BY <1>2 DEF CoreState
  <2> HIDE DEF p
  <2>4. QED
    BY <1>1, <2>2, <2>3, AsideSound
<1> HIDE DEF p
<1>5. p \in CoreState /\ p.pending[c] \in Pending
  BY <1>4 DEF Sound, Booked, CoreState
<1>6. Sound(Ended(p, {c}))
  BY <1>4, EndedSound DEF Sound
<1>7. ASSUME p.pending[c].phase = "queued"
      PROVE  Sound(q)
  <2>1. x \in [Command -> Pending] /\ u \in SUBSET Command /\ v \in SUBSET Command
    <3>1. [p.pending[c] EXCEPT !.phase = "dispatched"] \in Pending
      BY <1>5 DEF Pending
    <3>2. QED
      BY <1>5, <3>1 DEF CoreState
  <2>2. /\ x[c].phase = "dispatched" /\ x[c].connection = p.pending[c].connection
        /\ x[c].approval = p.pending[c].approval
        /\ x[c].generation = p.pending[c].generation
        /\ \A b \in Command : b # c => x[b] = p.pending[b]
    <3>1. x[c] = [p.pending[c] EXCEPT !.phase = "dispatched"]
      BY <1>5 DEF CoreState
    <3>2. \A b \in Command : b # c => x[b] = p.pending[b]
      BY <1>5 DEF CoreState
    <3> HIDE DEF x
    <3>3. QED
      BY <1>5, <3>1, <3>2 DEF Pending
  <2>3. /\ c \in u /\ c \in v
        /\ \A b \in Command : b # c => (b \in u <=> b \in p.unsettled)
        /\ \A b \in Command : b # c => (b \in v <=> b \in p.sent)
    OBVIOUS
  <2> HIDE DEF x, u, v
  <2>4. q \in CoreState
    BY <1>5, <2>1 DEF CoreState
  <2>5. /\ q.pending = x /\ q.finishes = p.finishes /\ q.outcome = p.outcome
        /\ q.sent = v /\ q.unsettled = u
        /\ q.approval = p.approval /\ q.authorizationGeneration = p.authorizationGeneration
        /\ q.withdrawn = p.withdrawn /\ q.readable = p.readable /\ q.writable = p.writable
        /\ q.providers = p.providers
    BY <1>5 DEF CoreState
  <2> HIDE DEF q
  <2>6. BooksKept(q, c)
    <3>1. BooksKept(p, c)
      BY <1>4 DEF Sound, Booked
    <3>2. QED
      BY <1>7, <2>2, <2>3, <2>5, <3>1 DEF BooksKept
  <2>7. IsPending(p, c)
    BY <1>7 DEF IsPending
  <2>8. /\ q.pending[c].connection = p.pending[c].connection
        /\ q.pending[c].approval = p.pending[c].approval
        /\ q.pending[c].generation = p.pending[c].generation
    BY <2>2, <2>5
  <2>9. \A b \in Command : b # c =>
          /\ q.pending[b] = p.pending[b] /\ q.finishes[b] = p.finishes[b]
          /\ q.outcome[b] = p.outcome[b]
          /\ (b \in q.sent <=> b \in p.sent)
          /\ (b \in q.unsettled <=> b \in p.unsettled)
    BY <2>2, <2>3, <2>5
  <2>10. QED
    BY <1>4, <2>4, <2>5, <2>6, <2>7, <2>8, <2>9, CommandSound
<1>8. QED
  BY <1>3, <1>4, <1>6, <1>7

LEMMA CompleteSound ==
  ASSUME Sound(core), NEW c \in Command, NEW reply \in {"confirmed", "declined", "unknown"},
         Complete(c, reply)
  PROVE  Sound(core')
<1> DEFINE p == Expired(core)
           u == p.unsettled \ {c}
           x == [p.pending EXCEPT ![c] = [p.pending[c] EXCEPT !.phase = "ended", !.left = 0]]
           n == [p.finishes EXCEPT ![c] = @ + 1]
           o == [p.outcome EXCEPT ![c] = reply]
           freed == [p EXCEPT !.unsettled = u]
           over == [p EXCEPT !.unsettled = u, !.finishes = n, !.outcome = o, !.pending = x]
<1>1. Sound(p)
  BY ExpiredSound
<1>2. core' = IF c \notin p.unsettled THEN p ELSE IF ~ IsPending(p, c) THEN freed ELSE over
  BY DEF Complete, Replied
<1> HIDE DEF p
<1>3. p \in CoreState /\ p.pending[c] \in Pending /\ BooksKept(p, c)
  BY <1>1 DEF Sound, Booked, CoreState
<1>4. /\ u \in SUBSET Command /\ c \notin u
      /\ \A b \in Command : b # c => (b \in u <=> b \in p.unsettled)
  BY <1>3 DEF CoreState
<1>5. ASSUME c \in p.unsettled, ~ IsPending(p, c)
      PROVE  Sound(freed)
  <2> HIDE DEF u
  <2>1. freed \in CoreState
    BY <1>3, <1>4 DEF CoreState
  <2>2. /\ freed.pending = p.pending /\ freed.finishes = p.finishes
        /\ freed.outcome = p.outcome /\ freed.sent = p.sent /\ freed.unsettled = u
        /\ freed.approval = p.approval
        /\ freed.authorizationGeneration = p.authorizationGeneration
        /\ freed.withdrawn = p.withdrawn /\ freed.readable = p.readable
        /\ freed.writable = p.writable /\ freed.providers = p.providers
    BY <1>3 DEF CoreState
  <2> HIDE DEF freed
  <2>3. BooksKept(freed, c) /\ (IsPending(freed, c) => IsPending(p, c))
    BY <1>3, <1>4, <1>5, <2>2 DEF BooksKept, IsPending
  <2>4. \A b \in Command : b # c =>
          /\ freed.pending[b] = p.pending[b] /\ freed.finishes[b] = p.finishes[b]
          /\ freed.outcome[b] = p.outcome[b]
          /\ (b \in freed.sent <=> b \in p.sent)
          /\ (b \in freed.unsettled <=> b \in p.unsettled)
    BY <1>4, <2>2
  <2>5. QED
    BY <1>1, <2>1, <2>2, <2>3, <2>4, CommandSound
<1>6. ASSUME c \in p.unsettled, IsPending(p, c)
      PROVE  Sound(over)
  <2>1. x \in [Command -> Pending]
    <3>1. [p.pending[c] EXCEPT !.phase = "ended", !.left = 0] \in Pending
      BY <1>3 DEF Pending
    <3>2. QED
      BY <1>3, <3>1 DEF CoreState
  <2>2. /\ x[c].phase = "ended" /\ x[c].connection = p.pending[c].connection
        /\ x[c].approval = p.pending[c].approval
        /\ x[c].generation = p.pending[c].generation
        /\ \A b \in Command : b # c => x[b] = p.pending[b]
    <3>1. x[c] = [p.pending[c] EXCEPT !.phase = "ended", !.left = 0]
      BY <1>3 DEF CoreState
    <3>2. \A b \in Command : b # c => x[b] = p.pending[b]
      BY <1>3 DEF CoreState
    <3> HIDE DEF x
    <3>3. QED
      BY <1>3, <3>1, <3>2 DEF Pending
  <2>3. /\ n \in [Command -> Nat] /\ n[c] = p.finishes[c] + 1
        /\ \A b \in Command : b # c => n[b] = p.finishes[b]
    BY <1>3 DEF CoreState
  <2>4. /\ o \in [Command -> {"none", "refused", "unknown", "declined", "confirmed"}]
        /\ o[c] = reply /\ \A b \in Command : b # c => o[b] = p.outcome[b]
    BY <1>3 DEF CoreState
  <2> HIDE DEF x, n, o, u
  <2>5. over \in CoreState
    <3> DEFINE half == [p EXCEPT !.unsettled = u, !.finishes = n]
    <3>1. half \in CoreState
      BY <1>3, <1>4, <2>3 DEF CoreState
    <3>2. over = [half EXCEPT !.outcome = o, !.pending = x]
      OBVIOUS
    <3> HIDE DEF half
    <3>3. [half EXCEPT !.outcome = o] \in CoreState
      BY <2>4, <3>1 DEF CoreState
    <3>4. ASSUME NEW r \in CoreState PROVE [r EXCEPT !.pending = x] \in CoreState
      BY <2>1 DEF CoreState
    <3>5. over = [[half EXCEPT !.outcome = o] EXCEPT !.pending = x]
      BY <3>2
    <3>6. QED
      BY <3>3, <3>4, <3>5
  <2>6. /\ over.pending = x /\ over.finishes = n /\ over.outcome = o
        /\ over.sent = p.sent /\ over.unsettled = u
        /\ over.approval = p.approval
        /\ over.authorizationGeneration = p.authorizationGeneration
        /\ over.withdrawn = p.withdrawn /\ over.readable = p.readable
        /\ over.writable = p.writable /\ over.providers = p.providers
    BY <1>3 DEF CoreState
  <2> HIDE DEF over
  <2>7. BooksKept(over, c)
    BY <1>3, <1>4, <1>6, <2>2, <2>3, <2>4, <2>6 DEF BooksKept, IsPending
  <2>8. /\ over.pending[c].connection = p.pending[c].connection
        /\ over.pending[c].approval = p.pending[c].approval
        /\ over.pending[c].generation = p.pending[c].generation
    BY <2>2, <2>6
  <2>9. \A b \in Command : b # c =>
          /\ over.pending[b] = p.pending[b] /\ over.finishes[b] = p.finishes[b]
          /\ over.outcome[b] = p.outcome[b]
          /\ (b \in over.sent <=> b \in p.sent)
          /\ (b \in over.unsettled <=> b \in p.unsettled)
    BY <1>4, <2>2, <2>3, <2>4, <2>6
  <2>10. QED
    BY <1>1, <1>6, <2>5, <2>6, <2>7, <2>8, <2>9, CommandSound
<1> HIDE DEF freed, over
<1>7. QED
  BY <1>1, <1>2, <1>5, <1>6

LEMMA FenceSound ==
  ASSUME Sound(core), NEW f \in Profile, NEW r \in Streams, Fence(f, r)
  PROVE  Sound(core')
<1> DEFINE x == core.fences \union {[connection |-> core.providers[f],
                                     generation |-> core.authorizationGeneration]}
<1>1. core \in CoreState
  BY DEF Sound, Booked
<1>2. core' = [core EXCEPT !.fences = x]
  BY DEF Fence
<1>3. x \in SUBSET [connection : Nat, generation : Nat]
  BY <1>1 DEF CoreState
<1> HIDE DEF x
<1>4. core' \in CoreState
  BY <1>1, <1>2, <1>3 DEF CoreState
<1>5. QED
  BY <1>1, <1>2, <1>4, AsideSound DEF CoreState

\* What the passing of time changes: the time left of the approval, of the
\* requests and of what was saved.
LEMMA AgedFields ==
  ASSUME NEW p \in CoreState, NEW d \in Nat
  PROVE  LET q == AgedCore(p, d)
         IN  /\ q \in CoreState
             /\ q.approval = [p.approval EXCEPT !.left = Aged(@, d)]
             /\ q.approval.generation = p.approval.generation
             /\ q.approval.profiles = p.approval.profiles
             /\ q.approval.devtools = p.approval.devtools
             /\ q.approval.left = Aged(p.approval.left, d)
             /\ \A c \in Command : /\ q.pending[c].phase = p.pending[c].phase
                                   /\ q.pending[c].connection = p.pending[c].connection
                                   /\ q.pending[c].approval = p.pending[c].approval
                                   /\ q.pending[c].generation = p.pending[c].generation
                                   /\ q.pending[c].left = Aged(p.pending[c].left, d)
             /\ \A t \in Token :
                  /\ q.checkpoints[t].left = Aged(p.checkpoints[t].left, d)
                  /\ q.checkpoints[t].devtools = p.checkpoints[t].devtools
                  /\ q.checkpoints[t].withdrawals = p.checkpoints[t].withdrawals
             /\ q.finishes = p.finishes /\ q.outcome = p.outcome
             /\ q.sent = p.sent /\ q.unsettled = p.unsettled
             /\ q.authorizationGeneration = p.authorizationGeneration
             /\ q.withdrawn = p.withdrawn /\ q.withdrawalVersions = p.withdrawalVersions
             /\ q.providers = p.providers /\ q.providerGeneration = p.providerGeneration
             /\ q.readable = p.readable /\ q.writable = p.writable /\ q.fences = p.fences
<1> DEFINE q == AgedCore(p, d)
           a == [p.approval EXCEPT !.left = Aged(@, d)]
           x == [c \in Command |-> [p.pending[c] EXCEPT !.left = Aged(@, d)]]
           k == [t \in Token |-> [p.checkpoints[t] EXCEPT !.left = Aged(@, d)]]
<1>1. q = [p EXCEPT !.approval = a, !.pending = x, !.checkpoints = k]
  BY DEF AgedCore, CoreState
<1>2. /\ a \in Approval /\ a.generation = p.approval.generation
      /\ a.profiles = p.approval.profiles /\ a.devtools = p.approval.devtools
      /\ a.left = Aged(p.approval.left, d)
  <2>1. p.approval \in Approval
    BY DEF CoreState
  <2>2. p.approval.left \in Nat
    BY <2>1 DEF Approval
  <2>3. QED
    BY <2>1, <2>2, AgedTyped DEF Approval
<1>3. ASSUME NEW c \in Command
      PROVE  /\ x[c] \in Pending
             /\ x[c].phase = p.pending[c].phase
             /\ x[c].connection = p.pending[c].connection
             /\ x[c].approval = p.pending[c].approval
             /\ x[c].generation = p.pending[c].generation
             /\ x[c].left = Aged(p.pending[c].left, d)
  <2>1. p.pending[c] \in Pending
    BY DEF CoreState
  <2>2. x[c] = [p.pending[c] EXCEPT !.left = Aged(@, d)]
    OBVIOUS
  <2>3. p.pending[c].left \in Nat
    BY <2>1 DEF Pending
  <2> HIDE DEF x
  <2>4. QED
    BY <2>1, <2>2, <2>3, AgedTyped DEF Pending
<1>4. ASSUME NEW t \in Token
      PROVE  /\ k[t] \in Checkpointed
             /\ k[t].left = Aged(p.checkpoints[t].left, d)
             /\ k[t].devtools = p.checkpoints[t].devtools
             /\ k[t].withdrawals = p.checkpoints[t].withdrawals
  <2>1. p.checkpoints[t] \in Checkpointed
    BY DEF CoreState
  <2>2. k[t] = [p.checkpoints[t] EXCEPT !.left = Aged(@, d)]
    OBVIOUS
  <2>3. p.checkpoints[t].left \in Nat
    BY <2>1 DEF Checkpointed
  <2> HIDE DEF k
  <2>4. QED
    BY <2>1, <2>2, <2>3, AgedTyped DEF Checkpointed
<1>5. x \in [Command -> Pending] /\ k \in [Token -> Checkpointed]
  BY <1>3, <1>4
<1> HIDE DEF q, a, x, k
<1>6. q \in CoreState
  BY <1>1, <1>2, <1>5 DEF CoreState
<1>7. /\ q.approval = a /\ q.pending = x /\ q.checkpoints = k
      /\ q.finishes = p.finishes /\ q.outcome = p.outcome
      /\ q.sent = p.sent /\ q.unsettled = p.unsettled
      /\ q.authorizationGeneration = p.authorizationGeneration
      /\ q.withdrawn = p.withdrawn /\ q.withdrawalVersions = p.withdrawalVersions
      /\ q.providers = p.providers /\ q.providerGeneration = p.providerGeneration
      /\ q.readable = p.readable /\ q.writable = p.writable /\ q.fences = p.fences
  BY <1>1 DEF CoreState
<1>8. /\ q.approval.generation = p.approval.generation
      /\ q.approval.profiles = p.approval.profiles
      /\ q.approval.devtools = p.approval.devtools
      /\ q.approval.left = Aged(p.approval.left, d)
  BY <1>2, <1>7
<1>9. \A c \in Command : /\ q.pending[c].phase = p.pending[c].phase
                         /\ q.pending[c].connection = p.pending[c].connection
                         /\ q.pending[c].approval = p.pending[c].approval
                         /\ q.pending[c].generation = p.pending[c].generation
                         /\ q.pending[c].left = Aged(p.pending[c].left, d)
  BY <1>3, <1>7
<1>10. \A t \in Token : /\ q.checkpoints[t].left = Aged(p.checkpoints[t].left, d)
                        /\ q.checkpoints[t].devtools = p.checkpoints[t].devtools
                        /\ q.checkpoints[t].withdrawals = p.checkpoints[t].withdrawals
  BY <1>4, <1>7
<1>11. q.approval = [p.approval EXCEPT !.left = Aged(@, d)]
  BY <1>7 DEF a
<1>12. QED
  BY <1>6, <1>7, <1>8, <1>9, <1>10, <1>11 DEF q

LEMMA AgedSound ==
  ASSUME NEW p, Sound(p), NEW d \in Nat
  PROVE  Sound(AgedCore(p, d))
<1> DEFINE q == AgedCore(p, d)
<1>1. p \in CoreState
  BY DEF Sound, Booked
<1>2. /\ q \in CoreState /\ q.approval.generation = p.approval.generation
      /\ q.approval.profiles = p.approval.profiles
      /\ q.approval.devtools = p.approval.devtools
      /\ \A c \in Command : /\ q.pending[c].phase = p.pending[c].phase
                            /\ q.pending[c].connection = p.pending[c].connection
                            /\ q.pending[c].approval = p.pending[c].approval
                            /\ q.pending[c].generation = p.pending[c].generation
      /\ q.finishes = p.finishes /\ q.outcome = p.outcome
      /\ q.sent = p.sent /\ q.unsettled = p.unsettled
      /\ q.authorizationGeneration = p.authorizationGeneration
      /\ q.withdrawn = p.withdrawn /\ q.providers = p.providers
      /\ q.readable = p.readable /\ q.writable = p.writable
  BY <1>1, AgedFields
<1> HIDE DEF q
<1>3. ASSUME NEW c \in Command
      PROVE  BooksKept(q, c) /\ (IsPending(q, c) => IsCurrent(q, c))
  <2>1. BooksKept(p, c) /\ (IsPending(p, c) => IsCurrent(p, c))
    BY DEF Sound, Booked
  <2>2. Request[c].profile \in p.approval.profiles => q.approval # NoApproval
    BY <1>2 DEF NoApproval
  <2>3. QED
    BY <1>2, <2>1, <2>2 DEF BooksKept, IsPending, IsCurrent, Permitted
<1>4. QED
  BY <1>2, <1>3 DEF q, Sound, Booked

-----------------------------------------------------------------------------
(* The invariant, and what follows from it. *)

LEMMA InitSound == Init => Sound(core)
<1> SUFFICES ASSUME Init PROVE Sound(core)
  OBVIOUS
<1>1. /\ NoApproval \in Approval /\ Unused \in Pending /\ Unsaved \in Checkpointed
  BY DEF NoApproval, Approval, Unused, Pending, Unsaved, Checkpointed, Dropped
<1>2. core \in CoreState
  BY <1>1 DEF Init, CoreState
<1>3. ASSUME NEW c \in Command
      PROVE  /\ core.pending[c].phase = "new" /\ core.finishes[c] = 0
             /\ core.outcome[c] = "none" /\ c \notin core.sent /\ c \notin core.unsettled
  BY DEF Init, Unused
<1>4. QED
  BY <1>2, <1>3 DEF Sound, Booked, BooksKept, IsPending

LEMMA StepSound == Sound(core) /\ [Next]_core => Sound(core')
<1> SUFFICES ASSUME Sound(core), [Next]_core PROVE Sound(core')
  OBVIOUS
<1>1. core \in CoreState
  BY DEF Sound, Booked
<1>2. CASE ProviderStep
  <2>1. \A n \in 1..core.providerGeneration : n \in Nat
    BY <1>1 DEF CoreState
  <2>2. QED
    BY <1>2, <2>1, ConnectSound, DisconnectSound, RetireSound, AvailabilitySound
       DEF ProviderStep
<1>3. CASE OperatorStep
  <2>1. ASSUME NEW S \in Grants, NEW d \in Durations, NEW devtools \in Scopes,
               Approve(S, d, devtools)
        PROVE  Sound(core')
    <3>1. S \in SUBSET Profile /\ d \in Nat /\ devtools \in BOOLEAN
      BY InputsAreTyped, LimitsAreNatural
    <3>2. core' = Approved(core, S, d, devtools)
      BY <2>1 DEF Approve
    <3>3. QED
      BY <3>1, <3>2, ApprovedSound
  <2>2. CASE ReplaceWithoutApproval
    BY <2>2, UnapprovedSound DEF ReplaceWithoutApproval, Sound
  <2>3. QED
    BY <1>3, <2>1, <2>2, WithdrawSound, StopSound, CheckpointSound, RestoreSound
       DEF OperatorStep
<1>4. CASE RequestStep
  <2>1. ASSUME NEW id, Cancel(id)
        PROVE  Sound(core')
    <3>1. Sound(Expired(core))
      BY ExpiredSound
    <3>2. QED
      BY <2>1, <3>1, EndedSound DEF Cancel, Sound
  <2>2. Replies \subseteq {"confirmed", "declined", "unknown"}
    BY InputsAreTyped
  <2>3. QED
    BY <1>4, <2>1, <2>2, RequestSound, BeginSound, CompleteSound, FenceSound DEF RequestStep
<1>5. CASE Tick
  BY <1>5, ExpiredSound DEF Tick
<1>6. CASE Pass
  BY <1>6, AgedSound DEF Pass
<1>7. CASE UNCHANGED core
  BY <1>7
<1>8. QED
  BY <1>2, <1>3, <1>4, <1>5, <1>6, <1>7 DEF Next

CoreIsSound == Sound(core)

LEMMA AlwaysSound == Spec => []CoreIsSound
<1>1. Init => CoreIsSound
  BY InitSound DEF CoreIsSound
<1>2. CoreIsSound /\ [Next]_core => CoreIsSound'
  BY StepSound DEF CoreIsSound
<1>3. QED
  BY <1>1, <1>2, PTL DEF Spec

\* Every method of the browser policy keeps every private field in its range.
THEOREM CoreTypesAreKept == Spec => []TypeOK
<1>1. CoreIsSound => TypeOK
  BY DEF CoreIsSound, Sound, Booked, TypeOK
<1>2. QED
  BY <1>1, AlwaysSound, PTL

\* No pending request outlives the approval, the generation, the connection, the
\* profile or the availability it was accepted under, so begin() starts every
\* dispatch whose request is still pending.
THEOREM PendingStaysCurrent == Spec => []PendingIsCurrent
<1>1. CoreIsSound => PendingIsCurrent
  BY DEF CoreIsSound, Sound, PendingIsCurrent, PendingSet, IsCurrent
<1>2. QED
  BY <1>1, AlwaysSound, PTL

\* Every request has at most one result, and exactly one once it has ended.
THEOREM ResultsComeOnce == Spec => []OneResult
<1>1. CoreIsSound => OneResult
  BY DEF CoreIsSound, Sound, Booked, BooksKept, OneResult
<1>2. QED
  BY <1>1, AlwaysSound, PTL

\* What the core reports as safe to retry never reached a provider.
THEOREM RefusalsAreTrue == Spec => []RefusedIsNeverSent
<1>1. CoreIsSound => RefusedIsNeverSent
  BY DEF CoreIsSound, Sound, Booked, BooksKept, RefusedIsNeverSent
<1>2. QED
  BY <1>1, AlwaysSound, PTL

-----------------------------------------------------------------------------
(* What tick() and the end of requests may do. *)

\* Retained requests go, and the approval goes under a new generation; all else
\* that authority rests on is as it was.
Lessens(p, q) ==
  /\ Sound(q)
  /\ Retained(q) \subseteq Retained(p)
  /\ q.providers = p.providers /\ q.providerGeneration = p.providerGeneration
  /\ q.withdrawn = p.withdrawn /\ q.withdrawalVersions = p.withdrawalVersions
  /\ q.checkpoints = p.checkpoints /\ q.fences = p.fences
  /\ q.readable = p.readable /\ q.writable = p.writable
  /\ \/ q.approval = p.approval /\ q.authorizationGeneration = p.authorizationGeneration
     \/ /\ q.approval = NoApproval
        /\ p.authorizationGeneration < q.authorizationGeneration

LEMMA EndedLessens ==
  ASSUME NEW p, Sound(p), NEW C
  PROVE  Lessens(p, Ended(p, C))
<1>1. p \in CoreState /\ Booked(p)
  BY DEF Sound, Booked
<1>2. Sound(Ended(p, C))
  BY <1>1, EndedSound DEF Sound
<1>3. \A c \in Command : IsPending(Ended(p, C), c) => IsPending(p, c)
  BY <1>1, EndedBooked
<1>4. Ended(p, C).unsettled = p.unsettled
  BY <1>1, EndedFields
<1>5. Retained(Ended(p, C)) \subseteq Retained(p)
  BY <1>3, <1>4 DEF Retained, PendingSet
<1>6. QED
  BY <1>1, <1>2, <1>5, EndedFields DEF Lessens

LEMMA UnapprovedLessens ==
  ASSUME NEW p, Booked(p)
  PROVE  /\ Lessens(p, Unapproved(p))
         /\ Unapproved(p).approval = NoApproval
         /\ p.authorizationGeneration < Unapproved(p).authorizationGeneration
<1> DEFINE g == p.authorizationGeneration + 1
           r == [p EXCEPT !.approval = NoApproval, !.authorizationGeneration = g]
           q == Unapproved(p)
<1>1. p \in CoreState /\ p.authorizationGeneration \in Nat
  BY DEF Booked, CoreState
<1>2. g \in Nat /\ p.authorizationGeneration < g
  BY <1>1
<1>3. NoApproval \in Approval
  BY DEF NoApproval, Approval
<1> HIDE DEF g
<1>4. /\ r \in CoreState
      /\ r.providers = p.providers /\ r.providerGeneration = p.providerGeneration
      /\ r.withdrawn = p.withdrawn /\ r.withdrawalVersions = p.withdrawalVersions
      /\ r.checkpoints = p.checkpoints /\ r.fences = p.fences
      /\ r.readable = p.readable /\ r.writable = p.writable
      /\ r.approval = NoApproval /\ r.authorizationGeneration = g
      /\ r.unsettled = p.unsettled
  BY <1>1, <1>2, <1>3 DEF CoreState
<1>5. q = Ended(r, Command)
  BY DEF Unapproved, g
<1> HIDE DEF r
<1>6. /\ q.providers = p.providers /\ q.providerGeneration = p.providerGeneration
      /\ q.withdrawn = p.withdrawn /\ q.withdrawalVersions = p.withdrawalVersions
      /\ q.checkpoints = p.checkpoints /\ q.fences = p.fences
      /\ q.readable = p.readable /\ q.writable = p.writable
      /\ q.approval = NoApproval /\ q.authorizationGeneration = g
      /\ q.unsettled = p.unsettled
  BY <1>4, <1>5, EndedFields
<1>7. Sound(q) /\ \A c \in Command : ~ IsPending(q, c)
  BY UnapprovedSound
<1> HIDE DEF q
<1>8. Retained(q) \subseteq Retained(p)
  BY <1>6, <1>7 DEF Retained, PendingSet
<1>9. QED
  BY <1>2, <1>6, <1>7, <1>8 DEF Lessens, q

LEMMA LessensGoesOn ==
  ASSUME NEW p, NEW q, NEW r, p \in CoreState, Lessens(p, q), Lessens(q, r)
  PROVE  Lessens(p, r)
<1>1. /\ p.authorizationGeneration \in Nat /\ q.authorizationGeneration \in Nat
      /\ r.authorizationGeneration \in Nat
  BY DEF Lessens, Sound, Booked, CoreState
<1>2. QED
  BY <1>1 DEF Lessens

LEMMA ExpiredLessens ==
  ASSUME NEW p, Sound(p)
  PROVE  Lessens(p, Expired(p))
<1> DEFINE q == IF p.approval # NoApproval /\ p.approval.left = 0 THEN Unapproved(p) ELSE p
<1>1. p \in CoreState /\ Booked(p)
  BY DEF Sound, Booked
<1>2. Lessens(p, q)
  BY <1>1, UnapprovedLessens DEF Lessens
<1>3. Expired(p) = Ended(q, {c \in Command : q.pending[c].left = 0})
  BY DEF Expired
<1> HIDE DEF q
<1>4. Lessens(q, Expired(p))
  BY <1>2, <1>3, EndedLessens DEF Lessens
<1>5. QED
  BY <1>1, <1>2, <1>4, LessensGoesOn

-----------------------------------------------------------------------------
(* What the methods may do to the authority. *)

\* An operator's approval is spent under one generation: it only gets narrower
\* until the generation moves on.  A connection never returns.
Advances(p, q) ==
  /\ p.authorizationGeneration <= q.authorizationGeneration
  /\ p.providerGeneration <= q.providerGeneration
  /\ \A f \in Profile : \/ q.providers[f] \in {0, p.providers[f]}
                        \/ /\ p.providerGeneration < q.providers[f]
                           /\ q.providers[f] <= q.providerGeneration
  /\ q.authorizationGeneration = p.authorizationGeneration =>
       /\ q.approval.profiles = p.approval.profiles
       /\ q.approval.devtools = p.approval.devtools
       /\ q.approval.left > 0 => p.approval.left > 0
       /\ p.withdrawn \subseteq q.withdrawn
       /\ q.readable = p.readable /\ q.writable = p.writable

\* The same approval or less of it, with no word of the operator.
Narrows(p, q) ==
  /\ q.checkpoints = p.checkpoints /\ q.withdrawalVersions = p.withdrawalVersions
  /\ \/ q.approval = p.approval /\ p.withdrawn \subseteq q.withdrawn
     \/ q.approval = NoApproval

Moves(p, q) == Advances(p, q) /\ Narrows(p, q) /\ q.fences = p.fences

\* A change of what authority does not rest on.
Aside(p, q) ==
  /\ q.providers = p.providers /\ q.providerGeneration = p.providerGeneration
  /\ q.withdrawn = p.withdrawn /\ q.withdrawalVersions = p.withdrawalVersions
  /\ q.checkpoints = p.checkpoints /\ q.fences = p.fences
  /\ q.readable = p.readable /\ q.writable = p.writable
  /\ q.approval = p.approval /\ q.authorizationGeneration = p.authorizationGeneration

LEMMA GenerationsTyped ==
  ASSUME NEW p \in CoreState
  PROVE  /\ p.authorizationGeneration \in Nat /\ p.providerGeneration \in Nat
         /\ \A f \in Profile : p.providers[f] \in Nat
BY DEF CoreState

LEMMA LessensMoves ==
  ASSUME NEW p \in CoreState, NEW q, Lessens(p, q)
  PROVE  Moves(p, q)
<1>1. q \in CoreState
  BY DEF Lessens, Sound, Booked
<1>2. Narrows(p, q) /\ q.fences = p.fences
  BY DEF Lessens, Narrows
<1>3. Advances(p, q)
  BY <1>1, GenerationsTyped DEF Lessens, Advances
<1>4. QED
  BY <1>2, <1>3 DEF Moves

LEMMA AdvancesOn ==
  ASSUME NEW p \in CoreState, NEW q \in CoreState, NEW r \in CoreState,
         Advances(p, q), Advances(q, r)
  PROVE  Advances(p, r)
<1>1. /\ p.authorizationGeneration <= r.authorizationGeneration
      /\ p.providerGeneration <= r.providerGeneration
      /\ r.authorizationGeneration = p.authorizationGeneration =>
           /\ q.authorizationGeneration = p.authorizationGeneration
           /\ r.authorizationGeneration = q.authorizationGeneration
  BY GenerationsTyped DEF Advances
<1>2. ASSUME NEW f \in Profile
      PROVE  \/ r.providers[f] \in {0, p.providers[f]}
             \/ /\ p.providerGeneration < r.providers[f]
                /\ r.providers[f] <= r.providerGeneration
  BY GenerationsTyped DEF Advances
<1>3. QED
  BY <1>1, <1>2 DEF Advances

LEMMA AsideMoves ==
  ASSUME NEW p \in CoreState, NEW q, Lessens(p, q), NEW r, Aside(q, r)
  PROVE  Moves(p, r)
<1>1. Moves(p, q)
  BY LessensMoves
<1>2. QED
  BY <1>1 DEF Moves, Advances, Narrows, Aside

\* The end of requests leaves every other field alone.
LEMMA EndedAside ==
  ASSUME NEW p \in CoreState, NEW C
  PROVE  Aside(p, Ended(p, C)) /\ Retained(Ended(p, C)) \subseteq Retained(p)
<1>1. \A c \in Command : IsPending(Ended(p, C), c) => IsPending(p, c)
  BY EndedCommands DEF IsPending
<1>2. Ended(p, C).unsettled = p.unsettled
  BY EndedFields
<1>3. QED
  BY <1>1, <1>2, EndedFields DEF Aside, Retained, PendingSet

-----------------------------------------------------------------------------
(* The methods that give nothing to a profile approved before. *)

Shrinks(p, q) == Retained(q) \subseteq Retained(p)

LEMMA ConnectMoves ==
  ASSUME core \in CoreState, NEW f \in Profile, Connect(f)
  PROVE  Moves(core, core') /\ Shrinks(core, core')
<1> DEFINE n == core.providerGeneration + 1
<1>1. n \in Nat /\ core.providerGeneration < n
  BY GenerationsTyped
<1>2. \/ core' = [core EXCEPT !.providerGeneration = n]
      \/ core' = [core EXCEPT !.providerGeneration = n, !.known = @ \union {f},
                              !.providers[f] = n]
  BY DEF Connect
<1> HIDE DEF n
<1>3. /\ core'.providerGeneration = n
      /\ \A g \in Profile : core'.providers[g] \in {core.providers[g], n}
      /\ core'.pending = core.pending /\ core'.unsettled = core.unsettled
      /\ core'.approval = core.approval
      /\ core'.authorizationGeneration = core.authorizationGeneration
      /\ core'.withdrawn = core.withdrawn
      /\ core'.withdrawalVersions = core.withdrawalVersions
      /\ core'.checkpoints = core.checkpoints /\ core'.fences = core.fences
      /\ core'.readable = core.readable /\ core'.writable = core.writable
  <2>1. CASE core' = [core EXCEPT !.providerGeneration = n]
    BY <2>1 DEF CoreState
  <2>2. CASE core' = [core EXCEPT !.providerGeneration = n, !.known = @ \union {f},
                                  !.providers[f] = n]
    BY <2>2 DEF CoreState
  <2>3. QED
    BY <1>2, <2>1, <2>2
<1>4. Advances(core, core')
  BY <1>1, <1>3, GenerationsTyped DEF Advances
<1>5. QED
  BY <1>3, <1>4 DEF Moves, Narrows, Shrinks, Retained, PendingSet, IsPending

LEMMA DisconnectMoves ==
  ASSUME Sound(core), NEW f \in Profile, Disconnect(f)
  PROVE  Moves(core, core') /\ Shrinks(core, core')
<1> DEFINE p == Expired(core)
           q == [p EXCEPT !.providers[f] = 0]
<1>1. Lessens(core, p)
  BY ExpiredLessens
<1>2. core \in CoreState /\ p \in CoreState
  BY <1>1 DEF Lessens, Sound, Booked
<1>3. PICK C : core' = Ended(q, C)
  BY DEF Disconnect
<1> HIDE DEF p
<1>4. /\ q \in CoreState
      /\ \A g \in Profile : q.providers[g] \in {0, p.providers[g]}
      /\ q.providerGeneration = p.providerGeneration
      /\ q.pending = p.pending /\ q.unsettled = p.unsettled
      /\ q.approval = p.approval /\ q.authorizationGeneration = p.authorizationGeneration
      /\ q.withdrawn = p.withdrawn /\ q.withdrawalVersions = p.withdrawalVersions
      /\ q.checkpoints = p.checkpoints /\ q.fences = p.fences
      /\ q.readable = p.readable /\ q.writable = p.writable
  BY <1>2 DEF CoreState
<1> HIDE DEF q
<1>5. Aside(q, core') /\ Retained(core') \subseteq Retained(q)
  BY <1>3, <1>4, EndedAside
<1>6. Retained(q) = Retained(p)
  BY <1>4 DEF Retained, PendingSet, IsPending
<1>7. Moves(core, p)
  BY <1>1, <1>2, LessensMoves
<1>8. Advances(p, core')
  <2>1. /\ core'.approval = p.approval
        /\ core'.authorizationGeneration = p.authorizationGeneration
        /\ core'.providerGeneration = p.providerGeneration
        /\ core'.withdrawn = p.withdrawn
        /\ core'.readable = p.readable /\ core'.writable = p.writable
        /\ \A g \in Profile : core'.providers[g] \in {0, p.providers[g]}
    BY <1>4, <1>5 DEF Aside
  <2>2. QED
    BY <1>2, <2>1, GenerationsTyped DEF Advances
<1>9. core' \in CoreState
  BY DisconnectSound DEF Sound, Booked
<1>10. Advances(core, core')
  BY <1>2, <1>7, <1>8, <1>9, AdvancesOn DEF Moves
<1>11. Narrows(core, core') /\ core'.fences = core.fences
  BY <1>4, <1>5, <1>7 DEF Moves, Narrows, Aside
<1>12. QED
  BY <1>1, <1>5, <1>6, <1>10, <1>11 DEF Moves, Lessens, Shrinks

LEMMA RetireMoves ==
  ASSUME core \in CoreState, NEW n, Retire(n)
  PROVE  Moves(core, core') /\ Shrinks(core, core')
<1> DEFINE u == {c \in core.unsettled : core.pending[c].connection # n}
<1>1. core' = [core EXCEPT !.unsettled = u]
  BY DEF Retire
<1>2. u \subseteq core.unsettled
  OBVIOUS
<1> HIDE DEF u
<1>3. Aside(core, core') /\ core'.pending = core.pending /\ core'.unsettled = u
  BY <1>1 DEF Aside, CoreState
<1>4. Moves(core, core')
  BY <1>3, GenerationsTyped DEF Moves, Advances, Narrows, Aside
<1>5. QED
  BY <1>2, <1>3, <1>4 DEF Shrinks, Retained, PendingSet, IsPending

LEMMA AvailabilityMoves ==
  ASSUME Sound(core), NEW v \in Availabilities, Availability(v)
  PROVE  Moves(core, core') /\ Shrinks(core, core')
<1> DEFINE p == Expired(core)
           g == p.authorizationGeneration + 1
           q == [p EXCEPT !.readable = v.readable, !.writable = v.writable,
                          !.authorizationGeneration = g]
<1>1. Lessens(core, p)
  BY ExpiredLessens
<1>2. core \in CoreState /\ p \in CoreState
  BY <1>1 DEF Lessens, Sound, Booked
<1>3. core' = Ended(q, Command)
  BY DEF Availability
<1> HIDE DEF p
<1>4. /\ g \in Nat /\ p.authorizationGeneration < g
      /\ core.authorizationGeneration <= p.authorizationGeneration
  BY <1>1, <1>2, GenerationsTyped DEF Lessens
<1>5. v.readable \in BOOLEAN /\ v.writable \in BOOLEAN
  BY InputsAreTyped
<1> HIDE DEF g
<1>6. q \in CoreState
  BY <1>2, <1>4, <1>5 DEF CoreState
<1>7. /\ q.pending = p.pending /\ q.unsettled = p.unsettled
      /\ q.providers = p.providers /\ q.providerGeneration = p.providerGeneration
      /\ q.approval = p.approval /\ q.authorizationGeneration = g
      /\ q.withdrawn = p.withdrawn /\ q.withdrawalVersions = p.withdrawalVersions
      /\ q.checkpoints = p.checkpoints /\ q.fences = p.fences
  BY <1>2 DEF CoreState
<1> HIDE DEF q
<1>8. Aside(q, core') /\ Retained(core') \subseteq Retained(q)
  BY <1>3, <1>6, EndedAside
<1>9. Retained(q) = Retained(p)
  BY <1>7 DEF Retained, PendingSet, IsPending
<1>10. /\ core.authorizationGeneration <= core'.authorizationGeneration
       /\ core.providerGeneration <= core'.providerGeneration
  BY <1>1, <1>2, <1>4, <1>7, <1>8, GenerationsTyped DEF Aside, Lessens
<1>11. core'.authorizationGeneration # core.authorizationGeneration
  BY <1>2, <1>4, <1>7, <1>8, GenerationsTyped DEF Aside
<1>12. core'.providers = core.providers
  BY <1>1, <1>7, <1>8 DEF Aside, Lessens
<1>13. Advances(core, core')
  BY <1>2, <1>10, <1>11, <1>12, GenerationsTyped DEF Advances
<1>14. Narrows(core, core') /\ core'.fences = core.fences
  BY <1>1, <1>7, <1>8 DEF Narrows, Aside, Lessens
<1>15. QED
  BY <1>1, <1>8, <1>9, <1>13, <1>14 DEF Moves, Lessens, Shrinks

LEMMA ReplaceMoves ==
  ASSUME Sound(core), ReplaceWithoutApproval
  PROVE  Moves(core, core') /\ Shrinks(core, core')
<1>1. Booked(core) /\ core \in CoreState
  BY DEF Sound, Booked
<1>2. Lessens(core, core')
  BY <1>1, UnapprovedLessens DEF ReplaceWithoutApproval
<1>3. QED
  BY <1>1, <1>2, LessensMoves DEF Lessens, Shrinks

LEMMA TickMoves ==
  ASSUME Sound(core), Tick
  PROVE  Moves(core, core') /\ Shrinks(core, core')
<1>1. core \in CoreState
  BY DEF Sound, Booked
<1>2. Lessens(core, core')
  BY ExpiredLessens DEF Tick
<1>3. QED
  BY <1>1, <1>2, LessensMoves DEF Lessens, Shrinks

LEMMA CancelMoves ==
  ASSUME Sound(core), NEW id, Cancel(id)
  PROVE  Moves(core, core') /\ Shrinks(core, core')
<1> DEFINE p == Expired(core)
<1>1. core \in CoreState
  BY DEF Sound, Booked
<1>2. Lessens(core, p)
  BY ExpiredLessens
<1>3. PICK C : core' = Ended(p, C)
  BY DEF Cancel
<1> HIDE DEF p
<1>4. Lessens(p, core')
  BY <1>2, <1>3, EndedLessens DEF Lessens
<1>5. Lessens(core, core')
  BY <1>1, <1>2, <1>4, LessensGoesOn
<1>6. QED
  BY <1>1, <1>5, LessensMoves DEF Lessens, Shrinks

LEMMA BeginMoves ==
  ASSUME Sound(core), NEW c \in Command, Begin(c)
  PROVE  Moves(core, core') /\ Shrinks(core, core')
<1> DEFINE e == Expired(core)
           y == e.dispatches \ {c}
           p == [e EXCEPT !.dispatches = y]
           x == [p.pending EXCEPT ![c].phase = "dispatched"]
           u == p.unsettled \union {c}
           v == p.sent \union {c}
           q == [p EXCEPT !.pending = x, !.unsettled = u, !.sent = v]
<1>1. Lessens(core, e)
  BY ExpiredLessens
<1>2. core \in CoreState /\ e \in CoreState
  BY <1>1 DEF Lessens, Sound, Booked
<1>3. core' = IF p.pending[c].phase # "queued" THEN p
              ELSE IF ~ StillAuthorized(p, c) THEN Ended(p, {c}) ELSE q
  BY DEF Begin
<1> HIDE DEF e
<1>4. /\ p \in CoreState /\ Aside(e, p)
      /\ p.pending = e.pending /\ p.unsettled = e.unsettled
  <2>1. y \in SUBSET Command
    BY <1>2 DEF CoreState
  <2> HIDE DEF y
  <2>2. QED
    BY <1>2, <2>1 DEF CoreState, Aside
<1>5. Retained(p) = Retained(e)
  BY <1>4 DEF Retained, PendingSet, IsPending
<1> HIDE DEF p
<1>6. Aside(p, Ended(p, {c})) /\ Retained(Ended(p, {c})) \subseteq Retained(p)
  BY <1>4, EndedAside
\* A dispatch that begins keeps the slot its request already had.
<1>7. ASSUME p.pending[c].phase = "queued"
      PROVE  Aside(p, q) /\ Retained(q) \subseteq Retained(p)
  <2>1. \A b \in Command : b # c => x[b] = p.pending[b]
    BY <1>4 DEF CoreState
  <2> HIDE DEF x, u, v
  <2>2. q.pending = x /\ q.unsettled = u /\ Aside(p, q)
    BY <1>4 DEF CoreState, Aside
  <2>3. c \in PendingSet(p)
    BY <1>7 DEF PendingSet, IsPending
  <2>4. PendingSet(q) \subseteq PendingSet(p) \union {c}
    BY <2>1, <2>2 DEF PendingSet, IsPending
  <2>5. QED
    BY <2>2, <2>3, <2>4 DEF Retained, u
<1> HIDE DEF q
<1>8. Aside(p, core') /\ Retained(core') \subseteq Retained(p)
  BY <1>3, <1>6, <1>7 DEF Aside
<1>9. Aside(e, core')
  BY <1>4, <1>8 DEF Aside
<1>10. Moves(core, core')
  BY <1>1, <1>2, <1>9, AsideMoves
<1>11. QED
  BY <1>1, <1>5, <1>8, <1>10 DEF Lessens, Shrinks

LEMMA CompleteMoves ==
  ASSUME Sound(core), NEW c \in Command, NEW reply, Complete(c, reply)
  PROVE  Moves(core, core') /\ Shrinks(core, core')
<1> DEFINE p == Expired(core)
           u == p.unsettled \ {c}
           x == [p.pending EXCEPT ![c] = [p.pending[c] EXCEPT !.phase = "ended", !.left = 0]]
           n == [p.finishes EXCEPT ![c] = @ + 1]
           o == [p.outcome EXCEPT ![c] = reply]
           freed == [p EXCEPT !.unsettled = u]
           over == [p EXCEPT !.unsettled = u, !.finishes = n, !.outcome = o, !.pending = x]
<1>1. Lessens(core, p)
  BY ExpiredLessens
<1>2. core \in CoreState /\ p \in CoreState
  BY <1>1 DEF Lessens, Sound, Booked
<1>3. core' = IF c \notin p.unsettled THEN p ELSE IF ~ IsPending(p, c) THEN freed ELSE over
  BY DEF Complete, Replied
<1> HIDE DEF p
<1>4. u \subseteq p.unsettled
  OBVIOUS
<1>5. \A b \in Command : b # c => x[b] = p.pending[b]
  BY <1>2 DEF CoreState
<1> HIDE DEF u, x, n, o
<1>6. freed.pending = p.pending /\ freed.unsettled = u /\ Aside(p, freed)
  BY <1>2 DEF CoreState, Aside
<1>7. over.pending = x /\ over.unsettled = u /\ Aside(p, over)
  BY <1>2 DEF CoreState, Aside
<1> HIDE DEF freed, over
<1>8. Retained(freed) \subseteq Retained(p)
  BY <1>4, <1>6 DEF Retained, PendingSet, IsPending
<1>9. IsPending(p, c) => Retained(over) \subseteq Retained(p)
  <2>1. PendingSet(over) \subseteq PendingSet(p) \union {c}
    BY <1>5, <1>7 DEF PendingSet, IsPending
  <2>2. IsPending(p, c) => c \in PendingSet(p)
    BY DEF PendingSet
  <2>3. QED
    BY <1>4, <1>7, <2>1, <2>2 DEF Retained
<1>10. Aside(p, core') /\ Retained(core') \subseteq Retained(p)
  BY <1>3, <1>6, <1>7, <1>8, <1>9 DEF Aside
<1>11. Moves(core, core')
  BY <1>1, <1>2, <1>10, AsideMoves
<1>12. QED
  BY <1>1, <1>10, <1>11 DEF Lessens, Shrinks

\* The one method that takes a slot.
LEMMA RequestMoves ==
  ASSUME Sound(core), NEW c \in Command, RequestAccepted(c)
  PROVE  /\ Moves(core, core')
         /\ \E p : /\ Retained(p) \subseteq Command
                   /\ Retained(core') = Retained(p) \union {c} /\ HasRoom(p)
<1> DEFINE p == Expired(core)
           i == [phase |-> "queued", connection |-> p.providers[Request[c].profile],
                 approval |-> p.approval.generation,
                 generation |-> p.authorizationGeneration, left |-> Request[c].timeout]
           x == [p.pending EXCEPT ![c] = i]
           y == p.dispatches \union {c}
<1>1. Lessens(core, p)
  BY ExpiredLessens
<1>2. core \in CoreState /\ p \in CoreState
  BY <1>1 DEF Lessens, Sound, Booked
<1>3. core' = [p EXCEPT !.dispatches = y, !.pending = x] /\ HasRoom(p)
  BY DEF RequestAccepted
<1> HIDE DEF p
<1>4. x[c].phase = "queued" /\ \A b \in Command : b # c => x[b] = p.pending[b]
  BY <1>2 DEF CoreState
<1> HIDE DEF x, y
<1>5. core'.pending = x /\ core'.unsettled = p.unsettled /\ Aside(p, core')
  BY <1>2, <1>3 DEF CoreState, Aside
<1>6. PendingSet(core') = PendingSet(p) \union {c}
  BY <1>4, <1>5 DEF PendingSet, IsPending
<1>7. Retained(core') = Retained(p) \union {c} /\ Retained(p) \subseteq Command
  BY <1>2, <1>5, <1>6 DEF Retained, PendingSet, CoreState
<1>8. Moves(core, core')
  BY <1>1, <1>2, <1>5, AsideMoves
<1>9. QED
  BY <1>3, <1>7, <1>8

-----------------------------------------------------------------------------
(* The operator's methods, and time. *)

LEMMA ApprovedFields ==
  ASSUME NEW p, Sound(p), NEW S \in SUBSET Profile, NEW d \in Nat, NEW devtools \in BOOLEAN
  PROVE  LET q == Approved(p, S, d, devtools)
         IN  /\ Advances(p, q) /\ Shrinks(p, q) /\ q.fences = p.fences
             /\ q.checkpoints = p.checkpoints /\ q.withdrawalVersions = p.withdrawalVersions
             /\ q.approval.profiles = S /\ q.approval.left = d
             /\ q.approval.devtools = devtools
<1> DEFINE e == Expired(p)
           r == Unapproved(e)
           a == [generation |-> r.authorizationGeneration, profiles |-> S,
                 left |-> d, devtools |-> devtools]
           q == Approved(p, S, d, devtools)
<1>1. p \in CoreState /\ Lessens(p, e)
  BY ExpiredLessens DEF Sound, Booked
<1>2. Lessens(e, r) /\ e.authorizationGeneration < r.authorizationGeneration
  BY <1>1, UnapprovedLessens DEF Lessens, Sound
<1>3. e \in CoreState /\ r \in CoreState
  BY <1>1, <1>2 DEF Lessens, Sound, Booked
<1>4. q = [r EXCEPT !.withdrawn = {}, !.approval = a]
  BY DEF Approved
<1>5. a.profiles = S /\ a.left = d /\ a.devtools = devtools
  OBVIOUS
<1> HIDE DEF e, r, a, q
<1>6. /\ q.approval = a /\ q.fences = r.fences /\ q.checkpoints = r.checkpoints
      /\ q.withdrawalVersions = r.withdrawalVersions
      /\ q.authorizationGeneration = r.authorizationGeneration
      /\ q.providers = r.providers /\ q.providerGeneration = r.providerGeneration
      /\ q.pending = r.pending /\ q.unsettled = r.unsettled
  BY <1>3, <1>4 DEF CoreState
<1>7. Retained(q) = Retained(r)
  BY <1>6 DEF Retained, PendingSet, IsPending
<1>8. p.authorizationGeneration < r.authorizationGeneration
  BY <1>1, <1>2, <1>3, GenerationsTyped DEF Lessens
<1>9. q.providers = p.providers /\ q.providerGeneration = p.providerGeneration
  BY <1>1, <1>2, <1>6 DEF Lessens
<1>10. Advances(p, q)
  BY <1>1, <1>3, <1>6, <1>8, <1>9, GenerationsTyped DEF Advances
<1>11. Retained(q) \subseteq Retained(p)
  BY <1>1, <1>2, <1>7 DEF Lessens
<1>12. QED
  BY <1>1, <1>2, <1>5, <1>6, <1>10, <1>11 DEF q, Lessens, Shrinks

\* A change of the checkpoints alone.
LEMMA CheckpointsFields ==
  ASSUME NEW p \in CoreState, NEW x
  PROVE  LET q == [p EXCEPT !.checkpoints = x]
         IN  /\ Advances(p, q) /\ Shrinks(p, q) /\ q.fences = p.fences
             /\ q.checkpoints = x /\ q.withdrawalVersions = p.withdrawalVersions
             /\ q.approval = p.approval /\ q.withdrawn = p.withdrawn
<1> DEFINE q == [p EXCEPT !.checkpoints = x]
<1>1. /\ q.checkpoints = x /\ q.fences = p.fences
      /\ q.withdrawalVersions = p.withdrawalVersions
      /\ q.approval = p.approval /\ q.withdrawn = p.withdrawn
      /\ q.readable = p.readable /\ q.writable = p.writable
      /\ q.authorizationGeneration = p.authorizationGeneration
      /\ q.providers = p.providers /\ q.providerGeneration = p.providerGeneration
      /\ q.pending = p.pending /\ q.unsettled = p.unsettled
  BY DEF CoreState
<1> HIDE DEF q
<1>2. Advances(p, q)
  BY <1>1, GenerationsTyped DEF Advances
<1>3. Shrinks(p, q)
  BY <1>1 DEF Shrinks, Retained, PendingSet, IsPending
<1>4. QED
  BY <1>1, <1>2, <1>3 DEF q

LEMMA StopFields ==
  ASSUME Sound(core), Stop
  PROVE  /\ Advances(core, core') /\ Shrinks(core, core') /\ core'.fences = core.fences
         /\ core'.checkpoints = [k \in Token |-> Unsaved]
         /\ core'.withdrawalVersions = core.withdrawalVersions
         /\ core'.approval = NoApproval
<1> DEFINE x == [k \in Token |-> Unsaved]
           p == [core EXCEPT !.checkpoints = x]
<1>1. core \in CoreState
  BY DEF Sound, Booked
<1>2. x \in [Token -> Checkpointed]
  BY UnsavedTyped
<1>3. core' = Unapproved(p)
  BY DEF Stop
<1> HIDE DEF x
<1>4. Sound(p)
  BY <1>2, CheckpointsSound
<1>5. /\ Advances(core, p) /\ Shrinks(core, p) /\ p.fences = core.fences
      /\ p.checkpoints = x /\ p.withdrawalVersions = core.withdrawalVersions
  BY <1>1, CheckpointsFields
<1> HIDE DEF p
<1>6. p \in CoreState /\ Lessens(p, core') /\ core'.approval = NoApproval
  BY <1>3, <1>4, UnapprovedLessens DEF Sound, Booked
<1>7. core' \in CoreState /\ Advances(p, core')
  BY <1>6, LessensMoves DEF Moves, Lessens, Sound, Booked
<1>8. Advances(core, core')
  BY <1>1, <1>5, <1>6, <1>7, AdvancesOn
<1>9. QED
  BY <1>5, <1>6, <1>8 DEF Lessens, Shrinks, x

LEMMA RestoreFields ==
  ASSUME Sound(core), NEW k \in Token, Restore(k)
  PROVE  /\ Advances(core, core') /\ Shrinks(core, core') /\ core'.fences = core.fences
         /\ core'.checkpoints = [core.checkpoints EXCEPT ![k] = Unsaved]
         /\ core'.withdrawalVersions = core.withdrawalVersions
         /\ \/ core'.approval = NoApproval
            \/ /\ core'.approval.profiles = Unwithdrawn(core, k)
               /\ core'.approval.left = core.checkpoints[k].left
               /\ core'.approval.devtools = core.checkpoints[k].devtools
<1> DEFINE x == [core.checkpoints EXCEPT ![k] = Unsaved]
           p == [core EXCEPT !.checkpoints = x]
           saved == core.checkpoints[k]
           S == Unwithdrawn(core, k)
<1>1. core \in CoreState /\ saved \in Checkpointed
  BY DEF Sound, Booked, CoreState
<1>2. x \in [Token -> Checkpointed]
  BY <1>1, UnsavedTyped DEF CoreState
<1>3. core' = IF saved.left = 0 \/ S = {} THEN Unapproved(p)
              ELSE Approved(p, S, saved.left, saved.devtools)
  BY DEF Restore
<1>4. S \in SUBSET Profile /\ saved.left \in Nat /\ saved.devtools \in BOOLEAN
  BY <1>1 DEF Unwithdrawn, Checkpointed
<1> HIDE DEF x, saved, S
<1>5. Sound(p)
  BY <1>2, CheckpointsSound
<1>6. /\ Advances(core, p) /\ Shrinks(core, p) /\ p.fences = core.fences
      /\ p.checkpoints = x /\ p.withdrawalVersions = core.withdrawalVersions
  BY <1>1, CheckpointsFields
<1> HIDE DEF p
<1>7. p \in CoreState
  BY <1>5 DEF Sound, Booked
<1>8. CASE core' = Unapproved(p)
  <2>1. Lessens(p, core') /\ core'.approval = NoApproval
    BY <1>5, <1>8, UnapprovedLessens DEF Sound
  <2>2. core' \in CoreState /\ Advances(p, core')
    BY <1>7, <2>1, LessensMoves DEF Moves, Lessens, Sound, Booked
  <2>3. Advances(core, core')
    BY <1>1, <1>6, <1>7, <2>2, AdvancesOn
  <2>4. QED
    BY <1>6, <2>1, <2>3 DEF Lessens, Shrinks, x
<1>9. CASE core' = Approved(p, S, saved.left, saved.devtools)
  <2>1. /\ Advances(p, core') /\ Shrinks(p, core') /\ core'.fences = p.fences
        /\ core'.checkpoints = p.checkpoints
        /\ core'.withdrawalVersions = p.withdrawalVersions
        /\ core'.approval.profiles = S /\ core'.approval.left = saved.left
        /\ core'.approval.devtools = saved.devtools
    BY <1>4, <1>5, <1>9, ApprovedFields
  <2>2. core' \in CoreState
    BY <1>4, <1>5, <1>9, ApprovedSound DEF Sound, Booked
  <2>3. Advances(core, core')
    BY <1>1, <1>6, <1>7, <2>1, <2>2, AdvancesOn
  <2>4. QED
    BY <1>6, <2>1, <2>3 DEF Shrinks, x, S, saved
<1>10. QED
  BY <1>3, <1>8, <1>9

LEMMA WithdrawFields ==
  ASSUME Sound(core), NEW f \in Profile, Withdraw(f)
  PROVE  /\ Advances(core, core') /\ Shrinks(core, core') /\ core'.fences = core.fences
         /\ core'.checkpoints = core.checkpoints
         /\ core'.withdrawalVersions = [core.withdrawalVersions EXCEPT ![f] = @ + 1]
         /\ \/ core'.approval = NoApproval
            \/ /\ core'.approval = core.approval
               /\ core'.withdrawn = core.withdrawn \union {f}
<1> DEFINE p == Expired(core)
           w == p.withdrawn \union {f}
           v == [p.withdrawalVersions EXCEPT ![f] = @ + 1]
           q == [p EXCEPT !.withdrawn = w, !.withdrawalVersions = v]
<1>1. Lessens(core, p)
  BY ExpiredLessens
<1>2. core \in CoreState /\ p \in CoreState
  BY <1>1 DEF Lessens, Sound, Booked
<1>3. PICK C : core' = Ended(q, C)
  BY DEF Withdraw
<1> HIDE DEF p
<1>4. w \in SUBSET Profile /\ v \in [Profile -> Nat]
  BY <1>2 DEF CoreState
<1>5. p.withdrawn \subseteq w
  OBVIOUS
<1> HIDE DEF w, v
<1>6. /\ q \in CoreState
      /\ q.pending = p.pending /\ q.unsettled = p.unsettled
      /\ q.providers = p.providers /\ q.providerGeneration = p.providerGeneration
      /\ q.approval = p.approval /\ q.authorizationGeneration = p.authorizationGeneration
      /\ q.withdrawn = w /\ q.withdrawalVersions = v
      /\ q.checkpoints = p.checkpoints /\ q.fences = p.fences
      /\ q.readable = p.readable /\ q.writable = p.writable
  BY <1>2, <1>4 DEF CoreState
<1> HIDE DEF q
<1>7. Aside(q, core') /\ Retained(core') \subseteq Retained(q)
  BY <1>3, <1>6, EndedAside
<1>8. Retained(q) = Retained(p)
  BY <1>6 DEF Retained, PendingSet, IsPending
<1>9. Advances(core, p)
  BY <1>1, <1>2, LessensMoves DEF Moves
<1>10. Advances(p, core')
  <2>1. /\ core'.approval = p.approval
        /\ core'.authorizationGeneration = p.authorizationGeneration
        /\ core'.providerGeneration = p.providerGeneration
        /\ core'.providers = p.providers
        /\ core'.withdrawn = w
        /\ core'.readable = p.readable /\ core'.writable = p.writable
    BY <1>6, <1>7 DEF Aside
  <2>2. QED
    BY <1>2, <1>5, <2>1, GenerationsTyped DEF Advances
<1>11. core' \in CoreState
  BY WithdrawSound DEF Sound, Booked
<1>12. Advances(core, core')
  BY <1>2, <1>9, <1>10, <1>11, AdvancesOn
<1>13. v = [core.withdrawalVersions EXCEPT ![f] = @ + 1] /\ w = core.withdrawn \union {f}
  BY <1>1 DEF v, w, Lessens
<1>14. QED
  BY <1>1, <1>6, <1>7, <1>8, <1>12, <1>13 DEF Aside, Lessens, Shrinks

LEMMA PassFields ==
  ASSUME core \in CoreState, Pass
  PROVE  /\ Advances(core, core') /\ Shrinks(core, core') /\ core'.fences = core.fences
         /\ core'.withdrawalVersions = core.withdrawalVersions
         /\ core'.withdrawn = core.withdrawn
         /\ core'.approval.profiles = core.approval.profiles
         /\ core'.approval.devtools = core.approval.devtools
         /\ core'.approval.left = Aged(core.approval.left, 1)
         /\ \A k \in Token :
              /\ core'.checkpoints[k].left = Aged(core.checkpoints[k].left, 1)
              /\ core'.checkpoints[k].devtools = core.checkpoints[k].devtools
              /\ core'.checkpoints[k].withdrawals = core.checkpoints[k].withdrawals
<1> DEFINE d == 1
           q == AgedCore(core, d)
<1>1. core' = q /\ d \in Nat
  BY DEF Pass
<1> HIDE DEF d
<1>2. /\ core'.fences = core.fences
      /\ core'.withdrawalVersions = core.withdrawalVersions
      /\ core'.withdrawn = core.withdrawn
      /\ core'.approval.profiles = core.approval.profiles
      /\ core'.approval.devtools = core.approval.devtools
      /\ core'.approval.left = Aged(core.approval.left, d)
      /\ core'.unsettled = core.unsettled
      /\ core'.authorizationGeneration = core.authorizationGeneration
      /\ core'.providers = core.providers
      /\ core'.providerGeneration = core.providerGeneration
      /\ core'.readable = core.readable /\ core'.writable = core.writable
      /\ \A c \in Command : core'.pending[c].phase = core.pending[c].phase
      /\ \A k \in Token :
           /\ core'.checkpoints[k].left = Aged(core.checkpoints[k].left, d)
           /\ core'.checkpoints[k].devtools = core.checkpoints[k].devtools
           /\ core'.checkpoints[k].withdrawals = core.checkpoints[k].withdrawals
  <2>1. /\ q.fences = core.fences
        /\ q.withdrawalVersions = core.withdrawalVersions
        /\ q.withdrawn = core.withdrawn
        /\ q.approval.profiles = core.approval.profiles
        /\ q.approval.devtools = core.approval.devtools
        /\ q.approval.left = Aged(core.approval.left, d)
        /\ q.unsettled = core.unsettled
        /\ q.authorizationGeneration = core.authorizationGeneration
        /\ q.providers = core.providers
        /\ q.providerGeneration = core.providerGeneration
        /\ q.readable = core.readable /\ q.writable = core.writable
    BY <1>1, AgedFields
  <2>2. ASSUME NEW c \in Command PROVE q.pending[c].phase = core.pending[c].phase
    BY <1>1, AgedFields
  <2>3. ASSUME NEW k \in Token
        PROVE  /\ q.checkpoints[k].left = Aged(core.checkpoints[k].left, d)
               /\ q.checkpoints[k].devtools = core.checkpoints[k].devtools
               /\ q.checkpoints[k].withdrawals = core.checkpoints[k].withdrawals
    BY <1>1, AgedFields
  <2> HIDE DEF q
  <2>4. QED
    BY <1>1, <2>1, <2>2, <2>3
<1> HIDE DEF q
<1>3. core'.approval.left > 0 => core.approval.left > 0
  <2>1. core.approval.left \in Nat
    BY DEF CoreState, Approval
  <2>2. QED
    BY <1>1, <1>2, <2>1, LimitsAreNatural DEF Aged
<1>4. Shrinks(core, core')
  BY <1>2 DEF Shrinks, Retained, PendingSet, IsPending
<1>5. Advances(core, core')
  BY <1>2, <1>3, GenerationsTyped DEF Advances
<1>6. QED
  BY <1>2, <1>4, <1>5 DEF d

LEMMA ApproveFields ==
  ASSUME Sound(core), NEW S \in Grants, NEW d \in Durations, NEW devtools \in Scopes,
         Approve(S, d, devtools)
  PROVE  /\ Advances(core, core') /\ Shrinks(core, core') /\ core'.fences = core.fences
         /\ core'.checkpoints = core.checkpoints
         /\ core'.withdrawalVersions = core.withdrawalVersions
         /\ core'.approval.profiles = S /\ core'.approval.left = d
         /\ core'.approval.devtools = devtools
<1>1. S \in SUBSET Profile /\ d \in Nat /\ devtools \in BOOLEAN
  BY InputsAreTyped, LimitsAreNatural
<1>2. core' = Approved(core, S, d, devtools)
  BY DEF Approve
<1>3. QED
  BY <1>1, <1>2, ApprovedFields

LEMMA CheckpointFields ==
  ASSUME Sound(core), NEW k \in Token, Checkpoint(k)
  PROVE  /\ Advances(core, core') /\ Shrinks(core, core') /\ core'.fences = core.fences
         /\ core'.withdrawalVersions = core.withdrawalVersions
         /\ core'.approval = core.approval /\ core'.withdrawn = core.withdrawn
         /\ core'.checkpoints = [core.checkpoints EXCEPT ![k] =
              [saved |-> TRUE, left |-> core.approval.left,
               devtools |-> core.approval.devtools,
               withdrawals |-> [f \in Profile |->
                 IF f \in core.approval.profiles \ core.withdrawn
                 THEN core.withdrawalVersions[f] ELSE Dropped]]]
<1> DEFINE x == [core.checkpoints EXCEPT ![k] =
              [saved |-> TRUE, left |-> core.approval.left,
               devtools |-> core.approval.devtools,
               withdrawals |-> [f \in Profile |->
                 IF f \in core.approval.profiles \ core.withdrawn
                 THEN core.withdrawalVersions[f] ELSE Dropped]]]
<1>1. core \in CoreState
  BY DEF Sound, Booked
<1>2. core' = [core EXCEPT !.checkpoints = x]
  BY DEF Checkpoint
<1> HIDE DEF x
<1>3. /\ Advances(core, core') /\ Shrinks(core, core') /\ core'.fences = core.fences
      /\ core'.withdrawalVersions = core.withdrawalVersions
      /\ core'.approval = core.approval /\ core'.withdrawn = core.withdrawn
      /\ core'.checkpoints = x
  BY <1>1, <1>2, CheckpointsFields
<1>4. QED
  BY <1>3 DEF x

LEMMA FenceFields ==
  ASSUME core \in CoreState, NEW f \in Profile, NEW r \in Streams, Fence(f, r)
  PROVE  /\ Advances(core, core') /\ Narrows(core, core') /\ Shrinks(core, core')
         /\ core'.providers = core.providers
         /\ core'.fences = core.fences \union
              {[connection |-> core.providers[f], generation |-> core.authorizationGeneration]}
<1> DEFINE x == core.fences \union
             {[connection |-> core.providers[f], generation |-> core.authorizationGeneration]}
<1>1. core' = [core EXCEPT !.fences = x]
  BY DEF Fence
<1> HIDE DEF x
<1>2. /\ core'.fences = x /\ core'.pending = core.pending
      /\ core'.unsettled = core.unsettled
      /\ core'.providers = core.providers
      /\ core'.providerGeneration = core.providerGeneration
      /\ core'.withdrawn = core.withdrawn
      /\ core'.withdrawalVersions = core.withdrawalVersions
      /\ core'.checkpoints = core.checkpoints
      /\ core'.readable = core.readable /\ core'.writable = core.writable
      /\ core'.approval = core.approval
      /\ core'.authorizationGeneration = core.authorizationGeneration
  BY <1>1 DEF CoreState
<1>3. Advances(core, core')
  BY <1>2, GenerationsTyped DEF Advances
<1>4. QED
  BY <1>2, <1>3 DEF x, Narrows, Shrinks, Retained, PendingSet, IsPending

-----------------------------------------------------------------------------
(* The slots. *)

\* One step at most takes one slot, and only one that is free.
LEMMA StepTakesOne ==
  ASSUME Sound(core), [Next]_core
  PROVE  \/ Shrinks(core, core')
         \/ \E c \in Command : \E p :
              /\ Retained(p) \subseteq Command
              /\ Retained(core') = Retained(p) \union {c} /\ HasRoom(p)
<1>1. core \in CoreState
  BY DEF Sound, Booked
<1>2. CASE ProviderStep
  BY <1>1, <1>2, ConnectMoves, DisconnectMoves, RetireMoves, AvailabilityMoves
     DEF ProviderStep
<1>3. CASE OperatorStep
  BY <1>3, ApproveFields, WithdrawFields, ReplaceMoves, StopFields, CheckpointFields,
     RestoreFields DEF OperatorStep
<1>4. CASE RequestStep
  BY <1>1, <1>4, RequestMoves, BeginMoves, CompleteMoves, CancelMoves, FenceFields
     DEF RequestStep
<1>5. CASE Tick
  BY <1>5, TickMoves
<1>6. CASE Pass
  BY <1>1, <1>6, PassFields
<1>7. CASE UNCHANGED core
  BY <1>7 DEF Shrinks
<1>8. QED
  BY <1>2, <1>3, <1>4, <1>5, <1>6, <1>7 DEF Next

SlotsAreSound == CoreIsSound /\ Cardinality(Retained(core)) <= MaxRequests

LEMMA InitSlots == Init => SlotsAreSound
<1> SUFFICES ASSUME Init PROVE SlotsAreSound
  OBVIOUS
<1>1. Retained(core) = {}
  BY DEF Init, Retained, PendingSet, IsPending, Unused
<1>2. Cardinality({}) = 0
  BY FS_EmptySet
<1>3. QED
  BY <1>1, <1>2, InitSound, LimitsAreNatural DEF SlotsAreSound, CoreIsSound

LEMMA StepSlots == SlotsAreSound /\ [Next]_core => SlotsAreSound'
<1> SUFFICES ASSUME SlotsAreSound, [Next]_core PROVE SlotsAreSound'
  OBVIOUS
<1>1. Sound(core) /\ Sound(core')
  BY StepSound DEF SlotsAreSound, CoreIsSound
<1>2. IsFiniteSet(Retained(core)) /\ Cardinality(Retained(core)) \in Nat
  <2>1. Retained(core) \in SUBSET Command
    BY <1>1 DEF Sound, Booked, CoreState, Retained, PendingSet
  <2>2. IsFiniteSet(Retained(core))
    BY <2>1, CommandsAreFinite, FS_Subset
  <2>3. QED
    BY <2>2, FS_CardinalityType
<1>3. CASE Shrinks(core, core')
  <2>1. Retained(core') \in SUBSET Retained(core)
    BY <1>3 DEF Shrinks
  <2>2. /\ IsFiniteSet(Retained(core'))
        /\ Cardinality(Retained(core')) <= Cardinality(Retained(core))
    BY <1>2, <2>1, FS_Subset
  <2>3. Cardinality(Retained(core')) \in Nat
    BY <2>2, FS_CardinalityType
  <2>4. Cardinality(Retained(core')) <= MaxRequests
    BY <1>2, <2>2, <2>3, LimitsAreNatural DEF SlotsAreSound
  <2>5. QED
    BY <1>1, <2>4 DEF SlotsAreSound, CoreIsSound
<1>4. ASSUME NEW c \in Command, NEW p, Retained(p) \subseteq Command,
             Retained(core') = Retained(p) \union {c}, HasRoom(p)
      PROVE  SlotsAreSound'
  <2>1. IsFiniteSet(Retained(p)) /\ Cardinality(Retained(p)) \in Nat
    BY <1>4, CommandsAreFinite, FS_Subset, FS_CardinalityType
  <2>2. Cardinality(Retained(p) \union {c}) = IF c \in Retained(p) THEN Cardinality(Retained(p))
                                              ELSE Cardinality(Retained(p)) + 1
    BY <2>1, FS_AddElement
  <2>3. Cardinality(Retained(p)) < MaxRequests
    BY <1>4 DEF HasRoom
  <2>4. Cardinality(Retained(core')) <= MaxRequests
    BY <1>4, <2>1, <2>2, <2>3, LimitsAreNatural
  <2>5. QED
    BY <1>1, <2>4 DEF SlotsAreSound, CoreIsSound
<1>5. QED
  BY <1>1, <1>3, <1>4, StepTakesOne

\* Requests that wait and dispatches that providers still work on never exceed
\* the limit together, whatever results were given early and whatever approvals
\* and connections came and went.
THEOREM SlotsAlwaysSuffice == Spec => []SlotsSuffice
<1>1. SlotsAreSound => SlotsSuffice
  BY DEF SlotsAreSound, CoreIsSound, Sound, Booked, BooksKept, SlotsSuffice
<1>2. QED
  BY <1>1, InitSlots, StepSlots, PTL DEF Spec

-----------------------------------------------------------------------------
(* The timer: a tick leaves nothing that is due, and sleeping until the next *)
(* deadline makes nothing due.                                               *)

\* Nothing is due.
Calm(p) ==
  /\ p.approval = NoApproval \/ p.approval.left # 0
  /\ \A c \in Command : IsPending(p, c) => p.pending[c].left # 0

LEMMA EndedNothing ==
  ASSUME NEW p \in CoreState, NEW C, C \intersect PendingSet(p) = {}
  PROVE  Ended(p, C) = p
<1> DEFINE over == C \intersect PendingSet(p)
           f == [c \in Command |->
                   IF c \in over THEN [p.pending[c] EXCEPT !.phase = "ended", !.left = 0]
                   ELSE p.pending[c]]
           n == [c \in Command |-> IF c \in over THEN p.finishes[c] + 1 ELSE p.finishes[c]]
           o == [c \in Command |->
                   IF c \notin over THEN p.outcome[c]
                   ELSE IF p.pending[c].phase = "dispatched" THEN "unknown" ELSE "refused"]
<1>1. f = p.pending /\ n = p.finishes /\ o = p.outcome
  BY DEF CoreState
<1>2. Ended(p, C) = [p EXCEPT !.pending = f, !.finishes = n, !.outcome = o]
  BY DEF Ended
<1> HIDE DEF f, n, o
<1>3. QED
  BY <1>1, <1>2 DEF CoreState

LEMMA CalmStays ==
  ASSUME NEW p \in CoreState, Calm(p)
  PROVE  Expired(p) = p
<1> DEFINE C == {c \in Command : p.pending[c].left = 0}
<1>1. C \intersect PendingSet(p) = {}
  BY DEF Calm, PendingSet
<1>2. Expired(p) = Ended(p, C)
  BY DEF Expired, Calm
<1>3. QED
  BY <1>1, <1>2, EndedNothing

LEMMA TickCalms ==
  ASSUME NEW p, Sound(p)
  PROVE  Calm(Expired(p))
<1> DEFINE q == IF p.approval # NoApproval /\ p.approval.left = 0 THEN Unapproved(p) ELSE p
           C == {c \in Command : q.pending[c].left = 0}
<1>1. Booked(q) /\ q \in CoreState
  BY UnapprovedSound DEF Sound, Booked
<1>2. q.approval = NoApproval \/ q.approval.left # 0
  BY UnapprovedLessens DEF Sound
<1>3. Expired(p) = Ended(q, C)
  BY DEF Expired
<1> HIDE DEF q
<1>4. Expired(p).approval = q.approval
  BY <1>1, <1>3, EndedFields
<1>5. ASSUME NEW c \in Command, IsPending(Expired(p), c)
      PROVE  Expired(p).pending[c].left # 0
  <2>1. IsPending(q, c) /\ c \notin C
    BY <1>1, <1>3, <1>5, EndedBooked
  <2>2. Expired(p).pending[c] = q.pending[c]
    BY <1>1, <1>3, <2>1, EndedCommands
  <2>3. QED
    BY <2>1, <2>2
<1>6. QED
  BY <1>2, <1>4, <1>5 DEF Calm

LEMMA NothingRunsOut ==
  ASSUME NEW x \in Nat, NEW d \in Nat, x \in 1..Forever - 1 => x > d
  PROVE  Aged(x, d) = 0 <=> x = 0
BY LimitsAreNatural DEF Aged

LEMMA SleepCalms ==
  ASSUME NEW p \in CoreState, Calm(p), NEW d \in Nat, \A x \in Deadlines(p) : x > d
  PROVE  AgedCore(p, d) \in CoreState /\ Calm(AgedCore(p, d))
<1> DEFINE q == AgedCore(p, d)
<1>1. /\ q \in CoreState
      /\ q.approval = [p.approval EXCEPT !.left = Aged(@, d)]
      /\ q.approval.left = Aged(p.approval.left, d)
      /\ \A c \in Command : /\ q.pending[c].phase = p.pending[c].phase
                            /\ q.pending[c].left = Aged(p.pending[c].left, d)
  BY AgedFields
<1> HIDE DEF q
<1>2. p.approval.left \in Nat /\ \A c \in Command : p.pending[c].left \in Nat
  BY DEF CoreState, Approval, Pending
<1>3. q.approval = NoApproval \/ q.approval.left # 0
  <2>1. CASE p.approval = NoApproval
    <3>1. Aged(0, d) = 0
      BY LimitsAreNatural DEF Aged
    <3>2. [NoApproval EXCEPT !.left = Aged(@, d)] = NoApproval
      BY <3>1 DEF NoApproval
    <3>3. QED
      BY <1>1, <2>1, <3>2
  <2>2. CASE p.approval.left # 0
    <3>1. p.approval.left \in 1..Forever - 1 => p.approval.left > d
      BY DEF Deadlines
    <3>2. QED
      BY <1>1, <1>2, <2>2, <3>1, NothingRunsOut
  <2>3. QED
    BY <2>1, <2>2 DEF Calm
<1>4. ASSUME NEW c \in Command, IsPending(q, c)
      PROVE  q.pending[c].left # 0
  <2>1. IsPending(p, c)
    BY <1>1, <1>4 DEF IsPending
  <2>2. p.pending[c].left # 0
    BY <2>1 DEF Calm
  <2>3. p.pending[c].left \in 1..Forever - 1 => p.pending[c].left > d
    BY <2>1 DEF Deadlines, PendingSet
  <2>4. QED
    BY <1>1, <1>2, <2>2, <2>3, NothingRunsOut
<1>5. QED
  BY <1>1, <1>3, <1>4 DEF q, Calm

LEMMA EarliestDeadline ==
  ASSUME NEW D \in SUBSET (1..Forever - 1), D # {}
  PROVE  LET m == CHOOSE x \in D : \A y \in D : x <= y
         IN  m \in D /\ \A y \in D : m <= y
<1> DEFINE S == 0..Forever - 1
           C == {0..x : x \in D}
<1>1. IsWellFoundedOn(StrictSubsetOrdering(S), SUBSET S)
  <2>1. IsFiniteSet(S)
    BY FS_Interval, LimitsAreNatural
  <2> HIDE DEF S
  <2>2. QED
    BY <2>1, FS_StrictSubsetOrderingWellFounded, FS_FiniteSubsetsOfFinite
<1>2. C \subseteq SUBSET S /\ C # {}
  <2>1. ASSUME NEW x \in D PROVE 0..x \subseteq S
    <3>1. x \in 1..Forever - 1 /\ Forever \in Nat
      BY LimitsAreNatural
    <3>2. QED
      BY <3>1
  <2>2. QED
    BY <2>1
<1>3. PICK c \in C : \A y \in C : ~ (<<y, c>> \in StrictSubsetOrdering(S))
  <2> HIDE DEF C, S
  <2>1. QED
    BY <1>1, <1>2, WFMin
<1>4. PICK x \in D : c = 0..x
  BY <1>3
<1>5. ASSUME NEW y \in D PROVE x <= y
  <2> SUFFICES ASSUME y < x PROVE FALSE
    BY LimitsAreNatural
  <2>1. x \in Nat /\ y \in Nat
    BY LimitsAreNatural
  <2>2. 0..y \subseteq 0..x /\ x \in 0..x /\ x \notin 0..y
    BY <2>1
  <2>3. 0..y \in C /\ 0..y \in SUBSET S /\ c \in SUBSET S
    BY <1>2, <1>3
  <2>4. 0..y \subseteq c /\ 0..y # c
    BY <1>4, <2>2
  <2> HIDE DEF C, S
  <2>5. <<0..y, c>> \in StrictSubsetOrdering(S)
    BY <2>3, <2>4 DEF StrictSubsetOrdering
  <2>6. QED
    BY <1>3, <2>3, <2>5
<1>6. QED
  BY <1>5

\* The host that sleeps until nextDeadline() sleeps through no expiry: a tick
\* any earlier would change nothing.
THEOREM TheTimerCovers == Spec => []TimerCovers
<1>1. ASSUME CoreIsSound PROVE TimerCovers
  <2> DEFINE p == Expired(core)
             due == Deadlines(p)
             m == CHOOSE x \in due : \A y \in due : x <= y
             early == IF due = {} THEN 1 ELSE m - 1
  <2>1. Sound(core)
    BY <1>1 DEF CoreIsSound
  <2>2. p \in CoreState /\ Calm(p)
    BY <2>1, ExpiredSound, TickCalms DEF Sound, Booked
  <2>3. early \in Nat /\ \A x \in due : x > early
    <3>1. due \in SUBSET (1..Forever - 1)
      BY DEF Deadlines
    <3> HIDE DEF due
    <3>2. CASE due = {}
      BY <3>2
    <3>3. CASE due # {}
      <4>1. m \in due /\ \A y \in due : m <= y
        BY <3>1, <3>3, EarliestDeadline
      <4>2. \A x \in due : x \in Nat /\ x > 0
        BY <3>1, LimitsAreNatural
      <4> HIDE DEF m
      <4>3. QED
        BY <3>3, <4>1, <4>2
    <3>4. QED
      BY <3>2, <3>3
  <2> HIDE DEF p, early
  <2>4. AgedCore(p, early) \in CoreState /\ Calm(AgedCore(p, early))
    BY <2>2, <2>3, SleepCalms
  <2>5. Expired(AgedCore(p, early)) = AgedCore(p, early)
    BY <2>4, CalmStays
  <2>6. QED
    BY <2>5 DEF TimerCovers, p, early
<1>2. QED
  BY <1>1, AlwaysSound, PTL

-----------------------------------------------------------------------------
(* Fences: authority advances and never comes back. *)

LEMMA StepAdvances ==
  ASSUME Sound(core), [Next]_core
  PROVE  /\ Advances(core, core')
         /\ \/ core'.fences = core.fences
            \/ \E f \in Profile :
                 /\ core.providers[f] # 0
                 /\ core'.fences = core.fences \union
                      {[connection |-> core.providers[f],
                        generation |-> core.authorizationGeneration]}
<1>1. core \in CoreState
  BY DEF Sound, Booked
<1>2. CASE ProviderStep
  BY <1>1, <1>2, ConnectMoves, DisconnectMoves, RetireMoves, AvailabilityMoves
     DEF ProviderStep, Moves
<1>3. CASE OperatorStep
  BY <1>3, ApproveFields, WithdrawFields, ReplaceMoves, StopFields, CheckpointFields,
     RestoreFields DEF OperatorStep, Moves
<1>4. CASE RequestStep
  <2>1. ASSUME NEW f \in Profile, NEW r \in Streams, Fence(f, r)
        PROVE  /\ Advances(core, core') /\ core.providers[f] # 0
               /\ core'.fences = core.fences \union
                    {[connection |-> core.providers[f],
                      generation |-> core.authorizationGeneration]}
    BY <1>1, <2>1, FenceFields DEF Fence
  <2>2. QED
    BY <1>4, <2>1, RequestMoves, BeginMoves, CompleteMoves, CancelMoves
       DEF RequestStep, Moves
<1>5. CASE Tick
  BY <1>5, TickMoves DEF Moves
<1>6. CASE Pass
  BY <1>1, <1>6, PassFields
<1>7. CASE UNCHANGED core
  BY <1>1, <1>7, GenerationsTyped DEF Advances
<1>8. QED
  BY <1>2, <1>3, <1>4, <1>5, <1>6, <1>7 DEF Next

\* A fence names a connection and a generation there have been.
FencesAreKnown(p) ==
  /\ \A f \in Profile : p.providers[f] <= p.providerGeneration
  /\ \A e \in p.fences : /\ e.connection # 0 /\ e.connection <= p.providerGeneration
                         /\ e.generation <= p.authorizationGeneration

FencesAreSound == CoreIsSound /\ FencesAreKnown(core)

LEMMA InitFences == Init => FencesAreSound
<1> SUFFICES ASSUME Init PROVE FencesAreSound
  OBVIOUS
<1>1. FencesAreKnown(core)
  BY DEF Init, FencesAreKnown
<1>2. QED
  BY <1>1, InitSound DEF FencesAreSound, CoreIsSound

LEMMA StepFences == FencesAreSound /\ [Next]_core => FencesAreSound'
<1> SUFFICES ASSUME FencesAreSound, [Next]_core PROVE FencesAreSound'
  OBVIOUS
<1>1. Sound(core) /\ Sound(core') /\ FencesAreKnown(core)
  BY StepSound DEF FencesAreSound, CoreIsSound
<1>2. core \in CoreState /\ core' \in CoreState
  BY <1>1 DEF Sound, Booked
<1>3. Advances(core, core')
  BY <1>1, StepAdvances
<1>4. \A f \in Profile : core'.providers[f] <= core'.providerGeneration
  BY <1>1, <1>2, <1>3, GenerationsTyped DEF Advances, FencesAreKnown
<1>5. ASSUME NEW e \in core.fences
      PROVE  /\ e.connection # 0 /\ e.connection <= core'.providerGeneration
             /\ e.generation <= core'.authorizationGeneration
  <2>1. e.connection \in Nat /\ e.generation \in Nat
    BY <1>2 DEF CoreState
  <2>2. QED
    BY <1>1, <1>2, <1>3, <2>1, GenerationsTyped DEF Advances, FencesAreKnown
<1>6. ASSUME NEW f \in Profile, core.providers[f] # 0,
             NEW e, e = [connection |-> core.providers[f],
                         generation |-> core.authorizationGeneration]
      PROVE  /\ e.connection # 0 /\ e.connection <= core'.providerGeneration
             /\ e.generation <= core'.authorizationGeneration
  <2>1. e.connection = core.providers[f] /\ e.generation = core.authorizationGeneration
    BY <1>6
  <2>2. QED
    BY <1>1, <1>2, <1>3, <1>6, <2>1, GenerationsTyped DEF Advances, FencesAreKnown
<1>7. \A e \in core'.fences : /\ e.connection # 0 /\ e.connection <= core'.providerGeneration
                              /\ e.generation <= core'.authorizationGeneration
  <2>1. CASE core'.fences = core.fences
    BY <1>5, <2>1
  <2>2. ASSUME NEW f \in Profile, core.providers[f] # 0,
               core'.fences = core.fences \union
                 {[connection |-> core.providers[f],
                   generation |-> core.authorizationGeneration]}
        PROVE  \A e \in core'.fences : /\ e.connection # 0
                                       /\ e.connection <= core'.providerGeneration
                                       /\ e.generation <= core'.authorizationGeneration
    BY <1>5, <1>6, <2>2
  <2>3. QED
    BY <1>1, <2>1, <2>2, StepAdvances
<1>8. QED
  BY <1>1, <1>4, <1>7 DEF FencesAreSound, CoreIsSound, FencesAreKnown

\* An open stream whose fence was refused once never gets its authority back,
\* whatever reconnects, is restored or becomes available again.
THEOREM FencesNeverRevive == Spec => FencesStayDead
<1>1. ASSUME FencesAreSound, [Next]_core PROVE FenceStep
  <2>1. Sound(core) /\ FencesAreKnown(core)
    BY <1>1 DEF FencesAreSound, CoreIsSound
  <2>2. core \in CoreState /\ core' \in CoreState
    BY <1>1, <2>1, StepSound DEF Sound, Booked
  <2>3. Advances(core, core')
    BY <1>1, <2>1, StepAdvances
  <2>4. ASSUME NEW e \in core.fences, NEW r, ValidFence(core', e, r)
        PROVE  ValidFence(core, e, r)
    <3>1. e.connection \in Nat /\ e.generation \in Nat
      BY <2>2 DEF CoreState
    <3>2. /\ e.generation = core'.authorizationGeneration
          /\ e.generation <= core.authorizationGeneration
          /\ core.authorizationGeneration <= core'.authorizationGeneration
      BY <2>1, <2>3, <2>4 DEF ValidFence, FencesAreKnown, Advances
    <3>3. core'.authorizationGeneration = core.authorizationGeneration
      BY <2>2, <3>2, GenerationsTyped
    <3>4. /\ core'.approval.profiles = core.approval.profiles
          /\ core'.approval.devtools = core.approval.devtools
          /\ core'.approval.left > 0 => core.approval.left > 0
          /\ core.withdrawn \subseteq core'.withdrawn
          /\ core'.readable = core.readable /\ core'.writable = core.writable
      BY <2>3, <3>3 DEF Advances
    <3>5. PICK f \in core'.approval.profiles \ core'.withdrawn :
            /\ core'.approval.left > 0 /\ core'.providers[f] = e.connection
            /\ Permitted(core', r)
      BY <2>4 DEF ValidFence
    <3>6. f \in Profile /\ f \in core.approval.profiles \ core.withdrawn
      BY <2>2, <3>4, <3>5 DEF CoreState, Approval
    <3>7. core.providers[f] = e.connection
      <4>1. e.connection # 0 /\ e.connection <= core.providerGeneration
        BY <2>1 DEF FencesAreKnown
      <4>2. \/ core'.providers[f] \in {0, core.providers[f]}
            \/ core.providerGeneration < core'.providers[f]
        BY <2>3, <3>6 DEF Advances
      <4>3. QED
        BY <2>2, <3>1, <3>5, <4>1, <4>2, GenerationsTyped
    <3>8. Permitted(core, r)
      BY <3>4, <3>5 DEF Permitted
    <3>9. e.generation = core.authorizationGeneration
      BY <3>2, <3>3
    <3>10. QED
      BY <3>4, <3>5, <3>6, <3>7, <3>8, <3>9 DEF ValidFence
  <2>5. QED
    BY <2>4 DEF FenceStep
<1>2. FencesAreSound /\ [Next]_core => [FenceStep]_core
  BY <1>1
<1>3. QED
  BY <1>2, InitFences, StepFences, PTL DEF Spec, FencesStayDead

-----------------------------------------------------------------------------
(* Consent: what is approved, and what could be restored, rests on it. *)

ConsentType == [Profile -> [BOOLEAN -> Nat]]

\* The approval gives no profile more than the consent g.
ApprovalRests(p, g) ==
  \A f \in p.approval.profiles \ p.withdrawn : p.approval.left <= g[f][p.approval.devtools]

\* Nor would a checkpoint.  One that a withdrawal has overtaken gives the
\* profile nothing, and no later withdrawal brings its count back.
CheckpointRests(p, k, g) ==
  \A f \in Profile :
    /\ p.checkpoints[k].withdrawals[f] <= p.withdrawalVersions[f]
    /\ p.checkpoints[k].withdrawals[f] = p.withdrawalVersions[f] =>
         p.checkpoints[k].left <= g[f][p.checkpoints[k].devtools]

RestsOn(p, g) == ApprovalRests(p, g) /\ \A k \in Token : CheckpointRests(p, k, g)

LEMMA RestsTyped ==
  ASSUME NEW p \in CoreState
  PROVE  /\ p.approval.left \in Nat /\ p.approval.devtools \in BOOLEAN
         /\ p.approval.profiles \subseteq Profile
         /\ \A f \in Profile : p.withdrawalVersions[f] \in Nat
         /\ \A k \in Token : /\ p.checkpoints[k].left \in Nat
                             /\ p.checkpoints[k].devtools \in BOOLEAN
         /\ \A k \in Token, f \in Profile : p.checkpoints[k].withdrawals[f] \in Int
<1>1. /\ p.approval.left \in Nat /\ p.approval.devtools \in BOOLEAN
      /\ p.approval.profiles \subseteq Profile
      /\ \A f \in Profile : p.withdrawalVersions[f] \in Nat
  BY DEF CoreState, Approval
<1>2. ASSUME NEW k \in Token
      PROVE  /\ p.checkpoints[k].left \in Nat /\ p.checkpoints[k].devtools \in BOOLEAN
             /\ \A f \in Profile : p.checkpoints[k].withdrawals[f] \in Int
  <2>1. p.checkpoints[k] \in Checkpointed
    BY DEF CoreState
  <2>2. QED
    BY <2>1 DEF Checkpointed, Dropped
<1>3. QED
  BY <1>1, <1>2

LEMMA NoApprovalRests ==
  ASSUME NEW p, p.approval = NoApproval, NEW g
  PROVE  ApprovalRests(p, g)
BY DEF ApprovalRests, NoApproval

LEMMA NarrowsRests ==
  ASSUME NEW p, NEW q, Narrows(p, q), NEW g, RestsOn(p, g)
  PROVE  RestsOn(q, g)
<1>1. ApprovalRests(q, g)
  BY NoApprovalRests DEF Narrows, RestsOn, ApprovalRests
<1>2. QED
  BY <1>1 DEF Narrows, RestsOn, CheckpointRests

LEMMA AgedMonotone ==
  ASSUME NEW a \in Nat, NEW b \in Nat, a <= b, NEW d \in Nat
  PROVE  Aged(a, d) <= Aged(b, d)
BY LimitsAreNatural DEF Aged

LEMMA ApproveRests ==
  ASSUME Sound(core), consent \in ConsentType, RestsOn(core, consent),
         NEW S \in Grants, NEW d \in Durations, NEW devtools \in Scopes,
         ApproveH(S, d, devtools)
  PROVE  consent' \in ConsentType /\ RestsOn(core', consent')
<1>1. S \in SUBSET Profile /\ d \in Nat /\ devtools \in BOOLEAN
  BY InputsAreTyped, LimitsAreNatural
<1>2. core \in CoreState
  BY DEF Sound, Booked
<1>3. consent' = [f \in Profile |-> [v \in BOOLEAN |->
        IF f \in S /\ (v => devtools) THEN Longer(consent[f][v], d) ELSE consent[f][v]]]
  BY DEF ApproveH
<1>4. \A f \in Profile, v \in BOOLEAN : consent[f][v] \in Nat
  BY DEF ConsentType
<1>5. \A f \in Profile, v \in BOOLEAN :
        consent'[f][v] = IF f \in S /\ (v => devtools) THEN Longer(consent[f][v], d)
                         ELSE consent[f][v]
  BY <1>3
<1>6. \A f \in Profile, v \in BOOLEAN :
        consent'[f][v] \in Nat /\ consent[f][v] <= consent'[f][v]
  BY <1>1, <1>4, <1>5 DEF Longer
<1>7. \A f \in S : d <= consent'[f][devtools]
  BY <1>1, <1>4, <1>5 DEF Longer
<1>8. consent' \in ConsentType
  <2>1. ASSUME NEW f \in Profile
        PROVE  [v \in BOOLEAN |-> IF f \in S /\ (v => devtools)
                                  THEN Longer(consent[f][v], d) ELSE consent[f][v]]
               \in [BOOLEAN -> Nat]
    BY <1>1, <1>4 DEF Longer
  <2>2. QED
    BY <1>3, <2>1 DEF ConsentType
<1>9. /\ core'.checkpoints = core.checkpoints
      /\ core'.withdrawalVersions = core.withdrawalVersions
      /\ core'.approval.profiles = S /\ core'.approval.left = d
      /\ core'.approval.devtools = devtools
  BY ApproveFields DEF ApproveH
<1>10. ApprovalRests(core', consent')
  BY <1>7, <1>9 DEF ApprovalRests
<1>11. ASSUME NEW k \in Token PROVE CheckpointRests(core', k, consent')
  <2> DEFINE x == core.checkpoints[k].left
             v == core.checkpoints[k].devtools
  <2>1. x \in Nat /\ v \in BOOLEAN
    BY <1>2, RestsTyped
  <2>2. CheckpointRests(core, k, consent)
    BY DEF RestsOn
  <2>3. ASSUME NEW f \in Profile, x <= consent[f][v] PROVE x <= consent'[f][v]
    <3>1. /\ consent[f][v] \in Nat /\ consent'[f][v] \in Nat
          /\ consent[f][v] <= consent'[f][v]
      BY <1>4, <1>6, <2>1
    <3> HIDE DEF x, v
    <3>2. QED
      BY <2>1, <2>3, <3>1
  <2>4. QED
    BY <1>9, <2>2, <2>3 DEF CheckpointRests
<1>12. QED
  BY <1>8, <1>10, <1>11 DEF RestsOn

LEMMA WithdrawRests ==
  ASSUME Sound(core), consent \in ConsentType, RestsOn(core, consent),
         NEW f \in Profile, WithdrawH(f)
  PROVE  consent' \in ConsentType /\ RestsOn(core', consent')
<1>1. core \in CoreState
  BY DEF Sound, Booked
<1>2. consent' = [consent EXCEPT ![f] = Nothing] /\ Nothing \in [BOOLEAN -> Nat]
  BY DEF WithdrawH, Nothing
<1>3. /\ consent' \in ConsentType
      /\ \A g \in Profile : g # f => consent'[g] = consent[g]
  BY <1>2 DEF ConsentType
<1>4. /\ core'.checkpoints = core.checkpoints
      /\ core'.withdrawalVersions = [core.withdrawalVersions EXCEPT ![f] = @ + 1]
      /\ \/ core'.approval = NoApproval
         \/ /\ core'.approval = core.approval
            /\ core'.withdrawn = core.withdrawn \union {f}
  BY WithdrawFields DEF WithdrawH
<1>5. /\ core'.withdrawalVersions[f] = core.withdrawalVersions[f] + 1
      /\ \A g \in Profile : g # f =>
           core'.withdrawalVersions[g] = core.withdrawalVersions[g]
  BY <1>1, <1>4 DEF CoreState
<1>6. ApprovalRests(core', consent')
  <2>1. CASE core'.approval = NoApproval
    BY <2>1, NoApprovalRests
  <2>2. CASE /\ core'.approval = core.approval
             /\ core'.withdrawn = core.withdrawn \union {f}
    <3>1. ApprovalRests(core, consent) /\ core.approval.profiles \subseteq Profile
      BY <1>1, RestsTyped DEF RestsOn
    <3>2. QED
      BY <1>3, <2>2, <3>1 DEF ApprovalRests
  <2>3. QED
    BY <1>4, <2>1, <2>2
\* What was saved before counts one withdrawal less than there now are.
<1>7. ASSUME NEW k \in Token PROVE CheckpointRests(core', k, consent')
  <2>1. CheckpointRests(core, k, consent)
    BY DEF RestsOn
  <2>2. ASSUME NEW g \in Profile
        PROVE  /\ core'.checkpoints[k].withdrawals[g] <= core'.withdrawalVersions[g]
               /\ core'.checkpoints[k].withdrawals[g] = core'.withdrawalVersions[g] =>
                    core'.checkpoints[k].left <= consent'[g][core'.checkpoints[k].devtools]
    <3>1. /\ core.checkpoints[k].withdrawals[g] \in Int
          /\ core.withdrawalVersions[g] \in Nat
      BY <1>1, RestsTyped
    <3>2. /\ core.checkpoints[k].withdrawals[g] <= core.withdrawalVersions[g]
          /\ core.checkpoints[k].withdrawals[g] = core.withdrawalVersions[g] =>
               core.checkpoints[k].left <= consent[g][core.checkpoints[k].devtools]
      BY <2>1 DEF CheckpointRests
    <3>3. CASE g = f
      BY <1>4, <1>5, <3>1, <3>2, <3>3
    <3>4. CASE g # f
      BY <1>3, <1>4, <1>5, <3>2, <3>4
    <3>5. QED
      BY <3>3, <3>4
  <2>3. QED
    BY <2>2 DEF CheckpointRests
<1>8. QED
  BY <1>3, <1>6, <1>7 DEF RestsOn

LEMMA StopRests ==
  ASSUME Sound(core), consent \in ConsentType, StopH
  PROVE  consent' \in ConsentType /\ RestsOn(core', consent')
<1>1. consent' = [f \in Profile |-> Nothing] /\ Nothing \in [BOOLEAN -> Nat]
  BY DEF StopH, Nothing
<1>2. core \in CoreState
  BY DEF Sound, Booked
<1>3. /\ core'.checkpoints = [k \in Token |-> Unsaved]
      /\ core'.withdrawalVersions = core.withdrawalVersions
      /\ core'.approval = NoApproval
  BY StopFields DEF StopH
<1>4. \A f \in Profile : core.withdrawalVersions[f] \in Nat
  BY <1>2, RestsTyped
<1>5. ASSUME NEW k \in Token PROVE CheckpointRests(core', k, consent')
  <2>1. \A f \in Profile : core'.checkpoints[k].withdrawals[f] = -1
    BY <1>3 DEF Unsaved, Dropped
  <2>2. QED
    BY <1>3, <1>4, <2>1 DEF CheckpointRests
<1>6. QED
  BY <1>1, <1>3, <1>5, NoApprovalRests DEF RestsOn, ConsentType

LEMMA CheckpointKeeps ==
  ASSUME Sound(core), consent \in ConsentType, RestsOn(core, consent),
         NEW k \in Token, Checkpoint(k)
  PROVE  RestsOn(core', consent)
<1> DEFINE w == [f \in Profile |-> IF f \in core.approval.profiles \ core.withdrawn
                                   THEN core.withdrawalVersions[f] ELSE Dropped]
           y == [saved |-> TRUE, left |-> core.approval.left,
                 devtools |-> core.approval.devtools, withdrawals |-> w]
<1>1. core \in CoreState
  BY DEF Sound, Booked
<1>2. /\ core'.withdrawalVersions = core.withdrawalVersions
      /\ core'.approval = core.approval /\ core'.withdrawn = core.withdrawn
      /\ core'.checkpoints = [core.checkpoints EXCEPT ![k] = y]
  BY CheckpointFields
<1>3. /\ y.left = core.approval.left /\ y.devtools = core.approval.devtools
      /\ y.withdrawals = w
  OBVIOUS
<1> HIDE DEF y
<1>4. /\ core'.checkpoints[k] = y
      /\ \A i \in Token : i # k => core'.checkpoints[i] = core.checkpoints[i]
  BY <1>1, <1>2 DEF CoreState
<1>5. ApprovalRests(core', consent) /\ ApprovalRests(core, consent)
  BY <1>2 DEF RestsOn, ApprovalRests
<1>6. CheckpointRests(core', k, consent)
  <2>1. ASSUME NEW f \in Profile
        PROVE  /\ w[f] <= core.withdrawalVersions[f]
               /\ w[f] = core.withdrawalVersions[f] =>
                    core.approval.left <= consent[f][core.approval.devtools]
    <3>1. core.withdrawalVersions[f] \in Nat
      BY <1>1, RestsTyped
    <3>2. w[f] = IF f \in core.approval.profiles \ core.withdrawn
                 THEN core.withdrawalVersions[f] ELSE -1
      BY DEF Dropped
    <3>3. f \in core.approval.profiles \ core.withdrawn =>
            core.approval.left <= consent[f][core.approval.devtools]
      BY <1>5 DEF ApprovalRests
    <3> HIDE DEF w
    <3>4. w[f] <= core.withdrawalVersions[f]
      BY <3>1, <3>2
    <3>5. w[f] = core.withdrawalVersions[f] => f \in core.approval.profiles \ core.withdrawn
      BY <3>1, <3>2
    <3>6. QED
      BY <3>3, <3>4, <3>5
  <2> HIDE DEF w
  <2>2. QED
    BY <1>2, <1>3, <1>4, <2>1 DEF CheckpointRests
<1>7. ASSUME NEW i \in Token, i # k PROVE CheckpointRests(core', i, consent)
  BY <1>2, <1>4, <1>7 DEF RestsOn, CheckpointRests
<1>8. QED
  BY <1>5, <1>6, <1>7 DEF RestsOn

LEMMA RestoreKeeps ==
  ASSUME Sound(core), consent \in ConsentType, RestsOn(core, consent),
         NEW k \in Token, Restore(k)
  PROVE  RestsOn(core', consent)
<1>1. core \in CoreState
  BY DEF Sound, Booked
<1>2. /\ core'.checkpoints = [core.checkpoints EXCEPT ![k] = Unsaved]
      /\ core'.withdrawalVersions = core.withdrawalVersions
      /\ \/ core'.approval = NoApproval
         \/ /\ core'.approval.profiles = Unwithdrawn(core, k)
            /\ core'.approval.left = core.checkpoints[k].left
            /\ core'.approval.devtools = core.checkpoints[k].devtools
  BY RestoreFields
<1>3. /\ core'.checkpoints[k] = Unsaved
      /\ \A i \in Token : i # k => core'.checkpoints[i] = core.checkpoints[i]
  BY <1>1, <1>2 DEF CoreState
<1>4. ApprovalRests(core', consent)
  <2>1. CASE core'.approval = NoApproval
    BY <2>1, NoApprovalRests
  <2>2. CASE /\ core'.approval.profiles = Unwithdrawn(core, k)
             /\ core'.approval.left = core.checkpoints[k].left
             /\ core'.approval.devtools = core.checkpoints[k].devtools
    <3>1. CheckpointRests(core, k, consent)
      BY DEF RestsOn
    <3>2. QED
      BY <2>2, <3>1 DEF ApprovalRests, CheckpointRests, Unwithdrawn
  <2>3. QED
    BY <1>2, <2>1, <2>2
<1>5. CheckpointRests(core', k, consent)
  <2>1. \A f \in Profile : core'.checkpoints[k].withdrawals[f] = -1
    BY <1>3 DEF Unsaved, Dropped
  <2>2. \A f \in Profile : core'.withdrawalVersions[f] \in Nat
    BY <1>1, <1>2, RestsTyped
  <2>3. QED
    BY <2>1, <2>2 DEF CheckpointRests
<1>6. ASSUME NEW i \in Token, i # k PROVE CheckpointRests(core', i, consent)
  BY <1>2, <1>3, <1>6 DEF RestsOn, CheckpointRests
<1>7. QED
  BY <1>4, <1>5, <1>6 DEF RestsOn

LEMMA PassRests ==
  ASSUME Sound(core), consent \in ConsentType, RestsOn(core, consent), PassH
  PROVE  consent' \in ConsentType /\ RestsOn(core', consent')
<1>1. core \in CoreState
  BY DEF Sound, Booked
<1>2. /\ core'.withdrawalVersions = core.withdrawalVersions
      /\ core'.withdrawn = core.withdrawn
      /\ core'.approval.profiles = core.approval.profiles
      /\ core'.approval.devtools = core.approval.devtools
      /\ core'.approval.left = Aged(core.approval.left, 1)
      /\ \A k \in Token :
           /\ core'.checkpoints[k].left = Aged(core.checkpoints[k].left, 1)
           /\ core'.checkpoints[k].devtools = core.checkpoints[k].devtools
           /\ core'.checkpoints[k].withdrawals = core.checkpoints[k].withdrawals
  BY <1>1, PassFields DEF PassH
<1>3. \A f \in Profile, v \in BOOLEAN : consent[f][v] \in Nat
  BY DEF ConsentType
<1>4. consent' = [f \in Profile |-> [v \in BOOLEAN |-> Aged(consent[f][v], 1)]]
  BY DEF PassH
<1>5. \A f \in Profile, v \in BOOLEAN : consent'[f][v] = Aged(consent[f][v], 1)
  BY <1>4
<1>6. consent' \in ConsentType
  <2>1. ASSUME NEW f \in Profile
        PROVE  [v \in BOOLEAN |-> Aged(consent[f][v], 1)] \in [BOOLEAN -> Nat]
    BY <1>3, AgedTyped
  <2>2. QED
    BY <1>4, <2>1 DEF ConsentType
<1>7. ASSUME NEW f \in Profile, NEW v \in BOOLEAN, NEW x \in Nat, x <= consent[f][v]
      PROVE  Aged(x, 1) <= consent'[f][v]
  BY <1>3, <1>5, <1>7, AgedMonotone
<1>8. ApprovalRests(core', consent')
  <2>1. /\ ApprovalRests(core, consent) /\ core.approval.profiles \subseteq Profile
        /\ core.approval.left \in Nat /\ core.approval.devtools \in BOOLEAN
    BY <1>1, RestsTyped DEF RestsOn
  <2>2. QED
    BY <1>2, <1>7, <2>1 DEF ApprovalRests
<1>9. ASSUME NEW k \in Token PROVE CheckpointRests(core', k, consent')
  <2>1. /\ CheckpointRests(core, k, consent)
        /\ core.checkpoints[k].left \in Nat /\ core.checkpoints[k].devtools \in BOOLEAN
    BY <1>1, RestsTyped DEF RestsOn
  <2>2. QED
    BY <1>2, <1>7, <2>1 DEF CheckpointRests
<1>10. QED
  BY <1>6, <1>8, <1>9 DEF RestsOn

ConsentIsSound == CoreIsSound /\ consent \in ConsentType /\ RestsOn(core, consent)

\* The history only watches.
LEMMA HistoryWatches == [HNext]_<<core, consent>> => [Next]_core
BY DEF HNext, ApproveH, WithdrawH, StopH, PassH, Unwatched, Next, OperatorStep

LEMMA InitConsent == HInit => ConsentIsSound
<1> SUFFICES ASSUME HInit PROVE ConsentIsSound
  OBVIOUS
<1>1. Init /\ consent = [f \in Profile |-> Nothing] /\ Nothing \in [BOOLEAN -> Nat]
  BY DEF HInit, Nothing
<1>2. Sound(core) /\ consent \in ConsentType
  BY <1>1, InitSound DEF ConsentType
<1>3. ApprovalRests(core, consent)
  BY <1>1, NoApprovalRests DEF Init
<1>4. ASSUME NEW k \in Token PROVE CheckpointRests(core, k, consent)
  BY <1>1 DEF Init, CheckpointRests, Unsaved, Dropped
<1>5. QED
  BY <1>2, <1>3, <1>4 DEF ConsentIsSound, CoreIsSound, RestsOn

LEMMA StepConsent == ConsentIsSound /\ [HNext]_<<core, consent>> => ConsentIsSound'
<1> SUFFICES ASSUME ConsentIsSound, [HNext]_<<core, consent>> PROVE ConsentIsSound'
  OBVIOUS
<1>1. Sound(core) /\ consent \in ConsentType /\ RestsOn(core, consent)
  BY DEF ConsentIsSound, CoreIsSound
<1>2. core \in CoreState
  BY <1>1 DEF Sound, Booked
<1>3. Sound(core')
  BY <1>1, HistoryWatches, StepSound
<1>4. ASSUME NEW S \in Grants, NEW d \in Durations, NEW devtools \in Scopes,
             ApproveH(S, d, devtools)
      PROVE  consent' \in ConsentType /\ RestsOn(core', consent')
  BY <1>1, <1>4, ApproveRests
<1>5. ASSUME NEW f \in Profile, WithdrawH(f)
      PROVE  consent' \in ConsentType /\ RestsOn(core', consent')
  BY <1>1, <1>5, WithdrawRests
<1>6. CASE StopH
  BY <1>1, <1>3, <1>6, StopRests DEF ConsentIsSound, CoreIsSound
<1>7. CASE PassH
  BY <1>1, <1>3, <1>7, PassRests DEF ConsentIsSound, CoreIsSound
<1>8. CASE Unwatched /\ UNCHANGED consent
  <2> SUFFICES RestsOn(core', consent)
    BY <1>1, <1>3, <1>8 DEF ConsentIsSound, CoreIsSound
  <2>1. ASSUME Narrows(core, core') PROVE RestsOn(core', consent)
    BY <1>1, <2>1, NarrowsRests
  <2>2. CASE ProviderStep
    BY <1>1, <1>2, <2>1, <2>2, ConnectMoves, DisconnectMoves, RetireMoves,
       AvailabilityMoves DEF ProviderStep, Moves
  <2>3. CASE ReplaceWithoutApproval
    BY <1>1, <2>1, <2>3, ReplaceMoves DEF Moves
  <2>4. ASSUME NEW k \in Token, Checkpoint(k) \/ Restore(k)
        PROVE  RestsOn(core', consent)
    BY <1>1, <2>4, CheckpointKeeps, RestoreKeeps
  <2>5. CASE RequestStep
    BY <1>1, <1>2, <2>1, <2>5, RequestMoves, BeginMoves, CompleteMoves, CancelMoves,
       FenceFields DEF RequestStep, Moves
  <2>6. CASE Tick
    BY <1>1, <2>1, <2>6, TickMoves DEF Moves
  <2>7. QED
    BY <1>8, <2>2, <2>3, <2>4, <2>5, <2>6 DEF Unwatched
<1>9. CASE UNCHANGED <<core, consent>>
  BY <1>1, <1>9 DEF ConsentIsSound, CoreIsSound
<1>10. QED
  BY <1>3, <1>4, <1>5, <1>6, <1>7, <1>8, <1>9 DEF HNext, ConsentIsSound, CoreIsSound

\* No approval, and no restoring of a saved one, gives a profile more than the
\* operator consented to since it was last withdrawn and since the last Stop:
\* not longer, and not with the developer tools where they were not meant.
THEOREM AuthorityIsConsent == HSpec => []ConsentIsOperators
<1>1. ConsentIsSound => ConsentIsOperators
  BY DEF ConsentIsSound, RestsOn, ApprovalRests, ConsentIsOperators
<1>2. QED
  BY <1>1, InitConsent, StepConsent, PTL DEF HSpec

=============================================================================
