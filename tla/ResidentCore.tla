---------------------------- MODULE ResidentCore ----------------------------
(***************************************************************************)
(* The resident's browser policy: class ResidentCore of                    *)
(* runtime/src/core.ts.  A host connects browser profiles, an operator     *)
(* approves some of them, clients submit requests, the core decides which  *)
(* are dispatched to a provider and how each one ends.                     *)
(*                                                                         *)
(* The class never calls out: a method returns effects, and the host       *)
(* carries them out.  So one public method is one step, and a dispatch     *)
(* effect stays in the field dispatches until the host calls begin() for   *)
(* it, any number of other calls later.                                    *)
(*                                                                         *)
(* Objects that the code compares by identity are their numbers here: a    *)
(* ProviderConnection its generation, an Approval its generation.  A       *)
(* deadline is the time that remains until it, 0 once it has passed, as in *)
(* AccessAdmission.                                                        *)
(***************************************************************************)
EXTENDS Integers, FiniteSets

CONSTANTS
  Profile,      \* browser installation identities
  Command,      \* DispatchCommand objects: one identity per accepted request
  Request,      \* Command -> the BrowserRequest it was made from
  Token,        \* places where a host keeps an ApprovalCheckpoint object
  Forever,      \* a deadline that never comes: Infinity
  MaxProviders, \* 16 connected profiles
  MaxKnown,     \* 256 profiles ever seen
  MaxRequests,  \* 64 retained requests
  Durations,    \* lifetimes an operator gives, Forever included
  Grants,       \* sets of profiles an operator approves
  Scopes,       \* subset of BOOLEAN: approvals with and without developer tools
  Availabilities, \* what the native side reports: [readable, writable, renamed]
  Replies,      \* what providers answer: confirmed, declined or unknown
  Streams,      \* kinds of operation a fence is asked for: [writes, devtools]
  MaxConnection, MaxGeneration, MaxVersion   \* bounds on counters

ASSUME LimitsAreNatural ==
  /\ Forever \in Nat \ {0} /\ MaxProviders \in Nat /\ MaxKnown \in Nat
  /\ MaxRequests \in Nat /\ Durations \subseteq Nat \ {0}
  /\ MaxConnection \in Nat /\ MaxGeneration \in Nat /\ MaxVersion \in Nat

ASSUME CommandsAreFinite == IsFiniteSet(Command)

\* What request() validates before it looks at the state (307-324).
ASSUME RequestsAreWellFormed ==
  /\ Request \in [Command -> [id : STRING, profile : Profile, timeout : Nat \ {0},
                              writes : BOOLEAN, devtools : BOOLEAN]]

ASSUME InputsAreTyped ==
  /\ Grants \subseteq (SUBSET Profile) \ {{}} /\ Scopes \subseteq BOOLEAN
  /\ Availabilities \subseteq [readable : BOOLEAN, writable : BOOLEAN, renamed : BOOLEAN]
  /\ Replies \subseteq {"confirmed", "declined", "unknown"}
  /\ Streams \subseteq [writes : BOOLEAN, devtools : BOOLEAN]

VARIABLE core

-----------------------------------------------------------------------------

\* Mutant of Aged: a deadline that has passed goes on counting.
AgedPastZero(left, d) == IF left >= Forever THEN left ELSE left - d

\* The time left of a deadline once d more has passed.
Aged(left, d) == IF left >= Forever THEN left ELSE IF left > d THEN left - d ELSE 0

Approval == [generation : Nat, profiles : SUBSET Profile, left : Nat, devtools : BOOLEAN]
NoApproval == [generation |-> 0, profiles |-> {}, left |-> 0, devtools |-> FALSE]

\* A command: its phase, and what it is bound to.  Generation 0 is none.
Pending == [phase : {"new", "queued", "dispatched", "ended"},
            connection : Nat, approval : Nat, generation : Nat, left : Nat]
Unused == [phase |-> "new", connection |-> 0, approval |-> 0, generation |-> 0, left |-> 0]

\* A saved approval: what remains of it, and for each of its profiles how often
\* that profile had been withdrawn; Dropped for the others.
Dropped == -1
Checkpointed == [saved : BOOLEAN, left : Nat, devtools : BOOLEAN,
                 withdrawals : [Profile -> Nat \union {Dropped}]]
Unsaved == [saved |-> FALSE, left |-> 0, devtools |-> FALSE,
            withdrawals |-> [f \in Profile |-> Dropped]]

CoreState == [
  providers : [Profile -> Nat],          \* the live connection, 0 for none
  providerGeneration : Nat,
  known : SUBSET Profile,
  approval : Approval,
  authorizationGeneration : Nat,
  withdrawn : SUBSET Profile,
  withdrawalVersions : [Profile -> Nat],
  readable : BOOLEAN, writable : BOOLEAN,
  pending : [Command -> Pending],
  unsettled : SUBSET Command,
  checkpoints : [Token -> Checkpointed],
  fences : SUBSET [connection : Nat, generation : Nat],
  \* what the core has told its host, and the host the providers
  dispatches : SUBSET Command,           \* dispatch effects not begun yet
  sent : SUBSET Command,                 \* commands a provider has received
  finishes : [Command -> Nat],           \* how often request.finished was issued
  outcome : [Command -> {"none", "refused", "unknown", "declined", "confirmed"}]]

Init ==
  core = [
    providers |-> [f \in Profile |-> 0],
    providerGeneration |-> 0,
    known |-> {},
    approval |-> NoApproval,
    authorizationGeneration |-> 0,
    withdrawn |-> {},
    withdrawalVersions |-> [f \in Profile |-> 0],
    readable |-> TRUE, writable |-> TRUE,
    pending |-> [c \in Command |-> Unused],
    unsettled |-> {},
    checkpoints |-> [k \in Token |-> Unsaved],
    fences |-> {},
    dispatches |-> {},
    sent |-> {},
    finishes |-> [c \in Command |-> 0],
    outcome |-> [c \in Command |-> "none"]]

IsPending(p, c) == p.pending[c].phase \in {"queued", "dispatched"}
PendingSet(p) == {c \in Command : IsPending(p, c)}

\* #retained: requests that wait for a result, and dispatches that wait for the
\* provider to return, although their result has been given already.
Retained(p) == PendingSet(p) \union p.unsettled

-----------------------------------------------------------------------------
(* How requests end. *)

\* #end for each pending command of C: the result says whether the command may
\* have been executed.
Ended(p, C) ==
  LET over == C \intersect PendingSet(p)
  IN  [p EXCEPT
         !.pending = [c \in Command |->
            IF c \in over THEN [p.pending[c] EXCEPT !.phase = "ended", !.left = 0]
            ELSE p.pending[c]],
         !.finishes = [c \in Command |-> IF c \in over THEN p.finishes[c] + 1 ELSE p.finishes[c]],
         !.outcome = [c \in Command |->
            IF c \notin over THEN p.outcome[c]
            ELSE IF p.pending[c].phase = "dispatched" THEN "unknown" ELSE "refused"]]

\* The approval is gone, and with it every pending request
\* (replaceWithoutApproval).
Unapproved(p) ==
  Ended([p EXCEPT !.approval = NoApproval, !.authorizationGeneration = @ + 1], Command)

\* Mutant of Expired: a request is timed only while it is queued.
ExpiredQueued(p) ==
  LET q == IF p.approval # NoApproval /\ p.approval.left = 0 THEN Unapproved(p) ELSE p
  IN  Ended(q, {c \in Command : q.pending[c].left = 0 /\ q.pending[c].phase = "queued"})

\* tick(): an approval that ran out, then requests that ran out of time.
Expired(p) ==
  LET q == IF p.approval # NoApproval /\ p.approval.left = 0 THEN Unapproved(p) ELSE p
  IN  Ended(q, {c \in Command : q.pending[c].left = 0})

\* #permission: what the native side and the scope of the approval leave to a
\* request, or to an operation of a stream.
Permitted(p, r) ==
  /\ p.readable
  /\ r.writes => p.writable
  /\ r.devtools => p.approval.devtools

-----------------------------------------------------------------------------
(* Providers and approvals. *)

\* connect(): a refusal for want of room among the known profiles comes after
\* the generation was counted.
Connect(f) ==
  /\ core.providerGeneration < MaxConnection
  /\ core.providers[f] = 0
  /\ Cardinality({x \in Profile : core.providers[x] # 0}) < MaxProviders
  /\ LET n == core.providerGeneration + 1
     IN  IF f \notin core.known /\ Cardinality(core.known) >= MaxKnown
         THEN core' = [core EXCEPT !.providerGeneration = n]
         ELSE core' = [core EXCEPT !.providerGeneration = n,
                                   !.known = @ \union {f},
                                   !.providers[f] = n]

\* approveKnownProfiles(): a new approval replaces the old one and ends what was
\* requested under it.
Approved(p, S, d, devtools) ==
  LET q == Unapproved(Expired(p))
  IN  [q EXCEPT
         !.withdrawn = {},
         !.approval = [generation |-> q.authorizationGeneration, profiles |-> S,
                       left |-> d, devtools |-> devtools]]

\* approve() and approveKnownProfiles(); approve() also wants S connected.
Approve(S, d, devtools) ==
  /\ core.authorizationGeneration + 1 < MaxGeneration
  /\ S \subseteq core.known /\ Cardinality(S) <= MaxProviders
  /\ core' = Approved(core, S, d, devtools)

\* Mutant of Withdraw: what was requested before goes on.
WithdrawLater(f) ==
  LET p == Expired(core)
  IN  /\ p.providers[f] # 0
      /\ p.withdrawalVersions[f] < MaxVersion
      /\ core' = [p EXCEPT !.withdrawn = @ \union {f}, !.withdrawalVersions[f] = @ + 1]

\* One profile loses the approval; what was requested on it ends.
Withdraw(f) ==
  LET p == Expired(core)
  IN  /\ p.providers[f] # 0
      /\ p.withdrawalVersions[f] < MaxVersion
      /\ core' = Ended([p EXCEPT !.withdrawn = @ \union {f}, !.withdrawalVersions[f] = @ + 1],
                       {c \in Command : p.pending[c].connection = p.providers[f]})

Disconnect(f) ==
  LET p == Expired(core)
  IN  /\ p.providers[f] # 0
      /\ core' = Ended([p EXCEPT !.providers[f] = 0],
                       {c \in Command : p.pending[c].connection = p.providers[f]})

\* retire(): a connection that is gone gives its slots back.
Retire(n) ==
  /\ n \notin {core.providers[f] : f \in Profile}
  /\ core' = [core EXCEPT !.unsettled = {c \in @ : core.pending[c].connection # n}]

\* Mutant of Availability: the generation is not counted.
AvailabilityUncounted(v) ==
  LET p == Expired(core)
  IN  /\ v.renamed \/ v.readable # p.readable \/ v.writable # p.writable
      /\ core' = Ended([p EXCEPT !.readable = v.readable, !.writable = v.writable], Command)

\* availability(): any change, of the generation alone too, ends what is
\* pending; the approval stays.
Availability(v) ==
  LET p == Expired(core)
  IN  /\ v.renamed \/ v.readable # p.readable \/ v.writable # p.writable
      /\ p.authorizationGeneration < MaxGeneration
      /\ core' = Ended([p EXCEPT !.readable = v.readable, !.writable = v.writable,
                                 !.authorizationGeneration = @ + 1], Command)

ReplaceWithoutApproval ==
  /\ core.authorizationGeneration < MaxGeneration
  /\ core' = Unapproved(core)

Stop ==
  /\ core.authorizationGeneration < MaxGeneration
  /\ core' = Unapproved([core EXCEPT !.checkpoints = [k \in Token |-> Unsaved]])

\* checkpoint(): it does not tick, but an approval that ran out is not saved.
\* The holder may give up an object it kept in the same place.
Checkpoint(k) ==
  /\ core.approval.left > 0
  /\ core' = [core EXCEPT !.checkpoints[k] =
       [saved |-> TRUE, left |-> core.approval.left, devtools |-> core.approval.devtools,
        withdrawals |-> [f \in Profile |->
          IF f \in core.approval.profiles \ core.withdrawn THEN core.withdrawalVersions[f]
          ELSE Dropped]]]

\* Mutant of Unwithdrawn: every profile of the saved approval comes back.
SavedProfiles(p, k) == {f \in Profile : p.checkpoints[k].withdrawals[f] # Dropped}

\* The profiles of a checkpoint that were not withdrawn since it was made.
Unwithdrawn(p, k) ==
  {f \in Profile : p.checkpoints[k].withdrawals[f] = p.withdrawalVersions[f]}

\* restore(): what is left of the saved approval, or none.
Restore(k) ==
  LET saved == core.checkpoints[k]
      S == Unwithdrawn(core, k)
      p == [core EXCEPT !.checkpoints[k] = Unsaved]
  IN  /\ saved.saved
      /\ core.authorizationGeneration + 1 < MaxGeneration
      /\ core' = IF saved.left = 0 \/ S = {} THEN Unapproved(p)
                 ELSE Approved(p, S, saved.left, saved.devtools)

-----------------------------------------------------------------------------
(* Requests. *)

\* What request() requires of one that it accepts.
Acceptable(p, c) ==
  LET r == Request[c]
  IN  /\ r.profile \in p.approval.profiles \ p.withdrawn
      /\ p.providers[r.profile] # 0
      /\ Permitted(p, r)
      /\ \A b \in PendingSet(p) : Request[b].id # r.id

\* Mutant of HasRoom: a dispatch whose result was given needs no slot.
HasRoomForPending(p) == Cardinality(PendingSet(p)) < MaxRequests

HasRoom(p) == Cardinality(Retained(p)) < MaxRequests

\* request() by a holder of the current approval and of the profile's current
\* connection.  Every other request is refused and only ticks.
RequestAccepted(c) ==
  LET p == Expired(core)
  IN  /\ core.pending[c].phase = "new"
      /\ Acceptable(p, c) /\ HasRoom(p)
      /\ core' = [p EXCEPT
           !.dispatches = @ \union {c},
           !.pending[c] = [phase |-> "queued", connection |-> p.providers[Request[c].profile],
                           approval |-> p.approval.generation,
                           generation |-> p.authorizationGeneration,
                           left |-> Request[c].timeout]]

\* The recheck of begin(), at the moment of the dispatch.
StillAuthorized(p, c) ==
  LET r == Request[c]
  IN  /\ p.approval # NoApproval /\ p.approval.generation = p.pending[c].approval
      /\ p.pending[c].generation = p.authorizationGeneration
      /\ r.profile \notin p.withdrawn
      /\ Permitted(p, r)
      /\ p.providers[r.profile] = p.pending[c].connection

\* Mutant of Begin: a dispatch is carried out although its request has ended.
BeginEnded(c) ==
  LET p == [Expired(core) EXCEPT !.dispatches = @ \ {c}]
  IN  /\ c \in core.dispatches
      /\ core' = [p EXCEPT !.pending[c].phase = IF @ = "queued" THEN "dispatched" ELSE @,
                           !.unsettled = @ \union {c}, !.sent = @ \union {c}]

\* begin() for a dispatch effect; the host submits the command to the provider
\* in the same turn.
Begin(c) ==
  LET p == [Expired(core) EXCEPT !.dispatches = @ \ {c}]
  IN  /\ c \in core.dispatches
      /\ core' = IF p.pending[c].phase # "queued" THEN p
                 ELSE IF ~ StillAuthorized(p, c) THEN Ended(p, {c})
                 ELSE [p EXCEPT !.pending[c].phase = "dispatched",
                                !.unsettled = @ \union {c}, !.sent = @ \union {c}]

\* Mutant of Replied: a late reply is one more result.
RepliedLate(p, c, reply) ==
  IF c \notin p.unsettled THEN p
  ELSE [p EXCEPT !.unsettled = @ \ {c}, !.finishes[c] = @ + 1, !.outcome[c] = reply,
                 !.pending[c] = [p.pending[c] EXCEPT !.phase = "ended", !.left = 0]]

\* complete(): the first reply frees the slot, and gives the result if the
\* request has not ended for another reason.
Replied(p, c, reply) ==
  IF c \notin p.unsettled THEN p
  ELSE IF ~ IsPending(p, c) THEN [p EXCEPT !.unsettled = @ \ {c}]
  ELSE [p EXCEPT !.unsettled = @ \ {c}, !.finishes[c] = @ + 1, !.outcome[c] = reply,
                 !.pending[c] = [p.pending[c] EXCEPT !.phase = "ended", !.left = 0]]

\* A provider may answer late, twice, or not at all.
Complete(c, reply) ==
  /\ c \in core.sent
  /\ core' = Replied(Expired(core), c, reply)

Cancel(id) == core' = Ended(Expired(core), {c \in Command : Request[c].id = id})

-----------------------------------------------------------------------------
(* Fences of browser streams, which are checked without a tick. *)

Fence(f, r) ==
  /\ core.approval.left > 0
  /\ f \in core.approval.profiles \ core.withdrawn
  /\ core.providers[f] # 0
  /\ Permitted(core, r)
  /\ core' = [core EXCEPT !.fences = @ \union
       {[connection |-> core.providers[f], generation |-> core.authorizationGeneration]}]

ValidFence(p, e, r) ==
  /\ e.generation = p.authorizationGeneration
  /\ \E f \in p.approval.profiles \ p.withdrawn :
       /\ p.approval.left > 0
       /\ p.providers[f] = e.connection
       /\ Permitted(p, r)

-----------------------------------------------------------------------------
(* Time, the host's timer, and the calls that only tick. *)

Tick == core' = Expired(core)

AgedCore(p, d) ==
  [p EXCEPT
     !.approval.left = Aged(@, d),
     !.pending = [c \in Command |-> [p.pending[c] EXCEPT !.left = Aged(@, d)]],
     !.checkpoints = [k \in Token |-> [p.checkpoints[k] EXCEPT !.left = Aged(@, d)]]]

Pass == core' = AgedCore(core, 1)

\* Mutant of Deadlines: the end of an approval wakes nobody.
RequestDeadlines(p) ==
  {x \in {p.pending[c].left : c \in PendingSet(p)} : x \in 1..Forever - 1}

\* nextDeadline(): when the host's timer has to call tick() next.
Deadlines(p) ==
  {x \in {p.approval.left} \union {p.pending[c].left : c \in PendingSet(p)} : x \in 1..Forever - 1}

ProviderStep ==
  \/ \E f \in Profile : Connect(f) \/ Disconnect(f)
  \/ \E n \in 1..core.providerGeneration : Retire(n)
  \/ \E v \in Availabilities : Availability(v)

OperatorStep ==
  \/ \E S \in Grants, d \in Durations, devtools \in Scopes : Approve(S, d, devtools)
  \/ \E f \in Profile : Withdraw(f)
  \/ ReplaceWithoutApproval
  \/ Stop
  \/ \E k \in Token : Checkpoint(k) \/ Restore(k)

RequestStep ==
  \/ \E c \in Command : RequestAccepted(c) \/ Begin(c)
  \/ \E c \in Command, reply \in Replies : Complete(c, reply)
  \/ \E id \in {Request[c].id : c \in Command} : Cancel(id)
  \/ \E f \in Profile, r \in Streams : Fence(f, r)

Next == ProviderStep \/ OperatorStep \/ RequestStep \/ Tick \/ Pass

Spec == Init /\ [][Next]_core

\* Time passes and the host's timer fires (main.ts 13-25).
FairSpec == Spec /\ WF_core(Pass) /\ WF_core(Tick)
=============================================================================
