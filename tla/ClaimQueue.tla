----------------------------- MODULE ClaimQueue -----------------------------
(***************************************************************************)
(* Exclusive claims on targets and the queue for them: the commands of     *)
(* providers/claims/claims.py, Authority of admission.py, the connection   *)
(* loop of admission_channel.py and its client ClaimSession.               *)
(*                                                                         *)
(* Two files hold the state: one record per resource (its generation and   *)
(* its active claim) and queue.json.  Every operation runs under the       *)
(* operation lock, so it is one step here, except that a process may die   *)
(* between the two files.  Deadlines are the time that remains, as in      *)
(* AccessAdmission; a claim identifier, random in the code, is the pair of *)
(* who it was made for and a number.                                       *)
(***************************************************************************)
EXTENDS Integers, FiniteSets

CONSTANTS
  Owner,        \* connections of admission_channel.py, a process each
  Caller,       \* callers of the legacy acquire command
  Resource,     \* exact resources of this store
  Target,       \* Owner -> Resource: the adapter-selected target
  WaitLease, OfferLease, ActiveLease,  \* 60, 15 and 5 seconds
  WaitTime,     \* waitSeconds of a request
  Duration, Lifetime,  \* of a claim: requested duration, maximumLifetime
  MaxEntries,   \* 256 entries in the queue
  Retained,     \* 128 ended entries kept
  MaxGeneration \* bound on the acquisitions of a resource

LeasesArePositive ==
  /\ {WaitLease, OfferLease, ActiveLease, WaitTime, Duration} \subseteq Nat \ {0}
  /\ Lifetime \in Nat /\ Duration <= Lifetime
  /\ MaxEntries \in Nat \ {0} /\ Retained \in Nat /\ MaxGeneration \in Nat
TargetsAreResources == Target \in [Owner -> Resource]
CallersAreNotOwners == Caller \intersect Owner = {}
OwnersAreFinite == IsFiniteSet(Owner)

VARIABLES
  store,   \* the two kinds of file
  conn,    \* each connection: new, open, gone
  view,    \* the state of its request each client saw last
  answer   \* the last accepted command: what it was and for which claim

queueVars == <<store, conn, view, answer>>

NoAnswer == [op |-> "none", id |-> <<>>]
NoClaim == [id |-> <<>>, left |-> 0, room |-> 0]
QueuedId(o) == <<o, 0>>
LegacyId(c, n) == <<c, n>>
Ids == {QueuedId(o) : o \in Owner} \union {LegacyId(c, n) : c \in Caller, n \in 1..MaxGeneration}

Waiting == "waiting_for_resource"
Reserving == {"offered", "activating", "active"}
Running == {"activating", "active"}
States == {Waiting, "ended"} \union Reserving
NoEntry == [state |-> "ended", sequence |-> 0, deadline |-> 0, heartbeat |-> 0,
            offer |-> 0, offerGeneration |-> 0, claimed |-> FALSE]

\* An entry has a place in the list, from 1, as long as the list has it.
InQueue(s, o) == s.place[o] > 0

QueueTypeOK ==
  /\ store.place \in [Owner -> 0..MaxEntries]
  /\ \A o, p \in Owner : InQueue(store, o) /\ store.place[o] = store.place[p] => o = p
  /\ store.sequence \in 0..Cardinality(Owner)
  /\ store.entry \in [Owner -> [state : States, sequence : 0..store.sequence,
       deadline : 0..WaitTime, heartbeat : 0..WaitLease \union 0..ActiveLease,
       offer : 0..OfferLease, offerGeneration : 0..1, claimed : BOOLEAN]]
  /\ store.generation \in [Resource -> 0..MaxGeneration]
  /\ store.active \in [Resource -> [id : Ids \union {<<>>}, left : 0..Lifetime, room : 0..Lifetime]]
  /\ conn \in [Owner -> {"new", "open", "gone"}]
  /\ view \in [Owner -> {"none", Waiting, "offered", "active", "ended"}]
  /\ answer \in [op : {"none", "acquire", "check", "renew"}, id : Ids \union {<<>>}]

QueueInit ==
  /\ store = [entry |-> [o \in Owner |-> NoEntry], place |-> [o \in Owner |-> 0], sequence |-> 0,
              generation |-> [r \in Resource |-> 0], active |-> [r \in Resource |-> NoClaim]]
  /\ conn = [o \in Owner |-> "new"]
  /\ view = [o \in Owner |-> "none"]
  /\ answer = NoAnswer

-----------------------------------------------------------------------------
(* One transaction: what is over is ended, what is free is offered.        *)

Live(s, o) == InQueue(s, o) /\ s.entry[o].state # "ended"
Held(s, r) == s.active[r].left > 0
Mine(s, o) == s.active[Target[o]].id = QueuedId(o)
ProcessAlive(o) == conn[o] # "gone"

\* Mutant: the claim of the resource goes, whoever holds it.
EndAnyClaim(s, gone) ==
  [s EXCEPT !.entry = [o \in Owner |-> IF o \in gone
                         THEN [s.entry[o] EXCEPT !.state = "ended"] ELSE s.entry[o]],
            !.active = [r \in Resource |->
               IF \E o \in gone : Target[o] = r THEN NoClaim ELSE s.active[r]]]

\* end(): the entries end, and a claim goes with its own entry only.
End(s, gone) ==
  [s EXCEPT !.entry = [o \in Owner |-> IF o \in gone
                         THEN [s.entry[o] EXCEPT !.state = "ended"] ELSE s.entry[o]],
            !.active = [r \in Resource |->
               IF \E o \in gone : Target[o] = r /\ s.entry[o].claimed /\ Mine(s, o)
               THEN NoClaim ELSE s.active[r]]]

\* The reasons to end an entry that refresh() looks for.
IsOver(s, o) ==
  \/ ~ProcessAlive(o)
  \/ s.entry[o].heartbeat = 0
  \/ s.entry[o].state \notin Running /\ s.entry[o].deadline = 0
  \/ s.entry[o].state = "offered" /\ s.entry[o].offer = 0
  \/ s.entry[o].state \in Running /\ ~(Mine(s, o) /\ Held(s, Target[o]))

Reserved(s, r) == \E o \in Owner : Target[o] = r /\ Live(s, o) /\ s.entry[o].state \in Reserving

\* Mutant of IsNext: a claim made without the queue is not looked for.
IsNextAnyway(s, o) ==
  /\ Live(s, o) /\ s.entry[o].state = Waiting /\ ~Reserved(s, Target[o])
  /\ \A p \in Owner : Live(s, p) /\ s.entry[p].state = Waiting /\ Target[p] = Target[o]
                        => s.entry[o].sequence <= s.entry[p].sequence

\* The first one that waits for a resource nobody has.
IsNext(s, o) ==
  /\ Live(s, o) /\ s.entry[o].state = Waiting
  /\ ~Reserved(s, Target[o]) /\ ~Held(s, Target[o])
  /\ \A p \in Owner : Live(s, p) /\ s.entry[p].state = Waiting /\ Target[p] = Target[o]
                        => s.entry[o].sequence <= s.entry[p].sequence

Offer(s) ==
  [s EXCEPT !.entry = [o \in Owner |-> IF IsNext(s, o)
     THEN [s.entry[o] EXCEPT !.state = "offered", !.offerGeneration = @ + 1, !.offer = OfferLease]
     ELSE s.entry[o]]]

Refresh(s) == Offer(End(s, {o \in Owner : Live(s, o) /\ IsOver(s, o)}))

\* A connection's transaction: refresh(), then its task; what refresh() did is
\* saved also when the task is refused.
Stay == UNCHANGED conn /\ answer' = NoAnswer
Saw(o, s) == view' = [view EXCEPT ![o] = s.entry[o].state]

Least(a, b) == IF a <= b THEN a ELSE b

\* claim.open.  Older outcomes go first when the queue is full of them.
Upto(s, S, p) == Cardinality({q \in S : s.place[q] <= s.place[p]})
From(s, S, p) == Cardinality({q \in S : s.place[q] >= s.place[p]})

Admitted(s, o) ==
  LET live == {p \in Owner : Live(s, p)}
      ended == {p \in Owner : InQueue(s, p)} \ live
      recent == {p \in ended : From(s, ended, p) <= Retained}
      kept == {p \in recent : Upto(s, recent, p) < MaxEntries - Cardinality(live)}
  IN [s EXCEPT !.sequence = @ + 1,
        !.place = [p \in Owner |->
           CASE p = o -> Cardinality(live) + Cardinality(kept) + 1
             [] p \in live -> Upto(s, live, p)
             [] p \in kept -> Cardinality(live) + Upto(s, kept, p)
             [] OTHER -> 0],
        !.entry[o] = [NoEntry EXCEPT !.state = Waiting, !.sequence = s.sequence + 1,
                                     !.deadline = WaitTime, !.heartbeat = WaitLease]]

Submit(o) ==
  /\ conn[o] = "new"
  /\ LET s == Refresh(store) IN
     IF Cardinality({p \in Owner : Live(s, p)}) >= MaxEntries
     THEN store' = s /\ UNCHANGED <<conn, view>>
     ELSE /\ store' = Refresh(Admitted(s, o))
          /\ conn' = [conn EXCEPT ![o] = "open"]
          /\ Saw(o, store')
  /\ answer' = NoAnswer

\* The loop looks at its request between frames, and ends when the queue no
\* longer knows it: close() finds nothing to cancel then.
Poll(o) ==
  /\ conn[o] = "open"
  /\ store' = Refresh(store)
  /\ conn' = IF InQueue(store, o) THEN conn ELSE [conn EXCEPT ![o] = "gone"]
  /\ UNCHANGED view /\ answer' = NoAnswer

Heartbeat(o) ==
  /\ conn[o] = "open" /\ InQueue(store, o)
  /\ \E s \in {Refresh(store)} :
       store' = IF s.entry[o].state = "ended" THEN s
                ELSE [s EXCEPT !.entry[o] = [s.entry[o] EXCEPT !.heartbeat =
                        IF s.entry[o].state = "active" THEN ActiveLease ELSE WaitLease]]
  /\ Saw(o, store') /\ Stay

\* wait() of the client asks claim.status: it sees its request, an offer or an
\* end of it among them, and renews nothing.
Wait(o) ==
  /\ conn[o] = "open" /\ InQueue(store, o)
  /\ store' = Refresh(store)
  /\ Saw(o, store') /\ Stay

\* accept(): the intent is saved, the claim is written, the entry is active.
Intent(s, o) ==
  [s EXCEPT !.entry[o] = [s.entry[o] EXCEPT !.state = "activating", !.claimed = TRUE,
                                            !.heartbeat = ActiveLease]]
Claim(s, r, id) ==
  [s EXCEPT !.generation[r] = @ + 1,
            !.active[r] = [id |-> id, left |-> Duration, room |-> Lifetime]]
Activated(s, o) == [s EXCEPT !.entry[o] = [s.entry[o] EXCEPT !.state = "active"]]

\* The client asks when it saw an offer; the offer may be over by then.
Accept(o) ==
  /\ conn[o] = "open" /\ view[o] = "offered" /\ InQueue(store, o)
  /\ store.generation[Target[o]] < MaxGeneration
  /\ \E s \in {Refresh(store)} :
       \/ /\ s.entry[o].state # "offered"
          /\ store' = s /\ UNCHANGED view
       \/ /\ s.entry[o].state = "offered" /\ ~Held(s, Target[o])
          /\ store' = Activated(Claim(Intent(s, o), Target[o], QueuedId(o)), o)
          /\ Saw(o, store')
       \/ /\ s.entry[o].state = "offered"  \* the claim is taken, or not writable
          /\ store' = End(Intent(s, o), {o}) /\ UNCHANGED view
  /\ Stay

\* The process dies after the intent, or after the claim as well.
AcceptDies(o) ==
  /\ conn[o] = "open" /\ view[o] = "offered" /\ InQueue(store, o)
  /\ store.generation[Target[o]] < MaxGeneration
  /\ \E s \in {Refresh(store)} :
       /\ s.entry[o].state = "offered"
       /\ \/ store' = Intent(s, o)
          \/ ~Held(s, Target[o]) /\ store' = Claim(Intent(s, o), Target[o], QueuedId(o))
  /\ conn' = [conn EXCEPT ![o] = "gone"]
  /\ UNCHANGED view /\ answer' = NoAnswer

Cancelled(s, o) == IF InQueue(s, o) THEN Refresh(End(s, {o} \intersect {p \in Owner : Live(s, p)})) ELSE s

Cancel(o) ==
  /\ conn[o] = "open" /\ InQueue(store, o)
  /\ store' = Cancelled(Refresh(store), o)
  /\ Saw(o, store') /\ Stay

\* The connection ends: its client is gone, a frame was bad, a write stalled,
\* nothing was opened in time.  close() cancels, and the process exits.
Leave(o) ==
  /\ conn[o] # "gone"
  /\ store' = Cancelled(Refresh(store), o)
  /\ conn' = [conn EXCEPT ![o] = "gone"]
  /\ UNCHANGED view /\ answer' = NoAnswer

Die(o) ==
  /\ conn[o] # "gone"
  /\ conn' = [conn EXCEPT ![o] = "gone"]
  /\ UNCHANGED <<store, view>> /\ answer' = NoAnswer

-----------------------------------------------------------------------------
(* The commands of claims.py, each in a process of its own.                *)

Answers(op, id) == answer' = [op |-> op, id |-> id] /\ UNCHANGED <<conn, view>>
Refuses(s) == store' = s /\ answer' = NoAnswer /\ UNCHANGED <<conn, view>>

LegacyAcquire(c, r) ==
  /\ store.generation[r] < MaxGeneration
  /\ \E s \in {Refresh(store)} :
       IF Reserved(s, r) \/ Held(s, r) THEN Refuses(s)
       ELSE \E id \in {LegacyId(c, s.generation[r] + 1)} :
              store' = Claim(s, r, id) /\ Answers("acquire", id)

Status == Refuses(Refresh(store))

Holds(s, r, id) == s.active[r].id = id /\ Held(s, r)

Check(r, id) ==
  \E s \in {Refresh(store)} :
    IF Holds(s, r, id) THEN store' = s /\ Answers("check", id) ELSE Refuses(s)

Renew(r, id) ==
  \E s \in {Refresh(store)} :
    IF Holds(s, r, id) /\ s.active[r].room > 0
    THEN store' = [s EXCEPT !.active[r] = [s.active[r] EXCEPT !.left = Least(Duration, s.active[r].room)]]
         /\ Answers("renew", id)
    ELSE Refuses(s)

\* Release does not look at the queue first.
Release(r, id) ==
  Refuses(IF store.active[r].id = id THEN [store EXCEPT !.active[r] = NoClaim] ELSE store)

\* A process dies in refresh(): some claims of ended entries are released
\* already, and the queue is as it was.
RefreshDies ==
  \E R \in SUBSET Resource :
    Refuses([store EXCEPT !.active = [r \in Resource |->
               IF r \in R THEN Refresh(store).active[r] ELSE store.active[r]]])

-----------------------------------------------------------------------------

Less(n) == IF n > 0 THEN n - 1 ELSE 0

Tick ==
  /\ store' = [store EXCEPT
       !.entry = [o \in Owner |-> [store.entry[o] EXCEPT !.deadline = Less(@),
                                     !.heartbeat = Less(@), !.offer = Less(@)]],
       !.active = [r \in Resource |-> [store.active[r] EXCEPT !.left = Less(@), !.room = Less(@)]]]
  /\ UNCHANGED <<conn, view>> /\ answer' = NoAnswer

Connection(o) ==
  \/ Submit(o) \/ Poll(o) \/ Heartbeat(o) \/ Wait(o)
  \/ Accept(o) \/ AcceptDies(o) \/ Cancel(o) \/ Leave(o) \/ Die(o)

QueueNext ==
  \/ \E o \in Owner : Connection(o)
  \/ \E c \in Caller, r \in Resource : LegacyAcquire(c, r)
  \/ \E r \in Resource, id \in Ids : Check(r, id) \/ Renew(r, id) \/ Release(r, id)
  \/ Status \/ RefreshDies \/ Tick

QueueSpec == QueueInit /\ [][QueueNext]_queueVars

-----------------------------------------------------------------------------

\* Turns are kept: one entry at a time has a resource reserved for it, and it
\* came before everyone who still waits for it.
TurnsAreKept ==
  \A o, p \in Owner : o # p /\ Target[o] = Target[p] /\ Live(store, o) /\ Live(store, p)
                        /\ store.entry[o].state \in Reserving =>
    /\ store.entry[p].state = Waiting
    /\ store.entry[o].sequence < store.entry[p].sequence

\* A live offer is good: nobody else gets the target while it stands, not even
\* by the legacy command, which does not queue (claims.py:553-554).
OffersAreGood ==
  \A o \in Owner : Live(store, o) /\ store.entry[o].state = "offered" => ~Held(store, Target[o])

\* No command accepts a queued claim whose connection is gone or has let its
\* lease run out, whatever step its process died at.
VouchedClaimIsLive ==
  \A o \in Owner : answer.id = QueuedId(o) =>
    /\ ProcessAlive(o)
    /\ Live(store, o) /\ store.entry[o].state = "active" /\ store.entry[o].heartbeat > 0

\* What an ended entry leaves behind is its own: a claim that is still live is
\* taken away only by its own release or with its own entry.
EndsWithItsOwn ==
  \A r \in Resource : Held(store, r) /\ store'.active[r].id # store.active[r].id =>
       \/ Release(r, store.active[r].id)
       \/ \E o \in Owner : Target[o] = r /\ store.active[r].id = QueuedId(o)

ClaimsEndWithTheirOwn == [][EndsWithItsOwn]_queueVars

=============================================================================
