-------------------------- MODULE ClaimQueueProofs ---------------------------
(***************************************************************************)
(* Theorems about the claim admission queue, for any set of connections,   *)
(* legacy callers and resources and any lengths of leases: turns are kept, *)
(* a standing offer is to a free resource, a claim that is vouched for has *)
(* a live owner, and a claim goes only by its release or with its own      *)
(* entry.                                                                  *)
(*                                                                         *)
(* The invariant QueueInv relates the two files the state is in: a queued  *)
(* claim has its entry, at work and on its own target (ClaimsAreQueued),   *)
(* and an intent without the claim it announces is one of a process that   *)
(* died (Connected).  Every operation starts with refresh(), so the lemmas *)
(* go from End and Offer to Refresh, and from there to the operations.     *)
(***************************************************************************)
EXTENDS ClaimQueue, FiniteSetTheorems, TLAPS

Entries == [state : States, sequence : Nat, deadline : Nat, heartbeat : Nat,
            offer : Nat, offerGeneration : Nat, claimed : BOOLEAN]
Claims == [id : Ids \union {<<>>}, left : Nat, room : Nat]
Stores == [entry : [Owner -> Entries], place : [Owner -> Nat], sequence : Nat,
           generation : [Resource -> Nat], active : [Resource -> Claims]]
Connections == [Owner -> {"new", "open", "gone"}]

\* TurnsAreKept and OffersAreGood of any store.
Turns(s) ==
  \A o, p \in Owner : o # p /\ Target[o] = Target[p] /\ Live(s, o) /\ Live(s, p)
                        /\ s.entry[o].state \in Reserving =>
    s.entry[p].state = Waiting /\ s.entry[o].sequence < s.entry[p].sequence
GoodOffers(s) == \A o \in Owner : Live(s, o) /\ s.entry[o].state = "offered" => ~Held(s, Target[o])

\* Everybody in the queue has a number of its own.
Numbers(s) ==
  /\ \A o \in Owner : Live(s, o) => s.entry[o].sequence <= s.sequence
  /\ \A o, p \in Owner : Live(s, o) /\ Live(s, p) /\ s.entry[o].sequence = s.entry[p].sequence => o = p

\* A queued claim has its entry, on its own target and at work.
ClaimsAreQueued(s) ==
  \A r \in Resource, o \in Owner : s.active[r].id = QueuedId(o) =>
    r = Target[o] /\ Live(s, o) /\ s.entry[o].claimed /\ s.entry[o].state \in Running

\* Only a process that died in accept() leaves an intent, and one that has not
\* asked is not in the queue.
Connected(s, c) ==
  \A o \in Owner : /\ Live(s, o) /\ s.entry[o].state = "activating" => c[o] = "gone"
                   /\ c[o] = "new" => ~InQueue(s, o)

GoodStore(s, c) ==
  s \in Stores /\ Turns(s) /\ GoodOffers(s) /\ Numbers(s) /\ ClaimsAreQueued(s) /\ Connected(s, c)

QueueInv == conn \in Connections /\ GoodStore(store, conn) /\ VouchedClaimIsLive

-----------------------------------------------------------------------------

\* Identifiers of claims tell who they were made for.
LEMMA IdsDiffer ==
  /\ \A o \in Owner : QueuedId(o) # <<>> /\ QueuedId(o) \in Ids
  /\ \A o, p \in Owner : QueuedId(o) = QueuedId(p) => o = p
  /\ \A o \in Owner : \A c \in Caller, n \in 1..MaxGeneration : LegacyId(c, n) # QueuedId(o) /\ LegacyId(c, n) \in Ids
BY DEF QueuedId, LegacyId, Ids

\* The parts of a store.
LEMMA EntryFields ==
  ASSUME NEW s \in Stores, NEW o \in Owner
  PROVE  /\ s.entry[o] \in Entries /\ s.entry[o].state \in States
         /\ s.entry[o].sequence \in Nat /\ s.entry[o].heartbeat \in Nat
         /\ s.place[o] \in Nat /\ s.sequence \in Nat
BY DEF Stores, Entries

LEMMA ClaimFields ==
  ASSUME NEW s \in Stores, NEW r \in Resource
  PROVE  /\ s.active[r] \in Claims /\ s.active[r].left \in Nat /\ s.active[r].room \in Nat
         /\ s.active[r].id \in Ids \union {<<>>} /\ s.generation[r] \in Nat
BY DEF Stores, Claims

\* A store whose entries are the same but for their times, and whose claims
\* are the same or gone, is as good, whoever else has left.
LEMMA SameTurns ==
  ASSUME NEW s, NEW c, NEW d, NEW t \in Stores, TargetsAreResources, GoodStore(s, c),
         t.sequence = s.sequence,
         \A o \in Owner : /\ t.place[o] = s.place[o]
                          /\ t.entry[o].state = s.entry[o].state
                          /\ t.entry[o].sequence = s.entry[o].sequence
                          /\ t.entry[o].claimed = s.entry[o].claimed
                          /\ d[o] = c[o] \/ d[o] = "gone",
         \A r \in Resource : /\ t.active[r].id \in {s.active[r].id, <<>>}
                             /\ Held(t, r) => Held(s, r)
  PROVE  GoodStore(t, d)
<1>1. \A o \in Owner : (InQueue(t, o) <=> InQueue(s, o)) /\ (Live(t, o) <=> Live(s, o)) BY DEF Live, InQueue
<1>2. Turns(t) BY <1>1 DEF GoodStore, Turns
<1>3. GoodOffers(t) BY <1>1 DEF GoodStore, GoodOffers, TargetsAreResources
<1>4. Numbers(t) BY <1>1 DEF GoodStore, Numbers
<1>5. ClaimsAreQueued(t)
  <2> SUFFICES ASSUME NEW r \in Resource, NEW o \in Owner, t.active[r].id = QueuedId(o)
               PROVE  r = Target[o] /\ Live(t, o) /\ t.entry[o].claimed /\ t.entry[o].state \in Running
    BY DEF ClaimsAreQueued
  <2>1. s.active[r].id = QueuedId(o) BY IdsDiffer
  <2> QED BY <1>1, <2>1 DEF GoodStore, ClaimsAreQueued
<1>6. Connected(t, d) BY <1>1 DEF GoodStore, Connected
<1> QED BY <1>2, <1>3, <1>4, <1>5, <1>6 DEF GoodStore

\* An offer that becomes an intent, a claim, both, or nothing.
LEMMA OfferMoves ==
  ASSUME NEW s, NEW c, NEW d, NEW t \in Stores, NEW o \in Owner, TargetsAreResources, GoodStore(s, c),
         Live(s, o), s.entry[o].state = "offered",
         t.sequence = s.sequence,
         \A p \in Owner : t.place[p] = s.place[p] /\ (p # o => t.entry[p] = s.entry[p] /\ d[p] = c[p]),
         t.entry[o].sequence = s.entry[o].sequence, t.entry[o].claimed,
         t.entry[o].state \in Running \union {"ended"},
         t.entry[o].state = "activating" => d[o] = "gone", d[o] # "new",
         \A r \in Resource : r # Target[o] => t.active[r] = s.active[r],
         \/ t.active[Target[o]] = s.active[Target[o]]
         \/ t.active[Target[o]].id = QueuedId(o) /\ t.entry[o].state \in Running
  PROVE  GoodStore(t, d)
<1>0. Target[o] \in Resource BY DEF TargetsAreResources
<1>1. \A p \in Owner : p # o => (InQueue(t, p) <=> InQueue(s, p)) /\ (Live(t, p) <=> Live(s, p))
  BY DEF Live, InQueue
<1>2. InQueue(t, o) /\ (Live(t, o) <=> t.entry[o].state \in Running) BY DEF Live, InQueue, Running
<1>3. s.entry[o].state \in Reserving /\ Running \subseteq Reserving /\ "ended" \notin Reserving
      /\ Waiting \notin Reserving BY DEF Reserving, Running, Waiting
<1>4. Turns(t)
  <2> SUFFICES ASSUME NEW p \in Owner, NEW q \in Owner, p # q, Target[p] = Target[q], Live(t, p), Live(t, q),
                      t.entry[p].state \in Reserving
               PROVE  t.entry[q].state = Waiting /\ t.entry[p].sequence < t.entry[q].sequence
    BY DEF Turns
  <2>1. Live(s, p) /\ Live(s, q) /\ s.entry[p].state \in Reserving BY <1>1, <1>3
  <2>2. s.entry[q].state = Waiting /\ s.entry[p].sequence < s.entry[q].sequence
    BY <2>1 DEF GoodStore, Turns
  <2>3. q # o BY <1>3, <2>2
  <2> QED BY <2>2, <2>3
<1>5. GoodOffers(t)
  <2> SUFFICES ASSUME NEW p \in Owner, Live(t, p), t.entry[p].state = "offered" PROVE ~Held(t, Target[p])
    BY DEF GoodOffers
  <2>1. p # o BY DEF Running
  <2>2. Live(s, p) /\ s.entry[p].state = "offered" BY <2>1, <1>1
  <2>3. Target[p] # Target[o]
    BY <2>1, <2>2, <1>3 DEF GoodStore, Turns, Reserving, Waiting
  <2>4. Target[p] \in Resource BY DEF TargetsAreResources
  <2> QED BY <2>2, <2>3, <2>4 DEF GoodStore, GoodOffers, Held
<1>6. Numbers(t)
  <2>1. \A p \in Owner : Live(t, p) => Live(s, p) /\ t.entry[p].sequence = s.entry[p].sequence BY <1>1
  <2> QED BY <2>1 DEF GoodStore, Numbers
<1>7. ClaimsAreQueued(t)
  <2> SUFFICES ASSUME NEW r \in Resource, NEW p \in Owner, t.active[r].id = QueuedId(p)
               PROVE  r = Target[p] /\ Live(t, p) /\ t.entry[p].claimed /\ t.entry[p].state \in Running
    BY DEF ClaimsAreQueued
  <2>1. CASE t.active[r] = s.active[r]
    <3>1. r = Target[p] /\ Live(s, p) /\ s.entry[p].claimed /\ s.entry[p].state \in Running
      BY <2>1 DEF GoodStore, ClaimsAreQueued
    <3>2. p # o BY <3>1 DEF Running
    <3> QED BY <3>1, <3>2, <1>1
  <2>2. CASE r = Target[o] /\ t.active[r].id = QueuedId(o) /\ t.entry[o].state \in Running
    <3>1. p = o BY <2>2, IdsDiffer
    <3> QED BY <2>2, <3>1, <1>2
  <2> QED BY <2>1, <2>2
<1>8. Connected(t, d)
  <2> SUFFICES ASSUME NEW p \in Owner
               PROVE  /\ Live(t, p) /\ t.entry[p].state = "activating" => d[p] = "gone"
                      /\ d[p] = "new" => ~InQueue(t, p)
    BY DEF Connected
  <2>1. CASE p = o BY <2>1
  <2>2. CASE p # o BY <2>2, <1>1 DEF GoodStore, Connected
  <2> QED BY <2>1, <2>2
<1> QED BY <1>4, <1>5, <1>6, <1>7, <1>8 DEF GoodStore

-----------------------------------------------------------------------------
(* One transaction.                                                        *)

\* end() takes entries out of the line, and with each of them its own claim.
LEMMA EndGives ==
  ASSUME NEW s \in Stores, NEW gone \in SUBSET Owner
  PROVE  /\ End(s, gone) \in Stores
         /\ End(s, gone).place = s.place /\ End(s, gone).sequence = s.sequence
         /\ \A o \in Owner : /\ o \notin gone => End(s, gone).entry[o] = s.entry[o]
                             /\ o \in gone => End(s, gone).entry[o].state = "ended"
         /\ \A r \in Resource : End(s, gone).active[r] =
              IF \E o \in gone : Target[o] = r /\ s.entry[o].claimed /\ Mine(s, o) THEN NoClaim ELSE s.active[r]
<1> DEFINE entry == [o \in Owner |-> IF o \in gone THEN [s.entry[o] EXCEPT !.state = "ended"] ELSE s.entry[o]]
           active == [r \in Resource |->
              IF \E o \in gone : Target[o] = r /\ s.entry[o].claimed /\ Mine(s, o) THEN NoClaim ELSE s.active[r]]
<1>1. End(s, gone) = [s EXCEPT !.entry = entry, !.active = active] BY DEF End
<1>2. entry \in [Owner -> Entries]
  <2>1. ASSUME NEW o \in Owner PROVE [s.entry[o] EXCEPT !.state = "ended"] \in Entries
    BY EntryFields DEF Entries, States
  <2> QED BY <2>1, EntryFields
<1>3. active \in [Resource -> Claims]
  <2>1. NoClaim \in Claims BY DEF NoClaim, Claims
  <2> QED BY <2>1, ClaimFields
<1>4. \A o \in Owner : /\ o \notin gone => entry[o] = s.entry[o]
                       /\ o \in gone => entry[o].state = "ended"
  BY EntryFields DEF Entries
<1>5. \A r \in Resource : active[r] =
        IF \E o \in gone : Target[o] = r /\ s.entry[o].claimed /\ Mine(s, o) THEN NoClaim ELSE s.active[r]
  OBVIOUS
<1> HIDE DEF entry, active
<1>6. /\ End(s, gone) \in Stores /\ End(s, gone).place = s.place /\ End(s, gone).sequence = s.sequence
      /\ End(s, gone).entry = entry /\ End(s, gone).active = active
  BY <1>1, <1>2, <1>3 DEF Stores
<1> QED BY <1>4, <1>5, <1>6

\* Ending entries leaves a good store with the others in line.
LEMMA EndKeeps ==
  ASSUME NEW s, NEW c, NEW gone \in SUBSET Owner, TargetsAreResources, GoodStore(s, c)
  PROVE  /\ GoodStore(End(s, gone), c)
         /\ \A o \in Owner : /\ InQueue(End(s, gone), o) <=> InQueue(s, o)
                             /\ Live(End(s, gone), o) <=> Live(s, o) /\ o \notin gone
<1> DEFINE t == End(s, gone)
<1>0. s \in Stores BY DEF GoodStore
<1>1. /\ t \in Stores /\ t.place = s.place /\ t.sequence = s.sequence
      /\ \A o \in Owner : /\ o \notin gone => t.entry[o] = s.entry[o]
                          /\ o \in gone => t.entry[o].state = "ended"
      /\ \A r \in Resource : t.active[r] =
           IF \E o \in gone : Target[o] = r /\ s.entry[o].claimed /\ Mine(s, o) THEN NoClaim ELSE s.active[r]
  BY <1>0, EndGives
<1> HIDE DEF t
<1>2. \A o \in Owner : (InQueue(t, o) <=> InQueue(s, o)) /\ (Live(t, o) <=> Live(s, o) /\ o \notin gone)
  BY <1>1 DEF Live, InQueue
<1>3. Turns(t) BY <1>1, <1>2 DEF GoodStore, Turns
<1>4. \A r \in Resource : /\ Held(t, r) => Held(s, r)
                          /\ t.active[r] = s.active[r] \/ t.active[r] = NoClaim
  BY <1>1 DEF Held, NoClaim
<1>5. GoodOffers(t) BY <1>1, <1>2, <1>4 DEF GoodStore, GoodOffers, TargetsAreResources
<1>6. Numbers(t) BY <1>1, <1>2 DEF GoodStore, Numbers
<1>7. ClaimsAreQueued(t)
  <2> SUFFICES ASSUME NEW r \in Resource, NEW o \in Owner, t.active[r].id = QueuedId(o)
               PROVE  r = Target[o] /\ Live(t, o) /\ t.entry[o].claimed /\ t.entry[o].state \in Running
    BY DEF ClaimsAreQueued
  <2>1. t.active[r] # NoClaim BY IdsDiffer DEF NoClaim
  <2>2. s.active[r].id = QueuedId(o) BY <2>1, <1>4
  <2>3. r = Target[o] /\ Live(s, o) /\ s.entry[o].claimed /\ s.entry[o].state \in Running
    BY <2>2 DEF GoodStore, ClaimsAreQueued
  <2>4. o \notin gone BY <1>1, <2>1, <2>2, <2>3 DEF Mine
  <2> QED BY <1>1, <1>2, <2>3, <2>4
<1>8. Connected(t, c) BY <1>1, <1>2 DEF GoodStore, Connected
<1> QED BY <1>1, <1>2, <1>3, <1>5, <1>6, <1>7, <1>8 DEF GoodStore, t

\* The entry an offer is written to.
LEMMA OfferedEntries ==
  ASSUME NEW e \in Entries, NEW lease \in Nat
  PROVE  LET next == [e EXCEPT !.state = "offered", !.offerGeneration = e.offerGeneration + 1, !.offer = lease] IN
         /\ next \in Entries /\ next.state = "offered"
         /\ next.sequence = e.sequence /\ next.heartbeat = e.heartbeat
<1>1. "offered" \in States BY DEF States, Reserving
<1>2. e.offerGeneration + 1 \in Nat BY DEF Entries
<1> QED BY <1>1, <1>2 DEF Entries

\* The rest of refresh() offers what is free, and changes no claim.
LEMMA OfferGives ==
  ASSUME NEW s \in Stores, LeasesArePositive
  PROVE  /\ Offer(s) \in Stores
         /\ Offer(s).place = s.place /\ Offer(s).sequence = s.sequence
         /\ Offer(s).active = s.active /\ Offer(s).generation = s.generation
         /\ \A o \in Owner : /\ ~IsNext(s, o) => Offer(s).entry[o] = s.entry[o]
                             /\ IsNext(s, o) => /\ Offer(s).entry[o].state = "offered"
                                                /\ Offer(s).entry[o].sequence = s.entry[o].sequence
                                                /\ Offer(s).entry[o].heartbeat = s.entry[o].heartbeat
<1> DEFINE next(o) == [s.entry[o] EXCEPT !.state = "offered", !.offerGeneration = @ + 1, !.offer = OfferLease]
           entry == [o \in Owner |-> IF IsNext(s, o) THEN next(o) ELSE s.entry[o]]
<1>1. Offer(s) = [s EXCEPT !.entry = entry] BY DEF Offer
<1>2. ASSUME NEW o \in Owner
      PROVE  /\ next(o) \in Entries /\ next(o).state = "offered"
             /\ next(o).sequence = s.entry[o].sequence /\ next(o).heartbeat = s.entry[o].heartbeat
  <2>1. s.entry[o] \in Entries /\ OfferLease \in Nat BY EntryFields DEF LeasesArePositive
  <2> QED BY <2>1, OfferedEntries
<1> HIDE DEF next
<1>3. entry \in [Owner -> Entries] BY <1>2, EntryFields
<1>4. \A o \in Owner : entry[o] = IF IsNext(s, o) THEN next(o) ELSE s.entry[o] OBVIOUS
<1> HIDE DEF entry
<1>5. /\ Offer(s) \in Stores /\ Offer(s).place = s.place /\ Offer(s).sequence = s.sequence
      /\ Offer(s).active = s.active /\ Offer(s).generation = s.generation /\ Offer(s).entry = entry
  BY <1>1, <1>3 DEF Stores
<1> QED BY <1>2, <1>4, <1>5

\* An offer goes to the first in line for a free resource, so it is a good one.
LEMMA OfferKeeps ==
  ASSUME NEW s, NEW c, LeasesArePositive, TargetsAreResources, GoodStore(s, c)
  PROVE  /\ GoodStore(Offer(s), c)
         /\ \A o \in Owner : /\ InQueue(Offer(s), o) <=> InQueue(s, o)
                             /\ Live(Offer(s), o) <=> Live(s, o)
<1> DEFINE t == Offer(s)
<1>0. s \in Stores BY DEF GoodStore
<1>1. /\ t \in Stores /\ t.place = s.place /\ t.sequence = s.sequence /\ t.active = s.active
      /\ \A o \in Owner : /\ ~IsNext(s, o) => t.entry[o] = s.entry[o]
                          /\ IsNext(s, o) => /\ t.entry[o].state = "offered"
                                             /\ t.entry[o].sequence = s.entry[o].sequence
  BY <1>0, OfferGives
<1> HIDE DEF t
<1>2. \A o \in Owner : IsNext(s, o) =>
        Live(s, o) /\ s.entry[o].state = Waiting /\ ~Reserved(s, Target[o]) /\ ~Held(s, Target[o])
  BY DEF IsNext
<1>3. \A o \in Owner : (InQueue(t, o) <=> InQueue(s, o)) /\ (Live(t, o) <=> Live(s, o))
  BY <1>1, <1>2 DEF Live, InQueue, Waiting
<1>w. "ended" # Waiting /\ Waiting \notin Reserving /\ "offered" \in Reserving /\ "activating" # "offered"
      /\ Waiting \notin Running
  BY DEF Waiting, Reserving, Running
<1>4. Turns(t)
  <2> SUFFICES ASSUME NEW o \in Owner, NEW p \in Owner, o # p, Target[o] = Target[p], Live(t, o), Live(t, p),
                      t.entry[o].state \in Reserving
               PROVE  t.entry[p].state = Waiting /\ t.entry[o].sequence < t.entry[p].sequence
    BY DEF Turns
  <2>1. Live(s, o) /\ Live(s, p) BY <1>3
  <2>2. s.entry[o].sequence \in Nat /\ s.entry[p].sequence \in Nat /\ s.entry[o].sequence # s.entry[p].sequence
        /\ s.entry[p].state \in States
    BY <1>0, <2>1, EntryFields DEF GoodStore, Numbers
  <2>3. t.entry[o].sequence = s.entry[o].sequence /\ t.entry[p].sequence = s.entry[p].sequence BY <1>1
  <2>4. CASE IsNext(s, o)
    <3>1. s.entry[p].state = Waiting
      BY <2>1, <2>2, <2>4, <1>2 DEF Reserved, States, Live
    <3>2. s.entry[o].sequence < s.entry[p].sequence
      BY <2>1, <2>2, <2>4, <3>1 DEF IsNext
    <3>3. ~IsNext(s, p) BY <2>1, <2>2, <2>4, <3>2, <1>2 DEF IsNext
    <3> QED BY <2>3, <3>1, <3>2, <3>3, <1>1
  <2>5. CASE ~IsNext(s, o)
    <3>1. s.entry[o].state \in Reserving BY <2>5, <1>1
    <3>2. s.entry[p].state = Waiting /\ s.entry[o].sequence < s.entry[p].sequence
      BY <2>1, <3>1 DEF GoodStore, Turns
    <3>3. ~IsNext(s, p) BY <2>1, <3>1, <1>2 DEF Reserved
    <3> QED BY <2>3, <3>2, <3>3, <1>1
  <2> QED BY <2>4, <2>5
<1>5. GoodOffers(t)
  <2> SUFFICES ASSUME NEW o \in Owner, Live(t, o), t.entry[o].state = "offered" PROVE ~Held(t, Target[o])
    BY DEF GoodOffers
  <2>1. ~Held(s, Target[o])
    <3>1. CASE IsNext(s, o) BY <3>1, <1>2
    <3>2. CASE ~IsNext(s, o) BY <3>2, <1>1, <1>3 DEF GoodStore, GoodOffers
    <3> QED BY <3>1, <3>2
  <2> QED BY <2>1, <1>1 DEF Held
<1>6. Numbers(t)
  <2>1. \A o \in Owner : t.entry[o].sequence = s.entry[o].sequence BY <1>1
  <2> QED BY <1>1, <1>3, <2>1 DEF GoodStore, Numbers
<1>7. ClaimsAreQueued(t)
  <2> SUFFICES ASSUME NEW r \in Resource, NEW o \in Owner, t.active[r].id = QueuedId(o)
               PROVE  r = Target[o] /\ Live(t, o) /\ t.entry[o].claimed /\ t.entry[o].state \in Running
    BY DEF ClaimsAreQueued
  <2>1. r = Target[o] /\ Live(s, o) /\ s.entry[o].claimed /\ s.entry[o].state \in Running
    BY <1>1 DEF GoodStore, ClaimsAreQueued
  <2>2. ~IsNext(s, o) BY <2>1, <1>2, <1>w
  <2> QED BY <2>1, <2>2, <1>1, <1>3
<1>8. Connected(t, c)
  <2> SUFFICES ASSUME NEW o \in Owner
               PROVE  /\ Live(t, o) /\ t.entry[o].state = "activating" => c[o] = "gone"
                      /\ c[o] = "new" => ~InQueue(t, o)
    BY DEF Connected
  <2>1. Live(t, o) /\ t.entry[o].state = "activating" => Live(s, o) /\ s.entry[o].state = "activating"
    BY <1>1, <1>3
  <2> QED BY <2>1, <1>3 DEF GoodStore, Connected
<1> QED BY <1>1, <1>3, <1>4, <1>5, <1>6, <1>7, <1>8 DEF GoodStore, t

\* What a transaction starts with: what is over has ended.
LEMMA RefreshKeeps ==
  ASSUME NEW s, NEW c, LeasesArePositive, TargetsAreResources, GoodStore(s, c)
  PROVE  /\ GoodStore(Refresh(s), c)
         /\ \A o \in Owner : /\ InQueue(Refresh(s), o) <=> InQueue(s, o)
                             /\ Refresh(s).entry[o].state \in Running /\ Live(Refresh(s), o) =>
                                  /\ ProcessAlive(o) /\ Refresh(s).entry[o].heartbeat > 0
                                  /\ Refresh(s).entry[o] = s.entry[o]
         /\ \A r \in Resource : \/ Refresh(s).active[r] = s.active[r]
                                \/ /\ Refresh(s).active[r] = NoClaim
                                   /\ \E o \in Owner : Target[o] = r /\ s.active[r].id = QueuedId(o)
<1> DEFINE gone == {o \in Owner : Live(s, o) /\ IsOver(s, o)}
           e == End(s, gone)
<1>0. s \in Stores /\ gone \in SUBSET Owner BY DEF GoodStore
<1>1. Refresh(s) = Offer(e) BY DEF Refresh
<1>2. GoodStore(e, c) /\ \A o \in Owner : /\ InQueue(e, o) <=> InQueue(s, o)
                                          /\ Live(e, o) <=> Live(s, o) /\ o \notin gone
  BY <1>0, EndKeeps
<1>3. e \in Stores /\ \A o \in Owner : o \notin gone => e.entry[o] = s.entry[o] BY <1>0, EndGives
<1>4. \A r \in Resource : e.active[r] =
        IF \E o \in gone : Target[o] = r /\ s.entry[o].claimed /\ Mine(s, o) THEN NoClaim ELSE s.active[r]
  BY <1>0, EndGives
<1>g. \A o \in Owner : Live(s, o) /\ o \notin gone => ~IsOver(s, o) OBVIOUS
<1> HIDE DEF gone, e
<1>5. GoodStore(Offer(e), c) /\ \A o \in Owner : /\ InQueue(Offer(e), o) <=> InQueue(e, o)
                                                 /\ Live(Offer(e), o) <=> Live(e, o)
  BY <1>2, OfferKeeps
<1>6. Offer(e).active = e.active /\ \A o \in Owner : /\ ~IsNext(e, o) => Offer(e).entry[o] = e.entry[o]
                                                     /\ IsNext(e, o) => Offer(e).entry[o].state = "offered"
  BY <1>3, OfferGives
<1>7. ASSUME NEW o \in Owner, Offer(e).entry[o].state \in Running, Live(Offer(e), o)
      PROVE  /\ ProcessAlive(o) /\ Offer(e).entry[o].heartbeat > 0 /\ Offer(e).entry[o] = s.entry[o]
  <2>1. Offer(e).entry[o] = e.entry[o] BY <1>6, <1>7 DEF Running
  <2>2. Live(s, o) /\ o \notin gone BY <1>2, <1>5, <1>7
  <2>3. e.entry[o] = s.entry[o] /\ ~IsOver(s, o) BY <1>3, <1>g, <2>2
  <2>4. s.entry[o].heartbeat \in Nat BY <1>0, EntryFields
  <2> QED BY <2>1, <2>3, <2>4 DEF IsOver
<1>8. ASSUME NEW r \in Resource, Offer(e).active[r] # s.active[r]
      PROVE  Offer(e).active[r] = NoClaim /\ \E o \in Owner : Target[o] = r /\ s.active[r].id = QueuedId(o)
  <2>1. e.active[r] # s.active[r] /\ Offer(e).active[r] = e.active[r] BY <1>6, <1>8
  <2>2. PICK o \in gone : Target[o] = r /\ Mine(s, o) BY <1>4, <2>1
  <2> QED BY <1>0, <1>4, <2>1, <2>2 DEF Mine
<1> QED BY <1>1, <1>2, <1>5, <1>7, <1>8

\* Who is submitted comes last; what is in the queue stays there until it ends.
LEMMA CountsAreNatural ==
  ASSUME OwnersAreFinite, NEW S \in SUBSET Owner
  PROVE  Cardinality(S) \in Nat /\ \A o \in S : Cardinality(S) > 0
<1>1. IsFiniteSet(S) /\ Cardinality(S) \in Nat BY FS_Subset, FS_CardinalityType DEF OwnersAreFinite
<1>2. Cardinality(S) = 0 <=> S = {} BY <1>1, FS_EmptySet
<1> QED BY <1>1, <1>2

\* claim.open: places are given anew, and nobody who is live loses theirs.
LEMMA AdmittedGives ==
  ASSUME NEW s \in Stores, NEW o \in Owner, LeasesArePositive, OwnersAreFinite, ~InQueue(s, o)
  PROVE  /\ Admitted(s, o) \in Stores
         /\ Admitted(s, o).sequence = s.sequence + 1 /\ Admitted(s, o).active = s.active
         /\ Admitted(s, o).entry[o].state = Waiting /\ Admitted(s, o).entry[o].sequence = s.sequence + 1
         /\ Admitted(s, o).place[o] > 0
         /\ \A p \in Owner : p # o =>
              /\ Admitted(s, o).entry[p] = s.entry[p]
              /\ Live(s, p) => Admitted(s, o).place[p] > 0
              /\ Admitted(s, o).place[p] > 0 => s.place[p] > 0
<1> DEFINE live == {p \in Owner : Live(s, p)}
           ended == {p \in Owner : InQueue(s, p)} \ live
           recent == {p \in ended : From(s, ended, p) <= Retained}
           kept == {p \in recent : Upto(s, recent, p) < MaxEntries - Cardinality(live)}
           place == [p \in Owner |->
             CASE p = o -> Cardinality(live) + Cardinality(kept) + 1
               [] p \in live -> Upto(s, live, p)
               [] p \in kept -> Cardinality(live) + Upto(s, kept, p)
               [] OTHER -> 0]
           new == [NoEntry EXCEPT !.state = Waiting, !.sequence = s.sequence + 1,
                                  !.deadline = WaitTime, !.heartbeat = WaitLease]
<1>1. Admitted(s, o) = [s EXCEPT !.sequence = @ + 1, !.place = place, !.entry[o] = new] BY DEF Admitted
<1>2. live \in SUBSET Owner /\ kept \in SUBSET Owner /\ \A p \in kept : s.place[p] > 0 /\ p \notin live
  BY DEF InQueue
<1>3. \A p \in live : s.place[p] > 0 BY DEF Live, InQueue
<1>15. o \notin live /\ o \notin kept BY <1>2, <1>3 DEF InQueue
<1> HIDE DEF kept, live, recent, ended
<1>4. \A p \in Owner : Upto(s, live, p) \in Nat /\ Upto(s, kept, p) \in Nat
  BY <1>2, CountsAreNatural DEF Upto
<1>5. \A p \in live : Upto(s, live, p) > 0
  <2> SUFFICES ASSUME NEW p \in live PROVE Upto(s, live, p) > 0 OBVIOUS
  <2>1. s.place[p] \in Nat BY <1>2, EntryFields
  <2>2. p \in {q \in live : s.place[q] <= s.place[p]} BY <2>1
  <2> QED BY <1>2, <2>2, CountsAreNatural DEF Upto
<1>6. Cardinality(live) \in Nat /\ Cardinality(kept) \in Nat BY <1>2, CountsAreNatural
<1>7. place \in [Owner -> Nat]
  <2>1. ASSUME NEW p \in Owner PROVE place[p] \in Nat
    <3>1. CASE p = o BY <3>1, <1>6, <1>15
    <3>2. CASE p # o /\ p \in live BY <3>2, <1>2, <1>4
    <3>3. CASE p # o /\ p \notin live /\ p \in kept BY <3>3, <1>4, <1>6
    <3>4. CASE p # o /\ p \notin live /\ p \notin kept BY <3>4
    <3> QED BY <3>1, <3>2, <3>3, <3>4
  <2> QED BY <2>1
<1>8. place[o] > 0 BY <1>6, <1>15
<1>9. ASSUME NEW p \in Owner, p # o
      PROVE  (p \in live => place[p] > 0) /\ (place[p] > 0 => s.place[p] > 0)
  <2>1. CASE p \in live BY <2>1, <1>9, <1>2, <1>5, <1>3
  <2>2. CASE p \notin live /\ p \in kept BY <2>2, <1>9, <1>2
  <2>3. CASE p \notin live /\ p \notin kept BY <2>3, <1>9
  <2> QED BY <2>1, <2>2, <2>3
<1>10. s.sequence + 1 \in Nat /\ WaitTime \in Nat /\ WaitLease \in Nat BY DEF Stores, LeasesArePositive
<1>11. new \in Entries /\ new.state = Waiting /\ new.sequence = s.sequence + 1
  BY <1>10 DEF NoEntry, Entries, States
<1> HIDE DEF place, new
<1>12. /\ Admitted(s, o) \in Stores /\ Admitted(s, o).sequence = s.sequence + 1
       /\ Admitted(s, o).active = s.active /\ Admitted(s, o).place = place
       /\ Admitted(s, o).entry = [s.entry EXCEPT ![o] = new]
  <2>1. [s.entry EXCEPT ![o] = new] \in [Owner -> Entries] BY <1>11 DEF Stores
  <2> QED BY <1>1, <1>7, <1>10, <2>1 DEF Stores
<1>13. Admitted(s, o).entry[o] = new /\ \A p \in Owner : p # o => Admitted(s, o).entry[p] = s.entry[p]
  BY <1>12 DEF Stores
<1>14. \A p \in Owner : Live(s, p) => p \in live BY DEF live
<1> QED BY <1>8, <1>9, <1>11, <1>12, <1>13, <1>14

\* The new entry has the highest number and waits.
LEMMA AdmittedKeeps ==
  ASSUME NEW s, NEW c \in Connections, NEW o \in Owner, LeasesArePositive, TargetsAreResources, OwnersAreFinite,
         GoodStore(s, c), c[o] = "new"
  PROVE  GoodStore(Admitted(s, o), [c EXCEPT ![o] = "open"])
<1> DEFINE t == Admitted(s, o)
           d == [c EXCEPT ![o] = "open"]
<1>0. s \in Stores BY DEF GoodStore
<1>1. /\ t \in Stores /\ t.sequence = s.sequence + 1 /\ t.active = s.active
      /\ t.entry[o].state = Waiting /\ t.entry[o].sequence = s.sequence + 1 /\ t.place[o] > 0
      /\ \A p \in Owner : p # o => /\ t.entry[p] = s.entry[p]
                                   /\ Live(s, p) => t.place[p] > 0
                                   /\ t.place[p] > 0 => s.place[p] > 0
  BY <1>0, AdmittedGives DEF GoodStore, Connected
<1>d. d[o] = "open" /\ \A p \in Owner : p # o => d[p] = c[p] BY DEF Connections
<1> HIDE DEF t, d
<1>2. ~Live(s, o) BY DEF GoodStore, Connected, Live
<1>3. \A p \in Owner : p # o => (Live(t, p) <=> Live(s, p)) /\ (InQueue(t, p) => InQueue(s, p))
  BY <1>1 DEF Live, InQueue
<1>w. Waiting \notin Reserving /\ Waiting \notin Running /\ Waiting # "offered" /\ Waiting # "activating"
  BY DEF Waiting, Reserving, Running
<1>n. \A p \in Owner : s.entry[p].sequence \in Nat /\ s.sequence \in Nat BY <1>0, EntryFields
<1>4. Turns(t)
  <2> SUFFICES ASSUME NEW p \in Owner, NEW q \in Owner, p # q, Target[p] = Target[q], Live(t, p), Live(t, q),
                      t.entry[p].state \in Reserving
               PROVE  t.entry[q].state = Waiting /\ t.entry[p].sequence < t.entry[q].sequence
    BY DEF Turns
  <2>1. p # o BY <1>1, <1>w
  <2>2. Live(s, p) /\ t.entry[p] = s.entry[p] BY <2>1, <1>1, <1>3
  <2>3. CASE q = o
    <3>1. s.entry[p].sequence <= s.sequence BY <2>2 DEF GoodStore, Numbers
    <3> QED BY <2>2, <2>3, <3>1, <1>1, <1>n
  <2>4. CASE q # o BY <2>2, <2>4, <1>1, <1>3 DEF GoodStore, Turns
  <2> QED BY <2>3, <2>4
<1>5. GoodOffers(t)
  <2>1. \A p \in Owner : Live(t, p) /\ t.entry[p].state = "offered" => Live(s, p) /\ s.entry[p].state = "offered"
    BY <1>1, <1>3, <1>w
  <2> QED BY <2>1, <1>1 DEF GoodStore, GoodOffers, Held
<1>6. Numbers(t)
  <2>1. ASSUME NEW p \in Owner, Live(t, p) PROVE t.entry[p].sequence <= t.sequence
    <3>1. CASE p = o BY <3>1, <1>1, <1>n
    <3>2. CASE p # o
      <4>1. s.entry[p].sequence <= s.sequence BY <2>1, <3>2, <1>3 DEF GoodStore, Numbers
      <4> QED BY <3>2, <4>1, <1>1, <1>n
    <3> QED BY <3>1, <3>2
  <2>2. ASSUME NEW p \in Owner, NEW q \in Owner, Live(t, p), Live(t, q), t.entry[p].sequence = t.entry[q].sequence
        PROVE  p = q
    <3>1. ASSUME NEW u \in Owner, Live(t, u), u # o PROVE t.entry[u].sequence # s.sequence + 1
      <4>1. s.entry[u].sequence <= s.sequence BY <3>1, <1>3 DEF GoodStore, Numbers
      <4> QED BY <3>1, <4>1, <1>1, <1>n
    <3>2. CASE p = o \/ q = o BY <2>2, <3>1, <3>2, <1>1
    <3>3. CASE p # o /\ q # o BY <2>2, <3>3, <1>1, <1>3 DEF GoodStore, Numbers
    <3> QED BY <3>2, <3>3
  <2> QED BY <2>1, <2>2 DEF Numbers
<1>7. ClaimsAreQueued(t)
  <2> SUFFICES ASSUME NEW r \in Resource, NEW p \in Owner, t.active[r].id = QueuedId(p)
               PROVE  r = Target[p] /\ Live(t, p) /\ t.entry[p].claimed /\ t.entry[p].state \in Running
    BY DEF ClaimsAreQueued
  <2>1. r = Target[p] /\ Live(s, p) /\ s.entry[p].claimed /\ s.entry[p].state \in Running
    BY <1>1 DEF GoodStore, ClaimsAreQueued
  <2>2. p # o BY <2>1, <1>2
  <2> QED BY <2>1, <2>2, <1>1, <1>3
<1>8. Connected(t, d)
  <2> SUFFICES ASSUME NEW p \in Owner
               PROVE  /\ Live(t, p) /\ t.entry[p].state = "activating" => d[p] = "gone"
                      /\ d[p] = "new" => ~InQueue(t, p)
    BY DEF Connected
  <2>1. CASE p = o BY <2>1, <1>1, <1>d, <1>w
  <2>2. CASE p # o BY <2>2, <1>1, <1>3, <1>d DEF GoodStore, Connected
  <2> QED BY <2>1, <2>2
<1> QED BY <1>1, <1>4, <1>5, <1>6, <1>7, <1>8 DEF GoodStore, t, d

-----------------------------------------------------------------------------
(* The operations.                                                         *)

ConstantsAreGood == LeasesArePositive /\ TargetsAreResources /\ CallersAreNotOwners /\ OwnersAreFinite

\* At first there is neither a queue nor a claim.
LEMMA QueueStarts == ASSUME ConstantsAreGood, QueueInit PROVE QueueInv
<1>1. NoEntry \in Entries /\ NoClaim \in Claims BY DEF NoEntry, Entries, States, NoClaim, Claims
<1>2. store \in Stores /\ conn \in Connections BY <1>1 DEF QueueInit, Stores, Connections
<1>3. \A o \in Owner : ~InQueue(store, o) /\ ~Live(store, o) BY DEF QueueInit, InQueue, Live
<1>4. \A r \in Resource : store.active[r].id = <<>> BY DEF QueueInit, NoClaim
<1>5. ClaimsAreQueued(store) BY <1>4, IdsDiffer DEF ClaimsAreQueued
<1>6. Turns(store) /\ GoodOffers(store) /\ Numbers(store) BY <1>3 DEF Turns, GoodOffers, Numbers
<1>7. Connected(store, conn) BY <1>3 DEF Connected
<1>8. VouchedClaimIsLive BY IdsDiffer DEF QueueInit, NoAnswer, VouchedClaimIsLive
<1> QED BY <1>2, <1>5, <1>6, <1>7, <1>8 DEF QueueInv, GoodStore

\* A step that vouches for nothing has to keep the store good.
LEMMA SilentSteps ==
  ASSUME QueueInv, answer' = NoAnswer, conn' \in Connections, GoodStore(store', conn')
  PROVE  QueueInv'
<1>1. VouchedClaimIsLive' BY IdsDiffer DEF NoAnswer, VouchedClaimIsLive
<1> QED BY <1>1 DEF QueueInv, GoodStore, Turns, GoodOffers, Numbers, ClaimsAreQueued, Connected, Live, InQueue, Held

\* A transaction of a connection finds a refreshed store.
LEMMA RefreshedStore ==
  ASSUME ConstantsAreGood, QueueInv
  PROVE  /\ Refresh(store) \in Stores /\ GoodStore(Refresh(store), conn)
         /\ \A o \in Owner : InQueue(Refresh(store), o) <=> InQueue(store, o)
BY RefreshKeeps DEF ConstantsAreGood, QueueInv, GoodStore

\* An owner's end leaves a good store, in the queue or not.
LEMMA CancelledKeeps ==
  ASSUME ConstantsAreGood, NEW s, NEW c, NEW o \in Owner, GoodStore(s, c)
  PROVE  GoodStore(Cancelled(s, o), c)
<1> DEFINE gone == {o} \intersect {p \in Owner : Live(s, p)}
<1>1. GoodStore(End(s, gone), c) BY EndKeeps DEF ConstantsAreGood
<1>2. GoodStore(Refresh(End(s, gone)), c) BY <1>1, RefreshKeeps DEF ConstantsAreGood
<1> QED BY <1>2 DEF Cancelled

\* A store is as good when somebody leaves.
LEMMA LeavingKeeps ==
  ASSUME ConstantsAreGood, NEW s, NEW c \in Connections, NEW o \in Owner, GoodStore(s, c)
  PROVE  GoodStore(s, [c EXCEPT ![o] = "gone"]) /\ [c EXCEPT ![o] = "gone"] \in Connections
<1> DEFINE d == [c EXCEPT ![o] = "gone"]
<1>1. d \in Connections /\ \A p \in Owner : d[p] = c[p] \/ d[p] = "gone" BY DEF Connections
<1>2. s \in Stores BY DEF GoodStore
<1> HIDE DEF d
<1>3. GoodStore(s, d) BY <1>1, <1>2, SameTurns DEF ConstantsAreGood
<1> QED BY <1>1, <1>3 DEF d

\* A heartbeat, and time.
LEMMA HeartbeatKeeps ==
  ASSUME ConstantsAreGood, NEW s, NEW c, NEW o \in Owner, NEW n \in Nat, GoodStore(s, c)
  PROVE  GoodStore([s EXCEPT !.entry[o] = [s.entry[o] EXCEPT !.heartbeat = n]], c)
<1> DEFINE e == [s.entry[o] EXCEPT !.heartbeat = n]
           t == [s EXCEPT !.entry[o] = e]
<1>1. s \in Stores BY DEF GoodStore
<1>2. e \in Entries /\ e.state = s.entry[o].state /\ e.sequence = s.entry[o].sequence /\ e.claimed = s.entry[o].claimed
  BY <1>1, EntryFields DEF Entries
<1> HIDE DEF e
<1>3. t \in Stores /\ t.sequence = s.sequence /\ t.place = s.place /\ t.active = s.active
      /\ t.entry[o] = e /\ \A p \in Owner : p # o => t.entry[p] = s.entry[p]
  BY <1>1, <1>2 DEF Stores
<1> HIDE DEF t
<1>4. \A r \in Resource : t.active[r].id \in {s.active[r].id, <<>>} /\ (Held(t, r) => Held(s, r))
  BY <1>3 DEF Held
<1>5. GoodStore(t, c) BY <1>2, <1>3, <1>4, SameTurns DEF ConstantsAreGood
<1> QED BY <1>5 DEF t, e

\* Time that remains gets less, and never comes back.
LEMMA LessIsNatural == \A n \in Nat : Less(n) \in Nat /\ (Less(n) > 0 => n > 0)
BY DEF Less

\* Time changes no state and no owner.
LEMMA TickKeeps ==
  ASSUME ConstantsAreGood, QueueInv, Tick
  PROVE  GoodStore(store', conn')
<1> DEFINE later(o) == [store.entry[o] EXCEPT !.deadline = Less(@), !.heartbeat = Less(@), !.offer = Less(@)]
           lower(r) == [store.active[r] EXCEPT !.left = Less(@), !.room = Less(@)]
           entry == [o \in Owner |-> later(o)]
           active == [r \in Resource |-> lower(r)]
<1>0. store \in Stores /\ store' = [store EXCEPT !.entry = entry, !.active = active] /\ conn' = conn
  BY DEF Tick, QueueInv, GoodStore
<1>1. ASSUME NEW o \in Owner
      PROVE  /\ later(o) \in Entries /\ later(o).state = store.entry[o].state
             /\ later(o).sequence = store.entry[o].sequence /\ later(o).claimed = store.entry[o].claimed
  <2>1. store.entry[o] \in Entries BY <1>0, EntryFields
  <2>2. Less(store.entry[o].deadline) \in Nat /\ Less(store.entry[o].heartbeat) \in Nat
        /\ Less(store.entry[o].offer) \in Nat BY <2>1, LessIsNatural DEF Entries
  <2> QED BY <2>1, <2>2 DEF Entries
<1>2. ASSUME NEW r \in Resource
      PROVE  /\ lower(r) \in Claims /\ lower(r).id = store.active[r].id
             /\ lower(r).left > 0 => store.active[r].left > 0
  <2>1. store.active[r] \in Claims BY <1>0, ClaimFields
  <2>2. Less(store.active[r].left) \in Nat /\ Less(store.active[r].room) \in Nat
        /\ (Less(store.active[r].left) > 0 => store.active[r].left > 0)
    BY <2>1, LessIsNatural DEF Claims
  <2> QED BY <2>1, <2>2 DEF Claims
<1> HIDE DEF later, lower
<1>3. entry \in [Owner -> Entries] /\ active \in [Resource -> Claims] BY <1>1, <1>2
<1>4. (\A o \in Owner : entry[o] = later(o)) /\ (\A r \in Resource : active[r] = lower(r)) OBVIOUS
<1> HIDE DEF entry, active
<1>5. store' \in Stores /\ store'.entry = entry /\ store'.active = active
      /\ store'.place = store.place /\ store'.sequence = store.sequence
  BY <1>0, <1>3 DEF Stores
<1>6. \A r \in Resource : store'.active[r].id = store.active[r].id /\ (Held(store', r) => Held(store, r))
  BY <1>2, <1>4, <1>5 DEF Held
<1>7. \A o \in Owner : /\ store'.place[o] = store.place[o] /\ store'.entry[o].state = store.entry[o].state
                       /\ store'.entry[o].sequence = store.entry[o].sequence
                       /\ store'.entry[o].claimed = store.entry[o].claimed
  BY <1>1, <1>4, <1>5
<1>8. GoodStore(store, conn) BY DEF QueueInv
<1>9. GoodStore(store', conn) BY <1>5, <1>6, <1>7, <1>8, SameTurns DEF ConstantsAreGood
<1> QED BY <1>0, <1>9

\* accept(): the entry takes the offer, and the claim is written or not.
LEMMA IntentGives ==
  ASSUME ConstantsAreGood, NEW s \in Stores, NEW o \in Owner
  PROVE  /\ Intent(s, o) \in Stores /\ Intent(s, o).place = s.place /\ Intent(s, o).sequence = s.sequence
         /\ Intent(s, o).active = s.active
         /\ Intent(s, o).entry[o].state = "activating" /\ Intent(s, o).entry[o].claimed
         /\ Intent(s, o).entry[o].sequence = s.entry[o].sequence
         /\ \A p \in Owner : p # o => Intent(s, o).entry[p] = s.entry[p]
<1> DEFINE e == [s.entry[o] EXCEPT !.state = "activating", !.claimed = TRUE, !.heartbeat = ActiveLease]
<1>1. s.entry[o] \in Entries /\ ActiveLease \in Nat /\ "activating" \in States
  BY EntryFields DEF ConstantsAreGood, LeasesArePositive, States, Reserving
<1>2. e \in Entries /\ e.state = "activating" /\ e.claimed /\ e.sequence = s.entry[o].sequence BY <1>1 DEF Entries
<1> HIDE DEF e
<1>3. Intent(s, o) = [s EXCEPT !.entry[o] = e] BY DEF Intent, e
<1> QED BY <1>2, <1>3 DEF Stores

\* A claim is written.
LEMMA ClaimGives ==
  ASSUME ConstantsAreGood, NEW s \in Stores, NEW r \in Resource, NEW id \in Ids
  PROVE  /\ Claim(s, r, id) \in Stores /\ Claim(s, r, id).place = s.place /\ Claim(s, r, id).sequence = s.sequence
         /\ Claim(s, r, id).entry = s.entry /\ Claim(s, r, id).active[r].id = id
         /\ \A q \in Resource : q # r => Claim(s, r, id).active[q] = s.active[q]
<1> DEFINE c == [id |-> id, left |-> Duration, room |-> Lifetime]
<1>1. c \in Claims /\ c.id = id BY DEF Claims, ConstantsAreGood, LeasesArePositive
<1> HIDE DEF c
<1>2. Claim(s, r, id) = [s EXCEPT !.generation[r] = @ + 1, !.active[r] = c] BY DEF Claim, c
<1>3. [s.generation EXCEPT ![r] = @ + 1] \in [Resource -> Nat] /\ [s.active EXCEPT ![r] = c] \in [Resource -> Claims]
  BY <1>1 DEF Stores
<1>4. /\ Claim(s, r, id) \in Stores /\ Claim(s, r, id).place = s.place /\ Claim(s, r, id).sequence = s.sequence
      /\ Claim(s, r, id).entry = s.entry /\ Claim(s, r, id).active = [s.active EXCEPT ![r] = c]
  BY <1>2, <1>3 DEF Stores
<1> QED BY <1>1, <1>4 DEF Stores

\* The entry that has its claim is active.
LEMMA ActivatedGives ==
  ASSUME NEW s \in Stores, NEW o \in Owner
  PROVE  /\ Activated(s, o) \in Stores /\ Activated(s, o).place = s.place /\ Activated(s, o).sequence = s.sequence
         /\ Activated(s, o).active = s.active
         /\ Activated(s, o).entry[o].state = "active" /\ Activated(s, o).entry[o].claimed = s.entry[o].claimed
         /\ Activated(s, o).entry[o].sequence = s.entry[o].sequence
         /\ \A p \in Owner : p # o => Activated(s, o).entry[p] = s.entry[p]
<1> DEFINE e == [s.entry[o] EXCEPT !.state = "active"]
<1>1. s.entry[o] \in Entries /\ "active" \in States BY EntryFields DEF States, Reserving
<1>2. e \in Entries /\ e.state = "active" /\ e.claimed = s.entry[o].claimed /\ e.sequence = s.entry[o].sequence
  BY <1>1 DEF Entries
<1> HIDE DEF e
<1>3. Activated(s, o) = [s EXCEPT !.entry[o] = e] BY DEF Activated, e
<1> QED BY <1>2, <1>3 DEF Stores

\* Every outcome of accept(): with the claim, without it, or dead at one of the two writes.
LEMMA AcceptKeeps ==
  ASSUME ConstantsAreGood, NEW s, NEW c \in Connections, NEW o \in Owner, GoodStore(s, c),
         InQueue(s, o), s.entry[o].state = "offered", c[o] = "open"
  PROVE  LET i == Intent(s, o)
             w == Claim(i, Target[o], QueuedId(o))
             d == [c EXCEPT ![o] = "gone"]
         IN GoodStore(Activated(w, o), c) /\ GoodStore(End(i, {o}), c) /\ GoodStore(i, d) /\ GoodStore(w, d)
<1> DEFINE i == Intent(s, o)
           w == Claim(i, Target[o], QueuedId(o))
           a == Activated(w, o)
           e == End(i, {o})
           d == [c EXCEPT ![o] = "gone"]
<1>0. s \in Stores /\ Live(s, o) /\ Target[o] \in Resource BY DEF GoodStore, Live, ConstantsAreGood, TargetsAreResources
<1>1. /\ i \in Stores /\ i.place = s.place /\ i.sequence = s.sequence /\ i.active = s.active
      /\ i.entry[o].state = "activating" /\ i.entry[o].claimed /\ i.entry[o].sequence = s.entry[o].sequence
      /\ \A p \in Owner : p # o => i.entry[p] = s.entry[p]
  BY <1>0, IntentGives
<1> HIDE DEF i
<1>2. /\ w \in Stores /\ w.place = i.place /\ w.sequence = i.sequence /\ w.entry = i.entry
      /\ w.active[Target[o]].id = QueuedId(o)
      /\ \A q \in Resource : q # Target[o] => w.active[q] = i.active[q]
  BY <1>0, <1>1, IdsDiffer, ClaimGives
<1> HIDE DEF w
<1>3. /\ a \in Stores /\ a.place = w.place /\ a.sequence = w.sequence /\ a.active = w.active
      /\ a.entry[o].state = "active" /\ a.entry[o].claimed = w.entry[o].claimed
      /\ a.entry[o].sequence = w.entry[o].sequence
      /\ \A p \in Owner : p # o => a.entry[p] = w.entry[p]
  BY <1>2, ActivatedGives
<1> HIDE DEF a
<1>4. \A r \in Resource : s.active[r].id # QueuedId(o) BY <1>0 DEF GoodStore, ClaimsAreQueued, Running
<1>5. /\ e \in Stores /\ e.place = i.place /\ e.sequence = i.sequence /\ e.entry[o].state = "ended"
      /\ \A p \in Owner : p # o => e.entry[p] = i.entry[p]
      /\ \A r \in Resource : e.active[r] = i.active[r]
      /\ e.entry[o].claimed /\ e.entry[o].sequence = i.entry[o].sequence
  <2>1. {o} \in SUBSET Owner /\ o \in {o} /\ \A p \in Owner : p # o => p \notin {o} OBVIOUS
  <2>2. \A r \in Resource : ~\E p \in {o} : Target[p] = r /\ i.entry[p].claimed /\ Mine(i, p)
    BY <1>0, <1>1, <1>4 DEF Mine
  <2>3. e.entry[o] = [i.entry[o] EXCEPT !.state = "ended"]
    <3>1. e = [i EXCEPT !.entry = [p \in Owner |-> IF p \in {o} THEN [i.entry[p] EXCEPT !.state = "ended"] ELSE i.entry[p]],
                        !.active = [r \in Resource |->
                          IF \E p \in {o} : Target[p] = r /\ i.entry[p].claimed /\ Mine(i, p) THEN NoClaim
                          ELSE i.active[r]]]
      BY DEF End
    <3> QED BY <1>1, <3>1 DEF Stores
  <2>4. i.entry[o] \in Entries BY <1>1, EntryFields
  <2>5. e.entry[o].claimed /\ e.entry[o].sequence = i.entry[o].sequence BY <1>1, <2>3, <2>4 DEF Entries
  <2> QED BY <1>1, <2>1, <2>2, <2>5, EndGives
<1> HIDE DEF e
<1>6. d[o] = "gone" /\ \A p \in Owner : p # o => d[p] = c[p] BY DEF Connections
<1> HIDE DEF d
<1>r. {"activating", "active"} \subseteq Running BY DEF Running
<1>7. GoodStore(a, c) BY <1>0, <1>1, <1>2, <1>3, <1>r, OfferMoves DEF ConstantsAreGood
<1>8. GoodStore(e, c) BY <1>0, <1>1, <1>5, OfferMoves DEF ConstantsAreGood
<1>9. GoodStore(i, d) BY <1>0, <1>1, <1>6, <1>r, OfferMoves DEF ConstantsAreGood
<1>10. GoodStore(w, d) BY <1>0, <1>1, <1>2, <1>6, <1>r, OfferMoves DEF ConstantsAreGood
<1> QED BY <1>7, <1>8, <1>9, <1>10 DEF a, e, w, i, d

\* A claim made without the queue goes where nobody has the resource reserved.
LEMMA LegacyKeeps ==
  ASSUME ConstantsAreGood, NEW s, NEW c, NEW r \in Resource, NEW a \in Caller, NEW n \in 1..MaxGeneration,
         GoodStore(s, c), ~Reserved(s, r)
  PROVE  GoodStore(Claim(s, r, LegacyId(a, n)), c)
<1> DEFINE id == LegacyId(a, n)
           t == Claim(s, r, id)
<1>a. id \in Ids BY DEF Ids
<1>b. \A o \in Owner : id # QueuedId(o) BY DEF LegacyId, QueuedId, ConstantsAreGood, CallersAreNotOwners
<1>0. s \in Stores /\ id \in Ids /\ \A o \in Owner : id # QueuedId(o) BY <1>a, <1>b DEF GoodStore
<1> HIDE DEF id
<1>1. /\ t \in Stores /\ t.place = s.place /\ t.sequence = s.sequence /\ t.entry = s.entry
      /\ t.active[r].id = id /\ \A q \in Resource : q # r => t.active[q] = s.active[q]
  BY <1>0, ClaimGives
<1> HIDE DEF t
<1>2. \A o \in Owner : (InQueue(t, o) <=> InQueue(s, o)) /\ (Live(t, o) <=> Live(s, o)) BY <1>1 DEF Live, InQueue
<1>3. GoodOffers(t)
  <2> SUFFICES ASSUME NEW o \in Owner, Live(t, o), t.entry[o].state = "offered" PROVE ~Held(t, Target[o])
    BY DEF GoodOffers
  <2>1. Live(s, o) /\ s.entry[o].state = "offered" BY <1>1, <1>2
  <2>2. Target[o] # r /\ Target[o] \in Resource
    BY <2>1 DEF Reserved, Reserving, ConstantsAreGood, TargetsAreResources
  <2> QED BY <1>1, <2>1, <2>2 DEF GoodStore, GoodOffers, Held
<1>4. ClaimsAreQueued(t)
  <2> SUFFICES ASSUME NEW q \in Resource, NEW o \in Owner, t.active[q].id = QueuedId(o)
               PROVE  q = Target[o] /\ Live(t, o) /\ t.entry[o].claimed /\ t.entry[o].state \in Running
    BY DEF ClaimsAreQueued
  <2>1. s.active[q].id = QueuedId(o) BY <1>0, <1>1
  <2> QED BY <1>1, <1>2, <2>1 DEF GoodStore, ClaimsAreQueued
<1>5. Turns(t) /\ Numbers(t) /\ Connected(t, c) BY <1>1, <1>2 DEF GoodStore, Turns, Numbers, Connected
<1> QED BY <1>1, <1>3, <1>4, <1>5 DEF GoodStore, t, id

\* A claim that is in the store, renewed.
LEMMA RenewKeeps ==
  ASSUME ConstantsAreGood, NEW s, NEW c, NEW r \in Resource, NEW n \in Nat, GoodStore(s, c), Held(s, r)
  PROVE  LET t == [s EXCEPT !.active[r] = [s.active[r] EXCEPT !.left = n]] IN
         /\ GoodStore(t, c) /\ t.entry = s.entry /\ t.place = s.place
         /\ \A q \in Resource : t.active[q].id = s.active[q].id
<1> DEFINE a == [s.active[r] EXCEPT !.left = n]
           t == [s EXCEPT !.active[r] = a]
<1>1. s \in Stores BY DEF GoodStore
<1>2. a \in Claims /\ a.id = s.active[r].id BY <1>1, ClaimFields DEF Claims
<1> HIDE DEF a
<1>3. t \in Stores /\ t.sequence = s.sequence /\ t.place = s.place /\ t.entry = s.entry
      /\ t.active[r] = a /\ \A q \in Resource : q # r => t.active[q] = s.active[q]
  BY <1>1, <1>2 DEF Stores
<1> HIDE DEF t
<1>4. \A q \in Resource : t.active[q].id \in {s.active[q].id, <<>>} /\ (Held(t, q) => Held(s, q))
  BY <1>2, <1>3 DEF Held
<1>5. GoodStore(t, c) BY <1>3, <1>4, SameTurns DEF ConstantsAreGood
<1> QED BY <1>2, <1>3, <1>5 DEF t, a

\* A claim that is gone.
LEMMA LostClaimsKeep ==
  ASSUME ConstantsAreGood, NEW s, NEW c, NEW a \in [Resource -> Claims], GoodStore(s, c),
         \A r \in Resource : a[r] = s.active[r] \/ a[r] = NoClaim
  PROVE  GoodStore([s EXCEPT !.active = a], c)
<1> DEFINE t == [s EXCEPT !.active = a]
<1>1. s \in Stores BY DEF GoodStore
<1>2. t \in Stores /\ t.sequence = s.sequence /\ t.place = s.place /\ t.entry = s.entry /\ t.active = a
  BY <1>1 DEF Stores
<1> HIDE DEF t
<1>3. \A r \in Resource : t.active[r].id \in {s.active[r].id, <<>>} /\ (Held(t, r) => Held(s, r))
  BY <1>2 DEF Held, NoClaim
<1>4. GoodStore(t, c) BY <1>1, <1>2, <1>3, SameTurns DEF ConstantsAreGood
<1> QED BY <1>4 DEF t

-----------------------------------------------------------------------------
(* The steps.                                                              *)

\* The operations of a connection.
LEMMA SubmitStep == ASSUME ConstantsAreGood, QueueInv, NEW o \in Owner, Submit(o) PROVE QueueInv'
<1> DEFINE s == Refresh(store)
           m == Admitted(s, o)
           d == [conn EXCEPT ![o] = "open"]
<1>1. GoodStore(s, conn) /\ conn \in Connections /\ conn[o] = "new" /\ answer' = NoAnswer
  BY RefreshedStore DEF QueueInv, Submit
<1>2. CASE store' = s /\ conn' = conn BY <1>1, <1>2, SilentSteps
<1>3. CASE store' = Refresh(m) /\ conn' = d
  <2>1. GoodStore(m, d) BY <1>1, AdmittedKeeps DEF ConstantsAreGood
  <2>2. GoodStore(Refresh(m), d) BY <2>1, RefreshKeeps DEF ConstantsAreGood
  <2>3. d \in Connections BY <1>1 DEF Connections
  <2> QED BY <1>1, <1>3, <2>2, <2>3, SilentSteps
<1> QED BY <1>2, <1>3 DEF Submit

LEMMA PollStep == ASSUME ConstantsAreGood, QueueInv, NEW o \in Owner, Poll(o) PROVE QueueInv'
<1>1. GoodStore(Refresh(store), conn) /\ conn \in Connections /\ answer' = NoAnswer /\ store' = Refresh(store)
  BY RefreshedStore DEF QueueInv, Poll
<1>2. CASE conn' = conn BY <1>1, <1>2, SilentSteps
<1>3. CASE conn' = [conn EXCEPT ![o] = "gone"] BY <1>1, <1>3, LeavingKeeps, SilentSteps
<1> QED BY <1>2, <1>3 DEF Poll

LEMMA HeartbeatStep == ASSUME ConstantsAreGood, QueueInv, NEW o \in Owner, Heartbeat(o) PROVE QueueInv'
<1> DEFINE s == Refresh(store)
           n == IF s.entry[o].state = "active" THEN ActiveLease ELSE WaitLease
<1>1. GoodStore(s, conn) /\ conn' = conn /\ conn' \in Connections /\ answer' = NoAnswer
  BY RefreshedStore DEF QueueInv, Heartbeat, Stay
<1>2. n \in Nat BY DEF ConstantsAreGood, LeasesArePositive
<1>3. store' = s \/ store' = [s EXCEPT !.entry[o] = [s.entry[o] EXCEPT !.heartbeat = n]] BY DEF Heartbeat
<1> HIDE DEF n, s
<1>4. GoodStore([s EXCEPT !.entry[o] = [s.entry[o] EXCEPT !.heartbeat = n]], conn) BY <1>1, <1>2, HeartbeatKeeps
<1> QED BY <1>1, <1>3, <1>4, SilentSteps

LEMMA AcceptStep ==
  ASSUME ConstantsAreGood, QueueInv, NEW o \in Owner, Accept(o) \/ AcceptDies(o) PROVE QueueInv'
<1> DEFINE s == Refresh(store)
           i == Intent(s, o)
           w == Claim(i, Target[o], QueuedId(o))
           d == [conn EXCEPT ![o] = "gone"]
<1>1. GoodStore(s, conn) /\ conn \in Connections /\ answer' = NoAnswer /\ InQueue(s, o) /\ conn[o] = "open"
  BY RefreshedStore DEF QueueInv, Accept, AcceptDies, Stay
<1>2. s.entry[o].state = "offered" =>
        GoodStore(Activated(w, o), conn) /\ GoodStore(End(i, {o}), conn) /\ GoodStore(i, d) /\ GoodStore(w, d)
  BY <1>1, AcceptKeeps
<1>3. d \in Connections BY <1>1 DEF Connections
<1>4. \/ conn' = conn /\ store' = s
      \/ s.entry[o].state = "offered" /\ conn' = conn /\ (store' = Activated(w, o) \/ store' = End(i, {o}))
      \/ s.entry[o].state = "offered" /\ conn' = d /\ (store' = i \/ store' = w)
  BY DEF Accept, AcceptDies, Stay
<1> HIDE DEF s, i, w, d
<1> QED BY <1>1, <1>2, <1>3, <1>4, SilentSteps

LEMMA LeavingStep ==
  ASSUME ConstantsAreGood, QueueInv, NEW o \in Owner, Cancel(o) \/ Leave(o) \/ Die(o) PROVE QueueInv'
<1> DEFINE s == Cancelled(Refresh(store), o)
           d == [conn EXCEPT ![o] = "gone"]
<1>1. GoodStore(store, conn) /\ conn \in Connections /\ answer' = NoAnswer
  BY DEF QueueInv, Cancel, Leave, Die, Stay
<1>2. GoodStore(s, conn) BY RefreshedStore, CancelledKeeps
<1>3. GoodStore(store, d) /\ GoodStore(s, d) /\ d \in Connections BY <1>1, <1>2, LeavingKeeps
<1>4. (conn' = conn /\ store' = s) \/ (conn' = d /\ (store' = s \/ store' = store))
  BY DEF Cancel, Leave, Die, Stay
<1> HIDE DEF s, d
<1> QED BY <1>1, <1>2, <1>3, <1>4, SilentSteps

\* The legacy acquire.
LEMMA LegacyStep ==
  ASSUME ConstantsAreGood, QueueInv, NEW a \in Caller, NEW r \in Resource, LegacyAcquire(a, r) PROVE QueueInv'
<1> DEFINE s == Refresh(store)
           id == LegacyId(a, s.generation[r] + 1)
<1>1. GoodStore(s, conn) /\ conn \in Connections /\ conn' = conn BY RefreshedStore DEF QueueInv, LegacyAcquire, Refuses, Answers
<1>2. CASE Refuses(s) BY <1>1, <1>2, SilentSteps DEF Refuses
<1>3. CASE ~Reserved(s, r) /\ store' = Claim(s, r, id) /\ answer'.id = id
  <2>1. s.generation = store.generation
    <3> DEFINE e == End(store, {o \in Owner : Live(store, o) /\ IsOver(store, o)})
    <3>1. store \in Stores /\ e \in Stores BY EndGives DEF QueueInv, GoodStore
    <3>2. e.generation = store.generation BY <3>1 DEF End, Stores
    <3>3. Offer(e).generation = e.generation BY <3>1, OfferGives DEF ConstantsAreGood
    <3> QED BY <3>2, <3>3 DEF Refresh
  <2>2. s.generation[r] + 1 \in 1..MaxGeneration
    BY <2>1 DEF LegacyAcquire, QueueInv, GoodStore, Stores, ConstantsAreGood, LeasesArePositive
  <2>3. GoodStore(store', conn') BY <1>1, <1>3, <2>2, LegacyKeeps
  <2>4. \A o \in Owner : answer'.id # QueuedId(o) BY <1>3, <2>2, IdsDiffer
  <2>5. VouchedClaimIsLive' BY <2>4 DEF VouchedClaimIsLive, QueuedId
  <2> QED BY <1>1, <2>3, <2>5 DEF QueueInv, GoodStore, Turns, GoodOffers, Numbers, ClaimsAreQueued, Connected, Live, InQueue, Held
<1> QED BY <1>2, <1>3 DEF LegacyAcquire, Answers


\* A claim that refresh() left in place for a queued owner is of one who is
\* there: the only entries at work are kept alive, and an intent without its
\* claim is of a process that died.
LEMMA RefreshedClaimIsLive ==
  ASSUME ConstantsAreGood, QueueInv, NEW o \in Owner, NEW r \in Resource,
         Refresh(store).active[r].id = QueuedId(o)
  PROVE  /\ ProcessAlive(o) /\ Live(Refresh(store), o)
         /\ Refresh(store).entry[o].state = "active" /\ Refresh(store).entry[o].heartbeat > 0
<1> DEFINE s == Refresh(store)
<1>1. GoodStore(store, conn) BY DEF QueueInv
<1>2. /\ GoodStore(s, conn)
      /\ s.entry[o].state \in Running /\ Live(s, o) => ProcessAlive(o) /\ s.entry[o].heartbeat > 0
  BY <1>1, RefreshKeeps DEF ConstantsAreGood
<1> HIDE DEF s
<1>3. Live(s, o) /\ s.entry[o].state \in Running BY <1>2 DEF GoodStore, ClaimsAreQueued, s
<1>4. s.entry[o].state # "activating" BY <1>2, <1>3 DEF GoodStore, Connected, ProcessAlive
<1> QED BY <1>2, <1>3, <1>4 DEF Running, s

\* check and renew.
LEMMA CheckStep ==
  ASSUME ConstantsAreGood, QueueInv, NEW r \in Resource, NEW id \in Ids, Check(r, id) \/ Renew(r, id)
  PROVE  QueueInv'
<1> DEFINE s == Refresh(store)
           n == Least(Duration, s.active[r].room)
           t == [s EXCEPT !.active[r] = [s.active[r] EXCEPT !.left = n]]
<1>1. GoodStore(s, conn) /\ s \in Stores /\ conn \in Connections /\ conn' = conn
  BY RefreshedStore DEF QueueInv, Check, Renew, Refuses, Answers
<1>2. n \in Nat
  <2>1. Duration \in Nat /\ s.active[r].room \in Nat BY <1>1, ClaimFields DEF ConstantsAreGood, LeasesArePositive
  <2> QED BY <2>1 DEF Least
<1>3. CASE Refuses(s) BY <1>1, <1>3, SilentSteps DEF Refuses
<1>4. CASE Holds(s, r, id) /\ answer'.id = id /\ (store' = s \/ store' = t)
  <2>1. GoodStore(store', conn') /\ store'.entry = s.entry /\ store'.place = s.place
    <3>1. CASE store' = s BY <1>1, <3>1
    <3>2. CASE store' = t
      <4> HIDE DEF s, n
      <4> QED BY <1>1, <1>2, <1>4, <3>2, RenewKeeps DEF Holds
    <3> QED BY <1>4, <3>1, <3>2
  <2>2. ASSUME NEW o \in Owner, answer'.id = QueuedId(o)
        PROVE  /\ ProcessAlive(o) /\ Live(s, o) /\ s.entry[o].state = "active" /\ s.entry[o].heartbeat > 0
    BY <1>4, <2>2, RefreshedClaimIsLive DEF Holds
  <2>3. VouchedClaimIsLive'
    BY <1>1, <2>1, <2>2 DEF VouchedClaimIsLive, ProcessAlive, QueuedId, Live, InQueue
  <2> QED BY <1>1, <2>1, <2>3 DEF QueueInv, GoodStore, Turns, GoodOffers, Numbers, ClaimsAreQueued, Connected, Live, InQueue, Held
<1> QED BY <1>3, <1>4 DEF Check, Renew, Answers

\* release.
LEMMA ReleaseStep ==
  ASSUME ConstantsAreGood, QueueInv, NEW r \in Resource, NEW id \in Ids, Release(r, id) PROVE QueueInv'
<1>1. GoodStore(store, conn) /\ store \in Stores /\ conn \in Connections /\ conn' = conn /\ answer' = NoAnswer
  BY DEF QueueInv, GoodStore, Release, Refuses
<1>2. CASE store' = store BY <1>1, <1>2, SilentSteps
<1>3. CASE store' = [store EXCEPT !.active = [store.active EXCEPT ![r] = NoClaim]]
  <2> DEFINE a == [store.active EXCEPT ![r] = NoClaim]
  <2>1. NoClaim \in Claims BY DEF NoClaim, Claims
  <2>2. a \in [Resource -> Claims] /\ \A q \in Resource : a[q] = store.active[q] \/ a[q] = NoClaim
    BY <1>1, <2>1 DEF Stores
  <2> HIDE DEF a
  <2>3. GoodStore([store EXCEPT !.active = a], conn) BY <1>1, <2>2, LostClaimsKeep
  <2> QED BY <1>1, <1>3, <2>3, SilentSteps DEF a
<1> QED BY <1>2, <1>3 DEF Release, Refuses

\* A death inside refresh() leaves some claims released, and the queue for the next one.
LEMMA RefreshDiesStep == ASSUME ConstantsAreGood, QueueInv, RefreshDies PROVE QueueInv'
<1>1. GoodStore(store, conn) /\ store \in Stores /\ conn \in Connections /\ conn' = conn /\ answer' = NoAnswer
  BY DEF QueueInv, GoodStore, RefreshDies, Refuses
<1> DEFINE a(R) == [r \in Resource |-> IF r \in R THEN Refresh(store).active[r] ELSE store.active[r]]
<1>2. PICK R \in SUBSET Resource : store' = [store EXCEPT !.active = a(R)] BY DEF RefreshDies, Refuses
<1>3. \A r \in Resource : Refresh(store).active[r] = store.active[r] \/ Refresh(store).active[r] = NoClaim
  BY <1>1, RefreshKeeps DEF ConstantsAreGood
<1>4. Refresh(store) \in Stores BY RefreshedStore
<1>5. a(R) \in [Resource -> Claims] /\ \A r \in Resource : a(R)[r] = store.active[r] \/ a(R)[r] = NoClaim
  BY <1>1, <1>3, <1>4, ClaimFields
<1> HIDE DEF a
<1>6. GoodStore([store EXCEPT !.active = a(R)], conn) BY <1>1, <1>5, LostClaimsKeep
<1> QED BY <1>1, <1>2, <1>6, SilentSteps

\* Every step keeps the queue as it should be.
LEMMA QueueSteps == ASSUME ConstantsAreGood, QueueInv, [QueueNext]_queueVars PROVE QueueInv'
<1>1. ASSUME NEW o \in Owner, Connection(o) PROVE QueueInv'
  <2>1. CASE Submit(o) BY <2>1, SubmitStep
  <2>2. CASE Poll(o) BY <2>2, PollStep
  <2>3. CASE Heartbeat(o) BY <2>3, HeartbeatStep
  <2>4. CASE Wait(o)
    <3>1. store' = Refresh(store) /\ conn' = conn /\ answer' = NoAnswer /\ conn \in Connections
      BY <2>4 DEF Wait, Stay, QueueInv
    <3> QED BY <3>1, RefreshedStore, SilentSteps
  <2>5. CASE Accept(o) \/ AcceptDies(o) BY <2>5, AcceptStep
  <2>6. CASE Cancel(o) \/ Leave(o) \/ Die(o) BY <2>6, LeavingStep
  <2> QED BY <1>1, <2>1, <2>2, <2>3, <2>4, <2>5, <2>6 DEF Connection
<1>2. ASSUME NEW a \in Caller, NEW r \in Resource, LegacyAcquire(a, r) PROVE QueueInv' BY <1>2, LegacyStep
<1>3. ASSUME NEW r \in Resource, NEW id \in Ids, Check(r, id) \/ Renew(r, id) \/ Release(r, id) PROVE QueueInv'
  BY <1>3, CheckStep, ReleaseStep
<1>4. CASE Status
  <2>1. store' = Refresh(store) /\ conn' = conn /\ answer' = NoAnswer /\ conn \in Connections
    BY <1>4 DEF Status, Refuses, QueueInv
  <2> QED BY <2>1, RefreshedStore, SilentSteps
<1>5. CASE RefreshDies BY <1>5, RefreshDiesStep
<1>6. CASE Tick
  <2>1. conn' \in Connections /\ answer' = NoAnswer BY <1>6 DEF Tick, QueueInv
  <2> QED BY <1>6, <2>1, TickKeeps, SilentSteps
<1>7. CASE UNCHANGED queueVars
  BY <1>7 DEF queueVars, QueueInv, GoodStore, Turns, GoodOffers, Numbers, ClaimsAreQueued, Connected, Live, InQueue,
              Held, VouchedClaimIsLive, ProcessAlive
<1> QED BY <1>1, <1>2, <1>3, <1>4, <1>5, <1>6, <1>7 DEF QueueNext

-----------------------------------------------------------------------------
(* The properties.                                                         *)

\* QueueInv is inductive.
LEMMA QueueIsSound == ASSUME ConstantsAreGood PROVE QueueSpec => []QueueInv
<1>1. QueueInit => QueueInv BY QueueStarts
<1>2. QueueInv /\ [QueueNext]_queueVars => QueueInv' BY QueueSteps
<1> QED BY <1>1, <1>2, PTL DEF QueueSpec

\* Whatever steps the connections, the legacy callers and the deaths of
\* processes come in, one entry at a time has a resource reserved for it, and
\* it came before everyone who still waits for it (refresh, claims.py).
THEOREM TurnsAreKeptAlways == ASSUME ConstantsAreGood PROVE QueueSpec => []TurnsAreKept
<1>1. QueueInv => TurnsAreKept BY DEF QueueInv, GoodStore, Turns, TurnsAreKept
<1> QED BY <1>1, QueueIsSound, PTL

\* While an offer stands nobody holds its resource, not even a caller of the
\* legacy command, which does not queue.
THEOREM OffersStayGood == ASSUME ConstantsAreGood PROVE QueueSpec => []OffersAreGood
<1>1. QueueInv => OffersAreGood BY DEF QueueInv, GoodStore, GoodOffers, OffersAreGood
<1> QED BY <1>1, QueueIsSound, PTL

\* check and renew never accept a queued claim whose connection is gone or has
\* let its lease run out, even after a death between the two files.
THEOREM VouchedClaimsAreLive == ASSUME ConstantsAreGood PROVE QueueSpec => []VouchedClaimIsLive
<1>1. QueueInv => VouchedClaimIsLive BY DEF QueueInv
<1> QED BY <1>1, QueueIsSound, PTL

\* From one store to another a claim is gone or replaced only when it was free
\* or belonged to a queued owner of that resource.
OnlyOwn(s, t) ==
  \A r \in Resource : Held(s, r) /\ t.active[r].id # s.active[r].id =>
    \E o \in Owner : Target[o] = r /\ s.active[r].id = QueuedId(o)

\* refresh() takes the claims of entries it ends.
LEMMA RefreshIsOwn == ASSUME ConstantsAreGood, NEW s, NEW c, GoodStore(s, c) PROVE OnlyOwn(s, Refresh(s))
<1>1. \A r \in Resource : \/ Refresh(s).active[r] = s.active[r]
                          \/ \E o \in Owner : Target[o] = r /\ s.active[r].id = QueuedId(o)
  BY RefreshKeeps DEF ConstantsAreGood
<1> QED BY <1>1 DEF OnlyOwn

\* What follows a refresh may take the claims of owners in the queue, and write
\* one where nobody has the resource.
LEMMA OwnThroughRefresh ==
  ASSUME ConstantsAreGood, NEW s, NEW c, NEW t, GoodStore(s, c), OnlyOwn(Refresh(s), t)
  PROVE  OnlyOwn(s, t)
<1>1. \A r \in Resource : \/ Refresh(s).active[r] = s.active[r]
                          \/ \E o \in Owner : Target[o] = r /\ s.active[r].id = QueuedId(o)
  BY RefreshKeeps DEF ConstantsAreGood
<1> QED BY <1>1 DEF OnlyOwn, Held

\* So does an end, before or after the intent is written.
LEMMA EndIsOwn ==
  ASSUME NEW s \in Stores, NEW i \in Stores, NEW gone \in SUBSET Owner, i.active = s.active
  PROVE  OnlyOwn(s, End(i, gone))
<1>1. \A r \in Resource : End(i, gone).active[r] =
        IF \E o \in gone : Target[o] = r /\ i.entry[o].claimed /\ Mine(i, o) THEN NoClaim ELSE i.active[r]
  BY EndGives
<1> QED BY <1>1 DEF OnlyOwn, Mine

\* Or a cancel.
LEMMA CancelledIsOwn ==
  ASSUME ConstantsAreGood, NEW s, NEW c, NEW o \in Owner, GoodStore(s, c) PROVE OnlyOwn(s, Cancelled(s, o))
<1> DEFINE gone == {o} \intersect {p \in Owner : Live(s, p)}
           e == End(s, gone)
<1>1. s \in Stores BY DEF GoodStore
<1>2. GoodStore(e, c) BY EndKeeps DEF ConstantsAreGood
<1>3. \A r \in Resource : e.active[r] =
        IF \E p \in gone : Target[p] = r /\ s.entry[p].claimed /\ Mine(s, p) THEN NoClaim ELSE s.active[r]
  BY <1>1, EndGives
<1>4. \A r \in Resource : \/ e.active[r] = s.active[r]
                          \/ \E p \in Owner : Target[p] = r /\ s.active[r].id = QueuedId(p)
  BY <1>3 DEF Mine
<1> HIDE DEF e, gone
<1>5. OnlyOwn(e, Refresh(e)) BY <1>2, RefreshIsOwn
<1>6. OnlyOwn(s, Refresh(e)) BY <1>4, <1>5 DEF OnlyOwn, Held
<1>7. OnlyOwn(s, s) BY DEF OnlyOwn
<1> QED BY <1>6, <1>7 DEF Cancelled, e, gone

\* Writing a claim where nobody has the resource takes nobody's.
LEMMA ClaimIsOwn ==
  ASSUME ConstantsAreGood, NEW s \in Stores, NEW i \in Stores, NEW r \in Resource, NEW id \in Ids,
         i.active = s.active, ~Held(s, r)
  PROVE  OnlyOwn(s, Claim(i, r, id))
BY ClaimGives DEF OnlyOwn

\* No operation of a connection takes a claim of anybody else.
LEMMA ConnectionIsOwn ==
  ASSUME ConstantsAreGood, QueueInv, NEW o \in Owner, Connection(o) PROVE OnlyOwn(store, store')
<1> DEFINE s == Refresh(store)
           i == Intent(s, o)
           w == Claim(i, Target[o], QueuedId(o))
<1>0. GoodStore(store, conn) /\ conn \in Connections BY DEF QueueInv
<1>1. GoodStore(s, conn) /\ s \in Stores BY RefreshedStore
<1>2. OnlyOwn(store, s) BY <1>0, RefreshIsOwn
<1>3. \A t : t.active = s.active => OnlyOwn(store, t) BY <1>2 DEF OnlyOwn
<1>i. i \in Stores /\ i.active = s.active BY <1>1, IntentGives
<1>w. ASSUME ~Held(s, Target[o]) PROVE w \in Stores /\ OnlyOwn(store, w)
  <2>1. Target[o] \in Resource /\ QueuedId(o) \in Ids BY IdsDiffer DEF ConstantsAreGood, TargetsAreResources
  <2> HIDE DEF s, i
  <2>2. w \in Stores /\ OnlyOwn(s, w) BY <1>1, <1>i, <1>w, <2>1, ClaimGives, ClaimIsOwn
  <2> QED BY <1>0, <2>2, OwnThroughRefresh DEF s
<1>4. CASE Submit(o)
  <2>1. CASE store' = s BY <1>2, <2>1
  <2>2. CASE conn[o] = "new" /\ store' = Refresh(Admitted(s, o))
    <3> DEFINE m == Admitted(s, o)
               d == [conn EXCEPT ![o] = "open"]
    <3>1. GoodStore(m, d) BY <1>0, <1>1, <2>2, AdmittedKeeps DEF ConstantsAreGood
    <3>2. m.active = s.active BY <1>1, <2>2, AdmittedGives DEF ConstantsAreGood, GoodStore, Connected
    <3> HIDE DEF m, d, s
    <3>3. OnlyOwn(m, Refresh(m)) BY <3>1, RefreshIsOwn
    <3>4. OnlyOwn(s, Refresh(m)) BY <3>2, <3>3 DEF OnlyOwn, Held
    <3> QED BY <1>0, <2>2, <3>4, OwnThroughRefresh DEF m, s
  <2> QED BY <1>4, <2>1, <2>2 DEF Submit
<1>5. CASE Poll(o) \/ Wait(o) BY <1>2, <1>5 DEF Poll, Wait
<1>6. CASE Heartbeat(o)
  <2>1. store'.active = s.active
    <3>1. CASE store' = s BY <3>1
    <3>2. CASE \E e : store' = [s EXCEPT !.entry = e] BY <1>1, <3>2 DEF Stores
    <3> QED BY <1>6, <3>1, <3>2 DEF Heartbeat
  <2> QED BY <1>3, <2>1
<1>7. CASE Accept(o) \/ AcceptDies(o)
  <2>1. CASE store' = s \/ store' = i BY <1>i, <1>3, <2>1
  <2>2. CASE ~Held(s, Target[o]) /\ store' = Activated(w, o)
    <3>1. w \in Stores /\ OnlyOwn(store, w) BY <1>w, <2>2
    <3> HIDE DEF w
    <3>2. Activated(w, o).active = w.active BY <3>1, ActivatedGives
    <3> QED BY <2>2, <3>1, <3>2 DEF OnlyOwn
  <2>3. CASE ~Held(s, Target[o]) /\ store' = w BY <1>w, <2>3
  <2>4. CASE store' = End(i, {o})
    <3> HIDE DEF s, i
    <3>1. OnlyOwn(s, End(i, {o})) BY <1>1, <1>i, EndIsOwn
    <3> QED BY <1>0, <2>4, <3>1, OwnThroughRefresh DEF s
  <2> QED BY <1>7, <2>1, <2>2, <2>3, <2>4 DEF Accept, AcceptDies
<1>8. CASE Cancel(o) \/ Leave(o)
  <2>1. store' = Cancelled(s, o) BY <1>8 DEF Cancel, Leave
  <2> HIDE DEF s
  <2>2. OnlyOwn(s, Cancelled(s, o)) BY <1>1, CancelledIsOwn
  <2> QED BY <1>0, <2>1, <2>2, OwnThroughRefresh DEF s
<1>9. CASE Die(o) BY <1>9 DEF Die, OnlyOwn
<1> QED BY <1>4, <1>5, <1>6, <1>7, <1>8, <1>9 DEF Connection

\* A claim that is still live is taken away only by its own release or with its
\* own entry: the end of an entry, the clean-up after a process that died
\* anywhere, and another claim never take it.
THEOREM ClaimsEndWithTheirOwnAlways == ASSUME ConstantsAreGood PROVE QueueSpec => ClaimsEndWithTheirOwn
<1>1. ASSUME QueueInv, [QueueNext]_queueVars PROVE [EndsWithItsOwn]_queueVars
  <2>0. GoodStore(store, conn) /\ store \in Stores BY <1>1 DEF QueueInv, GoodStore
  <2>1. OnlyOwn(store, store') => EndsWithItsOwn BY DEF OnlyOwn, EndsWithItsOwn
  <2>2. ASSUME NEW o \in Owner, Connection(o) PROVE EndsWithItsOwn BY <1>1, <2>1, <2>2, ConnectionIsOwn
  <2>3. ASSUME NEW a \in Caller, NEW r \in Resource, LegacyAcquire(a, r) PROVE EndsWithItsOwn
    <3> DEFINE s == Refresh(store)
               id == LegacyId(a, s.generation[r] + 1)
    <3>1. CASE store' = s BY <2>0, <2>1, <3>1, RefreshIsOwn
    <3>2. CASE ~Held(s, r) /\ store' = Claim(s, r, id)
      <4>1. \A q \in Resource : q # r => store'.active[q] = s.active[q]
        <5>1. s \in Stores BY <1>1, RefreshedStore
        <5> QED BY <3>2, <5>1 DEF Claim, Stores
      <4> HIDE DEF s
      <4>2. OnlyOwn(s, store') BY <3>2, <4>1 DEF OnlyOwn
      <4> QED BY <2>0, <2>1, <4>2, OwnThroughRefresh DEF s
    <3> QED BY <2>3, <3>1, <3>2 DEF LegacyAcquire, Refuses
  <2>4. ASSUME NEW r \in Resource, NEW id \in Ids, Check(r, id) \/ Renew(r, id) PROVE EndsWithItsOwn
    <3> DEFINE s == Refresh(store)
               n == Least(Duration, s.active[r].room)
    <3>1. CASE store' = s BY <2>0, <2>1, <3>1, RefreshIsOwn
    <3>2. CASE store' = [s EXCEPT !.active[r] = [s.active[r] EXCEPT !.left = n]]
      <4>1. s \in Stores BY <1>1, RefreshedStore
      <4>2. s.active[r] \in Claims BY <4>1, ClaimFields
      <4> HIDE DEF s, n
      <4>3. \A q \in Resource : store'.active[q].id = s.active[q].id
        BY <3>2, <4>1, <4>2 DEF Stores, Claims
      <4>4. OnlyOwn(s, store') BY <4>3 DEF OnlyOwn
      <4> QED BY <2>0, <2>1, <4>4, OwnThroughRefresh DEF s
    <3> QED BY <2>4, <3>1, <3>2 DEF Check, Renew, Refuses
  <2>5. ASSUME NEW r \in Resource, NEW id \in Ids, Release(r, id) PROVE EndsWithItsOwn
    <3>1. \A q \in Resource : store'.active[q].id # store.active[q].id => q = r /\ id = store.active[q].id
      BY <2>0, <2>5 DEF Release, Refuses, Stores
    <3> QED BY <2>5, <3>1 DEF EndsWithItsOwn
  <2>6. CASE Status BY <2>0, <2>1, <2>6, RefreshIsOwn DEF Status, Refuses
  <2>7. CASE RefreshDies
    <3>1. OnlyOwn(store, Refresh(store)) BY <2>0, RefreshIsOwn
    <3>2. \A r \in Resource : store'.active[r] \in {Refresh(store).active[r], store.active[r]}
      BY <2>0, <2>7 DEF RefreshDies, Refuses, Stores
    <3>3. OnlyOwn(store, store') BY <3>1, <3>2 DEF OnlyOwn
    <3> QED BY <2>1, <3>3
  <2>8. CASE Tick
    <3> DEFINE lower(r) == [store.active[r] EXCEPT !.left = Less(@), !.room = Less(@)]
    <3>1. \A r \in Resource : lower(r).id = store.active[r].id BY <2>0, ClaimFields DEF Claims
    <3> HIDE DEF lower
    <3>2. \A r \in Resource : store'.active[r] = lower(r)
      <4>1. \E e : store' = [store EXCEPT !.entry = e, !.active = [r \in Resource |-> lower(r)]]
        BY <2>8 DEF Tick, lower
      <4> QED BY <2>0, <4>1 DEF Stores
    <3>3. OnlyOwn(store, store') BY <3>1, <3>2 DEF OnlyOwn
    <3> QED BY <2>1, <3>3
  <2>9. CASE UNCHANGED queueVars BY <2>9
  <2> QED BY <1>1, <2>2, <2>3, <2>4, <2>5, <2>6, <2>7, <2>8, <2>9 DEF QueueNext
<1>2. QueueInv /\ [QueueNext]_queueVars => [EndsWithItsOwn]_queueVars BY <1>1
<1> QED BY <1>2, QueueIsSound, PTL DEF QueueSpec, ClaimsEndWithTheirOwn

-----------------------------------------------------------------------------
(* Limits: entries, places, counters and leases.                           *)

EntryLimits(e, n) ==
  /\ e.sequence <= n /\ e.deadline <= WaitTime /\ e.offer <= OfferLease
  /\ e.heartbeat <= WaitLease \/ e.heartbeat <= ActiveLease
  /\ IF e.state = Waiting THEN e.offerGeneration = 0 ELSE e.offerGeneration <= 1
ClaimLimits(c) == c.left <= Lifetime /\ c.room <= Lifetime

\* A store within its limits: nobody waits after an offer, nobody shares a
\* place, and what the list has forgotten had ended.
Limited(s) ==
  /\ \A o \in Owner : EntryLimits(s.entry[o], s.sequence)
  /\ \A o \in Owner : s.place[o] <= MaxEntries /\ (~InQueue(s, o) => s.entry[o].state = "ended")
  /\ \A o, p \in Owner : InQueue(s, o) /\ s.place[o] = s.place[p] => o = p
  /\ \A r \in Resource : s.generation[r] <= MaxGeneration /\ ClaimLimits(s.active[r])

\* Each connection submits once.
Asked(c) == {o \in Owner : c[o] # "new"}
Views == [Owner -> {"none", Waiting, "offered", "active", "ended"}]
Vouched == [op : {"none", "acquire", "check", "renew"}, id : Ids \union {<<>>}]

LimitsInv ==
  /\ QueueInv /\ Limited(store) /\ store.sequence <= Cardinality(Asked(conn))
  /\ view \in Views /\ answer \in Vouched

LEMMA LimitsAreTypes == ASSUME ConstantsAreGood, LimitsInv PROVE QueueTypeOK
<1>1. store \in Stores /\ conn \in Connections /\ Limited(store) BY DEF LimitsInv, QueueInv, GoodStore
<1>2. /\ \A o \in Owner : store.entry[o] \in Entries /\ store.place[o] \in Nat
      /\ \A r \in Resource : store.active[r] \in Claims /\ store.generation[r] \in Nat
      /\ store.sequence \in Nat
  BY <1>1 DEF Stores
<1>c. {WaitLease, OfferLease, ActiveLease, WaitTime} \subseteq Nat /\ Lifetime \in Nat /\ MaxEntries \in Nat
      /\ MaxGeneration \in Nat
  BY DEF ConstantsAreGood, LeasesArePositive
<1>3. store.place \in [Owner -> 0..MaxEntries]
  BY <1>1, <1>2, <1>c DEF Stores, Limited
<1>4. store.sequence \in 0..Cardinality(Owner)
  <2>1. Asked(conn) \in SUBSET Owner BY DEF Asked
  <2>2. Cardinality(Asked(conn)) <= Cardinality(Owner) /\ Cardinality(Owner) \in Nat
        /\ Cardinality(Asked(conn)) \in Nat
    BY <2>1, FS_Subset, FS_CardinalityType DEF ConstantsAreGood, OwnersAreFinite
  <2> QED BY <1>2, <2>2 DEF LimitsInv
<1>5. ASSUME NEW o \in Owner
      PROVE  store.entry[o] \in [state : States, sequence : 0..store.sequence,
               deadline : 0..WaitTime, heartbeat : 0..WaitLease \union 0..ActiveLease,
               offer : 0..OfferLease, offerGeneration : 0..1, claimed : BOOLEAN]
  <2>1. store.entry[o] \in Entries /\ EntryLimits(store.entry[o], store.sequence) BY <1>1, <1>2 DEF Limited
  <2> QED BY <1>2, <1>c, <2>1 DEF Entries, EntryLimits
<1>6. ASSUME NEW r \in Resource
      PROVE  /\ store.active[r] \in [id : Ids \union {<<>>}, left : 0..Lifetime, room : 0..Lifetime]
             /\ store.generation[r] \in 0..MaxGeneration
  BY <1>1, <1>2, <1>c DEF Claims, Limited, ClaimLimits
<1>7. /\ store.entry \in [Owner -> [state : States, sequence : 0..store.sequence,
           deadline : 0..WaitTime, heartbeat : 0..WaitLease \union 0..ActiveLease,
           offer : 0..OfferLease, offerGeneration : 0..1, claimed : BOOLEAN]]
      /\ store.generation \in [Resource -> 0..MaxGeneration]
      /\ store.active \in [Resource -> [id : Ids \union {<<>>}, left : 0..Lifetime, room : 0..Lifetime]]
  BY <1>1, <1>5, <1>6 DEF Stores
<1>8. \A o, p \in Owner : InQueue(store, o) /\ store.place[o] = store.place[p] => o = p BY <1>1 DEF Limited
<1>9. conn \in [Owner -> {"new", "open", "gone"}] BY <1>1 DEF Connections
<1> QED BY <1>3, <1>4, <1>7, <1>8, <1>9 DEF QueueTypeOK, LimitsInv, Views, Vouched

\* A store with the same places and numbers is within its limits when what was
\* changed of it is, and nothing forgotten comes back.
LEMMA SameLimits ==
  ASSUME NEW s, NEW t, Limited(s), t.place = s.place, t.sequence = s.sequence,
         \A o \in Owner : /\ EntryLimits(t.entry[o], s.sequence)
                          /\ ~InQueue(s, o) => t.entry[o].state \in {s.entry[o].state, "ended"},
         \A r \in Resource : t.generation[r] <= MaxGeneration /\ ClaimLimits(t.active[r])
  PROVE  Limited(t)
BY DEF Limited, InQueue

LEMMA EndStays ==
  ASSUME NEW s \in Stores, NEW gone \in SUBSET Owner, ConstantsAreGood, Limited(s)
  PROVE  Limited(End(s, gone)) /\ End(s, gone).generation = s.generation
<1> DEFINE entry == [o \in Owner |-> IF o \in gone THEN [s.entry[o] EXCEPT !.state = "ended"] ELSE s.entry[o]]
           t == End(s, gone)
<1>1. t.place = s.place /\ t.sequence = s.sequence /\ t.generation = s.generation /\ t.entry = entry
  BY DEF End, Stores
<1>2. ASSUME NEW o \in Owner
      PROVE  EntryLimits(entry[o], s.sequence) /\ entry[o].state \in {s.entry[o].state, "ended"}
  <2>1. s.entry[o] \in Entries /\ EntryLimits(s.entry[o], s.sequence) BY EntryFields DEF Limited
  <2>2. CASE o \notin gone BY <2>1, <2>2
  <2>3. CASE o \in gone
    <3>1. entry[o] = [s.entry[o] EXCEPT !.state = "ended"] BY <2>3
    <3> QED BY <2>1, <3>1 DEF Entries, EntryLimits, Waiting
  <2> QED BY <2>2, <2>3
<1> HIDE DEF entry
<1>3. ASSUME NEW r \in Resource PROVE t.generation[r] <= MaxGeneration /\ ClaimLimits(t.active[r])
  <2>1. t.active[r] = s.active[r] \/ t.active[r] = NoClaim BY EndGives
  <2>2. ClaimLimits(NoClaim) BY DEF ClaimLimits, NoClaim, ConstantsAreGood, LeasesArePositive
  <2> QED BY <1>1, <2>1, <2>2 DEF Limited
<1> HIDE DEF t
<1>4. Limited(t) BY <1>1, <1>2, <1>3, SameLimits
<1> QED BY <1>1, <1>4 DEF t

LEMMA OfferStays ==
  ASSUME NEW s \in Stores, ConstantsAreGood, Limited(s)
  PROVE  Limited(Offer(s)) /\ Offer(s).generation = s.generation
<1> DEFINE next(o) == [s.entry[o] EXCEPT !.state = "offered", !.offerGeneration = @ + 1, !.offer = OfferLease]
           t == Offer(s)
<1>1. t.place = s.place /\ t.sequence = s.sequence /\ t.generation = s.generation /\ t.active = s.active
  BY OfferGives DEF ConstantsAreGood
<1>2. \A o \in Owner : t.entry[o] = IF IsNext(s, o) THEN next(o) ELSE s.entry[o] BY DEF Offer, Stores
<1>3. ASSUME NEW o \in Owner
      PROVE  EntryLimits(t.entry[o], s.sequence) /\ (~InQueue(s, o) => t.entry[o].state = s.entry[o].state)
  <2>1. s.entry[o] \in Entries /\ EntryLimits(s.entry[o], s.sequence) /\ OfferLease \in Nat
    BY EntryFields DEF Limited, ConstantsAreGood, LeasesArePositive
  <2>2. CASE ~IsNext(s, o) BY <1>2, <2>1, <2>2
  <2>3. CASE IsNext(s, o)
    <3>1. s.entry[o].state = Waiting /\ InQueue(s, o) BY <2>3 DEF IsNext, Live
    <3> DEFINE e == s.entry[o]
               f == [e EXCEPT !.state = "offered", !.offerGeneration = e.offerGeneration + 1, !.offer = OfferLease]
    <3>2. e \in Entries /\ EntryLimits(e, s.sequence) /\ e.offerGeneration = 0 BY <2>1, <3>1 DEF EntryLimits
    <3>3. t.entry[o] = f BY <1>2, <2>3
    <3>4. EntryLimits(f, s.sequence)
      <4> HIDE DEF e, t
      <4>1. f.state = "offered" /\ f.offerGeneration = 1 /\ f.offer = OfferLease /\ f.sequence = e.sequence
            /\ f.deadline = e.deadline /\ f.heartbeat = e.heartbeat
        BY <3>2 DEF Entries
      <4> QED BY <2>1, <3>2, <4>1 DEF EntryLimits, Waiting
    <3> HIDE DEF t, e, f
    <3> QED BY <3>1, <3>3, <3>4
  <2> QED BY <2>2, <2>3
<1> HIDE DEF t
<1>4. Limited(t) BY <1>1, <1>3, SameLimits DEF Limited
<1> QED BY <1>1, <1>4 DEF t

LEMMA RefreshStays ==
  ASSUME NEW s, NEW c, ConstantsAreGood, GoodStore(s, c), Limited(s)
  PROVE  /\ Limited(Refresh(s)) /\ Refresh(s) \in Stores
         /\ Refresh(s).generation = s.generation /\ Refresh(s).sequence = s.sequence
<1> DEFINE gone == {o \in Owner : Live(s, o) /\ IsOver(s, o)}
           e == End(s, gone)
<1>0. s \in Stores /\ gone \in SUBSET Owner BY DEF GoodStore
<1> HIDE DEF gone
<1>1. e \in Stores /\ e.sequence = s.sequence /\ Limited(e) /\ e.generation = s.generation
  BY <1>0, EndGives, EndStays
<1> HIDE DEF e
<1>2. Offer(e) \in Stores /\ Offer(e).sequence = e.sequence /\ Limited(Offer(e)) /\ Offer(e).generation = e.generation
  BY <1>1, OfferGives, OfferStays DEF ConstantsAreGood
<1> QED BY <1>1, <1>2 DEF Refresh, gone, e

\* Entries counted up to one of them: each has a place of its own among them.
LEMMA UptoCounts ==
  ASSUME NEW s \in Stores, NEW S \in SUBSET Owner, OwnersAreFinite, Limited(s), \A p \in S : InQueue(s, p)
  PROVE  /\ Cardinality(S) \in Nat
         /\ \A p \in S : Upto(s, S, p) \in 1..Cardinality(S)
         /\ \A p, q \in S : Upto(s, S, p) = Upto(s, S, q) => p = q
<1> DEFINE before(p) == {q \in S : s.place[q] <= s.place[p]}
<1>1. IsFiniteSet(S) /\ Cardinality(S) \in Nat BY FS_Subset, FS_CardinalityType DEF OwnersAreFinite
<1>2. ASSUME NEW p \in S PROVE Cardinality(before(p)) \in 1..Cardinality(S)
  <2>1. s.place[p] \in Nat BY EntryFields
  <2>2. p \in before(p) /\ before(p) \in SUBSET S BY <2>1
  <2>3. Cardinality(before(p)) <= Cardinality(S) BY <1>1, <2>2, FS_Subset
  <2>4. Cardinality(before(p)) \in Nat /\ Cardinality(before(p)) > 0 BY <2>2, CountsAreNatural
  <2> QED BY <1>1, <2>3, <2>4
<1>3. ASSUME NEW p \in S, NEW q \in S, Cardinality(before(p)) = Cardinality(before(q)), s.place[p] <= s.place[q]
      PROVE  p = q
  <2>1. s.place[p] \in Nat /\ s.place[q] \in Nat /\ \A u \in S : s.place[u] \in Nat BY EntryFields
  <2>2. before(p) \in SUBSET before(q) BY <1>3, <2>1
  <2>3. IsFiniteSet(before(q)) BY <1>1, FS_Subset
  <2>4. before(p) = before(q)
    <3> HIDE DEF before
    <3> QED BY <1>3, <2>2, <2>3, FS_Subset
  <2>5. q \in before(p) BY <2>1, <2>4
  <2>6. s.place[p] = s.place[q] BY <1>3, <2>1, <2>5
  <2> QED BY <2>6 DEF Limited
<1>4. \A p, q \in S : Cardinality(before(p)) = Cardinality(before(q)) => p = q
  <2> SUFFICES ASSUME NEW p \in S, NEW q \in S, Cardinality(before(p)) = Cardinality(before(q)) PROVE p = q
    OBVIOUS
  <2>1. s.place[p] \in Nat /\ s.place[q] \in Nat BY EntryFields
  <2>2. s.place[p] <= s.place[q] \/ s.place[q] <= s.place[p] BY <2>1
  <2> HIDE DEF before
  <2> QED BY <1>3, <2>2
<1> QED BY <1>1, <1>2, <1>4 DEF Upto

\* Of entries with places of their own, no more have one below n than that.
LEMMA FewAreKept ==
  ASSUME NEW s \in Stores, NEW S \in SUBSET Owner, OwnersAreFinite, Limited(s), \A p \in S : InQueue(s, p),
         NEW n \in Nat \ {0}
  PROVE  Cardinality({p \in S : Upto(s, S, p) < n}) < n
<1> DEFINE kept == {p \in S : Upto(s, S, p) < n}
           f == [p \in kept |-> Upto(s, S, p)]
<1>1. /\ \A p \in S : Upto(s, S, p) \in 1..Cardinality(S)
      /\ \A p, q \in S : Upto(s, S, p) = Upto(s, S, q) => p = q
      /\ Cardinality(S) \in Nat
  BY UptoCounts
<1>2. f \in [kept -> 1..(n - 1)] BY <1>1
<1>3. \A p, q \in kept : f[p] = f[q] => p = q BY <1>1
<1>4. IsFiniteSet(kept) /\ Cardinality(kept) \in Nat
  BY FS_Subset, FS_CardinalityType DEF OwnersAreFinite
<1>5. IsFiniteSet(1..(n - 1)) /\ Cardinality(1..(n - 1)) = n - 1
  BY FS_Interval
<1> HIDE DEF kept, f
<1>6. ~(n - 1 < Cardinality(kept))
  BY <1>2, <1>3, <1>4, <1>5, FS_PigeonHole
<1> QED BY <1>4, <1>6 DEF kept

\* claim.open gives as many places as there are.
LEMMA AdmittedStays ==
  ASSUME NEW s \in Stores, NEW o \in Owner, ConstantsAreGood, Limited(s), ~InQueue(s, o),
         ~(Cardinality({p \in Owner : Live(s, p)}) >= MaxEntries)
  PROVE  Limited(Admitted(s, o))
<1> DEFINE live == {p \in Owner : Live(s, p)}
           ended == {p \in Owner : InQueue(s, p)} \ live
           recent == {p \in ended : From(s, ended, p) <= Retained}
           kept == {p \in recent : Upto(s, recent, p) < MaxEntries - Cardinality(live)}
           l == Cardinality(live)
           k == Cardinality(kept)
           place == [p \in Owner |->
             CASE p = o -> l + k + 1
               [] p \in live -> Upto(s, live, p)
               [] p \in kept -> l + Upto(s, kept, p)
               [] OTHER -> 0]
           new == [NoEntry EXCEPT !.state = Waiting, !.sequence = s.sequence + 1,
                                  !.deadline = WaitTime, !.heartbeat = WaitLease]
           t == Admitted(s, o)
<1>1. t = [s EXCEPT !.sequence = @ + 1, !.place = place, !.entry[o] = new] BY DEF Admitted
<1>2. /\ live \in SUBSET Owner /\ \A p \in live : InQueue(s, p) /\ p # o
      /\ recent \in SUBSET Owner /\ \A p \in recent : InQueue(s, p)
      /\ kept \in SUBSET Owner /\ \A p \in kept : InQueue(s, p) /\ p # o /\ p \notin live
  BY DEF Live
<1>3. \A p \in Owner : InQueue(s, p) /\ p \notin live => s.entry[p].state = "ended" BY DEF Live
<1>c. MaxEntries \in Nat /\ WaitTime \in Nat /\ WaitLease \in Nat /\ OfferLease \in Nat
      /\ ~(l >= MaxEntries) /\ OwnersAreFinite
  BY DEF ConstantsAreGood, LeasesArePositive
<1>4. l \in Nat /\ k \in Nat /\ k < MaxEntries - l
  <2>1. l \in Nat /\ k \in Nat BY <1>2, <1>c, CountsAreNatural
  <2>2. MaxEntries - l \in Nat \ {0} BY <1>c, <2>1
  <2> HIDE DEF live, recent
  <2> QED BY <1>2, <1>c, <2>1, <2>2, FewAreKept
<1>5. /\ \A p \in live : Upto(s, live, p) \in 1..l
      /\ \A p, q \in live : Upto(s, live, p) = Upto(s, live, q) => p = q
      /\ \A p \in kept : Upto(s, kept, p) \in 1..k
      /\ \A p, q \in kept : Upto(s, kept, p) = Upto(s, kept, q) => p = q
  <2> HIDE DEF live, kept
  <2> QED BY <1>2, <1>c, UptoCounts
<1>6. /\ place[o] = l + k + 1
      /\ \A p \in live : place[p] = Upto(s, live, p)
      /\ \A p \in kept : place[p] = l + Upto(s, kept, p)
      /\ \A p \in Owner : p # o /\ p \notin live /\ p \notin kept => place[p] = 0
  BY <1>2
<1>7. \A p \in Owner : p = o \/ p \in live \/ p \in kept \/ (p # o /\ p \notin live /\ p \notin kept) OBVIOUS
<1>8. ~(\E p \in live : p = o) /\ ~(\E p \in kept : p = o \/ p \in live) BY <1>2
<1>s. s.sequence \in Nat /\ \A p \in Owner : s.entry[p] \in Entries /\ EntryLimits(s.entry[p], s.sequence)
  BY EntryFields DEF Limited
<1>11. EntryLimits(new, s.sequence + 1) BY <1>c, <1>s DEF EntryLimits, NoEntry
<1> HIDE DEF live, kept, recent, ended, place, l, k, new, t
<1>9. \A p \in Owner : place[p] \in 0..MaxEntries
  <2>1. ASSUME NEW p \in Owner PROVE place[p] \in 0..MaxEntries
    <3>1. CASE p = o BY <1>4, <1>6, <1>c, <3>1
    <3>2. CASE p \in live BY <1>4, <1>5, <1>6, <1>c, <3>2
    <3>3. CASE p \in kept BY <1>4, <1>5, <1>6, <1>c, <3>3
    <3>4. CASE p # o /\ p \notin live /\ p \notin kept BY <1>6, <1>c, <3>4
    <3> QED BY <1>7, <3>1, <3>2, <3>3, <3>4
  <2> QED BY <2>1
<1>10. ASSUME NEW p \in Owner, NEW q \in Owner, place[p] > 0, place[p] = place[q] PROVE p = q
  <2>1. p = o \/ p \in live \/ p \in kept BY <1>6, <1>10
  <2>2. q = o \/ q \in live \/ q \in kept BY <1>6, <1>10
  <2>3. \A u \in live : place[u] \in 1..l BY <1>5, <1>6
  <2>4. \A u \in kept : place[u] \in (l + 1)..(l + k) BY <1>4, <1>5, <1>6
  <2>5. CASE p = o BY <1>4, <1>6, <1>10, <2>2, <2>3, <2>4, <2>5
  <2>6. CASE p \in live
    <3>1. q \in live BY <1>4, <1>6, <1>10, <2>2, <2>3, <2>4, <2>6
    <3> QED BY <1>5, <1>6, <1>10, <2>6, <3>1
  <2>7. CASE p \in kept
    <3>1. q \in kept BY <1>4, <1>6, <1>10, <2>2, <2>3, <2>4, <2>7
    <3>2. Upto(s, kept, p) \in Nat /\ Upto(s, kept, q) \in Nat /\ l + Upto(s, kept, p) = l + Upto(s, kept, q)
      BY <1>4, <1>5, <1>6, <1>10, <2>7, <3>1
    <3>3. Upto(s, kept, p) = Upto(s, kept, q) BY <1>4, <3>2
    <3> QED BY <1>5, <2>7, <3>1, <3>3
  <2> QED BY <2>1, <2>5, <2>6, <2>7
<1>12. /\ t.sequence = s.sequence + 1 /\ t.place = place /\ t.generation = s.generation /\ t.active = s.active
       /\ t.entry[o] = new /\ \A p \in Owner : p # o => t.entry[p] = s.entry[p]
  BY <1>1 DEF Stores
<1>13. \A p \in Owner : EntryLimits(t.entry[p], t.sequence)
  <2>1. ASSUME NEW p \in Owner, p # o PROVE EntryLimits(t.entry[p], t.sequence)
    <3>1. EntryLimits(s.entry[p], s.sequence) /\ s.entry[p].sequence \in Nat BY <1>s DEF Entries
    <3> QED BY <1>s, <1>12, <2>1, <3>1 DEF EntryLimits
  <2> QED BY <1>11, <1>12, <2>1
<1>14. ASSUME NEW p \in Owner, ~InQueue(t, p) PROVE t.entry[p].state = "ended"
  <2>1. ~(place[p] > 0) BY <1>12, <1>14 DEF InQueue
  <2>2. p # o BY <1>4, <1>6, <2>1
  <2>3. p \notin live BY <1>5, <1>6, <1>4, <2>1
  <2>4. s.entry[p].state = "ended" BY <1>3, <2>3 DEF Limited
  <2> QED BY <1>12, <2>2, <2>4
<1>15. \A p, q \in Owner : InQueue(t, p) /\ t.place[p] = t.place[q] => p = q BY <1>10, <1>12 DEF InQueue
<1>16. \A p \in Owner : t.place[p] <= MaxEntries BY <1>9, <1>12, <1>c
<1>17. \A r \in Resource : t.generation[r] <= MaxGeneration /\ ClaimLimits(t.active[r]) BY <1>12 DEF Limited
<1>18. Limited(t) BY <1>13, <1>14, <1>15, <1>16, <1>17 DEF Limited
<1> QED BY <1>18 DEF t

-----------------------------------------------------------------------------
(* The steps keep a store within its limits.                               *)

\* An entry of the queue is written.
LEMMA EntryStays ==
  ASSUME NEW s \in Stores, NEW o \in Owner, NEW e, Limited(s), EntryLimits(e, s.sequence), InQueue(s, o)
  PROVE  Limited([s EXCEPT !.entry[o] = e])
<1> DEFINE t == [s EXCEPT !.entry[o] = e]
<1>1. /\ t.place = s.place /\ t.sequence = s.sequence /\ t.generation = s.generation /\ t.active = s.active
      /\ t.entry[o] = e /\ \A p \in Owner : p # o => t.entry[p] = s.entry[p]
  BY DEF Stores
<1> HIDE DEF t
<1>2. Limited(t) BY <1>1, SameLimits DEF Limited
<1> QED BY <1>2 DEF t

LEMMA HeartbeatStays ==
  ASSUME NEW s \in Stores, NEW o \in Owner, NEW n \in {WaitLease, ActiveLease}, ConstantsAreGood, Limited(s), InQueue(s, o)
  PROVE  Limited([s EXCEPT !.entry[o] = [s.entry[o] EXCEPT !.heartbeat = n]])
<1> DEFINE e == [s.entry[o] EXCEPT !.heartbeat = n]
<1>1. s.entry[o] \in Entries /\ EntryLimits(s.entry[o], s.sequence) /\ WaitLease \in Nat /\ ActiveLease \in Nat
  BY EntryFields DEF Limited, ConstantsAreGood, LeasesArePositive
<1>2. EntryLimits(e, s.sequence) BY <1>1 DEF Entries, EntryLimits
<1> HIDE DEF e
<1>3. Limited([s EXCEPT !.entry[o] = e]) BY <1>2, EntryStays
<1> QED BY <1>3 DEF e

\* accept(): the intent, and the entry at work, of an offer.
LEMMA IntentStays ==
  ASSUME NEW s \in Stores, NEW o \in Owner, ConstantsAreGood, Limited(s), InQueue(s, o), s.entry[o].state = "offered"
  PROVE  Limited(Intent(s, o)) /\ Intent(s, o).generation = s.generation /\ InQueue(Intent(s, o), o)
<1> DEFINE e == [s.entry[o] EXCEPT !.state = "activating", !.claimed = TRUE, !.heartbeat = ActiveLease]
<1>1. s.entry[o] \in Entries /\ EntryLimits(s.entry[o], s.sequence) /\ ActiveLease \in Nat
  BY EntryFields DEF Limited, ConstantsAreGood, LeasesArePositive
<1>2. EntryLimits(e, s.sequence) BY <1>1 DEF Entries, EntryLimits, Waiting
<1>3. Intent(s, o) = [s EXCEPT !.entry[o] = e] BY DEF Intent
<1> HIDE DEF e
<1>4. Limited(Intent(s, o)) BY <1>2, <1>3, EntryStays
<1> QED BY <1>3, <1>4 DEF Stores, InQueue

LEMMA ClaimStays ==
  ASSUME NEW s \in Stores, NEW r \in Resource, NEW id \in Ids, ConstantsAreGood, Limited(s),
         s.generation[r] < MaxGeneration
  PROVE  Limited(Claim(s, r, id))
<1> DEFINE t == Claim(s, r, id)
           a == [id |-> id, left |-> Duration, room |-> Lifetime]
<1>c. Duration \in Nat /\ Lifetime \in Nat /\ Duration <= Lifetime /\ MaxGeneration \in Nat
  BY DEF ConstantsAreGood, LeasesArePositive
<1>1. ClaimLimits(a) BY <1>c DEF ClaimLimits
<1>2. s.generation[r] \in Nat BY ClaimFields
<1>3. /\ t.place = s.place /\ t.sequence = s.sequence /\ t.entry = s.entry
      /\ t.active[r] = a /\ t.generation[r] = s.generation[r] + 1
      /\ \A q \in Resource : q # r => t.active[q] = s.active[q] /\ t.generation[q] = s.generation[q]
  BY DEF Claim, Stores
<1> HIDE DEF t, a
<1>4. \A q \in Resource : t.generation[q] <= MaxGeneration /\ ClaimLimits(t.active[q])
  BY <1>c, <1>1, <1>2, <1>3 DEF Limited
<1>5. Limited(t) BY <1>3, <1>4, SameLimits DEF Limited
<1> QED BY <1>5 DEF t

LEMMA ActivatedStays ==
  ASSUME NEW s \in Stores, NEW o \in Owner, Limited(s), InQueue(s, o), s.entry[o].state # Waiting
  PROVE  Limited(Activated(s, o))
<1> DEFINE e == [s.entry[o] EXCEPT !.state = "active"]
<1>1. s.entry[o] \in Entries /\ EntryLimits(s.entry[o], s.sequence) BY EntryFields DEF Limited
<1>2. EntryLimits(e, s.sequence) BY <1>1 DEF Entries, EntryLimits, Waiting
<1>3. Activated(s, o) = [s EXCEPT !.entry[o] = e] BY DEF Activated
<1> HIDE DEF e
<1> QED BY <1>2, <1>3, EntryStays

\* Claims that are replaced, with the entries as they are.
LEMMA ActiveStays ==
  ASSUME NEW s \in Stores, NEW a, Limited(s), \A r \in Resource : ClaimLimits(a[r])
  PROVE  Limited([s EXCEPT !.active = a])
<1> DEFINE t == [s EXCEPT !.active = a]
<1>1. t.place = s.place /\ t.sequence = s.sequence /\ t.entry = s.entry /\ t.generation = s.generation /\ t.active = a
  BY DEF Stores
<1> HIDE DEF t
<1>2. Limited(t) BY <1>1, SameLimits DEF Limited
<1> QED BY <1>2 DEF t

LEMMA TickStays ==
  ASSUME ConstantsAreGood, store \in Stores, Limited(store), Tick
  PROVE  Limited(store') /\ store'.sequence = store.sequence
<1> DEFINE later(o) == [store.entry[o] EXCEPT !.deadline = Less(@), !.heartbeat = Less(@), !.offer = Less(@)]
           lower(r) == [store.active[r] EXCEPT !.left = Less(@), !.room = Less(@)]
<1>0. store' = [store EXCEPT !.entry = [o \in Owner |-> later(o)], !.active = [r \in Resource |-> lower(r)]]
  BY DEF Tick
<1>c. {WaitLease, OfferLease, ActiveLease, WaitTime, Lifetime} \subseteq Nat BY DEF ConstantsAreGood, LeasesArePositive
<1>l. \A n \in Nat : Less(n) \in Nat /\ Less(n) <= n BY DEF Less
<1>1. ASSUME NEW o \in Owner
      PROVE  EntryLimits(later(o), store.sequence) /\ later(o).state = store.entry[o].state
  <2> DEFINE e == store.entry[o]
  <2>1. e \in Entries /\ EntryLimits(e, store.sequence) BY EntryFields DEF Limited
  <2>2. e.deadline \in Nat /\ e.heartbeat \in Nat /\ e.offer \in Nat BY <2>1 DEF Entries
  <2>3. /\ Less(e.deadline) \in Nat /\ Less(e.deadline) <= e.deadline
        /\ Less(e.heartbeat) \in Nat /\ Less(e.heartbeat) <= e.heartbeat
        /\ Less(e.offer) \in Nat /\ Less(e.offer) <= e.offer
    BY <1>l, <2>2
  <2> DEFINE f == [e EXCEPT !.deadline = Less(e.deadline), !.heartbeat = Less(e.heartbeat), !.offer = Less(e.offer)]
  <2>4. later(o) = f OBVIOUS
  <2> HIDE DEF e
  <2>5. /\ f.state = e.state /\ f.sequence = e.sequence /\ f.offerGeneration = e.offerGeneration
        /\ f.deadline = Less(e.deadline) /\ f.heartbeat = Less(e.heartbeat) /\ f.offer = Less(e.offer)
    BY <2>1 DEF Entries
  <2> HIDE DEF f, later
  <2>6. EntryLimits(f, store.sequence) BY <1>c, <2>1, <2>2, <2>3, <2>5 DEF EntryLimits
  <2> QED BY <2>4, <2>5, <2>6 DEF e
<1>2. ASSUME NEW r \in Resource PROVE ClaimLimits(lower(r))
  <2> DEFINE c == store.active[r]
  <2>1. c \in Claims /\ ClaimLimits(c) /\ c.left \in Nat /\ c.room \in Nat BY ClaimFields DEF Limited
  <2>2. /\ Less(c.left) \in Nat /\ Less(c.left) <= c.left /\ Less(c.room) \in Nat /\ Less(c.room) <= c.room
    BY <1>l, <2>1
  <2>3. lower(r).left = Less(c.left) /\ lower(r).room = Less(c.room) BY <2>1 DEF Claims
  <2> HIDE DEF c, lower
  <2> QED BY <1>c, <2>1, <2>2, <2>3 DEF ClaimLimits
<1>3. /\ store'.place = store.place /\ store'.sequence = store.sequence /\ store'.generation = store.generation
      /\ \A o \in Owner : store'.entry[o] = later(o)
      /\ \A r \in Resource : store'.active[r] = lower(r)
  BY <1>0 DEF Stores
<1> HIDE DEF later, lower
<1> QED BY <1>1, <1>2, <1>3, SameLimits DEF Limited

LEMMA CancelledStays ==
  ASSUME NEW s, NEW c, NEW o \in Owner, ConstantsAreGood, GoodStore(s, c), Limited(s)
  PROVE  Limited(Cancelled(s, o)) /\ Cancelled(s, o).sequence = s.sequence
<1> DEFINE gone == {o} \intersect {p \in Owner : Live(s, p)}
           e == End(s, gone)
<1>1. s \in Stores /\ gone \in SUBSET Owner BY DEF GoodStore
<1> HIDE DEF gone
<1>2. GoodStore(e, c) /\ Limited(e) /\ e.sequence = s.sequence BY <1>1, EndKeeps, EndStays, EndGives DEF ConstantsAreGood
<1> HIDE DEF e
<1>3. Limited(Refresh(e)) /\ Refresh(e).sequence = s.sequence BY <1>2, RefreshStays
<1> QED BY <1>3 DEF Cancelled, e, gone

\* What a step has to keep besides QueueInv.
LEMMA LimitedSteps ==
  ASSUME ConstantsAreGood, LimitsInv, QueueInv', Limited(store'), store'.sequence <= Cardinality(Asked(conn')),
         view' \in Views, answer' \in Vouched
  PROVE  LimitsInv'
BY DEF LimitsInv, Limited, EntryLimits, ClaimLimits, InQueue, Asked, Views, Vouched

\* Who has asked stays one who has, also when it leaves.
LEMMA AskedStays ==
  ASSUME ConstantsAreGood, NEW n \in Nat, NEW c \in Connections, NEW o \in Owner, n <= Cardinality(Asked(c))
  PROVE  n <= Cardinality(Asked([c EXCEPT ![o] = "gone"]))
<1> DEFINE d == [c EXCEPT ![o] = "gone"]
<1>1. Asked(c) \in SUBSET Asked(d) /\ Asked(c) \in SUBSET Owner /\ Asked(d) \in SUBSET Owner BY DEF Asked, Connections
<1> HIDE DEF d
<1>2. IsFiniteSet(Asked(d)) /\ Cardinality(Asked(c)) \in Nat /\ Cardinality(Asked(d)) \in Nat
  BY <1>1, FS_Subset, FS_CardinalityType DEF ConstantsAreGood, OwnersAreFinite
<1>3. Cardinality(Asked(c)) <= Cardinality(Asked(d)) BY <1>1, <1>2, FS_Subset
<1> QED BY <1>2, <1>3 DEF d

\* What a client whose connection is open sees of its request.
LEMMA SeenAreViews ==
  ASSUME NEW s, NEW c \in Connections, NEW o \in Owner, GoodStore(s, c), Limited(s), c[o] = "open", view \in Views,
         Saw(o, s)
  PROVE  view' \in Views
<1>1. s.entry[o].state \in States BY EntryFields DEF GoodStore
<1>2. s.entry[o].state # "activating"
  <2>1. CASE Live(s, o) BY <2>1 DEF GoodStore, Connected
  <2>2. CASE ~Live(s, o) BY <2>2 DEF Live, Limited
  <2> QED BY <2>1, <2>2
<1>3. s.entry[o].state \in {Waiting, "offered", "active", "ended"} BY <1>1, <1>2 DEF States, Reserving
<1> QED BY <1>3 DEF Saw, Views, Waiting

\* The limits of what a transaction finds.
LEMMA FoundIsLimited ==
  ASSUME ConstantsAreGood, LimitsInv
  PROVE  /\ Limited(Refresh(store)) /\ Refresh(store) \in Stores /\ GoodStore(Refresh(store), conn)
         /\ Refresh(store).generation = store.generation /\ Refresh(store).sequence = store.sequence
         /\ \A o \in Owner : InQueue(Refresh(store), o) <=> InQueue(store, o)
         /\ store \in Stores /\ conn \in Connections /\ store.sequence \in Nat
         /\ NoAnswer \in Vouched
<1>1. GoodStore(store, conn) /\ Limited(store) /\ conn \in Connections BY DEF LimitsInv, QueueInv
<1>2. store \in Stores /\ store.sequence \in Nat BY <1>1 DEF GoodStore, Stores
<1>3. NoAnswer \in Vouched BY DEF NoAnswer, Vouched
<1> QED BY <1>1, <1>2, <1>3, RefreshStays, RefreshKeeps DEF ConstantsAreGood

LEMMA SubmitIsLimited ==
  ASSUME ConstantsAreGood, LimitsInv, NEW o \in Owner, Submit(o), QueueInv' PROVE LimitsInv'
<1> DEFINE s == Refresh(store)
           m == Admitted(s, o)
           d == [conn EXCEPT ![o] = "open"]
<1>1. /\ Limited(s) /\ s \in Stores /\ GoodStore(s, conn) /\ s.sequence = store.sequence
      /\ conn \in Connections /\ store.sequence \in Nat /\ conn[o] = "new" /\ answer' \in Vouched
  BY FoundIsLimited DEF Submit
<1>2. view \in Views /\ store.sequence <= Cardinality(Asked(conn)) BY DEF LimitsInv
<1>3. CASE store' = s /\ conn' = conn /\ view' = view BY <1>1, <1>2, <1>3, LimitedSteps
<1>4. CASE store' = Refresh(m) /\ conn' = d /\ Saw(o, store') /\ ~(Cardinality({p \in Owner : Live(s, p)}) >= MaxEntries)
  <2>1. ~InQueue(s, o) BY <1>1 DEF GoodStore, Connected
  <2> HIDE DEF s
  <2>2. GoodStore(m, d) BY <1>1, AdmittedKeeps DEF ConstantsAreGood
  <2>3. Limited(m) /\ m.sequence = s.sequence + 1
    BY <1>1, <1>4, <2>1, AdmittedStays, AdmittedGives DEF ConstantsAreGood
  <2>4. d \in Connections /\ d[o] = "open" BY <1>1 DEF Connections
  <2>5. Cardinality(Asked(d)) = Cardinality(Asked(conn)) + 1 /\ Cardinality(Asked(conn)) \in Nat
    <3>1. Asked(d) = Asked(conn) \union {o} /\ o \notin Asked(conn) /\ Asked(conn) \in SUBSET Owner
      BY <1>1 DEF Asked, Connections
    <3>2. IsFiniteSet(Asked(conn)) BY <3>1, FS_Subset DEF ConstantsAreGood, OwnersAreFinite
    <3> QED BY <3>1, <3>2, FS_AddElement, FS_CardinalityType
  <2> HIDE DEF m, d
  <2>6. Limited(Refresh(m)) /\ Refresh(m).sequence = m.sequence /\ GoodStore(Refresh(m), d)
    BY <2>2, <2>3, RefreshStays, RefreshKeeps DEF ConstantsAreGood
  <2>7. view' \in Views BY <1>2, <1>4, <2>4, <2>6, SeenAreViews
  <2>8. store'.sequence <= Cardinality(Asked(conn')) BY <1>1, <1>2, <1>4, <2>3, <2>5, <2>6
  <2> QED BY <1>1, <1>4, <2>6, <2>7, <2>8, LimitedSteps
<1> QED BY <1>3, <1>4 DEF Submit

\* A step of a connection that is open, but for its request.
LEMMA OpenIsLimited ==
  ASSUME ConstantsAreGood, LimitsInv, NEW o \in Owner, QueueInv',
         Poll(o) \/ Heartbeat(o) \/ Wait(o) \/ Cancel(o) \/ Leave(o) \/ Die(o)
  PROVE  LimitsInv'
<1> DEFINE s == Refresh(store)
           d == [conn EXCEPT ![o] = "gone"]
<1>1. /\ Limited(s) /\ s \in Stores /\ GoodStore(s, conn) /\ s.sequence = store.sequence
      /\ InQueue(s, o) <=> InQueue(store, o)
      /\ conn \in Connections /\ store.sequence \in Nat /\ answer' \in Vouched
  BY FoundIsLimited DEF Poll, Heartbeat, Wait, Cancel, Leave, Die, Stay
<1>2. view \in Views /\ store.sequence <= Cardinality(Asked(conn)) /\ Limited(store) BY DEF LimitsInv
<1>3. store.sequence <= Cardinality(Asked(d)) BY <1>1, <1>2, AskedStays
<1>4. Limited(store') /\ store'.sequence = store.sequence
  <2>1. CASE Poll(o) \/ Wait(o) BY <1>1, <2>1 DEF Poll, Wait
  <2>2. CASE Heartbeat(o)
    <3> DEFINE n == IF s.entry[o].state = "active" THEN ActiveLease ELSE WaitLease
               t == [s EXCEPT !.entry[o] = [s.entry[o] EXCEPT !.heartbeat = n]]
    <3>1. (store' = s \/ store' = t) /\ InQueue(s, o) BY <1>1, <2>2 DEF Heartbeat
    <3>2. n \in {WaitLease, ActiveLease} OBVIOUS
    <3> HIDE DEF n, s
    <3>3. Limited(t) /\ t.sequence = s.sequence BY <1>1, <3>1, <3>2, HeartbeatStays DEF Stores
    <3> HIDE DEF t
    <3> QED BY <1>1, <3>1, <3>3
  <2>3. CASE Cancel(o) \/ Leave(o)
    <3>1. store' = Cancelled(s, o) BY <2>3 DEF Cancel, Leave
    <3> HIDE DEF s
    <3> QED BY <1>1, <3>1, CancelledStays
  <2>4. CASE Die(o) BY <1>2, <2>4 DEF Die
  <2> QED BY <2>1, <2>2, <2>3, <2>4
<1>5. conn' = conn \/ conn' = d BY DEF Poll, Heartbeat, Wait, Cancel, Leave, Die, Stay
<1>6. view' \in Views
  <2>1. CASE Heartbeat(o) \/ Wait(o) \/ Cancel(o)
    <3>1. Saw(o, store') /\ conn' = conn /\ conn[o] = "open" BY <2>1 DEF Heartbeat, Wait, Cancel, Stay
    <3>2. GoodStore(store', conn')
      BY DEF QueueInv, GoodStore, Turns, GoodOffers, Numbers, ClaimsAreQueued, Connected, Live, InQueue, Held
    <3> QED BY <1>1, <1>2, <1>4, <3>1, <3>2, SeenAreViews
  <2>2. CASE Poll(o) \/ Leave(o) \/ Die(o) BY <1>2, <2>2 DEF Poll, Leave, Die
  <2> QED BY <2>1, <2>2
<1> HIDE DEF d
<1>7. store'.sequence <= Cardinality(Asked(conn')) BY <1>2, <1>3, <1>4, <1>5
<1> QED BY <1>1, <1>4, <1>6, <1>7, LimitedSteps

LEMMA AcceptIsLimited ==
  ASSUME ConstantsAreGood, LimitsInv, NEW o \in Owner, QueueInv', Accept(o) \/ AcceptDies(o)
  PROVE  LimitsInv'
<1> DEFINE s == Refresh(store)
           i == Intent(s, o)
           w == Claim(i, Target[o], QueuedId(o))
           d == [conn EXCEPT ![o] = "gone"]
<1>1. /\ Limited(s) /\ s \in Stores /\ GoodStore(s, conn) /\ s.sequence = store.sequence
      /\ s.generation = store.generation /\ InQueue(s, o)
      /\ conn \in Connections /\ store.sequence \in Nat /\ answer' \in Vouched
  BY FoundIsLimited DEF Accept, AcceptDies, Stay
<1>2. view \in Views /\ store.sequence <= Cardinality(Asked(conn)) BY DEF LimitsInv
<1>3. store.sequence <= Cardinality(Asked(d)) BY <1>1, <1>2, AskedStays
<1>g. s.generation[Target[o]] < MaxGeneration /\ Target[o] \in Resource /\ QueuedId(o) \in Ids
  BY <1>1, IdsDiffer DEF Accept, AcceptDies, ConstantsAreGood, TargetsAreResources
<1>w. s.entry[o].state \in {Waiting, "ended"} => s.entry[o].state # "offered" BY DEF Waiting
<1>4. \/ store' = s /\ view' = view /\ conn' = conn
      \/ s.entry[o].state = "offered" /\ conn' = conn /\ store' = Activated(w, o) /\ Saw(o, store') /\ conn[o] = "open"
      \/ s.entry[o].state = "offered" /\ conn' = conn /\ store' = End(i, {o}) /\ view' = view
      \/ s.entry[o].state = "offered" /\ conn' = d /\ (store' = i \/ store' = w) /\ view' = view
  BY DEF Accept, AcceptDies, Stay
<1> HIDE DEF s, d
<1>5. CASE s.entry[o].state = "offered"
  <2>1. /\ i \in Stores /\ i.sequence = s.sequence /\ i.entry[o].state = "activating"
        /\ Limited(i) /\ i.generation = s.generation /\ InQueue(i, o)
    BY <1>1, <1>5, IntentGives, IntentStays
  <2> HIDE DEF i
  <2>2. w \in Stores /\ w.sequence = s.sequence /\ w.entry = i.entry /\ w.place = i.place /\ Limited(w)
    BY <1>g, <2>1, ClaimGives, ClaimStays
  <2> HIDE DEF w
  <2>3. InQueue(w, o) /\ w.entry[o].state # Waiting BY <2>1, <2>2 DEF InQueue, Waiting
  <2>4. Limited(Activated(w, o)) /\ Activated(w, o).sequence = s.sequence
    BY <2>2, <2>3, ActivatedStays, ActivatedGives
  <2>5. Limited(End(i, {o})) /\ End(i, {o}).sequence = s.sequence BY <2>1, EndStays, EndGives
  <2>6. Limited(store') /\ store'.sequence = store.sequence /\ (conn' = conn \/ conn' = d)
    BY <1>1, <1>4, <2>1, <2>2, <2>4, <2>5
  <2>7. CASE Saw(o, store') /\ conn' = conn /\ conn[o] = "open"
    <3>1. GoodStore(store', conn')
      BY DEF QueueInv, GoodStore, Turns, GoodOffers, Numbers, ClaimsAreQueued, Connected, Live, InQueue, Held
    <3>2. view' \in Views BY <1>1, <1>2, <2>6, <2>7, <3>1, SeenAreViews
    <3> QED BY <1>1, <1>2, <2>6, <2>7, <3>2, LimitedSteps
  <2>8. CASE view' = view BY <1>1, <1>2, <1>3, <2>6, <2>8, LimitedSteps
  <2> QED BY <1>1, <1>2, <1>4, <2>7, <2>8, LimitedSteps
<1>6. CASE s.entry[o].state # "offered" BY <1>1, <1>2, <1>4, <1>6, LimitedSteps
<1> QED BY <1>5, <1>6

\* The commands of claims.py, deaths, and time.
LEMMA CommandIsLimited ==
  ASSUME ConstantsAreGood, LimitsInv, QueueInv',
         \/ \E c \in Caller, r \in Resource : LegacyAcquire(c, r)
         \/ \E r \in Resource, id \in Ids : Check(r, id) \/ Renew(r, id) \/ Release(r, id)
         \/ Status \/ RefreshDies \/ Tick
  PROVE  LimitsInv'
<1> DEFINE s == Refresh(store)
<1>1. /\ Limited(s) /\ s \in Stores /\ s.sequence = store.sequence /\ s.generation = store.generation
      /\ conn \in Connections /\ store.sequence \in Nat /\ NoAnswer \in Vouched /\ store \in Stores
  BY FoundIsLimited
<1>2. view \in Views /\ store.sequence <= Cardinality(Asked(conn)) /\ Limited(store) BY DEF LimitsInv
<1>c. ClaimLimits(NoClaim) /\ Duration \in Nat /\ Lifetime \in Nat /\ Duration <= Lifetime
  BY DEF ClaimLimits, NoClaim, ConstantsAreGood, LeasesArePositive
<1> HIDE DEF s
<1>3. conn' = conn /\ view' = view /\ answer' \in Vouched
  <2>1. CASE Tick BY <1>1, <2>1 DEF Tick
  <2>2. CASE Status \/ RefreshDies BY <1>1, <2>2 DEF Status, RefreshDies, Refuses
  <2>3. ASSUME NEW r \in Resource, NEW id \in Ids, Check(r, id) \/ Renew(r, id) \/ Release(r, id)
        PROVE  conn' = conn /\ view' = view /\ answer' \in Vouched
    BY <1>1, <2>3 DEF Check, Renew, Release, Refuses, Answers, Vouched
  <2>4. ASSUME NEW a \in Caller, NEW r \in Resource, LegacyAcquire(a, r)
        PROVE  conn' = conn /\ view' = view /\ answer' \in Vouched
    <3>1. LegacyId(a, s.generation[r] + 1) \in Ids
      <4>1. s.generation[r] \in Nat /\ s.generation[r] < MaxGeneration /\ MaxGeneration \in Nat
        BY <1>1, <2>4, ClaimFields DEF LegacyAcquire, ConstantsAreGood, LeasesArePositive
      <4>2. s.generation[r] + 1 \in 1..MaxGeneration BY <4>1
      <4> QED BY <4>2 DEF Ids
    <3> QED BY <1>1, <2>4, <3>1 DEF LegacyAcquire, Refuses, Answers, Vouched, s
  <2> QED BY <2>1, <2>2, <2>3, <2>4
<1>4. Limited(store') /\ store'.sequence = store.sequence
  <2>1. CASE Tick BY <1>1, <1>2, <2>1, TickStays
  <2>2. CASE Status BY <1>1, <2>2 DEF Status, Refuses, s
  <2>3. CASE RefreshDies
    <3> DEFINE a(R) == [r \in Resource |-> IF r \in R THEN s.active[r] ELSE store.active[r]]
    <3>1. PICK R \in SUBSET Resource : store' = [store EXCEPT !.active = a(R)] BY <2>3 DEF RefreshDies, Refuses, s
    <3>2. \A r \in Resource : ClaimLimits(a(R)[r]) BY <1>1, <1>2 DEF Limited
    <3> HIDE DEF a
    <3>3. Limited([store EXCEPT !.active = a(R)]) BY <1>1, <1>2, <3>2, ActiveStays
    <3> QED BY <1>1, <3>1, <3>3 DEF Stores
  <2>4. ASSUME NEW r \in Resource, NEW id \in Ids, Check(r, id) \/ Renew(r, id) \/ Release(r, id)
        PROVE  Limited(store') /\ store'.sequence = store.sequence
    <3> DEFINE b == [s.active[r] EXCEPT !.left = Least(Duration, s.active[r].room)]
               renewed == [s.active EXCEPT ![r] = b]
               released == [store.active EXCEPT ![r] = NoClaim]
    <3>1. \/ store' = s \/ store' = store
          \/ store' = [s EXCEPT !.active = renewed] \/ store' = [store EXCEPT !.active = released]
      BY <2>4 DEF Check, Renew, Release, Refuses, s
    <3>2. ClaimLimits(b)
      <4>1. s.active[r] \in Claims /\ ClaimLimits(s.active[r]) /\ s.active[r].room \in Nat
        BY <1>1, ClaimFields DEF Limited
      <4>2. b.room = s.active[r].room /\ b.left = Least(Duration, s.active[r].room) BY <4>1 DEF Claims
      <4> HIDE DEF b
      <4> QED BY <1>c, <4>1, <4>2 DEF Least, ClaimLimits
    <3> HIDE DEF b
    <3>3. (\A q \in Resource : ClaimLimits(renewed[q])) /\ \A q \in Resource : ClaimLimits(released[q])
      BY <1>1, <1>2, <1>c, <3>2 DEF Limited, Stores
    <3> HIDE DEF renewed, released
    <3>4. Limited([s EXCEPT !.active = renewed]) /\ Limited([store EXCEPT !.active = released])
      BY <1>1, <1>2, <3>3, ActiveStays
    <3> QED BY <1>1, <1>2, <3>1, <3>4 DEF Stores
  <2>5. ASSUME NEW a \in Caller, NEW r \in Resource, LegacyAcquire(a, r)
        PROVE  Limited(store') /\ store'.sequence = store.sequence
    <3>1. s.generation[r] \in Nat /\ s.generation[r] < MaxGeneration /\ MaxGeneration \in Nat
      BY <1>1, <2>5, ClaimFields DEF LegacyAcquire, ConstantsAreGood, LeasesArePositive
    <3> DEFINE id == LegacyId(a, s.generation[r] + 1)
    <3>2. id \in Ids
      <4>1. s.generation[r] + 1 \in 1..MaxGeneration BY <3>1
      <4> QED BY <4>1 DEF Ids
    <3>3. store' = s \/ store' = Claim(s, r, id) BY <2>5 DEF LegacyAcquire, Refuses, s
    <3> HIDE DEF id
    <3> QED BY <1>1, <3>1, <3>2, <3>3, ClaimStays, ClaimGives
  <2> QED BY <2>1, <2>2, <2>3, <2>4, <2>5
<1> QED BY <1>2, <1>3, <1>4, LimitedSteps

\* LimitsInv is inductive.
LEMMA LimitsAreKept == ASSUME ConstantsAreGood PROVE QueueSpec => []LimitsInv
<1>1. ASSUME QueueInit PROVE LimitsInv
  <2>1. QueueInv BY <1>1, QueueStarts
  <2>c. {WaitLease, OfferLease, ActiveLease, WaitTime, Lifetime, MaxEntries, MaxGeneration} \subseteq Nat
    BY DEF ConstantsAreGood, LeasesArePositive
  <2>2. EntryLimits(NoEntry, 0) /\ ClaimLimits(NoClaim) BY <2>c DEF EntryLimits, NoEntry, ClaimLimits, NoClaim, Waiting
  <2>3. Limited(store)
    <3>1. /\ \A o \in Owner : store.entry[o] = NoEntry /\ store.place[o] = 0
          /\ \A r \in Resource : store.generation[r] = 0 /\ store.active[r] = NoClaim
          /\ store.sequence = 0
      BY <1>1 DEF QueueInit
    <3> QED BY <2>c, <2>2, <3>1 DEF Limited, InQueue, NoEntry
  <2>4. store.sequence <= Cardinality(Asked(conn))
    <3>1. store.sequence = 0 BY <1>1 DEF QueueInit
    <3>2. Asked(conn) \in SUBSET Owner BY DEF Asked
    <3> QED BY <3>1, <3>2, CountsAreNatural DEF ConstantsAreGood
  <2>5. view \in Views /\ answer \in Vouched BY <1>1 DEF QueueInit, Views, Vouched, NoAnswer
  <2> QED BY <2>1, <2>3, <2>4, <2>5 DEF LimitsInv
<1>2. ASSUME LimitsInv, [QueueNext]_queueVars PROVE LimitsInv'
  <2>1. QueueInv' BY <1>2, QueueSteps DEF LimitsInv
  <2>2. CASE \E o \in Owner : Connection(o)
    BY <1>2, <2>1, <2>2, SubmitIsLimited, OpenIsLimited, AcceptIsLimited DEF Connection
  <2>3. CASE \/ \E c \in Caller, r \in Resource : LegacyAcquire(c, r)
             \/ \E r \in Resource, id \in Ids : Check(r, id) \/ Renew(r, id) \/ Release(r, id)
             \/ Status \/ RefreshDies \/ Tick
    BY <1>2, <2>1, <2>3, CommandIsLimited
  <2>4. CASE UNCHANGED queueVars
    <3>1. LimitsInv BY <1>2
    <3> QED BY <2>1, <2>4, <3>1, LimitedSteps DEF queueVars, LimitsInv
  <2> QED BY <1>2, <2>2, <2>3, <2>4 DEF QueueNext
<1> QED BY <1>1, <1>2, PTL DEF QueueSpec

\* The queue never has more entries than it may, no two of them in one place;
\* a number given out is of one submission; no lease is longer than it was
\* given (admission.py, claims.py).
THEOREM QueueTypesAreKept == ASSUME ConstantsAreGood PROVE QueueSpec => []QueueTypeOK
BY LimitsAreTypes, LimitsAreKept, PTL
=============================================================================
