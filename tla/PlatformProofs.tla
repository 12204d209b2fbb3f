--------------------------- MODULE PlatformProofs ---------------------------
(***************************************************************************)
(* Theorems about parts that run beside the policies: the browser          *)
(* transports of the Linux resident (LinuxBrowser), its desktop work       *)
(* (LinuxResident) and sharing (LinuxPortal), the workspaces and the       *)
(* factory candidates of libvirt (LibvirtWorkspace, DomainFactory), and    *)
(* the lease of a headset (QuestLease).                                    *)
(*                                                                         *)
(* Hardly any of the properties is inductive. An audit stays honest        *)
(* because a doubt about an open one is a doubt about its authority, which *)
(* is used, and so not given out again, and is gone or revoked for good; a *)
(* stale frame stops because nothing makes it wanted again, so that a      *)
(* writer who sent a chunk of it does not look at it twice (BrowserInv). A *)
(* workspace is not lost because each stage of an operation knows what     *)
(* exists of it (WorkspaceInv). What a lease of a headset changed can be   *)
(* put back because every copy of what to put back, on the headset or in   *)
(* an invocation, is what the user chose, and because a journal is removed *)
(* only by one that has put everything back (QuestInv). A candidate keeps  *)
(* its volumes because what is being taken away, one volume after the      *)
(* other, was let go by its maker, even when the domain of its name is     *)
(* another's by then (DomainInv). A screen stream keeps an owner because   *)
(* the portal shows one only while the media thread is idle (PortalInv).   *)
(* Late preflight is fenced because what the resident has seen of the      *)
(* session is never behind who has it, so that a ticket whose authority    *)
(* was confirmed is cancelled when anybody else is given it (ResidentInv). *)
(***************************************************************************)
EXTENDS LinuxBrowser, LibvirtWorkspace, QuestLease, DomainFactory, LinuxPortal, LinuxResident, TLAPS

-----------------------------------------------------------------------------
(* The browser transports.                                                 *)

Permits == [generation : Nat, live : BOOLEAN, revoked : BOOLEAN]
Frames == [by : SUBSET Authority, generation : Nat]
Peers == [at : {"absent", "new", "attaching", "attached", "refused", "closed"},
          queue : Seq(Frames), sending : Seq(Frames), offset : Nat, writer : BOOLEAN,
          looked : BOOLEAN, torn : BOOLEAN, begun : {0, 1}, late : Nat]
Audits == [at : {"none", "open", "confirmed", "unknown"}, by : Authority, doubted : BOOLEAN]

Accesses == [generation : Nat \ {0}, stopped : BOOLEAN, alive : BOOLEAN, inhibit : BOOLEAN]

BrowserShape ==
  /\ access \in Accesses
  /\ peer \in [Peer -> Peers]
  /\ authority \in [Authority -> Permits]
  /\ audit \in [Audit -> Audits]

\* A doubt about an open audit is one about its authority: that has been used,
\* so that it is not given out again, and is gone or revoked for good.
AuditSound(u) ==
  LET a == authority[audit[u].by] IN
  /\ audit[u].at = "open" => a.generation # 0
  /\ audit[u].at = "open" /\ audit[u].doubted => ~a.live \/ a.revoked
  /\ audit[u].at = "confirmed" => ~audit[u].doubted

\* No frame is newer than access is, and what nobody wants stays unwanted.
OldIn(f, x) == f.generation <= x.generation
UnwantedIn(f, x, m) == f.generation # x.generation \/ \E a \in f.by : m[a].revoked

\* What a writer is at: a frame it looked at, none after half a frame, and none
\* that it is to go on with after a chunk nobody wanted.
WriterSound(q, x, m) ==
  /\ \A i \in 1..Len(q.queue) : OldIn(q.queue[i], x)
  /\ q.sending # <<>> => Len(q.sending) = 1 /\ OldIn(q.sending[1], x)
  /\ q.looked => q.sending # <<>>
  /\ q.torn => ~q.writer
  /\ q.late \in {0, 1}
  /\ q.late = 1 /\ q.sending # <<>> => ~q.looked /\ UnwantedIn(q.sending[1], x, m)

AuditsSound == \A u \in Audit : AuditSound(u)
WritersSound == \A p \in Peer : WriterSound(peer[p], access, authority)
BrowserInv == BrowserShape /\ AuditsSound /\ WritersSound

-----------------------------------------------------------------------------

LEMMA BrowserStarts == ASSUME AuthoritiesExist, BrowserInit PROVE BrowserInv
<1>1. (CHOOSE a \in Authority : TRUE) \in Authority BY DEF AuthoritiesExist
<1>2. Absent \in Peers BY DEF Absent, Peers
<1>3. BrowserShape BY <1>1, <1>2 DEF BrowserInit, BrowserShape, Accesses, NoAuthority, Permits, Audits
<1>4. AuditsSound BY DEF BrowserInit, AuditsSound, AuditSound
<1>5. WritersSound BY DEF BrowserInit, WritersSound, WriterSound, Absent
<1> QED BY <1>3, <1>4, <1>5 DEF BrowserInv

\* Generations grow, and an authority that was revoked stays so.
Ages ==
  /\ access'.generation >= access.generation
  /\ \A a \in Authority : authority[a].revoked => authority'[a].revoked

LEMMA WritersAge ==
  ASSUME BrowserShape, BrowserShape', Ages, NEW q \in Peers, WriterSound(q, access, authority)
  PROVE  WriterSound(q, access', authority')
<1>1. access.generation \in Nat /\ access'.generation \in Nat BY DEF BrowserShape, Accesses
<1>2. ASSUME NEW f \in Frames, OldIn(f, access)
      PROVE  OldIn(f, access') /\ (UnwantedIn(f, access, authority) => UnwantedIn(f, access', authority'))
  <2>1. f.generation \in Nat /\ f.by \subseteq Authority BY DEF Frames
  <2> QED BY <1>1, <1>2, <2>1 DEF OldIn, UnwantedIn, Ages
<1>3. \A i \in 1..Len(q.queue) : q.queue[i] \in Frames BY DEF Peers
<1>4. q.sending # <<>> => q.sending[1] \in Frames BY DEF Peers, WriterSound
<1> QED BY <1>2, <1>3, <1>4 DEF WriterSound

\* A step of the scheduler leaves a peer to its writer, or closes it.
LEMMA PeersWait ==
  ASSUME BrowserInv, BrowserShape', Ages,
         \A p \in Peer : peer'[p] = peer[p] \/ peer'[p] = [peer[p] EXCEPT !.at = "closed"]
  PROVE  WritersSound'
<1> SUFFICES ASSUME NEW p \in Peer PROVE WriterSound(peer'[p], access', authority') BY DEF WritersSound
<1>1. WriterSound(peer[p], access, authority) /\ peer[p] \in Peers /\ BrowserShape
  BY DEF BrowserInv, WritersSound, BrowserShape
<1>2. WriterSound(peer[p], access', authority') BY <1>1, WritersAge
<1>3. CASE peer'[p] = peer[p] BY <1>2, <1>3
<1>4. CASE peer'[p] = [peer[p] EXCEPT !.at = "closed"] BY <1>1, <1>2, <1>4 DEF WriterSound, Peers
<1> QED BY <1>3, <1>4

\* A step of the writer changes its own peer.
LEMMA OneWrites ==
  ASSUME BrowserInv, NEW p \in Peer, NEW q \in Peers, peer' = [peer EXCEPT ![p] = q],
         UNCHANGED <<access, authority, audit>>, WriterSound(q, access, authority)
  PROVE  BrowserInv'
<1>1. \A r \in Peer : peer'[r] = IF r = p THEN q ELSE peer[r] BY DEF BrowserInv, BrowserShape
<1>2. BrowserShape' BY DEF BrowserInv, BrowserShape
<1>3. WritersSound' BY <1>1 DEF BrowserInv, WritersSound
<1>4. AuditsSound' BY DEF BrowserInv, AuditsSound, AuditSound
<1> QED BY <1>2, <1>3, <1>4 DEF BrowserInv

\* What becomes of authorities and audits together.
LEMMA AuthoritiesGo ==
  ASSUME BrowserInv, BrowserShape', Ages,
         \A a \in Authority : authority[a].generation # 0 =>
           authority'[a].generation # 0 /\ (~authority[a].live => ~authority'[a].live),
         \A u \in Audit : \/ audit'[u] = audit[u]
                          \/ audit'[u].at \notin {"open", "confirmed"}
                          \/ /\ audit[u].at = "open" /\ audit'[u].at = "open" /\ audit'[u].by = audit[u].by
                             /\ ~authority'[audit[u].by].live \/ authority'[audit[u].by].revoked
  PROVE  AuditsSound'
<1> SUFFICES ASSUME NEW u \in Audit PROVE AuditSound(u)' BY DEF AuditsSound
<1>1. AuditSound(u) /\ audit[u].by \in Authority BY DEF BrowserInv, AuditsSound, BrowserShape, Audits
<1>2. CASE audit'[u] = audit[u] BY <1>1, <1>2 DEF AuditSound, Ages
<1>3. CASE audit'[u].at \notin {"open", "confirmed"} BY <1>3 DEF AuditSound
<1>4. CASE /\ audit[u].at = "open" /\ audit'[u].at = "open" /\ audit'[u].by = audit[u].by
           /\ ~authority'[audit[u].by].live \/ authority'[audit[u].by].revoked
  BY <1>1, <1>4 DEF AuditSound
<1> QED BY <1>2, <1>3, <1>4

\* Every authority of access ends, as invalidate() does it.
LEMMA InvalidatedGives ==
  ASSUME BrowserInv, Invalidated, access'.generation >= access.generation
  PROVE  /\ authority' \in [Authority -> Permits] /\ audit' \in [Audit -> Audits]
         /\ Ages
         /\ \A a \in Authority : authority[a].generation # 0 =>
              authority'[a].generation # 0 /\ (~authority[a].live => ~authority'[a].live)
         /\ \A u \in Audit : audit'[u] = audit[u] \/ audit'[u].at \notin {"open", "confirmed"}
<1>1. authority \in [Authority -> Permits] /\ audit \in [Audit -> Audits] BY DEF BrowserInv, BrowserShape
<1>2. \A a \in Authority : /\ authority'[a] \in Permits /\ authority'[a].generation = authority[a].generation
                           /\ authority[a].revoked => authority'[a].revoked
                           /\ ~authority[a].live => ~authority'[a].live
  BY <1>1 DEF Invalidated, Permits
<1>3. \A u \in Audit : /\ audit'[u] \in Audits
                       /\ audit'[u] = audit[u] \/ audit'[u].at = "unknown"
  BY <1>1 DEF Invalidated, Audits
<1>4. authority' \in [Authority -> Permits] /\ audit' \in [Audit -> Audits]
  BY <1>2, <1>3 DEF Invalidated
<1> QED BY <1>2, <1>3, <1>4 DEF Ages

\* The doubts of a revocation.
LEMMA DoubtGives ==
  ASSUME BrowserInv, NEW as \in SUBSET Authority, audit' = Doubt(as)
  PROVE  /\ audit' \in [Audit -> Audits]
         /\ \A u \in Audit : \/ audit'[u] = audit[u]
                             \/ /\ audit[u].at = "open" /\ audit'[u].at = "open" /\ audit'[u].by = audit[u].by
                                /\ audit[u].by \in as
<1>1. audit \in [Audit -> Audits] BY DEF BrowserInv, BrowserShape
<1>2. \A u \in Audit : /\ audit'[u] \in Audits
                       /\ \/ audit'[u] = audit[u]
                          \/ /\ audit[u].at = "open" /\ audit'[u].at = "open" /\ audit'[u].by = audit[u].by
                             /\ audit[u].by \in as
  BY <1>1 DEF Doubt, Open, Audits
<1> QED BY <1>2 DEF Doubt

LEMMA AccessesStay ==
  ASSUME NEW x \in Accesses, NEW s \in BOOLEAN, NEW l \in BOOLEAN, NEW i \in BOOLEAN,
         NEW y, y = [x EXCEPT !.generation = @ + 1, !.stopped = s, !.alive = l, !.inhibit = i]
  PROVE  y \in Accesses /\ y.generation >= x.generation
<1>1. x.generation \in Nat /\ x.generation # 0 BY DEF Accesses
<1>2. x.generation + 1 \in Nat \ {0} /\ x.generation + 1 >= x.generation BY <1>1
<1>3. y = [generation |-> x.generation + 1, stopped |-> s, alive |-> l, inhibit |-> i] BY DEF Accesses
<1> QED BY <1>2, <1>3 DEF Accesses

LEMMA FencesStay ==
  ASSUME NEW x \in Accesses, NEW y, y = [x EXCEPT !.inhibit = TRUE]
  PROVE  y \in Accesses /\ y.generation >= x.generation
<1>1. y.generation = x.generation /\ x.generation \in Nat BY DEF Accesses
<1>2. y \in Accesses BY DEF Accesses
<1> QED BY <1>1, <1>2

LEMMA AccessSteps ==
  ASSUME BrowserInv, Configure \/ Fence \/ PolicyDies PROVE BrowserInv'
<1>0. BrowserShape BY DEF BrowserInv
<1>1. CASE Configure \/ PolicyDies
  <2>1. access' \in Accesses /\ access'.generation >= access.generation
    <3>1. access \in Accesses /\ access.stopped \in BOOLEAN /\ access.alive \in BOOLEAN /\ access.inhibit \in BOOLEAN
      BY <1>0 DEF BrowserShape, Accesses
    <3>2. PICK s \in BOOLEAN, l \in BOOLEAN, i \in BOOLEAN :
            access' = [access EXCEPT !.generation = @ + 1, !.stopped = s, !.alive = l, !.inhibit = i]
      <4>1. CASE Configure
        <5>1. PICK s \in BOOLEAN : access' = [access EXCEPT !.generation = @ + 1, !.stopped = s,
                                                           !.inhibit = IF s THEN @ ELSE FALSE]
          BY <4>1 DEF Configure
        <5>2. access' = [access EXCEPT !.generation = @ + 1, !.stopped = s, !.alive = access.alive,
                                       !.inhibit = IF s THEN access.inhibit ELSE FALSE]
          BY <3>1, <5>1 DEF Accesses
        <5>3. (IF s THEN access.inhibit ELSE FALSE) \in BOOLEAN BY <3>1
        <5> QED BY <3>1, <5>2, <5>3
      <4>2. CASE PolicyDies
        <5>1. access' = [access EXCEPT !.generation = @ + 1, !.stopped = access.stopped, !.alive = FALSE, !.inhibit = TRUE]
          BY <3>1, <4>2 DEF Accesses, PolicyDies
        <5> QED BY <3>1, <5>1
      <4> QED BY <1>1, <4>1, <4>2
    <3> QED BY <3>1, <3>2, AccessesStay
  <2>2. Invalidated BY <1>1 DEF Configure, PolicyDies
  <2>3. \A p \in Peer : peer'[p] = peer[p] \/ peer'[p] = [peer[p] EXCEPT !.at = "closed"]
    BY <1>0, <1>1 DEF Configure, PolicyDies, BrowserShape
  <2>4. peer' \in [Peer -> Peers]
    <3>1. \A p \in Peer : peer[p] \in Peers /\ [peer[p] EXCEPT !.at = "closed"] \in Peers
      BY <1>0 DEF BrowserShape, Peers
    <3>2. peer' = peer \/ peer' = [p \in Peer |-> IF Closed(p) THEN peer[p] ELSE [peer[p] EXCEPT !.at = "closed"]]
      BY <1>1 DEF Configure, PolicyDies
    <3> QED BY <1>0, <3>1, <3>2 DEF BrowserShape
  <2>5. BrowserShape' BY <2>1, <2>2, <2>4, InvalidatedGives DEF BrowserShape
  <2>6. AuditsSound' BY <2>1, <2>2, <2>5, InvalidatedGives, AuthoritiesGo
  <2>7. WritersSound' BY <2>1, <2>2, <2>3, <2>5, InvalidatedGives, PeersWait
  <2> QED BY <2>5, <2>6, <2>7 DEF BrowserInv
<1>2. CASE Fence
  <2>1. access' \in Accesses /\ access'.generation >= access.generation
    <3>1. access \in Accesses
      BY <1>0 DEF BrowserShape, Accesses
    <3>2. access' = [access EXCEPT !.inhibit = TRUE] BY <1>2 DEF Fence
    <3> QED BY <3>1, <3>2, FencesStay
  <2>2. \A a \in Authority : /\ authority'[a] \in Permits /\ authority'[a].generation = authority[a].generation
                             /\ authority[a].revoked => authority'[a].revoked
                             /\ authority'[a].live = authority[a].live
                             /\ ~authority'[a].live \/ authority'[a].revoked
    <3>1. \A a \in Authority : authority[a] \in Permits BY <1>0 DEF BrowserShape
    <3> QED BY <1>2, <3>1 DEF Fence, Permits
  <2>3. audit' \in [Audit -> Audits]
        /\ \A u \in Audit : \/ audit'[u] = audit[u]
                            \/ /\ audit[u].at = "open" /\ audit'[u].at = "open" /\ audit'[u].by = audit[u].by
                               /\ audit[u].by \in Authority
    BY <1>2, DoubtGives DEF Fence
  <2>4. authority' \in [Authority -> Permits] BY <2>2, <1>2 DEF Fence
  <2>5. BrowserShape' BY <1>0, <1>2, <2>1, <2>3, <2>4 DEF BrowserShape, Fence
  <2>6. Ages BY <2>1, <2>2 DEF Ages
  <2>7. AuditsSound' BY <2>2, <2>3, <2>5, <2>6, AuthoritiesGo
  <2>8. WritersSound' BY <1>2, <2>5, <2>6, PeersWait DEF Fence
  <2> QED BY <2>5, <2>7, <2>8 DEF BrowserInv
<1> QED BY <1>1, <1>2

LEMMA AuthoritySteps ==
  ASSUME BrowserInv, CancelInvalid \/ \E a \in Authority : Yielded(a) \/ Execute(a) \/ Completed(a)
  PROVE  BrowserInv'
<1>0. BrowserShape BY DEF BrowserInv
<1>p. \A a \in Authority : authority[a] \in Permits BY <1>0 DEF BrowserShape
<1>1. CASE CancelInvalid
  <2>1. \A a \in Authority : /\ authority'[a] \in Permits /\ authority'[a].generation = authority[a].generation
                             /\ authority[a].revoked => authority'[a].revoked
                             /\ ~authority[a].live => ~authority'[a].live
    BY <1>p, <1>1 DEF CancelInvalid, Permits
  <2>2. authority' \in [Authority -> Permits] BY <2>1, <1>1 DEF CancelInvalid
  <2>3. BrowserShape' /\ Ages
    <3>1. access.generation \in Nat /\ UNCHANGED <<access, peer, audit>>
      BY <1>0, <1>1 DEF BrowserShape, CancelInvalid, Accesses
    <3> QED BY <1>0, <2>1, <2>2, <3>1 DEF BrowserShape, Ages
  <2>4. AuditsSound' BY <1>1, <2>1, <2>3, AuthoritiesGo DEF CancelInvalid
  <2>5. WritersSound' BY <1>1, <2>3, PeersWait DEF CancelInvalid
  <2> QED BY <2>3, <2>4, <2>5 DEF BrowserInv
<1>2. ASSUME NEW a \in Authority, Yielded(a) \/ Completed(a) PROVE BrowserInv'
  <2>1. \A b \in Authority : /\ authority'[b] \in Permits /\ authority'[b].generation = authority[b].generation
                             /\ authority[b].revoked => authority'[b].revoked
                             /\ ~authority[b].live => ~authority'[b].live
                             /\ b = a => ~authority'[b].live
    <3>1. PICK revoked \in BOOLEAN :
            /\ authority[a].revoked => revoked
            /\ authority' = [authority EXCEPT ![a] = [authority[a] EXCEPT !.live = FALSE, !.revoked = revoked]]
      <4>1. CASE Yielded(a) BY <4>1 DEF Yielded
      <4>2. CASE Completed(a)
        <5>1. authority[a].revoked \in BOOLEAN
              /\ [authority[a] EXCEPT !.live = FALSE]
                   = [authority[a] EXCEPT !.live = FALSE, !.revoked = authority[a].revoked]
          BY <1>p DEF Permits
        <5> QED BY <4>2, <5>1 DEF Completed
      <4> QED BY <1>2, <4>1, <4>2
    <3> DEFINE n == [authority[a] EXCEPT !.live = FALSE, !.revoked = revoked]
    <3>2. n \in Permits /\ n.generation = authority[a].generation /\ ~n.live /\ n.revoked = revoked
      BY <1>p DEF Permits
    <3>3. authority'[a] = n /\ \A b \in Authority : b # a => authority'[b] = authority[b]
      <4>1. authority \in [Authority -> Permits] /\ authority' = [authority EXCEPT ![a] = n]
        BY <1>0, <3>1 DEF BrowserShape
      <4> HIDE DEF n
      <4> QED BY <4>1
    <3> HIDE DEF n
    <3> QED BY <1>p, <3>1, <3>2, <3>3
  <2>2. authority' \in [Authority -> Permits] BY <1>0, <1>2, <2>1 DEF Yielded, Completed, BrowserShape
  <2>3. audit' \in [Audit -> Audits]
        /\ \A u \in Audit : \/ audit'[u] = audit[u]
                            \/ /\ audit[u].at = "open" /\ audit'[u].at = "open" /\ audit'[u].by = audit[u].by
                               /\ audit[u].by \in {a}
    <3>1. {a} \in SUBSET Authority /\ audit' = Doubt({a}) BY <1>2 DEF Yielded, Completed
    <3> QED BY <3>1, DoubtGives
  <2>4. BrowserShape' /\ Ages
    <3>1. access.generation \in Nat /\ UNCHANGED <<access, peer>>
      BY <1>0, <1>2 DEF BrowserShape, Yielded, Completed, Accesses
    <3> QED BY <1>0, <2>1, <2>2, <2>3, <3>1 DEF BrowserShape, Ages
  <2>5. AuditsSound' BY <2>1, <2>3, <2>4, AuthoritiesGo
  <2>6. WritersSound' BY <1>2, <2>4, PeersWait DEF Yielded, Completed
  <2> QED BY <2>4, <2>5, <2>6 DEF BrowserInv
<1>3. ASSUME NEW a \in Authority, Execute(a) PROVE BrowserInv'
  <2>1. authority[a].generation = 0 /\ ~authority[a].revoked BY <1>3 DEF Execute, NoAuthority
  <2>2. [generation |-> access.generation, live |-> TRUE, revoked |-> FALSE] \in Permits
    BY <1>0 DEF BrowserShape, Permits, Accesses
  <2>3. authority' \in [Authority -> Permits] /\ \A b \in Authority : b # a => authority'[b] = authority[b]
    BY <1>0, <1>3, <2>2 DEF Execute, BrowserShape
  <2>4. BrowserShape' /\ Ages
    <3>1. access.generation \in Nat /\ UNCHANGED <<access, peer, audit>>
      BY <1>0, <1>3 DEF BrowserShape, Execute, Accesses
    <3> QED BY <1>0, <2>1, <2>3, <3>1 DEF BrowserShape, Ages
  <2>5. AuditsSound' BY <1>3, <2>1, <2>3, <2>4, AuthoritiesGo DEF Execute
  <2>6. WritersSound' BY <1>3, <2>4, PeersWait DEF Execute
  <2> QED BY <2>4, <2>5, <2>6 DEF BrowserInv
<1> QED BY <1>1, <1>2, <1>3

LEMMA AuditSteps ==
  ASSUME BrowserInv, NEW u \in Audit, AuditResult(u) \/ \E a \in Authority : AuditBegins(u, a)
  PROVE  BrowserInv'
<1>0. BrowserShape /\ AuditSound(u) /\ audit[u] \in Audits /\ UNCHANGED <<access, peer, authority>>
  BY DEF BrowserInv, AuditsSound, BrowserShape, AuditResult, AuditBegins
<1>w. WritersSound' BY <1>0 DEF BrowserInv, WritersSound
<1>1. ASSUME NEW n \in Audits, audit' = [audit EXCEPT ![u] = n],
             n.at = "open" => authority[n.by].generation # 0 /\ ~n.doubted,
             n.at = "confirmed" => ~n.doubted
      PROVE  BrowserInv'
  <2>1. audit'[u] = n /\ \A v \in Audit : v # u => audit'[v] = audit[v] BY <1>0, <1>1 DEF BrowserShape
  <2>2. BrowserShape' BY <1>0, <1>1 DEF BrowserShape
  <2>3. AuditsSound' BY <1>0, <1>1, <2>1 DEF BrowserInv, AuditsSound, AuditSound
  <2> QED BY <1>w, <2>2, <2>3 DEF BrowserInv
<1>2. CASE AuditResult(u)
  <2>1. PICK delivered \in BOOLEAN : audit' = Ended(u, Confirmed(u, delivered)) BY <1>2 DEF AuditResult
  <2> DEFINE n == [audit[u] EXCEPT !.at = IF Confirmed(u, delivered) THEN "confirmed" ELSE "unknown"]
  <2>2. n \in Audits /\ n.doubted = audit[u].doubted /\ n.at \in {"confirmed", "unknown"}
        /\ (n.at = "confirmed" => Confirmed(u, delivered))
    BY <1>0 DEF Audits
  <2>3. n.at = "confirmed" => ~n.doubted
    BY <1>0, <1>2, <2>2 DEF Confirmed, Valid, AuditSound, AuditResult, Open
  <2>4. audit' = [audit EXCEPT ![u] = n] BY <1>0, <2>1 DEF Ended, BrowserShape
  <2> HIDE DEF n
  <2> QED BY <1>1, <2>2, <2>3, <2>4
<1>3. ASSUME NEW a \in Authority, AuditBegins(u, a) PROVE BrowserInv'
  <2> DEFINE n == [at |-> "open", by |-> a, doubted |-> FALSE]
  <2>1. authority[a].generation # 0 BY <1>0, <1>3 DEF AuditBegins, Valid, BrowserShape, Accesses
  <2>2. n \in Audits /\ n.at = "open" /\ n.by = a /\ ~n.doubted BY DEF Audits
  <2>3. CASE audit' = audit
    BY <1>0, <1>w, <2>3 DEF BrowserInv, BrowserShape, AuditsSound, AuditSound
  <2>4. CASE audit' = [audit EXCEPT ![u] = n]
    <3> HIDE DEF n
    <3> QED BY <1>1, <2>1, <2>2, <2>4
  <2> QED BY <1>3, <2>3, <2>4 DEF AuditBegins
<1> QED BY <1>2, <1>3

\* What the writer of a peer, and the scheduler for it, may do.
LEMMA PeerSteps ==
  ASSUME BrowserInv, NEW p \in Peer,
         Register(p) \/ Attach(p) \/ Attached(p) \/ Enqueue(p) \/ Disconnect(p)
           \/ Take(p) \/ Look(p) \/ Send(p) \/ LeaveOut(p) \/ WriterEnds(p)
  PROVE  BrowserInv' /\ (peer[p].torn => peer'[p].begun = peer[p].begun)
                     /\ \A q \in Peer : q # p => peer'[q] = peer[q]
<1> DEFINE q == peer[p]
           Kept(n) == q.torn => n.begun = q.begun
<1>0. /\ BrowserShape /\ q \in Peers /\ WriterSound(q, access, authority)
      /\ UNCHANGED <<access, authority, audit>>
  BY DEF BrowserInv, WritersSound, BrowserShape, Register, Attach, Attached, Enqueue, Disconnect, Take, Look, Send,
         LeaveOut, WriterEnds
<1>1. ASSUME NEW n \in Peers, peer' = [peer EXCEPT ![p] = n], WriterSound(n, access, authority), Kept(n)
      PROVE  BrowserInv' /\ (q.torn => peer'[p].begun = q.begun) /\ \A r \in Peer : r # p => peer'[r] = peer[r]
  BY <1>0, <1>1, OneWrites DEF BrowserShape
<1>2. CASE Register(p)
  <2> DEFINE n == [Absent EXCEPT !.at = "new", !.writer = TRUE]
  <2>1. n \in Peers /\ WriterSound(n, access, authority) /\ ~n.torn /\ n.begun = 0
    <3>1. Absent \in Peers BY DEF Absent, Peers
    <3>2. n \in Peers /\ n.queue = Absent.queue /\ n.sending = Absent.sending /\ n.looked = Absent.looked
          /\ n.torn = Absent.torn /\ n.late = Absent.late /\ n.begun = Absent.begun
      BY <3>1 DEF Peers
    <3> HIDE DEF n
    <3>3. n.queue = <<>> /\ n.sending = <<>> /\ ~n.looked /\ ~n.torn /\ n.late = 0 /\ n.begun = 0
      BY <3>2 DEF Absent
    <3> QED BY <3>2, <3>3 DEF WriterSound
  <2>2. q = Absent /\ q.begun = 0 BY <1>2 DEF Register, Absent
  <2>3. peer' = [peer EXCEPT ![p] = n] BY <1>0, <1>2, <2>2 DEF Register, BrowserShape
  <2> HIDE DEF n
  <2> QED BY <1>1, <2>1, <2>2, <2>3
<1>3. CASE Attach(p) \/ Attached(p) \/ Disconnect(p)
  <2>1. PICK at \in {"attaching", "attached", "refused", "closed"} : peer' = [peer EXCEPT ![p] = [q EXCEPT !.at = at]]
    BY <1>0, <1>3 DEF Attach, Attached, Disconnect, BrowserShape
  <2> DEFINE n == [q EXCEPT !.at = at]
  <2>2. n \in Peers /\ WriterSound(n, access, authority) /\ n.begun = q.begun BY <1>0 DEF Peers, WriterSound
  <2> QED BY <1>1, <2>1, <2>2
<1>4. CASE Enqueue(p)
  <2>1. PICK by \in {{}} \cup {{a} : a \in {b \in Authority : Valid(b)}} :
          peer' = [peer EXCEPT ![p].queue = Append(@, [by |-> by, generation |-> access.generation])]
    BY <1>4 DEF Enqueue
  <2> DEFINE f == [by |-> by, generation |-> access.generation]
             n == [q EXCEPT !.queue = Append(q.queue, f)]
  <2>2. f \in Frames /\ OldIn(f, access) BY <1>0 DEF Frames, OldIn, BrowserShape, Accesses
  <2> HIDE DEF f
  <2>3. Append(q.queue, f) \in Seq(Frames) /\ \A i \in 1..Len(Append(q.queue, f)) : OldIn(Append(q.queue, f)[i], access)
    <3>1. q.queue \in Seq(Frames) BY <1>0 DEF Peers
    <3>2. \A i \in 1..Len(q.queue) : OldIn(q.queue[i], access) BY <1>0 DEF WriterSound
    <3> QED BY <2>2, <3>1, <3>2
  <2>4. n \in Peers /\ n.queue = Append(q.queue, f) /\ n.sending = q.sending /\ n.looked = q.looked /\ n.torn = q.torn
        /\ n.writer = q.writer /\ n.late = q.late /\ n.begun = q.begun
    BY <1>0, <2>3 DEF Peers
  <2>5. peer' = [peer EXCEPT ![p] = n] BY <1>0, <2>1 DEF BrowserShape, f
  <2> HIDE DEF n
  <2>6. WriterSound(n, access, authority) BY <1>0, <2>3, <2>4 DEF WriterSound
  <2> QED BY <1>1, <2>4, <2>5, <2>6
<1>5. CASE Take(p)
  <2> DEFINE f == Head(q.queue)
             n == [q EXCEPT !.sending = <<f>>, !.offset = 0, !.queue = Tail(q.queue), !.late = 0]
  <2>1. q.queue \in Seq(Frames) /\ q.queue # <<>> BY <1>0, <1>5 DEF Peers, Take
  <2>2. \A i \in 1..Len(q.queue) : OldIn(q.queue[i], access) BY <1>0 DEF WriterSound
  <2>3. f \in Frames /\ OldIn(f, access) /\ Tail(q.queue) \in Seq(Frames)
        /\ \A i \in 1..Len(Tail(q.queue)) : OldIn(Tail(q.queue)[i], access)
    BY <2>1, <2>2
  <2> HIDE DEF f
  <2>4. <<f>> \in Seq(Frames) /\ Len(<<f>>) = 1 /\ <<f>>[1] = f BY <2>3
  <2>5. n \in Peers /\ n.queue = Tail(q.queue) /\ n.sending = <<f>> /\ n.looked = q.looked /\ n.torn = q.torn
        /\ n.writer = q.writer /\ n.late = 0 /\ n.begun = q.begun
    BY <1>0, <2>3, <2>4 DEF Peers
  <2>6. peer' = [peer EXCEPT ![p] = n] BY <1>0, <1>5 DEF BrowserShape, Take, f
  <2> HIDE DEF n
  <2>7. WriterSound(n, access, authority) BY <1>0, <2>3, <2>4, <2>5 DEF WriterSound
  <2> QED BY <1>1, <2>5, <2>6, <2>7
<1>6. CASE Look(p)
  <2> DEFINE n == [q EXCEPT !.looked = TRUE]
  <2>1. Head(q.sending) = q.sending[1] BY <1>0 DEF Peers
  <2>2. ~UnwantedIn(q.sending[1], access, authority)
    BY <1>6, <2>1 DEF Look, Stale, UnwantedIn
  <2>3. n \in Peers /\ n.queue = q.queue /\ n.sending = q.sending /\ n.looked /\ n.torn = q.torn
        /\ n.writer = q.writer /\ n.late = q.late /\ n.begun = q.begun
    BY <1>0 DEF Peers
  <2>4. peer' = [peer EXCEPT ![p] = n] BY <1>0, <1>6 DEF BrowserShape, Look
  <2> HIDE DEF n
  <2>5. WriterSound(n, access, authority) BY <1>0, <1>6, <2>2, <2>3 DEF WriterSound, Look
  <2> QED BY <1>1, <2>3, <2>4, <2>5
<1>7. CASE Send(p)
  <2> DEFINE f == Head(q.sending)
             late == IF Unwanted(p, f) THEN 1 ELSE 0
             n(whole) == [q EXCEPT !.looked = FALSE,
                                   !.begun = IF q.offset = 0 THEN 1 - q.begun ELSE q.begun,
                                   !.late = IF q.late = 2 THEN 2 ELSE q.late + late,
                                   !.offset = IF whole THEN 0 ELSE 1,
                                   !.sending = IF whole THEN <<>> ELSE q.sending]
  <2>1. PICK whole \in BOOLEAN : peer' = [peer EXCEPT ![p] = n(whole)]
    <3>1. PICK whole \in BOOLEAN :
         peer' = [peer EXCEPT
                    ![p].looked = FALSE,
                    ![p].begun = IF peer[p].offset = 0 THEN 1 - @ ELSE @,
                    ![p].late = IF @ = 2 THEN 2 ELSE @ + late,
                    ![p].offset = IF whole THEN 0 ELSE 1,
                    ![p].sending = IF whole THEN <<>> ELSE @]
      BY <1>7 DEF Send
    <3> HIDE DEF late
    <3>2. peer' = [peer EXCEPT ![p] = n(whole)] BY <1>0, <3>1 DEF BrowserShape
    <3> QED BY <3>2
  <2>2. /\ q.writer /\ q.looked /\ ~q.torn /\ q.sending # <<>> /\ f = q.sending[1]
        /\ q.late = 0 /\ late \in {0, 1} /\ (late = 1 => UnwantedIn(f, access, authority))
    <3>1. q.writer /\ q.looked /\ q.torn \in BOOLEAN /\ q.sending \in Seq(Frames) BY <1>0, <1>7 DEF Send, Peers
    <3>2. ~q.torn /\ q.sending # <<>> BY <1>0, <3>1 DEF WriterSound
    <3>3. q.late = 0 BY <1>0, <3>1, <3>2 DEF WriterSound
    <3>4. f = q.sending[1] BY <3>1, <3>2
    <3>5. late \in {0, 1} /\ (late = 1 => UnwantedIn(f, access, authority)) BY DEF Unwanted, UnwantedIn
    <3> QED BY <3>1, <3>2, <3>3, <3>4, <3>5
  <2> HIDE DEF f, late
  <2>3. /\ n(whole) \in Peers /\ n(whole).queue = q.queue /\ n(whole).sending \in {<<>>, q.sending}
        /\ ~n(whole).looked /\ n(whole).torn = q.torn /\ n(whole).writer = q.writer
        /\ n(whole).late = late
    <3>1. q.begun \in {0, 1} BY <1>0 DEF Peers
    <3>2. <<>> \in Seq(Frames) OBVIOUS
    <3> DEFINE begun == IF q.offset = 0 THEN 1 - q.begun ELSE q.begun
               lateness == IF q.late = 2 THEN 2 ELSE q.late + late
               offset == IF whole THEN 0 ELSE 1
               sending == IF whole THEN <<>> ELSE q.sending
    <3>3. begun \in {0, 1} /\ lateness = late /\ late \in Nat /\ offset \in Nat BY <2>2, <3>1
    <3>4. sending \in Seq(Frames) /\ sending \in {<<>>, q.sending} BY <1>0, <3>2 DEF Peers
    <3>5. n(whole) = [q EXCEPT !.looked = FALSE, !.begun = begun, !.late = lateness, !.offset = offset,
                               !.sending = sending]
      OBVIOUS
    <3> HIDE DEF n, begun, lateness, offset, sending
    <3> QED BY <1>0, <2>2, <3>3, <3>4, <3>5 DEF Peers
  <2> HIDE DEF n
  <2>4. WriterSound(n(whole), access, authority) BY <1>0, <2>2, <2>3 DEF WriterSound
  <2> QED BY <1>1, <2>1, <2>2, <2>3, <2>4
<1>8. CASE LeaveOut(p)
  <2> DEFINE n == [q EXCEPT !.sending = <<>>, !.offset = 0, !.writer = ~Torn(p), !.torn = q.torn \/ q.offset > 0]
  <2>1. peer' = [peer EXCEPT ![p] = n] BY <1>0, <1>8 DEF LeaveOut, BrowserShape
  <2>2. /\ n \in Peers /\ n.queue = q.queue /\ n.sending = <<>> /\ n.looked = q.looked /\ n.writer = ~Torn(p)
        /\ n.torn = (q.torn \/ q.offset > 0) /\ n.late = q.late /\ n.begun = q.begun
    <3>1. <<>> \in Seq(Frames) OBVIOUS
    <3> QED BY <1>0, <3>1 DEF Peers, Torn
  <2> HIDE DEF n
  <2>3. WriterSound(n, access, authority) BY <1>0, <1>8, <2>2 DEF WriterSound, LeaveOut, Torn
  <2> QED BY <1>1, <2>1, <2>2, <2>3
<1>9. CASE WriterEnds(p)
  <2> DEFINE n == [q EXCEPT !.writer = FALSE, !.queue = <<>>, !.sending = <<>>, !.looked = FALSE,
                            !.torn = q.torn \/ q.offset > 0, !.offset = 0]
  <2>1. peer' = [peer EXCEPT ![p] = n] BY <1>0, <1>9 DEF WriterEnds, BrowserShape
  <2>2. /\ n \in Peers /\ n.queue = <<>> /\ n.sending = <<>> /\ ~n.looked /\ ~n.writer
        /\ n.late = q.late /\ n.begun = q.begun
    <3>1. <<>> \in Seq(Frames) OBVIOUS
    <3> QED BY <1>0, <3>1 DEF Peers
  <2> HIDE DEF n
  <2>3. WriterSound(n, access, authority) BY <1>0, <2>2 DEF WriterSound
  <2> QED BY <1>1, <2>1, <2>2, <2>3
<1> QED BY <1>2, <1>3, <1>4, <1>5, <1>6, <1>7, <1>8, <1>9

-----------------------------------------------------------------------------

LEMMA BrowserKeepsOn == BrowserInv /\ [BrowserNext]_browserVars => BrowserInv'
<1> SUFFICES ASSUME BrowserInv, [BrowserNext]_browserVars PROVE BrowserInv' OBVIOUS
<1>1. CASE Configure \/ Fence \/ PolicyDies BY <1>1, AccessSteps
<1>2. CASE CancelInvalid \/ \E a \in Authority : Yielded(a) \/ Execute(a) \/ Completed(a) BY <1>2, AuthoritySteps
<1>3. CASE \E u \in Audit : AuditResult(u) \/ \E a \in Authority : AuditBegins(u, a) BY <1>3, AuditSteps
<1>4. CASE \E p \in Peer : Register(p) \/ Attach(p) \/ Attached(p) \/ Enqueue(p) \/ Disconnect(p)
                           \/ Take(p) \/ Look(p) \/ Send(p) \/ LeaveOut(p) \/ WriterEnds(p)
  BY <1>4, PeerSteps
<1>5. CASE UNCHANGED browserVars
  BY <1>5 DEF browserVars, BrowserInv, BrowserShape, AuditsSound, AuditSound, WritersSound
<1> QED BY <1>1, <1>2, <1>3, <1>4, <1>5 DEF BrowserNext

LEMMA BrowserHolds == AuthoritiesExist => (BrowserSpec => []BrowserInv)
<1>1. AuthoritiesExist /\ BrowserInit => BrowserInv BY BrowserStarts
<1> QED BY <1>1, BrowserKeepsOn, PTL DEF BrowserSpec

\* The journal calls an effect of the browser confirmed only when its authority
\* held from the intent to the result (browser.py: end_audit, invalidate).
THEOREM AuditsStayHonest == ASSUME AuthoritiesExist PROVE BrowserSpec => []AuditsAreHonest
<1>1. BrowserInv => AuditsAreHonest BY DEF BrowserInv, AuditsSound, AuditSound, AuditsAreHonest
<1> QED BY <1>1, BrowserHolds, PTL

\* A frame nobody wants any more gets out by at most one chunk, however many
\* peers, authorities and stops there are (browser.py: the writer of a peer).
THEOREM StaleAlwaysStops == ASSUME AuthoritiesExist PROVE BrowserSpec => []StaleStops
<1>1. BrowserInv => StaleStops BY DEF BrowserInv, WritersSound, WriterSound, StaleStops
<1> QED BY <1>1, BrowserHolds, PTL

\* After half a frame nothing more is written to that extension.
THEOREM FramesStayWhole == ASSUME AuthoritiesExist PROVE BrowserSpec => FramesAreWhole
<1>1. BrowserInv /\ [BrowserNext]_browserVars => [EndsTorn]_browserVars
  <2> SUFFICES ASSUME BrowserInv, BrowserNext, NEW p \in Peer, peer[p].torn PROVE peer'[p].begun = peer[p].begun
    BY DEF EndsTorn
  <2>0. BrowserShape BY DEF BrowserInv
  <2>1. CASE \E q \in Peer : Register(q) \/ Attach(q) \/ Attached(q) \/ Enqueue(q) \/ Disconnect(q)
                             \/ Take(q) \/ Look(q) \/ Send(q) \/ LeaveOut(q) \/ WriterEnds(q)
    BY <2>1, PeerSteps
  <2>2. CASE PolicyDies
    <3>1. peer[p] \in Peers BY <2>0 DEF BrowserShape
    <3> QED BY <2>2, <3>1 DEF PolicyDies, Peers
  <2>3. CASE UNCHANGED peer BY <2>3
  <2> QED BY <2>1, <2>2, <2>3 DEF BrowserNext, Configure, Fence, CancelInvalid, Yielded, Execute, Completed,
                                  AuditResult, AuditBegins
<1> QED BY <1>1, BrowserHolds, PTL DEF BrowserSpec, FramesAreWhole

-----------------------------------------------------------------------------
(* Workspaces derived from a base.                                         *)

DomainStates == {"absent", "stopped", "started"}
Hosts == [domain : [Workspace -> DomainStates], volume : SUBSET Workspace, base : {"stopped", "started"},
          fresh : SUBSET Workspace, loose : SUBSET Workspace]
Receipts == [intent : {"none"} \union Intents, state : {"off", "running", "unknown"},
             cleanup : {"none", "release", "pending"}]
JobStages == {"none", "derive", "define", "inspect", "undo", "unclaimed", "receipt", "start",
              "release", "stopped", "undefined"}
Jobs == [at : JobStages, w : Workspace \union {NoWorkspace}, intent : {"none"} \union Intents, defined : BOOLEAN]

WorkspaceShape ==
  /\ host \in Hosts /\ receipt \in [Workspace -> Receipts] /\ job \in Jobs

\* The operation under way names its workspace, and a derivation its intent.
JobSound(j) ==
  /\ j.at = "none" => j = NoJob
  /\ j.at # "none" => j.w \in Workspace
  /\ j.at \in {"derive", "define", "inspect", "unclaimed", "receipt"} => j.intent \in Intents

\* How far the operation under way has come with its workspace.
StageSound(w, h, r, j) ==
  /\ j.at \in {"derive", "define", "undefined"} => h.domain[w] = "absent"
  /\ j.at \in {"inspect", "unclaimed", "receipt", "start", "release", "stopped"} => h.domain[w] # "absent"
  /\ j.at = "derive" => w \notin h.volume
  /\ j.at \in {"define", "inspect", "unclaimed", "receipt", "start", "release", "stopped"} => w \in h.volume
  /\ j.at \in {"inspect"} \/ (j.at = "undo" /\ h.domain[w] # "absent") => j.defined
  /\ j.at \in {"derive", "define", "inspect", "undo", "unclaimed", "receipt"} => r[w].intent = "none"
  /\ j.at \in {"start", "release"} => r[w].intent # "none"

\* A workspace is fresh, in doubt, under way, or whole with its receipt.
WorkspaceSound(w, h, r, j) ==
  /\ w \in h.fresh => h.domain[w] = "absent" /\ w \notin h.volume /\ r[w].intent = "none" /\ j.w # w
  /\ w \notin h.loose /\ j.w # w =>
       /\ h.domain[w] # "absent" \/ w \in h.volume => r[w].intent # "none"
       /\ r[w].intent # "none" => h.domain[w] # "absent" /\ w \in h.volume
  /\ w \notin h.loose /\ j.w = w => StageSound(w, h, r, j)

WorkspaceInv ==
  /\ WorkspaceShape /\ JobSound(job)
  /\ \A w \in Workspace : WorkspaceSound(w, host, receipt, job)

-----------------------------------------------------------------------------
\* What the commands leave of the host: another workspace is not touched.

Elsewhere(h, k, w) ==
  /\ \A v \in Workspace : v # w =>
       /\ k.domain[v] = h.domain[v] /\ (v \in k.volume <=> v \in h.volume)
       /\ (v \in k.fresh <=> v \in h.fresh) /\ (v \in k.loose <=> v \in h.loose)

\* k is h but for the domain, the volume and the freshness of w.
Becomes(h, k, w, d) ==
  /\ k \in Hosts /\ Elsewhere(h, k, w)
  /\ k.domain[w] = d /\ (w \in k.fresh => w \in h.fresh) /\ (w \in k.loose <=> w \in h.loose)

LEMMA DomainSet ==
  ASSUME NEW h \in Hosts, NEW w \in Workspace, NEW d \in DomainStates, NEW k, k = [h EXCEPT !.domain[w] = d]
  PROVE  Becomes(h, k, w, d) /\ k.volume = h.volume
<1>1. h.domain \in [Workspace -> DomainStates] BY DEF Hosts
<1> DEFINE e == [h.domain EXCEPT ![w] = d]
<1>2. e \in [Workspace -> DomainStates] /\ e[w] = d /\ \A v \in Workspace : v # w => e[v] = h.domain[v] BY <1>1
<1>3. k = [h EXCEPT !.domain = e] OBVIOUS
<1> HIDE DEF e
<1>4. k \in Hosts /\ k.domain = e /\ k.volume = h.volume /\ k.fresh = h.fresh /\ k.loose = h.loose
  BY <1>2, <1>3 DEF Hosts
<1> QED BY <1>2, <1>4 DEF Becomes, Elsewhere

LEMMA VolumeSet ==
  ASSUME NEW h \in Hosts, NEW w \in Workspace, NEW k, NEW vs,
         vs = h.volume \union {w} \/ vs = h.volume \ {w}, k = [h EXCEPT !.volume = vs]
  PROVE  Becomes(h, k, w, h.domain[w]) /\ k.volume = vs
<1>1. h.volume \in SUBSET Workspace BY DEF Hosts
<1>2. vs \in SUBSET Workspace /\ \A v \in Workspace : v # w => (v \in vs <=> v \in h.volume) BY <1>1
<1>3. k \in Hosts /\ k.domain = h.domain /\ k.volume = vs /\ k.fresh = h.fresh /\ k.loose = h.loose
  BY <1>2 DEF Hosts
<1> QED BY <1>2, <1>3 DEF Becomes, Elsewhere

LEMMA Doubted ==
  ASSUME NEW h \in Hosts, NEW w \in Workspace, NEW k, k = InDoubt(h, w)
  PROVE  /\ k \in Hosts /\ Elsewhere(h, k, w) /\ w \in k.loose
         /\ k.domain = h.domain /\ k.volume = h.volume /\ k.fresh = h.fresh
<1>1. h.loose \union {w} \in SUBSET Workspace BY DEF Hosts
<1>2. k \in Hosts /\ k.domain = h.domain /\ k.volume = h.volume /\ k.fresh = h.fresh /\ k.loose = h.loose \union {w}
  BY <1>1 DEF Hosts, InDoubt
<1> QED BY <1>2 DEF Elsewhere

LEMMA ElsewhereTwice ==
  ASSUME NEW h, NEW k, NEW l, NEW w, Elsewhere(h, k, w), Elsewhere(k, l, w)
  PROVE  Elsewhere(h, l, w)
BY DEF Elsewhere

\* An operation changes what is its own.
LEMMA OneWorkspace ==
  ASSUME WorkspaceInv, NEW w \in Workspace, host' \in Hosts, Elsewhere(host, host', w),
         receipt' \in [Workspace -> Receipts], \A v \in Workspace : v # w => receipt'[v] = receipt[v],
         job' \in Jobs, JobSound(job'), job.w \in {w, NoWorkspace}, job'.w \in {w, NoWorkspace},
         NoWorkspaceIsNone, WorkspaceSound(w, host', receipt', job')
  PROVE  WorkspaceInv'
<1>1. ASSUME NEW v \in Workspace, v # w PROVE WorkspaceSound(v, host', receipt', job')
  <2>1. WorkspaceSound(v, host, receipt, job) /\ job.w # v /\ job'.w # v
    BY <1>1 DEF WorkspaceInv, NoWorkspaceIsNone
  <2>2. /\ host'.domain[v] = host.domain[v] /\ (v \in host'.volume <=> v \in host.volume)
        /\ (v \in host'.fresh <=> v \in host.fresh) /\ (v \in host'.loose <=> v \in host.loose)
    BY <1>1 DEF Elsewhere
  <2> QED BY <1>1, <2>1, <2>2 DEF WorkspaceSound
<1> QED BY <1>1 DEF WorkspaceInv, WorkspaceShape

-----------------------------------------------------------------------------

LEMMA JobEnds == NoJob \in Jobs /\ JobSound(NoJob) /\ NoJob.w = NoWorkspace /\ NoJob.at = "none"
<1>1. NoJob.w = NoWorkspace /\ NoJob.at = "none" BY DEF NoJob
<1>2. NoJob \in Jobs BY DEF NoJob, Jobs, JobStages
<1> QED BY <1>1, <1>2 DEF JobSound

LEMMA JobMoves ==
  ASSUME NEW j \in Jobs, NEW at \in JobStages, NEW k, k = [j EXCEPT !.at = at]
  PROVE  k \in Jobs /\ k.at = at /\ k.w = j.w /\ k.intent = j.intent /\ k.defined = j.defined
BY DEF Jobs

LEMMA WorkspaceStarts == NoWorkspaceIsNone /\ WorkspaceInit => WorkspaceInv
<1> SUFFICES ASSUME NoWorkspaceIsNone, WorkspaceInit PROVE WorkspaceInv OBVIOUS
<1>1. host \in Hosts BY DEF WorkspaceInit, Hosts, DomainStates
<1>2. receipt \in [Workspace -> Receipts] BY DEF WorkspaceInit, Receipts, NoReceiptYet
<1>3. job \in Jobs /\ JobSound(job) BY JobEnds DEF WorkspaceInit
<1>5. ASSUME NEW w \in Workspace PROVE WorkspaceSound(w, host, receipt, job)
  <2>1. job.w # w BY DEF WorkspaceInit, NoJob, NoWorkspaceIsNone
  <2>2. host.domain[w] = "absent" /\ w \notin host.volume /\ receipt[w].intent = "none"
    BY DEF WorkspaceInit, NoReceiptYet
  <2> QED BY <2>1, <2>2 DEF WorkspaceSound
<1> QED BY <1>1, <1>2, <1>3, <1>5 DEF WorkspaceInv, WorkspaceShape

\* What an operation under way may rely on.
LEMMA UnderWay ==
  ASSUME WorkspaceInv, NoWorkspaceIsNone, job.at # "none"
  PROVE  /\ job.w \in Workspace /\ job.w \notin host.fresh /\ job.w # NoWorkspace
         /\ job \in Jobs /\ host \in Hosts /\ receipt \in [Workspace -> Receipts]
         /\ job.w \notin host.loose => StageSound(job.w, host, receipt, job)
         /\ job.at \in {"derive", "define", "inspect", "unclaimed", "receipt"} => job.intent \in Intents
BY DEF WorkspaceInv, WorkspaceShape, JobSound, WorkspaceSound, NoWorkspaceIsNone

\* The operation ends, leaving its workspace in doubt.
LEMMA EndsInDoubt ==
  ASSUME WorkspaceInv, NoWorkspaceIsNone, job.at # "none", NEW h \in Hosts, Elsewhere(host, h, job.w),
         job.w \in h.fresh => job.w \in host.fresh, host' = InDoubt(h, job.w),
         receipt' = receipt, job' = NoJob \/ job' = [job EXCEPT !.at = "undo"]
  PROVE  WorkspaceInv'
<1> DEFINE w == job.w
<1>1. /\ w \in Workspace /\ w \notin host.fresh /\ w # NoWorkspace /\ job \in Jobs
      /\ receipt \in [Workspace -> Receipts]
  BY UnderWay
<1>2. host' \in Hosts /\ Elsewhere(h, host', w) /\ w \in host'.loose /\ host'.fresh = h.fresh BY <1>1, Doubted
<1>3. Elsewhere(host, host', w) BY <1>2, ElsewhereTwice
<1>4. job' \in Jobs /\ JobSound(job') /\ job'.w \in {w, NoWorkspace} 
  <2>1. CASE job' = NoJob BY <2>1, JobEnds
  <2>2. CASE job' = [job EXCEPT !.at = "undo"]
    <3>1. job' \in Jobs /\ job'.at = "undo" /\ job'.w = job.w BY <1>1, <2>2, JobMoves DEF JobStages
    <3> QED BY <1>1, <3>1 DEF JobSound
  <2> QED BY <2>1, <2>2
<1>5. WorkspaceSound(w, host', receipt', job') BY <1>1, <1>2 DEF WorkspaceSound
<1> QED BY <1>1, <1>2, <1>3, <1>4, <1>5, OneWorkspace

LEMMA KilledSteps == WorkspaceInv /\ NoWorkspaceIsNone /\ Killed => WorkspaceInv'
<1> SUFFICES ASSUME WorkspaceInv, NoWorkspaceIsNone, Killed PROVE WorkspaceInv' OBVIOUS
<1>1. job.at # "none" BY DEF Killed, WorkspaceInv, JobSound
<1>2. host \in Hosts /\ Elsewhere(host, host, job.w) BY DEF WorkspaceInv, WorkspaceShape, Elsewhere
<1> QED BY <1>1, <1>2, EndsInDoubt DEF Killed

\* The next stage of an operation, if nothing is in doubt.
LEMMA GoesOn ==
  ASSUME WorkspaceInv, NoWorkspaceIsNone, job.at # "none", host' \in Hosts, Elsewhere(host, host', job.w),
         job.w \in host'.fresh => job.w \in host.fresh, job.w \in host'.loose <=> job.w \in host.loose,
         receipt' \in [Workspace -> Receipts], \A v \in Workspace : v # job.w => receipt'[v] = receipt[v],
         job' \in Jobs, job'.at # "none", job'.w = job.w,
         job'.at \in {"derive", "define", "inspect", "unclaimed", "receipt"} => job'.intent \in Intents,
         StageSound(job.w, host, receipt, job) => StageSound(job.w, host', receipt', job')
  PROVE  WorkspaceInv'
<1> DEFINE w == job.w
<1>1. w \in Workspace /\ w \notin host.fresh /\ w # NoWorkspace
      /\ (w \notin host.loose => StageSound(w, host, receipt, job))
  BY UnderWay
<1>2. JobSound(job') BY <1>1 DEF JobSound
<1>3. WorkspaceSound(w, host', receipt', job') BY <1>1 DEF WorkspaceSound
<1> QED BY <1>1, <1>2, <1>3, OneWorkspace

\* The operation ends with its workspace whole, or without anything.
LEMMA EndsWhole ==
  ASSUME WorkspaceInv, NoWorkspaceIsNone, job.at # "none", host' \in Hosts, Elsewhere(host, host', job.w),
         job.w \in host'.fresh => job.w \in host.fresh, job.w \in host'.loose <=> job.w \in host.loose,
         receipt' \in [Workspace -> Receipts], \A v \in Workspace : v # job.w => receipt'[v] = receipt[v],
         job' = NoJob,
         job.w \notin host.loose /\ StageSound(job.w, host, receipt, job) =>
           \/ host'.domain[job.w] # "absent" /\ job.w \in host'.volume /\ receipt'[job.w].intent # "none"
           \/ host'.domain[job.w] = "absent" /\ job.w \notin host'.volume /\ receipt'[job.w].intent = "none"
  PROVE  WorkspaceInv'
<1> DEFINE w == job.w
<1>1. w \in Workspace /\ w \notin host.fresh /\ w # NoWorkspace
      /\ (w \notin host.loose => StageSound(w, host, receipt, job))
  BY UnderWay
<1>2. job' \in Jobs /\ JobSound(job') /\ job'.w = NoWorkspace BY JobEnds
<1>3. WorkspaceSound(w, host', receipt', job') BY <1>1, <1>2 DEF WorkspaceSound
<1> QED BY <1>1, <1>2, <1>3, OneWorkspace

LEMMA CreateVolumeSteps == WorkspaceInv /\ NoWorkspaceIsNone /\ CreateVolume => WorkspaceInv'
<1> SUFFICES ASSUME WorkspaceInv, NoWorkspaceIsNone, CreateVolume PROVE WorkspaceInv' OBVIOUS
<1> DEFINE w == job.w
           k == With(host, w)
<1>0. job.at = "derive" /\ receipt' = receipt /\ job.at # "none" BY DEF CreateVolume
<1>1. /\ w \in Workspace /\ job \in Jobs /\ host \in Hosts /\ receipt \in [Workspace -> Receipts]
      /\ job.intent \in Intents
  BY <1>0, UnderWay
<1>2. Becomes(host, k, w, host.domain[w]) /\ k.volume = host.volume \union {w} BY <1>1, VolumeSet DEF With
<1>3. k \in Hosts /\ Elsewhere(host, k, w) /\ (w \in k.fresh => w \in host.fresh)
  BY <1>2 DEF Becomes
<1>e. Elsewhere(host, host, w) BY DEF Elsewhere
<1>4. CASE host' = k /\ job' = [job EXCEPT !.at = "define"]
  <2> HIDE DEF k
  <2>1. job' \in Jobs /\ job'.at = "define" /\ job'.w = w /\ job'.intent = job.intent
    BY <1>1, <1>4, JobMoves DEF JobStages
  <2>2. StageSound(w, host, receipt, job) => StageSound(w, host', receipt', job')
    BY <1>0, <1>2, <1>4, <2>1 DEF StageSound, Becomes
  <2> QED BY <1>0, <1>1, <1>2, <1>3, <1>4, <2>1, <2>2, GoesOn DEF Becomes
<1>5. CASE Refused(k, w) /\ job' = [job EXCEPT !.at = "undo"]
  <2> HIDE DEF k
  <2>1. CASE host' = host
    <3>1. job' \in Jobs /\ job'.at = "undo" /\ job'.w = w BY <1>1, <1>5, JobMoves DEF JobStages
    <3>2. StageSound(w, host, receipt, job) => StageSound(w, host', receipt', job')
      BY <1>0, <2>1, <3>1 DEF StageSound
    <3> QED BY <1>0, <1>1, <1>e, <2>1, <3>1, <3>2, GoesOn
  <2>2. CASE host' = InDoubt(host, w) BY <1>0, <1>1, <1>5, <1>e, <2>2, EndsInDoubt
  <2>3. CASE host' = InDoubt(k, w) BY <1>0, <1>3, <1>5, <2>3, EndsInDoubt
  <2> QED BY <1>5, <2>1, <2>2, <2>3 DEF Refused
<1> QED BY <1>4, <1>5 DEF CreateVolume

LEMMA Updates ==
  ASSUME receipt \in [Workspace -> Receipts], NEW w \in Workspace, NEW n \in Receipts,
         receipt' = [receipt EXCEPT ![w] = n]
  PROVE  /\ receipt' \in [Workspace -> Receipts] /\ receipt'[w] = n
         /\ \A v \in Workspace : v # w => receipt'[v] = receipt[v]
OBVIOUS

LEMMA UpdatedGives ==
  ASSUME receipt \in [Workspace -> Receipts], NEW w \in Workspace, NEW s \in {"off", "running", "unknown"},
         NEW c \in {"none", "release", "pending"}, receipt' = Updated(w, s, c)
  PROVE  /\ receipt' \in [Workspace -> Receipts] /\ receipt'[w].intent = receipt[w].intent
         /\ \A v \in Workspace : v # w => receipt'[v] = receipt[v]
<1> DEFINE n == [receipt[w] EXCEPT !.state = s, !.cleanup = c]
<1>1. n \in Receipts /\ n.intent = receipt[w].intent BY DEF Receipts
<1> HIDE DEF n
<1>2. receipt' = [receipt EXCEPT ![w] = n] BY DEF Updated, n
<1> QED BY <1>1, <1>2, Updates

LEMMA DefineSteps == WorkspaceInv /\ NoWorkspaceIsNone /\ Define => WorkspaceInv'
<1> SUFFICES ASSUME WorkspaceInv, NoWorkspaceIsNone, Define PROVE WorkspaceInv' OBVIOUS
<1> DEFINE w == job.w
           k == DefinedIn(host, w)
<1>0. job.at = "define" /\ receipt' = receipt /\ job.at # "none" BY DEF Define
<1>1. /\ w \in Workspace /\ job \in Jobs /\ host \in Hosts /\ receipt \in [Workspace -> Receipts]
      /\ job.intent \in Intents
  BY <1>0, UnderWay
<1>2. Becomes(host, k, w, "stopped") /\ k.volume = host.volume BY <1>1, DomainSet DEF DefinedIn, DomainStates
<1>3. k \in Hosts /\ Elsewhere(host, k, w) /\ (w \in k.fresh => w \in host.fresh)
  BY <1>2 DEF Becomes
<1>e. Elsewhere(host, host, w) BY DEF Elsewhere
<1>4. CASE host' = k /\ job' = [job EXCEPT !.at = "inspect", !.defined = TRUE]
  <2> HIDE DEF k
  <2>1. job' \in Jobs /\ job'.at = "inspect" /\ job'.w = w /\ job'.intent = job.intent /\ job'.defined
    BY <1>1, <1>4 DEF Jobs, JobStages
  <2>2. StageSound(w, host, receipt, job) => StageSound(w, host', receipt', job')
    BY <1>0, <1>2, <1>4, <2>1 DEF StageSound, Becomes
  <2> QED BY <1>0, <1>1, <1>2, <1>3, <1>4, <2>1, <2>2, GoesOn DEF Becomes
<1>5. CASE Refused(k, w) /\ job' = [job EXCEPT !.at = "undo"]
  <2> HIDE DEF k
  <2>1. CASE host' = host
    <3>1. job' \in Jobs /\ job'.at = "undo" /\ job'.w = w BY <1>1, <1>5, JobMoves DEF JobStages
    <3>2. StageSound(w, host, receipt, job) => StageSound(w, host', receipt', job')
      BY <1>0, <2>1, <3>1 DEF StageSound
    <3> QED BY <1>0, <1>1, <1>e, <2>1, <3>1, <3>2, GoesOn
  <2>2. CASE host' = InDoubt(host, w) BY <1>0, <1>1, <1>5, <1>e, <2>2, EndsInDoubt
  <2>3. CASE host' = InDoubt(k, w) BY <1>0, <1>3, <1>5, <2>3, EndsInDoubt
  <2> QED BY <1>5, <2>1, <2>2, <2>3 DEF Refused
<1> QED BY <1>4, <1>5 DEF Define

\* Steps that look at the host, or ask for the claim, and go on.
LEMMA LookingSteps == WorkspaceInv /\ NoWorkspaceIsNone /\ (InspectDerived \/ Claimed) => WorkspaceInv'
<1> SUFFICES ASSUME WorkspaceInv, NoWorkspaceIsNone, InspectDerived \/ Claimed PROVE WorkspaceInv' OBVIOUS
<1> DEFINE w == job.w
<1>0. job.at \in {"inspect", "unclaimed"} /\ receipt' = receipt /\ host' = host /\ job.at # "none"
  BY DEF InspectDerived, Claimed
<1>1. /\ w \in Workspace /\ job \in Jobs /\ host \in Hosts /\ receipt \in [Workspace -> Receipts]
      /\ job.intent \in Intents /\ Elsewhere(host, host, w)
  BY <1>0, UnderWay DEF Elsewhere
<1>2. PICK at \in {"unclaimed", "undo", "receipt", "stopped"} :
        job' = [job EXCEPT !.at = at] /\ (at = "undo" => job.at = "inspect")
  BY <1>0 DEF InspectDerived, Claimed
<1>3. job' \in Jobs /\ job'.at = at /\ job'.w = w /\ job'.intent = job.intent /\ job'.defined = job.defined
  BY <1>1, <1>2, JobMoves DEF JobStages
<1>4. StageSound(w, host, receipt, job) => StageSound(w, host', receipt', job')
  BY <1>0, <1>2, <1>3 DEF StageSound
<1> QED BY <1>0, <1>1, <1>3, <1>4, GoesOn

LEMMA UndoSteps == WorkspaceInv /\ NoWorkspaceIsNone /\ Undo => WorkspaceInv'
<1> SUFFICES ASSUME WorkspaceInv, NoWorkspaceIsNone, Undo PROVE WorkspaceInv' OBVIOUS
<1> DEFINE w == job.w
           k == [host EXCEPT !.volume = @ \ {w}]
           l == Without(host, w, job.defined)
<1>0. job.at = "undo" /\ receipt' = receipt /\ job.at # "none" /\ job' = NoJob BY DEF Undo
<1>1. w \in Workspace /\ job \in Jobs /\ host \in Hosts /\ receipt \in [Workspace -> Receipts] BY <1>0, UnderWay
<1>e. Elsewhere(host, host, w) BY DEF Elsewhere
<1>2. Becomes(host, k, w, host.domain[w]) BY <1>1, VolumeSet
<1>3. CASE host' = l
  <2> DEFINE d == IF job.defined THEN "absent" ELSE host.domain[w]
             m == [host EXCEPT !.domain[w] = d]
  <2>1. d \in DomainStates BY <1>1 DEF Hosts, DomainStates
  <2>2. Becomes(host, m, w, d) /\ m.volume = host.volume
    <3> HIDE DEF d
    <3> QED BY <1>1, <2>1, DomainSet
  <2>3. l = [m EXCEPT !.volume = m.volume \ {w}]
    <3>1. host.domain \in [Workspace -> DomainStates] BY <1>1 DEF Hosts
    <3>2. l = [host EXCEPT !.domain[w] = d, !.volume = host.volume \ {w}] BY DEF Without
    <3> QED BY <1>1, <2>2, <3>1, <3>2 DEF Hosts
  <2> HIDE DEF d, m, l
  <2>4. Becomes(m, l, w, m.domain[w]) /\ l.volume = m.volume \ {w} /\ m \in Hosts
    BY <1>1, <2>2, <2>3, VolumeSet DEF Becomes
  <2>5. /\ l \in Hosts /\ Elsewhere(host, l, w) /\ l.domain[w] = d /\ w \notin l.volume
        /\ (w \in l.fresh => w \in host.fresh) /\ (w \in l.loose <=> w \in host.loose)
    BY <2>2, <2>4, ElsewhereTwice DEF Becomes
  <2>6. StageSound(w, host, receipt, job) => d = "absent" /\ receipt[w].intent = "none"
    BY <1>0 DEF StageSound, d
  <2> QED BY <1>0, <1>1, <1>3, <2>5, <2>6, EndsWhole
<1>4. CASE host' \in {InDoubt(host, w), InDoubt(k, w)}
  <2>1. k \in Hosts /\ Elsewhere(host, k, w) /\ (w \in k.fresh => w \in host.fresh) BY <1>2 DEF Becomes
  <2> HIDE DEF k
  <2> QED BY <1>0, <1>1, <1>e, <1>4, <2>1, EndsInDoubt
<1> QED BY <1>3, <1>4 DEF Undo

LEMMA ReceiptSteps == WorkspaceInv /\ NoWorkspaceIsNone /\ CreateReceipt => WorkspaceInv'
<1> SUFFICES ASSUME WorkspaceInv, NoWorkspaceIsNone, CreateReceipt PROVE WorkspaceInv' OBVIOUS
<1> DEFINE w == job.w
           n == [intent |-> job.intent, state |-> "running",
                 cleanup |-> IF job.intent = "isolated" THEN "release" ELSE "none"]
<1>0. job.at = "receipt" /\ host' = host /\ job.at # "none" BY DEF CreateReceipt
<1>1. /\ w \in Workspace /\ job \in Jobs /\ host \in Hosts /\ receipt \in [Workspace -> Receipts]
      /\ job.intent \in Intents /\ Elsewhere(host, host, w)
  BY <1>0, UnderWay DEF Elsewhere
<1>2. PICK at \in {"start", "stopped"} :
        /\ job' = [job EXCEPT !.at = at]
        /\ \/ at = "start" /\ receipt' = [receipt EXCEPT ![w] = n]
           \/ at = "stopped" /\ receipt' = receipt
  BY DEF CreateReceipt
<1>3. job' \in Jobs /\ job'.at = at /\ job'.w = w /\ job'.intent = job.intent /\ job'.defined = job.defined
  BY <1>1, <1>2, JobMoves DEF JobStages
<1>4. n \in Receipts /\ n.intent # "none" BY <1>1 DEF Receipts, Intents
<1> HIDE DEF n
<1>5. /\ receipt' \in [Workspace -> Receipts] /\ (at = "start" => receipt'[w].intent # "none")
      /\ \A v \in Workspace : v # w => receipt'[v] = receipt[v]
  <2>1. CASE at = "start" /\ receipt' = [receipt EXCEPT ![w] = n] BY <1>1, <1>4, <2>1, Updates
  <2>2. CASE at = "stopped" /\ receipt' = receipt BY <1>1, <2>2
  <2> QED BY <1>2, <2>1, <2>2
<1>6. StageSound(w, host, receipt, job) => StageSound(w, host', receipt', job')
  BY <1>0, <1>3, <1>5 DEF StageSound
<1> QED BY <1>0, <1>1, <1>3, <1>5, <1>6, GoesOn

LEMMA StartSteps == WorkspaceInv /\ NoWorkspaceIsNone /\ StartDerived => WorkspaceInv'
<1> SUFFICES ASSUME WorkspaceInv, NoWorkspaceIsNone, StartDerived PROVE WorkspaceInv' OBVIOUS
<1> DEFINE w == job.w
<1>0. job.at = "start" /\ job' = NoJob /\ job.at # "none" BY DEF StartDerived
<1>1. w \in Workspace /\ job \in Jobs /\ host \in Hosts /\ receipt \in [Workspace -> Receipts] BY <1>0, UnderWay
<1>2. PICK s \in {"stopped", "started"} : host' = [host EXCEPT !.domain[w] = s] BY DEF StartDerived
<1>3. Becomes(host, host', w, s) /\ host'.volume = host.volume BY <1>1, <1>2, DomainSet DEF DomainStates
<1>4. /\ receipt' \in [Workspace -> Receipts] /\ receipt'[w].intent = receipt[w].intent
      /\ \A v \in Workspace : v # w => receipt'[v] = receipt[v]
  <2>1. CASE receipt' = receipt BY <1>1, <2>1
  <2>2. CASE receipt' = Updated(w, "unknown", "pending") BY <1>1, <2>2, UpdatedGives
  <2> QED BY <2>1, <2>2 DEF StartDerived
<1>5. StageSound(w, host, receipt, job) =>
        host'.domain[w] # "absent" /\ w \in host'.volume /\ receipt'[w].intent # "none"
  BY <1>0, <1>3, <1>4 DEF StageSound, Becomes
<1>6. /\ host' \in Hosts /\ Elsewhere(host, host', w) /\ (w \in host'.fresh => w \in host.fresh)
      /\ (w \in host'.loose <=> w \in host.loose)
  BY <1>3 DEF Becomes
<1> QED BY <1>0, <1>1, <1>4, <1>5, <1>6, EndsWhole

LEMMA ShutdownSteps == WorkspaceInv /\ NoWorkspaceIsNone /\ ShutdownDerived => WorkspaceInv'
<1> SUFFICES ASSUME WorkspaceInv, NoWorkspaceIsNone, ShutdownDerived PROVE WorkspaceInv' OBVIOUS
<1> DEFINE w == job.w
<1>0. job.at = "release" /\ receipt' = receipt /\ job.at # "none" BY DEF ShutdownDerived
<1>1. w \in Workspace /\ job \in Jobs /\ host \in Hosts /\ receipt \in [Workspace -> Receipts] BY <1>0, UnderWay
<1>e. Elsewhere(host, host, w) BY DEF Elsewhere
<1>2. CASE host' = [host EXCEPT !.domain[w] = "stopped"] /\ job' = [job EXCEPT !.at = "stopped"]
  <2>1. Becomes(host, host', w, "stopped") /\ host'.volume = host.volume BY <1>1, <1>2, DomainSet DEF DomainStates
  <2>2. job' \in Jobs /\ job'.at = "stopped" /\ job'.w = w BY <1>1, <1>2, JobMoves DEF JobStages
  <2>3. StageSound(w, host, receipt, job) => StageSound(w, host', receipt', job')
    BY <1>0, <2>1, <2>2 DEF StageSound, Becomes
  <2> QED BY <1>0, <1>1, <2>1, <2>2, <2>3, GoesOn DEF Becomes
<1>3. CASE host' = host /\ job' = NoJob
  <2>1. StageSound(w, host, receipt, job) =>
          host'.domain[w] # "absent" /\ w \in host'.volume /\ receipt'[w].intent # "none"
    BY <1>0, <1>3 DEF StageSound
  <2> QED BY <1>0, <1>1, <1>e, <1>3, <2>1, EndsWhole
<1> QED BY <1>2, <1>3 DEF ShutdownDerived

\* The domain goes, then its volume; each may be refused, or leave a doubt.
LEMMA UndefineSteps == WorkspaceInv /\ NoWorkspaceIsNone /\ (UndefineDerived \/ ReleaseRefused) => WorkspaceInv'
<1> SUFFICES ASSUME WorkspaceInv, NoWorkspaceIsNone, UndefineDerived \/ ReleaseRefused PROVE WorkspaceInv' OBVIOUS
<1> DEFINE w == job.w
           k == [host EXCEPT !.domain[w] = "absent"]
<1>0. job.at = "stopped" /\ receipt' = receipt /\ job.at # "none" BY DEF UndefineDerived, ReleaseRefused
<1>1. w \in Workspace /\ job \in Jobs /\ host \in Hosts /\ receipt \in [Workspace -> Receipts] BY <1>0, UnderWay
<1>e. Elsewhere(host, host, w) BY DEF Elsewhere
<1>2. Becomes(host, k, w, "absent") /\ k.volume = host.volume BY <1>1, DomainSet DEF DomainStates
<1>3. k \in Hosts /\ Elsewhere(host, k, w) /\ (w \in k.fresh => w \in host.fresh) BY <1>2 DEF Becomes
<1>4. CASE host' = k /\ job' = [job EXCEPT !.at = "undefined"]
  <2> HIDE DEF k
  <2>1. job' \in Jobs /\ job'.at = "undefined" /\ job'.w = w BY <1>1, <1>4, JobMoves DEF JobStages
  <2>2. StageSound(w, host, receipt, job) => StageSound(w, host', receipt', job')
    BY <1>0, <1>2, <1>4, <2>1 DEF StageSound, Becomes
  <2> QED BY <1>0, <1>1, <1>2, <1>3, <1>4, <2>1, <2>2, GoesOn DEF Becomes
<1>5. CASE (Known(w) \/ w \in host.loose) /\ host' = host /\ job' = NoJob
  <2>1. w \notin host.loose /\ StageSound(w, host, receipt, job) =>
          host'.domain[w] # "absent" /\ w \in host'.volume /\ receipt'[w].intent # "none"
    BY <1>0, <1>5 DEF StageSound, Known
  <2> QED BY <1>0, <1>1, <1>e, <1>5, <2>1, EndsWhole
<1>6. CASE host' = InDoubt(host, w) /\ job' = NoJob BY <1>0, <1>1, <1>e, <1>6, EndsInDoubt
<1>7. CASE host' = InDoubt(k, w) /\ job' = NoJob
  <2> HIDE DEF k
  <2> QED BY <1>0, <1>3, <1>7, EndsInDoubt
<1>8. CASE UndefineDerived
  <2>1. CASE host' = k /\ job' = [job EXCEPT !.at = "undefined"] BY <1>4, <2>1
  <2>2. CASE Refused(k, w) /\ (Known(w) \/ w \in host'.loose) /\ job' = NoJob
    BY <1>5, <1>6, <1>7, <2>2 DEF Refused
  <2> QED BY <1>8, <2>1, <2>2 DEF UndefineDerived
<1>9. CASE ReleaseRefused BY <1>5, <1>6, <1>9 DEF ReleaseRefused
<1> QED BY <1>8, <1>9

LEMMA DeleteSteps == WorkspaceInv /\ NoWorkspaceIsNone /\ DeleteVolume => WorkspaceInv'
<1> SUFFICES ASSUME WorkspaceInv, NoWorkspaceIsNone, DeleteVolume PROVE WorkspaceInv' OBVIOUS
<1> DEFINE w == job.w
           k == [host EXCEPT !.volume = @ \ {w}]
<1>0. job.at = "undefined" /\ job' = NoJob /\ job.at # "none" BY DEF DeleteVolume
<1>1. w \in Workspace /\ job \in Jobs /\ host \in Hosts /\ receipt \in [Workspace -> Receipts] BY <1>0, UnderWay
<1>e. Elsewhere(host, host, w) BY DEF Elsewhere
<1>2. Becomes(host, k, w, host.domain[w]) /\ k.volume = host.volume \ {w} BY <1>1, VolumeSet
<1>3. k \in Hosts /\ Elsewhere(host, k, w) /\ (w \in k.fresh => w \in host.fresh) BY <1>2 DEF Becomes
<1>4. CASE host' = k /\ receipt' = [receipt EXCEPT ![w] = NoReceiptYet]
  <2> HIDE DEF k
  <2>1. NoReceiptYet \in Receipts /\ NoReceiptYet.intent = "none" BY DEF NoReceiptYet, Receipts
  <2>2. /\ receipt' \in [Workspace -> Receipts] /\ receipt'[w].intent = "none"
        /\ \A v \in Workspace : v # w => receipt'[v] = receipt[v]
    BY <1>1, <1>4, <2>1, Updates
  <2>3. StageSound(w, host, receipt, job) => host.domain[w] = "absent" BY <1>0 DEF StageSound
  <2> QED BY <1>0, <1>1, <1>2, <1>3, <1>4, <2>2, <2>3, EndsWhole DEF Becomes
<1>5. CASE host' \in {InDoubt(host, w), InDoubt(k, w)} /\ receipt' = receipt
  <2> HIDE DEF k
  <2> QED BY <1>0, <1>1, <1>3, <1>e, <1>5, EndsInDoubt
<1> QED BY <1>4, <1>5 DEF DeleteVolume

LEMMA AcquireSteps ==
  ASSUME WorkspaceInv, NoWorkspaceIsNone, NEW w \in Workspace, NEW intent \in Intents, Acquire(w, intent)
  PROVE  WorkspaceInv'
<1>1. /\ job \in Jobs /\ host \in Hosts /\ receipt \in [Workspace -> Receipts] /\ job.w = NoWorkspace
      /\ WorkspaceSound(w, host, receipt, job) /\ w \in host.fresh /\ receipt' = receipt /\ w # NoWorkspace
  BY JobEnds DEF WorkspaceInv, WorkspaceShape, Acquire, NoWorkspaceIsNone
<1>2. /\ host' \in Hosts /\ host'.domain = host.domain /\ host'.volume = host.volume
      /\ host'.fresh = host.fresh \ {w} /\ host'.loose = host.loose
  BY <1>1 DEF Acquire, Hosts
<1>3. Elsewhere(host, host', w) BY <1>2 DEF Elsewhere
<1>4. job' \in Jobs /\ job'.at = "derive" /\ job'.w = w /\ job'.intent \in Intents BY DEF Acquire, Jobs, JobStages
<1>5. JobSound(job') BY <1>4 DEF JobSound
<1>6. WorkspaceSound(w, host', receipt', job') BY <1>1, <1>2, <1>4 DEF WorkspaceSound, StageSound
<1> QED BY <1>1, <1>2, <1>3, <1>4, <1>5, <1>6, OneWorkspace

LEMMA ReleaseSteps ==
  ASSUME WorkspaceInv, NoWorkspaceIsNone, NEW w \in Workspace, ReleaseRetained(w) \/ ReleaseIsolated(w)
  PROVE  WorkspaceInv'
<1>1. /\ job \in Jobs /\ host \in Hosts /\ receipt \in [Workspace -> Receipts] /\ job.w = NoWorkspace
      /\ WorkspaceSound(w, host, receipt, job) /\ host' = host /\ w # NoWorkspace /\ job = NoJob
      /\ Elsewhere(host, host', w) /\ receipt[w].intent # "none"
  BY JobEnds DEF WorkspaceInv, WorkspaceShape, ReleaseRetained, ReleaseIsolated, NoWorkspaceIsNone, Elsewhere
<1>2. /\ receipt' \in [Workspace -> Receipts] /\ receipt'[w].intent = receipt[w].intent
      /\ \A v \in Workspace : v # w => receipt'[v] = receipt[v]
  <2>1. CASE ReleaseRetained(w) BY <1>1, <2>1, UpdatedGives DEF ReleaseRetained
  <2>2. CASE ReleaseIsolated(w)
    <3>1. receipt[w].state \in {"off", "running", "unknown"} BY <1>1 DEF Receipts
    <3> QED BY <1>1, <2>2, <3>1, UpdatedGives DEF ReleaseIsolated
  <2> QED BY <2>1, <2>2
<1>3. CASE job' = NoJob
  <2>1. WorkspaceSound(w, host', receipt', job') BY <1>1, <1>2, <1>3 DEF WorkspaceSound
  <2> QED BY <1>1, <1>2, <1>3, <2>1, JobEnds, OneWorkspace
<1>4. CASE job' = [NoJob EXCEPT !.at = "release", !.w = w]
  <2>1. job' \in Jobs /\ job'.at = "release" /\ job'.w = w BY <1>4, JobEnds DEF Jobs, JobStages
  <2>2. JobSound(job') BY <2>1 DEF JobSound
  <2>3. WorkspaceSound(w, host', receipt', job') BY <1>1, <1>2, <2>1 DEF WorkspaceSound, StageSound
  <2> QED BY <1>1, <1>2, <2>1, <2>2, <2>3, OneWorkspace
<1> QED BY <1>1, <1>3, <1>4 DEF ReleaseRetained, ReleaseIsolated

LEMMA UseSteps ==
  WorkspaceInv /\ NoWorkspaceIsNone /\ (UseBase \/ \E w \in Workspace : UseWorkspace(w)) => WorkspaceInv'
<1> SUFFICES ASSUME WorkspaceInv, NoWorkspaceIsNone, UseBase \/ \E w \in Workspace : UseWorkspace(w)
    PROVE WorkspaceInv'
  OBVIOUS
<1>1. host \in Hosts /\ receipt' = receipt /\ job' = job
      /\ receipt \in [Workspace -> Receipts] /\ job \in Jobs /\ JobSound(job)
  BY DEF WorkspaceInv, WorkspaceShape, UseBase, UseWorkspace
<1>2. CASE UseBase
  <2>1. /\ host' \in Hosts /\ host'.domain = host.domain /\ host'.volume = host.volume
        /\ host'.fresh = host.fresh /\ host'.loose = host.loose
    BY <1>1, <1>2 DEF UseBase, Hosts
  <2>2. \A v \in Workspace : WorkspaceSound(v, host', receipt', job')
    BY <1>1, <2>1 DEF WorkspaceInv, WorkspaceSound, StageSound
  <2> QED BY <1>1, <2>1, <2>2 DEF WorkspaceInv, WorkspaceShape
<1>3. ASSUME NEW w \in Workspace, UseWorkspace(w) PROVE WorkspaceInv'
  <2> DEFINE d == IF host.domain[w] = "stopped" THEN "started" ELSE "stopped"
  <2>1. d \in DomainStates /\ d # "absent" BY DEF DomainStates
  <2>2. host' = [host EXCEPT !.domain[w] = d] BY <1>3 DEF UseWorkspace
  <2> HIDE DEF d
  <2>3. Becomes(host, host', w, d) /\ host'.volume = host.volume BY <1>1, <2>1, <2>2, DomainSet
  <2>4. job.w # w /\ receipt[w].intent # "none" /\ host.domain[w] # "absent"
    BY <1>3 DEF UseWorkspace, Known
  <2>5. ASSUME NEW v \in Workspace PROVE WorkspaceSound(v, host', receipt', job')
    <3>1. WorkspaceSound(v, host, receipt, job) BY DEF WorkspaceInv
    <3>2. CASE v = w BY <1>1, <2>1, <2>3, <2>4, <3>1, <3>2 DEF WorkspaceSound, Becomes
    <3>3. CASE v # w
      <4>1. /\ host'.domain[v] = host.domain[v] /\ (v \in host'.volume <=> v \in host.volume)
            /\ (v \in host'.fresh <=> v \in host.fresh) /\ (v \in host'.loose <=> v \in host.loose)
        BY <2>3, <3>3 DEF Becomes, Elsewhere
      <4> QED BY <1>1, <3>1, <4>1 DEF WorkspaceSound, StageSound
    <3> QED BY <3>2, <3>3
  <2> QED BY <1>1, <2>3, <2>5 DEF WorkspaceInv, WorkspaceShape, Becomes
<1> QED BY <1>2, <1>3

-----------------------------------------------------------------------------

LEMMA WorkspaceKeepsOn == NoWorkspaceIsNone /\ WorkspaceInv /\ [WorkspaceNext]_workspaceVars => WorkspaceInv'
<1> SUFFICES ASSUME NoWorkspaceIsNone, WorkspaceInv, [WorkspaceNext]_workspaceVars PROVE WorkspaceInv' OBVIOUS
<1>1. CASE UNCHANGED workspaceVars BY <1>1 DEF workspaceVars, WorkspaceInv, WorkspaceShape
<1>2. CASE WorkspaceNext
  BY <1>2, AcquireSteps, CreateVolumeSteps, DefineSteps, LookingSteps, UndoSteps, ReceiptSteps, StartSteps,
     ReleaseSteps, ShutdownSteps, UndefineSteps, DeleteSteps, KilledSteps, UseSteps DEF WorkspaceNext
<1> QED BY <1>1, <1>2

LEMMA WorkspaceHolds == ASSUME NoWorkspaceIsNone PROVE WorkspaceSpec => []WorkspaceInv
<1>1. WorkspaceInit => WorkspaceInv BY WorkspaceStarts
<1>2. WorkspaceInv /\ [WorkspaceNext]_workspaceVars => WorkspaceInv' BY WorkspaceKeepsOn
<1> QED BY <1>1, <1>2, PTL DEF WorkspaceSpec

\* The types of the host, the receipts and the operation under way.
THEOREM WorkspaceTypesAreKept == ASSUME NoWorkspaceIsNone PROVE WorkspaceSpec => []WorkspaceTypeOK
<1>1. WorkspaceInv => WorkspaceTypeOK
  BY DEF WorkspaceInv, WorkspaceShape, WorkspaceTypeOK, Hosts, Receipts, Jobs, DomainStates, JobStages
<1> QED BY <1>1, WorkspaceHolds, PTL

\* Whatever is refused on the way, a disk at the host has a receipt to release
\* it by, and what a receipt names is still whole (workspace_domain.py, the
\* cleanup of command_derive and the order of command_release).
THEOREM NothingIsEverLost == ASSUME NoWorkspaceIsNone PROVE WorkspaceSpec => []NothingIsLost
<1>1. WorkspaceInv => NothingIsLost
  BY DEF WorkspaceInv, WorkspaceSound, NothingIsLost, Known, Whole
<1> QED BY <1>1, WorkspaceHolds, PTL

-----------------------------------------------------------------------------
(* The lease of a headset.                                                 *)

Tasks == [kind : Kinds, far : BOOLEAN, at : Places, saved : Saved, todo : SUBSET Setting, critical : BOOLEAN]
JournalRecords == [owner : Process \union {Nobody}, saved : Saved]
Headsets == [settings : Saved, near : BOOLEAN, journal : JournalRecords, listens : BOOLEAN]
AllOwn == [s \in Setting |-> Own]

QuestShape ==
  /\ headset \in Headsets /\ task \in [Process -> Tasks]
  /\ lock \in Process \union {Nobody} /\ scripts \in SUBSET Process /\ record \in BOOLEAN

\* Two invocations are not under way at once, and a headset without a journal is
\* as its user left it.
OneMoves == \A p, q \in Process : task[p].at \in Motion /\ task[q].at \in Motion => p = q
HeadsetSound(h) ==
  /\ h.journal.saved = AllOwn
  /\ h.journal.owner = Nobody => ~h.near /\ h.settings = AllOwn

\* What an invocation remembers is the user's, and what it says it put back is.
TaskSound(t, h) ==
  /\ t.at \in {"writing", "setting", "active", "restoring", "repairing"} => t.saved = AllOwn
  /\ t.at \in {"saving", "switching"} => h.journal.owner = Nobody
  /\ t.at = "setting" => h.journal.owner # Nobody
  /\ t.at \in {"restoring", "repairing"} /\ t.critical => \A s \in Setting \ t.todo : h.settings[s] = Own

QuestInv ==
  /\ QuestShape /\ OneMoves /\ HeadsetSound(headset)
  /\ \A p \in Process : TaskSound(task[p], headset)

-----------------------------------------------------------------------------

LEMMA AllOwnIsSaved == AllOwn \in Saved /\ NoJournal.saved = AllOwn /\ NoJournal.owner = Nobody /\ NoJournal \in JournalRecords
<1>1. AllOwn \in Saved BY DEF AllOwn, Saved, Values
<1>2. NoJournal = [owner |-> Nobody, saved |-> AllOwn] BY DEF NoJournal, AllOwn
<1> QED BY <1>1, <1>2 DEF JournalRecords

LEMMA IdleGives ==
  ASSUME NEW at \in {"new", "done", "dead"}, NEW far \in BOOLEAN, NEW h
  PROVE  Idle(at, far) \in Tasks /\ Idle(at, far).at = at /\ TaskSound(Idle(at, far), h) /\ at \notin Motion
<1>1. at \notin Motion BY DEF Motion
<1>2. Idle(at, far) \in Tasks BY AllOwnIsSaved DEF Idle, Tasks, Kinds, Places
<1>3. Idle(at, far).at = at BY DEF Idle
<1> QED BY <1>1, <1>2, <1>3 DEF TaskSound

LEMMA QuestStarts == QuestInit => QuestInv
<1> SUFFICES ASSUME QuestInit PROVE QuestInv OBVIOUS
<1>1. PICK far \in [Process -> BOOLEAN] : task = [p \in Process |-> Idle("new", far[p])] BY DEF QuestInit
<1>2. \A p \in Process : task[p] \in Tasks /\ task[p].at \notin Motion /\ TaskSound(task[p], headset)
  BY <1>1, IdleGives
<1>3. headset = [settings |-> AllOwn, near |-> FALSE, journal |-> NoJournal, listens |-> FALSE]
  BY DEF QuestInit, AllOwn
<1>4. headset \in Headsets /\ HeadsetSound(headset) BY <1>3, AllOwnIsSaved DEF Headsets, HeadsetSound
<1>5. task \in [Process -> Tasks] BY <1>1, <1>2
<1> QED BY <1>2, <1>4, <1>5 DEF QuestInit, QuestInv, QuestShape, OneMoves

\* A step of one invocation, which alone is under way if it changes the headset.
LEMMA OneSteps ==
  ASSUME QuestInv, NEW p \in Process, NEW n \in Tasks, task' = [task EXCEPT ![p] = n],
         headset' \in Headsets, HeadsetSound(headset'), TaskSound(n, headset'),
         lock' \in Process \union {Nobody}, scripts' \in SUBSET Process, record' \in BOOLEAN,
         headset' = headset \/ task[p].at \in Motion,
         n.at \in Motion => task[p].at \in Motion \/ \A q \in Process \ {p} : task[q].at \notin Motion
  PROVE  QuestInv'
<1>0. task \in [Process -> Tasks] BY DEF QuestInv, QuestShape
<1>1. task' \in [Process -> Tasks] /\ task'[p] = n /\ \A q \in Process : q # p => task'[q] = task[q] BY <1>0
<1>2. OneMoves' BY <1>1 DEF QuestInv, OneMoves
<1>3. ASSUME NEW q \in Process PROVE TaskSound(task'[q], headset')
  <2>1. CASE q = p BY <1>1, <2>1
  <2>2. CASE q # p /\ headset' = headset BY <1>1, <2>2 DEF QuestInv
  <2>3. CASE q # p /\ task[p].at \in Motion
    <3>1. TaskSound(task[q], headset) /\ task[q].at \notin Motion BY <2>3 DEF QuestInv, OneMoves
    <3> QED BY <1>1, <2>3, <3>1 DEF TaskSound, Motion
  <2> QED BY <2>1, <2>2, <2>3
<1> QED BY <1>1, <1>2, <1>3 DEF QuestInv, QuestShape

\* The new place of an invocation.
LEMMA GoesGives ==
  ASSUME QuestInv, NEW p \in Process, NEW at \in Places, Goes(p, at)
  PROVE  \E n \in Tasks : /\ task' = [task EXCEPT ![p] = n] /\ n.at = at
                          /\ at \in {"done", "dead"} \/ (n.saved = task[p].saved /\ n.kind = task[p].kind)
<1>0. task[p] \in Tasks /\ task[p].far \in BOOLEAN BY DEF QuestInv, QuestShape, Tasks
<1>1. CASE at \in {"done", "dead"} BY <1>0, <1>1, IdleGives DEF Goes
<1>2. CASE at \notin {"done", "dead"}
  <2> DEFINE n == [task[p] EXCEPT !.at = at]
  <2>1. n \in Tasks /\ n.at = at /\ n.saved = task[p].saved /\ n.kind = task[p].kind BY <1>0 DEF Tasks
  <2>2. task' = [task EXCEPT ![p] = n] BY <1>2 DEF Goes
  <2> HIDE DEF n
  <2> QED BY <2>1, <2>2
<1> QED BY <1>1, <1>2

LEMMA StartsGives ==
  ASSUME QuestInv, NEW p \in Process, NEW kind \in Kinds, NEW at \in Places, Starts(p, kind, at)
  PROVE  \E n \in Tasks : task' = [task EXCEPT ![p] = n] /\ n.at = at /\ n.kind = kind
<1>0. task[p] \in Tasks BY DEF QuestInv, QuestShape
<1> DEFINE n == [task[p] EXCEPT !.kind = kind, !.at = at]
<1>1. n \in Tasks /\ n.at = at /\ n.kind = kind BY <1>0 DEF Tasks
<1>2. task' = [task EXCEPT ![p] = n] BY DEF Starts
<1> HIDE DEF n
<1> QED BY <1>1, <1>2

LEMMA TurnsGives ==
  ASSUME QuestInv, NEW p \in Process, NEW at \in Places, NEW saved \in Saved, Turns(p, at, saved, Setting)
  PROVE  \E n \in Tasks : task' = [task EXCEPT ![p] = n] /\ n.at = at /\ n.saved = saved /\ n.todo = Setting
<1>0. task[p] \in Tasks BY DEF QuestInv, QuestShape
<1> DEFINE n == [task[p] EXCEPT !.at = at, !.saved = saved, !.todo = Setting, !.critical = TRUE]
<1>1. n \in Tasks /\ n.at = at /\ n.saved = saved /\ n.todo = Setting BY <1>0 DEF Tasks
<1>2. task' = [task EXCEPT ![p] = n] BY DEF Turns
<1> HIDE DEF n
<1> QED BY <1>1, <1>2

-----------------------------------------------------------------------------

LEMMA TurnGives ==
  ASSUME OneAtATime, NEW p \in Process, Turn(p)
  PROVE  \A q \in Process \ {p} : task[q].at \notin Motion
BY DEF Turn

LEMMA Reads == ASSUME ~ReadsFail, NEW j \in Journals PROVE j = headset.journal
BY DEF Journals

LEMMA Typed == ASSUME QuestInv PROVE
  /\ headset \in Headsets /\ HeadsetSound(headset) /\ headset.journal \in JournalRecords
  /\ headset.journal.saved = AllOwn /\ AllOwn \in Saved /\ headset.settings \in Saved
  /\ task \in [Process -> Tasks] /\ lock \in Process \union {Nobody} /\ scripts \in SUBSET Process /\ record \in BOOLEAN
BY AllOwnIsSaved DEF QuestInv, QuestShape, HeadsetSound, Headsets

\* An invocation that begins, looks, waits or ends changes nothing at the headset.
LEMMA BeginSteps ==
  ASSUME QuestInv, OneAtATime, ~ReadsFail, NEW p \in Process, Lock(p) \/ Begin(p) \/ Switch(p) \/ Ask(p)
  PROVE  QuestInv'
<1>0. headset' = headset /\ lock' \in Process \union {Nobody} /\ scripts' \in SUBSET Process /\ record' \in BOOLEAN
  BY Typed DEF Lock, Begin, Switch, Ask
<1>1. \A q \in Process \ {p} : task[q].at \notin Motion BY TurnGives DEF Lock, Begin, Switch, Ask
<1>2. PICK n \in Tasks : task' = [task EXCEPT ![p] = n] /\ TaskSound(n, headset)
  <2>1. CASE Goes(p, "done")
    <3>1. PICK n \in Tasks : task' = [task EXCEPT ![p] = n] /\ n.at = "done" BY <2>1, GoesGives DEF Places
    <3>2. TaskSound(n, headset) BY <3>1 DEF TaskSound
    <3> QED BY <3>1, <3>2
  <2>2. CASE \E kind \in Kinds : Starts(p, kind, "looking")
    <3>1. PICK kind \in Kinds : Starts(p, kind, "looking") BY <2>2
    <3>2. PICK n \in Tasks : task' = [task EXCEPT ![p] = n] /\ n.at = "looking"
      BY <3>1, StartsGives DEF Places, Motion
    <3>3. TaskSound(n, headset) BY <3>2 DEF TaskSound
    <3> QED BY <3>2, <3>3
  <2>3. CASE headset.journal.owner = Nobody /\ \E kind \in Kinds : Starts(p, kind, "switching")
    <3>1. PICK kind \in Kinds : Starts(p, kind, "switching") BY <2>3
    <3>2. PICK n \in Tasks : task' = [task EXCEPT ![p] = n] /\ n.at = "switching"
      BY <3>1, StartsGives DEF Places, Motion
    <3>3. TaskSound(n, headset) BY <2>3, <3>2 DEF TaskSound
    <3> QED BY <3>2, <3>3
  <2>4. CASE Turns(p, "restoring", headset.journal.saved, Setting)
    <3>1. PICK n \in Tasks : task' = [task EXCEPT ![p] = n] /\ n.at = "restoring" /\ n.saved = AllOwn /\ n.todo = Setting
      BY <2>4, Typed, TurnsGives DEF Places, Motion
    <3>2. TaskSound(n, headset) BY <3>1 DEF TaskSound
    <3> QED BY <3>1, <3>2
  <2>5. CASE Lock(p) \/ Begin(p) BY <2>1, <2>2, <2>5 DEF Lock, Begin, Begins, Kinds
  <2>6. CASE Switch(p)
    <3>1. PICK journal \in Journals, kind \in {"enable", "disable"} :
            IF journal.owner = Nobody THEN Starts(p, kind, "switching") ELSE Goes(p, "done")
      BY <2>6 DEF Switch
    <3>2. journal = headset.journal /\ kind \in Kinds BY Reads DEF Kinds
    <3> QED BY <2>1, <2>3, <3>1, <3>2
  <2>7. CASE Ask(p)
    <3>1. PICK journal \in Journals : Turns(p, "restoring", journal.saved, Setting) \/ Goes(p, "done")
      BY <2>7 DEF Ask
    <3>2. journal = headset.journal BY Reads
    <3> QED BY <2>1, <2>4, <3>1, <3>2
  <2> QED BY <2>5, <2>6, <2>7
<1> QED BY <1>0, <1>1, <1>2, Typed, OneSteps

\* An invocation under way that leaves the headset alone.
LEMMA LookSteps ==
  ASSUME QuestInv, ~ReadsFail, NEW p \in Process,
         LookAtJournal(p) \/ Save(p) \/ Started(p) \/ Unlock(p) \/ Verified(p)
  PROVE  QuestInv'
<1>0. headset' = headset /\ lock' \in Process \union {Nobody} /\ scripts' \in SUBSET Process /\ record' \in BOOLEAN
  BY Typed DEF LookAtJournal, Save, Started, Unlock, Verified, Is
<1>1. task[p].at \in Motion /\ TaskSound(task[p], headset)
  BY DEF QuestInv, LookAtJournal, Save, Started, Unlock, Verified, At, Motion
<1>2. PICK n \in Tasks : task' = [task EXCEPT ![p] = n] /\ TaskSound(n, headset)
  <2>1. CASE \E at \in {"unlocking", "done"} : Goes(p, at)
    <3>1. PICK at \in {"unlocking", "done"} : Goes(p, at) BY <2>1
    <3>2. PICK n \in Tasks : task' = [task EXCEPT ![p] = n] /\ n.at = at BY <3>1, GoesGives DEF Places, Motion
    <3>3. TaskSound(n, headset) BY <3>2 DEF TaskSound
    <3> QED BY <3>2, <3>3
  <2>2. CASE task[p].saved = AllOwn /\ Goes(p, "active")
    <3>1. PICK n \in Tasks : task' = [task EXCEPT ![p] = n] /\ n.at = "active" /\ n.saved = AllOwn
      BY <2>2, GoesGives DEF Places
    <3>2. TaskSound(n, headset) BY <3>1 DEF TaskSound
    <3> QED BY <3>1, <3>2
  <2>3. CASE headset.journal.owner = Nobody /\ Goes(p, "saving")
    <3>1. PICK n \in Tasks : task' = [task EXCEPT ![p] = n] /\ n.at = "saving" BY <2>3, GoesGives DEF Places, Motion
    <3>2. TaskSound(n, headset) BY <2>3, <3>1 DEF TaskSound
    <3> QED BY <3>1, <3>2
  <2>4. CASE \E at \in {"restoring", "repairing", "writing"} : Turns(p, at, AllOwn, Setting)
    <3>1. PICK at \in {"restoring", "repairing", "writing"} : Turns(p, at, AllOwn, Setting) BY <2>4
    <3>2. PICK n \in Tasks : task' = [task EXCEPT ![p] = n] /\ n.at = at /\ n.saved = AllOwn /\ n.todo = Setting
      BY <3>1, Typed, TurnsGives DEF Places, Motion
    <3>3. TaskSound(n, headset) BY <3>2 DEF TaskSound
    <3> QED BY <3>2, <3>3
  <2>5. CASE LookAtJournal(p)
    <3>1. PICK journal \in Journals :
            \/ journal.owner = Nobody /\ Goes(p, "saving")
            \/ Turns(p, "repairing", journal.saved, Setting) \/ Goes(p, "unlocking")
      BY <2>5 DEF LookAtJournal
    <3>2. journal = headset.journal /\ journal.saved = AllOwn BY Reads, Typed
    <3> QED BY <2>1, <2>3, <2>4, <3>1, <3>2
  <2>6. CASE Save(p)
    <3>1. headset.settings = AllOwn BY <1>1, <2>6 DEF Save, At, TaskSound, QuestInv, HeadsetSound
    <3>2. ASSUME NEW saved \in Saved, \A s \in Setting : saved[s] = headset.settings[s],
                 Turns(p, "writing", saved, Setting)
          PROVE  \E n \in Tasks : task' = [task EXCEPT ![p] = n] /\ TaskSound(n, headset)
      <4>1. saved = AllOwn BY <3>1, <3>2, AllOwnIsSaved DEF Saved
      <4> QED BY <2>4, <3>2, <4>1
    <3> QED BY <2>1, <2>6, <3>2 DEF Save
  <2>7. CASE Started(p)
    <3>1. task[p].saved = AllOwn BY <1>1, <2>7 DEF Started, At, TaskSound
    <3> QED BY <2>1, <2>2, <2>4, <2>7, <3>1 DEF Started
  <2>8. CASE Unlock(p) \/ Verified(p) BY <2>1, <2>8 DEF Unlock, Verified
  <2> QED BY <2>5, <2>6, <2>7, <2>8
<1> QED BY <1>0, <1>1, <1>2, Typed, OneSteps

\* One that dies, or whose child ends.
LEMMA DieSteps ==
  ASSUME QuestInv, OneAtATime, NEW p \in Process, Die(p) \/ ChildEnds(p) PROVE QuestInv'
<1>0. headset' = headset /\ UNCHANGED <<lock, scripts, record>> /\ TaskSound(task[p], headset)
  BY DEF Die, ChildEnds, QuestInv
<1>1. CASE Die(p)
  <2>1. PICK n \in Tasks : task' = [task EXCEPT ![p] = n] /\ n.at = "dead" BY <1>1, GoesGives DEF Die, Places
  <2>2. TaskSound(n, headset) /\ n.at \notin Motion BY <2>1 DEF TaskSound, Motion
  <2> QED BY <1>0, <2>1, <2>2, Typed, OneSteps
<1>2. CASE ChildEnds(p)
  <2>1. task[p].saved = AllOwn BY <1>0, <1>2 DEF ChildEnds, At, TaskSound
  <2>2. PICK n \in Tasks : task' = [task EXCEPT ![p] = n] /\ n.at = "restoring" /\ n.saved = AllOwn /\ n.todo = Setting
    BY <1>2, <2>1, Typed, TurnsGives DEF ChildEnds, Places, Motion
  <2>3. TaskSound(n, headset) BY <2>2 DEF TaskSound
  <2>4. \A q \in Process \ {p} : task[q].at \notin Motion BY <1>2, TurnGives DEF ChildEnds
  <2> QED BY <1>0, <2>2, <2>3, <2>4, Typed, OneSteps
<1> QED BY <1>1, <1>2

\* The parts of the headset, changed one at a time.
LEMMA Journaled ==
  ASSUME NEW h \in Headsets, NEW j \in JournalRecords, NEW k, k = [h EXCEPT !.journal = j]
  PROVE  k \in Headsets /\ k.journal = j /\ k.settings = h.settings /\ k.near = h.near
BY DEF Headsets

LEMMA SetGives ==
  ASSUME headset \in Headsets, NEW s \in Setting, NEW v \in Values, NEW k, k = Set(s, v)
  PROVE  /\ k \in Headsets /\ k.journal = headset.journal /\ k.near = headset.near
         /\ k.settings[s] = v /\ \A r \in Setting : r # s => k.settings[r] = headset.settings[r]
<1>1. headset.settings \in [Setting -> Values] BY DEF Headsets, Saved
<1> DEFINE e == [headset.settings EXCEPT ![s] = v]
<1>2. e \in Saved /\ e[s] = v /\ \A r \in Setting : r # s => e[r] = headset.settings[r] BY <1>1 DEF Saved
<1> HIDE DEF e
<1>3. k = [headset EXCEPT !.settings = e] BY DEF Set, e
<1> QED BY <1>2, <1>3 DEF Headsets

LEMMA JournalSteps ==
  ASSUME QuestInv, NobodyIsNoProcess, NEW p \in Process, WriteJournal(p) PROVE QuestInv'
<1>0. UNCHANGED <<lock, scripts, record>> /\ task[p].at \in Motion /\ TaskSound(task[p], headset)
      /\ task[p].saved = AllOwn
  BY DEF WriteJournal, QuestInv, At, Motion, TaskSound
<1>1. CASE Goes(p, "unlocking") /\ UNCHANGED headset
  <2>1. PICK n \in Tasks : task' = [task EXCEPT ![p] = n] /\ n.at = "unlocking" BY <1>1, GoesGives DEF Places, Motion
  <2>2. TaskSound(n, headset) BY <2>1 DEF TaskSound
  <2> QED BY <1>0, <1>1, <2>1, <2>2, Typed, OneSteps
<1>2. ASSUME NEW place \in {"setting", "unlocking"}, Goes(p, place),
             headset' = [headset EXCEPT !.journal = [owner |-> p, saved |-> task[p].saved]]
      PROVE  QuestInv'
  <2> DEFINE j == [owner |-> p, saved |-> AllOwn]
  <2>1. j \in JournalRecords /\ j.owner # Nobody /\ j.saved = AllOwn
    BY AllOwnIsSaved DEF JournalRecords, NobodyIsNoProcess
  <2>2. headset' = [headset EXCEPT !.journal = j] BY <1>0, <1>2
  <2> HIDE DEF j
  <2>3. headset' \in Headsets /\ headset'.journal = j BY <2>1, <2>2, Typed, Journaled
  <2>4. HeadsetSound(headset') BY <2>1, <2>3 DEF HeadsetSound
  <2>5. PICK n \in Tasks : task' = [task EXCEPT ![p] = n] /\ n.at = place /\ n.saved = AllOwn
    BY <1>0, <1>2, GoesGives DEF Places, Motion
  <2>6. TaskSound(n, headset') BY <2>1, <2>3, <2>5 DEF TaskSound
  <2> QED BY <1>0, <2>3, <2>4, <2>5, <2>6, Typed, OneSteps
<1> QED BY <1>1, <1>2 DEF WriteJournal

LEMMA ChangeSteps == ASSUME QuestInv, NEW p \in Process, Change(p) PROVE QuestInv'
<1>0. /\ UNCHANGED <<lock, scripts, record>> /\ task[p].at = "setting" /\ "setting" \in Motion
      /\ task[p].saved = AllOwn /\ headset.journal.owner # Nobody /\ task[p] \in Tasks
  BY DEF Change, QuestInv, QuestShape, At, Motion, TaskSound
<1>1. CASE headset' = [headset EXCEPT !.near = TRUE] /\ UNCHANGED task
  <2>1. headset' \in Headsets /\ headset'.journal = headset.journal BY <1>1, Typed DEF Headsets
  <2>2. HeadsetSound(headset') BY <1>0, <2>1, Typed DEF HeadsetSound
  <2>3. task' = [task EXCEPT ![p] = task[p]] BY <1>1, Typed
  <2>4. TaskSound(task[p], headset') BY <1>0, <2>1 DEF TaskSound
  <2> QED BY <1>0, <2>1, <2>2, <2>3, <2>4, Typed, OneSteps
<1>2. ASSUME NEW s \in task[p].todo, headset' \in {headset, Set(s, Leased)},
             task' = [task EXCEPT ![p] = [task[p] EXCEPT !.todo = task[p].todo \ {s}]]
      PROVE  QuestInv'
  <2>1. s \in Setting /\ Leased \in Values BY <1>0 DEF Tasks, Values
  <2>2. headset' \in Headsets /\ headset'.journal = headset.journal BY <1>2, <2>1, Typed, SetGives
  <2>3. HeadsetSound(headset') BY <1>0, <2>2, Typed DEF HeadsetSound
  <2> DEFINE n == [task[p] EXCEPT !.todo = task[p].todo \ {s}]
  <2>4. n \in Tasks /\ n.at = "setting" /\ n.saved = AllOwn BY <1>0 DEF Tasks
  <2> HIDE DEF n
  <2>5. TaskSound(n, headset') BY <1>0, <2>2, <2>4 DEF TaskSound
  <2>6. task' = [task EXCEPT ![p] = n] BY <1>2 DEF n
  <2> QED BY <1>0, <2>2, <2>3, <2>4, <2>5, <2>6, Typed, OneSteps
<1> QED BY <1>1, <1>2 DEF Change

LEMMA RestoreSteps == ASSUME QuestInv, NEW p \in Process, Restore(p) PROVE QuestInv'
<1>0. /\ UNCHANGED <<lock, scripts, record>> /\ task[p].at \in {"restoring", "repairing"} /\ task[p].at \in Motion
      /\ task[p].saved = AllOwn /\ task[p] \in Tasks /\ TaskSound(task[p], headset)
  BY DEF Restore, QuestInv, QuestShape, Motion, TaskSound
<1>1. PICK s \in task[p].todo, ok \in BOOLEAN :
       /\ headset' = IF ok THEN Set(s, task[p].saved[s]) ELSE headset
       /\ task' = [task EXCEPT ![p] = [task[p] EXCEPT !.todo = task[p].todo \ {s}, !.critical = task[p].critical /\ ok]]
  BY DEF Restore
<1>2. s \in Setting /\ Own \in Values /\ task[p].saved[s] = Own BY <1>0 DEF Tasks, Values, AllOwn
<1>3. /\ headset' \in Headsets /\ headset'.journal = headset.journal /\ headset'.near = headset.near
      /\ (ok => headset'.settings[s] = Own)
      /\ \A r \in Setting : headset'.settings[r] \in {Own, headset.settings[r]}
  <2>1. CASE ok BY <1>1, <1>2, <2>1, Typed, SetGives
  <2>2. CASE ~ok BY <1>1, <2>2, Typed
  <2> QED BY <2>1, <2>2
<1>4. HeadsetSound(headset')
  <2>1. headset.settings = AllOwn => headset'.settings = AllOwn
    <3>1. headset'.settings \in Saved BY <1>3 DEF Headsets
    <3> QED BY <1>3, <3>1, AllOwnIsSaved DEF Saved, AllOwn
  <2> QED BY <1>3, <2>1, Typed DEF HeadsetSound
<1> DEFINE c == task[p].critical /\ ok
<1>5. task' = [task EXCEPT ![p] = [task[p] EXCEPT !.todo = task[p].todo \ {s}, !.critical = c]] BY <1>1
<1>c. c \in BOOLEAN /\ (c => task[p].critical /\ ok) OBVIOUS
<1> HIDE DEF c
<1> DEFINE n == [task[p] EXCEPT !.todo = task[p].todo \ {s}, !.critical = c]
<1>6. /\ n \in Tasks /\ n.at = task[p].at /\ n.saved = task[p].saved
      /\ n.todo = task[p].todo \ {s} /\ n.critical = c
  BY <1>0, <1>c DEF Tasks
<1> HIDE DEF n
<1>n. task' = [task EXCEPT ![p] = n] BY <1>5 DEF n
<1>7. TaskSound(n, headset') BY <1>0, <1>3, <1>6, <1>c DEF TaskSound
<1> QED BY <1>0, <1>3, <1>4, <1>6, <1>n, <1>7, Typed, OneSteps

LEMMA EndSteps == ASSUME QuestInv, NEW p \in Process, EndRestore(p) PROVE QuestInv'
<1>0. /\ UNCHANGED <<lock, scripts, record>> /\ task[p].at \in {"restoring", "repairing"} /\ task[p].at \in Motion
      /\ task[p].todo = {} /\ TaskSound(task[p], headset)
  BY DEF EndRestore, QuestInv, Motion
<1>1. PICK ok \in BOOLEAN, cleared \in BOOLEAN :
       /\ cleared => ok /\ Restored(p)
       /\ headset' = [headset EXCEPT !.near = headset.near /\ ~ok, !.journal = IF cleared THEN NoJournal ELSE @]
       /\ Goes(p, IF At(p, "repairing") /\ cleared THEN "saving" ELSE "unlocking")
  BY DEF EndRestore
<1> DEFINE near == headset.near /\ ~ok
           j == IF cleared THEN NoJournal ELSE headset.journal
<1>2. near \in BOOLEAN /\ (ok => ~near) /\ (near => headset.near) BY Typed DEF Headsets
<1>3. j \in JournalRecords /\ j.saved = AllOwn /\ (cleared => j.owner = Nobody) /\ (~cleared => j = headset.journal)
  BY Typed, AllOwnIsSaved
<1>4. headset' = [headset EXCEPT !.near = near, !.journal = j] BY <1>1
<1> HIDE DEF near, j
<1>5. headset' \in Headsets /\ headset'.journal = j /\ headset'.near = near /\ headset'.settings = headset.settings
  BY <1>2, <1>3, <1>4, Typed DEF Headsets
<1>6. cleared => headset.settings = AllOwn
  <2> SUFFICES ASSUME cleared PROVE headset.settings = AllOwn OBVIOUS
  <2>1. \A s \in Setting : headset.settings[s] = Own BY <1>0, <1>1 DEF Restored, TaskSound
  <2> QED BY <2>1, Typed DEF Saved, AllOwn
<1>7. HeadsetSound(headset') BY <1>1, <1>2, <1>3, <1>5, <1>6, Typed DEF HeadsetSound
<1>8. PICK n \in Tasks : /\ task' = [task EXCEPT ![p] = n]
                         /\ n.at = IF At(p, "repairing") /\ cleared THEN "saving" ELSE "unlocking"
  BY <1>1, GoesGives DEF Places, Motion
<1>9. TaskSound(n, headset') BY <1>3, <1>5, <1>8 DEF TaskSound
<1> QED BY <1>0, <1>5, <1>7, <1>8, <1>9, Typed, OneSteps

\* The wireless switch, which opens the transport only without a lease.
LEMMA SwitchSteps ==
  ASSUME QuestInv, NEW p \in Process, Switched(p)
  PROVE  QuestInv' /\ headset.journal.owner = Nobody
<1>0. /\ UNCHANGED <<lock, scripts, record>> /\ task[p].at = "switching" /\ "switching" \in Motion
      /\ TaskSound(task[p], headset)
  BY DEF Switched, QuestInv, At, Motion
<1>1. headset.journal.owner = Nobody BY <1>0 DEF TaskSound
<1>2. PICK done \in BOOLEAN :
       /\ headset' \in {[headset EXCEPT !.listens = Is(p, "enable")]} \union (IF done THEN {} ELSE {headset})
       /\ Goes(p, IF done THEN "verifying" ELSE "done")
  BY DEF Switched
<1> DEFINE on == Is(p, "enable")
<1>3. headset' = headset \/ headset' = [headset EXCEPT !.listens = on] BY <1>2
<1>4. on \in BOOLEAN BY DEF Is
<1> HIDE DEF on
<1>5. /\ headset' \in Headsets /\ headset'.journal = headset.journal /\ headset'.near = headset.near
      /\ headset'.settings = headset.settings
  BY <1>3, <1>4, Typed DEF Headsets
<1>6. HeadsetSound(headset') BY <1>5, Typed DEF HeadsetSound
<1>7. PICK n \in Tasks : /\ task' = [task EXCEPT ![p] = n] /\ n.at = IF done THEN "verifying" ELSE "done"
  BY <1>2, GoesGives DEF Places, Motion
<1>8. TaskSound(n, headset') BY <1>7 DEF TaskSound
<1> QED BY <1>0, <1>1, <1>5, <1>6, <1>7, <1>8, Typed, OneSteps

LEMMA RestartSteps == ASSUME QuestInv, Restart \/ ScriptEnds PROVE QuestInv'
<1>1. CASE Restart
  <2>1. /\ headset' \in Headsets /\ headset'.journal = headset.journal /\ ~headset'.near
        /\ headset'.settings = headset.settings
    BY <1>1, Typed DEF Restart, Headsets
  <2>2. HeadsetSound(headset') BY <2>1, Typed DEF HeadsetSound
  <2>3. \A p \in Process : TaskSound(task[p], headset') BY <2>1 DEF QuestInv, TaskSound
  <2> QED BY <1>1, <2>1, <2>2, <2>3, Typed DEF Restart, QuestInv, QuestShape, OneMoves
<1>2. CASE ScriptEnds
  <2>1. scripts' \in SUBSET Process BY <1>2, Typed DEF ScriptEnds
  <2> QED BY <1>2, <2>1, Typed DEF ScriptEnds, QuestInv, QuestShape, OneMoves
<1> QED BY <1>1, <1>2

-----------------------------------------------------------------------------

\* What the proof is about: invocations that take turns, and reads that answer.
LEMMA QuestKeepsOn ==
  ASSUME NobodyIsNoProcess, OneAtATime, ~ReadsFail, QuestInv, [QuestNext]_questVars PROVE QuestInv'
<1>1. CASE UNCHANGED questVars
  BY <1>1 DEF questVars, QuestInv, QuestShape, OneMoves
<1>2. ASSUME NEW p \in Process, QuestStep(p) PROVE QuestInv'
  BY <1>2, BeginSteps, LookSteps, DieSteps, JournalSteps, ChangeSteps, RestoreSteps, EndSteps, SwitchSteps
  DEF QuestStep
<1>3. CASE Restart \/ ScriptEnds BY <1>3, RestartSteps
<1> QED BY <1>1, <1>2, <1>3 DEF QuestNext

LEMMA QuestHolds ==
  ASSUME NobodyIsNoProcess, OneAtATime, ~ReadsFail PROVE QuestSpec => []QuestInv
<1>1. QuestInit => QuestInv BY QuestStarts
<1>2. QuestInv /\ [QuestNext]_questVars => QuestInv' BY QuestKeepsOn
<1> QED BY <1>1, <1>2, PTL DEF QuestSpec

\* The types of the headset, its journal and the invocations.
THEOREM QuestTypesAreKept ==
  ASSUME NobodyIsNoProcess, OneAtATime, ~ReadsFail PROVE QuestSpec => []QuestTypeOK
<1>1. QuestInv => QuestTypeOK
  BY DEF QuestInv, QuestShape, QuestTypeOK, Headsets, JournalRecords, Tasks
<1> QED BY <1>1, QuestHolds, PTL

\* What a lease changed at a headset can be put back from the journal on it,
\* whichever command failed and whoever was killed (quest.py: new_journal,
\* restore_journal), while no two invocations are under way at once.
THEOREM ChangesStayRecoverable ==
  ASSUME NobodyIsNoProcess, OneAtATime, ~ReadsFail PROVE QuestSpec => []ChangesAreRecoverable
<1>1. QuestInv => ChangesAreRecoverable
  <2> SUFFICES ASSUME QuestInv, headset.near \/ \E s \in Setting : headset.settings[s] # Own
               PROVE  headset.journal.owner # Nobody /\ headset.journal.saved = NoJournal.saved
    BY DEF ChangesAreRecoverable
  <2>1. headset.settings = AllOwn => \A s \in Setting : headset.settings[s] = Own BY DEF AllOwn
  <2> QED BY <2>1, AllOwnIsSaved DEF QuestInv, HeadsetSound
<1> QED BY <1>1, QuestHolds, PTL

\* The transport of a headset is not opened under a lease.
THEOREM TransportIsKept ==
  ASSUME NobodyIsNoProcess, OneAtATime, ~ReadsFail PROVE QuestSpec => TransportStays
<1>1. QuestInv /\ [QuestNext]_questVars => [ListensUnleased]_questVars
  <2> SUFFICES ASSUME QuestInv, QuestNext, headset'.listens # headset.listens, headset'.listens
               PROVE  headset.journal.owner = Nobody
    BY DEF ListensUnleased
  <2>1. CASE \E p \in Process : Switched(p) BY <2>1, SwitchSteps
  <2>2. CASE headset'.listens = headset.listens \/ headset'.listens = FALSE BY <2>2
  <2>3. CASE Restart BY <2>2, <2>3, Typed DEF Restart, Headsets
  <2>4. ASSUME NEW p \in Process, QuestStep(p), ~Switched(p) PROVE headset'.listens = headset.listens
    <3>1. headset \in Headsets BY Typed
    <3> QED BY <2>4, <3>1 DEF QuestStep, Lock, Begin, LookAtJournal, Save, WriteJournal, Change, Started, ChildEnds, Ask,
              Restore, EndRestore, Unlock, Switch, Verified, Die, Set, Headsets
  <2> QED BY <2>1, <2>2, <2>3, <2>4 DEF QuestNext, ScriptEnds
<1> QED BY <1>1, QuestHolds, PTL DEF QuestSpec, TransportStays

-----------------------------------------------------------------------------
(* The candidates of one name of a libvirt host.                           *)

CreationPlaces == {"new", "checking", "making", "rollback", "created", "failed", "removed"}
Creations == [at : CreationPlaces, checked : SUBSET Volumes, owned : SUBSET Volumes]
DomainShape ==
  /\ domain \in [by : Creation \union {NoCreation}, power : {"off", "running"}, media : SUBSET {"installer", "seed"}]
  /\ volume \in [Volumes -> Creation \union {NoCreation}]
  /\ making \in [Creation -> Creations]
  /\ taking \in [op : {"none", "detach", "delete"}, volumes : SUBSET Volumes]

\* What a creation is at: it owns nothing before it makes the first volume,
\* what it owns is of its making, and created it has its disk and its media.
CreationSound(c) ==
  /\ making[c].at \in {"new", "checking"} => making[c].owned = {}
  /\ making[c].at \in {"making", "rollback"} => \A v \in making[c].owned : volume[v] = c
  /\ making[c].at = "created" => volume["system"] = c
  /\ making[c].at = "created" /\ domain.by = c => \A v \in domain.media : volume[v] = c

\* What is being taken away was made by one that has let it go: it is removed,
\* or created and this is a medium that is not attached to its domain.
LetGo(v, c) ==
  \/ making[c].at = "removed"
  \/ making[c].at = "created" /\ v # "system" /\ (domain.by = c => v \notin domain.media)
TakingSound == \A v \in taking.volumes : volume[v] \in Creation /\ LetGo(v, volume[v])

CreationsSound == \A c \in Creation : CreationSound(c)
DomainInv == DomainShape /\ CreationsSound /\ TakingSound

LEMMA DomainStarts == ASSUME FactoryInit PROVE DomainInv
<1>1. DomainShape BY DEF FactoryInit, DomainShape, NoDomain, NothingTaken, Creations, CreationPlaces
<1>2. CreationsSound BY DEF FactoryInit, CreationsSound, CreationSound
<1>3. TakingSound BY DEF FactoryInit, TakingSound, NothingTaken
<1> QED BY <1>1, <1>2, <1>3 DEF DomainInv

\* A step of one creation that is not over, with no volume but its own.
LEMMA OneCreates ==
  ASSUME CreationsDiffer, DomainInv, NEW c \in Creation, NEW r \in Creations, making' = [making EXCEPT ![c] = r],
         volume' \in [Volumes -> Creation \union {NoCreation}], UNCHANGED <<domain, taking>>,
         making[c].at \notin {"created", "removed"},
         \A v \in Volumes : volume'[v] = volume[v] \/ (volume[v] \in {c, NoCreation} /\ volume'[v] \in {c, NoCreation}),
         r.at \in {"new", "checking"} => r.owned = {},
         r.at \in {"making", "rollback"} => \A v \in r.owned : volume'[v] = c,
         r.at # "created"
  PROVE  DomainInv'
<1>0. DomainShape /\ CreationsSound /\ TakingSound BY DEF DomainInv
<1>1. \A d \in Creation : making'[d] = IF d = c THEN r ELSE making[d] BY <1>0 DEF DomainShape
<1>2. DomainShape' BY <1>0 DEF DomainShape
<1>3. CreationsSound'
  <2> SUFFICES ASSUME NEW d \in Creation PROVE CreationSound(d)' BY DEF CreationsSound
  <2>1. CASE d = c BY <1>1, <2>1 DEF CreationSound
  <2>2. CASE d # c
    <3>1. making'[d] = making[d] /\ CreationSound(d) /\ making[d] \in Creations
      BY <1>0, <1>1, <2>2 DEF CreationsSound, DomainShape
    <3>2. \A v \in Volumes : volume[v] = d => volume'[v] = d BY <2>2 DEF CreationsDiffer
    <3>3. making[d].owned \subseteq Volumes /\ domain.media \subseteq Volumes /\ "system" \in Volumes
      BY <1>0, <3>1 DEF DomainShape, Creations, Volumes
    <3> QED BY <3>1, <3>2, <3>3 DEF CreationSound
  <2> QED BY <2>1, <2>2
<1>4. TakingSound'
  <2> SUFFICES ASSUME NEW v \in taking.volumes PROVE volume'[v] \in Creation /\ LetGo(v, volume[v])' BY DEF TakingSound
  <2>1. volume[v] \in Creation /\ LetGo(v, volume[v]) /\ v \in Volumes BY <1>0 DEF TakingSound, DomainShape
  <2>2. volume[v] # c /\ volume[v] # NoCreation BY <2>1 DEF LetGo, CreationsDiffer
  <2>3. volume'[v] = volume[v] /\ making'[volume[v]] = making[volume[v]] BY <1>1, <2>1, <2>2
  <2> QED BY <2>1, <2>3 DEF LetGo
<1> QED BY <1>2, <1>3, <1>4 DEF DomainInv

LEMMA BeginAndCheck ==
  ASSUME CreationsDiffer, DomainInv, NEW c \in Creation, BeginCreation(c) \/ CheckVolume(c) PROVE DomainInv'
<1>0. DomainShape /\ CreationSound(c) BY DEF DomainInv, CreationsSound
<1>1. making[c] \in Creations /\ volume \in [Volumes -> Creation \union {NoCreation}] BY <1>0 DEF DomainShape
<1>2. Needed(c) \subseteq Volumes BY DEF Needed, Volumes
<1>3. CASE BeginCreation(c)
  <2>1. PICK place \in {"checking", "failed"} : making' = [making EXCEPT ![c] = [making[c] EXCEPT !.at = place]]
    BY <1>3 DEF BeginCreation, CreationGoes
  <2> DEFINE r == [making[c] EXCEPT !.at = place]
  <2>2. r \in Creations /\ r.at = place /\ r.owned = {}
    BY <1>0, <1>1, <1>3 DEF Creations, CreationPlaces, CreationSound, BeginCreation
  <2> QED BY <1>1, <1>3, <2>1, <2>2, OneCreates DEF BeginCreation
<1>4. CASE CheckVolume(c)
  <2>1. PICK r \in Creations : /\ making' = [making EXCEPT ![c] = r] /\ r.owned = {}
                               /\ r.at \in {"failed", "checking", "making"}
    <3>1. PICK v \in Needed(c) \ making[c].checked :
            making' = [making EXCEPT ![c] =
              IF volume[v] # NoCreation THEN [making[c] EXCEPT !.at = "failed"]
              ELSE [making[c] EXCEPT !.checked = @ \union {v},
                      !.at = IF Needed(c) \ making[c].checked = {v} THEN "making" ELSE @]]
      BY <1>4 DEF CheckVolume
    <3>2. making[c].at = "checking" /\ making[c].owned = {} BY <1>0, <1>4 DEF CheckVolume, CreationSound
    <3>3. CASE volume[v] # NoCreation
      <4>1. [making[c] EXCEPT !.at = "failed"] \in Creations BY <1>1 DEF Creations, CreationPlaces
      <4> QED BY <1>1, <3>1, <3>2, <3>3, <4>1 DEF Creations
    <3>4. CASE volume[v] = NoCreation
      <4> DEFINE r == [making[c] EXCEPT !.checked = @ \union {v},
                         !.at = IF Needed(c) \ making[c].checked = {v} THEN "making" ELSE @]
      <4>1. r \in Creations /\ r.owned = {} /\ r.at \in {"checking", "making"}
        BY <1>1, <1>2, <3>2 DEF Creations, CreationPlaces
      <4> QED BY <3>1, <3>4, <4>1
    <3> QED BY <3>3, <3>4
  <2> QED BY <1>1, <1>4, <2>1, OneCreates DEF CheckVolume
<1> QED BY <1>3, <1>4

LEMMA Making ==
  ASSUME CreationsDiffer, DomainInv, NEW c \in Creation, MakeVolume(c) \/ MakeVolumeFails(c) PROVE DomainInv'
<1>0. DomainShape /\ CreationSound(c) BY DEF DomainInv, CreationsSound
<1>1. making[c] \in Creations /\ volume \in [Volumes -> Creation \union {NoCreation}] BY <1>0 DEF DomainShape
<1>2. making[c].at = "making" /\ \A v \in making[c].owned : volume[v] = c
  BY <1>0 DEF MakeVolume, MakeVolumeFails, CreationSound
<1>3. CASE MakeVolume(c)
  <2> DEFINE v == NextVolume(c)
  <2> DEFINE r == [making[c] EXCEPT !.owned = @ \union {v}]
  <2>1. v \in Volumes BY DEF NextVolume, Volumes
  <2>2. r \in Creations /\ r.at = "making" /\ r.owned = making[c].owned \union {v} BY <1>1, <1>2, <2>1 DEF Creations
  <2>3. /\ volume[v] = NoCreation /\ volume' = [volume EXCEPT ![v] = c]
        /\ making' = [making EXCEPT ![c] = r] /\ UNCHANGED <<domain, taking>>
    BY <1>3 DEF MakeVolume
  <2> HIDE DEF v
  <2>4. /\ volume' \in [Volumes -> Creation \union {NoCreation}]
        /\ \A w \in Volumes : volume'[w] = IF w = v THEN c ELSE volume[w]
    BY <1>1, <2>1, <2>3
  <2>5. \A w \in r.owned : volume'[w] = c BY <1>1, <1>2, <2>1, <2>2, <2>4 DEF Creations
  <2> QED BY <1>2, <2>2, <2>3, <2>4, <2>5, OneCreates
<1>4. CASE MakeVolumeFails(c)
  <2>1. PICK place \in {"failed", "rollback"} : making' = [making EXCEPT ![c] = [making[c] EXCEPT !.at = place]]
    BY <1>4 DEF MakeVolumeFails, CreationGoes
  <2> DEFINE r == [making[c] EXCEPT !.at = place]
  <2>2. r \in Creations /\ r.at = place /\ r.owned = making[c].owned BY <1>1 DEF Creations, CreationPlaces
  <2> QED BY <1>1, <1>2, <1>4, <2>1, <2>2, OneCreates DEF MakeVolumeFails
<1> QED BY <1>3, <1>4

\* Whoever has the domain now, what is being taken is none of its media: the
\* media of a new domain are owned by a creation that is still under way.
LEMMA Defining == ASSUME CreationsDiffer, DomainInv, NEW c \in Creation, DefineDomain(c) PROVE DomainInv'
<1>0. DomainShape /\ CreationsSound /\ TakingSound BY DEF DomainInv
<1>1. making[c] \in Creations /\ making[c].at = "making" /\ making[c].owned = Needed(c)
  BY <1>0 DEF DomainShape, DefineDomain
<1>2. \A v \in Needed(c) : volume[v] = c BY <1>0, <1>1 DEF CreationsSound, CreationSound
<1>3. "system" \in Needed(c) /\ Needed(c) \subseteq Volumes BY DEF Needed, Volumes
<1>4. PICK place \in {"created", "rollback"} :
        /\ making' = [making EXCEPT ![c] = [making[c] EXCEPT !.at = place]]
        /\ UNCHANGED <<volume, taking>>
        /\ \/ domain.by = NoCreation /\ domain' = [by |-> c, power |-> "off", media |-> Needed(c) \ {"system"}]
           \/ UNCHANGED domain /\ place = "rollback"
  BY DEF DefineDomain, CreationGoes
<1> DEFINE r == [making[c] EXCEPT !.at = place]
<1>5. r \in Creations /\ r.at = place /\ r.owned = Needed(c) BY <1>1 DEF Creations, CreationPlaces
<1> HIDE DEF r
<1>6. CASE UNCHANGED domain /\ place = "rollback"
  <2>1. making' = [making EXCEPT ![c] = r] /\ UNCHANGED <<domain, taking>> BY <1>4, <1>6 DEF r
  <2>2. volume' = volume /\ volume' \in [Volumes -> Creation \union {NoCreation}] BY <1>0, <1>4 DEF DomainShape
  <2>3. r.at = "rollback" /\ \A v \in r.owned : volume'[v] = c BY <1>2, <1>5, <1>6, <2>2
  <2> QED BY <1>1, <1>5, <2>1, <2>2, <2>3, OneCreates
<1>7. CASE domain.by = NoCreation /\ domain' = [by |-> c, power |-> "off", media |-> Needed(c) \ {"system"}]
  <2>1. \A d \in Creation : making'[d] = IF d = c THEN r ELSE making[d] BY <1>0, <1>4 DEF DomainShape, r
  <2>2. domain'.by = c /\ domain'.media = Needed(c) \ {"system"} BY <1>7
  <2>3. DomainShape'
    <3>1. Needed(c) \ {"system"} \subseteq {"installer", "seed"} BY <1>3 DEF Volumes
    <3>2. domain' \in [by : Creation \union {NoCreation}, power : {"off", "running"}, media : SUBSET {"installer", "seed"}]
      BY <1>7, <3>1
    <3> QED BY <1>0, <1>4, <1>5, <3>2 DEF DomainShape, r
  <2>4. CreationsSound'
    <3> SUFFICES ASSUME NEW d \in Creation PROVE CreationSound(d)' BY DEF CreationsSound
    <3>1. CASE d = c
      <4>1. making'[d] = r /\ volume' = volume BY <1>4, <2>1, <3>1
      <4>2. r.at \in {"created", "rollback"} /\ \A v \in r.owned : volume'[v] = d BY <1>2, <1>5, <3>1, <4>1
      <4>3. volume'["system"] = d /\ \A v \in domain'.media : volume'[v] = d BY <1>2, <1>3, <2>2, <3>1, <4>1
      <4> QED BY <4>1, <4>2, <4>3 DEF CreationSound
    <3>2. CASE d # c BY <1>0, <1>4, <2>1, <2>2, <3>2 DEF CreationSound, CreationsSound
    <3> QED BY <3>1, <3>2
  <2>5. TakingSound'
    <3> SUFFICES ASSUME NEW v \in taking.volumes PROVE volume[v] \in Creation /\ LetGo(v, volume[v])'
      BY <1>4 DEF TakingSound, LetGo
    <3>1. volume[v] \in Creation /\ LetGo(v, volume[v]) BY <1>0 DEF TakingSound
    <3>2. volume[v] # c BY <1>1, <3>1 DEF LetGo
    <3>3. making'[volume[v]] = making[volume[v]] BY <2>1, <3>1, <3>2
    <3> QED BY <1>4, <2>2, <3>1, <3>2, <3>3 DEF LetGo
  <2> QED BY <2>3, <2>4, <2>5 DEF DomainInv
<1> QED BY <1>4, <1>6, <1>7

LEMMA RollingBack == ASSUME CreationsDiffer, DomainInv, NEW c \in Creation, RollBack(c) PROVE DomainInv'
<1>0. DomainShape /\ CreationsSound /\ TakingSound BY DEF DomainInv
<1>1. making[c] \in Creations /\ making[c].at = "rollback" /\ \A v \in making[c].owned : volume[v] = c
  BY <1>0 DEF DomainShape, RollBack, CreationsSound, CreationSound
<1>2. \A d \in Creation : making'[d] = IF d = c THEN [making[c] EXCEPT !.at = "failed"] ELSE making[d]
  BY <1>0 DEF DomainShape, RollBack, CreationGoes
<1>3. [making[c] EXCEPT !.at = "failed"] \in Creations BY <1>1 DEF Creations, CreationPlaces
<1>4. domain' = domain \/ domain' = NoDomain BY DEF RollBack
<1>5. \A v \in Volumes : volume'[v] = IF v \in making[c].owned THEN NoCreation ELSE volume[v]
  BY DEF RollBack, Removable
<1>6. DomainShape'
  <2>1. making' \in [Creation -> Creations] BY <1>0, <1>3 DEF DomainShape, RollBack, CreationGoes
  <2>2. volume' \in [Volumes -> Creation \union {NoCreation}] BY <1>0 DEF DomainShape, RollBack
  <2>3. NoDomain \in [by : Creation \union {NoCreation}, power : {"off", "running"}, media : SUBSET {"installer", "seed"}]
    BY DEF NoDomain
  <2> QED BY <1>0, <1>4, <2>1, <2>2, <2>3 DEF DomainShape, RollBack
<1>7. (domain'.by = domain.by /\ domain'.media = domain.media) \/ domain'.by = NoCreation BY <1>4 DEF NoDomain
<1>8. \A d \in Creation : \A v \in Volumes : d # c /\ volume[v] = d => volume'[v] = d BY <1>1, <1>5
<1>9. CreationsSound'
  <2> SUFFICES ASSUME NEW d \in Creation PROVE CreationSound(d)' BY DEF CreationsSound
  <2>1. CASE d = c BY <1>1, <1>2, <2>1 DEF CreationSound, Creations
  <2>2. CASE d # c
    <3>1. making'[d] = making[d] /\ CreationSound(d) /\ making[d] \in Creations
      BY <1>0, <1>2, <2>2 DEF CreationsSound, DomainShape
    <3>2. making[d].owned \subseteq Volumes /\ domain.media \subseteq Volumes /\ "system" \in Volumes
      BY <1>0, <3>1 DEF DomainShape, Creations, Volumes
    <3>3. d # NoCreation BY DEF CreationsDiffer
    <3> QED BY <1>7, <1>8, <2>2, <3>1, <3>2, <3>3 DEF CreationSound
  <2> QED BY <2>1, <2>2
<1>10. TakingSound'
  <2> SUFFICES ASSUME NEW v \in taking.volumes PROVE volume'[v] \in Creation /\ LetGo(v, volume[v])'
    BY DEF TakingSound, RollBack
  <2>1. volume[v] \in Creation /\ LetGo(v, volume[v]) /\ v \in Volumes BY <1>0 DEF TakingSound, DomainShape
  <2>2. volume[v] # c /\ volume[v] # NoCreation BY <1>1, <2>1 DEF LetGo, CreationsDiffer
  <2>3. volume'[v] = volume[v] /\ making'[volume[v]] = making[volume[v]] BY <1>2, <1>8, <2>1, <2>2
  <2> QED BY <1>7, <2>1, <2>2, <2>3 DEF LetGo
<1> QED BY <1>6, <1>9, <1>10 DEF DomainInv

LEMMA DomainChanges == ASSUME CreationsDiffer, DomainInv, PowerChanges \/ DetachMedium PROVE DomainInv'
<1>0. DomainShape /\ CreationsSound /\ TakingSound BY DEF DomainInv
<1>1. CASE PowerChanges
  <2>1. domain'.by = domain.by /\ domain'.media = domain.media /\ DomainShape' BY <1>0, <1>1 DEF DomainShape, PowerChanges
  <2> QED BY <1>0, <1>1, <2>1 DEF DomainInv, CreationsSound, CreationSound, TakingSound, LetGo, PowerChanges
<1>2. CASE DetachMedium
  <2>1. PICK v \in {"installer", "seed"} :
          /\ v \in domain.media /\ domain' = [domain EXCEPT !.media = @ \ {v}]
          /\ taking' = [op |-> "detach", volumes |-> {v}]
    BY <1>2 DEF DetachMedium, MediaStage
  <2>2. /\ domain.by \in Creation /\ making[domain.by].at = "created" /\ UNCHANGED <<volume, making>>
    BY <1>0, <1>2 DEF DetachMedium, Takeable, DomainShape
  <2>3. volume[v] = domain.by BY <1>0, <2>1, <2>2 DEF CreationsSound, CreationSound
  <2>4. domain'.by = domain.by /\ domain'.media = domain.media \ {v} /\ DomainShape'
    BY <1>0, <2>1, <2>2 DEF DomainShape, Volumes
  <2>5. CreationsSound' BY <1>0, <2>2, <2>4 DEF CreationsSound, CreationSound
  <2>6. TakingSound' BY <2>1, <2>2, <2>3, <2>4 DEF TakingSound, LetGo
  <2> QED BY <2>4, <2>5, <2>6 DEF DomainInv
<1> QED BY <1>1, <1>2

LEMMA Deleting == ASSUME CreationsDiffer, DomainInv, DeleteCandidate PROVE DomainInv'
<1>0. DomainShape /\ CreationsSound /\ TakingSound BY DEF DomainInv
<1> DEFINE c == domain.by
<1>1. /\ c \in Creation /\ making[c].at = "created" /\ volume["system"] = c /\ UNCHANGED volume
      /\ making' = [making EXCEPT ![c] = [making[c] EXCEPT !.at = "removed"]]
      /\ domain' = NoDomain /\ taking' = [op |-> "delete", volumes |-> domain.media \union {"system"}]
  BY <1>0 DEF DeleteCandidate, Takeable, DomainShape
<1>2. \A d \in Creation : making'[d] = IF d = c THEN [making[c] EXCEPT !.at = "removed"] ELSE making[d]
  BY <1>0, <1>1 DEF DomainShape
<1>3. making'[c].at = "removed" /\ making'[c] \in Creations
  BY <1>0, <1>1, <1>2 DEF DomainShape, Creations, CreationPlaces
<1>4. domain'.by = NoCreation BY <1>1 DEF NoDomain
<1>5. \A v \in domain.media : volume[v] = c BY <1>0, <1>1 DEF CreationsSound, CreationSound
<1>6. DomainShape'
  <2>1. making' \in [Creation -> Creations] BY <1>0, <1>1, <1>2, <1>3 DEF DomainShape
  <2>2. domain.media \union {"system"} \subseteq Volumes BY <1>0 DEF DomainShape, Volumes
  <2> QED BY <1>0, <1>1, <2>1, <2>2 DEF DomainShape, NoDomain
<1>7. CreationsSound'
  <2> SUFFICES ASSUME NEW d \in Creation PROVE CreationSound(d)' BY DEF CreationsSound
  <2>1. d # NoCreation BY DEF CreationsDiffer
  <2>2. CASE d = c BY <1>3, <2>2 DEF CreationSound
  <2>3. CASE d # c BY <1>0, <1>1, <1>2, <1>4, <2>1, <2>3 DEF CreationSound, CreationsSound
  <2> QED BY <2>2, <2>3
<1>8. TakingSound'
  <2>1. \A v \in taking'.volumes : volume'[v] = c BY <1>1, <1>5
  <2> QED BY <1>1, <1>3, <2>1 DEF TakingSound, LetGo
<1> QED BY <1>6, <1>7, <1>8 DEF DomainInv

LEMMA Taking == ASSUME CreationsDiffer, DomainInv, TakeVolume PROVE DomainInv'
<1>0. DomainShape /\ CreationsSound /\ TakingSound BY DEF DomainInv
<1> DEFINE v == Earliest(taking.volumes)
<1>1. v \in taking.volumes /\ v \in Volumes
  BY <1>0 DEF TakeVolume, Earliest, DomainShape, Volumes
<1>2. /\ UNCHANGED <<domain, making>>
      /\ \/ volume' = [volume EXCEPT ![v] = NoCreation]
         \/ UNCHANGED volume
      /\ taking' = NothingTaken \/ (taking' = [taking EXCEPT !.volumes = taking.volumes \ {v}])
  BY DEF TakeVolume
<1> HIDE DEF v
<1>3. taking'.volumes \subseteq taking.volumes \ {v} BY <1>0, <1>2 DEF NothingTaken, DomainShape
<1>4. \A w \in Volumes : w # v => volume'[w] = volume[w] BY <1>0, <1>2 DEF DomainShape
<1>5. DomainShape'
  <2>1. NothingTaken \in [op : {"none", "detach", "delete"}, volumes : SUBSET Volumes] BY DEF NothingTaken
  <2>2. [taking EXCEPT !.volumes = taking.volumes \ {v}] \in [op : {"none", "detach", "delete"}, volumes : SUBSET Volumes]
    BY <1>0 DEF DomainShape
  <2>3. volume' \in [Volumes -> Creation \union {NoCreation}] BY <1>0, <1>1, <1>2 DEF DomainShape
  <2> QED BY <1>0, <1>2, <2>1, <2>2, <2>3 DEF DomainShape
<1>6. volume[v] \in Creation /\ LetGo(v, volume[v]) BY <1>0, <1>1 DEF TakingSound
<1>7. CreationsSound'
  <2> SUFFICES ASSUME NEW d \in Creation PROVE CreationSound(d)' BY DEF CreationsSound
  <2>1. CreationSound(d) /\ making[d] \in Creations BY <1>0 DEF CreationsSound, DomainShape
  <2>2. making[d].owned \subseteq Volumes /\ domain.media \subseteq Volumes /\ "system" \in Volumes
    BY <1>0, <2>1 DEF DomainShape, Creations, Volumes
  <2>3. making[d].at \in {"making", "rollback"} => v \notin making[d].owned BY <1>6, <2>1 DEF CreationSound, LetGo
  <2>4. making[d].at = "created" => v # "system" BY <1>6, <2>1 DEF CreationSound, LetGo
  <2>5. making[d].at = "created" /\ domain.by = d => v \notin domain.media BY <1>6, <2>1 DEF CreationSound, LetGo
  <2> QED BY <1>2, <1>4, <2>1, <2>2, <2>3, <2>4, <2>5 DEF CreationSound
<1>8. TakingSound'
  <2> SUFFICES ASSUME NEW w \in taking'.volumes PROVE volume'[w] \in Creation /\ LetGo(w, volume[w])' BY DEF TakingSound
  <2>1. w \in taking.volumes /\ w \in Volumes /\ volume'[w] = volume[w] BY <1>0, <1>3, <1>4 DEF DomainShape
  <2> QED BY <1>0, <1>2, <2>1 DEF TakingSound, LetGo
<1> QED BY <1>5, <1>7, <1>8 DEF DomainInv

LEMMA DomainSteps == ASSUME CreationsDiffer, DomainInv, [FactoryNext]_factoryVars PROVE DomainInv'
<1>1. CASE UNCHANGED factoryVars
  BY <1>1 DEF factoryVars, DomainInv, DomainShape, CreationsSound, CreationSound, TakingSound, LetGo
<1>2. CASE FactoryNext
  BY <1>2, BeginAndCheck, Making, Defining, RollingBack, DomainChanges, Deleting, Taking DEF FactoryNext
<1> QED BY <1>1, <1>2

LEMMA DomainHolds == ASSUME CreationsDiffer PROVE FactorySpec => []DomainInv
<1>1. FactoryInit => DomainInv BY DomainStarts
<1>2. DomainInv /\ [FactoryNext]_factoryVars => DomainInv' BY DomainSteps
<1> QED BY <1>1, <1>2, PTL DEF FactorySpec

\* A candidate that was created keeps its disk and the media attached to it,
\* whatever other creations of its name roll back, and whoever has the domain of
\* that name by then (domain_factory.py: cleanup_failed_creation, detach_media
\* and delete_windows_candidate).
THEOREM CandidatesKeepVolumes == ASSUME CreationsDiffer PROVE FactorySpec => []CreatedKeepsItsVolumes
<1>1. DomainInv => CreatedKeepsItsVolumes
  BY DEF DomainInv, CreationsSound, CreationSound, CreatedKeepsItsVolumes
<1> QED BY <1>1, DomainHolds, PTL

\* The types of a domain, its volumes and the creations under way.
THEOREM FactoryTypesAreKept == ASSUME CreationsDiffer PROVE FactorySpec => []FactoryTypeOK
<1>1. DomainInv => FactoryTypeOK BY DEF DomainInv, DomainShape, FactoryTypeOK, Creations, CreationPlaces
<1> QED BY <1>1, DomainHolds, PTL

-----------------------------------------------------------------------------
(* Desktop sharing.                                                        *)

Portals == [state : {"off", "pending", "ready"}, step : Steps \union {"none", "media"},
            session : BOOLEAN, stream : BOOLEAN, timer : BOOLEAN]
MediaJobs == [kind : {"none", "prepare", "dispose"}, at : {"none", "begun", "open", "done"},
         wanted : BOOLEAN, ok : BOOLEAN]
Gestures == [op : {"none", "pointer", "key"}, todo : SUBSET Key, owes : SUBSET Key, lost : BOOLEAN]
PortalShape ==
  /\ portal \in Portals /\ media \in MediaJobs /\ streams \in Nat
  /\ gesture \in Gestures /\ held \subseteq Key

\* What the media thread is at, and where its one job leaves the portal.
MediaJobSound(m) ==
  /\ m.kind = "none" => m = NoMedia
  /\ m.kind = "prepare" => m.at # "none" /\ (m.ok => m.at = "done")
  /\ m.kind = "dispose" => m.at \in {"begun", "done"} /\ ~m.ok /\ ~m.wanted

Opened(m) == m.at = "open" \/ m.ok \/ (m.kind = "dispose" /\ m.at = "begun")
Number(b) == IF b THEN 1 ELSE 0

MediaSound ==
  /\ MediaJobSound(media)
  /\ portal.step \in Steps => portal.state = "pending" /\ media.kind = "none"
  /\ portal.state = "ready" => media.kind = "none" /\ portal.step = "none"
  /\ portal.state = "ready" <=> portal.stream
  /\ portal.state = "ready" => portal.session
  /\ media.wanted => portal.session /\ ~portal.stream
  /\ streams = Number(portal.stream) + Number(Opened(media))

\* What is held down is owed a release, or was lost; it goes with the session.
GestureSound ==
  /\ portal.state # "ready" => held = {}
  /\ gesture.lost \/ held \subseteq gesture.owes
  /\ gesture.op = "none" => gesture.todo = {} /\ gesture.owes = {}

PortalInv == PortalShape /\ MediaSound /\ GestureSound

LEMMA PortalStarts == ASSUME PortalInit PROVE PortalInv
<1>1. PortalShape BY DEF PortalInit, PortalShape, Portals, MediaJobs, Gestures, Off, NoMedia, NoGesture, Steps
<1>2. MediaSound BY DEF PortalInit, MediaSound, MediaJobSound, Opened, Number, Off, NoMedia, Steps
<1>3. GestureSound BY DEF PortalInit, GestureSound, Off, NoGesture
<1> QED BY <1>1, <1>2, <1>3 DEF PortalInv

LEMMA OffIs == /\ Off \in Portals /\ Off.state = "off" /\ Off.step = "none" /\ ~Off.session /\ ~Off.stream
               /\ NoMedia \in MediaJobs /\ MediaJobSound(NoMedia) /\ ~Opened(NoMedia) /\ ~NoMedia.wanted
               /\ NoMedia.kind = "none"
BY DEF Off, Portals, Steps, NoMedia, MediaJobs, MediaJobSound, Opened

\* close() keeps count: a stream that was shown is handed over when the media
\* thread has nothing else to do, and the job it has keeps what it has opened.
LEMMA Closing ==
  ASSUME PortalInv, NEW p \in Portals, NEW m \in MediaJobs, Close(p, m), UNCHANGED <<streams, gesture>>,
         MediaJobSound(m), p.stream => m.kind = "none", portal.state = "ready" => p.session,
         streams = Number(p.stream) + Number(Opened(m))
  PROVE  PortalInv'
<1>0. PortalShape /\ MediaSound /\ GestureSound BY DEF PortalInv
<1>1. portal' = Off /\ media' = Disposed(p, m) /\ held' = IF p.session THEN {} ELSE held BY DEF Close
<1>2. held' = {} BY <1>0, <1>1 DEF GestureSound
<1>3. /\ media' \in MediaJobs /\ MediaJobSound(media') /\ ~media'.wanted
      /\ Number(Opened(media')) = Number(p.stream) + Number(Opened(m))
  <2>1. CASE p.stream /\ m.kind = "none"
    <3>1. media' = [kind |-> "dispose", at |-> "begun", wanted |-> FALSE, ok |-> FALSE]
      BY <1>1, <2>1 DEF Disposed, NoMedia
    <3>2. ~Opened(m) BY <2>1, OffIs DEF MediaJobSound
    <3> QED BY <2>1, <3>1, <3>2 DEF MediaJobs, MediaJobSound, Opened, Number
  <2>2. CASE ~(p.stream /\ m.kind = "none")
    <3>1. media' = [m EXCEPT !.wanted = FALSE] /\ ~p.stream BY <1>1, <2>2 DEF Disposed
    <3>2. media' \in MediaJobs /\ media'.kind = m.kind /\ media'.at = m.at /\ media'.ok = m.ok /\ ~media'.wanted
      BY <3>1 DEF MediaJobs
    <3>3. m.kind = "none" => media' = NoMedia
      <4> SUFFICES ASSUME m.kind = "none" PROVE media' = NoMedia OBVIOUS
      <4>1. m = NoMedia BY DEF MediaJobSound
      <4> QED BY <3>1, <4>1 DEF NoMedia
    <3>4. MediaJobSound(media') BY <3>2, <3>3 DEF MediaJobSound
    <3>5. Opened(media') <=> Opened(m) BY <3>2 DEF Opened
    <3> QED BY <3>1, <3>2, <3>4, <3>5 DEF Number
  <2> QED BY <2>1, <2>2
<1>4. PortalShape' BY <1>0, <1>1, <1>2, <1>3, OffIs DEF PortalShape
<1>5. MediaSound'
  <2>1. Number(Off.stream) = 0 /\ Number(Opened(media')) \in Nat BY OffIs DEF Number
  <2>2. streams' = Number(Off.stream) + Number(Opened(media')) BY <1>3, <2>1
  <2>3. Off.step \notin Steps BY OffIs DEF Steps
  <2> QED BY <1>1, <1>3, <2>2, <2>3, OffIs DEF MediaSound
<1>6. GestureSound' BY <1>0, <1>2 DEF GestureSound
<1> QED BY <1>4, <1>5, <1>6 DEF PortalInv

LEMMA ClosesItself ==
  ASSUME PortalInv, Close(portal, media), UNCHANGED <<streams, gesture>> PROVE PortalInv'
<1>0. PortalShape /\ MediaSound BY DEF PortalInv
<1>1. portal \in Portals /\ media \in MediaJobs BY <1>0 DEF PortalShape
<1>2. MediaJobSound(media) /\ (portal.stream => media.kind = "none") /\ (portal.state = "ready" => portal.session)
      /\ streams = Number(portal.stream) + Number(Opened(media))
  BY <1>0 DEF MediaSound
<1> QED BY <1>1, <1>2, Closing

\* A step that leaves the gesture and the portal alone, or a portal that is not
\* ready: only the media count has to be looked at.
LEMMA GestureWaits ==
  ASSUME PortalInv, UNCHANGED <<gesture, held>>, portal.state # "ready" \/ portal'.state = "ready" PROVE GestureSound'
BY DEF PortalInv, GestureSound

LEMMA ConnectingIsSound == ASSUME PortalInv, Connect \/ Response PROVE PortalInv'
<1>0. PortalShape /\ MediaSound BY DEF PortalInv
<1>1. CASE Connect /\ portal.stream
  BY <1>1, ClosesItself DEF Connect
<1>2. CASE Connect /\ ~portal.stream
  <2>1. /\ portal' = [Off EXCEPT !.state = "pending", !.step = "create", !.timer = TRUE]
        /\ UNCHANGED <<media, held, streams, gesture>> /\ media.kind = "none"
    BY <1>2 DEF Connect
  <2>2. /\ portal' \in Portals /\ portal'.state = "pending" /\ portal'.step = "create"
        /\ ~portal'.session /\ ~portal'.stream
    BY <2>1 DEF Portals, Off, Steps
  <2>3. portal.state # "ready" BY <1>0, <1>2 DEF MediaSound
  <2>4. GestureSound' BY <2>1, <2>3, GestureWaits
  <2>5. ~media.wanted BY <1>0, <2>1, OffIs DEF MediaSound, MediaJobSound
  <2>6. MediaJobSound(media) /\ streams = Number(portal.stream) + Number(Opened(media)) BY <1>0 DEF MediaSound
  <2>7. Number(portal'.stream) = Number(portal.stream) BY <1>2, <2>2 DEF Number
  <2>8. MediaSound' BY <2>1, <2>2, <2>5, <2>6, <2>7 DEF MediaSound
  <2> QED BY <1>0, <2>1, <2>2, <2>4, <2>8 DEF PortalInv, PortalShape
<1>3. CASE Response
  <2> DEFINE next == After[portal.step]
  <2>1. next \in Steps \union {"media"} /\ (portal.step = "start" <=> next = "media")
    BY <1>3 DEF Response, After, Steps
  <2>2. portal' = [portal EXCEPT !.step = next, !.session = TRUE] /\ UNCHANGED <<streams, gesture, held>>
    BY <1>3 DEF Response
  <2> HIDE DEF next
  <2>3. /\ portal' \in Portals /\ portal'.state = portal.state /\ portal'.step = next
        /\ portal'.session /\ portal'.stream = portal.stream
    BY <1>0, <2>1, <2>2 DEF PortalShape, Portals
  <2>4. /\ portal.state = "pending" /\ media = NoMedia /\ ~portal.stream
    BY <1>0, <1>3 DEF MediaSound, MediaJobSound, Response
  <2>5. GestureSound' BY <2>2, <2>4, GestureWaits
  <2>6. CASE portal.step = "start"
    <3>1. media' = [kind |-> "prepare", at |-> "begun", wanted |-> TRUE, ok |-> FALSE] BY <1>3, <2>6 DEF Response
    <3>2. media' \in MediaJobs /\ MediaJobSound(media') /\ ~Opened(media') BY <3>1 DEF MediaJobs, MediaJobSound, Opened
    <3>3. next = "media" /\ next \notin Steps BY <2>1, <2>6 DEF Steps
    <3>4. MediaSound' BY <1>0, <2>2, <2>3, <2>4, <3>2, <3>3, OffIs DEF MediaSound, Number
    <3> QED BY <1>0, <2>2, <2>3, <2>5, <3>2, <3>4 DEF PortalInv, PortalShape
  <2>7. CASE portal.step # "start"
    <3>1. media' = media /\ next \in Steps BY <1>3, <2>1, <2>7 DEF Response
    <3>2. MediaSound' BY <1>0, <2>2, <2>3, <2>4, <3>1, OffIs DEF MediaSound
    <3> QED BY <1>0, <2>2, <2>3, <2>5, <3>1, <3>2 DEF PortalInv, PortalShape
  <2> QED BY <2>6, <2>7
<1> QED BY <1>1, <1>2, <1>3

LEMMA MediaIsSound == ASSUME PortalInv, Opens \/ Plays \/ Disposes \/ Disposal PROVE PortalInv'
<1>0. PortalShape /\ MediaSound BY DEF PortalInv
<1>1. UNCHANGED <<portal, gesture, held>> /\ media \in MediaJobs /\ MediaJobSound(media)
  BY <1>0 DEF Opens, Plays, Disposes, Disposal, PortalShape, MediaSound
<1>2. GestureSound' BY <1>1, GestureWaits DEF PortalInv, GestureSound
<1>3. /\ media' \in MediaJobs /\ MediaJobSound(media') /\ (media'.wanted => media.wanted) /\ media.kind # "none"
      /\ streams' \in Nat /\ streams' + Number(Opened(media)) = streams + Number(Opened(media'))
  <2>0. streams \in Nat /\ streams >= Number(Opened(media)) BY <1>0 DEF PortalShape, MediaSound, Number
  <2>1. CASE Opens
    <3>1. media.kind = "prepare" /\ media.at = "begun" /\ ~media.ok BY <1>1, <2>1 DEF Opens, MediaJobSound
    <3>2. \/ streams' = streams + 1 /\ media' = [media EXCEPT !.at = "open"]
          \/ media' = [media EXCEPT !.at = "done"] /\ UNCHANGED streams
      BY <2>1 DEF Opens
    <3> QED BY <1>1, <2>0, <3>1, <3>2 DEF MediaJobs, MediaJobSound, Opened, Number
  <2>2. CASE Plays
    <3>1. media.kind = "prepare" /\ media.at = "open" /\ ~media.ok
      <4>1. media.at = "open" BY <2>2 DEF Plays
      <4>2. media.kind # "none" /\ media.kind # "dispose" BY <1>1, <4>1 DEF MediaJobSound, NoMedia
      <4> QED BY <1>1, <4>1, <4>2 DEF MediaJobs, MediaJobSound
    <3>2. Opened(media) /\ Number(Opened(media)) = 1 BY <3>1 DEF Opened, Number
    <3>3. CASE media' = [media EXCEPT !.at = "done", !.ok = TRUE] /\ UNCHANGED streams
      <4>1. /\ media' \in MediaJobs /\ media'.kind = "prepare" /\ media'.at = "done"
            /\ media'.ok /\ media'.wanted = media.wanted
        BY <1>1, <3>1, <3>3 DEF MediaJobs
      <4> QED BY <2>0, <3>1, <3>2, <3>3, <4>1 DEF MediaJobSound, Opened, Number
    <3>4. CASE media' = [media EXCEPT !.at = "done"] /\ streams' = streams - 1
      <4>1. /\ media' \in MediaJobs /\ media'.kind = "prepare" /\ media'.at = "done"
            /\ ~media'.ok /\ media'.wanted = media.wanted
        BY <1>1, <3>1, <3>4 DEF MediaJobs
      <4>2. Number(Opened(media')) = 0 BY <4>1 DEF Opened, Number
      <4>3. MediaJobSound(media') BY <4>1 DEF MediaJobSound
      <4>4. media'.wanted => media.wanted BY <4>1
      <4>5. streams' \in Nat /\ streams' + 1 = streams + 0
        <5>1. streams \in Nat /\ streams >= 1 BY <2>0, <3>2
        <5>2. streams' = streams - 1 BY <3>4
        <5> QED BY <5>1, <5>2
      <4> QED BY <3>1, <3>2, <4>1, <4>2, <4>3, <4>4, <4>5
    <3> QED BY <2>2, <3>3, <3>4 DEF Plays
  <2>3. CASE Disposes
    <3>1. media.kind = "dispose" /\ media.at = "begun" /\ ~media.ok BY <1>1, <2>3 DEF Disposes, MediaJobSound
    <3>2. media' = [media EXCEPT !.at = "done"] /\ streams' = streams - 1 BY <2>3 DEF Disposes
    <3> QED BY <1>1, <2>0, <3>1, <3>2 DEF MediaJobs, MediaJobSound, Opened, Number
  <2>4. CASE Disposal
    <3>1. media.kind = "dispose" /\ media.at = "done" /\ ~media.ok BY <1>1, <2>4 DEF Disposal, MediaJobSound
    <3>2. media' = NoMedia /\ streams' = streams BY <2>4 DEF Disposal
    <3> QED BY <2>0, <3>1, <3>2, OffIs DEF Opened, Number
  <2> QED BY <2>1, <2>2, <2>3, <2>4
<1>4. streams \in Nat /\ Number(portal.stream) \in Nat /\ Number(Opened(media)) \in Nat /\ Number(Opened(media')) \in Nat
  BY <1>0 DEF PortalShape, Number
<1>5. streams' = Number(portal.stream) + Number(Opened(media'))
  <2>1. streams = Number(portal.stream) + Number(Opened(media)) BY <1>0 DEF MediaSound
  <2> QED BY <1>3, <1>4, <2>1
<1>6. PortalShape' BY <1>0, <1>1, <1>3, <1>5 DEF PortalShape
<1>7. MediaSound' BY <1>0, <1>1, <1>3, <1>5 DEF MediaSound
<1> QED BY <1>2, <1>6, <1>7 DEF PortalInv

LEMMA PreparingIsSound == ASSUME PortalInv, Prepared PROVE PortalInv'
<1>0. PortalShape /\ MediaSound BY DEF PortalInv
<1>1. /\ media.kind = "prepare" /\ media.at = "done" /\ media.ok \in BOOLEAN /\ UNCHANGED <<streams, gesture>>
      /\ portal.state # "ready" /\ ~portal.stream
  BY <1>0 DEF Prepared, PortalShape, MediaJobs, MediaSound
<1> DEFINE p == [portal EXCEPT !.stream = media.ok]
<1>2. p \in Portals /\ p.session = portal.session /\ p.stream = media.ok BY <1>0, <1>1 DEF PortalShape, Portals
<1>3. streams = Number(media.ok) /\ streams \in Nat BY <1>0, <1>1 DEF MediaSound, Opened, Number, PortalShape
<1>4. CASE media.ok /\ media.wanted
  <2>1. /\ portal' = [p EXCEPT !.state = "ready", !.step = "none", !.timer = FALSE]
        /\ media' = NoMedia /\ UNCHANGED held
    BY <1>4 DEF Prepared
  <2>2. /\ portal' \in Portals /\ portal'.state = "ready" /\ portal'.step = "none"
        /\ portal'.session = portal.session /\ portal'.stream
    BY <1>2, <1>4, <2>1 DEF Portals
  <2>3. portal.session BY <1>0, <1>4 DEF MediaSound
  <2>4. GestureSound' BY <1>1, <2>1, GestureWaits
  <2>5. streams' = Number(portal'.stream) + Number(Opened(media'))
    BY <1>1, <1>3, <1>4, <2>1, <2>2, OffIs DEF Number
  <2>6. MediaSound' BY <2>1, <2>2, <2>3, <2>5, OffIs DEF MediaSound, Steps
  <2> QED BY <1>0, <1>1, <2>1, <2>2, <2>4, <2>6, OffIs DEF PortalInv, PortalShape
<1>5. CASE ~(media.ok /\ media.wanted)
  <2>1. Close(p, NoMedia) BY <1>5 DEF Prepared
  <2>2. streams = Number(p.stream) + Number(Opened(NoMedia)) BY <1>2, <1>3, OffIs DEF Number
  <2> HIDE DEF p
  <2> QED BY <1>1, <1>2, <2>1, <2>2, OffIs, Closing
<1> QED BY <1>4, <1>5

LEMMA GesturesAreSound ==
  ASSUME PortalInv, BeginGesture \/ Interrupted \/ Delivered \/ \E k \in Key : Press(k) \/ Release(k) PROVE PortalInv'
<1>0. PortalShape /\ MediaSound /\ GestureSound BY DEF PortalInv
<1>1. UNCHANGED <<portal, media, streams>> /\ gesture \in Gestures /\ held \subseteq Key
  BY <1>0 DEF BeginGesture, Interrupted, Delivered, Press, Release, PortalShape
<1>2. MediaSound' BY <1>0, <1>1 DEF MediaSound
<1>3. gesture' \in Gestures /\ held' \subseteq Key /\ GestureSound'
  <2>1. CASE BeginGesture
    <3>1. PICK op \in {"pointer", "key"}, keys \in SUBSET Key : gesture' = [gesture EXCEPT !.op = op, !.todo = keys]
      BY <2>1 DEF BeginGesture
    <3> QED BY <1>0, <1>1, <2>1, <3>1 DEF BeginGesture, Gestures, GestureSound
  <2>2. CASE Interrupted
    <3>1. gesture' = [gesture EXCEPT !.todo = {}] /\ held' = held /\ gesture.op # "none"
      BY <1>0, <2>2 DEF Interrupted, GestureSound
    <3> QED BY <1>0, <1>1, <3>1 DEF Gestures, GestureSound
  <2>3. CASE Delivered
    <3>1. gesture.owes = {} /\ gesture' = [NoGesture EXCEPT !.lost = gesture.lost /\ held # {}] /\ held' = held
      BY <2>3 DEF Delivered
    <3>2. gesture' = [op |-> "none", todo |-> {}, owes |-> {}, lost |-> gesture.lost /\ held # {}]
      BY <3>1 DEF NoGesture
    <3>3. gesture.lost \/ held = {} BY <1>0, <3>1 DEF GestureSound
    <3>4. gesture'.op = "none" /\ gesture'.todo = {} /\ gesture'.owes = {} /\ gesture'.lost = (gesture.lost /\ held # {})
      BY <3>2
    <3>5. gesture' \in Gestures
      <4>1. (gesture.lost /\ held # {}) \in BOOLEAN OBVIOUS
      <4> QED BY <3>2, <4>1 DEF Gestures
    <3>6. GestureSound' BY <1>0, <1>1, <3>1, <3>3, <3>4 DEF GestureSound
    <3> QED BY <1>1, <3>1, <3>5, <3>6
  <2>4. ASSUME NEW k \in Key, Press(k) PROVE gesture' \in Gestures /\ held' \subseteq Key /\ GestureSound'
    <3>1. PICK delivered \in BOOLEAN, ok \in BOOLEAN :
            /\ ok => delivered
            /\ held' = IF delivered THEN held \union {k} ELSE held
            /\ gesture' = [gesture EXCEPT !.todo = IF ok THEN gesture.todo \ {k} ELSE {},
                             !.owes = gesture.owes \union Owed(gesture.op, k, ok),
                             !.lost = gesture.lost \/ (gesture.op = "key" /\ delivered /\ ~ok)]
      BY <2>4 DEF Press
    <3>2. k \in gesture.todo /\ portal.state = "ready" /\ gesture.op # "none" BY <1>0, <2>4 DEF Press, GestureSound
    <3>3. Owed(gesture.op, k, ok) \subseteq {k} /\ (ok \/ gesture.op = "pointer" => k \in Owed(gesture.op, k, ok))
      BY DEF Owed
    <3> DEFINE todo == IF ok THEN gesture.todo \ {k} ELSE {}
               owes == gesture.owes \union Owed(gesture.op, k, ok)
               lost == gesture.lost \/ (gesture.op = "key" /\ delivered /\ ~ok)
    <3>4. todo \in SUBSET Key /\ owes \in SUBSET Key /\ lost \in BOOLEAN BY <1>1, <2>4, <3>3 DEF Gestures
    <3>5. gesture' = [gesture EXCEPT !.todo = todo, !.owes = owes, !.lost = lost] BY <3>1
    <3>6. lost \/ held' \subseteq owes
      <4>1. gesture.op \in {"pointer", "key"} BY <1>1, <3>2 DEF Gestures
      <4>2. gesture.lost \/ held \subseteq gesture.owes BY <1>0 DEF GestureSound
      <4> QED BY <3>1, <3>3, <4>1, <4>2
    <3> HIDE DEF todo, owes, lost
    <3>7. /\ gesture' \in Gestures /\ gesture'.op = gesture.op
          /\ gesture'.owes = owes /\ gesture'.lost = lost
      BY <1>1, <3>4, <3>5 DEF Gestures
    <3>8. held' \subseteq Key BY <1>1, <2>4, <3>1
    <3> QED BY <1>1, <3>2, <3>6, <3>7, <3>8 DEF GestureSound
  <2>5. ASSUME NEW k \in Key, Release(k) PROVE gesture' \in Gestures /\ held' \subseteq Key /\ GestureSound'
    <3>1. gesture.todo = {} /\ gesture.op # "none" BY <1>0, <2>5 DEF Release, GestureSound
    <3>2. CASE gesture' = [gesture EXCEPT !.owes = gesture.owes \ {k}] /\ held' = held \ {k}
      BY <1>0, <1>1, <3>1, <3>2 DEF Gestures, GestureSound
    <3>3. CASE gesture' = [gesture EXCEPT !.owes = {}, !.lost = gesture.lost \/ portal.state = "ready"] /\ held' = held
      <4>1. /\ gesture' \in Gestures /\ gesture'.op = gesture.op /\ gesture'.owes = {}
            /\ gesture'.lost = (gesture.lost \/ portal.state = "ready")
        BY <1>1, <3>3 DEF Gestures
      <4> QED BY <1>0, <1>1, <3>1, <3>3, <4>1 DEF GestureSound
    <3> QED BY <2>5, <3>2, <3>3 DEF Release
  <2> QED BY <2>1, <2>2, <2>3, <2>4, <2>5
<1> QED BY <1>0, <1>1, <1>2, <1>3 DEF PortalInv, PortalShape

LEMMA PortalSteps == ASSUME PortalInv, [PortalNext]_portalVars PROVE PortalInv'
<1>1. CASE UNCHANGED portalVars BY <1>1 DEF portalVars, PortalInv, PortalShape, MediaSound, GestureSound
<1>2. CASE Refusal \/ TimedOut \/ SharingEnds BY <1>2, ClosesItself DEF Refusal, TimedOut, SharingEnds
<1> QED BY <1>1, <1>2, ConnectingIsSound, MediaIsSound, PreparingIsSound, GesturesAreSound DEF PortalNext

LEMMA PortalHolds == PortalSpec => []PortalInv
<1>1. PortalInit => PortalInv BY PortalStarts
<1>2. PortalInv /\ [PortalNext]_portalVars => PortalInv' BY PortalSteps
<1> QED BY <1>1, <1>2, PTL DEF PortalSpec

\* Every open screen stream has one that will close it, however close(), a
\* timeout and a late answer of the media thread fall (portal.py).
THEOREM StreamsHaveOwners == PortalSpec => []StreamsAreOwned
<1>1. PortalInv => StreamsAreOwned BY DEF PortalInv, MediaSound, StreamsAreOwned, Opened, Number
<1> QED BY <1>1, PortalHolds, PTL

\* No gesture leaves a key or a button down, except after a call that failed
\* with its effect unknown; closing the session lets go of that too.
THEOREM GesturesHoldNothing == PortalSpec => []GesturesLetGo
<1>1. PortalInv => GesturesLetGo BY DEF PortalInv, GestureSound, GesturesLetGo
<1> QED BY <1>1, PortalHolds, PTL

\* The types of the portal; there are never more than two streams.
THEOREM PortalTypesAreKept == PortalSpec => []PortalTypeOK
<1>1. PortalInv => PortalTypeOK
  BY OffIs DEF PortalInv, PortalShape, MediaSound, MediaJobSound, Opened, Number, PortalTypeOK, Portals, MediaJobs, Gestures
<1> QED BY <1>1, PortalHolds, PTL

-----------------------------------------------------------------------------
(* Desktop work.                                                           *)

Tickets == [chan : Channel \union {NoOwner},
       at : {"none", "queued", "started", "authorized", "checked", "crossed", "ended"},
       cancelled : BOOLEAN, stale : BOOLEAN, late : BOOLEAN, dispatched : BOOLEAN,
       ok : BOOLEAN, replied : BOOLEAN]
ResFacts == [inhibit : BOOLEAN, audit : BOOLEAN, storage : BOOLEAN, over : BOOLEAN,
             seen : [enabled : BOOLEAN, owner : Channel \union {NoOwner}]]
CoreFacts == [up : BOOLEAN, enabled : BOOLEAN, owner : Channel \union {NoOwner}]
Sayings == [chan : Channel \union {NoOwner}, answer : {"none", "refused", "unknown", "done"}]
Owners == [at : {"new", "open", "closed", "gone"}, busy : {"no", "observing", "working"}]

USE DEF ResFacts, CoreFacts, Sayings

\* The slot and the owners that wait for it.
SlotSound ==
  /\ \A c \in Channel : chan[c].busy = "working" => ticket.chan = c /\ ~ticket.replied
  /\ ticket.at # "none" => /\ ticket.chan \in Channel
                           /\ ticket.replied \/ chan[ticket.chan].busy = "working"
  /\ ticket.at = "none" => ticket.chan = NoOwner /\ ~ticket.late

\* Nobody has the session unseen, and a ticket whose authority was confirmed is
\* cancelled as soon as anybody else is seen to have it, or nobody.
SeenSound ==
  /\ core.owner # NoOwner => res.seen.owner = core.owner
  /\ ticket.at = "authorized" /\ ~ticket.cancelled => res.seen.owner = ticket.chan

ResidentInv == ResidentTypeOK /\ SlotSound /\ SeenSound

LEMMA ResidentStarts == ASSUME NoOwnerIsNoChannel, ResidentInit PROVE ResidentInv
<1>1. ResidentTypeOK BY DEF ResidentInit, ResidentTypeOK, NoTicket, Silence
<1>2. SlotSound /\ SeenSound BY DEF ResidentInit, SlotSound, SeenSound, NoTicket
<1> QED BY <1>1, <1>2 DEF ResidentInv

LEMMA TypesGive ==
  ASSUME ResidentTypeOK
  PROVE  /\ ticket \in Tickets /\ chan \in [Channel -> Owners]
         /\ core.owner \in Channel \union {NoOwner} /\ core.enabled \in BOOLEAN
         /\ res.storage \in BOOLEAN
BY DEF ResidentTypeOK, Tickets, Owners

\* What is seen of the session, and what its change does to the ticket: it may
\* be cancelled, and is when another owner is seen or none.
Recast ==
  /\ ticket' \in {ticket, Cancelled(ticket), Changed(ticket)}
  /\ res'.seen.owner # res.seen.owner => ticket' = Changed(ticket)

LEMMA RecastGives ==
  ASSUME NEW t \in Tickets, NEW u \in {t, Cancelled(t), Changed(t)}
  PROVE  /\ u \in Tickets /\ u.chan = t.chan /\ u.at = t.at /\ u.replied = t.replied /\ u.late = t.late
         /\ t.at = "authorized" /\ ~u.cancelled => ~t.cancelled /\ u # Changed(t)
<1>1. CASE u = t BY <1>1 DEF Changed, Tickets
<1>2. CASE u = Cancelled(t) BY <1>2 DEF Cancelled, Tickets
<1>3. CASE u = Changed(t) BY <1>3 DEF Changed, Tickets
<1> QED BY <1>1, <1>2, <1>3

\* A step that may recast the ticket and leaves what owners wait for alone.
LEMMA RecastIsSound ==
  ASSUME NoOwnerIsNoChannel, ResidentInv, Recast, Quiet,
         res' \in ResFacts, core' \in CoreFacts,
         chan' \in [Channel -> Owners], \A c \in Channel : chan'[c].busy = chan[c].busy,
         core'.owner # NoOwner => res'.seen.owner = core'.owner
  PROVE  ResidentInv'
<1>0. ResidentTypeOK /\ SlotSound /\ SeenSound /\ ticket \in Tickets BY TypesGive DEF ResidentInv
<1>1. /\ ticket' \in Tickets /\ ticket'.chan = ticket.chan /\ ticket'.at = ticket.at /\ ticket'.replied = ticket.replied
      /\ ticket'.late = ticket.late
      /\ ticket.at = "authorized" /\ ~ticket'.cancelled => ~ticket.cancelled /\ ticket' # Changed(ticket)
  BY <1>0, RecastGives DEF Recast
<1>2. ResidentTypeOK' BY <1>1 DEF ResidentTypeOK, Tickets, Owners, Quiet, Silence
<1>3. SlotSound' BY <1>0, <1>1 DEF SlotSound
<1>4. SeenSound' BY <1>0, <1>1 DEF SeenSound, Recast
<1> QED BY <1>2, <1>3, <1>4 DEF ResidentInv

\* What Views does: what is seen is what the policy process has.
LEMMA ViewsGive ==
  ASSUME ResidentInv, NEW r, NEW k, Views(r, k),
         r \in ResFacts, k \in CoreFacts
  PROVE  /\ Recast /\ core' = k /\ res'.seen.owner = core'.owner
         /\ res' \in ResFacts
<1>1. core' = k /\ res' = [r EXCEPT !.seen = Facts(k)]
      /\ ticket' = IF res.seen = Facts(k) THEN ticket ELSE Changed(ticket)
  BY DEF Views
<1>2. Facts(k) = [enabled |-> k.enabled, owner |-> k.owner] BY DEF Facts
<1>3. /\ res'.seen = Facts(k) /\ res'.seen.owner = k.owner
      /\ res' \in ResFacts
  BY <1>1, <1>2
<1>4. Recast BY <1>1, <1>3 DEF Recast
<1> QED BY <1>1, <1>3, <1>4

LEMMA RefreshedIs ==
  ASSUME ResidentInv
  PROVE  /\ Refreshed \in CoreFacts
         /\ core \in CoreFacts /\ res \in ResFacts
         /\ chan \in [Channel -> Owners]
BY DEF ResidentInv, ResidentTypeOK, Refreshed, Owners

\* The policy process, as the coordinator sees it.
LEMMA SeenSteps ==
  ASSUME NoOwnerIsNoChannel, ResidentInv, Quiet,
         (\E c \in Channel : Accept(c)) \/ ConfigureAccess \/ Monitor \/ PolicyEvent \/ StopAccess
  PROVE  ResidentInv'
<1>0. /\ core \in CoreFacts /\ res \in ResFacts
      /\ Refreshed \in CoreFacts
      /\ UNCHANGED chan /\ chan \in [Channel -> Owners]
  BY RefreshedIs DEF Accept, ConfigureAccess, Monitor, PolicyEvent, StopAccess
<1>1. CASE \E r, k : /\ Views(r, k) /\ r \in ResFacts /\ k \in CoreFacts
  BY <1>0, <1>1, ViewsGive, RecastIsSound
<1>2. ASSUME NEW c \in Channel, Accept(c) PROVE ResidentInv'
  <2>1. Views(res, [Refreshed EXCEPT !.owner = c]) BY <1>2 DEF Accept
  <2>2. [Refreshed EXCEPT !.owner = c] \in CoreFacts
    BY <1>0
  <2> QED BY <1>0, <1>1, <2>1, <2>2
<1>3. CASE ConfigureAccess
  <2>1. Views([res EXCEPT !.inhibit = FALSE], [core EXCEPT !.enabled = TRUE]) BY <1>3 DEF ConfigureAccess
  <2>2. [core EXCEPT !.enabled = TRUE] \in CoreFacts
    BY <1>0
  <2>3. [res EXCEPT !.inhibit = FALSE] \in ResFacts
    BY <1>0
  <2> QED BY <1>1, <2>1, <2>2, <2>3
<1>4. CASE Monitor BY <1>0, <1>1, <1>4 DEF Monitor
<1>5. CASE PolicyEvent /\ res.storage
  <2>1. Views([res EXCEPT !.audit = TRUE], Refreshed) BY <1>5 DEF PolicyEvent
  <2>2. [res EXCEPT !.audit = TRUE] \in ResFacts
    BY <1>0
  <2> QED BY <1>0, <1>1, <2>1, <2>2
<1>6. ASSUME NEW k, NEW a \in BOOLEAN, core' = k, k.owner = NoOwner,
             k \in CoreFacts,
             res' = [res EXCEPT !.audit = a, !.inhibit = TRUE, !.seen = Facts(k)],
             ticket' = IF res.seen = Facts(k) THEN Cancelled(ticket) ELSE Changed(ticket)
      PROVE  ResidentInv'
  <2>1. Facts(k) = [enabled |-> k.enabled, owner |-> k.owner] BY DEF Facts
  <2>2. /\ res'.seen = Facts(k)
        /\ res' \in ResFacts
    <3>1. Facts(k) \in [enabled : BOOLEAN, owner : Channel \union {NoOwner}] BY <1>6, <2>1
    <3>2. res' = [res EXCEPT !.audit = a, !.inhibit = TRUE, !.seen = Facts(k)] BY <1>6
    <3> QED BY <1>0, <3>1, <3>2
  <2>3. Recast BY <1>6, <2>2 DEF Recast
  <2> QED BY <1>0, <1>6, <2>2, <2>3, RecastIsSound
<1>7. CASE PolicyEvent /\ ~res.storage
  <2> DEFINE k == [core EXCEPT !.owner = NoOwner]
  <2>1. /\ core' = k /\ res' = [res EXCEPT !.audit = FALSE, !.inhibit = TRUE, !.seen = Facts(core')]
        /\ ticket' = IF res.seen = Facts(core') THEN Cancelled(ticket) ELSE Changed(ticket)
    BY <1>7 DEF PolicyEvent
  <2>2. k \in CoreFacts /\ k.owner = NoOwner BY <1>0
  <2> HIDE DEF k
  <2> QED BY <1>6, <2>1, <2>2
<1>8. CASE StopAccess
  <2> DEFINE k == [core EXCEPT !.enabled = FALSE, !.owner = NoOwner]
  <2>1. /\ core' = k /\ res' = [res EXCEPT !.inhibit = TRUE, !.seen = Facts(core')]
        /\ ticket' = IF res.seen = Facts(core') THEN Cancelled(ticket) ELSE Changed(ticket)
    BY <1>8 DEF StopAccess
  <2>2. k \in CoreFacts /\ k.owner = NoOwner BY <1>0
  <2>3. res.audit \in BOOLEAN /\ res' = [res EXCEPT !.audit = res.audit, !.inhibit = TRUE, !.seen = Facts(k)]
    BY <1>0, <2>1
  <2> HIDE DEF k
  <2> QED BY <1>6, <2>1, <2>2, <2>3
<1> QED BY <1>2, <1>3, <1>4, <1>5, <1>7, <1>8, <1>0 DEF PolicyEvent

\* Owners that come and go, what is seen of them, and the ends of processes.
LEMMA OtherSteps ==
  ASSUME NoOwnerIsNoChannel, ResidentInv, Quiet,
         \/ \E c \in Channel : OpenChannel(c) \/ CloseChannel(c) \/ Cleanup(c)
         \/ StopArrives \/ Yield \/ StorageChanges \/ CoreDies \/ PolicyFailed
  PROVE  ResidentInv'
<1>0. /\ core \in CoreFacts /\ res \in ResFacts
      /\ chan \in [Channel -> Owners] /\ (core.owner # NoOwner => res.seen.owner = core.owner)
  BY RefreshedIs DEF ResidentInv, SeenSound
<1>1. ASSUME NEW c \in Channel, NEW at \in {"open", "closed", "gone"},
             chan' = [chan EXCEPT ![c] = [chan[c] EXCEPT !.at = at]]
      PROVE  chan' \in [Channel -> Owners] /\ \A d \in Channel : chan'[d].busy = chan[d].busy
  <2>1. [chan[c] EXCEPT !.at = at] \in Owners /\ [chan[c] EXCEPT !.at = at].busy = chan[c].busy
    BY <1>0 DEF Owners
  <2> QED BY <1>0, <1>1, <2>1
<1>2. ASSUME NEW c \in Channel, OpenChannel(c) \/ CloseChannel(c) PROVE ResidentInv'
  <2>1. chan' \in [Channel -> Owners] /\ \A d \in Channel : chan'[d].busy = chan[d].busy
    BY <1>1, <1>2 DEF OpenChannel, CloseChannel
  <2>2. Recast /\ UNCHANGED <<res, core>> BY <1>2 DEF OpenChannel, CloseChannel, Recast
  <2> QED BY <1>0, <2>1, <2>2, RecastIsSound
<1>3. ASSUME NEW c \in Channel, Cleanup(c) PROVE ResidentInv'
  <2>1. chan' \in [Channel -> Owners] /\ \A d \in Channel : chan'[d].busy = chan[d].busy
    BY <1>1, <1>3 DEF Cleanup
  <2>2. CASE Views(res, [core EXCEPT !.owner = NoOwner])
    <3>1. [core EXCEPT !.owner = NoOwner] \in CoreFacts
      BY <1>0
    <3> QED BY <1>0, <2>1, <2>2, <3>1, ViewsGive, RecastIsSound
  <2>3. CASE UNCHANGED <<res, core, ticket>>
    <3>1. Recast BY <2>3 DEF Recast
    <3> QED BY <1>0, <2>1, <2>3, <3>1, RecastIsSound
  <2> QED BY <1>3, <2>2, <2>3 DEF Cleanup
<1>4. CASE StopArrives \/ PolicyFailed \/ StorageChanges
  <2>1. /\ res'.seen = res.seen /\ UNCHANGED <<core, chan>> /\ ticket' \in {ticket, Cancelled(ticket)}
        /\ res' \in ResFacts
    BY <1>0, <1>4 DEF StopArrives, PolicyFailed, StorageChanges
  <2>2. Recast BY <2>1 DEF Recast
  <2> QED BY <1>0, <2>1, <2>2, RecastIsSound
<1>5. CASE Yield \/ CoreDies
  <2>1. /\ UNCHANGED <<res, chan, ticket>> /\ core'.owner \in {core.owner, NoOwner}
        /\ core' \in CoreFacts
    BY <1>0, <1>5 DEF Yield, CoreDies
  <2>2. Recast BY <2>1 DEF Recast
  <2> QED BY <1>0, <2>1, <2>2, RecastIsSound
<1> QED BY <1>2, <1>3, <1>4, <1>5

\* The worker moves the ticket on; only AskAuthority confirms its authority.
LEMMA WorkerSteps ==
  ASSUME NoOwnerIsNoChannel, ResidentInv, Quiet,
         Start \/ AskAuthority \/ CheckAgain \/ Effect \/ Returns \/ TimePasses
  PROVE  ResidentInv'
<1>0. ResidentTypeOK /\ SlotSound /\ SeenSound /\ ticket \in Tickets BY TypesGive DEF ResidentInv
<1>1. UNCHANGED <<res, core, chan>>
  BY DEF Start, AskAuthority, CheckAgain, Effect, Returns, TimePasses, Worker
<1>2. /\ ticket' \in Tickets /\ ticket.at # "none" /\ ticket'.at # "none"
      /\ ticket'.chan = ticket.chan /\ ticket'.replied = ticket.replied
      /\ ticket'.at = "authorized" /\ ~ticket'.cancelled =>
           (ticket.at = "authorized" /\ ~ticket.cancelled) \/ (core.owner = ticket.chan /\ ticket.chan \in Channel)
  <2>1. CASE Start \/ CheckAgain
    <3>1. PICK to \in {"started", "checked", "ended"}, ok \in BOOLEAN : ticket' = [ticket EXCEPT !.at = to, !.ok = ok]
      <4>1. \E to \in {"started", "checked"} : ticket' = [ticket EXCEPT !.at = "ended", !.ok = FALSE]
                                              \/ ticket' = [ticket EXCEPT !.at = to]
        BY <2>1 DEF Start, CheckAgain, Checks, Ends
      <4>2. ticket.ok \in BOOLEAN BY <1>0 DEF Tickets
      <4>3. \A to \in {"started", "checked"} : [ticket EXCEPT !.at = to] = [ticket EXCEPT !.at = to, !.ok = ticket.ok]
        BY <1>0 DEF Tickets
      <4> QED BY <4>1, <4>2, <4>3
    <3>2. ticket.at # "none" BY <2>1 DEF Start, CheckAgain, Checks
    <3> QED BY <1>0, <3>1, <3>2 DEF Tickets
  <2>2. CASE AskAuthority
    <3>1. ticket.at = "started" /\ ticket.chan \in Channel BY <1>0, <2>2 DEF AskAuthority, SlotSound
    <3>2. \/ ticket' = [ticket EXCEPT !.at = "ended", !.ok = FALSE]
          \/ ticket' = [ticket EXCEPT !.at = "authorized"] /\ core.owner = ticket.chan
      BY <2>2 DEF AskAuthority, Ends
    <3> QED BY <1>0, <3>1, <3>2 DEF Tickets
  <2>3. CASE Effect BY <1>0, <2>3 DEF Effect, Tickets
  <2>4. CASE Returns
    <3>1. \/ \E ok \in BOOLEAN : ticket' = [ticket EXCEPT !.at = "ended", !.ok = ok]
          \/ ticket' = [ticket EXCEPT !.at = "started"]
      BY <2>4 DEF Returns, Ends
    <3>2. ticket.at # "none" BY <2>4 DEF Returns
    <3> QED BY <1>0, <3>1, <3>2 DEF Tickets
  <2>5. CASE TimePasses BY <1>0, <2>5 DEF TimePasses, Tickets
  <2> QED BY <2>1, <2>2, <2>3, <2>4, <2>5
<1>3. ResidentTypeOK' BY <1>0, <1>1, <1>2 DEF ResidentTypeOK, Tickets, Quiet, Silence
<1>4. SlotSound' BY <1>0, <1>1, <1>2 DEF SlotSound
<1>5. SeenSound' BY <1>0, <1>1, <1>2 DEF SeenSound, NoOwnerIsNoChannel
<1> QED BY <1>3, <1>4, <1>5 DEF ResidentInv

\* What an answer leaves: its owner waits for nothing more.
LEMMA AnsweredGives ==
  ASSUME ResidentTypeOK, NEW c \in Channel, NEW b \in {"no", "observing", "working"}, OwnerIs(c, b)
  PROVE  chan' \in [Channel -> Owners] /\ \A d \in Channel : chan'[d].busy = IF d = c THEN b ELSE chan[d].busy
<1>0. chan \in [Channel -> Owners] BY TypesGive
<1>1. [chan[c] EXCEPT !.busy = b] \in Owners /\ [chan[c] EXCEPT !.busy = b].busy = b BY <1>0 DEF Owners
<1> QED BY <1>0, <1>1 DEF OwnerIs

LEMMA CompletesGives ==
  ASSUME ResidentTypeOK, NEW c \in Channel, NEW a \in {"refused", "unknown", "done"}, Completes(c, a)
  PROVE  /\ OwnerIs(c, "no") /\ told'.chan = c /\ res'.seen = res.seen
         /\ told' \in Sayings
         /\ res' \in ResFacts
BY DEF Completes, Answers, ResidentTypeOK

LEMMA OutcomeIs == ASSUME NEW f PROVE Outcome(f) \in {"refused", "unknown", "done"}
BY DEF Outcome

LEMMA DispatchSteps ==
  ASSUME NoOwnerIsNoChannel, ResidentInv, NEW c \in Channel, Dispatch(c) \/ Observed(c) PROVE ResidentInv'
<1>0. ResidentTypeOK /\ SlotSound /\ SeenSound /\ UNCHANGED core BY DEF ResidentInv, Dispatch, Observed
<1>1. chan[c].busy \in {"no", "observing"} BY DEF Dispatch, Observed
<1>2. ASSUME NEW b \in {"no", "observing"}, OwnerIs(c, b), UNCHANGED ticket, res'.seen = res.seen,
             told' \in Sayings,
             res' \in ResFacts
      PROVE  ResidentInv'
  <2>1. chan' \in [Channel -> Owners] /\ \A d \in Channel : chan'[d].busy = IF d = c THEN b ELSE chan[d].busy
    BY <1>0, <1>2, AnsweredGives
  <2>2. ResidentTypeOK' BY <1>0, <1>2, <2>1 DEF ResidentTypeOK, Owners
  <2>3. SlotSound' BY <1>0, <1>1, <1>2, <2>1 DEF SlotSound
  <2>4. SeenSound' BY <1>0, <1>2 DEF SeenSound
  <2> QED BY <2>2, <2>3, <2>4 DEF ResidentInv
<1>3. CASE Dispatch(c)
  <2>1. UNCHANGED ticket BY <1>3 DEF Dispatch
  <2>2. res'.seen = res.seen /\ res' \in ResFacts
    BY <1>0, <1>3 DEF Dispatch, ResidentTypeOK
  <2>3. PICK b \in {"no", "observing"} : OwnerIs(c, b) BY <1>3 DEF Dispatch, Answers
  <2>4. told' \in Sayings
    BY <1>3 DEF Dispatch, Answers, Quiet, Silence
  <2> QED BY <1>2, <2>1, <2>2, <2>3, <2>4
<1>4. CASE Observed(c) /\ Answers(c, "refused") /\ UNCHANGED <<res, ticket>>
  <2>1. /\ OwnerIs(c, "no") /\ told' \in Sayings
    BY <1>4 DEF Answers
  <2> QED BY <1>0, <1>2, <1>4, <2>1 DEF ResidentTypeOK
<1>5. CASE Observed(c) /\ Completes(c, "refused") /\ UNCHANGED ticket
  BY <1>0, <1>2, <1>5, CompletesGives
<1>6. CASE /\ Observed(c) /\ ticket.at = "none" /\ ticket' = [NoTicket EXCEPT !.chan = c, !.at = "queued"]
           /\ OwnerIs(c, "working") /\ Quiet /\ UNCHANGED res
  <2>1. chan' \in [Channel -> Owners] /\ \A d \in Channel : chan'[d].busy = IF d = c THEN "working" ELSE chan[d].busy
    BY <1>0, <1>6, AnsweredGives
  <2>2. ticket' \in Tickets /\ ticket'.chan = c /\ ticket'.at = "queued" /\ ~ticket'.replied
    BY <1>6 DEF NoTicket, Tickets
  <2>3. \A d \in Channel : chan[d].busy # "working" BY <1>0, <1>6 DEF SlotSound, NoOwnerIsNoChannel
  <2>4. ResidentTypeOK' BY <1>0, <1>6, <2>1, <2>2 DEF ResidentTypeOK, Owners, Tickets, Quiet, Silence
  <2>5. SlotSound' BY <2>1, <2>2, <2>3 DEF SlotSound
  <2>6. SeenSound' BY <1>0, <1>6, <2>2 DEF SeenSound
  <2> QED BY <2>4, <2>5, <2>6 DEF ResidentInv
<1> QED BY <1>3, <1>4, <1>5, <1>6 DEF Observed

LEMMA DoneSteps == ASSUME NoOwnerIsNoChannel, ResidentInv, Done \/ Deadline PROVE ResidentInv'
<1>0. ResidentTypeOK /\ SlotSound /\ SeenSound /\ UNCHANGED core BY DEF ResidentInv, Done, Deadline
<1>1. ticket \in Tickets BY <1>0, TypesGive
<1>2. CASE Done /\ ticket.replied
  <2>1. ticket' = NoTicket /\ UNCHANGED <<res, chan>> /\ Quiet BY <1>2 DEF Done
  <2>2. \A d \in Channel : chan[d].busy # "working" BY <1>0, <1>2 DEF SlotSound
  <2>3. ResidentTypeOK' BY <1>0, <2>1 DEF ResidentTypeOK, NoTicket, Quiet, Silence
  <2>4. SlotSound' /\ SeenSound' BY <1>0, <2>1, <2>2 DEF SlotSound, SeenSound, NoTicket
  <2> QED BY <2>3, <2>4 DEF ResidentInv
<1>3. CASE Done /\ ~ticket.replied
  <2> DEFINE c == ticket.chan
  <2>1. c \in Channel /\ chan[c].busy = "working" BY <1>0, <1>3 DEF Done, SlotSound
  <2>2. ticket' = NoTicket /\ Completes(c, Outcome(~ticket.ok)) BY <1>3 DEF Done
  <2> HIDE DEF c
  <2>3. /\ OwnerIs(c, "no") /\ res'.seen = res.seen
        /\ told' \in Sayings
        /\ res' \in ResFacts
    BY <1>0, <2>1, <2>2, CompletesGives, OutcomeIs
  <2>4. chan' \in [Channel -> Owners] /\ \A d \in Channel : chan'[d].busy = IF d = c THEN "no" ELSE chan[d].busy
    BY <1>0, <2>1, <2>3, AnsweredGives
  <2>5. \A d \in Channel : chan'[d].busy # "working" BY <1>0, <2>4 DEF SlotSound, c
  <2>6. ResidentTypeOK' BY <1>0, <2>2, <2>3, <2>4 DEF ResidentTypeOK, Owners, NoTicket
  <2>7. SlotSound' /\ SeenSound' BY <1>0, <2>2, <2>3, <2>5 DEF SlotSound, SeenSound, NoTicket
  <2> QED BY <2>6, <2>7 DEF ResidentInv
<1>4. CASE Deadline
  <2> DEFINE c == ticket.chan
  <2>0. ticket.late /\ ~ticket.replied BY <1>4 DEF Deadline
  <2>1. CASE ticket.at # "none"
    <3>1. c \in Channel /\ chan[c].busy = "working" BY <1>0, <2>0, <2>1 DEF SlotSound
    <3>2. ticket' = [Cancelled(ticket) EXCEPT !.replied = TRUE] /\ Completes(c, Outcome(TRUE)) BY <1>4 DEF Deadline
    <3>3. /\ ticket' \in Tickets /\ ticket'.chan = c /\ ticket'.at = ticket.at /\ ticket'.replied /\ ticket'.cancelled
      BY <1>1, <2>1, <3>2 DEF Cancelled, Tickets
    <3> HIDE DEF c
    <3>4. /\ OwnerIs(c, "no") /\ res'.seen = res.seen
          /\ told' \in Sayings
          /\ res' \in ResFacts
      BY <1>0, <3>1, <3>2, CompletesGives, OutcomeIs
    <3>5. chan' \in [Channel -> Owners] /\ \A d \in Channel : chan'[d].busy = IF d = c THEN "no" ELSE chan[d].busy
      BY <1>0, <3>1, <3>4, AnsweredGives
    <3>6. \A d \in Channel : chan'[d].busy # "working" BY <1>0, <3>5 DEF SlotSound, c
    <3>7. ResidentTypeOK' BY <1>0, <3>3, <3>4, <3>5 DEF ResidentTypeOK, Owners, Tickets
    <3>8. SlotSound' BY <2>1, <3>1, <3>3, <3>6 DEF SlotSound
    <3>9. SeenSound' BY <1>0, <3>3, <3>4 DEF SeenSound
    <3> QED BY <3>7, <3>8, <3>9 DEF ResidentInv
  <2>2. ticket.at # "none" BY <1>0, <2>0 DEF SlotSound
  <2> QED BY <2>1, <2>2
<1> QED BY <1>2, <1>3, <1>4 DEF Done

LEMMA ResidentSteps == ASSUME NoOwnerIsNoChannel, ResidentInv, [ResidentNext]_residentVars PROVE ResidentInv'
<1>1. CASE UNCHANGED residentVars BY <1>1 DEF residentVars, ResidentInv, ResidentTypeOK, SlotSound, SeenSound
<1>2. CASE Answering BY <1>2, DispatchSteps, DoneSteps DEF Answering
<1>3. CASE Silently /\ Quiet BY <1>3, SeenSteps, OtherSteps, WorkerSteps DEF Silently
<1> QED BY <1>1, <1>2, <1>3 DEF ResidentNext

LEMMA ResidentHolds == ASSUME NoOwnerIsNoChannel PROVE ResidentSpec => []ResidentInv
<1>1. ResidentInit => ResidentInv BY ResidentStarts
<1>2. ResidentInv /\ [ResidentNext]_residentVars => ResidentInv' BY ResidentSteps
<1> QED BY <1>1, <1>2, PTL DEF ResidentSpec

\* The one slot of the provider belongs to the owner that waits for it, or its
\* owner was told of the deadline (work.py, desktop.py: provider_work).
THEOREM SlotsAreOwned == ASSUME NoOwnerIsNoChannel PROVE ResidentSpec => []SlotIsOwned
<1>1. ResidentInv => SlotIsOwned BY DEF ResidentInv, SlotSound, SlotIsOwned
<1> QED BY <1>1, ResidentHolds, PTL

\* The types of the resident, its owners and the ticket.
THEOREM ResidentTypesAreKept == ASSUME NoOwnerIsNoChannel PROVE ResidentSpec => []ResidentTypeOK
<1>1. ResidentInv => ResidentTypeOK BY DEF ResidentInv
<1> QED BY <1>1, ResidentHolds, PTL

LEMMA StepsAreHonest == ASSUME NoOwnerIsNoChannel, ResidentInv, ResidentNext PROVE IsHonest
<1>0. ResidentTypeOK /\ SlotSound BY DEF ResidentInv
<1> SUFFICES ASSUME NEW c \in Channel, chan[c].busy = "working", told'.chan = c
             PROVE  /\ told'.answer = "refused" => ~ticket.dispatched
                    /\ told'.answer = "done" => ~ticket.cancelled /\ core.owner = c /\ res'.audit
  BY DEF IsHonest
<1>1. ~Quiet BY DEF Quiet, Silence, NoOwnerIsNoChannel
<1>2. ASSUME NEW d \in Channel, Dispatch(d) \/ Observed(d) PROVE FALSE
  <2>1. chan[d].busy # "working" BY <1>2 DEF Dispatch, Observed
  <2>2. told'.chan = d BY <1>1, <1>2 DEF Dispatch, Observed, Answers, Completes
  <2> QED BY <2>1, <2>2
<1>3. ASSUME NEW f, Completes(ticket.chan, Outcome(f))
      PROVE  /\ told'.answer = "refused" => ~ticket.dispatched
             /\ told'.answer = "done" => ~ticket.cancelled /\ core.owner = c /\ res'.audit
  <2>1. /\ told'.answer = IF Authorized(ticket.chan) /\ res.storage THEN Outcome(f) ELSE "unknown"
        /\ res' = [res EXCEPT !.audit = res.storage] /\ told'.chan = ticket.chan
    BY <1>3 DEF Completes, Answers
  <2>2. res'.audit = res.storage BY <1>0, <2>1 DEF ResidentTypeOK
  <2>3. Outcome(f) = "refused" => ~ticket.dispatched BY DEF Outcome
  <2>4. Outcome(f) = "done" => ~ticket.cancelled BY DEF Outcome
  <2> QED BY <2>1, <2>2, <2>3, <2>4 DEF Authorized
<1>4. CASE Done \/ Deadline BY <1>1, <1>3, <1>4 DEF Done, Deadline
<1> QED BY <1>1, <1>2, <1>4 DEF ResidentNext, Answering

\* "refused" is answered while nothing has been dispatched, and "done" only under
\* an authority that lasted and with the result in the audit log (desktop.py:
\* completed), for every order of work, deadline, Stop and policy process.
THEOREM AnswersStayHonest == ASSUME NoOwnerIsNoChannel PROVE ResidentSpec => AnswersAreHonest
<1>1. ResidentInv /\ [ResidentNext]_residentVars => [IsHonest]_residentVars BY StepsAreHonest
<1> QED BY <1>1, ResidentHolds, PTL DEF ResidentSpec, AnswersAreHonest

LEMMA StepsAreFenced == ASSUME NoOwnerIsNoChannel, ResidentInv, ResidentNext PROVE IsFenced
<1>0. ticket \in Tickets /\ SeenSound BY TypesGive DEF ResidentInv
<1> SUFFICES ASSUME ticket.at = "authorized", ticket'.at = "checked" PROVE core.owner \in {ticket.chan, NoOwner}
  BY DEF IsFenced
<1>1. ~ticket.cancelled
  <2> SUFFICES ASSUME ticket.cancelled PROVE FALSE BY <1>0 DEF Tickets
  <2>1. ticket' \in {ticket, Cancelled(ticket), Changed(ticket), NoTicket} => FALSE
    <3>1. ticket' \in {ticket, Cancelled(ticket), Changed(ticket)} => ticket'.at = ticket.at BY <1>0, RecastGives
    <3> QED BY <3>1 DEF NoTicket
  <2>2. CASE Answering
    <3>1. ticket' # [Cancelled(ticket) EXCEPT !.replied = TRUE] BY <1>0 DEF Cancelled, Tickets
    <3>2. \A c \in Channel : ~Observed(c) BY <2>1 DEF Observed, NoTicket
    <3> QED BY <2>1, <2>2, <3>1, <3>2 DEF Answering, Dispatch, Done, Deadline
  <2>3. CASE Silently
    <3>1. ~(Start \/ AskAuthority \/ CheckAgain \/ Effect \/ Returns \/ TimePasses)
      BY <1>0 DEF Start, AskAuthority, CheckAgain, Effect, Returns, TimePasses, Checks, Ends, Tickets
    <3>2. \A r, k : ~Views(r, k) BY <2>1 DEF Views
    <3> QED BY <2>1, <2>3, <3>1, <3>2 DEF Silently, OpenChannel, Accept, CloseChannel, Cleanup, StopArrives, StopAccess,
              ConfigureAccess, Yield, PolicyEvent, Monitor, StorageChanges, CoreDies, PolicyFailed
  <2> QED BY <2>2, <2>3 DEF ResidentNext
<1> QED BY <1>0, <1>1 DEF SeenSound

\* No ticket passes its last check once somebody else has the session, though
\* its authority was confirmed before (work.py: Ticket.effect).
THEOREM PreflightStaysFenced == ASSUME NoOwnerIsNoChannel PROVE ResidentSpec => PreflightIsFenced
<1>1. ResidentInv /\ [ResidentNext]_residentVars => [IsFenced]_residentVars BY StepsAreFenced
<1> QED BY <1>1, ResidentHolds, PTL DEF ResidentSpec, PreflightIsFenced

-----------------------------------------------------------------------------
(* The limits of the browser: its access changes so often, and no more     *)
(* frames wait for an extension than its queue holds.                      *)

\* How much waits for an extension, and how often access changes.
BrowserBounds ==
  /\ access.generation <= MaxGeneration + 1 /\ (access.alive => access.generation <= MaxGeneration)
  /\ \A p \in Peer : Len(peer[p].queue) <= Outgoing

\* A step leaves the access of a browser as it is, or counts within its bounds.
LEMMA AccessStaysBounded ==
  ASSUME BrowserLimits, BrowserShape, BrowserBounds, BrowserNext
  PROVE  access'.generation <= MaxGeneration + 1 /\ (access'.alive => access'.generation <= MaxGeneration)
<1>1. /\ access \in Accesses /\ access.generation \in Nat /\ MaxGeneration \in Nat
      /\ access.generation <= MaxGeneration + 1 /\ (access.alive => access.generation <= MaxGeneration)
  BY DEF BrowserShape, Accesses, BrowserLimits, BrowserBounds
<1>2. CASE Configure
  <2>1. PICK s \in BOOLEAN, i \in BOOLEAN :
          access' = [access EXCEPT !.generation = access.generation + 1, !.stopped = s, !.inhibit = i]
    <3>1. access.inhibit \in BOOLEAN BY <1>1 DEF Accesses
    <3> QED BY <1>2, <3>1 DEF Configure
  <2>2. access'.generation = access.generation + 1 /\ access.generation < MaxGeneration
    BY <1>1, <1>2, <2>1 DEF Configure, Accesses
  <2> QED BY <1>1, <2>2
<1>3. CASE PolicyDies
  <2>1. access' = [access EXCEPT !.alive = FALSE, !.inhibit = TRUE, !.generation = access.generation + 1] /\ access.alive
    BY <1>3 DEF PolicyDies
  <2>2. access'.generation = access.generation + 1 /\ ~access'.alive BY <1>1, <2>1 DEF Accesses
  <2> QED BY <1>1, <2>1, <2>2
<1>4. CASE Fence
  <2>1. access' = [access EXCEPT !.inhibit = TRUE] BY <1>4 DEF Fence
  <2> QED BY <1>1, <2>1 DEF Accesses
<1>5. CASE UNCHANGED access BY <1>1, <1>5
<1> QED BY <1>2, <1>3, <1>4, <1>5 DEF BrowserNext, CancelInvalid, Yielded, Execute, Completed, AuditResult, AuditBegins,
          Register, Attach, Attached, Enqueue, Disconnect, Take, Look, Send, LeaveOut, WriterEnds

\* A peer's queue grows only where there is room.
LEMMA QueuesStayBounded ==
  ASSUME BrowserLimits, BrowserShape, BrowserBounds, BrowserNext, NEW p \in Peer
  PROVE  Len(peer'[p].queue) <= Outgoing
<1>1. /\ peer[p] \in Peers /\ peer[p].queue \in Seq(Frames) /\ Len(peer[p].queue) \in Nat
      /\ Len(peer[p].queue) <= Outgoing /\ Outgoing \in Nat
  BY DEF BrowserShape, Peers, BrowserBounds, BrowserLimits
<1>2. CASE peer'[p].queue = peer[p].queue \/ peer'[p].queue = <<>> BY <1>1, <1>2
<1>3. ASSUME NEW q \in Peer, q # p, \E r \in Peers : peer' = [peer EXCEPT ![q] = r] PROVE peer'[p] = peer[p]
  BY <1>3 DEF BrowserShape
<1>k. ASSUME NEW q \in Peer,
             Register(q) \/ Attach(q) \/ Attached(q) \/ Enqueue(q) \/ Disconnect(q)
               \/ Take(q) \/ Look(q) \/ Send(q) \/ LeaveOut(q) \/ WriterEnds(q)
      PROVE  q # p => peer'[p] = peer[p]
  BY <1>k DEF BrowserShape, Register, Attach, Attached, Enqueue, Disconnect, Take, Look, Send, LeaveOut, WriterEnds
<1>4. CASE Enqueue(p)
  <2>1. PICK by \in SUBSET Authority :
          peer' = [peer EXCEPT ![p].queue = Append(peer[p].queue, [by |-> by, generation |-> access.generation])]
    BY <1>4 DEF Enqueue
  <2> DEFINE f == [by |-> by, generation |-> access.generation]
  <2>2. f \in Frames BY DEF Frames, BrowserShape, Accesses
  <2> HIDE DEF f
  <2>3. peer' = [peer EXCEPT ![p] = [peer[p] EXCEPT !.queue = Append(peer[p].queue, f)]] BY <2>1 DEF f
  <2>4. peer'[p].queue = Append(peer[p].queue, f) BY <1>1, <2>3 DEF BrowserShape, Peers
  <2>5. Len(peer[p].queue) < Outgoing BY <1>4 DEF Enqueue
  <2> QED BY <1>1, <2>2, <2>4, <2>5
<1>5. CASE Take(p)
  <2>1. peer' = [peer EXCEPT ![p] = [peer[p] EXCEPT !.sending = <<Head(peer[p].queue)>>, !.offset = 0,
                                       !.queue = Tail(peer[p].queue), !.late = 0]]
    BY <1>5 DEF Take
  <2>2. peer'[p].queue = Tail(peer[p].queue) /\ peer[p].queue # <<>> BY <1>1, <1>5, <2>1 DEF BrowserShape, Peers, Take
  <2> QED BY <1>1, <2>2
<1>6. CASE Register(p) \/ Attach(p) \/ Attached(p) \/ Disconnect(p) \/ Look(p) \/ Send(p) \/ LeaveOut(p) \/ WriterEnds(p)
  <2>0. peer \in [Peer -> Peers] BY DEF BrowserShape
  <2>1. CASE Register(p) \/ Attach(p) \/ Attached(p) \/ Disconnect(p)
    BY <1>1, <2>0, <2>1 DEF Peers, Register, Attach, Attached, Disconnect
  <2>2. ASSUME NEW q, peer' = [peer EXCEPT ![p] = q], q.queue = peer[p].queue \/ q.queue = <<>>
        PROVE  Len(peer'[p].queue) <= Outgoing
    <3>1. peer'[p].queue = peer[p].queue \/ peer'[p].queue = <<>> BY <2>0, <2>2
    <3> QED BY <1>2, <3>1
  <2>3. CASE Look(p)
    <3> DEFINE q == [peer[p] EXCEPT !.looked = TRUE]
    <3>1. peer' = [peer EXCEPT ![p] = q] BY <2>3 DEF Look
    <3>2. q.queue = peer[p].queue BY <1>1 DEF Peers
    <3> HIDE DEF q
    <3> QED BY <2>2, <3>1, <3>2
  <2>4. CASE LeaveOut(p)
    <3> DEFINE q == [peer[p] EXCEPT !.sending = <<>>, !.offset = 0, !.writer = ~Torn(p),
                                    !.torn = peer[p].torn \/ peer[p].offset > 0]
    <3>1. peer' = [peer EXCEPT ![p] = q] BY <2>4 DEF LeaveOut
    <3>2. q.queue = peer[p].queue BY <1>1 DEF Peers
    <3> HIDE DEF q
    <3> QED BY <2>2, <3>1, <3>2
  <2>5. CASE WriterEnds(p)
    <3> DEFINE q == [peer[p] EXCEPT !.writer = FALSE, !.queue = <<>>, !.sending = <<>>, !.looked = FALSE,
                                    !.torn = peer[p].torn \/ peer[p].offset > 0, !.offset = 0]
    <3>1. peer' = [peer EXCEPT ![p] = q] BY <2>5 DEF WriterEnds
    <3>2. q.queue = <<>> BY <1>1 DEF Peers
    <3> HIDE DEF q
    <3> QED BY <2>2, <3>1, <3>2
  <2>6. CASE Send(p)
    <3>1. PICK whole \in BOOLEAN :
            peer' = [peer EXCEPT
                       ![p].looked = FALSE,
                       ![p].begun = IF peer[p].offset = 0 THEN 1 - @ ELSE @,
                       ![p].late = IF @ = 2 THEN 2 ELSE @ + (IF Unwanted(p, Head(peer[p].sending)) THEN 1 ELSE 0),
                       ![p].offset = IF whole THEN 0 ELSE 1,
                       ![p].sending = IF whole THEN <<>> ELSE @]
      BY <2>6 DEF Send
    <3>2. peer'[p].queue = peer[p].queue BY <2>0, <3>1 DEF Peers
    <3> QED BY <1>2, <3>2
  <2> QED BY <1>6, <2>1, <2>3, <2>4, <2>5, <2>6
<1>7. CASE PolicyDies
  <2>1. peer'[p] = peer[p] \/ peer'[p] = [peer[p] EXCEPT !.at = "closed"] BY <1>7 DEF PolicyDies
  <2>2. peer'[p].queue = peer[p].queue BY <1>1, <2>1 DEF Peers
  <2> QED BY <1>2, <2>2
<1>8. CASE UNCHANGED peer BY <1>1, <1>8
<1>9. ASSUME NEW q \in Peer,
             Register(q) \/ Attach(q) \/ Attached(q) \/ Enqueue(q) \/ Disconnect(q)
               \/ Take(q) \/ Look(q) \/ Send(q) \/ LeaveOut(q) \/ WriterEnds(q)
      PROVE  Len(peer'[p].queue) <= Outgoing
  <2>1. CASE q # p BY <1>1, <1>9, <1>k, <2>1
  <2>2. CASE q = p BY <1>4, <1>5, <1>6, <1>9, <2>2
  <2> QED BY <2>1, <2>2
<1> QED BY <1>7, <1>8, <1>9 DEF BrowserNext, Configure, Fence, CancelInvalid, Yielded, Execute, Completed,
          AuditResult, AuditBegins

\* No peer has more frames waiting than it may, and one at most on its way.
THEOREM BrowserTypesAreKept == ASSUME AuthoritiesExist, BrowserLimits PROVE BrowserSpec => []BrowserTypeOK
<1>1. ASSUME BrowserInit PROVE BrowserBounds BY <1>1 DEF BrowserInit, BrowserBounds, BrowserLimits, Absent
<1>2. ASSUME BrowserInv, BrowserBounds, [BrowserNext]_browserVars PROVE BrowserBounds'
  <2>1. CASE BrowserNext
    <3>1. BrowserShape BY <1>2 DEF BrowserInv
    <3> QED BY <1>2, <2>1, <3>1, AccessStaysBounded, QueuesStayBounded DEF BrowserBounds
  <2>2. CASE UNCHANGED browserVars BY <1>2, <2>2 DEF browserVars, BrowserBounds
  <2> QED BY <1>2, <2>1, <2>2
<1>3. ASSUME BrowserInv, BrowserBounds PROVE BrowserTypeOK
  <2>1. access.generation \in 1..(MaxGeneration + 1)
    BY <1>3 DEF BrowserInv, BrowserShape, Accesses, BrowserBounds, BrowserLimits
  <2>2. ASSUME NEW p \in Peer PROVE Len(peer[p].queue) <= Outgoing /\ Len(peer[p].sending) <= 1
    <3>1. peer[p].sending # <<>> => Len(peer[p].sending) = 1 BY <1>3 DEF BrowserInv, WritersSound, WriterSound
    <3>2. Len(<<>>) = 0 OBVIOUS
    <3>3. Len(peer[p].queue) <= Outgoing BY <1>3 DEF BrowserBounds
    <3>4. CASE peer[p].sending = <<>>
      <4>1. Len(peer[p].sending) = 0 BY <3>2, <3>4
      <4>2. Len(peer[p].sending) <= 1 BY <4>1
      <4> QED BY <3>3, <4>2, Zenon
    <3>5. CASE peer[p].sending # <<>>
      <4>1. Len(peer[p].sending) = 1 BY <3>1, <3>5
      <4>2. Len(peer[p].sending) <= 1 BY <4>1
      <4> QED BY <3>3, <4>2, Zenon
    <3> QED BY <3>4, <3>5
  <2>3. \A p \in Peer : peer[p].at \in {"absent", "new", "attaching", "attached", "refused", "closed"}
    BY <1>3 DEF BrowserInv, BrowserShape, Peers
  <2>4. \A u \in Audit : audit[u].at \in {"none", "open", "confirmed", "unknown"}
    BY <1>3 DEF BrowserInv, BrowserShape, Audits
  <2> QED BY <2>1, <2>2, <2>3, <2>4 DEF BrowserTypeOK
<1> QED BY <1>1, <1>2, <1>3, BrowserHolds, PTL DEF BrowserSpec
=============================================================================
