---------------------------- MODULE LinuxBrowser ----------------------------
(***************************************************************************)
(* The browser transports of the Linux resident (desktop/native/linux/     *)
(* browser.py): the peers that carry frames between the policy process and *)
(* the extension, the authority of each browser call, and the audit of     *)
(* each effect.  Everything runs on the scheduler thread, but for the      *)
(* writer thread of each peer and the emergency fence of the recovery      *)
(* client.                                                                 *)
(***************************************************************************)
EXTENDS Naturals, Sequences, FiniteSets

CONSTANTS Peer, Authority, Audit,
          MaxGeneration,  \* configurations and stops
          Outgoing        \* frames a peer may have waiting

AuthoritiesExist == Authority # {}
BrowserLimits == MaxGeneration \in Nat \ {0} /\ Outgoing \in Nat

VARIABLES access,         \* [generation, stopped, alive, inhibit]
          peer,           \* the registered connections
          authority,      \* Browser.authorities
          audit           \* Browser.audits and the journal's record of each

browserVars == <<access, peer, authority, audit>>

Absent == [at |-> "absent", queue |-> <<>>, sending |-> <<>>, offset |-> 0,
           writer |-> FALSE, looked |-> FALSE, torn |-> FALSE, begun |-> 0, late |-> 0]
NoAuthority == [generation |-> 0, live |-> FALSE, revoked |-> FALSE]

BrowserInit ==
    /\ access = [generation |-> 1, stopped |-> TRUE, alive |-> TRUE, inhibit |-> FALSE]
    /\ peer = [p \in Peer |-> Absent]
    /\ authority = [a \in Authority |-> NoAuthority]
    /\ audit = [u \in Audit |-> [at |-> "none", by |-> CHOOSE a \in Authority : TRUE,
                                 doubted |-> FALSE]]

(* valid(): the authority is in the dictionary and still holds. *)
Valid(a) ==
    /\ authority[a].live /\ ~authority[a].revoked
    /\ authority[a].generation = access.generation
    /\ ~access.stopped /\ access.alive /\ ~access.inhibit

----------------------------------------------------------------------------
(* Authority. *)

Open(u) == audit[u].at = "open"

(* end_audit(): the journal gets the one result of an audit. *)
Ended(u, confirmed) ==
    [audit EXCEPT ![u].at = IF confirmed THEN "confirmed" ELSE "unknown"]

(* Every audit whose authority goes is marked for the property. *)
Doubt(as) ==
    [u \in Audit |-> IF Open(u) /\ audit[u].by \in as
                     THEN [audit[u] EXCEPT !.doubted = TRUE] ELSE audit[u]]

(* invalidate(): a new generation; every authority is revoked and          *)
(* forgotten, every open audit ends in doubt.                              *)
Invalidated ==
    /\ authority' = [a \in Authority |->
                       IF authority[a].live
                       THEN [authority[a] EXCEPT !.live = FALSE, !.revoked = TRUE]
                       ELSE authority[a]]
    /\ audit' = [u \in Audit |->
                   IF Open(u) THEN [audit[u] EXCEPT !.at = "unknown", !.doubted = TRUE]
                   ELSE audit[u]]

Configure ==
    /\ access.generation < MaxGeneration
    /\ Invalidated
    /\ \E stopped \in BOOLEAN :
         access' = [access EXCEPT !.generation = @ + 1, !.stopped = stopped,
                                  !.inhibit = IF stopped THEN @ ELSE FALSE]
    /\ UNCHANGED peer

(* The recovery client's fence does not wait for the scheduler: every      *)
(* authority is revoked, and the rest of the stop follows.                 *)
Fence ==
    /\ access' = [access EXCEPT !.inhibit = TRUE]
    /\ authority' = [a \in Authority |->
                       IF authority[a].live THEN [authority[a] EXCEPT !.revoked = TRUE]
                       ELSE authority[a]]
    /\ audit' = Doubt(Authority)
    /\ UNCHANGED peer

(* access.event: the owner of a session yielded or ended it. *)
Yielded(a) ==
    /\ authority[a].live
    /\ authority' = [authority EXCEPT ![a].live = FALSE, ![a].revoked = TRUE]
    /\ audit' = Doubt({a})
    /\ UNCHANGED <<access, peer>>

(* cancel_invalid() *)
CancelInvalid ==
    /\ \E a \in Authority : authority[a].live /\ ~Valid(a)
    /\ authority' = [a \in Authority |->
                       IF authority[a].live /\ ~Valid(a)
                       THEN [authority[a] EXCEPT !.live = FALSE, !.revoked = TRUE]
                       ELSE authority[a]]
    /\ UNCHANGED <<access, peer, audit>>

(* execute(): the call of a live owner gets an authority of its own. *)
Execute(a) ==
    /\ access.alive /\ authority[a] = NoAuthority
    /\ authority' = [authority EXCEPT
                       ![a] = [generation |-> access.generation, live |-> TRUE, revoked |-> FALSE]]
    /\ UNCHANGED <<access, peer, audit>>

(* The policy answers browser.call, or the request timed out: only the     *)
(* stream of browser.endpoint keeps its authority.                         *)
Completed(a) ==
    /\ authority[a].live
    /\ authority' = [authority EXCEPT ![a].live = FALSE]
    /\ audit' = Doubt({a})
    /\ UNCHANGED <<access, peer>>

----------------------------------------------------------------------------
(* native.check of the policy, before and after an effect.  Looking and    *)
(* recording are one turn of the scheduler.                                *)

AuditBegins(u, a) ==
    /\ audit[u].at = "none" /\ Valid(a)
    /\ \E stored \in BOOLEAN :     \* the journal may refuse the intent
         audit' = IF stored THEN [audit EXCEPT ![u] = [at |-> "open", by |-> a, doubted |-> FALSE]]
                  ELSE audit
    /\ UNCHANGED <<access, peer, authority>>

ConfirmedAlways(u, delivered) == delivered
Confirmed(u, delivered) == Valid(audit[u].by) /\ delivered

AuditResult(u) ==
    /\ Open(u)
    /\ \E delivered \in BOOLEAN : audit' = Ended(u, Confirmed(u, delivered))
    /\ UNCHANGED <<access, peer, authority>>

----------------------------------------------------------------------------
(* Peers. *)

Register(p) ==
    /\ peer[p] = Absent /\ access.alive
    /\ peer' = [peer EXCEPT ![p].at = "new", ![p].writer = TRUE]
    /\ UNCHANGED <<access, authority, audit>>

Closed(p) == peer[p].at \in {"absent", "closed"}

(* message(): the first frame must be a hello; what follows it waits for   *)
(* the answer of the policy.                                               *)
Attach(p) ==
    /\ peer[p].at = "new" /\ access.alive
    /\ peer' = [peer EXCEPT ![p].at = "attaching"]
    /\ UNCHANGED <<access, authority, audit>>

Attached(p) ==
    /\ peer[p].at = "attaching"
    /\ \E at \in {"attached", "refused"} : peer' = [peer EXCEPT ![p].at = at]
    /\ UNCHANGED <<access, authority, audit>>

(* Mutant of Enqueue: the length of the queue is not looked at.            *)
EnqueueOverfull(p) ==
    /\ peer[p].at = "attached"
    /\ \E by \in {{}} \cup {{a} : a \in {b \in Authority : Valid(b)}} :
         peer' = [peer EXCEPT
                    ![p].queue = Append(@, [by |-> by, generation |-> access.generation])]
    /\ UNCHANGED <<access, authority, audit>>

(* enqueue(): a full queue costs the peer its connection.  A request       *)
(* carries the authority it was made for, other frames none.               *)
Enqueue(p) ==
    /\ peer[p].at = "attached" /\ Len(peer[p].queue) < Outgoing
    /\ \E by \in {{}} \cup {{a} : a \in {b \in Authority : Valid(b)}} :
         peer' = [peer EXCEPT
                    ![p].queue = Append(@, [by |-> by, generation |-> access.generation])]
    /\ UNCHANGED <<access, authority, audit>>

Disconnect(p) ==
    /\ ~Closed(p)
    /\ peer' = [peer EXCEPT ![p].at = "closed"]
    /\ UNCHANGED <<access, authority, audit>>

----------------------------------------------------------------------------
(* The writer thread. *)

Take(p) ==
    /\ peer[p].writer /\ ~Closed(p)
    /\ peer[p].sending = <<>> /\ peer[p].queue # <<>>
    /\ peer' = [peer EXCEPT ![p].sending = <<Head(peer[p].queue)>>, ![p].offset = 0,
                            ![p].queue = Tail(@), ![p].late = 0]
    /\ UNCHANGED <<access, authority, audit>>

(* Looked at before every chunk; then the writer waits until the socket    *)
(* takes one.                                                              *)
StaleForgotten(p, frame) == Closed(p) \/ ~access.alive
Stale(p, frame) ==
    \/ Closed(p) \/ ~access.alive
    \/ frame.generation # access.generation
    \/ frame.by # {} /\ (access.inhibit \/ \E a \in frame.by : authority[a].revoked)

Unwanted(p, frame) ==
    frame.generation # access.generation \/ \E a \in frame.by : authority[a].revoked

Look(p) ==
    /\ peer[p].writer /\ peer[p].sending # <<>> /\ ~peer[p].looked
    /\ ~Stale(p, Head(peer[p].sending))
    /\ peer' = [peer EXCEPT ![p].looked = TRUE]
    /\ UNCHANGED <<access, authority, audit>>

(* A chunk goes, perhaps the last one.  begun flips with every frame that  *)
(* is begun; late counts the chunks that went although nobody wanted the   *)
(* frame any more.                                                         *)
Send(p) ==
    /\ peer[p].writer /\ peer[p].looked
    /\ LET late == IF Unwanted(p, Head(peer[p].sending)) THEN 1 ELSE 0 IN
       \E whole \in BOOLEAN :
         peer' = [peer EXCEPT
                    ![p].looked = FALSE,
                    ![p].begun = IF peer[p].offset = 0 THEN 1 - @ ELSE @,
                    ![p].late = IF @ = 2 THEN 2 ELSE @ + late,
                    ![p].offset = IF whole THEN 0 ELSE 1,
                    ![p].sending = IF whole THEN <<>> ELSE @]
    /\ UNCHANGED <<access, authority, audit>>

(* A frame nobody wants any more is left out; one that was begun ends the  *)
(* connection, for nothing may follow half a frame.                        *)
TornIgnored(p) == FALSE
Torn(p) == peer[p].offset > 0

LeaveOut(p) ==
    /\ peer[p].writer /\ peer[p].sending # <<>> /\ ~peer[p].looked
    /\ Stale(p, Head(peer[p].sending))
    /\ peer' = [peer EXCEPT ![p].sending = <<>>, ![p].offset = 0,
                            ![p].writer = ~Torn(p),
                            ![p].torn = peer[p].torn \/ peer[p].offset > 0]
    /\ UNCHANGED <<access, authority, audit>>

(* The socket fails, or three seconds pass; the scheduler is asked to      *)
(* disconnect, and what still waits is dropped.                            *)
WriterEnds(p) ==
    /\ peer[p].writer
    /\ \/ Closed(p) /\ peer[p].sending = <<>>
       \/ peer[p].sending # <<>>
    /\ peer' = [peer EXCEPT ![p].writer = FALSE, ![p].queue = <<>>, ![p].sending = <<>>, ![p].looked = FALSE,
                            ![p].torn = peer[p].torn \/ peer[p].offset > 0, ![p].offset = 0]
    /\ UNCHANGED <<access, authority, audit>>

(* policy_failed(): the policy process is gone. *)
PolicyDies ==
    /\ access.alive
    /\ access' = [access EXCEPT !.alive = FALSE, !.inhibit = TRUE,
                                !.generation = @ + 1]
    /\ Invalidated
    /\ peer' = [p \in Peer |-> IF Closed(p) THEN peer[p] ELSE [peer[p] EXCEPT !.at = "closed"]]

BrowserNext ==
    \/ Configure \/ Fence \/ CancelInvalid \/ PolicyDies
    \/ \E a \in Authority : Yielded(a) \/ Execute(a) \/ Completed(a)
    \/ \E u \in Audit : AuditResult(u) \/ \E a \in Authority : AuditBegins(u, a)
    \/ \E p \in Peer : Register(p) \/ Attach(p) \/ Attached(p) \/ Enqueue(p) \/ Disconnect(p)
                       \/ Take(p) \/ Look(p) \/ Send(p) \/ LeaveOut(p) \/ WriterEnds(p)

BrowserSpec == BrowserInit /\ [][BrowserNext]_browserVars

----------------------------------------------------------------------------
BrowserTypeOK ==
    /\ access.generation \in 1..(MaxGeneration + 1)
    /\ \A p \in Peer : peer[p].at \in {"absent", "new", "attaching", "attached", "refused", "closed"}
    /\ \A p \in Peer : Len(peer[p].queue) =< Outgoing /\ Len(peer[p].sending) =< 1
    /\ \A u \in Audit : audit[u].at \in {"none", "open", "confirmed", "unknown"}

(* The journal calls an effect of the browser confirmed only when the      *)
(* authority it was made for was never revoked, replaced or given up       *)
(* between the intent and the result.                                      *)
AuditsAreHonest == \A u \in Audit : audit[u].at = "confirmed" => ~audit[u].doubted

(* After half a frame nothing more is written to that extension.           *)
EndsTorn == \A p \in Peer : peer[p].torn => peer'[p].begun = peer[p].begun

FramesAreWhole == [][EndsTorn]_browserVars

(* A frame whose authority is revoked, or that was made before access was  *)
(* configured anew, gets out by at most the one chunk the writer was       *)
(* already waiting to send.                                                *)
StaleStops == \A p \in Peer : peer[p].late < 2
=============================================================================
