--------------------------- MODULE LinuxResident ---------------------------
(***************************************************************************)
(* Desktop work in the Linux resident: desktop.py (dispatch, provider_work,*)
(* Stop, the policy process and its loss), work.py, channel.py, access.py, *)
(* policy.py and journal.py of desktop/native/linux.                       *)
(*                                                                         *)
(* A coordinator thread runs posted callbacks one at a time; one worker    *)
(* thread does the physical work; reader threads see Stop, a closed owner  *)
(* and the end of the policy process at once and post the rest.  Consent,  *)
(* queues and time belong to the policy process (AccessAdmission): here it *)
(* gives its session to one owner and may take it away on its own.  The    *)
(* generation of Access is renewed when its view of that changes, so of a  *)
(* ticket only matters whether its generation is still the current one.    *)
(***************************************************************************)

CONSTANTS
  Channel,  \* owner channels
  NoOwner   \* nobody has the session

NoOwnerIsNoChannel == NoOwner \notin Channel

VARIABLES
  res,      \* the resident's own facts
  core,     \* the policy process: up, access enabled, whose session is live
  chan,     \* each owner channel and what is under way for it
  ticket,   \* the one provider slot
  told      \* the answer of this step, if it gives one

residentVars == <<res, core, chan, ticket, told>>

NoTicket == [chan |-> NoOwner, at |-> "none", cancelled |-> FALSE, stale |-> FALSE,
             late |-> FALSE, dispatched |-> FALSE, ok |-> FALSE, replied |-> FALSE]

Silence == [chan |-> NoOwner, answer |-> "none"]

ResidentTypeOK ==
  /\ res \in [inhibit : BOOLEAN, audit : BOOLEAN, storage : BOOLEAN, over : BOOLEAN,
              seen : [enabled : BOOLEAN, owner : Channel \union {NoOwner}]]
  /\ core \in [up : BOOLEAN, enabled : BOOLEAN, owner : Channel \union {NoOwner}]
  /\ chan \in [Channel -> [at : {"new", "open", "closed", "gone"},
                           busy : {"no", "observing", "working"}]]
  /\ told \in [chan : Channel \union {NoOwner}, answer : {"none", "refused", "unknown", "done"}]
  /\ ticket \in [chan : Channel \union {NoOwner},
       at : {"none", "queued", "started", "authorized", "checked", "crossed", "ended"},
       cancelled : BOOLEAN, stale : BOOLEAN, late : BOOLEAN, dispatched : BOOLEAN,
       ok : BOOLEAN, replied : BOOLEAN]

ResidentInit ==
  /\ res = [inhibit |-> FALSE, audit |-> TRUE, storage |-> TRUE, over |-> FALSE,
            seen |-> [enabled |-> FALSE, owner |-> NoOwner]]
  /\ core = [up |-> TRUE, enabled |-> FALSE, owner |-> NoOwner]
  /\ chan = [c \in Channel |-> [at |-> "new", busy |-> "no"]]
  /\ ticket = NoTicket /\ told = Silence

-----------------------------------------------------------------------------
(* Parts of the coordinator's callbacks.                                   *)

Facts(k) == [enabled |-> k.enabled, owner |-> k.owner]
Cancelled(t) == [t EXCEPT !.cancelled = t.at # "none"]

\* Mutant of Changed: a new generation leaves the work of the old one alone.
ChangedKeeps(t) == t

\* Access.observe and policy_changed: a view that changed is a new generation,
\* and the work under the old one is cancelled.
Changed(t) == IF t.at = "none" THEN t ELSE [t EXCEPT !.cancelled = TRUE, !.stale = TRUE]
Views(r, k) ==
  /\ core' = k
  /\ res' = [r EXCEPT !.seen = Facts(k)]
  /\ ticket' = IF res.seen = Facts(k) THEN ticket ELSE Changed(ticket)

\* Channel.authority: the owner's process and its channel, then the audit log.
HasAuthority(c) == core.up /\ chan[c].at = "open" /\ res.audit
Authorized(c) == HasAuthority(c) /\ core.owner = c

\* Access.refresh ends the intents of owners without authority first.
Refreshed == IF core.owner # NoOwner /\ ~HasAuthority(core.owner)
             THEN [core EXCEPT !.owner = NoOwner] ELSE core

OwnerIs(c, busy) == chan' = [chan EXCEPT ![c] = [chan[c] EXCEPT !.busy = busy]]
Quiet == told' = Silence
Answers(c, answer) == OwnerIs(c, "no") /\ told' = [chan |-> c, answer |-> answer]

Coordinator == ~res.over

-----------------------------------------------------------------------------
(* Owner channels: open, accept, dispatch, close.                          *)

OpenChannel(c) ==
  /\ Coordinator /\ chan[c].at = "new" /\ core.up /\ res.audit
  /\ chan' = [chan EXCEPT ![c] = [chan[c] EXCEPT !.at = "open"]]
  /\ UNCHANGED <<res, core, ticket>>

Accept(c) ==
  /\ Coordinator /\ HasAuthority(c) /\ Refreshed.enabled /\ Refreshed.owner = NoOwner
  /\ Views(res, [Refreshed EXCEPT !.owner = c])
  /\ UNCHANGED chan

\* An intent is in the audit log before anything is done about an action, and
\* nothing is done when it cannot be written.
Dispatch(c) ==
  /\ Coordinator /\ chan[c].busy = "no" /\ Authorized(c)
  /\ IF res.inhibit THEN res' = res /\ Answers(c, "refused")
     ELSE /\ res' = [res EXCEPT !.audit = res.storage]
          /\ IF res.storage
             THEN OwnerIs(c, "observing") /\ Quiet
             ELSE Answers(c, "refused")
  /\ UNCHANGED <<core, ticket>>

\* What every answer of the provider goes through: the owner is authorized
\* again, and the result is written to the audit log.
Completes(c, answer) ==
  /\ res' = [res EXCEPT !.audit = res.storage]
  /\ Answers(c, IF Authorized(c) /\ res.storage THEN answer ELSE "unknown")

\* The session was looked up, asynchronously; the one slot may be taken.
Observed(c) ==
  /\ Coordinator /\ chan[c].busy = "observing"
  /\ UNCHANGED core
  /\ \/ ~Authorized(c) /\ Answers(c, "refused") /\ UNCHANGED <<res, ticket>>
     \/ Answers(c, "refused") /\ UNCHANGED <<res, ticket>>  \* the desktop is locked
     \/ Authorized(c) /\ ticket.at # "none" /\ Completes(c, "refused") /\ UNCHANGED ticket
     \/ /\ Authorized(c) /\ ticket.at = "none"
        /\ ticket' = [NoTicket EXCEPT !.chan = c, !.at = "queued"]
        /\ OwnerIs(c, "working") /\ Quiet
        /\ UNCHANGED res

\* The owner's process or its socket goes; a reader or writer thread sees it.
CloseChannel(c) ==
  /\ chan[c].at \in {"new", "open"}
  /\ chan' = [chan EXCEPT ![c] = [chan[c] EXCEPT !.at = "closed"]]
  /\ ticket' = IF ticket.chan = c /\ ~ticket.replied THEN Cancelled(ticket) ELSE ticket
  /\ UNCHANGED <<res, core>>

Cleanup(c) ==
  /\ Coordinator /\ chan[c].at = "closed"
  /\ chan' = [chan EXCEPT ![c] = [chan[c] EXCEPT !.at = "gone"]]
  /\ IF core.up /\ core.owner = c THEN Views(res, [core EXCEPT !.owner = NoOwner])
     ELSE UNCHANGED <<res, core, ticket>>

-----------------------------------------------------------------------------
(* The worker.  Ticket.effect checks, asks the policy process, and checks  *)
(* again; only then is the ticket dispatched.                              *)

Ends(ok) == ticket' = [ticket EXCEPT !.at = "ended", !.ok = ok]
Worker == UNCHANGED <<res, core, chan>>
Checks(from, to) ==
  /\ ticket.at = from
  /\ IF ticket.cancelled \/ ticket.late THEN Ends(FALSE) ELSE ticket' = [ticket EXCEPT !.at = to]

Start == Checks("queued", "started") /\ Worker

AskAuthority ==
  /\ ticket.at = "started"
  /\ LET c == ticket.chan
         refused == chan[c].at # "open" \/ res.inhibit \/ ~core.up \/ core.owner # c
     IN IF ticket.cancelled \/ ticket.late \/ refused THEN Ends(FALSE)
        ELSE ticket' = [ticket EXCEPT !.at = "authorized"]
  /\ Worker

CheckAgain == Checks("authorized", "checked") /\ Worker

Effect ==
  /\ ticket.at = "checked"
  /\ ticket' = [ticket EXCEPT !.at = "crossed", !.dispatched = TRUE]
  /\ Worker

\* The provider returns or fails, with another effect or without one.
Returns ==
  /\ \/ ticket.at \in {"started", "crossed"} /\ \E ok \in BOOLEAN : Ends(ok)
     \/ ticket.at = "crossed" /\ ticket' = [ticket EXCEPT !.at = "started"]
  /\ Worker

-----------------------------------------------------------------------------
(* completed(), after the work or at its deadline.                         *)

\* Mutant of Outcome: it does not ask whether the effect was already dispatched.
OutcomeForgets(failed) ==
  IF failed \/ ticket.stale \/ ticket.cancelled \/ ticket.late THEN "refused" ELSE "done"

Outcome(failed) ==
  IF failed \/ ticket.stale \/ ticket.cancelled \/ ticket.late
  THEN IF ticket.dispatched THEN "unknown" ELSE "refused"
  ELSE "done"

Done ==
  /\ Coordinator /\ ticket.at = "ended"
  /\ ticket' = NoTicket /\ UNCHANGED core
  /\ IF ticket.replied THEN UNCHANGED <<res, chan>> /\ Quiet
     ELSE Completes(ticket.chan, Outcome(~ticket.ok))

\* The slot stays taken: the work may still be running.
Deadline ==
  /\ Coordinator /\ ticket.late /\ ~ticket.replied
  /\ ticket' = [Cancelled(ticket) EXCEPT !.replied = TRUE] /\ UNCHANGED core
  /\ Completes(ticket.chan, Outcome(TRUE))

TimePasses ==
  /\ ticket.at # "none" /\ ~ticket.late
  /\ ticket' = [ticket EXCEPT !.late = TRUE]
  /\ Worker

-----------------------------------------------------------------------------
(* The person, the policy process and the audit log.                       *)

\* emergency_fence, on the thread that reads the Stop; the rest is posted.
StopArrives ==
  /\ Coordinator
  /\ res' = [res EXCEPT !.inhibit = TRUE]
  /\ ticket' = Cancelled(ticket)
  /\ UNCHANGED <<core, chan>>

\* The posted rest of a Stop; also when another console session is seen.
StopAccess ==
  /\ Coordinator /\ core.up
  /\ core' = [core EXCEPT !.enabled = FALSE, !.owner = NoOwner]
  /\ res' = [res EXCEPT !.inhibit = TRUE, !.seen = Facts(core')]
  /\ ticket' = IF res.seen = Facts(core') THEN Cancelled(ticket) ELSE Changed(ticket)
  /\ UNCHANGED chan

ConfigureAccess ==
  /\ Coordinator /\ core.up /\ res.audit
  /\ Views([res EXCEPT !.inhibit = FALSE], [core EXCEPT !.enabled = TRUE])
  /\ UNCHANGED chan

\* The policy process takes the session away, at any time; its events are posted.
Yield ==
  /\ core.up /\ core.owner # NoOwner
  /\ core' = [core EXCEPT !.owner = NoOwner]
  /\ UNCHANGED <<res, chan, ticket>>

\* policy_event: an event that cannot be audited ends every owner and fences
\* the resident, which stays up.
PolicyEvent ==
  /\ Coordinator /\ core.up
  /\ IF res.storage
     THEN Views([res EXCEPT !.audit = TRUE], Refreshed)
     ELSE /\ core' = [core EXCEPT !.owner = NoOwner]
          /\ res' = [res EXCEPT !.audit = FALSE, !.inhibit = TRUE, !.seen = Facts(core')]
          /\ ticket' = IF res.seen = Facts(core') THEN Cancelled(ticket) ELSE Changed(ticket)
  /\ UNCHANGED chan

Monitor ==
  /\ Coordinator /\ core.up
  /\ Views(res, Refreshed)
  /\ UNCHANGED chan

StorageChanges ==
  /\ res' = [res EXCEPT !.storage = ~res.storage]
  /\ UNCHANGED <<core, chan, ticket>>

\* The pipe breaks, a frame is bad, a reply is late: the transport has failed
\* for good.  The coordinator then ends the resident.
CoreDies ==
  /\ core.up
  /\ core' = [core EXCEPT !.up = FALSE]
  /\ UNCHANGED <<res, chan, ticket>>

PolicyFailed ==
  /\ Coordinator /\ ~core.up
  /\ res' = [res EXCEPT !.inhibit = TRUE, !.over = TRUE]
  /\ ticket' = Cancelled(ticket)
  /\ UNCHANGED <<core, chan>>

-----------------------------------------------------------------------------

Answering == (\E c \in Channel : Dispatch(c) \/ Observed(c)) \/ Done \/ Deadline

Silently ==
  \/ \E c \in Channel : OpenChannel(c) \/ Accept(c) \/ CloseChannel(c) \/ Cleanup(c)
  \/ Start \/ AskAuthority \/ CheckAgain \/ Effect \/ Returns \/ TimePasses
  \/ StopArrives \/ StopAccess \/ ConfigureAccess \/ Yield \/ PolicyEvent \/ Monitor
  \/ StorageChanges \/ CoreDies \/ PolicyFailed

ResidentNext == Answering \/ (Silently /\ Quiet)

ResidentSpec == ResidentInit /\ [][ResidentNext]_residentVars

-----------------------------------------------------------------------------

\* An answer is true when it is given: "refused" while nothing has been
\* dispatched, "done" only to an owner whose authority lasted all the while and
\* with its result in the audit log, however the work, its deadline, Stop and
\* the policy process came in between (tactical/111:55-58).
IsHonest ==
  \A c \in Channel : chan[c].busy = "working" /\ told'.chan = c =>
     /\ told'.answer = "refused" => ~ticket.dispatched
     /\ told'.answer = "done" => ~ticket.cancelled /\ core.owner = c /\ res'.audit

AnswersAreHonest == [][IsHonest]_residentVars

\* Late preflight does not go on under replacement authority: what passes its
\* last check does not do so once somebody else has the session.
IsFenced == ticket.at = "authorized" /\ ticket'.at = "checked" => core.owner \in {ticket.chan, NoOwner}

PreflightIsFenced == [][IsFenced]_residentVars

\* No owner has two actions in the resident, and a slot that is taken belongs
\* to an owner that waits for it or was told of the deadline.
SlotIsOwned ==
  /\ \A c \in Channel : chan[c].busy = "working" => ticket.chan = c /\ ~ticket.replied
  /\ ticket.at # "none" => ticket.replied \/ chan[ticket.chan].busy = "working"
=============================================================================
