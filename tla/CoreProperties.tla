--------------------------- MODULE CoreProperties ---------------------------
(***************************************************************************)
(* What the browser policy promises, over the states and steps of          *)
(* ResidentCore.  The promise about consents given earlier needs the       *)
(* history that module CoreHistory adds.                                   *)
(***************************************************************************)
EXTENDS ResidentCore

\* Every private field keeps its shape.
TypeOK == core \in CoreState

\* Whatever takes authority away (a new approval, Stop, expiry, a withdrawal, a
\* lost connection, a change of availability) ends the requests that rest on it
\* in the same call: a pending request always has the authority it was accepted
\* with, so nothing is ever left for the recheck of begin() to catch.
PendingIsCurrent ==
  \A c \in PendingSet(core) :
    LET r == Request[c]
    IN  /\ core.pending[c].approval = core.approval.generation /\ core.approval # NoApproval
        /\ core.pending[c].generation = core.authorizationGeneration
        /\ core.providers[r.profile] # 0
        /\ core.pending[c].connection = core.providers[r.profile]
        /\ r.profile \in core.approval.profiles \ core.withdrawn
        /\ Permitted(core, r)

\* A request gets exactly one result, however timeouts, late and repeated
\* replies, cancels and lost connections race for it.
OneResult ==
  \A c \in Command : core.finishes[c] = IF core.pending[c].phase = "ended" THEN 1 ELSE 0

\* A result of the core that calls a retry safe is true: the command has not
\* reached a provider and will not, though its dispatch effect may still be on
\* its way through the host.
RefusedIsNeverSent ==
  \A c \in Command : core.outcome[c] = "refused" => c \notin core.sent

\* The limit counts what providers still work on: results that were given, new
\* approvals and lost connections do not make room.
SlotsSuffice ==
  /\ Cardinality(Retained(core)) <= MaxRequests
  /\ \A c \in Command : core.pending[c].phase = "dispatched" => c \in core.unsettled

\* The host sleeps until nextDeadline(): no expiry falls due before it.
TimerCovers ==
  LET p == Expired(core)
      due == Deadlines(p)
      early == IF due = {} THEN 1 ELSE (CHOOSE x \in due : \A y \in due : x <= y) - 1
      q == AgedCore(p, early)
  IN  Expired(q) = q

-----------------------------------------------------------------------------

\* A fence that was refused once is refused for ever: no reconnection, restored
\* approval or resumed availability gives an open stream its authority back.
FenceStep ==
  \A e \in core.fences, r \in [writes : BOOLEAN, devtools : BOOLEAN] :
    ValidFence(core', e, r) => ValidFence(core, e, r)
FencesStayDead == [][FenceStep]_core

-----------------------------------------------------------------------------

\* Every accepted request gets its result, also from a provider that stays
\* silent and under an approval without an end.
Finishes == \A c \in Command : IsPending(core, c) ~> ~ IsPending(core, c)
=============================================================================
