---------------------------- MODULE AgentSession ----------------------------
(***************************************************************************)
(* The agent's persistent session: the MCP server (serve), the worker      *)
(* process that runs snippets and is killed when one takes too long, and   *)
(* the retained transport with one claim and one admitted owner            *)
(* (agent_session_mcp.py, agent_session_transport.py, Session).            *)
(*                                                                         *)
(* Three parties move: the server with its one outstanding request, the    *)
(* snippet, and the renewal thread, which excludes operations by a lock.   *)
(* Whether admission has run out, and what a remote answers, is open.      *)
(***************************************************************************)

VARIABLES
  server,   \* the worker it has, what it asked, and what it last told the agent
  worker,   \* the process: alive, its session, its snippet
  link      \* the transport: claim, owner, its failure and stop, the lock

agentVars == <<server, worker, link>>

NoLink == [claim |-> "none", owner |-> "none", failure |-> FALSE, stopped |-> FALSE, busy |-> "no",
           left |-> {}]
NoWorker == [alive |-> FALSE, session |-> "none", failed |-> FALSE, runs |-> "no"]

AgentTypeOK ==
  /\ server \in [worker : {"none", "live", "closed"}, asked : {"none", "code", "reset"},
                 told : {"nothing", "done", "unknown"}]
  /\ worker \in [alive : BOOLEAN, session : {"none", "open", "closed"}, failed : BOOLEAN,
                 runs : {"no", "start", "snippet", "reply"}]
  /\ link \in [claim : {"none", "held", "ended"}, owner : {"none", "open", "ended"},
               failure : BOOLEAN, stopped : BOOLEAN, busy : {"no", "sent"},
              left : SUBSET {"claim", "owner"}]

AgentInit ==
  /\ server = [worker |-> "none", asked |-> "none", told |-> "nothing"]
  /\ worker = NoWorker /\ link = NoLink

-----------------------------------------------------------------------------
(* The server: one request at a time.                                      *)

\* Mutant of MayStart: any tool starts a worker in place of a closed one.
MayStartAny(tool) == server.worker \in {"none", "closed"}

\* A worker is started for the first request, and after it was closed only for
\* an explicit reset.
MayStart(tool) == server.worker = "none" \/ (tool = "reset" /\ server.worker = "closed")

\* What the last worker still holds at the far ends of its channels.
Left == link.left \union (IF link.claim = "held" THEN {"claim"} ELSE {})
                 \union (IF link.owner = "open" THEN {"owner"} ELSE {})

Request(tool) ==
  /\ server.asked = "none"
  /\ IF MayStart(tool)
     THEN /\ worker' = [NoWorker EXCEPT !.alive = TRUE, !.runs = "start"]
          /\ link' = [NoLink EXCEPT !.left = Left]
          /\ server' = [worker |-> "live", asked |-> tool, told |-> IF tool = "reset" THEN "nothing" ELSE server.told]
     ELSE /\ server.worker = "live"
          /\ worker' = [worker EXCEPT !.runs = "start"] /\ UNCHANGED link
          /\ server' = [server EXCEPT !.asked = tool]

\* close() of the retained transport, under its lock: the owner, then the claim.
Ended(x) == IF x = "none" THEN "none" ELSE "ended"
Stopped(l) == [l EXCEPT !.stopped = TRUE, !.owner = Ended(l.owner), !.claim = Ended(l.claim), !.busy = "no"]

\* Worker.close: the whole process tree is gone; the far ends of its channels
\* see that, each in its own time.
Killed ==
  /\ worker' = [worker EXCEPT !.alive = FALSE, !.runs = "no"]
  /\ link' = [link EXCEPT !.busy = "no"]

Eof ==
  \/ /\ ~worker.alive
     /\ \/ link.owner = "open" /\ link' = [link EXCEPT !.owner = "ended"]
        \/ link.claim = "held" /\ link' = [link EXCEPT !.claim = "ended"]
     /\ UNCHANGED <<server, worker>>
  \/ /\ \E x \in link.left : link' = [link EXCEPT !.left = link.left \ {x}]
     /\ UNCHANGED <<server, worker>>

\* The snippet takes too long, or the worker died or sent no good reply.
GivesUp ==
  /\ server.asked # "none"
  /\ server' = [worker |-> "closed", asked |-> "none", told |-> "unknown"]
  /\ Killed

\* A transport that stopped ends the session, and the reply says so.
Closed == worker.session # "none" /\ (worker.session = "closed" \/ link.stopped)

Reply ==
  /\ worker.runs = "reply" /\ server.asked # "none"
  /\ server' = [worker |-> IF Closed THEN "closed" ELSE "live", asked |-> "none",
                told |-> IF server.told = "unknown" THEN "unknown" ELSE "done"]
  /\ IF Closed THEN worker' = [worker EXCEPT !.alive = FALSE, !.runs = "no"] /\ link' = Stopped(link)
     ELSE worker' = [worker EXCEPT !.runs = "no"] /\ UNCHANGED link

-----------------------------------------------------------------------------
(* The worker: the session is started by the first request.                *)

Fails == worker' = [worker EXCEPT !.failed = TRUE, !.runs = "reply"]

Refuses ==  \* an earlier start was refused, and this is no reset
  /\ worker.alive /\ worker.runs = "start" /\ worker.failed /\ server.asked = "code"
  /\ worker' = [worker EXCEPT !.runs = "reply"]
  /\ UNCHANGED <<server, link>>

\* RetainedTransport.__init__: doctor, claim, owner; each may be refused, and
\* what was obtained before is given back.
Acquire ==
  /\ worker.alive /\ worker.runs = "start" /\ worker.session = "none"
  /\ worker.failed => server.asked = "reset"
  /\ link.claim # "held"
  /\ \/ "claim" \notin link.left
        /\ link' = [NoLink EXCEPT !.claim = "held", !.left = link.left] /\ UNCHANGED worker
     \/ link' = [NoLink EXCEPT !.left = link.left] /\ Fails
  /\ UNCHANGED server

Admit ==
  /\ worker.alive /\ worker.runs = "start" /\ worker.session = "none" /\ link.claim = "held"
  /\ \/ /\ "owner" \notin link.left /\ link' = [link EXCEPT !.owner = "open"]
        /\ worker' = [worker EXCEPT !.session = "open", !.failed = FALSE, !.runs = "snippet"]
     \/ \E owner \in {"none", "open"} : link' = Stopped([link EXCEPT !.owner = owner]) /\ Fails
  /\ UNCHANGED server

Resume ==
  /\ worker.alive /\ worker.runs = "start" /\ worker.session # "none"
  /\ worker' = [worker EXCEPT !.runs = "snippet"]
  /\ UNCHANGED <<server, link>>

-----------------------------------------------------------------------------
(* Operations of the snippet, and the renewal thread.                      *)

Snippet == worker.alive /\ worker.runs = "snippet"

MayDispatch == ~link.failure /\ ~link.stopped /\ link.owner = "open"

\* The intent is in the audit log before the operation is sent; if it cannot
\* be, nothing is, and the transport is closed.
Call ==
  /\ Snippet /\ worker.session = "open" /\ link.busy = "no" /\ MayDispatch
  /\ \/ link' = [link EXCEPT !.busy = "sent"]
     \/ link' = Stopped(link)
  /\ UNCHANGED <<server, worker>>

\* The result is persisted, or the transport has failed; an answer that is late,
\* invalid or lost closes it.  The snippet may catch the exception and go on.
Result ==
  /\ link.busy = "sent" /\ worker.alive
  /\ \/ link' = [link EXCEPT !.busy = "no"] /\ UNCHANGED server
     \/ link' = Stopped([link EXCEPT !.failure = TRUE]) /\ server' = [server EXCEPT !.told = "unknown"]
     \/ link' = Stopped(link) /\ server' = [server EXCEPT !.told = "unknown"]
  /\ UNCHANGED worker

SnippetEnds ==
  /\ Snippet /\ link.busy = "no"
  /\ worker' = [worker EXCEPT !.runs = "reply"]
  /\ UNCHANGED <<server, link>>

SessionClose ==  \* mc.close()
  /\ Snippet /\ link.busy = "no" /\ worker.session = "open"
  /\ worker' = [worker EXCEPT !.session = "closed"]
  /\ link' = IF link.stopped THEN link ELSE Stopped(link)
  /\ UNCHANGED server

\* _renew: admission ran out, or the claim or the owner could not be renewed.
RenewalFails ==
  /\ worker.alive /\ worker.session = "open" /\ link.busy = "no" /\ ~link.stopped
  /\ link' = Stopped([link EXCEPT !.failure = TRUE])
  /\ UNCHANGED <<server, worker>>

\* The owner or the claim is ended from the other side.
Revoked ==
  /\ \/ link.owner = "open" /\ link' = [link EXCEPT !.owner = "ended"]
     \/ link.claim = "held" /\ worker.session = "open" /\ link' = [link EXCEPT !.claim = "ended"]
  /\ UNCHANGED <<server, worker>>

AgentNext ==
  \/ \E tool \in {"code", "reset"} : Request(tool)
  \/ Eof \/ GivesUp \/ Reply \/ Refuses \/ Acquire \/ Admit \/ Resume
  \/ Call \/ Result \/ SnippetEnds \/ SessionClose \/ RenewalFails \/ Revoked

AgentSpec == AgentInit /\ [][AgentNext]_agentVars

-----------------------------------------------------------------------------

\* After an operation whose outcome is unknown nothing is sent until the agent
\* resets explicitly, across snippet, worker and server: the transport stops,
\* the session ends with it, and no worker is started for more code.
SendsKnowing == link.busy = "no" /\ link'.busy = "sent" => server.told # "unknown"

UnknownNeedsReset == [][SendsKnowing]_agentVars
=============================================================================
