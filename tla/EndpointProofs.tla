--------------------------- MODULE EndpointProofs ---------------------------
(***************************************************************************)
(* The components of Endpoints, proved for every value of their constants. *)
(*                                                                         *)
(* Each section is one component: its inductive invariant, that the        *)
(* initial states have it, that each action keeps it (a lemma per group of *)
(* actions), and that it gives what the component promises.  The           *)
(* assumptions a theorem names are the component's own about its           *)
(* constants.                                                              *)
(***************************************************************************)
EXTENDS Endpoints, FiniteSetTheorems, SequenceTheorems, WellFoundedInduction, TLAPS

-----------------------------------------------------------------------------
(* The lock of the claim store.                                            *)

\* Two processes at most: three can meet, see LockRecovery.cfg.
AtMostTwo == \A p, q, r \in Process : p = q \/ q = r \/ p = r

Holding == {"made", "inside", "leaving"}

\* The inductive invariant: the directory is there while somebody holds it, it
\* names somebody who is inside or died there, and whoever judges it stale is
\* the only one left.
LockInv ==
  /\ Lock!LockTypeOK
  /\ guard.pid # Nobody => guard.present /\ place[guard.pid] \in {"inside", "dead"}
  /\ \A p \in Process : place[p] \in Holding =>
       guard.present /\ \A q \in Process \ {p} : place[q] \notin Holding \union {"judged", "moved"}
  /\ \A p \in Process : place[p] \in {"judged", "moved"} => \A q \in Process \ {p} : place[q] \in Lock!Over
  /\ \A p \in Process : place[p] = "read" => read[p] \in Process \ {p}

LEMMA LockStarts == ASSUME Lock!LockInit PROVE LockInv
BY DEF Lock!LockInit, LockInv, Lock!LockTypeOK, Lock!NoLock, Holding, Lock!Places

LEMMA LockSteps == ASSUME Lock!NobodyIsNoProcess, AtMostTwo, LockInv, [Lock!LockNext]_(Lock!lockVars) PROVE LockInv'
<1> USE DEF LockInv, Lock!LockTypeOK, Holding, Lock!Over, Lock!NoLock, Lock!Fresh, Lock!NobodyIsNoProcess
<1>1. ASSUME NEW p \in Process, Lock!MakeDirectory(p) PROVE LockInv'
  BY <1>1 DEF Lock!MakeDirectory, Lock!Goes, Lock!Places
<1>2. ASSUME NEW p \in Process, Lock!WritePid(p) PROVE LockInv'
  <2>1. guard.present /\ guard' = [present |-> TRUE, pid |-> p, old |-> FALSE]
    BY <1>2 DEF Lock!WritePid
  <2>2. place' = [place EXCEPT ![p] = "inside"] /\ UNCHANGED <<read, late>> /\ place[p] = "made"
    BY <1>2, <2>1 DEF Lock!WritePid, Lock!Goes
  <2>3. Lock!LockTypeOK'
    BY <2>1, <2>2 DEF Lock!Places
  <2> QED
    BY <2>1, <2>2, <2>3
<1>3. ASSUME NEW p \in Process, Lock!ErasePid(p) PROVE LockInv'
  <2>1. guard.present /\ guard' = [present |-> TRUE, pid |-> Nobody, old |-> guard.old /\ guard.pid = Nobody]
    BY <1>3 DEF Lock!ErasePid
  <2>2. place' = [place EXCEPT ![p] = "leaving"] /\ UNCHANGED <<read, late>> /\ place[p] = "inside"
    BY <1>3 DEF Lock!ErasePid, Lock!Goes
  <2>3. Lock!LockTypeOK'
    BY <2>1, <2>2 DEF Lock!Places
  <2> QED
    BY <2>1, <2>2, <2>3
<1>4. ASSUME NEW p \in Process, Lock!RemoveDirectory(p) PROVE LockInv'
  BY <1>4 DEF Lock!RemoveDirectory, Lock!Goes, Lock!Places
<1>5. ASSUME NEW p \in Process, Lock!Look(p) PROVE LockInv'
  BY <1>5 DEF Lock!Look, Lock!Goes, Lock!Places
<1>6. ASSUME NEW p \in Process, Lock!ReadPid(p) PROVE LockInv'
  BY <1>6 DEF Lock!ReadPid, Lock!Goes, Lock!Places
<1>7. ASSUME NEW p \in Process, Lock!Judge(p) PROVE LockInv'
  BY <1>7, AtMostTwo DEF Lock!Judge, Lock!Goes, Lock!Places, Lock!Alive, AtMostTwo
<1>8. ASSUME NEW p \in Process, Lock!MoveAside(p) PROVE LockInv'
  BY <1>8 DEF Lock!MoveAside, Lock!Places
<1>9. ASSUME NEW p \in Process, Lock!DeleteMoved(p) PROVE LockInv'
  BY <1>9 DEF Lock!DeleteMoved, Lock!Goes, Lock!Places
<1>10. ASSUME NEW p \in Process, Lock!GiveUpOrRetry(p) PROVE LockInv'
  BY <1>10 DEF Lock!GiveUpOrRetry, Lock!NotStale, Lock!Goes, Lock!Places
<1>11. ASSUME NEW p \in Process, Lock!Die(p) PROVE LockInv'
  BY <1>11 DEF Lock!Die, Lock!Goes, Lock!Places
<1>12. ASSUME NEW p \in Process, Lock!PatienceEnds(p) PROVE LockInv'
  BY <1>12 DEF Lock!PatienceEnds
<1>13. CASE Lock!GracePasses
  BY <1>13 DEF Lock!GracePasses
<1>14. CASE UNCHANGED Lock!lockVars
  BY <1>14 DEF Lock!lockVars
<1> QED
  BY <1>1, <1>2, <1>3, <1>4, <1>5, <1>6, <1>7, <1>8, <1>9, <1>10, <1>11, <1>12, <1>13, <1>14 DEF Lock!LockNext,
     Lock!LockStep

\* Two processes are never inside the store at once, wherever one of them dies
\* or is taken for dead (claims.py, store_lock).
THEOREM TwoNeverMeet == ASSUME Lock!NobodyIsNoProcess, AtMostTwo PROVE Lock!LockSpec => []Lock!Exclusion
<1>1. Lock!LockInit => LockInv
  BY LockStarts
<1>2. LockInv /\ [Lock!LockNext]_(Lock!lockVars) => LockInv'
  BY LockSteps
<1>3. LockInv => Lock!Exclusion
  BY DEF LockInv, Lock!Exclusion, Holding
<1> QED
  BY <1>1, <1>2, <1>3, PTL DEF Lock!LockSpec

\* One process's step, and time.
LEMMA LockStaysTyped ==
  ASSUME Lock!NobodyIsNoProcess, Lock!LockTypeOK, [Lock!LockNext]_(Lock!lockVars)
  PROVE  Lock!LockTypeOK'
<1>1. ASSUME NEW p \in Process, Lock!LockStep(p) \/ Lock!Die(p) \/ Lock!PatienceEnds(p) PROVE Lock!LockTypeOK'
  <2> USE DEF Lock!LockTypeOK, Lock!Over, Lock!NoLock, Lock!Fresh, Lock!Places, Lock!Goes
  <2>1. CASE Lock!MakeDirectory(p) BY <2>1 DEF Lock!MakeDirectory
  <2>2. CASE Lock!WritePid(p)
    <3>1. place' \in [Process -> Lock!Places] /\ read' = read /\ late' = late BY <2>2 DEF Lock!WritePid
    <3>2. guard' = [present |-> TRUE, pid |-> p, old |-> FALSE] \/ guard' = guard BY <2>2 DEF Lock!WritePid
    <3>t. [present |-> TRUE, pid |-> p, old |-> FALSE] \in [present : BOOLEAN, pid : Process \union {Nobody}, old : BOOLEAN]
      OBVIOUS
    <3>g. guard \in [present : BOOLEAN, pid : Process \union {Nobody}, old : BOOLEAN] OBVIOUS
    <3>3. guard' \in [present : BOOLEAN, pid : Process \union {Nobody}, old : BOOLEAN] BY <3>2, <3>t, <3>g, Zenon
    <3> QED BY <3>1, <3>3
  <2>3. CASE Lock!ErasePid(p)
    <3>1. place' \in [Process -> Lock!Places] /\ read' = read /\ late' = late BY <2>3 DEF Lock!ErasePid
    <3>2. guard' \in [present : BOOLEAN, pid : Process \union {Nobody}, old : BOOLEAN] BY <2>3 DEF Lock!ErasePid
    <3> QED BY <3>1, <3>2
  <2>4. CASE Lock!RemoveDirectory(p) BY <2>4 DEF Lock!RemoveDirectory
  <2>5. CASE Lock!Look(p) \/ Lock!ReadPid(p) \/ Lock!Judge(p) BY <2>5 DEF Lock!Look, Lock!ReadPid, Lock!Judge
  <2>6. CASE Lock!MoveAside(p) BY <2>6 DEF Lock!MoveAside
  <2>7. CASE Lock!DeleteMoved(p) BY <2>7 DEF Lock!DeleteMoved
  <2>8. CASE Lock!GiveUpOrRetry(p) BY <2>8 DEF Lock!GiveUpOrRetry
  <2>9. CASE Lock!Die(p) \/ Lock!PatienceEnds(p) BY <2>9 DEF Lock!Die, Lock!PatienceEnds
  <2> QED BY <1>1, <2>1, <2>2, <2>3, <2>4, <2>5, <2>6, <2>7, <2>8, <2>9 DEF Lock!LockStep
<1>2. CASE Lock!GracePasses BY <1>2 DEF Lock!GracePasses, Lock!LockTypeOK
<1>3. CASE UNCHANGED Lock!lockVars BY <1>3 DEF Lock!lockVars, Lock!LockTypeOK
<1> QED BY <1>1, <1>2, <1>3 DEF Lock!LockNext

\* The lock, every process and what it read are as typed, for any number of
\* processes (store_lock, claims.py).
THEOREM LockTypesAreKept == ASSUME Lock!NobodyIsNoProcess PROVE Lock!LockSpec => []Lock!LockTypeOK
<1>1. Lock!LockInit => Lock!LockTypeOK
  BY DEF Lock!LockInit, Lock!LockTypeOK, Lock!NoLock, Lock!Places
<1>2. Lock!LockTypeOK /\ [Lock!LockNext]_(Lock!lockVars) => Lock!LockTypeOK' BY LockStaysTyped
<1> QED BY <1>1, <1>2, PTL DEF Lock!LockSpec

-----------------------------------------------------------------------------
(* The session of the agent.                                               *)

\* The inductive invariant: a worker that is alive is the server's, and an
\* unknown outcome stays with a worker that is dead or whose transport stopped.
AgentInv ==
  /\ Agent!AgentTypeOK
  /\ worker.alive => server.worker = "live"
  /\ server.worker = "none" => server.told = "nothing"
  /\ link.busy = "sent" => worker.session # "none"
  /\ server.told = "unknown" /\ worker.alive => link.stopped /\ worker.session # "none"

LEMMA AgentStarts == Agent!AgentInit => AgentInv
BY DEF Agent!AgentInit, AgentInv, Agent!AgentTypeOK, Agent!NoWorker, Agent!NoLink

\* What becomes of a transport that is closed, with or without a failure.
Links == [claim : {"none", "held", "ended"}, owner : {"none", "open", "ended"}, failure : BOOLEAN,
          stopped : BOOLEAN, busy : {"no", "sent"}, left : SUBSET {"claim", "owner"}]
LEMMA ClosingIsTyped ==
  ASSUME NEW l \in Links
  PROVE  Agent!Stopped(l) \in Links /\ Agent!Stopped(l).stopped /\ Agent!Stopped(l).busy = "no"
BY DEF Agent!Stopped, Agent!Ended, Links

LEMMA FailingIsTyped ==
  ASSUME NEW l \in Links
  PROVE  /\ [l EXCEPT !.failure = TRUE] \in Links
         /\ \A owner \in {"none", "open"} : [l EXCEPT !.owner = owner] \in Links
BY DEF Links

\* Every step of the server, the snippet and the renewal thread.
LEMMA AgentSteps == ASSUME AgentInv, [Agent!AgentNext]_(Agent!agentVars) PROVE AgentInv'
<1> USE DEF AgentInv, Agent!AgentTypeOK, Agent!NoLink, Agent!NoWorker
<1>l. link \in Links
  BY DEF Links
<1>f. /\ Agent!Stopped(link) \in Links /\ Agent!Stopped(link).stopped /\ Agent!Stopped(link).busy = "no"
      /\ \A l \in {[link EXCEPT !.failure = TRUE], [link EXCEPT !.owner = "none"], [link EXCEPT !.owner = "open"]} :
           Agent!Stopped(l) \in Links /\ Agent!Stopped(l).stopped /\ Agent!Stopped(l).busy = "no"
  BY <1>l, FailingIsTyped, ClosingIsTyped
<1>1. ASSUME NEW tool \in {"code", "reset"}, Agent!Request(tool) PROVE AgentInv'
  <2>1. Agent!Left \subseteq {"claim", "owner"}
    BY DEF Agent!Left
  <2>2. CASE Agent!MayStart(tool)
    <3>1. worker' = [alive |-> TRUE, session |-> "none", failed |-> FALSE, runs |-> "start"]
      BY <1>1, <2>2 DEF Agent!Request
    <3>2. link' = [claim |-> "none", owner |-> "none", failure |-> FALSE, stopped |-> FALSE, busy |-> "no", left |-> Agent!Left]
      BY <1>1, <2>2 DEF Agent!Request
    <3>3. server' = [worker |-> "live", asked |-> tool, told |-> IF tool = "reset" THEN "nothing" ELSE server.told]
      BY <1>1, <2>2 DEF Agent!Request
    <3>4. Agent!AgentTypeOK'
      BY <1>1, <3>1, <3>2, <3>3, <2>1
    <3>5. tool = "reset" \/ server.told = "nothing"
      BY <2>2 DEF Agent!MayStart
    <3> QED
      BY <3>1, <3>2, <3>3, <3>4, <3>5
  <2>3. CASE ~ Agent!MayStart(tool)
    BY <1>1, <2>3 DEF Agent!Request
  <2> QED
    BY <2>2, <2>3
<1>2. CASE Agent!Eof
  BY <1>2 DEF Agent!Eof
<1>3. CASE Agent!GivesUp
  BY <1>3 DEF Agent!GivesUp, Agent!Killed
<1>4. CASE Agent!Reply
  <2>1. CASE Agent!Closed
    <3>1. server' = [worker |-> "closed", asked |-> "none", told |-> IF server.told = "unknown" THEN "unknown" ELSE "done"]
      BY <1>4, <2>1 DEF Agent!Reply
    <3>2. worker' = [worker EXCEPT !.alive = FALSE, !.runs = "no"]
      BY <1>4, <2>1 DEF Agent!Reply
    <3>3. link' \in Links /\ link'.busy = "no"
      BY <1>4, <1>f, <2>1 DEF Agent!Reply
    <3>4. Agent!AgentTypeOK'
      BY <3>1, <3>2, <3>3 DEF Links
    <3> QED
      BY <3>1, <3>2, <3>3, <3>4
  <2>2. CASE ~ Agent!Closed
    BY <1>4, <2>2 DEF Agent!Reply, Agent!Closed
  <2> QED
    BY <2>1, <2>2
<1>5. CASE Agent!Refuses
  BY <1>5 DEF Agent!Refuses
<1>6. CASE Agent!Acquire
  BY <1>6 DEF Agent!Acquire, Agent!Fails
<1>7. CASE Agent!Admit
  <2>1. CASE /\ link' = [link EXCEPT !.owner = "open"]
             /\ worker' = [worker EXCEPT !.session = "open", !.failed = FALSE, !.runs = "snippet"]
    BY <1>7, <2>1 DEF Agent!Admit
  <2>2. ASSUME NEW owner \in {"none", "open"}, link' = Agent!Stopped([link EXCEPT !.owner = owner]),
               Agent!Fails PROVE AgentInv'
    <3>1. link' \in Links /\ link'.busy = "no"
      BY <1>f, <2>2
    <3>2. worker' = [worker EXCEPT !.failed = TRUE, !.runs = "reply"] /\ UNCHANGED server /\ worker.session = "none"
      BY <1>7, <2>2 DEF Agent!Admit, Agent!Fails
    <3>3. Agent!AgentTypeOK'
      BY <3>1, <3>2 DEF Links
    <3> QED
      BY <3>1, <3>2, <3>3
  <2> QED
    BY <1>7, <2>1, <2>2 DEF Agent!Admit
<1>8. CASE Agent!Resume
  BY <1>8 DEF Agent!Resume
<1>9. CASE Agent!Call
  BY <1>9, <1>f DEF Links, Agent!Call, Agent!Snippet, Agent!MayDispatch
<1>10. CASE Agent!Result
  <2>1. CASE link' = [link EXCEPT !.busy = "no"] /\ UNCHANGED server
    BY <1>10, <2>1 DEF Agent!Result
  <2>2. CASE link' \in {Agent!Stopped([link EXCEPT !.failure = TRUE]), Agent!Stopped(link)}
             /\ server' = [server EXCEPT !.told = "unknown"]
    <3>1. link' \in Links /\ link'.busy = "no" /\ link'.stopped
      BY <1>f, <2>2
    <3>2. UNCHANGED worker /\ worker.session # "none" /\ worker.alive
      BY <1>10 DEF Agent!Result
    <3>3. Agent!AgentTypeOK'
      BY <2>2, <3>1, <3>2 DEF Links
    <3> QED
      BY <2>2, <3>1, <3>2, <3>3
  <2> QED
    BY <1>10, <2>1, <2>2 DEF Agent!Result
<1>11. CASE Agent!SnippetEnds
  BY <1>11 DEF Agent!SnippetEnds, Agent!Snippet
<1>12. CASE Agent!SessionClose
  BY <1>12, <1>f DEF Links, Agent!SessionClose, Agent!Snippet
<1>13. CASE Agent!RenewalFails
  BY <1>13, <1>f DEF Links, Agent!RenewalFails
<1>14. CASE Agent!Revoked
  BY <1>14 DEF Agent!Revoked
<1>15. CASE UNCHANGED Agent!agentVars
  BY <1>15 DEF Agent!agentVars
<1> QED
  BY <1>1, <1>2, <1>3, <1>4, <1>5, <1>6, <1>7, <1>8, <1>9, <1>10, <1>11, <1>12, <1>13, <1>14,
     <1>15 DEF Agent!AgentNext

\* Only Call sends, and it does so through a transport that did not stop.
LEMMA AgentKnows == ASSUME AgentInv, [Agent!AgentNext]_(Agent!agentVars) PROVE Agent!SendsKnowing
<1> USE DEF AgentInv, Agent!AgentTypeOK, Agent!NoLink
<1> SUFFICES ASSUME link.busy = "no", link'.busy = "sent" PROVE server.told # "unknown"
  BY DEF Agent!SendsKnowing
<1>1. CASE Agent!Call
  BY <1>1 DEF Agent!Call, Agent!Snippet, Agent!MayDispatch
<1>2. CASE ~ Agent!Call
  <2>1. \A tool \in {"code", "reset"} : ~ Agent!Request(tool)
    BY DEF Agent!Request, Agent!Left
  <2>2. ~ Agent!Eof /\ ~ Agent!GivesUp /\ ~ Agent!Refuses /\ ~ Agent!Acquire /\ ~ Agent!Resume /\ ~ Agent!SnippetEnds /\ ~ Agent!Revoked
    BY DEF Agent!Eof, Agent!GivesUp, Agent!Killed, Agent!Refuses, Agent!Acquire, Agent!Resume, Agent!SnippetEnds,
       Agent!Revoked
  <2>3. ~ Agent!Reply /\ ~ Agent!Admit /\ ~ Agent!Result /\ ~ Agent!SessionClose /\ ~ Agent!RenewalFails
    BY DEF Agent!Stopped, Agent!Ended, Agent!Reply, Agent!Admit, Agent!Result, Agent!SessionClose, Agent!RenewalFails
  <2> QED
    BY <1>2, <2>1, <2>2, <2>3 DEF Agent!AgentNext, Agent!agentVars
<1> QED
  BY <1>1, <1>2

\* After an outcome nobody knows, the agent is sent nothing before a reset
\* (agent_session.py).
THEOREM NothingIsSentBlind == Agent!AgentSpec => Agent!UnknownNeedsReset
<1>1. AgentInv /\ [Agent!AgentNext]_(Agent!agentVars) => AgentInv' /\ Agent!SendsKnowing
  BY AgentSteps, AgentKnows
<1> QED
  BY <1>1, AgentStarts, PTL DEF Agent!AgentSpec, Agent!UnknownNeedsReset

\* The agent, its worker and its transport are as typed (agent_session.py).
THEOREM AgentTypesAreKept == Agent!AgentSpec => []Agent!AgentTypeOK
<1>1. AgentInv /\ [Agent!AgentNext]_(Agent!agentVars) => AgentInv'
  BY AgentSteps
<1>2. AgentInv => Agent!AgentTypeOK
  BY DEF AgentInv
<1> QED
  BY <1>1, <1>2, AgentStarts, PTL DEF Agent!AgentSpec

-----------------------------------------------------------------------------
(* The journals of the client.                                             *)

\* The finite sets of the component are those of the library.
LEMMA JournalsCounts ==
  \A S : (Journals!IsFiniteSet(S) <=> IsFiniteSet(S)) /\ Journals!Cardinality(S) = Cardinality(S)
BY DEF Journals!IsFiniteSet, IsFiniteSet, Journals!Cardinality, Cardinality

\* What the journals, the commands and the readers are made of.
Kinds == {"intent", "result"}
Histories == [events : SUBSET (Nat \X JournalCommand \X Kinds), last : Nat]
Runs == [events : SUBSET (JournalCommand \X Kinds), notes : 0 .. RunLimit, outcome : {"in_progress", "ready", "blocked"}]
Processes == [at : {"new", "started", "bound", "sent", "returned", "written", "over"},
              provision : BOOLEAN, audit : BOOLEAN, dispatched : BOOLEAN, exit : {"none", "zero", "error"}]
Readers == [at : {"idle", "reading", "done"}, before : Nat, got : SUBSET Nat, first : SUBSET Nat]

\* What a command is owed by the two journals, as far as it has come.
CommandSound(c, p, events) ==
  /\ p.provision => <<c, "intent">> \in events
  /\ c \notin CleanupCommand =>
       /\ p.dispatched \/ p.at \in {"started", "bound", "sent", "returned", "written"} => p.provision
       /\ p.at \in {"bound", "sent"} => p.audit
       /\ p.at \in {"returned", "written", "over"} /\ p.exit = "zero" => p.audit
       /\ p.at = "over" /\ p.exit = "zero" => <<c, "result">> \in events

\* What a reader has not read of its first sight, and is still there, is older
\* than its cursor.
ReaderSound ==
  /\ reader.got \subseteq 1 .. history.last /\ reader.first \subseteq 1 .. history.last
  /\ reader.at = "reading" => \A i \in reader.first \intersect Journals!Ids : i \in reader.got \/ i < reader.before
  /\ Journals!PagesAreComplete

\* The inductive invariant of the journals.
JournalsInv ==
  /\ history \in Histories /\ journal \in Runs /\ writer \in [JournalCommand -> Processes] /\ reader \in Readers
  /\ \A e \in history.events : e[1] \in 1 .. history.last
  /\ journal.outcome = "ready" => Journals!Unpaired = {}
  /\ \A c \in JournalCommand : CommandSound(c, writer[c], journal.events)
  /\ ReaderSound

LEMMA JournalsGive ==
  ASSUME JournalsInv
  PROVE  Journals!JournalsTypeOK /\ Journals!ReadyIsPaired /\ Journals!SuccessIsRecorded /\ Journals!PagesAreComplete
<1>1. history.events \subseteq (1 .. history.last) \X JournalCommand \X Kinds
  BY DEF JournalsInv, Histories
<1>2. Journals!JournalsTypeOK
  BY <1>1 DEF JournalsInv, Journals!JournalsTypeOK, Runs, Processes, Readers, ReaderSound, Kinds
<1>3. Journals!ReadyIsPaired
  BY DEF JournalsInv, Journals!ReadyIsPaired, CommandSound
<1>4. Journals!SuccessIsRecorded
  BY DEF JournalsInv, Journals!SuccessIsRecorded, CommandSound
<1> QED
  BY <1>2, <1>3, <1>4 DEF JournalsInv, ReaderSound

LEMMA JournalsStart == ASSUME Journals!LimitsArePositive, Journals!JournalsInit PROVE JournalsInv
<1> USE DEF Journals!JournalsInit, Journals!NoReader, Journals!LimitsArePositive
<1>1. history \in Histories /\ journal \in Runs /\ writer \in [JournalCommand -> Processes] /\ reader \in Readers
  BY DEF Histories, Runs, Processes, Readers
<1>2. \A c \in JournalCommand : CommandSound(c, writer[c], journal.events)
  BY DEF CommandSound
<1>3. ReaderSound
  BY DEF ReaderSound, Journals!PagesAreComplete
<1> QED
  BY <1>1, <1>2, <1>3 DEF JournalsInv

-----------------------------------------------------------------------------
(* Journals: the commands that write them.                                 *)

\* A step of one command on the run and the process.
LEMMA CommandMoves ==
  ASSUME Journals!LimitsArePositive, JournalsInv, NEW c \in JournalCommand, NEW p \in Processes, Journals!Goes(c, p),
         journal' \in Runs, journal.events \subseteq journal'.events, journal'.outcome = "ready" => Journals!Unpaired' = {},
         CommandSound(c, p, journal'.events),
         history' \in Histories, \A e \in history'.events : e[1] \in 1 .. history'.last, ReaderSound', reader' \in Readers
  PROVE  JournalsInv'
<1>1. /\ writer' \in [JournalCommand -> Processes] /\ writer'[c] = p
      /\ \A d \in JournalCommand : d # c => writer'[d] = writer[d]
  BY DEF Journals!Goes, JournalsInv
<1>2. \A d \in JournalCommand : d # c => CommandSound(d, writer'[d], journal'.events)
  BY <1>1 DEF JournalsInv, CommandSound
<1>3. CommandSound(c, writer'[c], journal'.events)
  BY <1>1 DEF CommandSound
<1> QED
  BY <1>1, <1>2, <1>3 DEF JournalsInv

LEMMA ReaderWaits ==
  ASSUME JournalsInv, UNCHANGED <<history, reader>> PROVE ReaderSound'
BY DEF JournalsInv, ReaderSound, Journals!PagesAreComplete, Journals!Ids

LEMMA RunWaits ==
  ASSUME JournalsInv, UNCHANGED journal
  PROVE  journal' \in Runs /\ journal.events \subseteq journal'.events /\ (journal'.outcome = "ready" => Journals!Unpaired' = {})
BY DEF JournalsInv, Journals!Unpaired

\* An event written, and the ones pruned with it.
LEMMA AuditedKeeps ==
  ASSUME Journals!LimitsArePositive, JournalsInv, NEW c \in JournalCommand, NEW kind \in Kinds, Journals!Audited(c, kind),
         UNCHANGED reader
  PROVE  history' \in Histories /\ (\A e \in history'.events : e[1] \in 1 .. history'.last) /\ ReaderSound'
<1> DEFINE id == history.last + 1
<1>1. history.last \in Nat /\ history.events \subseteq Nat \X JournalCommand \X Kinds
      /\ \A e \in history.events : e[1] \in 1 .. history.last
  BY DEF JournalsInv, Histories
<1>2. /\ history'.events \subseteq history.events \union {<<id, c, kind>>} /\ history'.last = id
      /\ history' = [events |-> history'.events, last |-> history'.last]
  BY DEF Journals!Audited
<1>3. history'.events \subseteq Nat \X JournalCommand \X Kinds /\ \A e \in history'.events : e[1] \in 1 .. history'.last
  <2> SUFFICES ASSUME NEW e \in history'.events PROVE e \in Nat \X JournalCommand \X Kinds /\ e[1] \in 1 .. id
    BY <1>2
  <2>1. CASE e \in history.events
    BY <1>1, <2>1
  <2>2. CASE e = <<id, c, kind>>
    BY <1>1, <2>2
  <2> QED
    BY <1>2, <2>1, <2>2
<1>4. history' \in Histories
  BY <1>1, <1>2, <1>3 DEF Histories
<1>5. Journals!Ids' \subseteq Journals!Ids \union {id}
  BY <1>2 DEF Journals!Ids
<1>6. reader.first \subseteq 1 .. history.last /\ reader.got \subseteq 1 .. history.last
  BY DEF JournalsInv, ReaderSound
<1>7. reader.first \intersect Journals!Ids' \subseteq reader.first \intersect Journals!Ids
  BY <1>1, <1>5, <1>6
<1>8. ReaderSound'
  <2>1. reader'.got \subseteq 1 .. history'.last /\ reader'.first \subseteq 1 .. history'.last
    BY <1>1, <1>2, <1>6
  <2> QED
    BY <1>7, <2>1 DEF JournalsInv, ReaderSound, Journals!PagesAreComplete
<1> QED
  BY <1>3, <1>4, <1>8

\* An event of the run written.
LEMMA RecordedKeeps ==
  ASSUME Journals!LimitsArePositive, JournalsInv, NEW c \in JournalCommand, NEW kind \in Kinds, Journals!Writable(kind),
         Journals!Recorded(c, kind)
  PROVE  /\ journal' \in Runs /\ journal'.events = journal.events \union {<<c, kind>>}
         /\ journal'.outcome = "ready" => Journals!Unpaired' = {}
<1>1. journal \in Runs
  BY DEF JournalsInv
<1>2. /\ journal'.events = journal.events \union {<<c, kind>>} /\ journal'.outcome = journal.outcome /\ journal' \in Runs
  BY <1>1 DEF Journals!Recorded, Runs
<1>3. kind = "intent" => journal.outcome = "in_progress"
  BY DEF Journals!Writable
<1>4. journal'.outcome = "ready" => Journals!Unpaired' = {}
  BY <1>2, <1>3 DEF JournalsInv, Journals!Unpaired, Kinds
<1> QED
  BY <1>2, <1>4

LEMMA CommandsKeep ==
  ASSUME Journals!LimitsArePositive, JournalsInv, NEW c \in JournalCommand,
         Journals!Start(c) \/ Journals!Rejected(c) \/ Journals!Bind(c) \/ Journals!Dispatch(c) \/ Journals!Return(c) \/ Journals!AuditResult(c) \/ Journals!ProvisionResult(c) \/ Journals!Dies(c)
  PROVE  JournalsInv'
<1> DEFINE p == writer[c]
<1>1. p \in Processes /\ journal \in Runs /\ history \in Histories /\ reader \in Readers /\ CommandSound(c, p, journal.events)
  BY DEF JournalsInv
<1>2. p = [at |-> p.at, provision |-> p.provision, audit |-> p.audit, dispatched |-> p.dispatched, exit |-> p.exit]
  BY <1>1 DEF Processes
<1>3. ASSUME NEW q \in Processes, Journals!Goes(c, q), UNCHANGED <<history, journal, reader>>, CommandSound(c, q,
             journal.events)
      PROVE  JournalsInv'
  BY <1>1, <1>3, CommandMoves, ReaderWaits, RunWaits DEF JournalsInv
<1>4. ASSUME NEW q \in Processes, Journals!Goes(c, q), UNCHANGED <<history, reader>>, CommandSound(c, q,
             journal'.events), 
             NEW kind \in Kinds, Journals!Writable(kind), Journals!Recorded(c, kind)
      PROVE  JournalsInv'
  <2>1. journal' \in Runs /\ journal.events \subseteq journal'.events /\ (journal'.outcome = "ready" => Journals!Unpaired' = {})
    BY <1>4, RecordedKeeps
  <2>2. ReaderSound'
    BY <1>4, ReaderWaits
  <2> QED
    BY <1>1, <1>4, <2>1, <2>2, CommandMoves DEF JournalsInv
<1>5. ASSUME NEW q \in Processes, Journals!Goes(c, q), UNCHANGED <<journal, reader>>, CommandSound(c, q,
             journal.events), 
             NEW kind \in Kinds, Journals!Audited(c, kind)
      PROVE  JournalsInv'
  <2>1. history' \in Histories /\ (\A e \in history'.events : e[1] \in 1 .. history'.last) /\ ReaderSound'
    BY <1>5, AuditedKeeps
  <2>2. journal' \in Runs /\ journal.events \subseteq journal'.events /\ (journal'.outcome = "ready" => Journals!Unpaired' = {})
    BY <1>5, RunWaits
  <2>3. reader' \in Readers /\ journal'.events = journal.events
    BY <1>1, <1>5
  <2> QED
    BY <1>5, <2>1, <2>2, <2>3, CommandMoves
<1>6. CASE Journals!Start(c)
  <2>1. p.at = "new" /\ UNCHANGED <<history, reader>>
    BY <1>6 DEF Journals!Start
  <2>2. CASE Journals!Writable("intent") /\ Journals!Recorded(c, "intent") /\ Journals!Goes(c, [p EXCEPT !.at = "started", !.provision = TRUE])
    <3> DEFINE q == [at |-> "started", provision |-> TRUE, audit |-> p.audit, dispatched |-> p.dispatched, exit |-> p.exit]
    <3>1. [p EXCEPT !.at = "started", !.provision = TRUE] = q
      <4>1. ASSUME NEW x, x = [p EXCEPT !.at = "started", !.provision = TRUE] PROVE x = q
        BY <1>2, <4>1
      <4> QED
        BY <4>1
    <3>2. journal'.events = journal.events \union {<<c, "intent">>} /\ "intent" \in Kinds
      BY <2>2, RecordedKeeps DEF Kinds
    <3>3. q \in Processes
      BY <1>1 DEF Processes
    <3>4. CommandSound(c, q, journal'.events)
      BY <1>1, <2>1, <3>2 DEF CommandSound
    <3>5. Journals!Goes(c, q)
      BY <2>2, <3>1
    <3> HIDE DEF q
    <3> QED
      BY <1>4, <2>1, <2>2, <3>2, <3>3, <3>4, <3>5
  <2>3. CASE c \in CleanupCommand /\ UNCHANGED journal /\ Journals!Goes(c, [p EXCEPT !.at = "started"])
    <3> DEFINE q == [at |-> "started", provision |-> p.provision, audit |-> p.audit, dispatched |-> p.dispatched, exit |-> p.exit]
    <3>1. [p EXCEPT !.at = "started"] = q
      BY <1>2
    <3>2. q \in Processes
      BY <1>1 DEF Processes
    <3>3. CommandSound(c, q, journal.events)
      BY <1>1, <2>1, <2>3 DEF CommandSound
    <3>4. Journals!Goes(c, q)
      BY <2>3, <3>1
    <3> HIDE DEF q
    <3> QED
      BY <1>3, <2>1, <2>3, <3>2, <3>3, <3>4
  <2>4. CASE c \notin CleanupCommand /\ UNCHANGED journal /\ Journals!Goes(c, [p EXCEPT !.at = "over", !.exit = "error"])
    <3> DEFINE q == [at |-> "over", provision |-> p.provision, audit |-> p.audit, dispatched |-> p.dispatched, exit |-> "error"]
    <3>1. [p EXCEPT !.at = "over", !.exit = "error"] = q
      <4>1. ASSUME NEW x, x = [p EXCEPT !.at = "over", !.exit = "error"] PROVE x = q
        BY <1>2, <4>1
      <4> QED
        BY <4>1
    <3>2. q \in Processes
      BY <1>1 DEF Processes
    <3>3. CommandSound(c, q, journal.events)
      BY <1>1, <2>1, <2>4 DEF CommandSound
    <3>4. Journals!Goes(c, q)
      BY <2>4, <3>1
    <3> HIDE DEF q
    <3> QED
      BY <1>3, <2>1, <2>4, <3>2, <3>3, <3>4
  <2> QED
    BY <1>6, <2>2, <2>3, <2>4 DEF Journals!Start
<1>7. ASSUME Journals!Goes(c, Journals!Refused(p)), UNCHANGED <<history, journal, reader>>,
             p.at = "started" PROVE JournalsInv'
  <2> DEFINE q == [at |-> "returned", provision |-> p.provision, audit |-> p.audit, dispatched |-> p.dispatched, exit |-> "error"]
  <2>1. Journals!Refused(p) = q
    <3>1. ASSUME NEW x, x = Journals!Refused(p) PROVE x = q
      BY <1>2, <3>1 DEF Journals!Refused
    <3> QED
      BY <3>1
  <2>2. q \in Processes
    BY <1>1 DEF Processes
  <2>3. CommandSound(c, q, journal.events)
    BY <1>1, <1>7 DEF CommandSound
  <2>4. Journals!Goes(c, q)
    BY <1>7, <2>1
  <2> HIDE DEF q
  <2> QED
    BY <1>3, <1>7, <2>2, <2>3, <2>4
<1>8. CASE Journals!Rejected(c)
  BY <1>7, <1>8 DEF Journals!Rejected
<1>9. CASE Journals!Bind(c)
  <2>1. p.at = "started" /\ UNCHANGED <<journal, reader>>
    BY <1>9 DEF Journals!Bind
  <2>2. CASE Journals!Audited(c, "intent") /\ Journals!Goes(c, [p EXCEPT !.at = "bound", !.audit = TRUE])
    <3> DEFINE q == [at |-> "bound", provision |-> p.provision, audit |-> TRUE, dispatched |-> p.dispatched, exit |-> p.exit]
    <3>1. [p EXCEPT !.at = "bound", !.audit = TRUE] = q
      <4>1. ASSUME NEW x, x = [p EXCEPT !.at = "bound", !.audit = TRUE] PROVE x = q
        BY <1>2, <4>1
      <4> QED
        BY <4>1
    <3>2. q \in Processes /\ "intent" \in Kinds
      BY <1>1 DEF Processes, Kinds
    <3>3. CommandSound(c, q, journal.events)
      BY <1>1, <2>1 DEF CommandSound
    <3>4. Journals!Goes(c, q)
      BY <2>2, <3>1
    <3> HIDE DEF q
    <3> QED
      BY <1>5, <2>1, <2>2, <3>2, <3>3, <3>4
  <2>3. CASE c \in CleanupCommand /\ UNCHANGED history /\ Journals!Goes(c, [p EXCEPT !.at = "bound"])
    <3> DEFINE q == [at |-> "bound", provision |-> p.provision, audit |-> p.audit, dispatched |-> p.dispatched, exit |-> p.exit]
    <3>1. [p EXCEPT !.at = "bound"] = q
      BY <1>2
    <3>2. q \in Processes
      BY <1>1 DEF Processes
    <3>3. CommandSound(c, q, journal.events)
      BY <1>1, <2>1, <2>3 DEF CommandSound
    <3>4. Journals!Goes(c, q)
      BY <2>3, <3>1
    <3> HIDE DEF q
    <3> QED
      BY <1>3, <2>1, <2>3, <3>2, <3>3, <3>4
  <2>4. CASE c \notin CleanupCommand /\ UNCHANGED history /\ Journals!Goes(c, Journals!Refused(p))
    BY <1>7, <2>1, <2>4
  <2> QED
    BY <1>9, <2>2, <2>3, <2>4 DEF Journals!Bind
<1>10. CASE Journals!Dispatch(c)
  <2> DEFINE q == [at |-> "sent", provision |-> p.provision, audit |-> p.audit, dispatched |-> TRUE, exit |-> p.exit]
  <2>1. [p EXCEPT !.at = "sent", !.dispatched = TRUE] = q
    <3>1. ASSUME NEW x, x = [p EXCEPT !.at = "sent", !.dispatched = TRUE] PROVE x = q
      BY <1>2, <3>1
    <3> QED
      BY <3>1
  <2>2. q \in Processes
    BY <1>1 DEF Processes
  <2>3. CommandSound(c, q, journal.events)
    BY <1>1, <1>10 DEF CommandSound, Journals!Dispatch
  <2>4. Journals!Goes(c, q)
    BY <1>10, <2>1 DEF Journals!Dispatch
  <2> HIDE DEF q
  <2> QED
    BY <1>3, <1>10, <2>2, <2>3, <2>4 DEF Journals!Dispatch
<1>11. CASE Journals!Return(c)
  <2>1. PICK exit \in {"zero", "error"} : Journals!Goes(c, [p EXCEPT !.at = "returned", !.exit = exit])
    BY <1>11 DEF Journals!Return
  <2> DEFINE q == [at |-> "returned", provision |-> p.provision, audit |-> p.audit, dispatched |-> p.dispatched, exit |-> exit]
  <2>2. [p EXCEPT !.at = "returned", !.exit = exit] = q
    <3>1. ASSUME NEW x, x = [p EXCEPT !.at = "returned", !.exit = exit] PROVE x = q
      BY <1>2, <3>1
    <3> QED
      BY <3>1
  <2>3. q \in Processes
    BY <1>1 DEF Processes
  <2>4. CommandSound(c, q, journal.events)
    BY <1>1, <1>11 DEF CommandSound, Journals!Return
  <2>5. Journals!Goes(c, q)
    BY <2>1, <2>2
  <2> HIDE DEF q
  <2> QED
    BY <1>3, <1>11, <2>3, <2>4, <2>5 DEF Journals!Return
<1>12. CASE Journals!AuditResult(c)
  <2> DEFINE q == [at |-> "written", provision |-> p.provision, audit |-> p.audit, dispatched |-> p.dispatched, exit |-> p.exit]
  <2> DEFINE r == [at |-> "written", provision |-> p.provision, audit |-> p.audit, dispatched |-> p.dispatched, exit |-> "error"]
  <2>1. p.at = "returned" /\ UNCHANGED <<journal, reader>>
    BY <1>12 DEF Journals!AuditResult
  <2>2. [p EXCEPT !.at = "written"] = q /\ Journals!Unwritten(q) = r
    BY <1>2 DEF Journals!Unwritten
  <2>3. q \in Processes /\ r \in Processes /\ "result" \in Kinds
    BY <1>1 DEF Processes, Kinds
  <2>4. CommandSound(c, q, journal.events) /\ CommandSound(c, r, journal.events)
    BY <1>1, <2>1 DEF CommandSound
  <2>5. q.audit = p.audit
    OBVIOUS
  <2> HIDE DEF q, r
  <2>6. \/ Journals!Audited(c, "result") /\ Journals!Goes(c, q)
        \/ Journals!Goes(c, r) /\ UNCHANGED history
        \/ Journals!Goes(c, q) /\ UNCHANGED history
    BY <1>12, <2>2, <2>5 DEF Journals!AuditResult
  <2> QED
    BY <1>3, <1>5, <2>1, <2>3, <2>4, <2>6
<1>13. CASE Journals!ProvisionResult(c)
  <2> DEFINE q == [at |-> "over", provision |-> p.provision, audit |-> p.audit, dispatched |-> p.dispatched, exit |-> p.exit]
  <2> DEFINE r == [at |-> "over", provision |-> p.provision, audit |-> p.audit, dispatched |-> p.dispatched, exit |-> "error"]
  <2>1. p.at = "written" /\ UNCHANGED <<history, reader>>
    BY <1>13 DEF Journals!ProvisionResult
  <2>2. [p EXCEPT !.at = "over"] = q /\ Journals!Unwritten(q) = r
    BY <1>2 DEF Journals!Unwritten
  <2>3. q \in Processes /\ r \in Processes /\ "result" \in Kinds
    BY <1>1 DEF Processes, Kinds
  <2>4. CommandSound(c, r, journal.events)
    BY <1>1, <2>1 DEF CommandSound
  <2>5. journal'.events = journal.events \union {<<c, "result">>} => CommandSound(c, q, journal'.events)
    BY <1>1, <2>1 DEF CommandSound
  <2>6. ~ p.provision => CommandSound(c, q, journal.events)
    BY <1>1, <2>1 DEF CommandSound
  <2>7. q.provision = p.provision
    OBVIOUS
  <2> HIDE DEF q, r
  <2>8. \/ Journals!Writable("result") /\ Journals!Recorded(c, "result") /\ Journals!Goes(c, q)
        \/ Journals!Goes(c, r) /\ UNCHANGED journal
        \/ ~ p.provision /\ Journals!Goes(c, q) /\ UNCHANGED journal
    BY <1>13, <2>2, <2>7 DEF Journals!ProvisionResult
  <2>9. CASE Journals!Writable("result") /\ Journals!Recorded(c, "result") /\ Journals!Goes(c, q)
    <3>1. journal'.events = journal.events \union {<<c, "result">>}
      BY <2>3, <2>9, RecordedKeeps
    <3> QED
      BY <1>4, <2>1, <2>3, <2>5, <2>9, <3>1
  <2> QED
    BY <1>3, <2>1, <2>3, <2>4, <2>6, <2>8, <2>9
<1>14. CASE Journals!Dies(c)
  <2> DEFINE q == [at |-> "over", provision |-> p.provision, audit |-> p.audit, dispatched |-> p.dispatched, exit |-> "none"]
  <2>1. [p EXCEPT !.at = "over", !.exit = "none"] = q
    <3>1. ASSUME NEW x, x = [p EXCEPT !.at = "over", !.exit = "none"] PROVE x = q
      BY <1>2, <3>1
    <3> QED
      BY <3>1
  <2>2. q \in Processes
    BY <1>1 DEF Processes
  <2>3. CommandSound(c, q, journal.events)
    BY <1>1 DEF CommandSound
  <2>4. Journals!Goes(c, q)
    BY <1>14, <2>1 DEF Journals!Dies
  <2> HIDE DEF q
  <2> QED
    BY <1>3, <1>14, <2>2, <2>3, <2>4 DEF Journals!Dies
<1> QED
  BY <1>6, <1>8, <1>9, <1>10, <1>11, <1>12, <1>13, <1>14

-----------------------------------------------------------------------------
(* Journals: the run, and a reader of the history.                         *)

LEMMA NotesKeep ==
  ASSUME Journals!LimitsArePositive, JournalsInv, Journals!Note \/ \E outcome \in {"ready",
         "blocked"} : Journals!Finish(outcome) PROVE JournalsInv'
<1>1. journal \in Runs /\ journal.notes \in Nat /\ RunLimit \in Nat
  BY DEF JournalsInv, Runs, Journals!LimitsArePositive
<1>2. IsFiniteSet(journal.events)
  <2>1. IsFiniteSet(JournalCommand \X Kinds)
    <3>1. IsFiniteSet({"intent"}) /\ IsFiniteSet({"intent"} \union {"result"})
      BY FS_Singleton, FS_AddElement
    <3>2. IsFiniteSet(Kinds)
      <4>1. Kinds = {"intent"} \union {"result"}
        BY DEF Kinds
      <4> QED
        BY <3>1, <4>1
    <3> QED
      BY JournalsCounts, <3>2, FS_Product DEF Journals!LimitsArePositive
  <2>2. journal.events \subseteq JournalCommand \X Kinds
    BY <1>1 DEF Runs
  <2> QED
    BY <2>1, <2>2, FS_Subset
<1>3. Cardinality(journal.events) \in Nat
  BY <1>2, FS_CardinalityType
<1>4. ~ Journals!Full /\ UNCHANGED <<history, writer, reader>>
  BY DEF Journals!Note, Journals!Finish
<1>5. journal.notes + 1 \in 0 .. RunLimit
  BY JournalsCounts, <1>1, <1>3, <1>4 DEF Journals!Full
<1>6. journal' \in Runs /\ journal'.events = journal.events /\ (journal'.outcome = "ready" => Journals!Unpaired = {})
  <2>1. CASE Journals!Note
    BY <1>1, <1>5, <2>1 DEF Journals!Note, Runs, JournalsInv
  <2>2. CASE ~ Journals!Note
    <3>1. PICK outcome \in {"ready", "blocked"} : Journals!Finish(outcome)
      BY <2>2
    <3>2. journal' = [journal EXCEPT !.outcome = outcome, !.notes = journal.notes + 1] /\ (outcome = "ready" => Journals!Unpaired = {})
      BY <3>1 DEF Journals!Finish
    <3>3. journal' = [events |-> journal.events, notes |-> journal.notes + 1, outcome |-> outcome]
      BY <1>1, <3>2 DEF Runs
    <3>4. journal.events \in SUBSET (JournalCommand \X Kinds)
      BY <1>1 DEF Runs
    <3>5. journal'.events = journal.events /\ journal'.outcome = outcome
      BY <3>3
    <3>6. journal' \in Runs
      BY <1>5, <3>3, <3>4 DEF Runs
    <3> QED
      BY <3>2, <3>5, <3>6
  <2> QED
    BY <2>1, <2>2
<1>7. Journals!Unpaired' = Journals!Unpaired
  BY <1>6 DEF Journals!Unpaired
<1>8. ReaderSound'
  BY <1>4, ReaderWaits
<1>9. \A c \in JournalCommand : CommandSound(c, writer[c], journal.events)'
  BY <1>4, <1>6 DEF JournalsInv, CommandSound
<1> QED
  BY <1>4, <1>6, <1>7, <1>8, <1>9 DEF JournalsInv

LEMMA LeastOf == ASSUME NEW S \in SUBSET Nat, IsFiniteSet(S), S # {} PROVE \E i \in S : \A j \in S : i <= j
<1> DEFINE Below(i) == {j \in S : j <= i}
<1> DEFINE C == {Below(i) : i \in S}
<1>1. C \subseteq SUBSET S /\ C # {}
  OBVIOUS
<1>2. IsWellFoundedOn(StrictSubsetOrdering(S), SUBSET S)
  BY FS_StrictSubsetOrderingWellFounded, FS_FiniteSubsetsOfFinite
<1> HIDE DEF C
<1>3. PICK x \in C : \A y \in C : ~ (<<y, x>> \in StrictSubsetOrdering(S))
  BY <1>1, <1>2, WFMin
<1>4. PICK i \in S : x = Below(i)
  BY <1>3 DEF C
<1>5. ASSUME NEW j \in S, j < i PROVE FALSE
  <2>0. i \in Nat /\ j \in Nat /\ \A k \in S : k \in Nat
    OBVIOUS
  <2>1. Below(j) \subseteq x
    <3>1. \A k \in S : k <= j => k <= i
      BY <1>5, <2>0
    <3> QED
      BY <1>4, <3>1
  <2>2. i \in x /\ i \notin Below(j)
    BY <1>4, <1>5, <2>0
  <2>3. Below(j) \in C
    BY DEF C
  <2> HIDE DEF Below
  <2> QED
    BY <1>1, <1>3, <2>1, <2>2, <2>3 DEF StrictSubsetOrdering
<1> QED
  BY <1>5

LEMMA GreatestOf == ASSUME NEW S \in SUBSET Nat, IsFiniteSet(S), S # {} PROVE \E i \in S : \A j \in S : j <= i
<1> DEFINE Above(i) == {j \in S : j >= i}
<1> DEFINE C == {Above(i) : i \in S}
<1>1. C \subseteq SUBSET S /\ C # {}
  OBVIOUS
<1>2. IsWellFoundedOn(StrictSubsetOrdering(S), SUBSET S)
  BY FS_StrictSubsetOrderingWellFounded, FS_FiniteSubsetsOfFinite
<1> HIDE DEF C
<1>3. PICK x \in C : \A y \in C : ~ (<<y, x>> \in StrictSubsetOrdering(S))
  BY <1>1, <1>2, WFMin
<1>4. PICK i \in S : x = Above(i)
  BY <1>3 DEF C
<1>5. ASSUME NEW j \in S, j > i PROVE FALSE
  <2>0. i \in Nat /\ j \in Nat /\ \A k \in S : k \in Nat
    OBVIOUS
  <2>1. Above(j) \subseteq x
    <3>1. \A k \in S : k >= j => k >= i
      BY <1>5, <2>0
    <3> QED
      BY <1>4, <3>1
  <2>2. i \in x /\ i \notin Above(j)
    BY <1>4, <1>5, <2>0
  <2>3. Above(j) \in C
    BY DEF C
  <2> HIDE DEF Above
  <2> QED
    BY <1>1, <1>3, <2>1, <2>2, <2>3 DEF StrictSubsetOrdering
<1> QED
  BY <1>5

\* A page of the newest: what is shown and not on it is older than all of it.
LEMMA PagesAreNewest ==
  ASSUME Journals!LimitsArePositive, NEW S \in SUBSET Nat, IsFiniteSet(S)
  PROVE  /\ Cardinality(S) <= Page => Journals!Newest(S, Page) = S
         /\ S # {} => /\ Journals!Rest(Journals!Newest(S, Page)) \in Journals!Newest(S, Page)
                      /\ \A i \in S \ Journals!Newest(S, Page) : i < Journals!Rest(Journals!Newest(S, Page))
<1> DEFINE Newer(i) == {j \in S : j > i}
<1>1. Journals!Newest(S, Page) = {i \in S : Cardinality(Newer(i)) < Page}
  BY JournalsCounts DEF Journals!Newest
<1>2. \A i \in S : IsFiniteSet(Newer(i)) /\ Cardinality(Newer(i)) \in Nat /\ Cardinality(Newer(i)) < Cardinality(S)
  <2> SUFFICES ASSUME NEW i \in S
               PROVE  IsFiniteSet(Newer(i)) /\ Cardinality(Newer(i)) \in Nat /\ Cardinality(Newer(i)) < Cardinality(S)
    OBVIOUS
  <2>1. IsFiniteSet(S \ {i}) /\ Cardinality(S \ {i}) = Cardinality(S) - 1
    BY FS_RemoveElement
  <2>2. Newer(i) \in SUBSET (S \ {i})
    OBVIOUS
  <2> HIDE DEF Newer
  <2>3. IsFiniteSet(Newer(i)) /\ Cardinality(Newer(i)) <= Cardinality(S \ {i})
    BY <2>1, <2>2, FS_Subset
  <2>4. Cardinality(Newer(i)) \in Nat /\ Cardinality(S) \in Nat
    BY <2>3, FS_CardinalityType
  <2> QED
    BY <2>1, <2>3, <2>4
<1>3. Cardinality(S) \in Nat
  BY FS_CardinalityType
<1>4. Page \in Nat \ {0}
  BY DEF Journals!LimitsArePositive
<1>5. ASSUME Cardinality(S) <= Page PROVE Journals!Newest(S, Page) = S
  <2> HIDE DEF Newer
  <2>1. \A i \in S : Cardinality(Newer(i)) < Page
    BY <1>2, <1>3, <1>4, <1>5
  <2> QED
    BY <1>1, <2>1
<1>6. ASSUME S # {}
      PROVE  /\ Journals!Rest(Journals!Newest(S, Page)) \in Journals!Newest(S, Page)
             /\ \A i \in S \ Journals!Newest(S, Page) : i < Journals!Rest(Journals!Newest(S, Page))
  <2>1. PICK i \in S : \A j \in S : j <= i
    BY <1>6, GreatestOf
  <2>2. Newer(i) = {} /\ Cardinality({}) = 0
    <3>1. i \in Nat /\ \A j \in S : j \in Nat /\ ~ (j > i)
      BY <2>1
    <3> QED
      BY <3>1, FS_EmptySet
  <2>3. i \in Journals!Newest(S, Page)
    BY <1>1, <1>4, <2>2
  <2> DEFINE page == Journals!Newest(S, Page)
  <2>4. page \in SUBSET S
    BY <1>1
  <2>5. IsFiniteSet(page) /\ page \in SUBSET Nat
    BY <2>4, FS_Subset
  <2>6. page # {}
    BY <2>3
  <2> HIDE DEF page
  <2>7. \E k \in page : \A j \in page : k <= j
    BY <2>5, <2>6, LeastOf
  <2>8. Journals!Rest(page) \in page
    BY <2>7 DEF Journals!Rest
  <2>9. ASSUME NEW k \in S, k \notin page PROVE k < Journals!Rest(page)
    <3> DEFINE r == Journals!Rest(page)
    <3>1. r \in S /\ Cardinality(Newer(r)) < Page
      BY <1>1, <2>8 DEF page
    <3>2. ~ (Cardinality(Newer(k)) < Page)
      BY <1>1, <2>9 DEF page
    <3>3. k >= r => Newer(k) \in SUBSET Newer(r)
      <4> HIDE DEF r
      <4>1. r \in Nat /\ k \in Nat /\ \A j \in S : j \in Nat
        BY <2>9, <3>1
      <4>2. k >= r => \A j \in S : j > k => j > r
        BY <4>1
      <4> QED
        BY <4>2
    <3> HIDE DEF Newer, r
    <3>4. k >= r => Cardinality(Newer(k)) <= Cardinality(Newer(r))
      BY <1>2, <3>1, <3>3, FS_Subset
    <3>5. ~ (k >= r)
      BY <1>2, <1>4, <2>9, <3>1, <3>2, <3>4
    <3>6. r \in Nat /\ k \in Nat
      BY <2>9, <3>1
    <3>7. k < r
      BY <3>5, <3>6
    <3> QED
      BY <3>7 DEF r
  <2> QED
    BY <2>8, <2>9 DEF page
<1> QED
  BY <1>5, <1>6

LEMMA ReadKeeps == ASSUME Journals!LimitsArePositive, JournalsInv, Journals!Read PROVE JournalsInv'
<1> DEFINE lines == IF reader.at = "idle" THEN Journals!Ids ELSE {i \in Journals!Ids : i < reader.before}
<1> DEFINE page == Journals!Newest(lines, Page)
<1> DEFINE first == IF reader.at = "idle" THEN Journals!Ids ELSE reader.first
<1>1. reader \in Readers /\ history.last \in Nat /\ ReaderSound /\ reader.at # "done" /\ UNCHANGED <<history, journal, writer>>
  BY DEF JournalsInv, Histories, Journals!Read
<1>2. Journals!Ids \subseteq 1 .. history.last /\ Journals!Ids \in SUBSET Nat
  BY <1>1 DEF JournalsInv, Journals!Ids
<1>3. lines \in SUBSET Journals!Ids /\ lines \in SUBSET Nat
  BY <1>2
<1>4. IsFiniteSet(lines)
  <2>1. IsFiniteSet(1 .. history.last)
    BY <1>1, FS_Interval
  <2> HIDE DEF lines
  <2>2. lines \in SUBSET (1 .. history.last)
    BY <1>2, <1>3
  <2> QED
    BY <2>1, <2>2, FS_Subset
<1>5. reader' = [at |-> IF Cardinality(lines) > Page THEN "reading" ELSE "done",
                 before |-> IF Cardinality(lines) > Page THEN Journals!Rest(page) ELSE 0,
                 got |-> reader.got \union page, first |-> first]
  BY JournalsCounts DEF Journals!Read
<1>6. page \in SUBSET lines
  BY DEF Journals!Newest
<1>7. first \subseteq 1 .. history.last /\ first \in SUBSET Nat
  BY <1>1, <1>2 DEF ReaderSound, Readers
<1>8. \A i \in first \intersect Journals!Ids : i \in reader.got \/ i \in lines
  BY <1>1, <1>2 DEF ReaderSound, Readers
<1>9. reader.got \subseteq 1 .. history.last /\ reader.got \in SUBSET Nat
  BY <1>1 DEF ReaderSound, Readers
<1>10. Cardinality(lines) \in Nat /\ Page \in Nat \ {0}
  BY <1>4, FS_CardinalityType DEF Journals!LimitsArePositive
<1> HIDE DEF lines, first
<1>11. CASE Cardinality(lines) > Page
  <2>1. lines # {}
    BY <1>10, <1>11, FS_EmptySet
  <2>2. Journals!Rest(page) \in page /\ \A i \in lines \ page : i < Journals!Rest(page)
    BY <1>3, <1>4, <2>1, PagesAreNewest
  <2> HIDE DEF page
  <2>3. reader' = [at |-> "reading", before |-> Journals!Rest(page), got |-> reader.got \union page, first |-> first]
    BY <1>5, <1>11
  <2>4. reader' \in Readers
    BY <1>3, <1>6, <1>7, <1>9, <2>2, <2>3 DEF Readers
  <2>5. reader'.got = reader.got \union page /\ reader'.first = first /\ reader'.before = Journals!Rest(page) /\ reader'.at = "reading"
    BY <2>3
  <2>6. Journals!Ids' = Journals!Ids /\ history' = history
    BY <1>1 DEF Journals!Ids
  <2>7. \A i \in reader'.first \intersect Journals!Ids : i \in reader'.got \/ i < reader'.before
    BY <1>8, <2>2, <2>5
  <2>8. ReaderSound'
    BY <1>2, <1>3, <1>6, <1>7, <1>9, <2>5, <2>6, <2>7 DEF ReaderSound, Journals!PagesAreComplete
  <2> QED
    BY <1>1, <2>4, <2>8 DEF JournalsInv, Journals!Unpaired
<1>12. CASE ~ (Cardinality(lines) > Page)
  <2>1. page = lines
    BY <1>3, <1>4, <1>10, <1>12, PagesAreNewest
  <2> HIDE DEF page
  <2>2. reader' = [at |-> "done", before |-> 0, got |-> reader.got \union page, first |-> first]
    BY <1>5, <1>12
  <2>3. reader' \in Readers
    BY <1>3, <1>6, <1>7, <1>9, <2>2 DEF Readers
  <2>4. reader'.got = reader.got \union page /\ reader'.first = first /\ reader'.at = "done"
    BY <2>2
  <2>5. Journals!Ids' = Journals!Ids /\ history' = history
    BY <1>1 DEF Journals!Ids
  <2>6. reader'.first \intersect Journals!Ids \subseteq reader'.got
    BY <1>8, <2>1, <2>4
  <2>7. ReaderSound'
    BY <1>2, <1>3, <1>6, <1>7, <1>9, <2>4, <2>5, <2>6 DEF ReaderSound, Journals!PagesAreComplete
  <2> QED
    BY <1>1, <2>3, <2>7 DEF JournalsInv, Journals!Unpaired
<1> QED
  BY <1>11, <1>12

LEMMA JournalsKeep ==
  ASSUME Journals!LimitsArePositive
  PROVE  JournalsInv /\ [Journals!JournalsNext]_(Journals!journalVars) => JournalsInv'
<1> SUFFICES ASSUME JournalsInv, [Journals!JournalsNext]_(Journals!journalVars) PROVE JournalsInv'
  OBVIOUS
<1>1. CASE UNCHANGED Journals!journalVars
  <2>1. UNCHANGED <<history, journal, writer, reader>>
    BY <1>1 DEF Journals!journalVars
  <2>2. ReaderSound'
    BY <2>1, ReaderWaits
  <2> QED
    BY <2>1, <2>2 DEF JournalsInv, Journals!Unpaired
<1>2. CASE Journals!Read
  BY <1>2, ReadKeeps
<1>3. CASE Journals!Note \/ \E outcome \in {"ready", "blocked"} : Journals!Finish(outcome)
  BY <1>3, NotesKeep
<1> QED
  BY <1>1, <1>2, <1>3, CommandsKeep DEF Journals!JournalsNext

\* A run that says it is ready has a result for every intent, a command that
\* succeeded is recorded, and a reader of pages misses nothing that stays, for
\* any number of commands and events (provision_journal.py, audit_history.py).
THEOREM JournalsAreTrue ==
  ASSUME Journals!LimitsArePositive
  PROVE  Journals!JournalsSpec => [](Journals!JournalsTypeOK /\ Journals!ReadyIsPaired /\ Journals!SuccessIsRecorded /\ Journals!PagesAreComplete)
<1>1. Journals!JournalsInit => JournalsInv
  BY JournalsStart
<1>2. JournalsInv /\ [Journals!JournalsNext]_(Journals!journalVars) => JournalsInv'
  BY JournalsKeep
<1>3. JournalsInv => Journals!JournalsTypeOK /\ Journals!ReadyIsPaired /\ Journals!SuccessIsRecorded /\ Journals!PagesAreComplete
  BY JournalsGive
<1> QED
  BY <1>1, <1>2, <1>3, PTL DEF Journals!JournalsSpec

-----------------------------------------------------------------------------
(* The commands of the client.                                             *)

\* The calls of the commands that have a route of their own.
RouteCalls == {"check", "candidate", "doctor", "verify", "shutdown", "credential", "up"}
\* What may be left of each command.
LinuxPromotion ==
  {<<"check", "candidate", "doctor", "verify", "shutdown", "candidate", "credential">>,
   <<"candidate", "doctor", "verify", "shutdown", "candidate", "credential">>,
   <<"doctor", "verify", "shutdown", "candidate", "credential">>,
   <<"verify", "shutdown", "candidate", "credential">>,
   <<"shutdown", "candidate", "credential">>,
   <<"candidate", "credential">>,
   <<"credential">>}
Promotion ==
  {<<"check", "candidate", "doctor", "shutdown", "candidate">>,
   <<"candidate", "doctor", "shutdown", "candidate">>,
   <<"doctor", "shutdown", "candidate">>,
   <<"shutdown", "candidate">>,
   <<"candidate">>}
Validation == {<<"check", "candidate", "doctor">>, <<"candidate", "doctor">>, <<"doctor">>}
Readying == {<<"check", "doctor", "up", "doctor">>, <<"doctor", "up", "doctor">>, <<"up", "doctor">>, <<"doctor">>}

\* A step further along each command, and where it comes to its last call.
LEMMA LinuxPromotionLeads ==
  ASSUME NEW r \in LinuxPromotion
  PROVE  /\ Len(r) \in 1..7
         /\ Len(r) # 1 => Tail(r) \in LinuxPromotion /\ Head(r) # "credential"
         /\ Len(r) = 2 => Len(Tail(r)) = 1
         /\ Len(r) # 1 /\ Len(r) # 2 => Len(Tail(r)) # 1
         /\ Head(r) = "candidate" => Len(r) = 6 \/ Len(r) = 2
         /\ Len(r) = 2 => Head(r) = "candidate"
         /\ Len(r) = 1 => Head(r) = "credential" 
<1> DEFINE a == <<"check", "candidate", "doctor", "verify", "shutdown", "candidate", "credential">>
           b == <<"candidate", "doctor", "verify", "shutdown", "candidate", "credential">>
           c == <<"doctor", "verify", "shutdown", "candidate", "credential">>
           d == <<"verify", "shutdown", "candidate", "credential">>
           e == <<"shutdown", "candidate", "credential">>
           f == <<"candidate", "credential">>
           g == <<"credential">>
<1>1. Len(a) = 7 /\ Head(a) = "check" /\ Tail(a) = b /\ Len(b) = 6
  OBVIOUS
<1>2. Len(b) = 6 /\ Head(b) = "candidate" /\ Tail(b) = c /\ Len(c) = 5
  OBVIOUS
<1>3. Len(c) = 5 /\ Head(c) = "doctor" /\ Tail(c) = d /\ Len(d) = 4
  OBVIOUS
<1>4. Len(d) = 4 /\ Head(d) = "verify" /\ Tail(d) = e /\ Len(e) = 3
  OBVIOUS
<1>5. Len(e) = 3 /\ Head(e) = "shutdown" /\ Tail(e) = f /\ Len(f) = 2
  OBVIOUS
<1>6. Len(f) = 2 /\ Head(f) = "candidate" /\ Tail(f) = g /\ Len(g) = 1
  OBVIOUS
<1>7. Len(g) = 1 /\ Head(g) = "credential"
  OBVIOUS
<1>9. LinuxPromotion = {a, b, c, d, e, f, g}
  BY DEF LinuxPromotion
<1> HIDE DEF a, b, c, d, e, f, g
<1>c1. CASE r = a
  BY <1>c1, <1>1, <1>9, Z3
<1>c2. CASE r = b
  BY <1>c2, <1>2, <1>9, Z3
<1>c3. CASE r = c
  BY <1>c3, <1>3, <1>9, Z3
<1>c4. CASE r = d
  BY <1>c4, <1>4, <1>9, Z3
<1>c5. CASE r = e
  BY <1>c5, <1>5, <1>9, Z3
<1>c6. CASE r = f
  BY <1>c6, <1>6, <1>9, Z3
<1>c7. CASE r = g
  BY <1>c7, <1>7, <1>9, Z3
<1> QED
  BY <1>9, <1>c1, <1>c2, <1>c3, <1>c4, <1>c5, <1>c6, <1>c7

LEMMA PromotionLeads ==
  ASSUME NEW r \in Promotion
  PROVE  /\ Len(r) \in 1..7 /\ Head(r) \notin {"verify", "credential"}
         /\ Len(r) # 1 => Tail(r) \in Promotion
         /\ Head(r) = "candidate" => Len(r) = 4 \/ Len(r) = 1
         /\ Len(r) = 1 => Head(r) = "candidate" 
<1> DEFINE a == <<"check", "candidate", "doctor", "shutdown", "candidate">>
           b == <<"candidate", "doctor", "shutdown", "candidate">>
           c == <<"doctor", "shutdown", "candidate">>
           d == <<"shutdown", "candidate">>
           e == <<"candidate">>
<1>1. Len(a) = 5 /\ Head(a) = "check" /\ Tail(a) = b /\ Len(b) = 4
  OBVIOUS
<1>2. Len(b) = 4 /\ Head(b) = "candidate" /\ Tail(b) = c /\ Len(c) = 3
  OBVIOUS
<1>3. Len(c) = 3 /\ Head(c) = "doctor" /\ Tail(c) = d /\ Len(d) = 2
  OBVIOUS
<1>4. Len(d) = 2 /\ Head(d) = "shutdown" /\ Tail(d) = e /\ Len(e) = 1
  OBVIOUS
<1>5. Len(e) = 1 /\ Head(e) = "candidate"
  OBVIOUS
<1>9. Promotion = {a, b, c, d, e}
  BY DEF Promotion
<1> HIDE DEF a, b, c, d, e
<1>c1. CASE r = a
  BY <1>c1, <1>1, <1>9, Z3
<1>c2. CASE r = b
  BY <1>c2, <1>2, <1>9, Z3
<1>c3. CASE r = c
  BY <1>c3, <1>3, <1>9, Z3
<1>c4. CASE r = d
  BY <1>c4, <1>4, <1>9, Z3
<1>c5. CASE r = e
  BY <1>c5, <1>5, <1>9, Z3
<1> QED
  BY <1>9, <1>c1, <1>c2, <1>c3, <1>c4, <1>c5

LEMMA ValidationLeads ==
  ASSUME NEW r \in Validation
  PROVE  /\ Len(r) \in 1..7 /\ Head(r) \in {"check", "candidate", "doctor"}
         /\ Len(r) # 1 => Tail(r) \in Validation
         /\ Head(r) = "candidate" \/ Head(r) = "check" => Len(r) # 1
         /\ Head(r) = "doctor" => Len(r) = 1
<1> DEFINE a == <<"check", "candidate", "doctor">>
           b == <<"candidate", "doctor">>
           c == <<"doctor">>
<1>1. Len(a) = 3 /\ Head(a) = "check" /\ Tail(a) = b /\ Len(b) = 2
  OBVIOUS
<1>2. Len(b) = 2 /\ Head(b) = "candidate" /\ Tail(b) = c /\ Len(c) = 1
  OBVIOUS
<1>3. Len(c) = 1 /\ Head(c) = "doctor"
  OBVIOUS
<1>9. Validation = {a, b, c}
  BY DEF Validation
<1> HIDE DEF a, b, c
<1>c1. CASE r = a
  BY <1>c1, <1>1, <1>9, Z3
<1>c2. CASE r = b
  BY <1>c2, <1>2, <1>9, Z3
<1>c3. CASE r = c
  BY <1>c3, <1>3, <1>9, Z3
<1> QED
  BY <1>9, <1>c1, <1>c2, <1>c3

LEMMA ReadyingLeads ==
  ASSUME NEW r \in Readying
  PROVE  /\ Len(r) \in 1..7 /\ Head(r) \in {"check", "doctor", "up"}
         /\ Len(r) # 1 => Tail(r) \in Readying
         /\ Head(r) = "up" => Len(r) = 2 /\ Len(Tail(r)) = 1
         /\ Head(r) = "check" => Len(r) # 1
         /\ Len(r) = 1 => Head(r) = "doctor" 
<1> DEFINE a == <<"check", "doctor", "up", "doctor">>
           b == <<"doctor", "up", "doctor">>
           c == <<"up", "doctor">>
           d == <<"doctor">>
<1>1. Len(a) = 4 /\ Head(a) = "check" /\ Tail(a) = b /\ Len(b) = 3
  OBVIOUS
<1>2. Len(b) = 3 /\ Head(b) = "doctor" /\ Tail(b) = c /\ Len(c) = 2
  OBVIOUS
<1>3. Len(c) = 2 /\ Head(c) = "up" /\ Tail(c) = d /\ Len(d) = 1
  OBVIOUS
<1>4. Len(d) = 1 /\ Head(d) = "doctor"
  OBVIOUS
<1>9. Readying = {a, b, c, d}
  BY DEF Readying
<1> HIDE DEF a, b, c, d
<1>c1. CASE r = a
  BY <1>c1, <1>1, <1>9, Z3
<1>c2. CASE r = b
  BY <1>c2, <1>2, <1>9, Z3
<1>c3. CASE r = c
  BY <1>c3, <1>3, <1>9, Z3
<1>c4. CASE r = d
  BY <1>c4, <1>4, <1>9, Z3
<1> QED
  BY <1>9, <1>c1, <1>c2, <1>c3, <1>c4

LEMMA LinuxPromotionIsText == LinuxPromotion \subseteq Seq(RouteCalls)
<1>1. <<"check", "candidate", "doctor", "verify", "shutdown", "candidate", "credential">> \in [1..7 -> RouteCalls]
  BY DEF RouteCalls
<1>2. <<"candidate", "doctor", "verify", "shutdown", "candidate", "credential">> \in [1..6 -> RouteCalls]
  BY DEF RouteCalls
<1>3. <<"doctor", "verify", "shutdown", "candidate", "credential">> \in [1..5 -> RouteCalls]
  BY DEF RouteCalls
<1>4. <<"verify", "shutdown", "candidate", "credential">> \in [1..4 -> RouteCalls]
  BY DEF RouteCalls
<1>5. <<"shutdown", "candidate", "credential">> \in [1..3 -> RouteCalls]
  BY DEF RouteCalls
<1>6. <<"candidate", "credential">> \in [1..2 -> RouteCalls]
  BY DEF RouteCalls
<1>7. <<"credential">> \in [1..1 -> RouteCalls]
  BY DEF RouteCalls
<1> QED
  BY <1>1, <1>2, <1>3, <1>4, <1>5, <1>6, <1>7, SeqDef DEF LinuxPromotion

LEMMA PromotionIsText == Promotion \subseteq Seq(RouteCalls)
<1>1. <<"check", "candidate", "doctor", "shutdown", "candidate">> \in [1..5 -> RouteCalls]
  BY DEF RouteCalls
<1>2. <<"candidate", "doctor", "shutdown", "candidate">> \in [1..4 -> RouteCalls]
  BY DEF RouteCalls
<1>3. <<"doctor", "shutdown", "candidate">> \in [1..3 -> RouteCalls]
  BY DEF RouteCalls
<1>4. <<"shutdown", "candidate">> \in [1..2 -> RouteCalls]
  BY DEF RouteCalls
<1>5. <<"candidate">> \in [1..1 -> RouteCalls]
  BY DEF RouteCalls
<1> QED
  BY <1>1, <1>2, <1>3, <1>4, <1>5, SeqDef DEF Promotion

LEMMA ValidationIsText == Validation \subseteq Seq(RouteCalls)
<1>1. <<"check", "candidate", "doctor">> \in [1..3 -> RouteCalls]
  BY DEF RouteCalls
<1>2. <<"candidate", "doctor">> \in [1..2 -> RouteCalls]
  BY DEF RouteCalls
<1>3. <<"doctor">> \in [1..1 -> RouteCalls]
  BY DEF RouteCalls
<1> QED
  BY <1>1, <1>2, <1>3, SeqDef DEF Validation

LEMMA ReadyingIsText == Readying \subseteq Seq(RouteCalls)
<1>1. <<"check", "doctor", "up", "doctor">> \in [1..4 -> RouteCalls]
  BY DEF RouteCalls
<1>2. <<"doctor", "up", "doctor">> \in [1..3 -> RouteCalls]
  BY DEF RouteCalls
<1>3. <<"up", "doctor">> \in [1..2 -> RouteCalls]
  BY DEF RouteCalls
<1>4. <<"doctor">> \in [1..1 -> RouteCalls]
  BY DEF RouteCalls
<1> QED
  BY <1>1, <1>2, <1>3, <1>4, SeqDef DEF Readying

\* Joining short sequences.
LEMMA OneAndTwo == ASSUME NEW a, NEW b, NEW c PROVE <<a>> \o <<b, c>> = <<a, b, c>>
<1> DEFINE S == {a, b, c}
           s == <<a>>
           t == <<b, c>>
           u == <<a, b, c>>
<1>1. s \in [1..1 -> S] /\ t \in [1..2 -> S] /\ u \in [1..3 -> S]
  OBVIOUS
<1>2. s \in Seq(S) /\ t \in Seq(S) /\ u \in Seq(S)
  BY <1>1, SeqDef
<1>3. Len(s) = 1 /\ Len(t) = 2 /\ Len(u) = 3
  OBVIOUS
<1>4. s[1] = u[1] /\ t[1] = u[2] /\ t[2] = u[3]
  OBVIOUS
<1> HIDE DEF S, s, t, u
<1>5. /\ s \o t \in Seq(S) /\ Len(s \o t) = Len(s) + Len(t)
      /\ \A i \in 1 .. Len(s) + Len(t) : (s \o t)[i] = IF i <= Len(s) THEN s[i] ELSE t[i - Len(s)]
  BY <1>2, ConcatProperties
<1>6. Len(s \o t) = 3
  BY <1>3, <1>5
<1>7. (s \o t)[1] = s[1] /\ (s \o t)[2] = t[1] /\ (s \o t)[3] = t[2]
  BY <1>3, <1>5
<1>9. \A i \in 1 .. Len(s \o t) : (s \o t)[i] = u[i]
  BY <1>4, <1>6, <1>7
<1>a. Len(s \o t) = Len(u)
  BY <1>3, <1>6
<1>b. s \o t \in Seq(S) /\ u \in Seq(S)
  BY <1>2, <1>5
<1>c. s \o t = u
  BY <1>9, <1>a, <1>b, SeqEqual
<1> QED
  BY <1>c DEF s, t, u

LEMMA OneAndThree == ASSUME NEW a, NEW b, NEW c, NEW d PROVE <<a>> \o <<b, c, d>> = <<a, b, c, d>>
<1> DEFINE S == {a, b, c, d}
           s == <<a>>
           t == <<b, c, d>>
           u == <<a, b, c, d>>
<1>1. s \in [1..1 -> S] /\ t \in [1..3 -> S] /\ u \in [1..4 -> S]
  OBVIOUS
<1>2. s \in Seq(S) /\ t \in Seq(S) /\ u \in Seq(S)
  BY <1>1, SeqDef
<1>3. Len(s) = 1 /\ Len(t) = 3 /\ Len(u) = 4
  OBVIOUS
<1>4. s[1] = u[1] /\ t[1] = u[2] /\ t[2] = u[3] /\ t[3] = u[4]
  OBVIOUS
<1> HIDE DEF S, s, t, u
<1>5. /\ s \o t \in Seq(S) /\ Len(s \o t) = Len(s) + Len(t)
      /\ \A i \in 1 .. Len(s) + Len(t) : (s \o t)[i] = IF i <= Len(s) THEN s[i] ELSE t[i - Len(s)]
  BY <1>2, ConcatProperties
<1>6. Len(s \o t) = 4
  BY <1>3, <1>5
<1>7. (s \o t)[1] = s[1] /\ (s \o t)[2] = t[1] /\ (s \o t)[3] = t[2]
  BY <1>3, <1>5
<1>8. (s \o t)[4] = t[3]
  BY <1>3, <1>5
<1>9. \A i \in 1 .. Len(s \o t) : (s \o t)[i] = u[i]
  BY <1>4, <1>6, <1>7, <1>8
<1>a. Len(s \o t) = Len(u)
  BY <1>3, <1>6
<1>b. s \o t \in Seq(S) /\ u \in Seq(S)
  BY <1>2, <1>5
<1>c. s \o t = u
  BY <1>9, <1>a, <1>b, SeqEqual
<1> QED
  BY <1>c DEF s, t, u

LEMMA TwoAndOne == ASSUME NEW a, NEW b, NEW c PROVE <<a, b>> \o <<c>> = <<a, b, c>>
<1> DEFINE S == {a, b, c}
           s == <<a, b>>
           t == <<c>>
           u == <<a, b, c>>
<1>1. s \in [1..2 -> S] /\ t \in [1..1 -> S] /\ u \in [1..3 -> S]
  OBVIOUS
<1>2. s \in Seq(S) /\ t \in Seq(S) /\ u \in Seq(S)
  BY <1>1, SeqDef
<1>3. Len(s) = 2 /\ Len(t) = 1 /\ Len(u) = 3
  OBVIOUS
<1>4. s[1] = u[1] /\ s[2] = u[2] /\ t[1] = u[3]
  OBVIOUS
<1> HIDE DEF S, s, t, u
<1>5. /\ s \o t \in Seq(S) /\ Len(s \o t) = Len(s) + Len(t)
      /\ \A i \in 1 .. Len(s) + Len(t) : (s \o t)[i] = IF i <= Len(s) THEN s[i] ELSE t[i - Len(s)]
  BY <1>2, ConcatProperties
<1>6. Len(s \o t) = 3
  BY <1>3, <1>5
<1>7. (s \o t)[1] = s[1] /\ (s \o t)[2] = s[2] /\ (s \o t)[3] = t[1]
  BY <1>3, <1>5
<1>9. \A i \in 1 .. Len(s \o t) : (s \o t)[i] = u[i]
  BY <1>4, <1>6, <1>7
<1>a. Len(s \o t) = Len(u)
  BY <1>3, <1>6
<1>b. s \o t \in Seq(S) /\ u \in Seq(S)
  BY <1>2, <1>5
<1>c. s \o t = u
  BY <1>9, <1>a, <1>b, SeqEqual
<1> QED
  BY <1>c DEF s, t, u

LEMMA ThreeAndTwo == ASSUME NEW a, NEW b, NEW c, NEW d, NEW e PROVE <<a, b, c>> \o <<d, e>> = <<a, b, c, d, e>>
<1> DEFINE S == {a, b, c, d, e}
           s == <<a, b, c>>
           t == <<d, e>>
           u == <<a, b, c, d, e>>
<1>1. s \in [1..3 -> S] /\ t \in [1..2 -> S] /\ u \in [1..5 -> S]
  OBVIOUS
<1>2. s \in Seq(S) /\ t \in Seq(S) /\ u \in Seq(S)
  BY <1>1, SeqDef
<1>3. Len(s) = 3 /\ Len(t) = 2 /\ Len(u) = 5
  OBVIOUS
<1>4. s[1] = u[1] /\ s[2] = u[2] /\ s[3] = u[3] /\ t[1] = u[4] /\ t[2] = u[5]
  OBVIOUS
<1> HIDE DEF S, s, t, u
<1>5. /\ s \o t \in Seq(S) /\ Len(s \o t) = Len(s) + Len(t)
      /\ \A i \in 1 .. Len(s) + Len(t) : (s \o t)[i] = IF i <= Len(s) THEN s[i] ELSE t[i - Len(s)]
  BY <1>2, ConcatProperties
<1>6. Len(s \o t) = 5
  BY <1>3, <1>5
<1>7. (s \o t)[1] = s[1] /\ (s \o t)[2] = s[2] /\ (s \o t)[3] = s[3]
  BY <1>3, <1>5
<1>8. (s \o t)[4] = t[1] /\ (s \o t)[5] = t[2]
  BY <1>3, <1>5
<1>9. \A i \in 1 .. Len(s \o t) : (s \o t)[i] = u[i]
  BY <1>4, <1>6, <1>7, <1>8
<1>a. Len(s \o t) = Len(u)
  BY <1>3, <1>6
<1>b. s \o t \in Seq(S) /\ u \in Seq(S)
  BY <1>2, <1>5
<1>c. s \o t = u
  BY <1>9, <1>a, <1>b, SeqEqual
<1> QED
  BY <1>c DEF s, t, u

LEMMA FiveAndOne ==
  ASSUME NEW a, NEW b, NEW c, NEW d, NEW e, NEW f
  PROVE  <<a, b, c, d, e>> \o <<f>> = <<a, b, c, d, e, f>>
<1> DEFINE S == {a, b, c, d, e, f}
           s == <<a, b, c, d, e>>
           t == <<f>>
           u == <<a, b, c, d, e, f>>
<1>1. s \in [1..5 -> S] /\ t \in [1..1 -> S] /\ u \in [1..6 -> S]
  OBVIOUS
<1>2. s \in Seq(S) /\ t \in Seq(S) /\ u \in Seq(S)
  BY <1>1, SeqDef
<1>3. Len(s) = 5 /\ Len(t) = 1 /\ Len(u) = 6
  OBVIOUS
<1>4. s[1] = u[1] /\ s[2] = u[2] /\ s[3] = u[3] /\ s[4] = u[4] /\ s[5] = u[5] /\ t[1] = u[6]
  OBVIOUS
<1> HIDE DEF S, s, t, u
<1>5. /\ s \o t \in Seq(S) /\ Len(s \o t) = Len(s) + Len(t)
      /\ \A i \in 1 .. Len(s) + Len(t) : (s \o t)[i] = IF i <= Len(s) THEN s[i] ELSE t[i - Len(s)]
  BY <1>2, ConcatProperties
<1>6. Len(s \o t) = 6
  BY <1>3, <1>5
<1>7. (s \o t)[1] = s[1] /\ (s \o t)[2] = s[2] /\ (s \o t)[3] = s[3]
  BY <1>3, <1>5
<1>8. (s \o t)[4] = s[4] /\ (s \o t)[5] = s[5] /\ (s \o t)[6] = t[1]
  BY <1>3, <1>5
<1>9. \A i \in 1 .. Len(s \o t) : (s \o t)[i] = u[i]
  BY <1>4, <1>6, <1>7, <1>8
<1>a. Len(s \o t) = Len(u)
  BY <1>3, <1>6
<1>b. s \o t \in Seq(S) /\ u \in Seq(S)
  BY <1>2, <1>5
<1>c. s \o t = u
  BY <1>9, <1>a, <1>b, SeqEqual
<1> QED
  BY <1>c DEF s, t, u

LEMMA OneAndSix ==
  ASSUME NEW a, NEW b, NEW c, NEW d, NEW e, NEW f, NEW g
  PROVE  <<a>> \o <<b, c, d, e, f, g>> = <<a, b, c, d, e, f, g>>
<1> DEFINE S == {a, b, c, d, e, f, g}
           s == <<a>>
           t == <<b, c, d, e, f, g>>
           u == <<a, b, c, d, e, f, g>>
<1>1. s \in [1..1 -> S] /\ t \in [1..6 -> S] /\ u \in [1..7 -> S]
  OBVIOUS
<1>2. s \in Seq(S) /\ t \in Seq(S) /\ u \in Seq(S)
  BY <1>1, SeqDef
<1>3. Len(s) = 1 /\ Len(t) = 6 /\ Len(u) = 7
  OBVIOUS
<1>4. s[1] = u[1] /\ t[1] = u[2] /\ t[2] = u[3] /\ t[3] = u[4] /\ t[4] = u[5] /\ t[5] = u[6] /\ t[6] = u[7]
  OBVIOUS
<1> HIDE DEF S, s, t, u
<1>5. /\ s \o t \in Seq(S) /\ Len(s \o t) = Len(s) + Len(t)
      /\ \A i \in 1 .. Len(s) + Len(t) : (s \o t)[i] = IF i <= Len(s) THEN s[i] ELSE t[i - Len(s)]
  BY <1>2, ConcatProperties
<1>6. Len(s \o t) = 7
  BY <1>3, <1>5
<1>7. (s \o t)[1] = s[1] /\ (s \o t)[2] = t[1] /\ (s \o t)[3] = t[2]
  BY <1>3, <1>5
<1>8. (s \o t)[4] = t[3] /\ (s \o t)[5] = t[4] /\ (s \o t)[6] = t[5] /\ (s \o t)[7] = t[6]
  BY <1>3, <1>5
<1>9. \A i \in 1 .. Len(s \o t) : (s \o t)[i] = u[i]
  BY <1>4, <1>6, <1>7, <1>8
<1>a. Len(s \o t) = Len(u)
  BY <1>3, <1>6
<1>b. s \o t \in Seq(S) /\ u \in Seq(S)
  BY <1>2, <1>5
<1>c. s \o t = u
  BY <1>9, <1>a, <1>b, SeqEqual
<1> QED
  BY <1>c DEF s, t, u

LEMMA TwoAndTwo == ASSUME NEW a, NEW b, NEW c, NEW d PROVE <<a, b>> \o <<c, d>> = <<a, b, c, d>>
<1> DEFINE S == {a, b, c, d}
           s == <<a, b>>
           t == <<c, d>>
           u == <<a, b, c, d>>
<1>1. s \in [1..2 -> S] /\ t \in [1..2 -> S] /\ u \in [1..4 -> S]
  OBVIOUS
<1>2. s \in Seq(S) /\ t \in Seq(S) /\ u \in Seq(S)
  BY <1>1, SeqDef
<1>3. Len(s) = 2 /\ Len(t) = 2 /\ Len(u) = 4
  OBVIOUS
<1>4. s[1] = u[1] /\ s[2] = u[2] /\ t[1] = u[3] /\ t[2] = u[4]
  OBVIOUS
<1> HIDE DEF S, s, t, u
<1>5. /\ s \o t \in Seq(S) /\ Len(s \o t) = Len(s) + Len(t)
      /\ \A i \in 1 .. Len(s) + Len(t) : (s \o t)[i] = IF i <= Len(s) THEN s[i] ELSE t[i - Len(s)]
  BY <1>2, ConcatProperties
<1>6. Len(s \o t) = 4
  BY <1>3, <1>5
<1>7. (s \o t)[1] = s[1] /\ (s \o t)[2] = s[2] /\ (s \o t)[3] = t[1]
  BY <1>3, <1>5
<1>8. (s \o t)[4] = t[2]
  BY <1>3, <1>5
<1>9. \A i \in 1 .. Len(s \o t) : (s \o t)[i] = u[i]
  BY <1>4, <1>6, <1>7, <1>8
<1>a. Len(s \o t) = Len(u)
  BY <1>3, <1>6
<1>b. s \o t \in Seq(S) /\ u \in Seq(S)
  BY <1>2, <1>5
<1>c. s \o t = u
  BY <1>9, <1>a, <1>b, SeqEqual
<1> QED
  BY <1>c DEF s, t, u

LEMMA OneAndFour == ASSUME NEW a, NEW b, NEW c, NEW d, NEW e PROVE <<a>> \o <<b, c, d, e>> = <<a, b, c, d, e>>
<1> DEFINE S == {a, b, c, d, e}
           s == <<a>>
           t == <<b, c, d, e>>
           u == <<a, b, c, d, e>>
<1>1. s \in [1..1 -> S] /\ t \in [1..4 -> S] /\ u \in [1..5 -> S]
  OBVIOUS
<1>2. s \in Seq(S) /\ t \in Seq(S) /\ u \in Seq(S)
  BY <1>1, SeqDef
<1>3. Len(s) = 1 /\ Len(t) = 4 /\ Len(u) = 5
  OBVIOUS
<1>4. s[1] = u[1] /\ t[1] = u[2] /\ t[2] = u[3] /\ t[3] = u[4] /\ t[4] = u[5]
  OBVIOUS
<1> HIDE DEF S, s, t, u
<1>5. /\ s \o t \in Seq(S) /\ Len(s \o t) = Len(s) + Len(t)
      /\ \A i \in 1 .. Len(s) + Len(t) : (s \o t)[i] = IF i <= Len(s) THEN s[i] ELSE t[i - Len(s)]
  BY <1>2, ConcatProperties
<1>6. Len(s \o t) = 5
  BY <1>3, <1>5
<1>7. (s \o t)[1] = s[1] /\ (s \o t)[2] = t[1] /\ (s \o t)[3] = t[2]
  BY <1>3, <1>5
<1>8. (s \o t)[4] = t[3] /\ (s \o t)[5] = t[4]
  BY <1>3, <1>5
<1>9. \A i \in 1 .. Len(s \o t) : (s \o t)[i] = u[i]
  BY <1>4, <1>6, <1>7, <1>8
<1>a. Len(s \o t) = Len(u)
  BY <1>3, <1>6
<1>b. s \o t \in Seq(S) /\ u \in Seq(S)
  BY <1>2, <1>5
<1>c. s \o t = u
  BY <1>9, <1>a, <1>b, SeqEqual
<1> QED
  BY <1>c DEF s, t, u

LEMMA LinuxCalls ==
  <<"check">> \o (<<"candidate", "doctor">> \o <<"verify">> \o <<"shutdown", "candidate">> \o <<"credential">>)
    = <<"check", "candidate", "doctor", "verify", "shutdown", "candidate", "credential">>
<1>1. <<"candidate", "doctor">> \o <<"verify">> = <<"candidate", "doctor", "verify">>
  BY TwoAndOne
<1>2. <<"candidate", "doctor", "verify">> \o <<"shutdown", "candidate">>
        = <<"candidate", "doctor", "verify", "shutdown", "candidate">>
  BY ThreeAndTwo
<1>3. <<"candidate", "doctor", "verify", "shutdown", "candidate">> \o <<"credential">>
        = <<"candidate", "doctor", "verify", "shutdown", "candidate", "credential">>
  BY FiveAndOne
<1>4. <<"check">> \o <<"candidate", "doctor", "verify", "shutdown", "candidate", "credential">>
        = <<"check", "candidate", "doctor", "verify", "shutdown", "candidate", "credential">>
  BY OneAndSix
<1> QED
  BY <1>1, <1>2, <1>3, <1>4

\* The calls of the other commands, and what may be left of a command on a kind
\* of machine.
PlainCalls == {"check", "control"} \union Commands!Operations
CallNames == RouteCalls \union PlainCalls
OnRoute(op, rest, kind) ==
  /\ op = "prepare-promotion" => rest \in (IF kind = "linux" THEN LinuxPromotion ELSE Promotion)
  /\ op = "validate-candidate" => rest \in Validation
  /\ op = "ensure-ready" => rest \in Readying
  /\ op \notin Commands!Candidates \union {"ensure-ready"} => rest \in Seq(PlainCalls) /\ Len(rest) <= 4

\* Of what the machine, its claim and the clients are made.
TargetStates == [kind : MachineKind, power : Commands!Powers, ready : BOOLEAN, stopping : BOOLEAN,
             owned : BOOLEAN, credential : {"stored", "verified"}]
ClaimStates == [number : 0..MaxClaims, holder : Client, class : {"ordinary", "disruptive"}, live : BOOLEAN]
CallLists == Seq(CallNames)
ClientStates == [op : Commands!Operations \union {"none"}, rest : CallLists,
                 reported : BOOLEAN, claim : 0..MaxClaims, result : Commands!Results]

Uncertain == {"ready_with_adapter_error", "action_failed", "refused"}

\* A client has the claim; it has seen the machine off and only has to ask for
\* the credential.
HasClaim(c, k, l) == l.live /\ k.claim = l.number /\ l.holder = c
SawOff(k, m) == k.op = "prepare-promotion" /\ m.kind = "linux" /\ Len(k.rest) = 1

\* What a client k has of the machine m and its claim l: nothing is reported
\* before the end except the start that ensure-ready looks into, and while the
\* claim is its own, what it saw last still holds.
ClientSound(c, k, m, l) ==
  /\ k.op \in Uses[c] \union {"none"} /\ OnRoute(k.op, k.rest, m.kind)
  /\ k.op \in Commands!Candidates \/ k.result = "eligible" => m.kind # "device"
  /\ Len(k.rest) # 0 => k.result = "none"
  /\ k.reported => \/ k.op = "ensure-ready" /\ Len(k.rest) = 1
                   \/ Len(k.rest) = 0 /\ k.result \in Uncertain
  /\ k.claim <= l.number
  /\ HasClaim(c, k, l) /\ (k.result = "eligible" \/ SawOff(k, m)) => m.power = "off" /\ ~m.owned
  /\ HasClaim(c, k, l) /\ k.result = "eligible" /\ m.kind = "linux" => m.credential = "verified"

\* The inductive invariant of the commands.
CommandsInv ==
  /\ target \in TargetStates /\ claimed \in ClaimStates /\ clients \in [Client -> ClientStates]
  /\ \A c \in Client : ClientSound(c, clients[c], target, claimed)

\* What a step leaves of the claim of a client, and the machine under it: its
\* own step, or those of the others.
SparedTo(d) ==
  target.kind # "device" /\ HasClaim(d, clients[d], claimed') =>
    /\ HasClaim(d, clients[d], claimed)
    /\ target.power = "off" /\ ~target.owned =>
         /\ target'.power = "off" /\ ~target'.owned
         /\ target.credential = "verified" => target'.credential = "verified"
Spared(c) == \A d \in Client : d # c => SparedTo(d)

\* What a step keeps in any case.
Onwards == /\ target' \in TargetStates /\ claimed' \in ClaimStates
           /\ target'.kind = target.kind /\ claimed'.number >= claimed.number

LEMMA CommandFields ==
  ASSUME Commands!UsesAreKnown, CommandsInv, NEW c \in Client
  PROVE  /\ clients[c] \in ClientStates /\ clients[c].op \in Commands!Operations \union {"none"}
         /\ clients[c].rest \in Seq(CallNames) /\ Len(clients[c].rest) \in Nat
         /\ clients[c].rest = <<>> <=> Len(clients[c].rest) = 0
         /\ clients[c].reported \in BOOLEAN /\ clients[c].claim \in 0..MaxClaims /\ clients[c].result \in Commands!Results
         /\ ClientSound(c, clients[c], target, claimed)
<1>1. clients[c] \in ClientStates /\ ClientSound(c, clients[c], target, claimed)
  BY DEF CommandsInv
<1>2. clients[c].rest \in CallLists /\ clients[c].op \in Commands!Operations \union {"none"}
  BY <1>1 DEF ClientStates
<1>3. clients[c].reported \in BOOLEAN /\ clients[c].claim \in 0..MaxClaims /\ clients[c].result \in Commands!Results
  BY <1>1 DEF ClientStates
<1>4. clients[c].rest \in Seq(CallNames) /\ Len(clients[c].rest) \in Nat
  BY <1>2 DEF CallLists
<1>5. clients[c].rest = <<>> <=> Len(clients[c].rest) = 0
  BY <1>4, EmptySeq
<1> QED
  BY <1>1, <1>2, <1>3, <1>4, <1>5

LEMMA CommandKept ==
  ASSUME Commands!UsesAreKnown, CommandsInv, NEW d \in Client, Onwards, SparedTo(d)
  PROVE  ClientSound(d, clients[d], target', claimed')
<1>1. ClientSound(d, clients[d], target, claimed) /\ target'.kind = target.kind /\ claimed'.number >= claimed.number
  BY DEF CommandsInv, Onwards
<1>2. clients[d].claim \in Nat /\ claimed.number \in Nat /\ claimed'.number \in Nat
  <2>1. clients[d].claim \in 0..MaxClaims
    BY CommandFields
  <2> QED
    BY <2>1 DEF CommandsInv, ClaimStates, Onwards
<1>3. clients[d].claim <= claimed'.number
  BY <1>1, <1>2 DEF ClientSound
<1>4. HasClaim(d, clients[d], claimed') /\ (clients[d].result = "eligible" \/ SawOff(clients[d], target')) =>
        target'.power = "off" /\ ~target'.owned
  <2> SUFFICES ASSUME HasClaim(d, clients[d], claimed'), clients[d].result = "eligible" \/ SawOff(clients[d], target')
               PROVE  target'.power = "off" /\ ~target'.owned
    OBVIOUS
  <2>1. target.kind # "device" /\ (clients[d].result = "eligible" \/ SawOff(clients[d], target))
    BY <1>1 DEF ClientSound, SawOff, Commands!Candidates
  <2> QED
    BY <2>1, <1>1 DEF SparedTo, ClientSound
<1>5. HasClaim(d, clients[d], claimed') /\ clients[d].result = "eligible" /\ target'.kind = "linux" =>
        target'.credential = "verified"
  BY <1>1 DEF SparedTo, ClientSound
<1> QED
  BY <1>1, <1>3, <1>4, <1>5 DEF ClientSound

LEMMA CommandsTold ==
  ASSUME Commands!UsesAreKnown, CommandsInv, NEW c \in Client, NEW q \in ClientStates, Commands!Told(c, q), Onwards,
         Spared(c), 
         ClientSound(c, q, target', claimed')
  PROVE  CommandsInv'
<1>1. clients \in [Client -> ClientStates] /\ clients' = [clients EXCEPT ![c] = q]
  BY DEF CommandsInv, Commands!Told
<1>2. clients' \in [Client -> ClientStates] /\ clients'[c] = q /\ \A d \in Client : d # c => clients'[d] = clients[d]
  BY <1>1
<1>3. ASSUME NEW d \in Client, d # c PROVE ClientSound(d, clients[d], target', claimed')
  BY <1>3, CommandKept DEF Spared
<1>4. \A d \in Client : ClientSound(d, clients'[d], target', claimed')
  BY <1>2, <1>3
<1> QED
  BY <1>2, <1>4 DEF CommandsInv, Onwards

\* Ways a command goes on.
LEMMA CommandEnds ==
  ASSUME Commands!UsesAreKnown, CommandsInv, NEW c \in Client, NEW result \in Commands!Results \ {"eligible"},
         Onwards, 
         clients[c].reported => result \in Uncertain
  PROVE  Commands!Ends(c, result) \in ClientStates /\ ClientSound(c, Commands!Ends(c, result), target', claimed')
<1> DEFINE k == clients[c]
           q == Commands!Ends(c, result)
<1>1. k \in ClientStates /\ k.reported \in BOOLEAN /\ k.claim \in 0..MaxClaims /\ ClientSound(c, k, target, claimed)
  BY CommandFields
<1>2. <<>> \in CallLists /\ <<>> \in Seq(PlainCalls) /\ Len(<<>>) = 0
  BY DEF CallLists
<1>3. q.op = "none" /\ q.rest = <<>> /\ q.reported = k.reported /\ q.claim = k.claim /\ q.result = result
  BY <1>1 DEF Commands!Ends, ClientStates
<1>4. q \in ClientStates
  BY <1>1, <1>2 DEF Commands!Ends, ClientStates
<1>5. OnRoute("none", <<>>, target'.kind)
  BY <1>2 DEF OnRoute, Commands!Candidates
<1>6. k.claim <= claimed'.number
  <2>1. claimed.number \in Nat /\ claimed'.number \in Nat /\ k.claim \in Nat
    BY <1>1 DEF CommandsInv, ClaimStates, Onwards
  <2> QED
    BY <1>1, <2>1 DEF ClientSound, Onwards
<1>7. ~SawOff(q, target') /\ q.op \notin Commands!Candidates
  BY <1>3 DEF SawOff, Commands!Candidates
<1>8. q.op \in Uses[c] \union {"none"} /\ Len(q.rest) = 0 /\ q.result # "eligible"
  BY <1>2, <1>3
<1>9. q.reported => Len(q.rest) = 0 /\ q.result \in Uncertain
  BY <1>2, <1>3
<1> HIDE DEF q
<1>a. ClientSound(c, q, target', claimed')
  BY <1>3, <1>5, <1>6, <1>7, <1>8, <1>9 DEF ClientSound
<1> QED
  BY <1>4, <1>a DEF q

\* Only the last look at a promotion leaves the credential to be asked for.
LEMMA CommandGoes ==
  ASSUME Commands!UsesAreKnown, CommandsInv, NEW c \in Client, Onwards, Len(clients[c].rest) # 0,
         ~clients[c].reported, 
         Len(clients[c].rest) = 1 => clients[c].op \notin Commands!Candidates \union {"ensure-ready"},
         \/ Head(clients[c].rest) # "candidate" \/ Len(clients[c].rest) # 2 \/ (target'.power = "off" /\ ~target'.owned)
         \/ clients[c].op # "prepare-promotion" \/ target.kind # "linux"
  PROVE  /\ Commands!Goes(c) \in ClientStates /\ ClientSound(c, Commands!Goes(c), target', claimed')
         /\ Commands!Goes(c).op = clients[c].op /\ Commands!Goes(c).rest = Tail(clients[c].rest)
<1> DEFINE k == clients[c]
           q == Commands!Goes(c)
           t == Tail(k.rest)
<1>1. k \in ClientStates /\ ClientSound(c, k, target, claimed) /\ k.rest \in Seq(CallNames) /\ k.rest # <<>>
  BY CommandFields
<1>2. t \in CallLists /\ Len(t) = Len(k.rest) - 1 /\ Len(k.rest) \in Nat
  BY <1>1 DEF CallLists
<1>3. q.op = k.op /\ q.rest = t /\ q.reported = k.reported /\ q.claim = k.claim /\ q.result = k.result
  BY <1>1 DEF Commands!Goes, ClientStates
<1>4. q \in ClientStates
  <2> DEFINE T == CallLists
  <2>1. t \in T
    BY <1>2
  <2>2. k \in [op : Commands!Operations \union {"none"}, rest : T,
               reported : BOOLEAN, claim : 0..MaxClaims, result : Commands!Results]
    BY <1>1 DEF ClientStates
  <2> HIDE DEF T, t
  <2>3. [k EXCEPT !.rest = t] \in
          [op : Commands!Operations \union {"none"}, rest : T,
           reported : BOOLEAN, claim : 0..MaxClaims, result : Commands!Results]
    BY <2>1, <2>2
  <2> QED
    BY <2>3 DEF Commands!Goes, ClientStates, T, t
<1>5. k.claim <= claimed'.number
  <2>1. claimed.number \in Nat /\ claimed'.number \in Nat /\ k.claim \in Nat
    BY CommandFields DEF CommandsInv, ClaimStates, Onwards
  <2> QED
    BY <1>1, <2>1 DEF ClientSound, Onwards
<1>6. OnRoute(k.op, t, target'.kind)
  <2>1. OnRoute(k.op, k.rest, target.kind) /\ target'.kind = target.kind
    BY <1>1 DEF ClientSound, Onwards
  <2>2. ASSUME k.op = "prepare-promotion" PROVE t \in (IF target.kind = "linux" THEN LinuxPromotion ELSE Promotion)
    BY <2>1, <2>2, LinuxPromotionLeads, PromotionLeads DEF OnRoute, Commands!Candidates
  <2>3. ASSUME k.op = "validate-candidate" PROVE t \in Validation
    BY <2>1, <2>3, ValidationLeads DEF OnRoute, Commands!Candidates
  <2>4. ASSUME k.op = "ensure-ready" PROVE t \in Readying
    BY <2>1, <2>4, ReadyingLeads DEF OnRoute
  <2>5. ASSUME k.op \notin Commands!Candidates \union {"ensure-ready"} PROVE t \in Seq(PlainCalls) /\ Len(t) <= 4
    <3>1. k.rest \in Seq(PlainCalls) /\ Len(k.rest) <= 4
      BY <2>1, <2>5 DEF OnRoute
    <3>2. t \in Seq(PlainCalls)
      BY <3>1, <1>1
    <3> QED
      BY <3>1, <3>2, <1>2
  <2> HIDE DEF t, k
  <2> QED
    BY <2>1, <2>2, <2>3, <2>4, <2>5 DEF OnRoute
<1>7. SawOff(q, target') => target'.power = "off" /\ ~target'.owned
  <2> SUFFICES ASSUME k.op = "prepare-promotion", target.kind = "linux", Len(t) = 1
               PROVE  Head(k.rest) = "candidate" /\ Len(k.rest) = 2
    BY <1>3 DEF SawOff, Onwards
  <2>1. k.rest \in LinuxPromotion
    BY <1>1 DEF ClientSound, OnRoute
  <2> QED
    BY <2>1, LinuxPromotionLeads
<1>8. k.result = "none" /\ ~k.reported /\ target'.kind = target.kind
  BY <1>1 DEF ClientSound, Onwards
<1> HIDE DEF q, t
<1>9. ClientSound(c, q, target', claimed')
  BY <1>1, <1>3, <1>5, <1>6, <1>7, <1>8 DEF ClientSound
<1> QED
  BY <1>3, <1>4, <1>9 DEF q, t

\* Nothing has been reported before the last look of ensure-ready.
LEMMA NotReported ==
  ASSUME Commands!UsesAreKnown, CommandsInv, NEW c \in Client, NEW call, Commands!At(c, call), call # "doctor"
  PROVE  ~clients[c].reported /\ Len(clients[c].rest) # 0 /\ Head(clients[c].rest) = call
<1>1. ClientSound(c, clients[c], target, claimed) /\ Len(clients[c].rest) # 0 /\ Head(clients[c].rest) = call
  BY CommandFields DEF Commands!At
<1>2. ASSUME clients[c].reported PROVE FALSE
  <2>1. clients[c].op = "ensure-ready" /\ Len(clients[c].rest) = 1
    BY <1>1, <1>2 DEF ClientSound
  <2>2. clients[c].rest \in Readying
    BY <1>1, <2>1 DEF ClientSound, OnRoute
  <2> QED
    BY <1>1, <2>1, <2>2, ReadyingLeads
<1> QED
  BY <1>1, <1>2

\* The calls of candidates, and those of the others.
LEMMA CandidateCalls ==
  ASSUME Commands!UsesAreKnown, CommandsInv, NEW c \in Client, NEW call \in {"candidate", "verify", "credential"},
         Commands!At(c, call)
  PROVE  /\ clients[c].op \in Commands!Candidates /\ target.kind # "device"
         /\ call = "candidate" /\ Len(clients[c].rest) = 1 => clients[c].op = "prepare-promotion" /\ target.kind # "linux"
         /\ call = "verify" => Len(clients[c].rest) # 1
         /\ call # "candidate" => clients[c].op = "prepare-promotion" /\ target.kind = "linux"
         /\ call = "credential" => Len(clients[c].rest) = 1
<1> DEFINE r == clients[c].rest
<1>1. ClientSound(c, clients[c], target, claimed) /\ Len(r) # 0 /\ r # <<>> /\ Head(r) = call
  BY CommandFields DEF Commands!At
<1>2. OnRoute(clients[c].op, r, target.kind)
  BY <1>1 DEF ClientSound
<1>3. clients[c].op # "ensure-ready"
  BY <1>1, <1>2, ReadyingLeads DEF OnRoute
<1>4. clients[c].op \in Commands!Candidates
  <2> SUFFICES ASSUME clients[c].op \notin Commands!Candidates PROVE FALSE
    OBVIOUS
  <2>1. r \in Seq(PlainCalls)
    BY <1>2, <1>3 DEF OnRoute
  <2>2. call \in PlainCalls
    BY <1>1, <2>1, HeadTailProperties
  <2> QED
    BY <2>2 DEF PlainCalls, Commands!Operations, Commands!Lifecycle, Commands!Observing, Commands!Maintenance,
       Commands!Claims, Commands!Workspaces, Commands!Candidates
<1>5. target.kind # "device"
  BY <1>1, <1>4 DEF ClientSound
<1>6. CASE clients[c].op = "validate-candidate"
  <2>1. r \in Validation
    BY <1>2, <1>6 DEF OnRoute
  <2> QED
    BY <2>1, <1>1, <1>4, <1>5, ValidationLeads
<1>7. CASE clients[c].op = "prepare-promotion" /\ target.kind = "linux"
  <2>1. r \in LinuxPromotion
    BY <1>2, <1>7 DEF OnRoute
  <2> QED
    BY <2>1, <1>1, <1>4, <1>5, <1>7, LinuxPromotionLeads
<1>8. CASE clients[c].op = "prepare-promotion" /\ target.kind # "linux"
  <2>1. r \in Promotion
    BY <1>2, <1>8 DEF OnRoute
  <2> QED
    BY <2>1, <1>1, <1>4, <1>5, <1>8, PromotionLeads
<1> QED
  BY <1>4, <1>6, <1>7, <1>8 DEF Commands!Candidates

\* Ends and steps that change neither machine nor claim.
LEMMA OnlyLooking == ASSUME CommandsInv, UNCHANGED <<target, claimed>> PROVE Onwards /\ \A c \in Client : Spared(c)
<1>1. target \in TargetStates /\ claimed \in ClaimStates /\ target' = target /\ claimed' = claimed
  BY DEF CommandsInv
<1>2. claimed.number \in Nat
  BY <1>1 DEF ClaimStates
<1> QED
  BY <1>1, <1>2 DEF Onwards, Spared, SparedTo

LEMMA CommandRefused ==
  ASSUME Commands!UsesAreKnown, CommandsInv, NEW c \in Client, Commands!Refused(c), Onwards,
         Spared(c) PROVE CommandsInv'
<1>1. "refused" \in Commands!Results \ {"eligible"} /\ "refused" \in Uncertain
  BY DEF Commands!Results, Uncertain
<1>2. Commands!Ends(c, "refused") \in ClientStates /\ ClientSound(c, Commands!Ends(c, "refused"), target', claimed')
  BY <1>1, CommandEnds
<1> QED
  BY <1>2, CommandsTold DEF Commands!Refused

LEMMA CommandOnward ==
  ASSUME Commands!UsesAreKnown, CommandsInv, NEW c \in Client, Commands!Told(c, Commands!Onward(c)), Onwards,
         Spared(c), 
         ~clients[c].reported, Len(clients[c].rest) # 0, Head(clients[c].rest) # "candidate"
  PROVE  CommandsInv'
<1>1. "done" \in Commands!Results \ {"eligible"}
  BY DEF Commands!Results
<1>2. CASE Len(clients[c].rest) = 1
  <2>1. Commands!Onward(c) = Commands!Ends(c, "done")
    BY <1>2 DEF Commands!Onward
  <2>2. Commands!Ends(c, "done") \in ClientStates /\ ClientSound(c, Commands!Ends(c, "done"), target', claimed')
    BY <1>1, CommandEnds
  <2> QED
    BY <2>1, <2>2, CommandsTold
<1>3. CASE Len(clients[c].rest) # 1
  <2>1. Commands!Onward(c) = Commands!Goes(c)
    BY <1>3 DEF Commands!Onward
  <2>2. Commands!Goes(c) \in ClientStates /\ ClientSound(c, Commands!Goes(c), target', claimed')
    BY <1>3, CommandGoes
  <2> QED
    BY <2>1, <2>2, CommandsTold
<1> QED
  BY <1>2, <1>3

LEMMA CheckKeeps == ASSUME Commands!UsesAreKnown, CommandsInv, NEW c \in Client, Commands!Check(c) PROVE CommandsInv'
<1>1. /\ UNCHANGED <<target, claimed>> /\ Commands!At(c, "check")
      /\ (Commands!Told(c, Commands!Goes(c)) \/ Commands!Refused(c))
  BY DEF Commands!Check
<1>2. Onwards /\ Spared(c)
  BY <1>1, OnlyLooking
<1>3. CASE Commands!Told(c, Commands!Goes(c))
  <2>1. ~clients[c].reported /\ Len(clients[c].rest) # 0 /\ Head(clients[c].rest) = "check"
    BY <1>1, NotReported
  <2>2. Len(clients[c].rest) = 1 => clients[c].op \notin Commands!Candidates \union {"ensure-ready"}
    <3>1. OnRoute(clients[c].op, clients[c].rest, target.kind)
      BY CommandFields DEF ClientSound
    <3> QED
      BY <3>1, <2>1, LinuxPromotionLeads, PromotionLeads, ValidationLeads, ReadyingLeads DEF OnRoute,
         Commands!Candidates
  <2>3. Commands!Goes(c) \in ClientStates /\ ClientSound(c, Commands!Goes(c), target', claimed')
    BY <1>2, <2>1, <2>2, CommandGoes
  <2> QED
    BY <1>2, <1>3, <2>3, CommandsTold
<1> QED
  BY <1>1, <1>2, <1>3, CommandRefused

LEMMA AfterDoctorEnds ==
  ASSUME Commands!UsesAreKnown, CommandsInv, NEW c \in Client, NEW saw, Commands!At(c, "doctor")
  PROVE  \/ \E result \in Commands!Results \ {"eligible"} :
              Commands!AfterDoctor(c, saw) = Commands!Ends(c, result) /\ (clients[c].reported => result \in Uncertain)
         \/ Commands!AfterDoctor(c, saw) = Commands!Goes(c) /\ Len(clients[c].rest) # 1 /\ ~clients[c].reported
<1>1. clients[c].reported => clients[c].op = "ensure-ready" /\ Len(clients[c].rest) = 1
  <2>1. ClientSound(c, clients[c], target, claimed) /\ Len(clients[c].rest) # 0
    BY CommandFields DEF Commands!At
  <2> QED
    BY <2>1 DEF ClientSound
<1>2. CASE clients[c].op = "ensure-ready" /\ Len(clients[c].rest) = 1
  <2>1. /\ "ready" \in Commands!Results \ {"eligible"} /\ "repair_required" \in Commands!Results \ {"eligible"}
        /\ "ready_with_adapter_error" \in (Commands!Results \ {"eligible"}) \intersect Uncertain
        /\ "action_failed" \in (Commands!Results \ {"eligible"}) \intersect Uncertain
    BY DEF Commands!Results, Uncertain
  <2>2. CASE clients[c].reported
    <3>1. \/ Commands!AfterDoctor(c, saw) = Commands!Ends(c, "ready_with_adapter_error")
          \/ Commands!AfterDoctor(c, saw) = Commands!Ends(c, "action_failed")
      BY <1>2, <2>2 DEF Commands!AfterDoctor, Commands!Candidates
    <3> QED
      BY <2>1, <3>1
  <2>3. CASE ~clients[c].reported
    <3>1. \/ Commands!AfterDoctor(c, saw) = Commands!Ends(c, "ready")
          \/ Commands!AfterDoctor(c, saw) = Commands!Ends(c, "repair_required")
      BY <1>2, <2>3 DEF Commands!AfterDoctor, Commands!Candidates
    <3> QED
      BY <2>1, <2>3, <3>1
  <2> QED
    BY <2>2, <2>3
<1>3. CASE ~(clients[c].op = "ensure-ready" /\ Len(clients[c].rest) = 1)
  <2>1. /\ "ready" \in Commands!Results \ {"eligible"} /\ "repair_required" \in Commands!Results \ {"eligible"}
        /\ "refused" \in Commands!Results \ {"eligible"} /\ "not_ready" \in Commands!Results \ {"eligible"}
        /\ "validated" \in Commands!Results \ {"eligible"} /\ "done" \in Commands!Results \ {"eligible"}
    BY DEF Commands!Results
  <2>2. \/ Commands!AfterDoctor(c, saw) = Commands!Ends(c, "ready")
        \/ Commands!AfterDoctor(c, saw) = Commands!Ends(c, "repair_required")
        \/ Commands!AfterDoctor(c, saw) = Commands!Ends(c, "refused")
        \/ Commands!AfterDoctor(c, saw) = Commands!Ends(c, "not_ready")
        \/ Commands!AfterDoctor(c, saw) = Commands!Ends(c, "validated")
        \/ Commands!AfterDoctor(c, saw) = Commands!Ends(c, "done")
        \/ Commands!AfterDoctor(c, saw) = Commands!Goes(c) /\ Len(clients[c].rest) # 1
    <3>1. clients[c].op \in Commands!Candidates => Len(clients[c].rest) # 1 \/ clients[c].op = "validate-candidate"
      <4>1. OnRoute(clients[c].op, clients[c].rest, target.kind) /\ Head(clients[c].rest) = "doctor"
        BY CommandFields DEF ClientSound, Commands!At
      <4> QED
        BY <4>1, LinuxPromotionLeads, PromotionLeads DEF OnRoute, Commands!Candidates
    <3> QED
      BY <1>3, <3>1 DEF Commands!AfterDoctor
  <2> QED
    BY <1>1, <1>3, <2>1, <2>2
<1> QED
  BY <1>2, <1>3

LEMMA DoctorKeeps ==
  ASSUME Commands!UsesAreKnown, CommandsInv, NEW c \in Client, Commands!Doctor(c)
  PROVE  CommandsInv'
<1>1. /\ UNCHANGED <<target, claimed>> /\ Commands!At(c, "doctor")
      /\ ((\E d \in Commands!Documents : Commands!Told(c, Commands!AfterDoctor(c, d))) \/ Commands!Refused(c))
  BY DEF Commands!Doctor, Commands!Fails
<1>2. Onwards /\ Spared(c)
  BY <1>1, OnlyLooking
<1>3. ASSUME NEW d \in Commands!Documents, Commands!Told(c, Commands!AfterDoctor(c, d)) PROVE CommandsInv'
  <2>1. CASE \E result \in Commands!Results \ {"eligible"} :
              Commands!AfterDoctor(c, d) = Commands!Ends(c, result) /\ (clients[c].reported => result \in Uncertain)
    <3>1. PICK result \in Commands!Results \ {"eligible"} :
            Commands!AfterDoctor(c, d) = Commands!Ends(c, result) /\ (clients[c].reported => result \in Uncertain)
      BY <2>1
    <3>2. Commands!Ends(c, result) \in ClientStates /\ ClientSound(c, Commands!Ends(c, result), target', claimed')
      BY <1>2, <3>1, CommandEnds
    <3> QED
      BY <1>2, <1>3, <3>1, <3>2, CommandsTold
  <2>2. CASE Commands!AfterDoctor(c, d) = Commands!Goes(c) /\ Len(clients[c].rest) # 1 /\ ~clients[c].reported
    <3>1. Len(clients[c].rest) # 0 /\ Head(clients[c].rest) = "doctor"
      BY <1>1, CommandFields DEF Commands!At
    <3>2. Commands!Goes(c) \in ClientStates /\ ClientSound(c, Commands!Goes(c), target', claimed')
      BY <1>2, <2>2, <3>1, CommandGoes
    <3> QED
      BY <1>2, <1>3, <2>2, <3>2, CommandsTold
  <2> QED
    BY <1>1, <2>1, <2>2, AfterDoctorEnds
<1> QED
  BY <1>1, <1>2, <1>3, CommandRefused

LEMMA StatusKeeps ==
  ASSUME Commands!UsesAreKnown, CommandsInv, NEW c \in Client,
         Commands!Status(c) \/ Commands!Resident(c) \/ Commands!Ask(c) PROVE CommandsInv'
<1>1. PICK call \in {"status", "capabilities", "control", "claim-status", "claim-renew", "workspace-inventory"} :
        /\ Commands!At(c, call) /\ UNCHANGED <<target, claimed>>
        /\ Commands!Told(c, Commands!Onward(c)) \/ Commands!Refused(c)
  BY DEF Commands!Status, Commands!Resident, Commands!Ask, Commands!Fails
<1>2. Onwards /\ Spared(c)
  BY <1>1, OnlyLooking
<1>3. ~clients[c].reported /\ Len(clients[c].rest) # 0 /\ Head(clients[c].rest) # "candidate"
  BY <1>1, NotReported
<1> QED
  BY <1>1, <1>2, <1>3, CommandOnward, CommandRefused

\* A command that says eligible has just seen it.
LEMMA CommandEligible ==
  ASSUME Commands!UsesAreKnown, CommandsInv, NEW c \in Client, UNCHANGED <<target, claimed>>, Commands!Told(c,
         Commands!Ends(c, "eligible")), 
         target.kind # "device", ~clients[c].reported,
         HasClaim(c, clients[c], claimed) => /\ target.power = "off" /\ ~target.owned
                                             /\ target.kind = "linux" => target.credential = "verified"
  PROVE  CommandsInv'
<1> DEFINE k == clients[c]
           q == Commands!Ends(c, "eligible")
<1>1. k \in ClientStates /\ k.reported \in BOOLEAN /\ k.claim \in 0..MaxClaims /\ ClientSound(c, k, target, claimed)
  BY CommandFields
<1>2. <<>> \in CallLists /\ <<>> \in Seq(PlainCalls) /\ Len(<<>>) = 0 /\ "eligible" \in Commands!Results
  BY DEF CallLists, Commands!Results
<1>3. q.op = "none" /\ q.rest = <<>> /\ q.reported = k.reported /\ q.claim = k.claim /\ q.result = "eligible"
  BY <1>1 DEF Commands!Ends, ClientStates
<1>4. q \in ClientStates
  BY <1>1, <1>2 DEF Commands!Ends, ClientStates
<1>5. OnRoute("none", <<>>, target.kind)
  BY <1>2 DEF OnRoute, Commands!Candidates
<1>6. k.claim <= claimed.number /\ HasClaim(c, q, claimed) = HasClaim(c, k, claimed)
  BY <1>1, <1>3 DEF ClientSound, HasClaim
<1>7. ~SawOff(q, target) /\ Len(q.rest) = 0 /\ ~q.reported /\ q.op \in Uses[c] \union {"none"}
  BY <1>2, <1>3 DEF SawOff
<1> HIDE DEF q
<1>8. ClientSound(c, q, target, claimed)
  BY <1>3, <1>5, <1>6, <1>7 DEF ClientSound
<1>9. ClientSound(c, q, target', claimed')
  BY <1>8
<1>a. Onwards /\ Spared(c)
  BY OnlyLooking
<1> QED
  BY <1>4, <1>9, <1>a, CommandsTold DEF q

LEMMA CandidateKeeps ==
  ASSUME Commands!UsesAreKnown, CommandsInv, NEW c \in Client, Commands!Candidate(c)
  PROVE  CommandsInv'
<1>1. UNCHANGED <<target, claimed>> /\ Commands!At(c, "candidate")
  BY DEF Commands!Candidate
<1>2. Onwards /\ Spared(c)
  BY <1>1, OnlyLooking
<1>3. ~clients[c].reported /\ Len(clients[c].rest) # 0 /\ Head(clients[c].rest) = "candidate"
  BY <1>1, NotReported
<1>4. /\ clients[c].op \in Commands!Candidates /\ target.kind # "device"
      /\ Len(clients[c].rest) = 1 => clients[c].op = "prepare-promotion" /\ target.kind # "linux"
  BY <1>1, CandidateCalls
<1>5. CASE Commands!Refused(c)
  BY <1>2, <1>5, CommandRefused
<1>6. CASE Len(clients[c].rest) = 1 /\ ~Commands!Refused(c)
  <2>1. clients[c].op # "validate-candidate" /\ ~(Len(clients[c].rest) > 3) /\ ~(Len(clients[c].rest) > 2)
    BY <1>4, <1>6
  <2>2. Commands!Told(c, Commands!Ends(c, "eligible")) /\ target.power = "off" /\ ~target.owned
    BY <1>6, <2>1 DEF Commands!Candidate, Commands!Fails
  <2> QED
    BY <1>1, <1>3, <1>4, <1>6, <2>2, CommandEligible
<1>7. CASE Len(clients[c].rest) # 1 /\ ~Commands!Refused(c)
  <2>1. Commands!Told(c, Commands!Goes(c))
    BY <1>7 DEF Commands!Candidate, Commands!Fails
  <2>2. clients[c].op = "prepare-promotion" /\ target.kind = "linux" /\ Len(clients[c].rest) = 2 =>
          target.power = "off" /\ ~target.owned
    BY <1>7 DEF Commands!Candidate, Commands!Fails
  <2>3. Commands!Goes(c) \in ClientStates /\ ClientSound(c, Commands!Goes(c), target', claimed')
    BY <1>1, <1>2, <1>3, <1>7, <2>2, CommandGoes
  <2> QED
    BY <1>2, <2>1, <2>3, CommandsTold
<1> QED
  BY <1>5, <1>6, <1>7

LEMMA VerifyKeeps ==
  ASSUME Commands!UsesAreKnown, CommandsInv, NEW c \in Client, Commands!Verify(c) \/ Commands!Credential(c)
  PROVE  CommandsInv'
<1>m. target \in TargetStates /\ claimed \in ClaimStates
  BY DEF CommandsInv
<1>1. CASE Commands!Verify(c) /\ ~Commands!Refused(c)
  <2>1. /\ Commands!At(c, "verify") /\ target.power = "running" /\ Commands!Told(c, Commands!Goes(c)) /\ claimed' = claimed
        /\ target' = [target EXCEPT !.credential = "verified"]
    BY <1>1 DEF Commands!Verify, Commands!Fails
  <2>2. ~clients[c].reported /\ Len(clients[c].rest) # 0 /\ Head(clients[c].rest) = "verify"
    BY <2>1, NotReported
  <2>3. Len(clients[c].rest) # 1
    BY <2>1, CandidateCalls
  <2>4. Onwards /\ Spared(c)
    <3>1. target' \in TargetStates /\ target'.kind = target.kind
      BY <1>m, <2>1 DEF TargetStates
    <3>2. claimed.number \in Nat
      BY <1>m DEF ClaimStates
    <3> QED
      BY <1>m, <2>1, <3>1, <3>2 DEF Onwards, Spared, SparedTo
  <2>5. Commands!Goes(c) \in ClientStates /\ ClientSound(c, Commands!Goes(c), target', claimed')
    BY <2>2, <2>3, <2>4, CommandGoes
  <2> QED
    BY <2>1, <2>4, <2>5, CommandsTold
<1>2. CASE Commands!Refused(c)
  <2>1. /\ UNCHANGED claimed
        /\ UNCHANGED target \/ (Commands!Verify(c) /\ target' = [target EXCEPT !.credential = "verified"])
    BY DEF Commands!Verify, Commands!Credential, Commands!Fails
  <2>2. CASE UNCHANGED target
    <3>1. Onwards /\ Spared(c)
      BY <2>1, <2>2, OnlyLooking
    <3> QED
      BY <3>1, <1>2, CommandRefused
  <2>3. CASE Commands!Verify(c) /\ target' = [target EXCEPT !.credential = "verified"]
    <3>1. target' \in TargetStates /\ target'.kind = target.kind /\ target'.power = target.power
          /\ target'.owned = target.owned /\ target'.credential = "verified"
      BY <1>m, <2>3 DEF TargetStates
    <3>2. claimed.number \in Nat
      BY <1>m DEF ClaimStates
    <3>3. Onwards /\ Spared(c)
      BY <1>m, <2>1, <3>1, <3>2 DEF Onwards, Spared, SparedTo
    <3> QED
      BY <3>3, <1>2, CommandRefused
  <2> QED
    BY <2>1, <2>2, <2>3
<1>3. CASE Commands!Credential(c) /\ ~Commands!Refused(c)
  <2>1. /\ Commands!At(c, "credential") /\ UNCHANGED <<target, claimed>> /\ target.credential = "verified"
        /\ Commands!Told(c, Commands!Ends(c, "eligible"))
    BY <1>3 DEF Commands!Credential, Commands!Fails
  <2>2. ~clients[c].reported
    BY <2>1, NotReported
  <2>3. clients[c].op = "prepare-promotion" /\ target.kind = "linux" /\ Len(clients[c].rest) = 1
    BY <2>1, CandidateCalls
  <2>4. HasClaim(c, clients[c], claimed) => target.power = "off" /\ ~target.owned
    BY <2>3, CommandFields DEF ClientSound, SawOff
  <2> QED
    BY <2>1, <2>2, <2>3, <2>4, CommandEligible
<1> QED
  BY <1>1, <1>2, <1>3

\* What an adapter's command may have made of the machine.
LEMMA EffectsAreMachines ==
  ASSUME NEW call, CommandsInv, target' \in Commands!Effects(call)
  PROVE  target' \in TargetStates /\ target'.kind = target.kind
<1>1. target \in TargetStates
  BY DEF CommandsInv
<1>2. \A power \in Commands!Powers : Commands!Is(power) \in TargetStates /\ Commands!Is(power).kind = target.kind
  BY <1>1 DEF Commands!Is, TargetStates
<1>3. {"off", "starting", "suspended"} \subseteq Commands!Powers
  BY DEF Commands!Powers
<1>4. [target EXCEPT !.stopping = TRUE] \in TargetStates /\ [target EXCEPT !.stopping = TRUE].kind = target.kind
  BY <1>1 DEF TargetStates
<1>5. /\ [target EXCEPT !.credential = "stored"] \in TargetStates
      /\ [target EXCEPT !.credential = "stored"].kind = target.kind
  BY <1>1 DEF TargetStates
<1>6. target' \in {target, Commands!Is("off"), Commands!Is("starting"), Commands!Is("suspended"),
                    [target EXCEPT !.stopping = TRUE], [target EXCEPT !.credential = "stored"]}
  BY DEF Commands!Effects
<1> QED
  BY <1>1, <1>2, <1>3, <1>4, <1>5, <1>6

\* Only the holder of the claim changes the machine.
LEMMA GuardSpares ==
  ASSUME Commands!UsesAreKnown, CommandsInv, NEW c \in Client, NEW class, NEW call, Commands!Guard(c, class),
         target' \in Commands!Effects(call), UNCHANGED claimed
  PROVE  Onwards /\ Spared(c)
<1>1. target' \in TargetStates /\ target'.kind = target.kind
  BY EffectsAreMachines
<1>2. claimed \in ClaimStates /\ claimed.number \in Nat
  BY DEF CommandsInv, ClaimStates
<1>3. target.kind # "device" => claimed.holder = c
  BY DEF Commands!Guard, Commands!Holds, Commands!ClaimsRequired, Commands!IsDevice
<1> QED
  BY <1>1, <1>2, <1>3 DEF Onwards, Spared, SparedTo, HasClaim

LEMMA ActKeeps == ASSUME Commands!UsesAreKnown, CommandsInv, NEW c \in Client, Commands!Act(c) PROVE CommandsInv'
<1>1. PICK call \in Commands!Lifecycle :
        /\ Commands!At(c, call) /\ UNCHANGED claimed
        /\ \/ Commands!Guard(c, "ordinary") /\ target' \in Commands!Effects(call)
           \/ UNCHANGED target
        /\ \/ Commands!Told(c, Commands!Onward(c))
           \/ clients[c].op = "ensure-ready" /\ Commands!Told(c, [Commands!Goes(c) EXCEPT !.reported = TRUE])
           \/ Commands!Refused(c)
  BY DEF Commands!Act, Commands!Fails
<1>2. Onwards /\ Spared(c)
  BY <1>1, GuardSpares, OnlyLooking
<1>3. /\ ~clients[c].reported /\ Len(clients[c].rest) # 0 /\ Head(clients[c].rest) = call /\ call # "candidate"
      /\ call # "doctor"
  BY <1>1, NotReported DEF Commands!Lifecycle
<1>4. CASE clients[c].op = "ensure-ready" /\ Commands!Told(c, [Commands!Goes(c) EXCEPT !.reported = TRUE])
  <2> DEFINE g == Commands!Goes(c)
             q == [g EXCEPT !.reported = TRUE]
  <2>1. clients[c].rest \in Readying
    BY <1>4, CommandFields DEF ClientSound, OnRoute
  <2>2. Len(clients[c].rest) = 2 /\ Len(Tail(clients[c].rest)) = 1
    BY <1>1, <1>3, <2>1, ReadyingLeads DEF Commands!Lifecycle
  <2>3. /\ g \in ClientStates /\ ClientSound(c, g, target', claimed')
        /\ g.op = "ensure-ready" /\ g.rest = Tail(clients[c].rest)
    BY <1>2, <1>3, <1>4, <2>2, CommandGoes
  <2>4. q \in ClientStates
    <3> DEFINE T == CallLists
    <3>1. g \in [op : Commands!Operations \union {"none"}, rest : T,
                 reported : BOOLEAN, claim : 0..MaxClaims, result : Commands!Results]
      BY <2>3 DEF ClientStates
    <3> HIDE DEF T, g
    <3>2. q \in [op : Commands!Operations \union {"none"}, rest : T,
                 reported : BOOLEAN, claim : 0..MaxClaims, result : Commands!Results]
      BY <3>1
    <3> QED
      BY <3>2 DEF ClientStates, T
  <2>5. q.op = g.op /\ q.rest = g.rest /\ q.claim = g.claim /\ q.result = g.result
    BY <2>3 DEF ClientStates
  <2> HIDE DEF q, g
  <2>6. ClientSound(c, q, target', claimed')
    BY <2>2, <2>3, <2>5 DEF ClientSound, HasClaim, SawOff
  <2> QED
    BY <1>2, <1>4, <2>4, <2>6, CommandsTold DEF q, g
<1> QED
  BY <1>1, <1>2, <1>3, <1>4, CommandOnward, CommandRefused

LEMMA EscapeKeeps ==
  ASSUME Commands!UsesAreKnown, CommandsInv, NEW c \in Client, Commands!Escape(c)
  PROVE  CommandsInv'
<1>1. PICK call \in {"testbed", "testbed-input"} :
        /\ Commands!At(c, call) /\ UNCHANGED claimed
        /\ \/ Commands!Guard(c, Commands!UseClass(call)) /\ target' \in Commands!Effects(call)
           \/ UNCHANGED target
        /\ Commands!Told(c, Commands!Onward(c)) \/ Commands!Refused(c)
  BY DEF Commands!Escape, Commands!Fails
<1>2. Onwards /\ Spared(c)
  BY <1>1, GuardSpares, OnlyLooking
<1>3. ~clients[c].reported /\ Len(clients[c].rest) # 0 /\ Head(clients[c].rest) # "candidate"
  BY <1>1, NotReported
<1> QED
  BY <1>1, <1>2, <1>3, CommandOnward, CommandRefused

LEMMA MaintainKeeps ==
  ASSUME Commands!UsesAreKnown, CommandsInv, NEW c \in Client, Commands!Maintain(c)
  PROVE  CommandsInv'
<1>1. PICK op \in Commands!Maintenance :
        /\ Commands!At(c, op) /\ UNCHANGED claimed
        /\ IF Commands!Guard(c, "ordinary") THEN target' \in Commands!Effects(op) ELSE UNCHANGED target
        /\ \/ \E healthy \in BOOLEAN : Commands!Told(c, Commands!Ends(c, IF healthy THEN "healthy" ELSE "unhealthy"))
           \/ Commands!Refused(c)
  BY DEF Commands!Maintain, Commands!Fails
<1>2. Onwards /\ Spared(c)
  BY <1>1, GuardSpares, OnlyLooking
<1>3. ~clients[c].reported
  BY <1>1, NotReported DEF Commands!Maintenance
<1>4. ASSUME NEW healthy \in BOOLEAN, Commands!Told(c, Commands!Ends(c,
             IF healthy THEN "healthy" ELSE "unhealthy")) PROVE CommandsInv'
  <2> DEFINE result == IF healthy THEN "healthy" ELSE "unhealthy"
  <2>1. result \in Commands!Results \ {"eligible"}
    BY DEF Commands!Results
  <2> HIDE DEF result
  <2>2. Commands!Ends(c, result) \in ClientStates /\ ClientSound(c, Commands!Ends(c, result), target', claimed')
    BY <1>2, <1>3, <2>1, CommandEnds
  <2> QED
    BY <1>2, <1>4, <2>2, CommandsTold DEF result
<1> QED
  BY <1>1, <1>2, <1>4, CommandRefused

\* A new claim is nobody else's; one that ended is nobody's.
LEMMA NewClaimSpares ==
  ASSUME Commands!UsesAreKnown, CommandsInv, NEW c \in Client, NEW class \in {"ordinary", "disruptive"},
         Commands!NewClaim(c, class), 
         target' \in TargetStates, target'.kind = target.kind
  PROVE  Onwards /\ Spared(c) /\ claimed'.number \in 0..MaxClaims /\ claimed'.number = claimed.number + 1
<1>1. claimed.number \in Nat /\ claimed.number < MaxClaims /\ MaxClaims \in Nat /\ ~claimed.live
  BY DEF CommandsInv, ClaimStates, Commands!NewClaim, Commands!UsesAreKnown
<1>2. claimed' = [number |-> claimed.number + 1, holder |-> c, class |-> class, live |-> TRUE]
  BY DEF Commands!NewClaim
<1>3. claimed.number + 1 \in 0..MaxClaims
  BY <1>1
<1>4. claimed' \in ClaimStates
  BY <1>2, <1>3 DEF ClaimStates
<1> QED
  BY <1>1, <1>2, <1>3, <1>4 DEF Onwards, Spared, SparedTo, HasClaim

LEMMA CommandAcquired ==
  ASSUME Commands!UsesAreKnown, CommandsInv, NEW c \in Client, Commands!Acquired(c), Onwards, Spared(c),
         claimed'.number \in 0..MaxClaims, 
         ~clients[c].reported
  PROVE  CommandsInv'
<1>1. CASE Commands!Refused(c)
  BY <1>1, CommandRefused
<1>2. CASE Commands!Told(c, [Commands!Ends(c, "done") EXCEPT !.claim = claimed'.number])
  <2> DEFINE g == Commands!Ends(c, "done")
             q == [g EXCEPT !.claim = claimed'.number]
  <2>1. "done" \in Commands!Results \ {"eligible"}
    BY DEF Commands!Results
  <2>2. g \in ClientStates /\ ClientSound(c, g, target', claimed')
    BY <2>1, CommandEnds
  <2>3. g.result = "done" /\ g.op = "none"
    BY CommandFields DEF Commands!Ends, ClientStates
  <2> HIDE DEF g
  <2>4. q \in ClientStates /\ q.op = g.op /\ q.rest = g.rest /\ q.reported = g.reported /\ q.result = g.result
        /\ q.claim = claimed'.number
    <3> DEFINE T == CallLists
    <3>1. g \in [op : Commands!Operations \union {"none"}, rest : T,
                 reported : BOOLEAN, claim : 0..MaxClaims, result : Commands!Results]
      BY <2>2 DEF ClientStates
    <3> HIDE DEF T
    <3>2. q \in [op : Commands!Operations \union {"none"}, rest : T,
                 reported : BOOLEAN, claim : 0..MaxClaims, result : Commands!Results]
          /\ q.op = g.op /\ q.rest = g.rest /\ q.reported = g.reported /\ q.result = g.result
          /\ q.claim = claimed'.number
      BY <3>1
    <3> QED
      BY <3>2 DEF ClientStates, T
  <2> HIDE DEF q
  <2>5. q.claim <= claimed'.number
    BY <2>4
  <2>6. ClientSound(c, q, target', claimed')
    BY <2>2, <2>3, <2>4, <2>5 DEF ClientSound, SawOff
  <2> QED
    BY <1>2, <2>4, <2>6, CommandsTold DEF q, g
<1> QED
  BY <1>1, <1>2 DEF Commands!Acquired, Commands!Fails

LEMMA AcquireKeeps ==
  ASSUME Commands!UsesAreKnown, CommandsInv, NEW c \in Client,
         Commands!Acquire(c) \/ Commands!AcquireWorkspace(c) PROVE CommandsInv'
<1>1. PICK class \in {"ordinary", "disruptive"},
           call \in {"claim-acquire", "claim-acquire-disruptive", "workspace-acquire"} :
        /\ Commands!At(c, call)
        /\ \/ /\ target' = target \/ target' = [target EXCEPT !.owned = TRUE]
              /\ Commands!NewClaim(c, class) /\ Commands!Acquired(c)
           \/ UNCHANGED <<target, claimed>> /\ Commands!Refused(c)
  <2>1. CASE Commands!Acquire(c)
    <3>1. PICK class \in {"ordinary", "disruptive"} :
            /\ Commands!At(c, IF class = "ordinary" THEN "claim-acquire" ELSE "claim-acquire-disruptive")
            /\ UNCHANGED target
            /\ \/ Commands!NewClaim(c, class) /\ Commands!Acquired(c)
               \/ UNCHANGED claimed /\ Commands!Fails(c)
      BY <2>1, Zenon DEF Commands!Acquire
    <3>2. CASE class = "ordinary"
      BY <3>1, <3>2 DEF Commands!Fails
    <3>3. CASE class # "ordinary"
      BY <3>1, <3>3 DEF Commands!Fails
    <3> QED
      BY <3>2, <3>3
  <2>2. CASE Commands!AcquireWorkspace(c)
    BY <2>2 DEF Commands!AcquireWorkspace, Commands!Fails
  <2> QED
    BY <2>1, <2>2
<1>2. ~clients[c].reported
  BY <1>1, NotReported
<1>3. CASE UNCHANGED <<target, claimed>> /\ Commands!Refused(c)
  BY <1>3, OnlyLooking, CommandRefused
<1>4. CASE /\ target' = target \/ target' = [target EXCEPT !.owned = TRUE]
           /\ Commands!NewClaim(c, class) /\ Commands!Acquired(c)
  <2>1. target' \in TargetStates /\ target'.kind = target.kind
    BY <1>4 DEF CommandsInv, TargetStates
  <2>2. Onwards /\ Spared(c) /\ claimed'.number \in 0..MaxClaims
    BY <1>4, <2>1, NewClaimSpares
  <2> QED
    BY <1>2, <1>4, <2>2, CommandAcquired
<1> QED
  BY <1>1, <1>3, <1>4

LEMMA ReleaseKeeps ==
  ASSUME Commands!UsesAreKnown, CommandsInv, NEW c \in Client,
         Commands!Release(c) \/ Commands!ReleaseWorkspace(c) PROVE CommandsInv'
<1>0. target \in TargetStates /\ claimed \in ClaimStates /\ claimed.number \in Nat /\ claimed.live \in BOOLEAN
  BY DEF CommandsInv, ClaimStates
<1>1. PICK call \in {"claim-release", "workspace-release"} :
        /\ Commands!At(c, call) /\ (Commands!Told(c, Commands!Onward(c)) \/ Commands!Refused(c))
        /\ \/ /\ UNCHANGED target
              /\ claimed' = [claimed EXCEPT !.live = claimed.live /\ clients[c].claim # claimed.number]
           \/ target' = [target EXCEPT !.owned = FALSE] /\ claimed' = [claimed EXCEPT !.live = FALSE]
           \/ UNCHANGED <<target, claimed>>
  BY DEF Commands!Release, Commands!ReleaseWorkspace, Commands!Fails
<1>2. ~clients[c].reported /\ Len(clients[c].rest) # 0 /\ Head(clients[c].rest) # "candidate"
  BY <1>1, NotReported
<1>3. Onwards /\ Spared(c)
  <2>1. target' \in TargetStates /\ target'.kind = target.kind
    BY <1>0, <1>1 DEF TargetStates
  <2>2. claimed' \in ClaimStates /\ claimed'.number = claimed.number /\ claimed'.holder = claimed.holder
        /\ (claimed'.live => claimed.live /\ target' = target)
    BY <1>0, <1>1 DEF ClaimStates
  <2> QED
    BY <1>0, <2>1, <2>2 DEF Onwards, Spared, SparedTo, HasClaim
<1> QED
  BY <1>1, <1>2, <1>3, CommandOnward, CommandRefused

LEMMA UpToSeven == ASSUME NEW n \in 1..7 PROVE n <= 7
  OBVIOUS

LEMMA PlainIsText == Seq(PlainCalls) \subseteq CallLists /\ Seq(RouteCalls) \subseteq CallLists
  BY DEF CallNames, CallLists

\* What a command that is allowed has before it.
LEMMA CommandCalls ==
  ASSUME NEW op \in Commands!Operations, Commands!Allowed(op)
  PROVE  /\ Commands!Calls(op) \in CallLists /\ OnRoute(op, Commands!Calls(op), target.kind)
         /\ op \in Commands!Candidates => target.kind # "device" /\ Len(Commands!Calls(op)) # 1
<1>1. CASE op = "prepare-promotion"
  <2>1. target.kind # "device"
    BY <1>1 DEF Commands!Allowed, Commands!IsDevice, Commands!Candidates, Commands!Lifecycle
  <2>2. Commands!Calls(op) = <<"check">> \o Commands!HandleCandidate(op)
    BY <1>1, <2>1 DEF Commands!Calls, Commands!RequiresClaim, Commands!ClaimsRequired, Commands!IsDevice,
       Commands!Script, Commands!Observing, Commands!Claims, Commands!Workspaces, Commands!Candidates,
       Commands!Lifecycle
  <2>3. CASE target.kind = "linux"
    <3>1. Commands!HandleCandidate(op)
            = <<"candidate", "doctor">> \o <<"verify">> \o <<"shutdown", "candidate">> \o <<"credential">>
      BY <1>1, <2>3 DEF Commands!HandleCandidate
    <3>2. Commands!Calls(op) \in LinuxPromotion
      BY <2>2, <3>1, LinuxCalls DEF LinuxPromotion
    <3>3. Len(Commands!Calls(op)) = 7
      BY <2>2, <3>1, LinuxCalls
    <3>8. Commands!Calls(op) \in CallLists
      BY <3>2, LinuxPromotionIsText, PlainIsText
    <3>9. OnRoute(op, Commands!Calls(op), target.kind)
      BY <1>1, <2>3, <3>2, Zenon DEF OnRoute, Commands!Candidates
    <3> QED
      BY <2>1, <3>3, <3>8, <3>9
  <2>4. CASE target.kind # "linux"
    <3>1. Commands!HandleCandidate(op) = <<"candidate", "doctor">> \o <<>> \o <<"shutdown", "candidate">> \o <<>>
      BY <1>1, <2>4 DEF Commands!HandleCandidate
    <3>2. <<"candidate", "doctor">> \o <<>> \o <<"shutdown", "candidate">> \o <<>>
            = <<"candidate", "doctor", "shutdown", "candidate">>
      <4>1. /\ <<"candidate", "doctor">> \in Seq(RouteCalls)
            /\ <<"candidate", "doctor", "shutdown", "candidate">> \in Seq(RouteCalls)
        BY DEF RouteCalls
      <4>2. <<"candidate", "doctor">> \o <<>> = <<"candidate", "doctor">>
        BY <4>1, ConcatEmptySeq
      <4>3. <<"candidate", "doctor">> \o <<"shutdown", "candidate">>
              = <<"candidate", "doctor", "shutdown", "candidate">>
        BY TwoAndTwo
      <4>4. <<"candidate", "doctor", "shutdown", "candidate">> \o <<>>
              = <<"candidate", "doctor", "shutdown", "candidate">>
        BY <4>1, ConcatEmptySeq
      <4> QED
        BY <4>2, <4>3, <4>4
    <3>3. <<"check">> \o <<"candidate", "doctor", "shutdown", "candidate">>
            = <<"check", "candidate", "doctor", "shutdown", "candidate">>
      BY OneAndFour
    <3>4. Commands!Calls(op) = <<"check", "candidate", "doctor", "shutdown", "candidate">>
      BY <2>2, <3>1, <3>2, <3>3
    <3>5. Commands!Calls(op) \in Promotion
      BY <3>4 DEF Promotion
    <3>6. Len(Commands!Calls(op)) = 5
      BY <3>4
    <3>8. Commands!Calls(op) \in CallLists
      BY <3>5, PromotionIsText, PlainIsText
    <3>9. OnRoute(op, Commands!Calls(op), target.kind)
      BY <1>1, <2>4, <3>5, Zenon DEF OnRoute, Commands!Candidates
    <3> QED
      BY <2>1, <3>6, <3>8, <3>9
  <2> QED
    BY <2>3, <2>4
<1>2. CASE op = "validate-candidate"
  <2>1. target.kind # "device"
    BY <1>2 DEF Commands!Allowed, Commands!IsDevice, Commands!Candidates, Commands!Lifecycle
  <2>2. Commands!Calls(op) = <<"check">> \o <<"candidate", "doctor">>
    BY <1>2, <2>1 DEF Commands!Calls, Commands!RequiresClaim, Commands!ClaimsRequired, Commands!IsDevice,
       Commands!Script, Commands!Observing, Commands!Claims, Commands!Workspaces, Commands!Candidates,
       Commands!Lifecycle, Commands!HandleCandidate
  <2>3. Commands!Calls(op) = <<"check", "candidate", "doctor">>
    BY <2>2, OneAndTwo
  <2>4. Commands!Calls(op) \in Validation /\ Len(Commands!Calls(op)) = 3
    BY <2>3 DEF Validation
  <2> QED
    BY <1>2, <2>1, <2>4, ValidationIsText DEF OnRoute, CallLists, CallNames, Commands!Candidates
<1>3. CASE op = "ensure-ready"
  <2>1. target.kind # "device"
    BY <1>3 DEF Commands!Allowed, Commands!IsDevice, Commands!Candidates, Commands!Lifecycle
  <2>2. Commands!Calls(op) = <<"check">> \o <<"doctor", "up", "doctor">>
    BY <1>3, <2>1 DEF Commands!Calls, Commands!RequiresClaim, Commands!ClaimsRequired, Commands!IsDevice,
       Commands!Script, Commands!Observing, Commands!Claims, Commands!Workspaces, Commands!Candidates,
       Commands!Lifecycle, Commands!EnsureReady
  <2>3. Commands!Calls(op) = <<"check", "doctor", "up", "doctor">>
    BY <2>2, OneAndThree
  <2>4. Commands!Calls(op) \in Readying
    BY <2>3 DEF Readying
  <2> QED
    BY <1>3, <2>4, ReadyingIsText DEF OnRoute, CallLists, CallNames, Commands!Candidates
<1>4. CASE op \notin Commands!Candidates \union {"ensure-ready"}
  <2> DEFINE p == IF Commands!RequiresClaim(op) /\ Commands!ClaimsRequired THEN <<"check">> ELSE <<>>
  <2>1. {"check", "control", "doctor", "status", "capabilities", op} \subseteq PlainCalls
    BY DEF PlainCalls, Commands!Operations, Commands!Observing
  <2>2. Commands!Script(op) \in {<<"doctor", op, "doctor">>, <<"doctor", op, "status">>, <<op, "status">>, <<"status">>,
                        <<"doctor">>, <<"capabilities", "control">>, <<"control">>, <<op>>}
    BY <1>4 DEF Commands!Script, Commands!HandleTarget
  <2>3. Commands!Script(op) \in Seq(PlainCalls) /\ Len(Commands!Script(op)) <= 3
    <3>1. /\ <<"doctor", op, "doctor">> \in Seq(PlainCalls) /\ <<"doctor", op, "status">> \in Seq(PlainCalls)
          /\ <<op, "status">> \in Seq(PlainCalls) /\ <<"status">> \in Seq(PlainCalls) /\ <<"doctor">> \in Seq(PlainCalls)
          /\ <<"capabilities", "control">> \in Seq(PlainCalls) /\ <<"control">> \in Seq(PlainCalls) /\ <<op>> \in Seq(PlainCalls)
      BY <2>1
    <3>2. /\ Len(<<"doctor", op, "doctor">>) = 3 /\ Len(<<"doctor", op, "status">>) = 3 /\ Len(<<op, "status">>) = 2
          /\ Len(<<"status">>) = 1 /\ Len(<<"doctor">>) = 1 /\ Len(<<"capabilities", "control">>) = 2
          /\ Len(<<"control">>) = 1 /\ Len(<<op>>) = 1
      OBVIOUS
    <3> DEFINE a == <<"doctor", op, "doctor">>
               b == <<"doctor", op, "status">>
               c == <<op, "status">>
               d == <<"status">>
               e == <<"doctor">>
               f == <<"capabilities", "control">>
               g == <<"control">>
               h == <<op>>
    <3> HIDE DEF a, b, c, d, e, f, g, h
    <3>3. Commands!Script(op) \in {a, b, c, d, e, f, g, h}
      BY <2>2 DEF a, b, c, d, e, f, g, h
    <3>4. \A r \in {a, b, c, d, e, f, g, h} : r \in Seq(PlainCalls)
      BY <3>1, Zenon DEF a, b, c, d, e, f, g, h
    <3>5. Len(a) = 3 /\ Len(b) = 3 /\ Len(c) = 2 /\ Len(d) = 1 /\ Len(e) = 1 /\ Len(f) = 2 /\ Len(g) = 1 /\ Len(h) = 1
      BY <3>2, Zenon DEF a, b, c, d, e, f, g, h
    <3>6. Len(Commands!Script(op)) \in {1, 2, 3}
      BY <3>3, <3>5, Zenon
    <3>7. \A n \in {1, 2, 3} : n <= 3
      OBVIOUS
    <3>8. Len(Commands!Script(op)) <= 3
      BY <3>6, <3>7, Zenon
    <3> QED
      BY <3>3, <3>4, <3>8
  <2>4. p \in Seq(PlainCalls) /\ Len(p) <= 1 /\ Len(p) \in Nat
    BY <2>1
  <2>5. Commands!Calls(op) = p \o Commands!Script(op)
    BY DEF Commands!Calls
  <2> HIDE DEF p
  <2>6. Commands!Calls(op) \in Seq(PlainCalls) /\ Len(Commands!Calls(op)) = Len(p) + Len(Commands!Script(op))
    BY <2>3, <2>4, <2>5, ConcatProperties
  <2>7. Len(Commands!Script(op)) \in Nat
    BY <2>3
  <2>8. Len(Commands!Calls(op)) <= 4
    BY <2>3, <2>4, <2>6, <2>7
  <2>9. Commands!Calls(op) \in CallLists
    BY <2>6, PlainIsText
  <2> HIDE DEF p
  <2> QED
    BY <1>4, <2>6, <2>8, <2>9 DEF OnRoute, Commands!Candidates
<1> QED
  BY <1>1, <1>2, <1>3, <1>4 DEF Commands!Candidates

LEMMA StartKeeps == ASSUME Commands!UsesAreKnown, CommandsInv, NEW c \in Client, Commands!Start(c) PROVE CommandsInv'
<1>1. PICK op \in Uses[c] :
        /\ Commands!Allowed(op) /\ clients[c].rest = <<>> /\ UNCHANGED <<target, claimed>>
        /\ Commands!Told(c, [Commands!Idle EXCEPT !.op = op, !.rest = Commands!Calls(op), !.claim = clients[c].claim])
  BY DEF Commands!Start, Commands!Told
<1>2. op \in Commands!Operations /\ op # "none"
  BY DEF Commands!UsesAreKnown, Commands!Operations, Commands!Lifecycle, Commands!Observing, Commands!Maintenance,
     Commands!Claims, Commands!Workspaces, Commands!Candidates
<1>3. Onwards /\ Spared(c)
  BY <1>1, OnlyLooking
<1> DEFINE t == Commands!Calls(op)
           n == clients[c].claim
           q == [Commands!Idle EXCEPT !.op = op, !.rest = t, !.claim = n]
<1>4. /\ t \in CallLists /\ OnRoute(op, t, target.kind)
      /\ op \in Commands!Candidates => target.kind # "device" /\ Len(t) # 1
  BY <1>1, <1>2, CommandCalls
<1>5. n \in 0..MaxClaims /\ n <= claimed.number
  BY CommandFields DEF ClientSound
<1> HIDE DEF t, n
<1>6. q \in ClientStates /\ q.op = op /\ q.rest = t /\ q.reported = FALSE /\ q.claim = n /\ q.result = "none"
  <2> DEFINE O == Commands!Operations \union {"none"}
             T == CallLists
             N == 0..MaxClaims
  <2>1. <<>> \in T /\ 0 \in N /\ "none" \in Commands!Results /\ "none" \in O
    BY DEF Commands!Results, Commands!UsesAreKnown, CallLists
  <2>2. Commands!Idle \in [op : O, rest : T, reported : BOOLEAN, claim : N, result : Commands!Results]
        /\ Commands!Idle.reported = FALSE /\ Commands!Idle.result = "none"
    BY <2>1 DEF Commands!Idle
  <2>3. op \in O /\ t \in T /\ n \in N
    BY <1>2, <1>4, <1>5
  <2> HIDE DEF O, T, N
  <2>4. q \in [op : O, rest : T, reported : BOOLEAN, claim : N, result : Commands!Results]
        /\ q.op = op /\ q.rest = t /\ q.reported = FALSE /\ q.claim = n /\ q.result = "none"
    BY <2>2, <2>3
  <2> QED
    BY <2>4 DEF O, T, N, ClientStates
<1> HIDE DEF q
<1>9. ~SawOff(q, target)
  BY <1>4, <1>6 DEF SawOff, Commands!Candidates
<1>a. ClientSound(c, q, target, claimed)
  BY <1>1, <1>4, <1>5, <1>6, <1>9 DEF ClientSound
<1>b. ClientSound(c, q, target', claimed')
  BY <1>1, <1>a
<1> QED
  BY <1>1, <1>3, <1>6, <1>b, CommandsTold DEF q, t, n

\* Steps of no client: a machine that is off stays off by itself, and a claim
\* that ran out is nobody's.
LEMMA MachineKeeps == ASSUME Commands!UsesAreKnown, CommandsInv, Commands!Machine \/ Commands!Lapse PROVE CommandsInv'
<1>0. target \in TargetStates /\ claimed \in ClaimStates /\ claimed.number \in Nat /\ clients' = clients
  BY DEF CommandsInv, ClaimStates, Commands!Machine, Commands!Lapse
<1>1. CASE Commands!Machine
  <2>1. target' \in TargetStates /\ target'.kind = target.kind /\ target'.owned = target.owned
        /\ target'.credential = target.credential
    BY <1>0, <1>1 DEF Commands!Machine, TargetStates, Commands!Is, Commands!Powers
  <2>2. target.power = "off" => target'.power = "off"
    BY <1>0, <1>1 DEF Commands!Machine, TargetStates, Commands!Is, Commands!Powers
  <2>3. claimed' = claimed
    BY <1>1 DEF Commands!Machine
  <2>4. Onwards /\ \A d \in Client : SparedTo(d)
    BY <1>0, <2>1, <2>2, <2>3 DEF Onwards, SparedTo, HasClaim
  <2>5. \A d \in Client : ClientSound(d, clients[d], target', claimed')
    BY <2>4, CommandKept
  <2> QED
    BY <1>0, <2>4, <2>5 DEF CommandsInv, Onwards
<1>2. CASE Commands!Lapse
  <2>1. claimed' \in ClaimStates /\ claimed'.number = claimed.number /\ claimed'.live = FALSE /\ target' = target
    BY <1>0, <1>2 DEF Commands!Lapse, ClaimStates
  <2>2. Onwards /\ \A d \in Client : SparedTo(d)
    BY <1>0, <2>1 DEF Onwards, SparedTo, HasClaim
  <2>3. \A d \in Client : ClientSound(d, clients[d], target', claimed')
    BY <2>2, CommandKept
  <2> QED
    BY <1>0, <2>2, <2>3 DEF CommandsInv, Onwards
<1> QED
  BY <1>1, <1>2

LEMMA CommandsStart == ASSUME Commands!UsesAreKnown, Commands!CommandsInit PROVE CommandsInv
<1>1. target \in TargetStates
  BY DEF Commands!CommandsInit, TargetStates, Commands!Powers
<1>2. claimed = [number |-> 0, holder |-> CHOOSE c \in Client : TRUE, class |-> "ordinary", live |-> FALSE]
  BY DEF Commands!CommandsInit
<1>3. (CHOOSE c \in Client : TRUE) \in Client /\ 0 \in 0..MaxClaims
  BY DEF Commands!UsesAreKnown
<1>4. claimed \in ClaimStates
  BY <1>2, <1>3 DEF ClaimStates
<1>5. <<>> \in CallLists /\ <<>> \in Seq(PlainCalls) /\ Len(<<>>) = 0
  BY DEF CallLists
<1>6. /\ Commands!Idle \in ClientStates /\ Commands!Idle.op = "none" /\ Commands!Idle.rest = <<>>
      /\ Commands!Idle.reported = FALSE /\ Commands!Idle.claim = 0 /\ Commands!Idle.result = "none"
  BY <1>3, <1>5 DEF Commands!Idle, ClientStates, Commands!Results
<1>7. clients = [c \in Client |-> Commands!Idle]
  BY DEF Commands!CommandsInit
<1>8. ~SawOff(Commands!Idle, target) /\ OnRoute("none", <<>>, target.kind)
  BY <1>5, <1>6 DEF SawOff, OnRoute, Commands!Candidates
<1>9. ASSUME NEW c \in Client PROVE ClientSound(c, Commands!Idle, target, claimed)
  BY <1>2, <1>5, <1>6, <1>8 DEF ClientSound, HasClaim, Commands!Candidates
<1> QED
  BY <1>1, <1>4, <1>6, <1>7, <1>9 DEF CommandsInv

LEMMA CommandsStep ==
  ASSUME Commands!UsesAreKnown, CommandsInv, [Commands!CommandsNext]_(Commands!clientVars) PROVE CommandsInv'
<1>1. ASSUME NEW c \in Client, Commands!Command(c) PROVE CommandsInv'
  BY <1>1, StartKeeps, CheckKeeps, DoctorKeeps, StatusKeeps, CandidateKeeps, VerifyKeeps, ActKeeps, EscapeKeeps,
     MaintainKeeps, AcquireKeeps, ReleaseKeeps DEF Commands!Command
<1>2. CASE UNCHANGED Commands!clientVars
  <2>1. target' = target /\ claimed' = claimed /\ clients' = clients
    BY <1>2 DEF Commands!clientVars
  <2> QED
    BY <2>1 DEF CommandsInv
<1> QED
  BY <1>1, <1>2, MachineKeeps DEF Commands!CommandsNext

LEMMA CommandsMean ==
  ASSUME Commands!UsesAreKnown, CommandsInv
  PROVE  Commands!CommandsTypeOK /\ Commands!EligibleIsHandedOff /\ Commands!FailureIsTold
<1>1. target \in TargetStates /\ claimed \in ClaimStates
  BY DEF CommandsInv
<1>2. ASSUME NEW c \in Client
      PROVE  /\ clients[c].op \in Uses[c] \union {"none"} /\ Len(clients[c].rest) <= 7
             /\ clients[c].claim \in 0..MaxClaims /\ clients[c].result \in Commands!Results
  <2>1. ClientSound(c, clients[c], target, claimed)
    BY CommandFields
  <2>2. OnRoute(clients[c].op, clients[c].rest, target.kind) /\ Len(clients[c].rest) \in Nat
    BY <2>1, CommandFields DEF ClientSound
  <2>3. Len(clients[c].rest) <= 7
    <3>1. /\ \A r \in LinuxPromotion : Len(r) <= 7
          /\ \A r \in Promotion : Len(r) <= 7
          /\ \A r \in Validation : Len(r) <= 7
          /\ \A r \in Readying : Len(r) <= 7
      <4>1. \A r \in LinuxPromotion : Len(r) <= 7
        BY LinuxPromotionLeads, UpToSeven, Zenon
      <4>2. \A r \in Promotion : Len(r) <= 7
        BY PromotionLeads, UpToSeven, Zenon
      <4>3. \A r \in Validation : Len(r) <= 7
        BY ValidationLeads, UpToSeven, Zenon
      <4>4. \A r \in Readying : Len(r) <= 7
        BY ReadyingLeads, UpToSeven, Zenon
      <4> QED
        BY <4>1, <4>2, <4>3, <4>4
    <3>2. CASE clients[c].op \in Commands!Candidates \union {"ensure-ready"}
      BY <2>2, <3>1, <3>2 DEF OnRoute, Commands!Candidates
    <3>3. CASE clients[c].op \notin Commands!Candidates \union {"ensure-ready"}
      BY <2>2, <3>3 DEF OnRoute
    <3> QED
      BY <3>2, <3>3
  <2> QED
    BY <2>1, <2>3, CommandFields DEF ClientSound
<1>3. Commands!CommandsTypeOK
  BY <1>1, <1>2 DEF Commands!CommandsTypeOK, TargetStates, ClaimStates
<1>4. Commands!EligibleIsHandedOff
  BY CommandFields DEF Commands!EligibleIsHandedOff, ClientSound, Commands!Holds, HasClaim
<1>5. ASSUME NEW c \in Client, clients[c].reported, clients[c].rest = <<>> PROVE clients[c].result \in Uncertain
  <2>1. ClientSound(c, clients[c], target, claimed) /\ Len(clients[c].rest) = 0
    BY <1>5, CommandFields
  <2> QED
    BY <1>5, <2>1 DEF ClientSound
<1>6. Commands!FailureIsTold
  BY <1>5 DEF Commands!FailureIsTold, Uncertain
<1> QED
  BY <1>3, <1>4, <1>6

\* What is reported eligible is off, owned by no workspace and has its credential
\* verified as long as the claim lasts, and a start that failed is never reported
\* as a plain success; for any number of operators and whatever commands they use
\* (machine_control.py).
THEOREM CommandsPassOn ==
  ASSUME Commands!UsesAreKnown
  PROVE  Commands!CommandsSpec => [](Commands!CommandsTypeOK /\ Commands!EligibleIsHandedOff /\ Commands!FailureIsTold)
<1>1. Commands!CommandsInit => CommandsInv
  BY CommandsStart
<1>2. CommandsInv /\ [Commands!CommandsNext]_(Commands!clientVars) => CommandsInv'
  BY CommandsStep
<1>3. CommandsInv => Commands!CommandsTypeOK /\ Commands!EligibleIsHandedOff /\ Commands!FailureIsTold
  BY CommandsMean
<1> QED
  BY <1>1, <1>2, <1>3, PTL DEF Commands!CommandsSpec

-----------------------------------------------------------------------------
(* The numbers of the elements.                                            *)

\* The finite sets of the component are those of the library.
LEMMA NumbersCounts == \A S : (Numbers!IsFiniteSet(S) <=> IsFiniteSet(S)) /\ Numbers!Cardinality(S) = Cardinality(S)
BY DEF Numbers!IsFiniteSet, IsFiniteSet, Numbers!Cardinality, Cardinality

\* A line of a text; lines are apart when no two have one number.
ALine == [number : Nat, element : Element, value : Value]
Apart(s) == \A i, j \in Numbers!Places(s) : s[i].number = s[j].number => i = j

\* The n-th of some places, counted along any enumeration of them in order.
LEMMA NthInOrder ==
  ASSUME NEW n \in Nat, NEW S \in SUBSET Nat, NEW f \in [1 .. n -> S],
         \A i \in S : \E r \in 1 .. n : f[r] = i,
         \A r, q \in 1 .. n : r < q => f[r] < f[q]
  PROVE  Cardinality(S) = n /\ \A r \in 1 .. n : Numbers!Nth(S, r) = f[r]
<1>1. \A r, q \in 1 .. n : f[r] = f[q] => r = q
  <2> SUFFICES ASSUME NEW r \in 1 .. n, NEW q \in 1 .. n, r # q PROVE f[r] # f[q]
    OBVIOUS
  <2>1. f[r] \in Nat /\ f[q] \in Nat
    OBVIOUS
  <2>2. r < q \/ q < r
    OBVIOUS
  <2> QED
    BY <2>1, <2>2
<1>2. ASSUME NEW r \in 0 .. n
      PROVE  LET T == {f[q] : q \in 1 .. r} IN IsFiniteSet(T) /\ Cardinality(T) = r
  <2> DEFINE T == {f[q] : q \in 1 .. r}
  <2> DEFINE g == [q \in 1 .. r |-> f[q]]
  <2>1. g \in Bijection(1 .. r, T)
    <3>1. g \in [1 .. r -> T] /\ \A a, b \in 1 .. r : g[a] = g[b] => a = b
      BY <1>1
    <3>2. \A t \in T : \E s \in 1 .. r : g[s] = t
      OBVIOUS
    <3> HIDE DEF g, T
    <3>3. g \in Injection(1 .. r, T)
      BY <3>1 DEF Injection, IsInjective
    <3>4. g \in Surjection(1 .. r, T)
      BY <3>1, <3>2 DEF Surjection
    <3> QED
      BY <3>3, <3>4 DEF Bijection
  <2>2. IsFiniteSet(1 .. r) /\ Cardinality(1 .. r) = r
    BY FS_Interval
  <2> HIDE DEF g, T
  <2>3. ExistsBijection(1 .. r, T)
    BY <2>1 DEF ExistsBijection
  <2>4. IsFiniteSet(T) /\ Cardinality(T) = r
    BY <2>2, <2>3, FS_Bijection
  <2> QED
    BY <2>4 DEF T
<1>3. S = {f[q] : q \in 1 .. n}
  OBVIOUS
<1>4. Cardinality(S) = n
  <2>1. n \in 0 .. n
    OBVIOUS
  <2> QED
    BY <1>2, <1>3, <2>1
<1>5. \A r \in 1 .. n : {j \in S : j <= f[r]} = {f[q] : q \in 1 .. r}
  <2> SUFFICES ASSUME NEW r \in 1 .. n PROVE {j \in S : j <= f[r]} = {f[q] : q \in 1 .. r}
    OBVIOUS
  <2>1. \A q \in 1 .. n : f[q] \in Nat
    OBVIOUS
  <2>2. \A q \in 1 .. n : f[q] <= f[r] <=> q <= r
    BY <2>1
  <2> QED
    BY <1>3, <2>2
<1>6. \A r \in 1 .. n : Cardinality({j \in S : j <= f[r]}) = r
  <2> SUFFICES ASSUME NEW r \in 1 .. n PROVE Cardinality({j \in S : j <= f[r]}) = r
    OBVIOUS
  <2>1. r \in 0 .. n
    OBVIOUS
  <2> QED
    BY <1>2, <1>5, <2>1
<1>7. ASSUME NEW r \in 1 .. n PROVE Numbers!Nth(S, r) = f[r]
  <2>1. f[r] \in S /\ Cardinality({j \in S : j <= f[r]}) = r
    BY <1>6
  <2>2. \A i \in S : Cardinality({j \in S : j <= i}) = r => i = f[r]
    BY <1>6
  <2>3. \E i \in S : Cardinality({j \in S : j <= i}) = r
    BY <2>1
  <2> QED
    BY NumbersCounts, <2>2, <2>3 DEF Numbers!Nth
<1> QED
  BY <1>4, <1>7

\* A line is found by its number.
LEMMA LineIsFound ==
  ASSUME NEW s \in Seq(ALine), Apart(s), NEW i \in Numbers!Places(s) PROVE Numbers!LineOf(s, s[i].number) = s[i]
<1>1. s[i] \in {s[j] : j \in Numbers!Places(s)}
  OBVIOUS
<1>2. \A l \in {s[j] : j \in Numbers!Places(s)} : l.number = s[i].number => l = s[i]
  BY DEF Apart
<1> QED
  BY <1>1, <1>2 DEF Numbers!LineOf

\* A patch, applied to the lines it was computed from, gives the new ones.
LEMMA PatchesSayEnough ==
  ASSUME NEW old \in Seq(ALine), NEW new \in Seq(ALine), Apart(old), Apart(new),
         Numbers!Numbers(new) \subseteq Numbers!Numbers(old), Numbers!SameOrder(old, new)
  PROVE  Numbers!Patched(old, old, new) = new
<1> DEFINE gone == Numbers!Removed(old, new)
<1> DEFINE S == Numbers!Staying(old, gone)
<1> DEFINE n == Len(new)
<1> DEFINE f == [i \in 1 .. n |-> CHOOSE k \in Numbers!Places(old) : old[k].number = new[i].number]
<1>1. n \in Nat /\ Numbers!Places(new) = 1 .. n /\ Numbers!Places(old) \subseteq Nat
  BY LenProperties DEF Numbers!Places
<1>2. ASSUME NEW i \in 1 .. n PROVE f[i] \in Numbers!Places(old) /\ old[f[i]].number = new[i].number
  <2>1. new[i].number \in Numbers!Numbers(old)
    BY <1>1, <1>2 DEF Numbers!Numbers
  <2>2. \E k \in Numbers!Places(old) : old[k].number = new[i].number
    BY <2>1 DEF Numbers!Numbers
  <2> QED
    BY <2>2
<1>3. S = {k \in Numbers!Places(old) : old[k].number \in Numbers!Numbers(new)}
  BY DEF Numbers!Staying, Numbers!Removed, Numbers!Numbers
<1>4. f \in [1 .. n -> S]
  <2>1. ASSUME NEW i \in 1 .. n PROVE f[i] \in S
    <3>1. f[i] \in Numbers!Places(old) /\ old[f[i]].number = new[i].number
      BY <1>2
    <3>2. new[i].number \in Numbers!Numbers(new)
      BY <1>1 DEF Numbers!Numbers
    <3> HIDE DEF f
    <3> QED
      BY <1>3, <3>1, <3>2
  <2> HIDE DEF S
  <2> QED
    BY <2>1
<1> HIDE DEF f
<1>5. \A k \in S : \E i \in 1 .. n : f[i] = k
  <2> SUFFICES ASSUME NEW k \in S PROVE \E i \in 1 .. n : f[i] = k
    OBVIOUS
  <2>1. PICK i \in 1 .. n : old[k].number = new[i].number
    BY <1>1, <1>3 DEF Numbers!Numbers
  <2> QED
    BY <1>2, <1>3, <2>1 DEF Apart
<1>6. \A i, j \in 1 .. n : i < j => f[i] < f[j]
  <2> SUFFICES ASSUME NEW i \in 1 .. n, NEW j \in 1 .. n, i < j PROVE f[i] < f[j]
    OBVIOUS
  <2> DEFINE a == new[i].number
  <2> DEFINE b == new[j].number
  <2>1. a \in Numbers!Numbers(old) \cap Numbers!Numbers(new) /\ b \in Numbers!Numbers(old) \cap Numbers!Numbers(new)
    BY <1>1 DEF Numbers!Numbers
  <2>2. (CHOOSE k \in Numbers!Places(old) : old[k].number = a) = f[i] /\ (CHOOSE k \in Numbers!Places(old) : old[k].number = b) = f[j]
    BY DEF f
  <2>3. (CHOOSE k \in Numbers!Places(new) : new[k].number = a) = i /\ (CHOOSE k \in Numbers!Places(new) : new[k].number = b) = j
    BY <1>1 DEF Apart
  <2>4. \A x, y \in Numbers!Numbers(old) \cap Numbers!Numbers(new) :
          (CHOOSE k \in Numbers!Places(old) : old[k].number = x) < (CHOOSE k \in Numbers!Places(old) : old[k].number = y)
          <=> (CHOOSE k \in Numbers!Places(new) : new[k].number = x) < (CHOOSE k \in Numbers!Places(new) : new[k].number = y)
    BY DEF Numbers!SameOrder
  <2> HIDE DEF a, b
  <2>5. (CHOOSE k \in Numbers!Places(old) : old[k].number = a) < (CHOOSE k \in Numbers!Places(old) : old[k].number = b)
        <=> (CHOOSE k \in Numbers!Places(new) : new[k].number = a) < (CHOOSE k \in Numbers!Places(new) : new[k].number = b)
    BY <2>1, <2>4
  <2> QED
    BY <2>2, <2>3, <2>5
<1>7. S \in SUBSET Nat
  BY <1>1, <1>3
<1>8. Cardinality(S) = n /\ \A r \in 1 .. n : Numbers!Nth(S, r) = f[r]
  <2> HIDE DEF S, n
  <2> QED
    BY <1>1, <1>4, <1>5, <1>6, <1>7, NthInOrder
<1> DEFINE k == Numbers!Kept(old, gone)
<1>9. k = [r \in 1 .. n |-> old[f[r]]]
  BY NumbersCounts, <1>8 DEF Numbers!Kept
<1>10. k \in Seq(ALine) /\ Len(k) = n /\ \A r \in 1 .. n : k[r] = old[f[r]]
  <2>1. \A r \in 1 .. n : old[f[r]] \in ALine
    BY <1>2 DEF Numbers!Places
  <2> HIDE DEF n, k
  <2>2. k \in [1 .. n -> ALine]
    BY <1>9, <2>1
  <2>3. k \in Seq(ALine)
    BY <1>1, <2>2, SeqDef
  <2> QED
    BY <1>1, <1>9, <2>2, <2>3, LenProperties
<1>11. \A r \in 1 .. n : (IF k[r].number \in Numbers!Changed(old, new) THEN Numbers!LineOf(new, k[r].number) ELSE k[r]) = new[r]
  <2> SUFFICES ASSUME NEW r \in 1 .. n
               PROVE  (IF k[r].number \in Numbers!Changed(old, new) THEN Numbers!LineOf(new, k[r].number) ELSE k[r]) = new[r]
    OBVIOUS
  <2>1. k[r] = old[f[r]] /\ k[r].number = new[r].number /\ f[r] \in Numbers!Places(old)
    BY <1>2, <1>10
  <2>2. Numbers!LineOf(new, new[r].number) = new[r]
    BY <1>1, LineIsFound
  <2>3. Numbers!LineOf(old, old[f[r]].number) = old[f[r]]
    BY <2>1, LineIsFound
  <2>4. new[r].number \in Numbers!Numbers(new)
    BY <1>1 DEF Numbers!Numbers
  <2> QED
    BY <2>1, <2>2, <2>3, <2>4 DEF Numbers!Changed
<1>12. Numbers!Patched(old, old, new) = [r \in 1 .. n |-> IF k[r].number \in Numbers!Changed(old, new) THEN Numbers!LineOf(new, k[r].number) ELSE k[r]]
  <2>1. Numbers!Places(k) = 1 .. n
    BY <1>10 DEF Numbers!Places
  <2> QED
    BY <2>1 DEF Numbers!Patched
<1>13. new = [r \in 1 .. n |-> new[r]]
  <2>1. new \in [1 .. Len(new) -> ALine]
    BY LenProperties
  <2> QED
    BY <2>1
<1> HIDE DEF k, n
<1> QED
  BY <1>11, <1>12, <1>13

-----------------------------------------------------------------------------
(* Numbers: the texts that show them.                                      *)

NumbersInv ==
  /\ app \in [lines : Seq(ALine), next : 1 .. MaxNumber + 1]
  /\ numbered \subseteq (1 .. app.next - 1) \X Element
  /\ Numbers!NumbersStay
  /\ \A i \in Numbers!Places(app.lines) : <<app.lines[i].number, app.lines[i].element>> \in numbered
  /\ \A i, j \in Numbers!Places(app.lines) : app.lines[i].element = app.lines[j].element => i = j
  /\ Numbers!TextsSayEnough

LEMMA LinesAreApart == ASSUME NumbersInv PROVE Apart(app.lines)
<1> SUFFICES ASSUME NEW i \in Numbers!Places(app.lines), NEW j \in Numbers!Places(app.lines),
                    app.lines[i].number = app.lines[j].number
             PROVE  i = j
  BY DEF Apart
<1>1. <<app.lines[i].number, app.lines[i].element>> \in numbered /\ <<app.lines[j].number, app.lines[j].element>> \in numbered
  BY DEF NumbersInv
<1>2. app.lines[i].element = app.lines[j].element
  BY <1>1 DEF NumbersInv, Numbers!NumbersStay
<1> QED
  BY <1>2 DEF NumbersInv

LEMMA TreesAreSequences ==
  ASSUME Numbers!NumbersAreBounded, NEW t \in Numbers!Trees
  PROVE  t \in Seq(Element \X Value) /\ Len(t) \in Nat /\ \A i, j \in Numbers!Places(t) : t[i][1] = t[j][1] => i = j
<1>1. PICK n \in 0 .. Cardinality(Element) : t \in [1 .. n -> Element \X Value]
  BY NumbersCounts DEF Numbers!Trees
<1>2. Cardinality(Element) \in Nat
  BY NumbersCounts, FS_CardinalityType DEF Numbers!NumbersAreBounded
<1>3. n \in Nat
  BY <1>2
<1>4. t \in Seq(Element \X Value)
  BY <1>1, <1>3, SeqDef
<1> QED
  BY <1>4, LenProperties DEF Numbers!Trees

\* The elements of a tree that the last observation did not show are counted
\* along it: one more at each of them.
IsNew(t, j) == \A k \in Numbers!Places(app.lines) : app.lines[k].element # t[j][1]

LEMMA FreshCounts ==
  ASSUME NEW t, NEW n \in Nat
  PROVE  /\ \A i \in 0 .. n : Numbers!Fresh(t, i) \in Nat
         /\ \A i, j \in 0 .. n : i <= j => Numbers!Fresh(t, i) <= Numbers!Fresh(t, j)
         /\ \A i, j \in 0 .. n : i < j /\ IsNew(t, j) => Numbers!Fresh(t, i) < Numbers!Fresh(t, j)
<1> DEFINE F(i) == {j \in 1 .. i : IsNew(t, j)}
<1>1. \A i \in 0 .. n : Numbers!Fresh(t, i) = Cardinality(F(i))
  BY NumbersCounts DEF Numbers!Fresh, IsNew
<1>2. ASSUME NEW i \in 0 .. n PROVE IsFiniteSet(F(i)) /\ Cardinality(F(i)) \in Nat
  <2>1. IsFiniteSet(1 .. i)
    BY FS_Interval
  <2>2. F(i) \in SUBSET (1 .. i)
    OBVIOUS
  <2> HIDE DEF F
  <2> QED
    BY <2>1, <2>2, FS_Subset, FS_CardinalityType
<1>3. ASSUME NEW i \in 0 .. n, NEW j \in 0 .. n, i <= j PROVE Cardinality(F(i)) <= Cardinality(F(j))
  <2>1. F(i) \in SUBSET F(j)
    BY <1>3
  <2> HIDE DEF F
  <2> QED
    BY <1>2, <2>1, FS_Subset
<1>4. ASSUME NEW i \in 0 .. n, NEW j \in 0 .. n, i < j, IsNew(t, j) PROVE Cardinality(F(i)) < Cardinality(F(j))
  <2>1. F(i) \in SUBSET F(j) /\ j \in F(j) /\ j \notin F(i)
    BY <1>4
  <2> HIDE DEF F
  <2>2. Cardinality(F(i)) <= Cardinality(F(j)) /\ Cardinality(F(i)) # Cardinality(F(j))
    BY <1>2, <2>1, FS_Subset
  <2> QED
    BY <1>2, <2>2
<1> HIDE DEF F
<1> QED
  BY <1>1, <1>2, <1>3, <1>4

\* What the lines of a new tree are, element by element.
LEMMA LinesAreNumbered ==
  ASSUME Numbers!NumbersAreBounded, NumbersInv, NEW t \in Numbers!Trees
  PROVE  /\ Numbers!Lines(t) \in Seq(ALine) /\ Len(Numbers!Lines(t)) = Len(t) /\ Numbers!Fresh(t, Len(t)) \in Nat
         /\ \A i \in Numbers!Places(t) : /\ Numbers!Lines(t)[i].element = t[i][1]
                                         /\ ~ IsNew(t, i) => <<Numbers!Lines(t)[i].number, t[i][1]>> \in numbered
                                         /\ IsNew(t, i) => /\ Numbers!Lines(t)[i].number = app.next + Numbers!Fresh(t, i) - 1
                                                           /\ Numbers!Fresh(t, i) \in 1 .. Numbers!Fresh(t, Len(t))
<1>1. t \in Seq(Element \X Value) /\ Len(t) \in Nat /\ Numbers!Places(t) = 1 .. Len(t)
  BY TreesAreSequences DEF Numbers!Places
<1>2. app.next \in Nat /\ app.next >= 1 /\ app.lines \in Seq(ALine)
  BY DEF NumbersInv, Numbers!NumbersAreBounded
<1>3. Numbers!Fresh(t, Len(t)) \in Nat /\ \A i \in Numbers!Places(t) : IsNew(t, i) => Numbers!Fresh(t, i) \in 1 .. Numbers!Fresh(t, Len(t))
  <2>0. Len(t) \in 0 .. Len(t)
    BY <1>1
  <2>1. Numbers!Fresh(t, Len(t)) \in Nat
    BY <1>1, <2>0, FreshCounts
  <2> SUFFICES ASSUME NEW i \in Numbers!Places(t), IsNew(t, i) PROVE Numbers!Fresh(t, i) \in 1 .. Numbers!Fresh(t, Len(t))
    BY <2>1
  <2>2. i \in 0 .. Len(t) /\ 0 \in 0 .. Len(t) /\ Len(t) \in 0 .. Len(t) /\ 0 < i /\ i <= Len(t)
    BY <1>1
  <2>3. Numbers!Fresh(t, i) \in Nat /\ Numbers!Fresh(t, 0) \in Nat /\ Numbers!Fresh(t, 0) < Numbers!Fresh(t, i) /\ Numbers!Fresh(t, i) <= Numbers!Fresh(t, Len(t))
    BY <1>1, <2>2, FreshCounts
  <2> QED
    BY <2>1, <2>3
<1>4. ASSUME NEW i \in Numbers!Places(t)
      PROVE  /\ Numbers!NumberOf(t, i) \in Nat
             /\ ~ IsNew(t, i) => <<Numbers!NumberOf(t, i), t[i][1]>> \in numbered
             /\ IsNew(t, i) => Numbers!NumberOf(t, i) = app.next + Numbers!Fresh(t, i) - 1
  <2>1. CASE IsNew(t, i)
    <3>1. Numbers!NumberOf(t, i) = app.next + Numbers!Fresh(t, i) - 1
      BY <2>1 DEF Numbers!NumberOf, IsNew
    <3> QED
      BY <1>2, <1>3, <2>1, <3>1
  <2>2. CASE ~ IsNew(t, i)
    <3>1. PICK k \in Numbers!Places(app.lines) : app.lines[k].element = t[i][1]
      BY <2>2 DEF IsNew
    <3> DEFINE l == CHOOSE l \in {app.lines[m] : m \in Numbers!Places(app.lines)} : l.element = t[i][1]
    <3>2. l \in {app.lines[m] : m \in Numbers!Places(app.lines)} /\ l.element = t[i][1]
      BY <3>1
    <3>3. Numbers!NumberOf(t, i) = l.number
      BY <3>1 DEF Numbers!NumberOf
    <3> HIDE DEF l
    <3>4. PICK m \in Numbers!Places(app.lines) : l = app.lines[m]
      BY <3>2
    <3>5. <<l.number, l.element>> \in numbered
      BY <3>4 DEF NumbersInv
    <3>6. app.lines[m] \in ALine
      BY <1>2, <3>4, ElementOfSeq DEF Numbers!Places
    <3> QED
      BY <2>2, <3>2, <3>3, <3>4, <3>5, <3>6 DEF ALine
  <2> QED
    BY <2>1, <2>2
<1>5. \A i \in Numbers!Places(t) : t[i] \in Element \X Value
  BY <1>1, ElementOfSeq
<1>6. \A i \in Numbers!Places(t) : [number |-> Numbers!NumberOf(t, i), element |-> t[i][1], value |-> t[i][2]] \in ALine
  BY <1>4, <1>5 DEF ALine
<1>7. Numbers!Lines(t) \in [1 .. Len(t) -> ALine]
  BY <1>1, <1>6 DEF Numbers!Lines
<1>8. Numbers!Lines(t) \in Seq(ALine) /\ Len(Numbers!Lines(t)) = Len(t)
  BY <1>1, <1>7, SeqDef, LenProperties
<1>9. \A i \in Numbers!Places(t) : Numbers!Lines(t)[i].number = Numbers!NumberOf(t, i) /\ Numbers!Lines(t)[i].element = t[i][1]
  BY DEF Numbers!Lines
<1>10. ASSUME NEW i \in Numbers!Places(t)
       PROVE  /\ Numbers!Lines(t)[i].element = t[i][1]
              /\ ~ IsNew(t, i) => <<Numbers!Lines(t)[i].number, t[i][1]>> \in numbered
              /\ IsNew(t, i) => Numbers!Lines(t)[i].number = app.next + Numbers!Fresh(t, i) - 1
  BY <1>4, <1>9
<1> QED
  BY <1>3, <1>8, <1>10

LEMMA NumbersStart == ASSUME Numbers!NumbersAreBounded, Numbers!NumbersInit PROVE NumbersInv
<1>1. <<>> \in Seq(ALine) /\ Len(<<>>) = 0 /\ 1 \in 1 .. MaxNumber + 1
  BY DEF Numbers!NumbersAreBounded
<1>2. Numbers!Places(<<>>) = {}
  BY <1>1 DEF Numbers!Places
<1> QED
  BY <1>1, <1>2 DEF Numbers!NumbersInit, NumbersInv, Numbers!NumbersStay, Numbers!TextsSayEnough

LEMMA ShowsKeeps ==
  ASSUME Numbers!NumbersAreBounded, NumbersInv, NEW t \in Numbers!Trees, NEW full \in BOOLEAN, Numbers!Shows(t, full)
  PROVE  NumbersInv'
<1> DEFINE new == Numbers!Lines(t)
<1> DEFINE next == app.next + Numbers!Fresh(t, Len(t))
<1> DEFINE seen == {<<l.number, l.element>> : l \in {new[i] : i \in Numbers!Places(new)}}
<1>1. /\ new \in Seq(ALine) /\ Len(new) = Len(t) /\ Numbers!Fresh(t, Len(t)) \in Nat /\ Numbers!Places(new) = Numbers!Places(t)
      /\ \A i \in Numbers!Places(t) : /\ new[i].element = t[i][1]
                                      /\ ~ IsNew(t, i) => <<new[i].number, t[i][1]>> \in numbered
                                      /\ IsNew(t, i) => /\ new[i].number = app.next + Numbers!Fresh(t, i) - 1
                                                        /\ Numbers!Fresh(t, i) \in 1 .. Numbers!Fresh(t, Len(t))
  BY LinesAreNumbered DEF Numbers!Places
<1>2. /\ next <= MaxNumber + 1 /\ app' = [lines |-> new, next |-> next] /\ numbered' = numbered \union seen
      /\ belief' = IF ~ full /\ Numbers!Nothing(app.lines, new) THEN belief
                   ELSE IF ~ full /\ Numbers!Patch(app.lines, new) THEN Numbers!Patched(belief, app.lines, new) ELSE new
  BY DEF Numbers!Shows
<1>3. /\ app.next \in Nat /\ app.next >= 1 /\ MaxNumber \in Nat /\ app.lines \in Seq(ALine)
      /\ numbered \subseteq (1 .. app.next - 1) \X Element /\ Numbers!NumbersStay
  BY DEF NumbersInv, Numbers!NumbersAreBounded
<1>4. /\ t \in Seq(Element \X Value) /\ Len(t) \in Nat /\ Numbers!Places(t) = 1 .. Len(t)
      /\ \A i, j \in Numbers!Places(t) : t[i][1] = t[j][1] => i = j
  BY TreesAreSequences DEF Numbers!Places
<1>5. app' \in [lines : Seq(ALine), next : 1 .. MaxNumber + 1] /\ app'.lines = new /\ app'.next = next
  <2> HIDE DEF new
  <2>1. next \in 1 .. MaxNumber + 1
    BY <1>1, <1>2, <1>3
  <2> QED
    BY <1>1, <1>2, <2>1
<1> HIDE DEF new
<1>6. \A i \in Numbers!Places(t) : t[i][1] \in Element
  BY <1>4, ElementOfSeq
\* A pair that is shown is one given before, or one with a number of its own.
<1>7. ASSUME NEW i \in Numbers!Places(t)
      PROVE  \/ <<new[i].number, new[i].element>> \in numbered
             \/ /\ IsNew(t, i) /\ new[i].number = app.next + Numbers!Fresh(t, i) - 1 /\ new[i].number \in app.next .. next - 1
                /\ new[i].element = t[i][1]
  <2>0. IsNew(t, i) => Numbers!Fresh(t, i) \in 1 .. Numbers!Fresh(t, Len(t))
    BY <1>1
  <2>1. IsNew(t, i) => app.next + Numbers!Fresh(t, i) - 1 \in app.next .. next - 1
    BY <1>1, <1>3, <2>0
  <2> QED
    BY <1>1, <2>1
<1>8. \A pair \in seen : \E i \in Numbers!Places(t) : pair = <<new[i].number, new[i].element>>
  BY <1>1
<1>9. numbered' \subseteq (1 .. app'.next - 1) \X Element
  <2>1. numbered \subseteq (1 .. next - 1) \X Element
    BY <1>1, <1>3
  <2>2. ASSUME NEW pair \in seen PROVE pair \in (1 .. next - 1) \X Element
    <3>1. PICK i \in Numbers!Places(t) : pair = <<new[i].number, new[i].element>>
      BY <1>8
    <3>2. CASE <<new[i].number, new[i].element>> \in numbered
      BY <2>1, <3>1, <3>2
    <3>3. CASE <<new[i].number, new[i].element>> \notin numbered
      <4>1. new[i].number \in app.next .. next - 1 /\ new[i].element \in Element
        BY <1>6, <1>7, <3>3
      <4>2. new[i].number \in 1 .. next - 1
        BY <1>1, <1>3, <4>1
      <4> QED
        BY <3>1, <4>1, <4>2
    <3> QED
      BY <3>2, <3>3
  <2> HIDE DEF seen
  <2> QED
    BY <1>2, <1>5, <2>1, <2>2
<1>10. \A i, j \in Numbers!Places(t) : new[i].number = new[j].number => new[i].element = new[j].element
  <2> SUFFICES ASSUME NEW i \in Numbers!Places(t), NEW j \in Numbers!Places(t), new[i].number = new[j].number
               PROVE  new[i].element = new[j].element
    OBVIOUS
  <2>1. CASE <<new[i].number, new[i].element>> \in numbered /\ <<new[j].number, new[j].element>> \in numbered
    BY <1>3, <2>1 DEF Numbers!NumbersStay
  <2>2. \A k \in Numbers!Places(t) : <<new[k].number, new[k].element>> \in numbered => new[k].number \in 1 .. app.next - 1
    BY <1>3
  <2>3. CASE <<new[i].number, new[i].element>> \notin numbered /\ <<new[j].number, new[j].element>> \notin numbered
    <3>1. /\ IsNew(t, i) /\ new[i].number = app.next + Numbers!Fresh(t, i) - 1
          /\ IsNew(t, j) /\ new[j].number = app.next + Numbers!Fresh(t, j) - 1
      BY <1>7, <2>3
    <3>0. i \in 0 .. Len(t) /\ j \in 0 .. Len(t)
      BY <1>4
    <3>2. i \in 0 .. Len(t) /\ j \in 0 .. Len(t) /\ Numbers!Fresh(t, i) \in Nat /\ Numbers!Fresh(t, j) \in Nat
      BY <1>4, <3>0, FreshCounts
    <3>3. Numbers!Fresh(t, i) = Numbers!Fresh(t, j)
      <4>1. \A a, b, c \in Nat : c + a - 1 = c + b - 1 => a = b
        OBVIOUS
      <4>2. app.next + Numbers!Fresh(t, i) - 1 = app.next + Numbers!Fresh(t, j) - 1
        BY <3>1
      <4> QED
        BY <1>3, <3>2, <4>1, <4>2
    <3>4. (i < j => Numbers!Fresh(t, i) < Numbers!Fresh(t, j)) /\ (j < i => Numbers!Fresh(t, j) < Numbers!Fresh(t, i))
      BY <1>4, <3>1, <3>2, FreshCounts
    <3>5. i = j
      BY <1>4, <3>2, <3>3, <3>4
    <3> QED
      BY <3>5
  <2>4. CASE <<new[i].number, new[i].element>> \in numbered /\ <<new[j].number, new[j].element>> \notin numbered
    <3>1. new[i].number \in 1 .. app.next - 1 /\ new[j].number \in app.next .. next - 1
      BY <1>7, <2>2, <2>4
    <3> QED
      BY <1>1, <1>3, <3>1
  <2>5. CASE <<new[i].number, new[i].element>> \notin numbered /\ <<new[j].number, new[j].element>> \in numbered
    <3>1. new[j].number \in 1 .. app.next - 1 /\ new[i].number \in app.next .. next - 1
      BY <1>7, <2>2, <2>5
    <3> QED
      BY <1>1, <1>3, <3>1
  <2> QED
    BY <2>1, <2>3, <2>4, <2>5
<1>11. ASSUME NEW p \in numbered, NEW i \in Numbers!Places(t), p[1] = new[i].number PROVE p[2] = new[i].element
  <2>1. p[1] \in 1 .. app.next - 1
    BY <1>3
  <2>3. new[i].number \notin app.next .. next - 1
    BY <1>1, <1>3, <1>11, <2>1
  <2>2. <<new[i].number, new[i].element>> \in numbered
    BY <1>7, <2>3
  <2> QED
    BY <1>3, <1>11, <2>2 DEF Numbers!NumbersStay
<1>12. Numbers!NumbersStay'
  <2> SUFFICES ASSUME NEW p \in numbered', NEW q \in numbered', p[1] = q[1] PROVE p[2] = q[2]
    BY DEF Numbers!NumbersStay
  <2>1. p \in numbered \/ \E i \in Numbers!Places(t) : p = <<new[i].number, new[i].element>>
    BY <1>2, <1>8
  <2>2. q \in numbered \/ \E i \in Numbers!Places(t) : q = <<new[i].number, new[i].element>>
    BY <1>2, <1>8
  <2>3. CASE p \in numbered /\ q \in numbered
    BY <1>3, <2>3 DEF Numbers!NumbersStay
  <2>4. CASE p \in numbered /\ q \notin numbered
    <3>1. PICK i \in Numbers!Places(t) : q = <<new[i].number, new[i].element>>
      BY <2>2, <2>4
    <3> QED
      BY <1>11, <2>4, <3>1
  <2>5. CASE p \notin numbered /\ q \in numbered
    <3>1. PICK i \in Numbers!Places(t) : p = <<new[i].number, new[i].element>>
      BY <2>1, <2>5
    <3> QED
      BY <1>11, <2>5, <3>1
  <2>6. CASE p \notin numbered /\ q \notin numbered
    <3>1. PICK i \in Numbers!Places(t) : p = <<new[i].number, new[i].element>>
      BY <2>1, <2>6
    <3>2. PICK j \in Numbers!Places(t) : q = <<new[j].number, new[j].element>>
      BY <2>2, <2>6
    <3> QED
      BY <1>10, <3>1, <3>2
  <2> QED
    BY <2>3, <2>4, <2>5, <2>6
<1>13. \A i \in Numbers!Places(new) : <<new[i].number, new[i].element>> \in numbered'
  BY <1>2
<1>14. \A i, j \in Numbers!Places(new) : new[i].element = new[j].element => i = j
  BY <1>1, <1>4
<1>15. Apart(new)
  BY <1>1, <1>10, <1>14 DEF Apart
<1>16. Numbers!TextsSayEnough'
  <2> SUFFICES ASSUME new # <<>> PROVE belief' = new
    BY <1>5 DEF Numbers!TextsSayEnough
  <2>1. CASE ~ full /\ Numbers!Nothing(app.lines, new)
    <3>1. belief' = belief /\ app.lines = new
      BY <1>2, <2>1 DEF Numbers!Nothing
    <3> QED
      BY <3>1 DEF NumbersInv, Numbers!TextsSayEnough
  <2>2. CASE ~ (~ full /\ Numbers!Nothing(app.lines, new)) /\ ~ full /\ Numbers!Patch(app.lines, new)
    <3>1. app.lines # <<>> /\ Numbers!Numbers(new) \subseteq Numbers!Numbers(app.lines) /\ Numbers!SameOrder(app.lines, new)
      BY <2>2 DEF Numbers!Patch
    <3>2. belief = app.lines
      BY <3>1 DEF NumbersInv, Numbers!TextsSayEnough
    <3>3. belief' = Numbers!Patched(app.lines, app.lines, new)
      BY <1>2, <2>2, <3>2
    <3>4. Numbers!Patched(app.lines, app.lines, new) = new
      BY <1>1, <1>3, <1>15, <3>1, LinesAreApart, PatchesSayEnough
    <3> QED
      BY <3>3, <3>4
  <2>3. CASE ~ (~ full /\ Numbers!Nothing(app.lines, new)) /\ ~ (~ full /\ Numbers!Patch(app.lines, new))
    BY <1>2, <2>3
  <2> QED
    BY <2>1, <2>2, <2>3
<1> HIDE DEF next, seen
<1> QED
  BY <1>5, <1>9, <1>12, <1>13, <1>14, <1>16 DEF NumbersInv

LEMMA ForgettingKeeps == ASSUME NumbersInv, app' = Numbers!Forgotten, UNCHANGED <<belief, numbered>> PROVE NumbersInv'
<1>1. app \in [lines : Seq(ALine), next : 1 .. MaxNumber + 1]
  BY DEF NumbersInv
<1>0. app' = [lines |-> <<>>, next |-> app.next]
  BY <1>1 DEF Numbers!Forgotten
<1>2. app' \in [lines : Seq(ALine), next : 1 .. MaxNumber + 1] /\ app'.lines = <<>> /\ app'.next = app.next
  BY <1>0, <1>1
<1>3. Numbers!Places(app'.lines) = {}
  BY <1>2 DEF Numbers!Places
<1> QED
  BY <1>2, <1>3 DEF NumbersInv, Numbers!NumbersStay, Numbers!TextsSayEnough

LEMMA NumbersKeep ==
  ASSUME Numbers!NumbersAreBounded
  PROVE  NumbersInv /\ [Numbers!NumbersNext]_(Numbers!numbersVars) => NumbersInv'
<1> SUFFICES ASSUME NumbersInv, [Numbers!NumbersNext]_(Numbers!numbersVars) PROVE NumbersInv'
  OBVIOUS
<1>1. CASE UNCHANGED Numbers!numbersVars
  BY <1>1 DEF NumbersInv, Numbers!NumbersStay, Numbers!TextsSayEnough, Numbers!numbersVars
<1>2. CASE Numbers!NumbersNext
  <2>1. \/ app' = Numbers!Forgotten /\ UNCHANGED <<belief, numbered>>
        \/ \E t \in Numbers!Trees, full \in BOOLEAN : Numbers!Shows(t, full)
    BY <1>2 DEF Numbers!NumbersNext, Numbers!TreeFails, Numbers!Act, Numbers!Tree
  <2> QED
    BY <2>1, ShowsKeeps, ForgettingKeeps
<1> QED
  BY <1>1, <1>2

LEMMA NumbersGive == ASSUME NumbersInv PROVE Numbers!NumbersTypeOK /\ Numbers!TextsSayEnough /\ Numbers!NumbersStay
BY DEF NumbersInv, Numbers!NumbersTypeOK

\* The texts of a model say which element is meant, and a number stays with its
\* element, for any number of elements and of texts.
THEOREM NumbersAreTrue ==
  ASSUME Numbers!NumbersAreBounded PROVE Numbers!NumbersSpec => [](Numbers!NumbersTypeOK /\ Numbers!TextsSayEnough /\ Numbers!NumbersStay)
<1>1. Numbers!NumbersInit => NumbersInv
  BY NumbersStart
<1>2. NumbersInv /\ [Numbers!NumbersNext]_(Numbers!numbersVars) => NumbersInv'
  BY NumbersKeep
<1>3. NumbersInv => Numbers!NumbersTypeOK /\ Numbers!TextsSayEnough /\ Numbers!NumbersStay
  BY NumbersGive
<1> QED
  BY <1>1, <1>2, <1>3, PTL DEF Numbers!NumbersSpec

-----------------------------------------------------------------------------
(* The stages of a candidate machine.                                      *)

\* What candidates, inputs, files and credential commands are made of.
StagedMachines ==
  [route : Route, profile : {"password", "password-free"}, power : {"none", "off", "running"}, agent : BOOLEAN,
   cloud : {"none", "done"}, seed : BOOLEAN, installer : BOOLEAN, resident : BOOLEAN, password : Stages!Versions,
   given : BOOLEAN]
StageReceipts == [age : 0..MaxAge + 1, of : 0..MaxVersion + 1]
StageFiles == [secret : 1..MaxVersion, receipt : StageReceipts, attested : StageReceipts, pending : Stages!Versions,
          accepted : SUBSET Stages!Versions]
StageCommands == [at : {"idle", "route", "store", "set", "ask", "write", "clean"}, fd : Stages!Versions,
                op : {"verify", "establish"}, wrote : BOOLEAN]

\* The command has put its bytes beside the file and has not dropped them.
StageKeeps(j) == j.wrote /\ j.at \in {"set", "ask", "write", "clean"}

\* What a credential command knows and has done.
CredentialSound(j, c, f) ==
  /\ j.at \in {"route", "store"} => ~j.wrote
  /\ j.at # "idle" /\ c.profile = "password" => j.fd # 0
  /\ j.at = "store" => c.profile = "password"
  /\ j.at = "set" => j.wrote
  /\ StageKeeps(j) => j.fd = f.pending /\ f.pending # 0
  /\ j.at = "write" => j.fd \in f.accepted
  /\ j.at = "clean" /\ j.wrote => ~c.given

\* A receipt is of a file that was accepted, what was attested has happened, the
\* seed is only given away after it, and a password that no receipt names yet is
\* the pending one.
FilesSound(c, f) ==
  /\ f.receipt # Stages!Nothing => f.receipt.of \in f.accepted
  /\ f.attested # Stages!Nothing => c.cloud = "done"
  /\ c.route # "libvirt" /\ c.power # "none" /\ ~c.seed => c.cloud = "done"
  /\ c.given => c.password = f.pending /\ c.password # 0

\* The inductive invariant of the stages.
StagesInv ==
  /\ candidate \in StagedMachines /\ files \in StageFiles /\ jobs \in [Process -> StageCommands]
  /\ FilesSound(candidate, files)
  /\ \A p \in Process : CredentialSound(jobs[p], candidate, files)
  /\ \A p, q \in Process : StageKeeps(jobs[p]) /\ StageKeeps(jobs[q]) => p = q

LEMMA StagesStart == ASSUME Stages!BoundsAreKnown, Stages!StageInit PROVE StagesInv
<1> USE DEF Stages!BoundsAreKnown, Stages!Nothing, Stages!Versions
<1>0. candidate \in [route : Route, profile : {"password", "password-free"}, power : {"none"}, agent : {FALSE},
                    cloud : {"none"}, seed : {FALSE}, installer : {FALSE}, resident : {FALSE}, password : {0},
                    given : {FALSE}]
  BY DEF Stages!StageInit
<1>1. candidate \in StagedMachines /\ candidate.power = "none" /\ ~candidate.given
  <2>1. PICK r \in Route, f \in {"password", "password-free"} :
          candidate = [route |-> r, profile |-> f, power |-> "none", agent |-> FALSE, cloud |-> "none", seed |-> FALSE,
                       installer |-> FALSE, resident |-> FALSE, password |-> 0, given |-> FALSE]
    BY <1>0
  <2>2. 0 \in Stages!Versions
    OBVIOUS
  <2> QED
    BY <2>1, <2>2 DEF StagedMachines
<1>2. files \in StageFiles /\ jobs \in [Process -> StageCommands]
  BY DEF Stages!StageInit, StageFiles, StageReceipts, StageCommands
<1>3. (\A p \in Process : jobs[p].at = "idle") /\ files.receipt = Stages!Nothing /\ files.attested = Stages!Nothing
  BY DEF Stages!StageInit
<1> QED
  BY <1>1, <1>2, <1>3 DEF StagesInv, FilesSound, CredentialSound, StageKeeps

\* A step that changes only the candidate, and neither its password nor its kind.
LEMMA CandidateChanges ==
  ASSUME StagesInv, UNCHANGED <<files, jobs>>, candidate' \in StagedMachines, FilesSound(candidate', files),
         candidate'.profile = candidate.profile, candidate'.given => candidate.given
  PROVE  StagesInv'
BY DEF StagesInv, CredentialSound, StageKeeps

\* A step that changes only the files, and neither what is pending nor less is accepted.
LEMMA FilesChange ==
  ASSUME StagesInv, UNCHANGED <<candidate, jobs>>, files' \in StageFiles, FilesSound(candidate, files'),
         files'.pending = files.pending, files.accepted \subseteq files'.accepted
  PROVE  StagesInv'
BY DEF StagesInv, CredentialSound, StageKeeps

LEMMA FollowingIsSound ==
  ASSUME Stages!BoundsAreKnown, StagesInv,
         Stages!Follow \/ Stages!AgentComes \/ Stages!FirstBootEnds \/ Stages!ReplaceSecret \/ Stages!TimePasses
  PROVE  StagesInv'
<1> USE DEF Stages!BoundsAreKnown
<1>c. candidate \in StagedMachines /\ FilesSound(candidate, files) /\ files \in StageFiles
  BY DEF StagesInv
<1>1. CASE Stages!Provide \/ Stages!Prepare \/ Stages!Render
  BY <1>1 DEF StagesInv, Stages!Provide, Stages!Prepare, Stages!Render
<1>2. CASE Stages!Create
  <2>1. /\ candidate' = [candidate EXCEPT !.power = "off", !.seed = TRUE, !.installer = Stages!Windows]
        /\ Stages!Windows \in BOOLEAN
    BY <1>2 DEF Stages!Create, Stages!Windows
  <2>2. candidate' \in StagedMachines
    BY <2>1, <1>c DEF StagedMachines
  <2>3. FilesSound(candidate', files) /\ candidate'.profile = candidate.profile /\ candidate'.given = candidate.given
    BY <2>1, <1>c DEF StagedMachines, FilesSound
  <2> QED
    BY <2>2, <2>3, <1>2, CandidateChanges DEF Stages!Create
<1>3. CASE Stages!Up
  <2>1. candidate' \in StagedMachines
    BY <1>3, <1>c DEF Stages!Up, StagedMachines
  <2>2. FilesSound(candidate', files) /\ candidate'.profile = candidate.profile /\ candidate'.given = candidate.given
    BY <1>3, <1>c DEF StagedMachines, FilesSound, Stages!Up, Stages!UpOffered, Stages!Off
  <2> QED
    BY <2>1, <2>2, <1>3, CandidateChanges DEF Stages!Up
<1>4. CASE Stages!Attest
  <2>1. files' \in StageFiles
    BY <1>4, <1>c DEF Stages!Attest, StageFiles, StageReceipts
  <2>2. FilesSound(candidate, files') /\ files'.pending = files.pending /\ files.accepted \subseteq files'.accepted
    BY <1>4, <1>c DEF Stages!Attest, FilesSound, Stages!AttestOffered, Stages!CloudDone, StageFiles, Stages!Nothing
  <2> QED
    BY <2>1, <2>2, <1>4, FilesChange DEF Stages!Attest
<1>5. CASE Stages!Bootstrap
  <2>1. candidate' \in StagedMachines
    BY <1>5, <1>c DEF Stages!Bootstrap, StagedMachines
  <2>2. FilesSound(candidate', files) /\ candidate'.profile = candidate.profile /\ candidate'.given = candidate.given
    BY <1>5, <1>c DEF StagedMachines, FilesSound, Stages!Bootstrap
  <2> QED
    BY <2>1, <2>2, <1>5, CandidateChanges DEF Stages!Bootstrap
<1>6. CASE Stages!Shutdown
  <2>0. candidate.power # "none"
    BY <1>6, <1>c DEF Stages!Shutdown, Stages!ShutdownOffered, Stages!CloudDone, Stages!Running, StagedMachines
  <2>1. candidate' = [candidate EXCEPT !.power = "off", !.agent = FALSE]
    BY <1>6 DEF Stages!Shutdown
  <2>2. candidate' \in StagedMachines
    BY <2>1, <1>c DEF StagedMachines
  <2>3. FilesSound(candidate', files) /\ candidate'.profile = candidate.profile /\ candidate'.given = candidate.given
    BY <2>0, <2>1, <1>c DEF StagedMachines, FilesSound
  <2> QED
    BY <2>2, <2>3, <1>6, CandidateChanges DEF Stages!Shutdown
<1>7. CASE Stages!Detach
  <2>2. candidate.route # "libvirt" => candidate.cloud = "done"
    BY <1>7, <1>c DEF Stages!Detach, Stages!DetachOffered, Stages!Historical, Stages!Fresh, FilesSound
  <2>3. candidate' \in StagedMachines
    BY <1>7, <1>c DEF Stages!Detach, StagedMachines
  <2>4. FilesSound(candidate', files) /\ candidate'.profile = candidate.profile /\ candidate'.given = candidate.given
    BY <2>2, <1>7, <1>c DEF StagedMachines, FilesSound, Stages!Detach
  <2> QED
    BY <2>3, <2>4, <1>7, CandidateChanges DEF Stages!Detach
<1>8. CASE Stages!AgentComes
  <2>1. candidate' \in StagedMachines
    BY <1>8, <1>c DEF Stages!AgentComes, StagedMachines
  <2>2. FilesSound(candidate', files) /\ candidate'.profile = candidate.profile /\ candidate'.given = candidate.given
    BY <1>8, <1>c DEF StagedMachines, FilesSound, Stages!AgentComes
  <2> QED
    BY <2>1, <2>2, <1>8, CandidateChanges DEF Stages!AgentComes
<1>9. CASE Stages!FirstBootEnds
  <2>1. candidate' \in StagedMachines
    BY <1>9, <1>c DEF Stages!FirstBootEnds, StagedMachines
  <2>2. FilesSound(candidate', files) /\ candidate'.profile = candidate.profile /\ candidate'.given = candidate.given
    BY <1>9, <1>c DEF StagedMachines, FilesSound, Stages!FirstBootEnds
  <2> QED
    BY <2>1, <2>2, <1>9, CandidateChanges DEF Stages!FirstBootEnds
<1>10. CASE Stages!ReplaceSecret
  <2>1. files' \in StageFiles
    BY <1>10, <1>c DEF Stages!ReplaceSecret, StageFiles
  <2>2. FilesSound(candidate, files') /\ files'.pending = files.pending /\ files.accepted \subseteq files'.accepted
    BY <1>10, <1>c DEF Stages!ReplaceSecret, FilesSound, StageFiles
  <2> QED
    BY <2>1, <2>2, <1>10, FilesChange DEF Stages!ReplaceSecret
<1>11. CASE Stages!TimePasses
  <2>1. \A r \in StageReceipts : Stages!Older(r) \in StageReceipts /\ Stages!Older(r).of = r.of /\ (Stages!Older(r) # Stages!Nothing => r # Stages!Nothing)
    BY DEF Stages!Older, Stages!Fresh, StageReceipts
  <2>2. files' = [files EXCEPT !.receipt = Stages!Older(files.receipt), !.attested = Stages!Older(files.attested)]
    BY <1>11, <1>c DEF Stages!TimePasses, StageFiles
  <2>3. /\ files.receipt \in StageReceipts /\ files.attested \in StageReceipts
        /\ Stages!Older(files.receipt) \in StageReceipts /\ Stages!Older(files.attested) \in StageReceipts
        /\ Stages!Older(files.receipt).of = files.receipt.of
        /\ Stages!Older(files.receipt) # Stages!Nothing => files.receipt # Stages!Nothing
        /\ Stages!Older(files.attested) # Stages!Nothing => files.attested # Stages!Nothing
    BY <1>c, <2>1 DEF StageFiles
  <2>4. files' \in StageFiles
    BY <2>2, <2>3, <1>c DEF StageFiles
  <2>5. /\ files'.receipt.of = files.receipt.of
        /\ files'.receipt # Stages!Nothing => files.receipt # Stages!Nothing
        /\ files'.attested # Stages!Nothing => files.attested # Stages!Nothing
    BY <2>2, <2>3, <1>c DEF StageFiles
  <2>6. files'.pending = files.pending /\ files.accepted = files'.accepted
    BY <2>2, <1>c DEF StageFiles
  <2>7. FilesSound(candidate, files')
    BY <2>5, <2>6, <1>c DEF FilesSound
  <2> QED
    BY <2>4, <2>6, <2>7, <1>11, FilesChange DEF Stages!TimePasses
<1> QED
  BY <1>1, <1>2, <1>3, <1>4, <1>5, <1>6, <1>7, <1>8, <1>9, <1>10, <1>11 DEF Stages!Follow

\* A step of one command that leaves the candidate and what is pending alone.
LEMMA CommandGoesOn ==
  ASSUME StagesInv, NEW p \in Process, NEW j \in StageCommands, jobs' = [jobs EXCEPT ![p] = j], UNCHANGED candidate,
         files' \in StageFiles, FilesSound(candidate, files'), files'.pending = files.pending,
         files.accepted \subseteq files'.accepted, CredentialSound(j, candidate, files'),
         StageKeeps(j) => StageKeeps(jobs[p])
  PROVE  StagesInv'
<1>1. jobs' \in [Process -> StageCommands] /\ jobs'[p] = j /\ \A q \in Process \ {p} : jobs'[q] = jobs[q]
  BY DEF StagesInv
<1>2. \A q \in Process : CredentialSound(jobs'[q], candidate', files')
  BY <1>1 DEF StagesInv, CredentialSound
<1>3. \A q, r \in Process : StageKeeps(jobs'[q]) /\ StageKeeps(jobs'[r]) => q = r
  <2>1. \A q \in Process : StageKeeps(jobs'[q]) => StageKeeps(jobs[q])
    BY <1>1
  <2> QED
    BY <2>1 DEF StagesInv
<1> QED
  BY <1>1, <1>2, <1>3 DEF StagesInv

LEMMA GoingOn ==
  ASSUME StagesInv, NEW p \in Process, NEW at \in {"idle", "route", "store", "set", "ask", "write", "clean"},
         Stages!Goes(p, at)
  PROVE  \E j \in StageCommands : /\ jobs' = [jobs EXCEPT ![p] = j] /\ j.at = at
                                  /\ j.fd = jobs[p].fd /\ j.op = jobs[p].op /\ j.wrote = jobs[p].wrote
<1>1. jobs[p] \in StageCommands
  BY DEF StagesInv
<1>2. [jobs[p] EXCEPT !.at = at] \in StageCommands
  BY <1>1 DEF StageCommands
<1>3. jobs' = [jobs EXCEPT ![p] = [jobs[p] EXCEPT !.at = at]]
  BY DEF Stages!Goes, StagesInv
<1> QED
  BY <1>1, <1>2, <1>3 DEF StageCommands

LEMMA CredentialIsSound ==
  ASSUME Stages!BoundsAreKnown, StagesInv, NEW p \in Process, Stages!Credential(p)
  PROVE  StagesInv'
<1> USE DEF Stages!BoundsAreKnown
<1>c. /\ candidate \in StagedMachines /\ FilesSound(candidate, files) /\ files \in StageFiles
      /\ jobs[p] \in StageCommands /\ CredentialSound(jobs[p], candidate, files)
  BY DEF StagesInv
<1>1. CASE Stages!Begin(p)
  <2>1. PICK op \in {"verify", "establish"} :
          jobs' = [jobs EXCEPT ![p] = [at |-> "route", fd |-> Stages!Expected, op |-> op, wrote |-> FALSE]]
    BY <1>1 DEF Stages!Begin
  <2>2. Stages!Expected \in Stages!Versions /\ (candidate.profile = "password" => Stages!Expected # 0)
    BY <1>c DEF Stages!Expected, StageFiles, Stages!Versions
  <2> DEFINE j == [at |-> "route", fd |-> Stages!Expected, op |-> op, wrote |-> FALSE]
  <2>3. j \in StageCommands /\ CredentialSound(j, candidate, files') /\ ~StageKeeps(j)
    BY <2>2 DEF StageCommands, CredentialSound, StageKeeps
  <2>4. files' = [files EXCEPT !.receipt = Stages!Nothing] /\ Stages!Nothing \in StageReceipts
    BY <1>1 DEF Stages!Begin, Stages!Nothing, StageReceipts
  <2>5. /\ files' \in StageFiles /\ FilesSound(candidate, files') /\ files'.pending = files.pending
        /\ files'.accepted = files.accepted
    BY <2>4, <1>c DEF StageFiles, FilesSound
  <2> QED
    BY <2>1, <2>3, <2>5, <1>1, CommandGoesOn DEF Stages!Begin
<1>2. CASE Stages!Refuse(p) \/ Stages!Die(p)
  <2>1. Stages!Goes(p, "idle") /\ UNCHANGED <<candidate, files>>
    BY <1>2 DEF Stages!Refuse, Stages!Die
  <2>2. PICK j \in StageCommands : jobs' = [jobs EXCEPT ![p] = j] /\ j.at = "idle"
    BY <2>1, GoingOn
  <2>3. CredentialSound(j, candidate, files) /\ ~StageKeeps(j)
    BY <2>2 DEF CredentialSound, StageKeeps
  <2> QED
    BY <2>1, <2>2, <2>3, <1>c, CommandGoesOn
<1>3. CASE Stages!AskRoute(p)
  <2>1. PICK at \in {"ask", "store"} : Stages!Goes(p, at) /\ (at = "store" => candidate.profile = "password")
    BY <1>3 DEF Stages!AskRoute
  <2>2. PICK j \in StageCommands : /\ jobs' = [jobs EXCEPT ![p] = j] /\ j.at = at
                                   /\ j.fd = jobs[p].fd /\ j.op = jobs[p].op /\ j.wrote = jobs[p].wrote
    BY <2>1, GoingOn
  <2>3. CredentialSound(j, candidate, files) /\ ~StageKeeps(j)
    BY <2>1, <2>2, <1>3, <1>c DEF CredentialSound, StageKeeps, Stages!AskRoute
  <2> QED
    BY <2>2, <2>3, <1>3, <1>c, CommandGoesOn DEF Stages!AskRoute
<1>4. CASE Stages!StorePending(p)
  <2>1. /\ jobs' = [jobs EXCEPT ![p] = [jobs[p] EXCEPT !.at = "set", !.wrote = TRUE]]
        /\ files' = [files EXCEPT !.pending = jobs[p].fd] /\ UNCHANGED candidate
        /\ files.pending = 0 /\ jobs[p].at = "store"
    BY <1>4, <1>c DEF Stages!StorePending, Stages!MayStore, StagesInv
  <2> DEFINE j == [jobs[p] EXCEPT !.at = "set", !.wrote = TRUE]
  <2>2. j \in StageCommands /\ j.at = "set" /\ j.wrote /\ j.fd = jobs[p].fd
    BY <1>c DEF StageCommands
  <2>3. jobs[p].fd # 0 /\ jobs[p].fd \in Stages!Versions
    BY <2>1, <1>c DEF CredentialSound, StageCommands
  <2>4. files' \in StageFiles /\ files'.pending = jobs[p].fd /\ files'.accepted = files.accepted
        /\ files'.receipt = files.receipt /\ files'.attested = files.attested
    BY <2>1, <2>3, <1>c DEF StageFiles
  <2>5. \A q \in Process : ~StageKeeps(jobs[q])
    BY <2>1 DEF StagesInv, CredentialSound
  <2>6. candidate.given => candidate.password = 0
    BY <2>1, <1>c DEF FilesSound
  <2> HIDE DEF j
  <2>7. jobs' \in [Process -> StageCommands] /\ jobs'[p] = j /\ \A q \in Process \ {p} : jobs'[q] = jobs[q]
    BY <2>1, <2>2 DEF StagesInv, j
  <2>8. FilesSound(candidate', files')
    BY <2>1, <2>4, <2>6, <1>c DEF FilesSound
  <2>9. \A q \in Process : CredentialSound(jobs'[q], candidate', files')
    BY <2>1, <2>2, <2>3, <2>4, <2>5, <2>7 DEF StagesInv, CredentialSound, StageKeeps
  <2>10. \A q, r \in Process : StageKeeps(jobs'[q]) /\ StageKeeps(jobs'[r]) => q = r
    BY <2>5, <2>7
  <2> QED
    BY <2>1, <2>4, <2>7, <2>8, <2>9, <2>10 DEF StagesInv
<1>5. CASE Stages!SetPassword(p)
  <2>1. PICK at \in {"ask", "idle"} : Stages!Goes(p, at)
    BY <1>5 DEF Stages!SetPassword
  <2>2. PICK j \in StageCommands : /\ jobs' = [jobs EXCEPT ![p] = j] /\ j.at = at
                                   /\ j.fd = jobs[p].fd /\ j.op = jobs[p].op /\ j.wrote = jobs[p].wrote
    BY <2>1, GoingOn
  <2>3. /\ candidate' = [candidate EXCEPT !.password = jobs[p].fd, !.given = TRUE] /\ UNCHANGED files
        /\ jobs[p].at = "set"
    BY <1>5 DEF Stages!SetPassword
  <2>4. jobs[p].fd \in Stages!Versions /\ jobs[p].fd = files.pending /\ jobs[p].fd # 0 /\ StageKeeps(jobs[p])
    BY <2>3, <1>c DEF CredentialSound, StageKeeps, StageCommands
  <2>5. /\ candidate' \in StagedMachines /\ candidate'.password = jobs[p].fd /\ candidate'.profile = candidate.profile
        /\ candidate'.route = candidate.route /\ candidate'.power = candidate.power /\ candidate'.seed = candidate.seed
        /\ candidate'.cloud = candidate.cloud
    BY <2>3, <2>4, <1>c DEF StagedMachines
  <2>6. jobs' \in [Process -> StageCommands] /\ jobs'[p] = j /\ \A q \in Process \ {p} : jobs'[q] = jobs[q]
    BY <2>2 DEF StagesInv
  <2>7. FilesSound(candidate', files')
    BY <2>3, <2>4, <2>5, <1>c DEF FilesSound
  <2>8. \A q \in Process \ {p} : ~StageKeeps(jobs[q])
    BY <2>4 DEF StagesInv
  <2>9. \A q \in Process \ {p} : CredentialSound(jobs'[q], candidate', files')
    <3> SUFFICES ASSUME NEW q \in Process \ {p} PROVE CredentialSound(jobs[q], candidate', files)
      BY <2>6, <2>3
    <3>1. CredentialSound(jobs[q], candidate, files) /\ ~StageKeeps(jobs[q])
      BY <2>8 DEF StagesInv
    <3> QED
      BY <3>1, <2>5 DEF CredentialSound, StageKeeps
  <2>10. CredentialSound(j, candidate', files)
    BY <2>1, <2>2, <2>3, <2>4, <2>5, <1>c DEF CredentialSound, StageKeeps
  <2>11. \A q, r \in Process : StageKeeps(jobs'[q]) /\ StageKeeps(jobs'[r]) => q = r
    BY <2>6, <2>8
  <2> QED
    BY <2>3, <2>5, <2>6, <2>7, <2>9, <2>10, <2>11, <1>c DEF StagesInv
<1>6. CASE Stages!AskGuest(p)
  <2>1. /\ Stages!Goes(p, "write") /\ files' = [files EXCEPT !.accepted = @ \cup {jobs[p].fd}]
        /\ UNCHANGED candidate /\ jobs[p].at = "ask"
    BY <1>6 DEF Stages!AskGuest
  <2>2. PICK j \in StageCommands : /\ jobs' = [jobs EXCEPT ![p] = j] /\ j.at = "write"
                                   /\ j.fd = jobs[p].fd /\ j.op = jobs[p].op /\ j.wrote = jobs[p].wrote
    BY <2>1, GoingOn
  <2>3. /\ files' \in StageFiles /\ files'.pending = files.pending /\ files'.accepted = files.accepted \cup {jobs[p].fd}
        /\ files'.receipt = files.receipt /\ files'.attested = files.attested
    BY <2>1, <1>c DEF StageFiles, StageCommands
  <2>4. FilesSound(candidate, files')
    BY <2>3, <1>c DEF FilesSound
  <2>5. CredentialSound(j, candidate, files') /\ (StageKeeps(j) => StageKeeps(jobs[p]))
    BY <2>1, <2>2, <2>3, <1>c DEF CredentialSound, StageKeeps
  <2> QED
    BY <2>1, <2>2, <2>3, <2>4, <2>5, CommandGoesOn
<1>7. CASE Stages!WriteReceipt(p)
  <2>1. CASE ~Stages!Unchanged(p)
    <3>1. Stages!Goes(p, "idle") /\ UNCHANGED <<candidate, files>>
      BY <1>7, <2>1 DEF Stages!WriteReceipt
    <3>2. PICK j \in StageCommands : jobs' = [jobs EXCEPT ![p] = j] /\ j.at = "idle"
      BY <3>1, GoingOn
    <3>3. CredentialSound(j, candidate, files) /\ ~StageKeeps(j)
      BY <3>2 DEF CredentialSound, StageKeeps
    <3> QED
      BY <3>1, <3>2, <3>3, <1>c, CommandGoesOn
  <2>2. CASE Stages!Unchanged(p)
    <3> DEFINE given == candidate.given /\ candidate.password # jobs[p].fd
               receipt == [age |-> 0, of |-> jobs[p].fd]
    <3>1. /\ Stages!Goes(p, "clean") /\ jobs[p].at = "write"
          /\ files' = [files EXCEPT !.receipt = receipt]
          /\ candidate' = [candidate EXCEPT !.given = given]
      BY <1>7, <2>2 DEF Stages!WriteReceipt
    <3>2. PICK j \in StageCommands : /\ jobs' = [jobs EXCEPT ![p] = j] /\ j.at = "clean"
                                     /\ j.fd = jobs[p].fd /\ j.op = jobs[p].op /\ j.wrote = jobs[p].wrote
      BY <3>1, GoingOn
    <3>3. receipt \in StageReceipts /\ receipt.of = jobs[p].fd
      BY <1>c DEF StageReceipts, StageCommands, Stages!Versions
    <3>4. given \in BOOLEAN /\ (given => candidate.given) /\ (StageKeeps(jobs[p]) => ~given)
      BY <1>c DEF FilesSound, CredentialSound
    <3>k. StageKeeps(j) <=> StageKeeps(jobs[p])
      BY <3>1, <3>2 DEF StageKeeps
    <3> HIDE DEF given, receipt
    <3>5. /\ files' \in StageFiles /\ files'.pending = files.pending /\ files'.accepted = files.accepted
          /\ files'.receipt = receipt /\ files'.attested = files.attested
      BY <3>1, <3>3, <1>c DEF StageFiles
    <3>6. /\ candidate' \in StagedMachines /\ candidate'.given = given /\ candidate'.profile = candidate.profile
          /\ candidate'.route = candidate.route /\ candidate'.power = candidate.power /\ candidate'.seed = candidate.seed
          /\ candidate'.cloud = candidate.cloud /\ candidate'.password = candidate.password
      BY <3>1, <3>4, <1>c DEF StagedMachines
    <3>7. FilesSound(candidate', files')
      BY <3>1, <3>3, <3>4, <3>5, <3>6, <1>c DEF FilesSound, CredentialSound
    <3>8. jobs' \in [Process -> StageCommands] /\ jobs'[p] = j /\ \A q \in Process \ {p} : jobs'[q] = jobs[q]
      BY <3>2 DEF StagesInv
    <3>9. \A q \in Process \ {p} : CredentialSound(jobs'[q], candidate', files')
      <4> SUFFICES ASSUME NEW q \in Process \ {p} PROVE CredentialSound(jobs[q], candidate', files')
        BY <3>8
      <4>1. CredentialSound(jobs[q], candidate, files)
        BY DEF StagesInv
      <4> QED
        BY <4>1, <3>4, <3>5, <3>6 DEF CredentialSound
    <3>10. CredentialSound(j, candidate', files')
      BY <3>k, <3>1, <3>2, <3>4, <3>5, <3>6, <1>c DEF CredentialSound, StageKeeps
    <3>11. \A q, r \in Process : StageKeeps(jobs'[q]) /\ StageKeeps(jobs'[r]) => q = r
      <4>1. \A q \in Process : StageKeeps(jobs'[q]) <=> StageKeeps(jobs[q])
        BY <3>8, <3>k
      <4> QED
        BY <4>1 DEF StagesInv
    <3> QED
      BY <3>5, <3>6, <3>7, <3>8, <3>9, <3>10, <3>11 DEF StagesInv
  <2> QED
    BY <2>1, <2>2
<1>8. CASE Stages!DropPending(p)
  <2>1. /\ Stages!Goes(p, "idle") /\ jobs[p].at = "clean" /\ UNCHANGED candidate
        /\ files' = [files EXCEPT !.pending = IF jobs[p].wrote THEN 0 ELSE files.pending]
    BY <1>8 DEF Stages!DropPending
  <2>2. PICK j \in StageCommands : jobs' = [jobs EXCEPT ![p] = j] /\ j.at = "idle"
    BY <2>1, GoingOn
  <2>3. CredentialSound(j, candidate', files') /\ ~StageKeeps(j)
    BY <2>2 DEF CredentialSound, StageKeeps
  <2>4. CASE ~jobs[p].wrote
    <3>1. files' = files
      BY <2>4, <2>1, <1>c DEF StageFiles
    <3> QED
      BY <3>1, <2>1, <2>2, <2>3, <1>c, CommandGoesOn
  <2>5. CASE jobs[p].wrote
    <3>1. /\ files' \in StageFiles /\ files'.accepted = files.accepted
          /\ files'.receipt = files.receipt /\ files'.attested = files.attested
      BY <2>1, <1>c DEF StageFiles, Stages!Versions
    <3>2. ~candidate.given /\ StageKeeps(jobs[p])
      BY <2>5, <2>1, <1>c DEF CredentialSound, StageKeeps
    <3>3. FilesSound(candidate', files')
      BY <3>1, <3>2, <2>1, <1>c DEF FilesSound
    <3>4. jobs' \in [Process -> StageCommands] /\ jobs'[p] = j /\ \A q \in Process \ {p} : jobs'[q] = jobs[q]
      BY <2>2 DEF StagesInv
    <3>5. \A q \in Process \ {p} : ~StageKeeps(jobs[q]) /\ CredentialSound(jobs[q], candidate', files')
      <4> SUFFICES ASSUME NEW q \in Process \ {p} PROVE ~StageKeeps(jobs[q]) /\ CredentialSound(jobs[q], candidate, files')
        BY <2>1
      <4>1. CredentialSound(jobs[q], candidate, files) /\ ~StageKeeps(jobs[q])
        BY <3>2 DEF StagesInv
      <4> QED
        BY <4>1, <3>1 DEF CredentialSound
    <3> QED
      BY <2>1, <2>3, <3>1, <3>3, <3>4, <3>5 DEF StagesInv
  <2> QED
    BY <2>4, <2>5
<1> QED
  BY <1>1, <1>2, <1>3, <1>4, <1>5, <1>6, <1>7, <1>8 DEF Stages!Credential

LEMMA StagesKeep == ASSUME Stages!BoundsAreKnown, StagesInv, [Stages!StageNext]_(Stages!stageVars) PROVE StagesInv'
<1>1. CASE UNCHANGED Stages!stageVars
  BY <1>1 DEF Stages!stageVars, StagesInv
<1> QED
  BY <1>1, FollowingIsSound, CredentialIsSound DEF Stages!StageNext

\* What is offered leads on by the tables themselves; the rest by the invariant.
LEMMA StagesGive ==
  ASSUME Stages!BoundsAreKnown, StagesInv
  PROVE  Stages!StagesTypeOK /\ Stages!HandoffIsEarned /\ Stages!PasswordIsKept /\ Stages!StagesLeadOn
<1> USE DEF Stages!BoundsAreKnown
<1>c. /\ candidate \in StagedMachines /\ FilesSound(candidate, files) /\ files \in StageFiles
      /\ jobs \in [Process -> StageCommands]
  BY DEF StagesInv
<1>1. Stages!StagesTypeOK
  BY <1>c DEF Stages!StagesTypeOK, StagedMachines, StageFiles, StageReceipts, StageCommands, Stages!Versions
<1>2. Stages!HandoffIsEarned
  BY <1>c DEF Stages!HandoffIsEarned, Stages!Promoted, Stages!FinalStop, Stages!Recorded, Stages!Fresh, FilesSound
<1>3. Stages!PasswordIsKept
  BY <1>c DEF Stages!PasswordIsKept, FilesSound
<1>4. Stages!StagesLeadOn
  <2>1. candidate.route \in {"libvirt", "utm", "windows"}
    BY <1>c DEF StagedMachines
  <2>2. candidate.route = "utm" /\ Stages!CloudDone /\ Stages!Historical /\ candidate.resident => Stages!ShutdownOffered
    BY DEF Stages!ShutdownOffered
  <2>3. candidate.route = "windows" /\ Stages!CloudDone /\ Stages!Historical /\ Stages!Attached => Stages!ShutdownOffered
    BY DEF Stages!ShutdownOffered
  <2> QED
    BY <2>1, <2>2, <2>3 DEF Stages!StagesLeadOn, Stages!AttestOffered, Stages!BootstrapOffered, Stages!Finished,
       Stages!Windows
<1> QED
  BY <1>1, <1>2, <1>3, <1>4

\* A machine under construction is handed on only when its guest has confirmed
\* the password in the file, a password put into a guest stays on the disk until
\* a receipt names it, and an unfinished machine is always offered a command; for
\* any number of credential commands and versions of the file (credential.py and
\* the two factory-stages.py).
THEOREM StagesAreEarned ==
  ASSUME Stages!BoundsAreKnown
  PROVE  Stages!StageSpec => [](Stages!StagesTypeOK /\ Stages!HandoffIsEarned /\ Stages!PasswordIsKept /\ Stages!StagesLeadOn)
<1>1. Stages!StageInit => StagesInv
  BY StagesStart
<1>2. StagesInv /\ [Stages!StageNext]_(Stages!stageVars) => StagesInv'
  BY StagesKeep
<1>3. StagesInv => Stages!StagesTypeOK /\ Stages!HandoffIsEarned /\ Stages!PasswordIsKept /\ Stages!StagesLeadOn
  BY StagesGive
<1> QED
  BY <1>1, <1>2, <1>3, PTL DEF Stages!StageSpec

-----------------------------------------------------------------------------
(* The image of a candidate machine.                                       *)

\* The finite sets of the component are those of the library.
LEMMA ImageCounts == \A S : (Image!IsFiniteSet(S) <=> IsFiniteSet(S)) /\ Image!Cardinality(S) = Cardinality(S)
BY DEF Image!IsFiniteSet, IsFiniteSet, Image!Cardinality, Cardinality

\* The r-th of finitely many places is one of them.
LEMMA RankIsReached ==
  ASSUME NEW S \in SUBSET Nat, IsFiniteSet(S), NEW r \in 1 .. Cardinality(S)
  PROVE  Image!Nth(S, r) \in S
<1> DEFINE Upto(n) == {m \in S : m <= n}
<1> DEFINE T == {n \in S : Cardinality(Upto(n)) >= r}
<1>0. Cardinality(S) \in Nat /\ \A n \in S : IsFiniteSet(Upto(n)) /\ Cardinality(Upto(n)) \in Nat
  BY FS_CardinalityType, FS_Subset
<1>1. S # {}
  BY FS_EmptySet
<1>2. PICK g \in S : \A m \in S : m <= g
  BY <1>1, GreatestOf
<1>3. Upto(g) = S
  BY <1>2
<1>4. T # {} /\ T \in SUBSET Nat /\ IsFiniteSet(T)
  <2>1. g \in T
    BY <1>0, <1>3
  <2> QED
    BY <2>1, FS_Subset
<1> HIDE DEF T
<1>5. PICK i \in T : \A n \in T : i <= n
  BY <1>4, LeastOf
<1>6. i \in S /\ Cardinality(Upto(i)) >= r
  BY DEF T
<1>7. ASSUME Cardinality(Upto(i)) > r PROVE FALSE
  <2> DEFINE B == {m \in S : m < i}
  <2>0. i \in Nat /\ \A m \in S : m \in Nat
    BY <1>6
  <2>a. \A m \in S : m <= i <=> m < i \/ m = i
    BY <2>0
  <2>1. Upto(i) = B \union {i} /\ i \notin B
    <3>1. \A m : m \in Upto(i) <=> m \in B \union {i}
      BY <2>a, <1>6
    <3>2. i \notin B
      BY <2>0
    <3> HIDE DEF Upto, B
    <3> QED
      BY <3>1, <3>2
  <2>2. IsFiniteSet(B) /\ B \in SUBSET Nat
    BY FS_Subset
  <2>3. Cardinality(B) \in Nat /\ Cardinality(Upto(i)) = Cardinality(B) + 1
    BY <2>1, <2>2, FS_AddElement, FS_CardinalityType
  <2>4. Cardinality(B) >= r
    BY <1>7, <2>3
  <2>5. B # {}
    BY <2>4, FS_EmptySet
  <2> HIDE DEF B
  <2>6. PICK k \in B : \A m \in B : m <= k
    BY <2>2, <2>5, GreatestOf
  <2>7. k \in S /\ k < i /\ k \in Nat /\ i \in Nat
    BY <2>0, <2>6 DEF B
  <2>b. \A m \in S : m <= k <=> m < i
    <3> SUFFICES ASSUME NEW m \in S PROVE m <= k <=> m < i
      OBVIOUS
    <3>1. m < i => m \in B
      BY DEF B
    <3> QED
      BY <3>1, <2>0, <2>6, <2>7
  <2>c. Upto(k) = B
    BY <2>b DEF B
  <2>8. k \in T
    BY <2>4, <2>7, <2>c DEF T
  <2> QED
    BY <2>7, <2>8, <1>5
<1>8. i \in S /\ Cardinality(Upto(i)) = r
  BY <1>0, <1>6, <1>7
<1> QED
  BY <1>8, ImageCounts DEF Image!Nth

\* A part of a history is a history of some of its entries.
LEMMA PartsAreChosen ==
  ASSUME NEW V, NEW s \in Seq(V), NEW S \in SUBSET (1 .. Len(s))
  PROVE  /\ Image!Selected(s, S) \in Seq(V) /\ Len(Image!Selected(s, S)) = Cardinality(S) /\ Cardinality(S) \in Nat
         /\ \A r \in 1 .. Len(Image!Selected(s, S)) : \E n \in S : Image!Selected(s, S)[r] = s[n]
<1>1. IsFiniteSet(S) /\ Cardinality(S) \in Nat
  <2>1. IsFiniteSet(1 .. Len(s))
    BY FS_Interval
  <2> QED
    BY <2>1, FS_Subset, FS_CardinalityType
<1>2. \A r \in 1 .. Cardinality(S) : Image!Nth(S, r) \in S
  <2>1. S \in SUBSET Nat
    OBVIOUS
  <2> QED
    BY <1>1, <2>1, RankIsReached
<1>3. Image!Selected(s, S) = [r \in 1 .. Cardinality(S) |-> s[Image!Nth(S, r)]]
  BY ImageCounts DEF Image!Selected
<1>4. \A r \in 1 .. Cardinality(S) : s[Image!Nth(S, r)] \in V
  <2>1. \A n \in S : s[n] \in V
    OBVIOUS
  <2> QED
    BY <1>2, <2>1
<1>5. Image!Selected(s, S) \in Seq(V) /\ Len(Image!Selected(s, S)) = Cardinality(S)
  BY <1>1, <1>3, <1>4
<1> QED
  BY <1>1, <1>2, <1>3, <1>5

\* Of what receipts, machines and images are made.
ImageReceipts == [boot : 0..MaxBoots, hardware : 0..1, disk : 0..MaxBoots]
ImageMachines == [power : {"poweroff", "running", "paused"}, boot : 0..MaxBoots, hardware : 0..1, media : BOOLEAN,
             session : BOOLEAN, cut : SUBSET (1..MaxBoots)]
ImageStates == [qualification : ImageReceipts, history : Seq(ImageReceipts), pending : BOOLEAN, protected : BOOLEAN,
           verified : BOOLEAN, base : Seq(ImageReceipts)]

\* No boot in a history was cut, and while the machine is on all are over.
HistorySound(h, m) ==
  /\ Len(h) <= Image!Kept
  /\ \A n \in 1 .. Len(h) : /\ h[n].boot \notin m.cut
                            /\ h[n].boot <= m.boot
                            /\ m.power # "poweroff" => h[n].boot < m.boot

\* What is qualified was not cut as long as the machine is on or a shutdown is
\* under way.
QualifiedSound(q, m, c) ==
  /\ q.boot <= m.boot
  /\ m.power # "poweroff" \/ c = "shutdown" => q.boot \notin m.cut

\* The boots that were cut are past ones.
MachineSound(m) ==
  /\ \A b \in m.cut : b <= m.boot
  /\ m.power # "poweroff" => m.boot # 0 /\ m.boot \notin m.cut

BaseSound(i, m) == \A n \in 1 .. Len(i.base) : i.base[n].boot \notin m.cut

\* The inductive invariant of a candidate and its image.
ImageInv ==
  /\ vm \in ImageMachines /\ image \in ImageStates /\ command \in {"none", "shutdown", "promote"}
  /\ MachineSound(vm) /\ HistorySound(image.history, vm)
  /\ QualifiedSound(image.qualification, vm, command)
  /\ command = "promote" => vm.power = "poweroff" /\ Image!Promotable(Image!Matches(image)) /\ ~image.protected
  /\ image.protected => vm.power = "poweroff" /\ command = "none" /\ Image!Promotable(image.base) /\ BaseSound(image, vm)

LEMMA ImageStarts == ASSUME Image!BootsAreBounded, Image!ImageInit PROVE ImageInv
<1> USE DEF Image!BootsAreBounded, Image!ImageInit, Image!NoReceipt
<1>1. vm \in ImageMachines
  BY DEF ImageMachines
<1>2. image \in ImageStates
  BY DEF ImageStates, ImageReceipts
<1> QED
  BY <1>1, <1>2 DEF ImageInv, MachineSound, HistorySound, QualifiedSound, Image!Kept

\* invalidate() and starting() leave an image sound.
LEMMA Invalidating ==
  ASSUME Image!BootsAreBounded, ImageInv, NEW h \in BOOLEAN
  PROVE  /\ Image!Invalidated(image, h) \in ImageStates /\ Image!Invalidated(image, h).qualification = Image!NoReceipt
         /\ Image!Invalidated(image, h).history = (IF h THEN <<>> ELSE image.history)
         /\ Image!Invalidated(image, h).protected = image.protected /\ Image!Invalidated(image, h).base = image.base
         /\ Image!Starting(image) \in ImageStates /\ Image!Starting(image).qualification = Image!NoReceipt
         /\ Image!Starting(image).history = image.history
         /\ Image!Starting(image).protected = image.protected
<1>1. Image!NoReceipt \in ImageReceipts /\ image \in ImageStates
  BY DEF Image!NoReceipt, ImageReceipts, Image!BootsAreBounded, ImageInv
<1>2. ASSUME NEW g \in BOOLEAN
      PROVE  /\ Image!Invalidated(image, g) \in ImageStates /\ Image!Invalidated(image, g).qualification = Image!NoReceipt
             /\ Image!Invalidated(image, g).history = (IF g THEN <<>> ELSE image.history)
             /\ Image!Invalidated(image, g).protected = image.protected /\ Image!Invalidated(image, g).base = image.base
  <2> DEFINE H == Seq(ImageReceipts)
             new == IF g THEN <<>> ELSE image.history
  <2>1. new \in H
    BY <1>1 DEF ImageStates
  <2>i. ImageStates = [qualification : ImageReceipts, history : H, pending : BOOLEAN, protected : BOOLEAN,
                   verified : BOOLEAN, base : H]
    BY DEF ImageStates
  <2>n. new = IF g THEN <<>> ELSE image.history
    OBVIOUS
  <2> HIDE DEF H, new
  <2>2. Image!Invalidated(image, g) = [image EXCEPT !.qualification = Image!NoReceipt, !.history = new]
    BY <2>n DEF Image!Invalidated
  <2>3. /\ Image!Invalidated(image, g) \in ImageStates /\ Image!Invalidated(image, g).qualification = Image!NoReceipt
        /\ Image!Invalidated(image, g).history = new
        /\ Image!Invalidated(image, g).protected = image.protected /\ Image!Invalidated(image, g).base = image.base
    BY <1>1, <2>1, <2>i, <2>2
  <2> QED
    BY <2>n, <2>3
<1>3. FALSE \in BOOLEAN /\ TRUE \in BOOLEAN
  OBVIOUS
<1>4. /\ Image!Starting(image) \in ImageStates /\ Image!Starting(image).qualification = Image!NoReceipt
      /\ Image!Starting(image).history = image.history
      /\ Image!Starting(image).protected = image.protected
  <2>1. Image!Starting(image) = [Image!Invalidated(image, FALSE) EXCEPT !.pending = TRUE]
    BY DEF Image!Starting
  <2> DEFINE H == Seq(ImageReceipts)
             i == Image!Invalidated(image, FALSE)
  <2>i. ImageStates = [qualification : ImageReceipts, history : H, pending : BOOLEAN, protected : BOOLEAN,
                   verified : BOOLEAN, base : H]
    BY DEF ImageStates
  <2>2. /\ i \in ImageStates /\ i.qualification = Image!NoReceipt /\ i.history = image.history
        /\ i.protected = image.protected
    BY <1>2, <1>3
  <2>3. Image!Starting(image) = [i EXCEPT !.pending = TRUE]
    BY <2>1
  <2> HIDE DEF H, i
  <2> QED
    BY <2>i, <2>2, <2>3
<1> QED
  BY <1>2, <1>4

\* A candidate without a qualification, and with no more history than before,
\* is sound in any machine that has not cut what it remembers.
LEMMA UnqualifiedIsSound ==
  ASSUME Image!BootsAreBounded, ImageInv, vm' \in ImageMachines, image' \in ImageStates, command' = "none",
         ~image'.protected, 
         image'.qualification = Image!NoReceipt, MachineSound(vm'), HistorySound(image'.history, vm')
  PROVE  ImageInv'
<1>1. QualifiedSound(Image!NoReceipt, vm', command')
  BY DEF QualifiedSound, Image!NoReceipt, ImageMachines, Image!BootsAreBounded
<1> QED
  BY <1>1 DEF ImageInv

LEMMA EmptyHistoryIsSound == ASSUME NEW m PROVE HistorySound(<<>>, m)
BY DEF HistorySound, Image!Kept

\* stopped(): the new receipt is of the boot that was qualified.
LEMMA CleaningIsSound ==
  ASSUME Image!BootsAreBounded, ImageInv, command = "shutdown", vm.power = "poweroff", NEW recent \in BOOLEAN
  PROVE  LET i == Image!Clean(image, recent) IN
         /\ i \in ImageStates /\ HistorySound(i.history, vm) /\ i.qualification = Image!NoReceipt
         /\ i.protected = image.protected
<1>c. /\ vm \in ImageMachines /\ image \in ImageStates /\ HistorySound(image.history, vm)
      /\ QualifiedSound(image.qualification, vm, command)
  BY DEF ImageInv
<1> DEFINE i == Image!Clean(image, recent)
<1>1. CASE image.qualification = Image!NoReceipt
  BY <1>1, <1>c DEF Image!Clean
<1>2. CASE image.qualification # Image!NoReceipt /\ (~recent \/ image.qualification.hardware # vm.hardware)
  BY <1>2, <1>c, Invalidating DEF Image!Clean
<1>3. CASE image.qualification # Image!NoReceipt /\ recent /\ image.qualification.hardware = vm.hardware
  <2> DEFINE receipt == [image.qualification EXCEPT !.disk = vm.boot]
             S == {n \in DOMAIN image.history : image.history[n].boot # receipt.boot}
             others == Image!Selected(image.history, S)
             from == IF Len(others) < Image!Kept THEN 1 ELSE Len(others) - Image!Kept + 2
             kept == SubSeq(others, from, Len(others))
             entries == Append(kept, receipt)
  <2>1. i = [Image!Invalidated(image, FALSE) EXCEPT !.history = entries, !.pending = FALSE]
    BY <1>3 DEF Image!Clean
  <2>2. receipt \in ImageReceipts /\ receipt.boot = image.qualification.boot
    BY <1>c DEF ImageStates, ImageReceipts, ImageMachines
  <2>3. image.history \in Seq(ImageReceipts) /\ S \in SUBSET (1 .. Len(image.history))
    BY <1>c DEF ImageStates
  <2> HIDE DEF S, receipt
  <2>4. /\ others \in Seq(ImageReceipts)
        /\ \A r \in 1 .. Len(others) : \E n \in 1 .. Len(image.history) : others[r] = image.history[n]
    BY <2>3, PartsAreChosen
  <2> HIDE DEF others
  <2>l. Len(others) \in Nat
    BY <2>4
  <2>5. from \in Nat \ {0} /\ Len(others) - from + 1 <= Image!Kept - 1
    <3> DEFINE l == Len(others)
    <3>1. l \in Nat /\ from = IF l < 10 THEN 1 ELSE l - 10 + 2
      BY <2>l DEF Image!Kept
    <3> HIDE DEF l, from
    <3>2. from \in Nat \ {0} /\ l - from + 1 <= 9
      BY <3>1
    <3> QED
      BY <3>2 DEF l, Image!Kept
  <2> HIDE DEF from
  <2>6. /\ kept \in Seq(ImageReceipts) /\ Len(kept) <= Image!Kept - 1
        /\ \A r \in 1 .. Len(kept) : \E n \in 1 .. Len(others) : kept[r] = others[n]
    <3>1. kept = [r \in 1 .. (IF from <= Len(others) THEN Len(others) - from + 1 ELSE 0) |-> others[from + r - 1]]
      BY <2>4, <2>5
    <3>2. \A r \in 1 .. (IF from <= Len(others) THEN Len(others) - from + 1 ELSE 0) : from + r - 1 \in 1 .. Len(others)
      BY <2>4, <2>5
    <3>3. \A r \in 1 .. (IF from <= Len(others) THEN Len(others) - from + 1 ELSE 0) : others[from + r - 1] \in ImageReceipts
      BY <2>4, <3>2
    <3> HIDE DEF kept
    <3>4. kept \in Seq(ImageReceipts) /\ Len(kept) = IF from <= Len(others) THEN Len(others) - from + 1 ELSE 0
      BY <3>1, <3>3, <2>4, <2>5
    <3> QED
      BY <3>1, <3>2, <3>4, <2>5 DEF Image!Kept
  <2> HIDE DEF kept
  <2>7. /\ entries \in Seq(ImageReceipts) /\ Len(entries) = Len(kept) + 1 /\ entries[Len(kept) + 1] = receipt
        /\ \A r \in 1 .. Len(kept) : entries[r] = kept[r]
    BY <2>2, <2>6
  <2> HIDE DEF entries
  <2>8. /\ Image!Invalidated(image, FALSE) \in ImageStates /\ Image!Invalidated(image, FALSE).qualification = Image!NoReceipt
        /\ Image!Invalidated(image, FALSE).protected = image.protected
    BY Invalidating
  <2>9. i \in ImageStates /\ i.qualification = Image!NoReceipt /\ i.history = entries /\ i.protected = image.protected
    <3> DEFINE H == Seq(ImageReceipts)
               j == Image!Invalidated(image, FALSE)
    <3>i. ImageStates = [qualification : ImageReceipts, history : H, pending : BOOLEAN, protected : BOOLEAN,
                     verified : BOOLEAN, base : H]
      BY DEF ImageStates
    <3>1. j \in ImageStates /\ j.qualification = Image!NoReceipt /\ j.protected = image.protected /\ entries \in H
      BY <2>7, <2>8
    <3>2. i = [j EXCEPT !.history = entries, !.pending = FALSE]
      BY <2>1
    <3> HIDE DEF H, i, j
    <3> QED
      BY <3>i, <3>1, <3>2
  <2>10. receipt.boot \notin vm.cut /\ receipt.boot <= vm.boot
    BY <2>2, <1>c DEF QualifiedSound
  <2>11. \A r \in 1 .. Len(entries) : entries[r] = receipt \/ \E n \in 1 .. Len(image.history) : entries[r] = image.history[n]
    <3> SUFFICES ASSUME NEW r \in 1 .. Len(entries)
                 PROVE  entries[r] = receipt \/ \E n \in 1 .. Len(image.history) : entries[r] = image.history[n]
      OBVIOUS
    <3>1. Len(kept) \in Nat /\ (r = Len(kept) + 1 \/ r \in 1 .. Len(kept))
      BY <2>6, <2>7
    <3>2. CASE r \in 1 .. Len(kept)
      <4>1. PICK n \in 1 .. Len(others) : kept[r] = others[n]
        BY <2>6, <3>2
      <4> QED
        BY <4>1, <2>4, <2>7, <3>2
    <3> QED
      BY <3>1, <3>2, <2>7
  <2>12. HistorySound(entries, vm)
    <3>1. Len(entries) <= Image!Kept
      BY <2>6, <2>7 DEF Image!Kept
    <3>2. \A n \in 1 .. Len(image.history) : image.history[n].boot \notin vm.cut /\ image.history[n].boot <= vm.boot
      BY <1>c DEF HistorySound
    <3>3. \A r \in 1 .. Len(entries) : entries[r].boot \notin vm.cut /\ entries[r].boot <= vm.boot
      BY <2>10, <2>11, <3>2
    <3> QED
      BY <3>1, <3>3 DEF HistorySound
  <2> QED
    BY <2>9, <2>12
<1> QED
  BY <1>1, <1>2, <1>3

\* The entries that match are entries of the history.
LEMMA MatchesAreChosen ==
  ASSUME ImageInv
  PROVE  /\ Image!Matches(image) \in Seq(ImageReceipts)
         /\ \A r \in 1 .. Len(Image!Matches(image)) : Image!Matches(image)[r].boot \notin vm.cut
<1> DEFINE S == {n \in DOMAIN image.history : image.history[n].hardware = vm.hardware}
<1>1. image.history \in Seq(ImageReceipts) /\ S \in SUBSET (1 .. Len(image.history))
  BY DEF ImageInv, ImageStates
<1>2. Image!Matches(image) = Image!Selected(image.history, S)
  BY DEF Image!Matches
<1> HIDE DEF S
<1>3. \A n \in S : image.history[n].boot \notin vm.cut
  BY <1>1 DEF ImageInv, HistorySound
<1> QED
  BY <1>1, <1>2, <1>3, PartsAreChosen
\* A step of the machine alone.
LEMMA MachineMoves ==
  ASSUME ImageInv, UNCHANGED image, vm' \in ImageMachines, MachineSound(vm'), command' \in {"none", "shutdown"},
         ~image.protected, HistorySound(image.history, vm'),
         QualifiedSound(image.qualification, vm', command')
  PROVE  ImageInv'
BY DEF ImageInv

LEMMA PastBootsAreNumbers ==
  ASSUME Image!BootsAreBounded, image \in ImageStates
  PROVE  image.qualification.boot \in Nat /\ \A n \in 1 .. Len(image.history) : image.history[n].boot \in Nat
<1>1. image.history \in Seq(ImageReceipts) /\ image.qualification \in ImageReceipts
  BY DEF ImageStates
<1>2. \A r \in ImageReceipts : r.boot \in Nat
  BY DEF ImageReceipts, Image!BootsAreBounded
<1>3. \A n \in 1 .. Len(image.history) : image.history[n] \in ImageReceipts
  BY <1>1
<1> QED
  BY <1>1, <1>2, <1>3

LEMMA OperatorKeeps ==
  ASSUME Image!BootsAreBounded, ImageInv,
         Image!Up \/ Image!UpFails \/ Image!Login \/ Image!Credential \/ Image!DetachMedia \/ Image!Qualify \/ Image!Hardware \/ Image!Recovery \/ Image!ForceStop
  PROVE  ImageInv'
<1> USE DEF Image!BootsAreBounded
<1>c. /\ vm \in ImageMachines /\ image \in ImageStates /\ MachineSound(vm) /\ HistorySound(image.history, vm)
      /\ QualifiedSound(image.qualification, vm, command)
  BY DEF ImageInv
<1>f. FALSE \in BOOLEAN /\ TRUE \in BOOLEAN
  OBVIOUS
<1>1. CASE Image!Up
  <2>1. /\ image' = Image!Starting(image) /\ command' = "none" /\ ~image.protected
        /\ vm' = [vm EXCEPT !.power = "running", !.boot = vm.boot + 1, !.session = FALSE]
        /\ vm.power = "poweroff" /\ vm.boot < MaxBoots
    BY <1>1 DEF Image!Up, Image!Admitted
  <2>2. vm' \in ImageMachines /\ vm'.boot = vm.boot + 1 /\ vm'.cut = vm.cut
    <3>1. vm.boot + 1 \in 0..MaxBoots
      BY <2>1, <1>c DEF ImageMachines
    <3> QED
      BY <2>1, <3>1, <1>c DEF ImageMachines
  <2>3. MachineSound(vm')
    BY <2>2, <1>c DEF MachineSound, ImageMachines
  <2>4. HistorySound(image.history, vm')
    <3>1. \A n \in 1 .. Len(image.history) : image.history[n].boot \in Nat
      BY <1>c, PastBootsAreNumbers
    <3> QED
      BY <3>1, <2>2, <1>c DEF HistorySound, ImageMachines
  <2> QED
    BY <2>1, <2>2, <2>3, <2>4, <1>f, Invalidating, UnqualifiedIsSound
<1>2. CASE Image!UpFails
  BY <1>2, <1>c, <1>f, Invalidating, UnqualifiedIsSound DEF Image!UpFails, Image!Admitted
<1>3. CASE Image!Login \/ Image!DetachMedia
  <2>1. PICK b \in BOOLEAN : vm' = [vm EXCEPT !.session = b] \/ vm' = [vm EXCEPT !.media = b]
    BY <1>3 DEF Image!Login, Image!DetachMedia
  <2>2. vm' \in ImageMachines /\ vm'.boot = vm.boot /\ vm'.cut = vm.cut /\ vm'.power = vm.power
    BY <2>1, <1>c DEF ImageMachines
  <2>3. MachineSound(vm') /\ HistorySound(image.history, vm')
    BY <2>2, <1>c DEF MachineSound, HistorySound
  <2>4. QualifiedSound(image.qualification, vm', command')
    BY <2>2, <1>3, <1>c DEF QualifiedSound, Image!Login, Image!DetachMedia
  <2> QED
    BY <2>2, <2>3, <2>4, <1>3, MachineMoves DEF Image!Login, Image!DetachMedia, Image!Admitted
<1>4. CASE Image!Credential
  <2>1. image' = [image EXCEPT !.verified = TRUE] /\ UNCHANGED <<vm, command>> /\ command = "none" /\ ~image.protected
    BY <1>4 DEF Image!Credential, Image!Admitted
  <2> DEFINE H == Seq(ImageReceipts)
  <2>2. ImageStates = [qualification : ImageReceipts, history : H, pending : BOOLEAN, protected : BOOLEAN,
                  verified : BOOLEAN, base : H]
    BY DEF ImageStates
  <2> HIDE DEF H
  <2>3. /\ image' \in ImageStates /\ image'.history = image.history
        /\ image'.qualification = image.qualification /\ ~image'.protected
    BY <2>1, <2>2, <1>c
  <2> QED
    BY <2>1, <2>3, <1>c DEF ImageInv
<1>5. CASE Image!Qualify
  <2> DEFINE q == [boot |-> vm.boot, hardware |-> vm.hardware, disk |-> 0]
  <2>1. /\ image' = [image EXCEPT !.verified = TRUE, !.qualification = q] /\ UNCHANGED <<vm, command>>
        /\ command = "none" /\ ~image.protected /\ vm.power = "running"
    BY <1>5 DEF Image!Qualify, Image!Admitted, Image!Ready
  <2>q. q \in ImageReceipts /\ q.boot = vm.boot
    BY <1>c DEF ImageReceipts, ImageMachines
  <2> DEFINE H == Seq(ImageReceipts)
  <2>2. ImageStates = [qualification : ImageReceipts, history : H, pending : BOOLEAN, protected : BOOLEAN,
                  verified : BOOLEAN, base : H]
    BY DEF ImageStates
  <2> HIDE DEF H, q
  <2>3. image' \in ImageStates /\ image'.history = image.history /\ image'.qualification = q /\ ~image'.protected
    BY <2>1, <2>2, <2>q, <1>c
  <2>4. QualifiedSound(q, vm, command)
    BY <2>1, <2>q, <1>c DEF QualifiedSound, MachineSound, ImageMachines
  <2> QED
    BY <2>1, <2>3, <2>4, <1>c DEF ImageInv
<1>6. CASE Image!Hardware
  <2>1. PICK h \in 0..1 : vm' = [vm EXCEPT !.hardware = h]
    BY <1>6 DEF Image!Hardware
  <2>2. vm' \in ImageMachines /\ vm'.boot = vm.boot /\ vm'.cut = vm.cut /\ vm'.power = vm.power
    BY <2>1, <1>c DEF ImageMachines
  <2>3. MachineSound(vm')
    BY <2>2, <1>c DEF MachineSound
  <2>4. image' = Image!Invalidated(image, TRUE) /\ command' = "none" /\ ~image.protected
    BY <1>6 DEF Image!Hardware, Image!Admitted
  <2>5. image'.history = <<>>
    BY <2>4, <1>f, Invalidating
  <2>6. HistorySound(image'.history, vm')
    BY <2>5, EmptyHistoryIsSound
  <2> QED
    BY <2>2, <2>3, <2>4, <2>6, <1>f, Invalidating, UnqualifiedIsSound
<1>7. CASE Image!Recovery \/ Image!ForceStop
  <2>1. /\ vm' \in {vm, [vm EXCEPT !.power = "poweroff", !.cut = vm.cut \union {vm.boot}]}
        /\ image' = Image!Invalidated(image, TRUE) /\ command' = "none" /\ ~image.protected /\ vm.power # "poweroff"
    BY <1>7, <1>c DEF Image!Recovery, Image!ForceStop, Image!Admitted, ImageMachines
  <2>2. vm' \in ImageMachines /\ MachineSound(vm')
    <3>1. vm.boot \in 1..MaxBoots
      BY <2>1, <1>c DEF MachineSound, ImageMachines
    <3>2. CASE vm' = vm
      BY <3>2, <1>c
    <3>3. CASE vm' = [vm EXCEPT !.power = "poweroff", !.cut = vm.cut \union {vm.boot}]
      <4>1. vm' \in ImageMachines /\ vm'.boot = vm.boot /\ vm'.cut = vm.cut \union {vm.boot} /\ vm'.power = "poweroff"
        BY <3>1, <3>3, <1>c DEF ImageMachines
      <4> QED
        BY <4>1, <3>1, <1>c DEF MachineSound
    <3> QED
      BY <3>2, <3>3, <2>1
  <2>5. image'.history = <<>>
    BY <2>1, <1>f, Invalidating
  <2>6. HistorySound(image'.history, vm')
    BY <2>5, EmptyHistoryIsSound
  <2> QED
    BY <2>1, <2>2, <2>6, <1>f, Invalidating, UnqualifiedIsSound
<1> QED
  BY <1>1, <1>2, <1>3, <1>4, <1>5, <1>6, <1>7

LEMMA ShutdownKeeps ==
  ASSUME Image!BootsAreBounded, ImageInv,
         Image!Shutdown \/ Image!ShutdownSeen \/ Image!Reschedule \/ Image!ShutdownUnconfirmed
  PROVE  ImageInv'
<1> USE DEF Image!BootsAreBounded
<1>c. /\ vm \in ImageMachines /\ image \in ImageStates /\ MachineSound(vm) /\ HistorySound(image.history, vm)
      /\ QualifiedSound(image.qualification, vm, command) /\ (command = "shutdown" => ~image.protected)
  BY DEF ImageInv
<1>1. CASE Image!Shutdown
  BY <1>1, <1>c, MachineMoves DEF Image!Shutdown, Image!Admitted, QualifiedSound
<1>2. CASE Image!ShutdownSeen
  <2>1. PICK recent \in BOOLEAN : image' = Image!Clean(image, recent)
    BY <1>2 DEF Image!ShutdownSeen
  <2>2. /\ image' \in ImageStates /\ HistorySound(image'.history, vm) /\ image'.qualification = Image!NoReceipt
        /\ image'.protected = image.protected
    BY <2>1, <1>2, CleaningIsSound DEF Image!ShutdownSeen
  <2> QED
    BY <2>2, <1>2, <1>c, UnqualifiedIsSound DEF Image!ShutdownSeen
<1>3. CASE Image!Reschedule
  <2>1. vm' \in ImageMachines /\ vm'.boot = vm.boot /\ vm'.cut = vm.cut /\ vm'.power # "poweroff"
    BY <1>3, <1>c DEF Image!Reschedule, ImageMachines
  <2>2. vm.power # "poweroff" /\ command' = "shutdown" /\ UNCHANGED <<image, command>>
    BY <1>3 DEF Image!Reschedule
  <2>3. MachineSound(vm') /\ HistorySound(image.history, vm') /\ QualifiedSound(image.qualification, vm', command')
    BY <2>1, <2>2, <1>c DEF MachineSound, HistorySound, QualifiedSound
  <2> QED
    BY <2>1, <2>2, <2>3, <1>c, MachineMoves
<1>4. CASE Image!ShutdownUnconfirmed
  BY <1>4, <1>c, MachineMoves DEF Image!ShutdownUnconfirmed, QualifiedSound
<1> QED
  BY <1>1, <1>2, <1>3, <1>4

LEMMA PromotionKeeps ==
  ASSUME Image!BootsAreBounded, ImageInv, Image!Promote \/ Image!PromoteEnds \/ Image!CredentialStale
  PROVE  ImageInv'
<1> USE DEF Image!BootsAreBounded
<1>c. /\ vm \in ImageMachines /\ image \in ImageStates /\ MachineSound(vm) /\ HistorySound(image.history, vm)
      /\ QualifiedSound(image.qualification, vm, command)
  BY DEF ImageInv
<1> DEFINE H == Seq(ImageReceipts)
<1>H. ImageStates = [qualification : ImageReceipts, history : H, pending : BOOLEAN, protected : BOOLEAN,
                verified : BOOLEAN, base : H]
  BY DEF ImageStates
<1>m. /\ Image!Matches(image) \in H
      /\ \A r \in 1 .. Len(Image!Matches(image)) : Image!Matches(image)[r].boot \notin vm.cut
  BY MatchesAreChosen
<1> HIDE DEF H
<1>1. CASE Image!Promote
  <2>1. /\ UNCHANGED <<vm, image>> /\ command' = "promote" /\ vm.power = "poweroff" /\ ~image.protected
        /\ Image!Promotable(Image!Matches(image))
    BY <1>1 DEF Image!Promote, Image!Admitted
  <2>2. Image!Promotable(Image!Matches(image))'
    BY <2>1 DEF Image!Promotable, Image!Matches, Image!Selected
  <2>3. QualifiedSound(image.qualification, vm, command')
    BY <2>1, <1>c DEF QualifiedSound
  <2> QED
    BY <2>1, <2>2, <2>3, <1>c DEF ImageInv
<1>2. CASE Image!PromoteEnds
  <2>1. /\ command = "promote" /\ command' = "none" /\ UNCHANGED vm
        /\ vm.power = "poweroff" /\ Image!Promotable(Image!Matches(image)) /\ ~image.protected
    BY <1>2 DEF Image!PromoteEnds, ImageInv
  <2>3. QualifiedSound(image.qualification, vm, command')
    BY <2>1, <1>c DEF QualifiedSound
  <2>4. CASE image' = image
    BY <2>1, <2>3, <2>4, <1>c DEF ImageInv
  <2>5. CASE image' = [image EXCEPT !.protected = TRUE, !.base = Image!Matches(image)]
    <3>1. /\ image' \in ImageStates /\ image'.history = image.history /\ image'.qualification = image.qualification
          /\ image'.base = Image!Matches(image)
      BY <2>5, <1>c, <1>H, <1>m
    <3>2. Image!Promotable(image.base)'
      BY <2>1, <3>1 DEF Image!Promotable
    <3>3. BaseSound(image', vm)
      BY <3>1, <1>m DEF BaseSound
    <3> QED
      BY <2>1, <2>3, <3>1, <3>2, <3>3, <1>c DEF ImageInv
  <2> QED
    BY <2>4, <2>5, <1>2 DEF Image!PromoteEnds
<1>3. CASE Image!CredentialStale
  <2>1. image' = [image EXCEPT !.verified = FALSE] /\ UNCHANGED <<vm, command>>
    BY <1>3 DEF Image!CredentialStale
  <2>2. /\ image' \in ImageStates /\ image'.history = image.history /\ image'.qualification = image.qualification
        /\ image'.protected = image.protected /\ image'.base = image.base
    BY <2>1, <1>c, <1>H
  <2>3. Image!Promotable(Image!Matches(image)) => Image!Promotable(Image!Matches(image))'
    <3>1. {n \in DOMAIN image'.history : image'.history[n].hardware = vm'.hardware}
            = {n \in DOMAIN image.history : image.history[n].hardware = vm.hardware}
      BY <2>1, <2>2
    <3>2. Image!Matches(image)' = Image!Matches(image)
      BY <2>2, <3>1 DEF Image!Matches, Image!Selected
    <3> QED
      BY <2>1, <3>2 DEF Image!Promotable
  <2>4. Image!Promotable(image.base) => Image!Promotable(image.base)'
    BY <2>1, <2>2 DEF Image!Promotable
  <2> QED
    BY <2>1, <2>2, <2>3, <2>4, <1>c DEF ImageInv, BaseSound
<1> QED
  BY <1>1, <1>2, <1>3

LEMMA GuestKeeps ==
  ASSUME Image!BootsAreBounded, ImageInv, Image!GuestStops \/ Image!GuestRestarted
  PROVE  ImageInv'
<1> USE DEF Image!BootsAreBounded
<1>c. /\ vm \in ImageMachines /\ image \in ImageStates /\ MachineSound(vm) /\ HistorySound(image.history, vm)
      /\ QualifiedSound(image.qualification, vm, command)
  BY DEF ImageInv
<1>d. vm.power = "running" /\ UNCHANGED <<image, command>> /\ ~image.protected /\ command \in {"none", "shutdown"}
  BY DEF Image!GuestStops, Image!GuestRestarted, ImageInv
<1>b. vm.boot \in 1..MaxBoots
  BY <1>c, <1>d DEF MachineSound, ImageMachines
<1>n. /\ \A n \in 1 .. Len(image.history) : image.history[n].boot \in Nat
      /\ image.qualification.boot \in Nat
  BY <1>c, PastBootsAreNumbers
<1>1. CASE Image!GuestStops
  <2> DEFINE cut == IF command = "shutdown" THEN vm.cut ELSE vm.cut \union {vm.boot}
  <2>1. vm' = [vm EXCEPT !.power = "poweroff", !.cut = cut]
    BY <1>1 DEF Image!GuestStops
  <2>2. /\ cut \in SUBSET (1..MaxBoots) /\ (command = "shutdown" => cut = vm.cut)
        /\ cut \subseteq vm.cut \union {vm.boot}
    BY <1>b, <1>c DEF ImageMachines
  <2> HIDE DEF cut
  <2>3. vm' \in ImageMachines /\ vm'.boot = vm.boot /\ vm'.cut = cut /\ vm'.power = "poweroff"
    BY <2>1, <2>2, <1>c DEF ImageMachines
  <2>4. MachineSound(vm')
    <3>1. \A b \in vm.cut \union {vm.boot} : b <= vm.boot
      BY <1>b, <1>c DEF MachineSound
    <3> QED
      BY <2>2, <2>3, <3>1 DEF MachineSound
  <2>5. HistorySound(image.history, vm')
    BY <2>2, <2>3, <1>b, <1>c, <1>d, <1>n DEF HistorySound
  <2>6. QualifiedSound(image.qualification, vm', command')
    BY <2>2, <2>3, <1>c, <1>d DEF QualifiedSound
  <2> QED
    BY <2>3, <2>4, <2>5, <2>6, <1>d, MachineMoves
<1>2. CASE Image!GuestRestarted
  <2>1. vm' = [vm EXCEPT !.boot = vm.boot + 1, !.session = FALSE] /\ vm.boot < MaxBoots
    BY <1>2 DEF Image!GuestRestarted
  <2>2. /\ vm' \in ImageMachines /\ vm'.boot = vm.boot + 1 /\ vm'.cut = vm.cut
        /\ vm'.power = "running"
    <3>1. vm.boot + 1 \in 0..MaxBoots
      BY <2>1, <1>b
    <3> QED
      BY <2>1, <3>1, <1>c, <1>d DEF ImageMachines
  <2>3. MachineSound(vm')
    BY <2>2, <1>b, <1>c DEF MachineSound, ImageMachines
  <2>4. HistorySound(image.history, vm')
    BY <2>2, <1>b, <1>c, <1>d, <1>n DEF HistorySound
  <2>5. QualifiedSound(image.qualification, vm', command')
    BY <2>2, <1>b, <1>c, <1>d, <1>n DEF QualifiedSound
  <2> QED
    BY <2>2, <2>3, <2>4, <2>5, <1>d, MachineMoves
<1> QED
  BY <1>1, <1>2

LEMMA ImageKeeps == ASSUME Image!BootsAreBounded, ImageInv, [Image!ImageNext]_(Image!imageVars) PROVE ImageInv'
<1>1. CASE UNCHANGED Image!imageVars
  <2>1. UNCHANGED <<vm, image, command>>
    BY <1>1 DEF Image!imageVars
  <2>2. /\ (Image!Promotable(Image!Matches(image))' <=> Image!Promotable(Image!Matches(image)))
        /\ (Image!Promotable(image.base)' <=> Image!Promotable(image.base))
    BY <2>1 DEF Image!Promotable, Image!Matches, Image!Selected
  <2> QED
    BY <2>1, <2>2 DEF ImageInv, BaseSound
<1> QED
  BY <1>1, OperatorKeeps, ShutdownKeeps, PromotionKeeps, GuestKeeps DEF Image!ImageNext

LEMMA ImageGives == ASSUME Image!BootsAreBounded, ImageInv PROVE Image!ImageTypeOK /\ Image!PromotionIsEarned
<1>1. Image!ImageTypeOK
  <2>1. image.qualification \in ImageReceipts /\ Len(image.history) <= Image!Kept
    BY DEF ImageInv, ImageStates, HistorySound
  <2>2. image.pending \in BOOLEAN /\ image.protected \in BOOLEAN /\ image.verified \in BOOLEAN
    BY DEF ImageInv, ImageStates
  <2> QED
    BY <2>1, <2>2 DEF Image!ImageTypeOK, ImageInv, ImageMachines, ImageReceipts
<1>2. image.base \in Seq(ImageReceipts)
  BY DEF ImageInv, ImageStates
<1>3. Image!PromotionIsEarned
  BY <1>2 DEF ImageInv, BaseSound, Image!PromotionIsEarned
<1> QED
  BY <1>1, <1>3

\* A protected base rests on three distinct boots that were qualified and shut
\* down as they were told, for any number of boots and whatever is cut off in
\* between (adapter.py and images.py of virtualbox-windows).
THEOREM PromotionIsAlwaysEarned ==
  ASSUME Image!BootsAreBounded
  PROVE  Image!ImageSpec => [](Image!ImageTypeOK /\ Image!PromotionIsEarned)
<1>1. Image!ImageInit => ImageInv
  BY ImageStarts
<1>2. ImageInv /\ [Image!ImageNext]_(Image!imageVars) => ImageInv'
  BY ImageKeeps
<1>3. ImageInv => Image!ImageTypeOK /\ Image!PromotionIsEarned
  BY ImageGives
<1> QED
  BY <1>1, <1>2, <1>3, PTL DEF Image!ImageSpec

-----------------------------------------------------------------------------
(* Control of a desktop.                                                   *)

\* The finite sets of the component are those of the library.
LEMMA ControlCounts == \A S : (Control!IsFiniteSet(S) <=> IsFiniteSet(S)) /\ Control!Cardinality(S) = Cardinality(S)
BY DEF Control!IsFiniteSet, IsFiniteSet, Control!Cardinality, Cardinality

\* What desktops, requests and replies are made of.
Reference == (1..MaxGeneration) \X (1..MaxSnapshot)
Calling == [at : {"idle", "start", "effect", "look"}, kind : Control!Kind, reference : Reference \union {<<0, 0>>},
            node : 0..MaxNode, done : Nat, touched : BOOLEAN]
Replies == [accepted : BOOLEAN, effect : {"refused", "unverifiable", "observed", "not_applicable"}, touched : BOOLEAN,
            reference : Reference \union {<<0, 0>>}, node : 0..MaxNode]

ControlTyped ==
  /\ desktop.node \in 1..MaxNode
  /\ resident \in [generation : 1..MaxGeneration, sequence : 0..MaxSnapshot, snapshots : [1..MaxSnapshot -> 0..MaxNode]]
  /\ shown \in [Reference -> 0..MaxNode]
  /\ asked \in Calling
  /\ reply \in Replies

\* What a resident remembers is what it gave out last, under its own generation.
Remembered ==
  /\ \A s \in 1..MaxSnapshot : resident.snapshots[s] # 0 =>
       /\ resident.snapshots[s] = shown[<<resident.generation, s>>]
       /\ s <= resident.sequence /\ resident.sequence < s + SnapshotsKept
  /\ \A g \in 1..MaxGeneration, s \in 1..MaxSnapshot : shown[<<g, s>>] # 0 =>
       g < resident.generation \/ (g = resident.generation /\ s <= resident.sequence)

\* An operation on an element has a reference that was given out, and from its
\* effect on the element of that reference.
CallSound ==
  IF asked.at = "idle" THEN asked = Control!Idle
  ELSE IF asked.kind \in Control!Referred
  THEN /\ asked.reference \in Control!Given
       /\ asked.at \in {"effect", "look"} => asked.node = shown[asked.reference]
       /\ asked.at = "look" => asked.touched
       /\ asked.at # "look" => asked.done = 0
  ELSE asked.reference = <<0, 0>>

\* An accepted reply about an element was about the element of its reference.
ReplySound ==
  reply.reference # <<0, 0>> /\ reply.accepted =>
    reply.touched /\ reply.reference \in Control!Given /\ reply.node = shown[reply.reference]

\* The inductive invariant of the control requests.
ControlInv == ControlTyped /\ Remembered /\ CallSound /\ ReplySound

LEMMA ControlStarts == ASSUME Control!LimitsArePositive, Control!ControlInit PROVE ControlInv
<1> USE DEF Control!LimitsArePositive, Control!ControlInit
<1>1. Control!Idle \in Calling /\ Control!NoReply \in Replies
  BY DEF Control!Idle, Calling, Control!NoReply, Control!Answer, Replies, Control!Kind
<1>2. ControlTyped
  BY <1>1 DEF ControlTyped, Reference
<1>3. Remembered
  BY DEF Remembered, Reference
<1>4. CallSound /\ ReplySound
  BY DEF CallSound, ReplySound, Control!Idle, Control!NoReply, Control!Answer
<1> QED
  BY <1>2, <1>3, <1>4 DEF ControlInv

\* An answer, and nothing else, changes.
LEMMA AnswersAreSound ==
  ASSUME Control!LimitsArePositive, ControlInv, UNCHANGED <<desktop, resident, shown>>, NEW accepted \in BOOLEAN,
         NEW effect \in {"refused", "unverifiable", "observed", "not_applicable"}, NEW c \in Calling,
         accepted => c = asked /\ asked.at = "look", reply' = Control!Answer(accepted, effect, c), asked' = Control!Idle
  PROVE  ControlInv'
<1> USE DEF ControlInv
<1>1. Control!Idle \in Calling
  BY DEF Control!Idle, Calling, Control!Kind, Control!LimitsArePositive
<1>2. ControlTyped'
  BY <1>1 DEF ControlTyped, Control!Answer, Replies, Calling
<1>3. Remembered'
  BY DEF Remembered
<1>4. CallSound'
  BY DEF CallSound, Control!Idle
<1>5. ReplySound'
  BY DEF ReplySound, Control!Answer, CallSound, Control!Given, ControlTyped
<1> QED
  BY <1>2, <1>3, <1>4, <1>5

\* A step of the call that gives no answer: what it keeps and what it sets.
LEMMA CallsAreSound ==
  ASSUME ControlInv, UNCHANGED <<desktop, resident, shown, reply>>, asked' \in Calling, CallSound'
  PROVE  ControlInv'
BY DEF ControlInv, ControlTyped, Remembered, ReplySound, Control!Given

LEMMA SnapshotIsSound == ASSUME Control!LimitsArePositive, ControlInv, Control!Snapshot PROVE ControlInv'
<1> DEFINE s == resident.sequence + 1
           g == resident.generation
<1> USE DEF ControlInv
<1>1. s \in 1..MaxSnapshot /\ g \in 1..MaxGeneration /\ desktop.node \in 1..MaxNode
  BY DEF Control!Snapshot, ControlTyped, Control!LimitsArePositive
<1>2. /\ resident' = [resident EXCEPT !.sequence = s,
            !.snapshots = [t \in 1..MaxSnapshot |->
                             IF t = s THEN desktop.node ELSE IF t + SnapshotsKept =< s THEN 0 ELSE resident.snapshots[t]]]
      /\ shown' = [shown EXCEPT ![<<g, s>>] = desktop.node]
      /\ UNCHANGED <<desktop, asked, reply>> /\ asked = Control!Idle
  BY DEF Control!Snapshot
<1>3. /\ resident'.sequence = s /\ resident'.generation = g
      /\ resident'.snapshots = [t \in 1..MaxSnapshot |->
            IF t = s THEN desktop.node ELSE IF t + SnapshotsKept =< s THEN 0 ELSE resident.snapshots[t]]
      /\ resident' = [generation |-> resident'.generation, sequence |-> resident'.sequence, snapshots |-> resident'.snapshots]
  BY <1>2 DEF ControlTyped
<1>4. shown' \in [Reference -> 0..MaxNode] /\ \A r \in Reference : shown'[r] = IF r = <<g, s>> THEN desktop.node ELSE shown[r]
  BY <1>1, <1>2 DEF ControlTyped, Reference, Control!LimitsArePositive
<1>5. resident'.snapshots \in [1..MaxSnapshot -> 0..MaxNode]
  BY <1>1, <1>3 DEF ControlTyped, Control!LimitsArePositive
<1>6. ControlTyped'
  <2>1. resident' \in [generation : 1..MaxGeneration, sequence : 0..MaxSnapshot, snapshots : [1..MaxSnapshot -> 0..MaxNode]]
    <3>1. resident'.generation \in 1..MaxGeneration /\ resident'.sequence \in 0..MaxSnapshot
      BY <1>1, <1>3 DEF Control!LimitsArePositive
    <3>2. resident' = [generation |-> resident'.generation, sequence |-> resident'.sequence, snapshots |-> resident'.snapshots]
      BY <1>3
    <3> QED
      BY <1>5, <3>1, <3>2
  <2> QED
    BY <1>2, <1>4, <2>1 DEF ControlTyped
<1>7. Remembered'
  <2>1. ASSUME NEW t \in 1..MaxSnapshot, resident'.snapshots[t] # 0
        PROVE  resident'.snapshots[t] = shown'[<<g, t>>] /\ t <= s /\ s < t + SnapshotsKept
    <3>1. CASE t = s
      BY <1>1, <1>3, <1>4, <3>1 DEF Reference, Control!LimitsArePositive
    <3>2. CASE t # s
      <4>1. resident.snapshots[t] # 0 /\ resident'.snapshots[t] = resident.snapshots[t] /\ s < t + SnapshotsKept
        BY <1>1, <1>3, <2>1, <3>2 DEF Control!LimitsArePositive
      <4>2. shown'[<<g, t>>] = shown[<<g, t>>]
        BY <1>1, <1>4, <3>2 DEF Reference
      <4> QED
        BY <1>1, <4>1, <4>2 DEF Remembered, ControlTyped
    <3> QED
      BY <3>1, <3>2
  <2>2. ASSUME NEW h \in 1..MaxGeneration, NEW t \in 1..MaxSnapshot, shown'[<<h, t>>] # 0
        PROVE  h < g \/ (h = g /\ t <= s)
    <3>1. CASE <<h, t>> = <<g, s>>
      BY <1>1, <3>1
    <3>2. CASE <<h, t>> # <<g, s>>
      <4>1. shown[<<h, t>>] # 0
        BY <1>4, <2>2, <3>2 DEF Reference
      <4> QED
        BY <1>1, <4>1 DEF Remembered, ControlTyped
    <3> QED
      BY <3>1, <3>2
  <2> QED
    BY <1>3, <2>1, <2>2 DEF Remembered
<1>8. \A r \in Control!Given : r \in Control!Given' /\ shown'[r] = shown[r]
  <2>1. shown[<<g, s>>] = 0
    <3>1. ~ (g < g) /\ ~ (s <= resident.sequence)
      BY <1>1 DEF ControlTyped, Control!LimitsArePositive
    <3> QED
      BY <1>1, <3>1 DEF Remembered
  <2> QED
    BY <1>4, <2>1 DEF Control!Given, ControlTyped
<1>9. CallSound' /\ ReplySound'
  BY <1>2, <1>8 DEF CallSound, ReplySound, Control!Idle
<1> QED
  BY <1>6, <1>7, <1>9

LEMMA RestartIsSound == ASSUME Control!LimitsArePositive, ControlInv, Control!Restart PROVE ControlInv'
<1> USE DEF ControlInv
<1>1. /\ resident' = [generation |-> resident.generation + 1, sequence |-> 0, snapshots |-> [s \in 1..MaxSnapshot |-> 0]]
      /\ resident.generation < MaxGeneration /\ asked' = Control!Idle /\ UNCHANGED <<desktop, shown, reply>>
  BY DEF Control!Restart
<1>2. Control!Idle \in Calling
  BY DEF Control!Idle, Calling, Control!Kind, Control!LimitsArePositive
<1>3. ControlTyped'
  <2>1. resident.generation + 1 \in 1..MaxGeneration
    BY <1>1 DEF ControlTyped, Control!LimitsArePositive
  <2> QED
    BY <1>1, <1>2, <2>1 DEF ControlTyped, Control!LimitsArePositive
<1>4. Remembered'
  BY <1>1 DEF Remembered, ControlTyped, Control!LimitsArePositive
<1>5. CallSound' /\ ReplySound'
  BY <1>1 DEF CallSound, ReplySound, Control!Idle, Control!Given
<1> QED
  BY <1>3, <1>4, <1>5

LEMMA ControlSteps ==
  ASSUME Control!LimitsArePositive, ControlInv, [Control!ControlNext]_(Control!controlVars)
  PROVE  ControlInv'
<1>c. asked \in Calling /\ CallSound /\ ControlTyped
  BY DEF ControlInv, ControlTyped
<1>1. ASSUME NEW kind \in Control!Kind, Control!Ask(kind) PROVE ControlInv'
  <2>1. PICK reference \in IF kind \in Control!Referred THEN Control!Given ELSE {<<0, 0>>} :
           asked' = [Control!Idle EXCEPT !.at = "start", !.kind = kind, !.reference = reference]
    BY <1>1 DEF Control!Ask
  <2>2. reference \in Reference \union {<<0, 0>>}
    BY <1>c DEF Control!Given, ControlTyped
  <2>3. asked' = [at |-> "start", kind |-> kind, reference |-> reference, node |-> 0, done |-> 0, touched |-> FALSE]
    BY <2>1 DEF Control!Idle
  <2>4. UNCHANGED <<desktop, resident, shown, reply>>
    BY <1>1 DEF Control!Ask
  <2>5. asked' \in Calling
    BY <2>2, <2>3 DEF Calling, Control!LimitsArePositive
  <2>6. CallSound'
    <3>1. Control!Given' = Control!Given /\ asked'.at = "start" /\ asked'.kind = kind /\ asked'.reference = reference /\ asked'.done = 0
      BY <2>3, <2>4 DEF Control!Given
    <3>2. IF kind \in Control!Referred THEN reference \in Control!Given ELSE reference = <<0, 0>>
      BY <2>1
    <3> QED
      BY <3>1, <3>2 DEF CallSound
  <2> QED
    BY <2>4, <2>5, <2>6, CallsAreSound
<1>2. CASE Control!Invalid
  BY <1>2, <1>c, AnswersAreSound DEF Control!Invalid, Control!Refuse, Control!Reply
<1>3. CASE Control!Snapshot
  BY <1>3, SnapshotIsSound
<1>4. CASE Control!Resolve
  <2>1. CASE Control!Resolves(asked.reference)
    <3>1. /\ asked' = [asked EXCEPT !.at = "effect", !.node = resident.snapshots[asked.reference[2]]]
          /\ UNCHANGED <<desktop, resident, shown, reply>> /\ asked.kind \in Control!Referred /\ asked.at = "start"
      BY <1>4, <2>1 DEF Control!Resolve
    <3>2. asked.reference \in Control!Given
      BY <1>c, <3>1 DEF CallSound
    <3>3. PICK t \in 1..MaxSnapshot : asked.reference = <<resident.generation, t>> /\ resident.snapshots[t] # 0
      BY <1>c, <2>1, <3>2 DEF Control!Resolves, Control!Given, ControlTyped, Reference
    <3>4. resident.snapshots[t] = shown[asked.reference] /\ resident.snapshots[t] \in 0..MaxNode
      BY <3>3 DEF ControlInv, Remembered, ControlTyped
    <3>s. resident.snapshots[asked.reference[2]] = shown[asked.reference]
      BY <3>3, <3>4
    <3>5. asked' = [at |-> "effect", kind |-> asked.kind, reference |-> asked.reference, node |-> shown[asked.reference],
                   done |-> asked.done, touched |-> asked.touched]
      BY <1>c, <3>1, <3>s DEF Calling
    <3>6. asked' \in Calling
      BY <1>c, <3>4, <3>5 DEF Calling
    <3>7. CallSound'
      <4>1. Control!Given' = Control!Given /\ shown' = shown /\ asked.done = 0
        BY <1>c, <3>1 DEF Control!Given, CallSound
      <4>2. /\ asked'.at = "effect" /\ asked'.kind = asked.kind /\ asked'.reference = asked.reference
            /\ asked'.node = shown[asked.reference] /\ asked'.done = asked.done
        BY <3>5
      <4> QED
        BY <3>1, <3>2, <4>1, <4>2 DEF CallSound
    <3> QED
      BY <3>1, <3>6, <3>7, CallsAreSound
  <2>2. CASE ~ Control!Resolves(asked.reference)
    BY <1>4, <1>c, <2>2, AnswersAreSound DEF Control!Resolve, Control!Refuse, Control!Reply
  <2> QED
    BY <2>1, <2>2
<1>5. CASE Control!Prepare
  <2>1. PICK at \in {"look", "effect"} : asked' = [asked EXCEPT !.at = at]
    BY <1>5 DEF Control!Prepare
  <2>2. asked' = [at |-> at, kind |-> asked.kind, reference |-> asked.reference, node |-> asked.node,
                 done |-> asked.done, touched |-> asked.touched]
    BY <1>c, <2>1 DEF Calling
  <2>3. asked.kind \notin Control!Referred /\ asked.at = "start" /\ UNCHANGED <<desktop, resident, shown, reply>>
    BY <1>5 DEF Control!Prepare
  <2>4. asked' \in Calling
    BY <1>c, <2>2 DEF Calling
  <2>5. CallSound'
    BY <1>c, <2>2, <2>3 DEF CallSound
  <2> QED
    BY <2>3, <2>4, <2>5, CallsAreSound
<1>6. CASE Control!EffectMade
  <2>1. PICK at \in {"look", "effect"} :
           /\ asked' = [asked EXCEPT !.done = @ + 1, !.touched = TRUE, !.at = at]
           /\ at = "look" <=> asked.done + 1 = Control!Effects(asked.kind)
    BY <1>6 DEF Control!EffectMade
  <2>2. asked' = [at |-> at, kind |-> asked.kind, reference |-> asked.reference, node |-> asked.node,
                 done |-> asked.done + 1, touched |-> TRUE]
    BY <1>c, <2>1 DEF Calling
  <2>3. asked.at = "effect" /\ UNCHANGED <<desktop, resident, shown, reply>>
    BY <1>6 DEF Control!EffectMade
  <2>4. asked' \in Calling
    BY <1>c, <2>2 DEF Calling
  <2>5. asked.kind \in Control!Referred => at = "look"
    BY <1>c, <2>1, <2>3 DEF CallSound, Control!Referred, Control!Effects, Control!Input
  <2>6. CallSound'
    BY <1>c, <2>2, <2>3, <2>5 DEF CallSound, Control!Given
  <2> QED
    BY <2>3, <2>4, <2>6, CallsAreSound
<1>7. CASE Control!EffectRefused
  BY <1>7, <1>c, AnswersAreSound DEF Control!EffectRefused, Control!Refuse, Control!Reply
<1>8. CASE Control!EffectUnanswered
  <2>1. [asked EXCEPT !.touched = TRUE] \in Calling
    BY <1>c DEF Calling
  <2> QED
    BY <1>8, <2>1, AnswersAreSound DEF Control!EffectUnanswered
<1>9. ASSUME NEW kind, NEW effects \in SUBSET {"refused", "unverifiable", "observed", "not_applicable"},
             Control!Ends(kind, effects)
      PROVE  ControlInv'
  BY <1>9, <1>c, AnswersAreSound DEF Control!Ends, Control!Reply
<1>10. ASSUME NEW kind, Control!NotFound(kind) PROVE ControlInv'
  BY <1>10, <1>c, AnswersAreSound DEF Control!NotFound, Control!Refuse, Control!Reply
<1>11. CASE Control!EndAction \/ Control!EndFocus \/ Control!EndSetValue \/ Control!EndInput \/ Control!EndLaunch \/ Control!EndActivate \/ Control!EndTerminate \/ Control!EndList
              \/ Control!EndCapture
  <2>1. ASSUME NEW kind PROVE /\ Control!Ends(kind, {"unverifiable"}) => ControlInv'
                              /\ Control!Ends(kind, {"observed"}) => ControlInv'
                              /\ Control!Ends(kind, {"observed", "unverifiable"}) => ControlInv'
                              /\ Control!Ends(kind, {"not_applicable"}) => ControlInv'
                              /\ Control!NotFound(kind) => ControlInv'
    BY <1>9, <1>10
  <2> QED
    BY <1>11, <2>1 DEF Control!EndAction, Control!EndFocus, Control!EndSetValue, Control!EndInput,
       Control!EndLaunch, Control!EndActivate, Control!EndTerminate, Control!EndList, Control!EndCapture
<1>12. CASE Control!ScreenChanges
  <2>1. desktop'.node = desktop.node + 1 /\ desktop.node < MaxNode /\ UNCHANGED <<resident, shown, asked, reply>>
    BY <1>12 DEF Control!ScreenChanges
  <2>2. ControlTyped'
    BY <1>c, <2>1 DEF ControlTyped, Control!LimitsArePositive
  <2> QED
    BY <2>1, <2>2 DEF ControlInv, Remembered, CallSound, ReplySound, Control!Given
<1>13. CASE Control!Restart
  BY <1>13, RestartIsSound
<1>14. CASE UNCHANGED Control!controlVars
  BY <1>14 DEF Control!controlVars, ControlInv, ControlTyped, Remembered, CallSound, ReplySound, Control!Given
<1> QED
  BY <1>1, <1>2, <1>3, <1>4, <1>5, <1>6, <1>7, <1>8, <1>11, <1>12, <1>13, <1>14 DEF Control!ControlNext

LEMMA ControlHolds == ASSUME Control!LimitsArePositive PROVE Control!ControlSpec => []ControlInv
<1>1. Control!ControlInit => ControlInv
  BY ControlStarts
<1>2. ControlInv /\ [Control!ControlNext]_(Control!controlVars) => ControlInv'
  BY ControlSteps
<1> QED
  BY <1>1, <1>2, PTL DEF Control!ControlSpec

\* The invariant says what the two properties do.
LEMMA ControlGives ==
  ASSUME Control!LimitsArePositive, ControlInv
  PROVE  Control!ControlTypeOK /\ Control!AcceptedIsDone
<1> USE DEF ControlInv
<1> DEFINE S == {s \in 1..MaxSnapshot : resident.snapshots[s] # 0}
           low == resident.sequence - SnapshotsKept + 1
<1>1. resident.sequence \in Nat /\ low \in Int /\ SnapshotsKept \in Nat /\ SnapshotsKept >= 1
  BY DEF ControlTyped, Control!LimitsArePositive
<1>2. S \subseteq low..resident.sequence
  <2>1. ASSUME NEW s \in S PROVE s \in low..resident.sequence
    <3>r. s \in 1..MaxSnapshot /\ resident.snapshots[s] # 0
      OBVIOUS
    <3>1. s <= resident.sequence /\ resident.sequence < s + SnapshotsKept
      BY <3>r DEF Remembered
    <3>2. s \in Int
      BY <3>r DEF Control!LimitsArePositive
    <3> QED
      BY <1>1, <3>1, <3>2
  <2> QED
    BY <2>1
<1>3. IsFiniteSet(low..resident.sequence) /\ Cardinality(low..resident.sequence) = SnapshotsKept
  <2>1. resident.sequence \in Int /\ low <= resident.sequence /\ resident.sequence - low + 1 = SnapshotsKept
    BY <1>1
  <2>2. ~ (low > resident.sequence)
    BY <1>1
  <2>3. resident.sequence \in Int
    BY <1>1
  <2> HIDE DEF low
  <2>4. /\ IsFiniteSet(low..resident.sequence)
        /\ Cardinality(low..resident.sequence) = IF low > resident.sequence THEN 0 ELSE resident.sequence - low + 1
    BY <1>1, <2>3, FS_Interval
  <2> QED
    BY <2>1, <2>2, <2>4
<1>4. Cardinality(S) \in Nat /\ Cardinality(S) <= SnapshotsKept
  BY <1>2, <1>3, FS_Subset, FS_CardinalityType
<1>5. Control!ControlTypeOK
  BY ControlCounts, <1>4 DEF Control!ControlTypeOK, ControlTyped, Calling
<1>6. Control!AcceptedIsDone
  BY DEF Control!AcceptedIsDone, ReplySound
<1> QED
  BY <1>5, <1>6

\* An accepted action was carried out on the element its reference was given out
\* for, across restarts and forgotten snapshots (the Linux resident).
THEOREM AcceptedIsAlwaysDone == ASSUME Control!LimitsArePositive PROVE Control!ControlSpec => []Control!AcceptedIsDone
<1>1. ControlInv => Control!AcceptedIsDone
  BY ControlGives
<1> QED
  BY <1>1, ControlHolds, PTL

\* The snapshots that are kept, the actions and the replies are as typed, and no
\* more of them are kept than there is room for (the Linux resident).
THEOREM ControlTypesAreKept == ASSUME Control!LimitsArePositive PROVE Control!ControlSpec => []Control!ControlTypeOK
<1>1. ControlInv => Control!ControlTypeOK
  BY ControlGives
<1> QED
  BY <1>1, ControlHolds, PTL

-----------------------------------------------------------------------------
(* The lease of an iPhone.                                                 *)

Judging == {"stale", "removing", "clearing"}
Using == Device!Acting \union {"releasing", "dropping"}

\* Whoever uses the phone is in the lease, and whoever judges a lease judges a
\* dead owner's, alone.
LeaseSound ==
  /\ \A p \in Takeover : process[p].at \in Using => handset.owner = p /\ handset.written
  /\ \A p \in Takeover : process[p].at = "writing" => handset.owner = p /\ ~ handset.written
  /\ \A p \in Takeover : process[p].at \in Judging =>
       /\ handset.owner # Nobody /\ handset.written /\ process[handset.owner].at \in Device!Over
       /\ \A q \in Takeover : process[q].at \in Judging => q = p

\* What is captured belongs to the session in the state file, to the one about
\* to write it, or to one that was killed in between.
Known(w) == w = capture.state \/ process[w].at \in {"spawned", "lost"}
CaptureSound ==
  /\ \A p \in Takeover : process[p].at \in {"starting", "spawned"} => capture.state = Nobody
  /\ \A w \in capture.workers : Known(w)
  /\ capture.source # Nobody => Known(capture.source)
  /\ Device!CollectedIsOwn

\* The inductive invariant of the lease and of the captures.
DeviceInv == Device!DeviceTypeOK /\ LeaseSound /\ CaptureSound

LEMMA DeviceStarts == ASSUME Device!NobodyIsNoProcess, Device!DeviceInit PROVE DeviceInv
<1> USE DEF Device!DeviceInit
<1>1. Device!DeviceTypeOK
  BY DEF Device!DeviceTypeOK, Device!NoLease, Device!Somebody, Device!Places
<1>2. \A p \in Takeover : process[p].at = "new"
  OBVIOUS
<1>3. LeaseSound
  BY <1>2 DEF LeaseSound, Using, Device!Acting, Judging
<1>4. CaptureSound
  BY <1>2 DEF CaptureSound, Device!CollectedIsOwn, Known
<1> QED
  BY <1>1, <1>3, <1>4 DEF DeviceInv

LEMMA PlacesMove ==
  ASSUME Device!DeviceTypeOK, NEW p \in Takeover, NEW spot \in Device!Places, Device!Goes(p, spot)
  PROVE  /\ process' \in [Takeover -> [mode : Device!Modes, at : Device!Places]]
         /\ process'[p].at = spot /\ process'[p].mode = process[p].mode
         /\ \A q \in Takeover : q # p => process'[q] = process[q]
<1>1. process[p] \in [mode : Device!Modes, at : Device!Places] /\ process \in [Takeover -> [mode : Device!Modes, at : Device!Places]]
  BY DEF Device!DeviceTypeOK
<1> DEFINE i == [process[p] EXCEPT !.at = spot]
<1>2. i \in [mode : Device!Modes, at : Device!Places] /\ i.at = spot /\ i.mode = process[p].mode
  BY <1>1
<1>3. process' = [process EXCEPT ![p] = i]
  BY DEF Device!Goes
<1> HIDE DEF i
<1> QED
  BY <1>1, <1>2, <1>3

\* The lease is not touched: what the place of p asks of it is enough.
LEMMA LeaseStays ==
  ASSUME DeviceInv, UNCHANGED handset, NEW p \in Takeover, NEW spot \in Device!Places, Device!Goes(p, spot),
         process[p].at \notin Device!Over,
         spot \in Using => process[p].at \in Using,
         spot = "writing" => process[p].at = "writing",
         spot \in Judging => process[p].at \in Judging
  PROVE  LeaseSound'
<1>1. /\ process'[p].at = spot /\ \A q \in Takeover : q # p => process'[q] = process[q]
  BY PlacesMove DEF DeviceInv
<1> QED
  BY <1>1 DEF DeviceInv, LeaseSound, Device!Over, Using, Device!Acting, Judging, Device!DeviceTypeOK, Device!Somebody

\* The capture is not touched.
LEMMA CaptureStays ==
  ASSUME Device!NobodyIsNoProcess, DeviceInv, UNCHANGED <<capture, taken>>, NEW p \in Takeover,
         NEW spot \in Device!Places, Device!Goes(p, spot), 
         process[p].at \notin Device!Over, spot \notin {"starting", "spawned"},
         process[p].at = "spawned" => spot = "lost" \/ (p # capture.source /\ p \notin capture.workers) \/ p = capture.state
  PROVE  CaptureSound'
<1>1. /\ process'[p].at = spot /\ \A q \in Takeover : q # p => process'[q] = process[q]
  BY PlacesMove DEF DeviceInv
<1>2. capture.workers \subseteq Takeover /\ capture.source \in Device!Somebody /\ taken \subseteq Takeover \X Takeover
  BY DEF DeviceInv, Device!DeviceTypeOK
<1>3. \A w \in Takeover : Known(w) /\ (w = p => process[p].at # "spawned" \/ spot = "lost" \/ p = capture.state)
                         => Known(w)'
  BY <1>1 DEF Known, Device!Over
<1>4. \A p1, p2 \in Takeover : process[p2].at = "lost" => process'[p2].at = "lost"
  BY <1>1 DEF Device!Over
<1>5. Device!CollectedIsOwn'
  BY <1>2, <1>4 DEF Device!CollectedIsOwn, Device!At, DeviceInv, CaptureSound
<1>6. capture.source # Nobody => capture.source \in Takeover
  BY <1>2 DEF Device!Somebody
<1>7. \A q \in Takeover : process'[q].at \in {"starting", "spawned"} => capture'.state = Nobody
  BY <1>1 DEF DeviceInv, CaptureSound
<1>8. \A w \in capture'.workers : Known(w)'
  BY <1>2, <1>3 DEF DeviceInv, CaptureSound
<1>9. capture'.source # Nobody => Known(capture.source)'
  BY <1>3, <1>6 DEF DeviceInv, CaptureSound
<1> QED
  BY <1>5, <1>7, <1>8, <1>9 DEF CaptureSound

\* Steps on the lease.
LEMMA LeaseStepsKeep ==
  ASSUME Device!NobodyIsNoProcess, DeviceInv, NEW p \in Takeover,
         Device!ReadLease(p) \/ Device!CleanStale(p) \/ Device!RemoveStale(p) \/ Device!CreateLease(p) \/ Device!WriteLease(p) \/ Device!Finish(p)
         \/ Device!ReleaseLease(p) \/ Device!DropLease(p) \/ Device!ClearLease(p) \/ Device!Die(p)
  PROVE  DeviceInv'
<1> USE DEF Device!At, Device!Is
<1>1. /\ handset \in [owner : Device!Somebody, written : BOOLEAN] /\ UNCHANGED <<capture, taken>>
      /\ Device!DeviceTypeOK /\ LeaseSound /\ CaptureSound
  BY DEF DeviceInv, Device!DeviceTypeOK, Device!ReadLease, Device!CleanStale, Device!RemoveStale,
     Device!CreateLease, Device!WriteLease, Device!Finish, Device!ReleaseLease, 
         Device!DropLease, Device!ClearLease, Device!Die
<1>2. ASSUME NEW spot \in Device!Places, Device!Goes(p, spot), handset' \in [owner : Device!Somebody,
             written : BOOLEAN], LeaseSound', 
             CaptureSound'
      PROVE  DeviceInv'
  BY <1>1, <1>2, PlacesMove DEF DeviceInv, Device!DeviceTypeOK
<1>3. ASSUME NEW spot \in Device!Places, Device!Goes(p, spot), process[p].at \notin Device!Over \union {"spawned"},
             spot \notin {"starting", "spawned"}
      PROVE  CaptureSound'
  BY <1>1, <1>3, CaptureStays DEF Device!Over
<1>4. Device!NoLease \in [owner : Device!Somebody, written : BOOLEAN]
  BY DEF Device!NoLease, Device!Somebody
<1>5. CASE Device!ReadLease(p)
  <2>1. process[p].at = "new" /\ UNCHANGED handset
    BY <1>5 DEF Device!ReadLease
  <2>2. CASE Device!Goes(p, "creating") \/ Device!Goes(p, "refused")
    <3>1. PICK spot \in {"creating", "refused"} : Device!Goes(p, spot)
      BY <2>2
    <3>2. spot \in Device!Places
      BY DEF Device!Places
    <3>3. LeaseSound'
      BY <2>1, <3>1, <3>2, LeaseStays DEF Device!Over, Using, Device!Acting, Judging
    <3> QED
      BY <1>1, <1>2, <1>3, <2>1, <3>1, <3>2, <3>3 DEF Device!Over
  <2>3. CASE ~ (Device!Goes(p, "creating") \/ Device!Goes(p, "refused"))
    <3>1. handset.owner # Nobody /\ handset.written /\ ~ Device!Alive(handset.owner) /\ Device!Quiet(p) /\ Device!Goes(p, "stale")
      BY <1>5, <2>3 DEF Device!ReadLease
    <3>2. "stale" \in Device!Places
      BY DEF Device!Places
    <3>3. process'[p].at = "stale" /\ \A q \in Takeover : q # p => process'[q] = process[q]
      BY <1>1, <3>1, <3>2, PlacesMove
    <3>4. handset.owner \in Takeover /\ handset.owner # p
      BY <1>1, <2>1, <3>1 DEF Device!Somebody, Device!Alive, Device!Over
    <3>5. LeaseSound'
      BY <1>1, <2>1, <3>1, <3>3, <3>4 DEF LeaseSound, Device!Quiet, Judging, Using, Device!Acting, Device!Alive,
         Device!Over
    <3> QED
      BY <1>1, <1>2, <1>3, <2>1, <3>1, <3>2, <3>5 DEF Device!Over
  <2> QED
    BY <2>2, <2>3
<1>6. ASSUME NEW spot \in Device!Places, Device!Goes(p, spot), UNCHANGED handset,
             process[p].at \notin Device!Over \union {"spawned"}, 
             spot \notin {"starting", "spawned", "writing"},
             spot \in Using => process[p].at \in Using,
             spot \in Judging => process[p].at \in Judging
      PROVE  DeviceInv'
  BY <1>1, <1>2, <1>3, <1>6, LeaseStays
<1>7. CASE Device!CleanStale(p)
  BY <1>6, <1>7 DEF Device!CleanStale, Device!Places, Device!Over, Using, Device!Acting, Judging
<1>8. CASE Device!Finish(p)
  <2>1. PICK spot \in {"closing", "releasing"} : Device!Goes(p, spot)
    BY <1>8 DEF Device!Finish
  <2> QED
    BY <1>6, <1>8, <2>1 DEF Device!Finish, Device!Places, Device!Over, Using, Device!Acting, Judging
<1>9. CASE Device!ReleaseLease(p)
  <2>1. PICK spot \in {"dropping", "done", "refused"} : Device!Goes(p, spot)
    BY <1>9 DEF Device!ReleaseLease
  <2> QED
    BY <1>6, <1>9, <2>1 DEF Device!ReleaseLease, Device!Places, Device!Over, Using, Device!Acting, Judging
<1>10. CASE Device!Die(p)
  <2>1. PICK spot \in {"lost", "dead"} : Device!Goes(p, spot) /\ (process[p].at = "spawned" => spot = "lost")
    BY <1>10 DEF Device!Die
  <2>2. process[p].at \notin Device!Over /\ UNCHANGED handset /\ spot \in Device!Places
    BY <1>10 DEF Device!Die, Device!Alive, Device!Places
  <2>3. LeaseSound'
    BY <2>1, <2>2, LeaseStays DEF Device!Over, Using, Device!Acting, Judging
  <2>4. CaptureSound'
    BY <1>1, <2>1, <2>2, CaptureStays
  <2> QED
    BY <1>1, <1>2, <2>1, <2>2, <2>3, <2>4
\* The file goes: nobody else's place asks anything of it.
<1>11. ASSUME NEW spot \in {"creating", "done"}, Device!Goes(p, spot), handset' = Device!NoLease,
              process[p].at \in Judging \union {"dropping"}
       PROVE  DeviceInv'
  <2>1. spot \in Device!Places
    BY DEF Device!Places
  <2>2. process'[p].at = spot /\ \A q \in Takeover : q # p => process'[q] = process[q]
    BY <1>1, <1>11, <2>1, PlacesMove
  <2>3. \A q \in Takeover : q # p => process[q].at \notin Using \union Judging \union {"writing"}
    BY <1>1, <1>11 DEF LeaseSound, Using, Device!Acting, Judging, Device!Over
  <2>4. LeaseSound'
    BY <2>2, <2>3 DEF LeaseSound, Using, Device!Acting, Judging
  <2> QED
    BY <1>2, <1>3, <1>4, <1>11, <2>1, <2>4 DEF Device!Over, Judging
<1>12. CASE Device!RemoveStale(p)
  BY <1>11, <1>12 DEF Device!RemoveStale, Judging
<1>13. CASE Device!DropLease(p)
  BY <1>11, <1>13 DEF Device!DropLease, Judging
<1>14. CASE Device!ClearLease(p)
  BY <1>11, <1>14 DEF Device!ClearLease, Judging
<1>15. CASE Device!CreateLease(p)
  <2>1. CASE Device!Opens
    <3>1. handset = Device!NoLease /\ handset' = [owner |-> p, written |-> FALSE] /\ Device!Goes(p, "writing") /\ process[p].at = "creating"
      BY <1>15, <2>1 DEF Device!CreateLease, Device!Opens
    <3>2. "writing" \in Device!Places
      BY DEF Device!Places
    <3>3. process'[p].at = "writing" /\ \A q \in Takeover : q # p => process'[q] = process[q]
      BY <1>1, <3>1, <3>2, PlacesMove
    <3>4. \A q \in Takeover : q # p => process[q].at \notin Using \union Judging \union {"writing"}
      BY <1>1, <3>1 DEF LeaseSound, Device!NoLease, Device!NobodyIsNoProcess
    <3>5. handset' \in [owner : Device!Somebody, written : BOOLEAN] /\ handset'.owner = p /\ ~ handset'.written
      BY <3>1 DEF Device!Somebody
    <3>6. LeaseSound'
      BY <3>3, <3>4, <3>5 DEF LeaseSound, Using, Device!Acting, Judging
    <3> QED
      BY <1>2, <1>3, <3>1, <3>2, <3>5, <3>6 DEF Device!Over
  <2>2. CASE ~ Device!Opens
    BY <1>6, <1>15, <2>2 DEF Device!CreateLease, Device!Places, Device!Over, Using, Device!Acting, Judging
  <2> QED
    BY <2>1, <2>2
<1>16. CASE Device!WriteLease(p)
  <2>1. Device!Goes(p, "inside") /\ process[p].at = "writing" /\ handset.owner = p
    BY <1>1, <1>16 DEF Device!WriteLease, LeaseSound
  <2>2. handset' = [owner |-> p, written |-> TRUE]
    BY <1>16, <2>1 DEF Device!WriteLease
  <2>3. "inside" \in Device!Places
    BY DEF Device!Places
  <2>4. process'[p].at = "inside" /\ \A q \in Takeover : q # p => process'[q] = process[q]
    BY <1>1, <2>1, <2>3, PlacesMove
  <2>5. \A q \in Takeover : q # p => process[q].at \notin Using \union Judging \union {"writing"}
    BY <1>1, <2>1 DEF LeaseSound
  <2>6. handset' \in [owner : Device!Somebody, written : BOOLEAN] /\ handset'.owner = p /\ handset'.written
    BY <2>2 DEF Device!Somebody
  <2>7. LeaseSound'
    BY <2>4, <2>5, <2>6 DEF LeaseSound, Using, Device!Acting, Judging
  <2> QED
    BY <1>2, <1>3, <2>1, <2>3, <2>6, <2>7 DEF Device!Over
<1> QED
  BY <1>5, <1>7, <1>8, <1>9, <1>10, <1>12, <1>13, <1>14, <1>15, <1>16

LEMMA CaptureStepsKeep ==
  ASSUME Device!NobodyIsNoProcess, DeviceInv, NEW p \in Takeover,
         Device!CloseSession(p) \/ Device!StartCapture(p) \/ Device!SpawnWorker(p) \/ Device!CaptureReady(p) \/ Device!Collect(p) \/ Device!Recover(p)
  PROVE  DeviceInv'
<1> USE DEF Device!At, Device!Is
<1> DEFINE Captures == [state : Device!Somebody, source : Device!Somebody, workers : SUBSET Takeover]
<1>1. /\ capture \in Captures /\ taken \subseteq Takeover \X Takeover /\ handset \in [owner : Device!Somebody, written : BOOLEAN]
      /\ process \in [Takeover -> [mode : Device!Modes, at : Device!Places]]
      /\ UNCHANGED handset /\ Device!DeviceTypeOK /\ LeaseSound /\ CaptureSound
  BY DEF DeviceInv, Device!DeviceTypeOK, Device!CloseSession, Device!StartCapture, Device!SpawnWorker,
     Device!CaptureReady, Device!Collect, Device!Recover
<1>2. ASSUME NEW spot \in Device!Places, Device!Goes(p, spot), capture' \in Captures, UNCHANGED taken, LeaseSound',
             CaptureSound'
      PROVE  DeviceInv'
  BY <1>1, <1>2, PlacesMove DEF DeviceInv, Device!DeviceTypeOK
<1>3. /\ \A source \in Device!Somebody, workers \in SUBSET Takeover, state \in Device!Somebody :
           [state |-> state, source |-> source, workers |-> workers] \in Captures
      /\ capture = [state |-> capture.state, source |-> capture.source, workers |-> capture.workers]
      /\ Nobody \in Device!Somebody /\ p \in Device!Somebody
  BY <1>1 DEF Device!Somebody
<1>4. Device!Stopped(Nobody) = [state |-> Nobody, source |-> Nobody, workers |-> capture.workers \ {capture.state}]
  <2>1. ASSUME NEW x, x = Device!Stopped(Nobody)
        PROVE  x = [state |-> Nobody, source |-> Nobody, workers |-> capture.workers \ {capture.state}]
    BY <1>1, <2>1 DEF Device!Stopped
  <2> QED
    BY <2>1
\* While p uses the phone, no other session is anywhere near a capture.
<1>5. ASSUME process[p].at \in Using PROVE \A q \in Takeover : q # p => process[q].at \notin {"starting", "spawned"}
  BY <1>1, <1>5 DEF LeaseSound, Using, Device!Acting
<1>6. ASSUME NEW spot \in Device!Places, Device!Goes(p, spot), process[p].at \notin Device!Over
      PROVE  /\ process'[p].at = spot /\ \A q \in Takeover : q # p => process'[q] = process[q]
             /\ UNCHANGED taken => Device!CollectedIsOwn'
             /\ \A w \in Takeover : process[w].at = "lost" => process'[w].at = "lost"
  <2>1. process'[p].at = spot /\ \A q \in Takeover : q # p => process'[q] = process[q]
    BY <1>1, <1>6, PlacesMove
  <2>2. \A w \in Takeover : process[w].at = "lost" => process'[w].at = "lost"
    BY <1>6, <2>1 DEF Device!Over
  <2>3. UNCHANGED taken => Device!CollectedIsOwn'
    BY <1>1, <2>2 DEF Device!CollectedIsOwn, CaptureSound
  <2> QED
    BY <2>1, <2>2, <2>3
<1>7. CASE Device!CloseSession(p)
  <2>1. Device!Goes(p, "releasing") /\ process[p].at = "closing" /\ UNCHANGED taken /\ "releasing" \in Device!Places
    BY <1>7 DEF Device!CloseSession, Device!Places
  <2>2. LeaseSound'
    BY <1>1, <2>1, LeaseStays DEF Device!Over, Using, Device!Acting, Judging
  <2>3. PICK source \in {Nobody, capture.source} :
          capture' = [state |-> capture.state, source |-> source, workers |-> capture.workers] \/ capture' = Device!Stopped(Nobody)
    <3>1. CASE capture.state = Nobody
      <4>1. capture' = [capture EXCEPT !.source = Nobody]
        BY <1>7, <3>1 DEF Device!CloseSession
      <4>2. capture' = [state |-> capture.state, source |-> Nobody, workers |-> capture.workers]
        BY <1>1, <4>1
      <4> QED
        BY <4>2
    <3>2. CASE capture.state # Nobody
      BY <1>3, <1>7, <3>2 DEF Device!CloseSession
    <3> QED
      BY <3>1, <3>2
  <2>4. capture' \in Captures
    BY <1>1, <1>3, <1>4, <2>3
  <2>5. /\ process'[p].at = "releasing" /\ \A q \in Takeover : q # p => process'[q] = process[q]
        /\ Device!CollectedIsOwn' /\ \A w \in Takeover : process[w].at = "lost" => process'[w].at = "lost"
    BY <1>6, <2>1 DEF Device!Over
  <2>6. \A q \in Takeover : process'[q].at \notin {"starting", "spawned"}
    BY <1>5, <2>1, <2>5 DEF Using, Device!Acting
  <2>7. \A w \in Takeover : Known(w) => w = capture.state \/ process'[w].at = "lost"
    BY <1>5, <2>1, <2>5 DEF Known, Using, Device!Acting
  <2>8. CASE capture' = Device!Stopped(Nobody)
    <3>1. capture'.source = Nobody /\ capture'.workers = capture.workers \ {capture.state}
      BY <1>4, <2>8
    <3>2. \A w \in capture'.workers : Known(w)'
      BY <1>1, <2>7, <3>1 DEF Known, CaptureSound
    <3> QED
      BY <1>2, <2>1, <2>2, <2>4, <2>5, <2>6, <3>1, <3>2 DEF CaptureSound
  <2>9. CASE capture' = [state |-> capture.state, source |-> source, workers |-> capture.workers]
    <3>1. capture'.source = source /\ capture'.workers = capture.workers /\ capture'.state = capture.state
      BY <2>9
    <3>2. \A w \in capture'.workers : Known(w)'
      BY <1>1, <2>7, <3>1 DEF Known, CaptureSound
    <3>3. source # Nobody => source \in Takeover /\ Known(source)
      BY <1>1, <2>3 DEF Device!Somebody, CaptureSound
    <3>4. capture'.source # Nobody => Known(capture.source)'
      BY <2>3, <2>7, <3>1, <3>3 DEF Known
    <3> QED
      BY <1>2, <2>1, <2>2, <2>4, <2>5, <2>6, <3>2, <3>4 DEF CaptureSound
  <2> QED
    BY <2>3, <2>8, <2>9
<1>8. CASE Device!StartCapture(p)
  <2>1. /\ Device!Goes(p, "starting") /\ process[p].at = "inside" /\ UNCHANGED taken /\ "starting" \in Device!Places
        /\ capture.state = Nobody \/ capture.state \notin capture.workers
        /\ capture' = [capture EXCEPT !.state = Nobody, !.source = Nobody]
    BY <1>8 DEF Device!StartCapture, Device!Places
  <2>2. LeaseSound'
    BY <1>1, <2>1, LeaseStays DEF Device!Over, Using, Device!Acting, Judging
  <2>3. capture' = [state |-> Nobody, source |-> Nobody, workers |-> capture.workers]
    BY <1>1, <2>1
  <2>4. capture' \in Captures
    BY <1>1, <1>3, <2>3
  <2>5. capture'.source = Nobody /\ capture'.workers = capture.workers /\ capture'.state = Nobody
    BY <2>3
  <2>6. /\ process'[p].at = "starting" /\ \A q \in Takeover : q # p => process'[q] = process[q]
        /\ Device!CollectedIsOwn' /\ \A w \in Takeover : process[w].at = "lost" => process'[w].at = "lost"
    BY <1>6, <2>1 DEF Device!Over
  <2>7. \A w \in capture'.workers : Known(w)'
    BY <1>1, <1>5, <2>1, <2>5, <2>6, Device!NobodyIsNoProcess DEF Known, Using, Device!Acting, CaptureSound,
       Device!NobodyIsNoProcess
  <2> QED
    BY <1>2, <2>1, <2>2, <2>4, <2>5, <2>6, <2>7 DEF CaptureSound
<1>9. CASE Device!SpawnWorker(p)
  <2>1. /\ Device!Goes(p, "spawned") /\ process[p].at = "starting" /\ UNCHANGED taken /\ "spawned" \in Device!Places
        /\ capture' = [capture EXCEPT !.workers = @ \union {p}]
    BY <1>9 DEF Device!SpawnWorker, Device!Places
  <2>2. LeaseSound'
    BY <1>1, <2>1, LeaseStays DEF Device!Over, Using, Device!Acting, Judging
  <2>3. /\ capture' \in Captures /\ capture'.workers = capture.workers \union {p}
        /\ capture'.state = capture.state /\ capture'.source = capture.source
    BY <1>1, <2>1
  <2>4. /\ process'[p].at = "spawned" /\ \A q \in Takeover : q # p => process'[q] = process[q]
        /\ Device!CollectedIsOwn' /\ \A w \in Takeover : process[w].at = "lost" => process'[w].at = "lost"
    BY <1>6, <2>1 DEF Device!Over
  <2>5. capture.state = Nobody
    BY <1>1, <2>1 DEF CaptureSound
  <2>6. \A q \in Takeover : process'[q].at \in {"starting", "spawned"} => capture'.state = Nobody
    BY <2>3, <2>5
  <2>7. \A w \in Takeover : Known(w) \/ w = p => Known(w)'
    BY <2>1, <2>3, <2>4 DEF Known
  <2>8. \A w \in capture'.workers : Known(w)'
    BY <1>1, <2>3, <2>7 DEF CaptureSound
  <2>9. capture'.source # Nobody => Known(capture.source)'
    BY <1>1, <2>3, <2>7 DEF CaptureSound, Device!Somebody
  <2> QED
    BY <1>2, <2>1, <2>2, <2>3, <2>4, <2>6, <2>8, <2>9 DEF CaptureSound
<1>10. CASE Device!CaptureReady(p)
  <2>1. Device!Goes(p, "inside") /\ process[p].at = "spawned" /\ UNCHANGED taken /\ "inside" \in Device!Places
    BY <1>10 DEF Device!CaptureReady, Device!Places
  <2>2. LeaseSound'
    BY <1>1, <2>1, LeaseStays DEF Device!Over, Using, Device!Acting, Judging
  <2>3. /\ process'[p].at = "inside" /\ \A q \in Takeover : q # p => process'[q] = process[q]
        /\ Device!CollectedIsOwn' /\ \A w \in Takeover : process[w].at = "lost" => process'[w].at = "lost"
    BY <1>6, <2>1 DEF Device!Over
  <2>4. capture.state = Nobody
    BY <1>1, <2>1 DEF CaptureSound
  <2>5. \A q \in Takeover : process'[q].at \notin {"starting", "spawned"}
    BY <1>5, <2>1, <2>3 DEF Using, Device!Acting
  <2>6. \A w \in Takeover : Known(w) => w = p \/ process'[w].at = "lost"
    BY <1>5, <2>1, <2>3, <2>4 DEF Known, Using, Device!Acting, Device!NobodyIsNoProcess
  <2>7. CASE capture' = [capture EXCEPT !.state = p]
    <3>1. capture' \in Captures /\ capture'.workers = capture.workers /\ capture'.state = p /\ capture'.source = capture.source
      BY <1>1, <1>3, <2>7
    <3>2. \A w \in capture'.workers : Known(w)'
      BY <1>1, <2>6, <3>1 DEF Known, CaptureSound
    <3>3. capture'.source # Nobody => Known(capture.source)'
      BY <1>1, <2>6, <3>1 DEF Known, CaptureSound, Device!Somebody
    <3> QED
      BY <1>2, <2>1, <2>2, <2>3, <2>5, <3>1, <3>2, <3>3 DEF CaptureSound
  <2>8. CASE capture' = [capture EXCEPT !.workers = @ \ {p}, !.source = Nobody]
    <3>1. capture' = [state |-> capture.state, source |-> Nobody, workers |-> capture.workers \ {p}]
      BY <1>1, <2>8
    <3>2. capture' \in Captures
      BY <1>1, <1>3, <3>1
    <3>3. \A w \in capture'.workers : Known(w)'
      BY <1>1, <2>6, <3>1 DEF Known, CaptureSound
    <3> QED
      BY <1>2, <2>1, <2>2, <2>3, <2>5, <3>1, <3>2, <3>3 DEF CaptureSound
  <2> QED
    BY <1>10, <2>4, <2>7, <2>8 DEF Device!CaptureReady
<1>11. CASE Device!Collect(p)
  <2>1. /\ process[p].at = "inside" /\ capture.state = p /\ capture' = Device!Stopped(Nobody) /\ UNCHANGED <<handset, process>>
    BY <1>11 DEF Device!Collect, Device!StopsOwn
  <2>2. PICK source \in {p, capture.source} :
          IF source = Nobody THEN UNCHANGED taken ELSE taken' = taken \union {<<p, source>>}
    BY <1>11, <2>1 DEF Device!Collect, Device!Written
  <2>3. capture'.source = Nobody /\ capture'.workers = capture.workers \ {p} /\ capture'.state = Nobody
    BY <1>4, <2>1
  <2>4. capture' \in Captures
    BY <1>1, <1>3, <1>4, <2>1
  <2>5. \A w \in Takeover : Known(w) => w = p \/ process[w].at = "lost"
    BY <1>5, <2>1 DEF Known, Using, Device!Acting
  <2>6. source = Nobody \/ (source \in Takeover /\ Known(source))
    BY <1>1, <2>1, <2>2 DEF CaptureSound, Device!Somebody, Known
  <2>7. taken' \subseteq Takeover \X Takeover
    BY <1>1, <2>2, <2>6
  <2>8. Device!CollectedIsOwn'
    BY <1>1, <2>1, <2>2, <2>5, <2>6 DEF Device!CollectedIsOwn, CaptureSound
  <2>9. \A w \in capture'.workers : Known(w)'
    BY <1>1, <2>1, <2>3, <2>5 DEF CaptureSound, Known
  <2>10. LeaseSound'
    BY <1>1, <2>1 DEF LeaseSound
  <2> QED
    BY <1>1, <2>1, <2>3, <2>4, <2>7, <2>8, <2>9, <2>10 DEF CaptureSound, DeviceInv, Device!DeviceTypeOK
<1>12. CASE Device!Recover(p)
  <2>1. process[p].at = "new" /\ UNCHANGED taken
    BY <1>12 DEF Device!Recover
  <2>2. CASE Device!Goes(p, "refused") /\ UNCHANGED capture
    <3>1. "refused" \in Device!Places
      BY DEF Device!Places
    <3>2. LeaseSound'
      BY <1>1, <2>1, <2>2, <3>1, LeaseStays DEF Device!Over, Using, Device!Acting, Judging
    <3>3. CaptureSound'
      BY <2>1, <2>2, <3>1, CaptureStays DEF Device!Over
    <3> QED
      BY <1>1, <1>2, <2>1, <2>2, <3>1, <3>2, <3>3
  <2>3. CASE ~ (Device!Goes(p, "refused") /\ UNCHANGED capture)
    <3>1. /\ handset.owner # Nobody => handset.written /\ Device!Quiet(p) /\ ~ Device!Alive(handset.owner)
          /\ capture' = IF capture.state = Nobody THEN [capture EXCEPT !.source = Nobody] ELSE Device!Stopped(Nobody)
          /\ Device!Goes(p, IF handset.owner = Nobody THEN "done" ELSE "clearing")
      BY <1>12, <2>3 DEF Device!Recover
    <3> DEFINE spot == IF handset.owner = Nobody THEN "done" ELSE "clearing"
    <3>2. spot \in Device!Places /\ spot \in {"done", "clearing"} /\ Device!Goes(p, spot)
      BY <3>1 DEF Device!Places
    <3>3. spot = "clearing" => handset.owner # Nobody
      OBVIOUS
    <3> HIDE DEF spot
    <3>4. /\ process'[p].at = spot /\ \A q \in Takeover : q # p => process'[q] = process[q]
          /\ Device!CollectedIsOwn' /\ \A w \in Takeover : process[w].at = "lost" => process'[w].at = "lost"
      BY <1>6, <2>1, <3>2 DEF Device!Over
    <3>5. handset.owner # Nobody => handset.owner \in Takeover /\ handset.owner # p
      BY <1>1, <2>1, <3>1 DEF Device!Somebody, Device!Alive, Device!Over
    <3>6. LeaseSound'
      BY <1>1, <2>1, <3>1, <3>2, <3>3, <3>4, <3>5 DEF LeaseSound, Device!Quiet, Judging, Using, Device!Acting,
         Device!Alive, Device!Over
    <3>7. \A q \in Takeover : process[q].at \notin {"starting", "spawned"}
      BY <1>1, <2>1, <3>1 DEF LeaseSound, Using, Device!Acting, Device!Alive, Device!Over, Device!NobodyIsNoProcess
    <3>8. \A q \in Takeover : process'[q].at \notin {"starting", "spawned"}
      BY <3>2, <3>4, <3>7
    <3>9. capture' = [state |-> Nobody, source |-> Nobody, workers |-> capture.workers \ {capture.state}]
      <4>1. CASE capture.state = Nobody
        <5>1. capture' = [capture EXCEPT !.source = Nobody]
          BY <3>1, <4>1
        <5>2. capture' = [state |-> capture.state, source |-> Nobody, workers |-> capture.workers]
          BY <1>1, <5>1
        <5>3. capture.workers \ {Nobody} = capture.workers
          BY <1>1, Device!NobodyIsNoProcess DEF Device!NobodyIsNoProcess
        <5> QED
          BY <4>1, <5>2, <5>3
      <4>2. CASE capture.state # Nobody
        BY <1>4, <3>1, <4>2
      <4> QED
        BY <4>1, <4>2
    <3>10. capture' \in Captures
      BY <1>1, <1>3, <3>9
    <3>11. \A w \in capture'.workers : Known(w)'
      BY <1>1, <3>4, <3>7, <3>9 DEF Known, CaptureSound
    <3> QED
      BY <1>2, <2>1, <3>2, <3>4, <3>6, <3>8, <3>9, <3>10, <3>11 DEF CaptureSound
  <2> QED
    BY <2>2, <2>3
<1> QED
  BY <1>7, <1>8, <1>9, <1>10, <1>11, <1>12

LEMMA WorkersKeep == ASSUME Device!NobodyIsNoProcess, DeviceInv, Device!WorkerEnds PROVE DeviceInv'
<1> DEFINE Captures == [state : Device!Somebody, source : Device!Somebody, workers : SUBSET Takeover]
<1>1. capture \in Captures /\ CaptureSound
  BY DEF DeviceInv, Device!DeviceTypeOK
<1>2. PICK w \in capture.workers :
        capture' = [capture EXCEPT !.workers = @ \ {w}, !.source = w] /\ UNCHANGED <<handset, process, taken>>
  BY DEF Device!WorkerEnds
<1>3. capture' = [state |-> capture.state, source |-> w, workers |-> capture.workers \ {w}]
  BY <1>1, <1>2
<1>4. w \in Takeover /\ Known(w)
  BY <1>1 DEF CaptureSound
<1>5. capture' \in Captures
  BY <1>1, <1>3, <1>4 DEF Device!Somebody
<1>6. UNCHANGED <<handset, process, taken>>
  BY <1>2
<1>7. \A v \in Takeover : Known(v) => Known(v)'
  BY <1>3, <1>6 DEF Known
<1>8. CaptureSound'
  BY <1>1, <1>3, <1>4, <1>6, <1>7 DEF CaptureSound, Device!CollectedIsOwn, Device!At
<1>9. LeaseSound'
  BY <1>6 DEF DeviceInv, LeaseSound
<1> QED
  BY <1>5, <1>6, <1>8, <1>9 DEF DeviceInv, Device!DeviceTypeOK

LEMMA DeviceKeeps ==
  ASSUME Device!NobodyIsNoProcess
  PROVE  DeviceInv /\ [Device!DeviceNext]_(Device!deviceVars) => DeviceInv'
<1> SUFFICES ASSUME DeviceInv, [Device!DeviceNext]_(Device!deviceVars) PROVE DeviceInv'
  OBVIOUS
<1>1. CASE UNCHANGED Device!deviceVars
  BY <1>1 DEF DeviceInv, Device!DeviceTypeOK, LeaseSound, CaptureSound, Known, Device!CollectedIsOwn, Device!At,
     Device!deviceVars
<1>2. CASE Device!WorkerEnds
  BY <1>2, WorkersKeep
<1>3. CASE \E p \in Takeover : Device!DeviceStep(p)
  BY <1>3, LeaseStepsKeep, CaptureStepsKeep DEF Device!DeviceStep
<1> QED
  BY <1>1, <1>2, <1>3 DEF Device!DeviceNext

LEMMA DeviceGives == ASSUME DeviceInv PROVE Device!DeviceTypeOK /\ Device!OneHasThePhone /\ Device!CollectedIsOwn
BY DEF DeviceInv, Device!OneHasThePhone, CaptureSound, LeaseSound, Using

\* At most one process uses the phone under its lease, and a capture collects
\* only what is its own, for any number of processes that may die anywhere
\* (ios_device.py).
THEOREM OneAlwaysHasThePhone ==
  ASSUME Device!NobodyIsNoProcess PROVE Device!DeviceSpec => [](Device!DeviceTypeOK /\ Device!OneHasThePhone /\ Device!CollectedIsOwn)
<1>1. Device!DeviceInit => DeviceInv
  BY DeviceStarts
<1>2. DeviceInv /\ [Device!DeviceNext]_(Device!deviceVars) => DeviceInv'
  BY DeviceKeeps
<1>3. DeviceInv => Device!DeviceTypeOK /\ Device!OneHasThePhone /\ Device!CollectedIsOwn
  BY DeviceGives
<1> QED
  BY <1>1, <1>2, <1>3, PTL DEF Device!DeviceSpec

-----------------------------------------------------------------------------
(* Requests to an iPhone.                                                  *)

\* The inductive invariant: nothing was sent for a request that is idle or only
\* asked, a console capture that was stopped is the one of a collection, and a
\* reboot whose phone was seen gone had lost this phone.
PhoneInv ==
  /\ Phone!ControlTypeOK
  /\ Phone!At("idle") <=> request = Phone!NoRequest
  /\ request.sent => Phone!At("sent") \/ Phone!At("stopped") \/ (Phone!At("fetched") /\ Phone!Is("log_collect"))
  /\ Phone!At("stopped") => Phone!Is("log_collect")
  /\ Phone!At("fetched") => request.op \in Phone!Written
  /\ Phone!At("sent") => request.op \in Phone!ReadBack \union {"reboot"}
  /\ request.seen => Phone!At("sent")
  /\ Phone!Is("reboot") /\ Phone!At("sent") /\ iphone.here # "this" => request.gone
  /\ request.seen => request.gone

LEMMA PhoneStarts == Phone!ControlInit => PhoneInv
BY DEF Phone!ControlInit, PhoneInv, Phone!ControlTypeOK, Phone!NoRequest, Phone!NoAnswer, Phone!At, Phone!Is,
   Phone!ReadBack, Phone!Written, Phone!Provided, Phone!Guarded, Phone!Listed, 
       Phone!Operations

\* The end of a request, whatever is answered.
LEMMA AnsweringIsSound ==
  ASSUME PhoneInv,
         NEW delivery \in {"none", "refused", "unknown", "confirmed", "not_applicable"},
         NEW effect \in {"none", "refused", "unknown", "unverifiable", "confirmed", "not_applicable"},
         Phone!Answers(delivery, effect),
         iphone' \in [here : {"this", "none"}, app : {"absent", "old", "new"}, file : {"absent", "before", "sent"},
                     capture : BOOLEAN],
         output' \in {"absent", "theirs", "ours"}
  PROVE  PhoneInv' /\ request' = Phone!NoRequest /\ answer'.effect = effect
BY DEF PhoneInv, Phone!ControlTypeOK, Phone!Answers, Phone!NoRequest, Phone!At, Phone!Is

\* A step of the request, of the phone or of the host.
LEMMA PhoneSteps == ASSUME PhoneInv, [Phone!ControlNext]_(Phone!controlVars) PROVE PhoneInv'
<1> USE DEF PhoneInv, Phone!ControlTypeOK, Phone!At, Phone!Is
<1>o. /\ \A d \in {"none", "refused", "unknown", "confirmed", "not_applicable"},
            e \in {"none", "refused", "unknown", "unverifiable", "confirmed", "not_applicable"} :
             Phone!Answers(d, e) /\ iphone' \in [here : {"this", "none"}, app : {"absent", "old", "new"},
                                                file : {"absent", "before", "sent"}, capture : BOOLEAN]
                                 /\ output' \in {"absent", "theirs", "ours"} => PhoneInv'
  BY AnsweringIsSound
<1>1. CASE Phone!Ask
  <2>1. PICK op \in Phone!Operations : request' = [op |-> op, at |-> "asked", sent |-> FALSE, gone |-> FALSE, seen |-> FALSE]
    BY <1>1 DEF Phone!Ask, Phone!NoRequest
  <2>2. UNCHANGED <<iphone, output, answer>>
    BY <1>1 DEF Phone!Ask
  <2>3. request' # Phone!NoRequest
    BY <2>1 DEF Phone!NoRequest
  <2> QED
    BY <2>1, <2>2, <2>3
<1>2. CASE Phone!Refuse
  BY <1>2, <1>o DEF Phone!Refuse, Phone!Refuses
<1>3. CASE Phone!Provide
  BY <1>3, <1>o DEF Phone!Provide, Phone!Refuses
<1>4. CASE Phone!OpenUrl
  BY <1>4, <1>o DEF Phone!OpenUrl
<1>5. CASE Phone!LogStart
  BY <1>5, <1>o DEF Phone!LogStart
<1>6. CASE Phone!ApplicationList \/ Phone!CrashList
  BY <1>6, <1>o DEF Phone!ApplicationList, Phone!CrashList, Phone!Lists
<1>7. ASSUME NEW op \in Phone!ReadBack, NEW effect \in [here : {"this", "none"}, app : {"absent", "old", "new"},
                                file : {"absent", "before", "sent"}, capture : BOOLEAN], Phone!Delivers(op, effect)
      PROVE PhoneInv'
  <2>1. UNCHANGED output /\ Phone!Is(op) /\ ~ request.seen /\ request # Phone!NoRequest
    BY <1>7 DEF Phone!Delivers, Phone!Permitted, Phone!NoRequest
  <2>2. CASE iphone' = effect /\ Phone!Sends("sent")
    <3>1. request' = [op |-> op, at |-> "sent", sent |-> TRUE, gone |-> request.gone, seen |-> FALSE]
      BY <2>1, <2>2 DEF Phone!Sends
    <3>2. request' # Phone!NoRequest
      BY <3>1 DEF Phone!NoRequest
    <3>3. UNCHANGED answer /\ iphone' = effect
      BY <2>2 DEF Phone!Sends
    <3>4. op \in Phone!Operations \union {"none"} /\ request.gone \in BOOLEAN
      BY <2>1
    <3>5. Phone!ControlTypeOK'
      BY <2>1, <3>1, <3>3, <3>4, <1>7
    <3> QED
      BY <2>1, <3>1, <3>2, <3>5, <1>7 DEF Phone!ReadBack
  <2> QED
    BY <1>7, <1>o, <2>1, <2>2 DEF Phone!Delivers
<1>8. CASE Phone!ReadsBack
  BY <1>8, <1>o DEF Phone!ReadsBack, Phone!Refuses
<1>9. CASE Phone!StopCapture
  <2>1. UNCHANGED output /\ Phone!Is("log_collect") /\ ~ request.seen
    BY <1>9 DEF Phone!StopCapture
  <2>2. CASE iphone' = [iphone EXCEPT !.capture = FALSE] /\ Phone!Sends("stopped")
    <3>1. request' = [op |-> "log_collect", at |-> "stopped", sent |-> TRUE, gone |-> request.gone, seen |-> FALSE]
      BY <2>1, <2>2 DEF Phone!Sends
    <3>2. request' # Phone!NoRequest
      BY <3>1 DEF Phone!NoRequest
    <3> QED
      BY <2>1, <2>2, <3>1, <3>2 DEF Phone!Sends
  <2> QED
    BY <1>9, <1>o, <2>1, <2>2 DEF Phone!StopCapture
<1>10. CASE Phone!LateRefusal
  BY <1>10, <1>o DEF Phone!LateRefusal, Phone!Refuses
<1>11. CASE Phone!CopyFrom \/ Phone!CrashCollect
  BY <1>11, <1>o DEF Phone!CopyFrom, Phone!CrashCollect, Phone!Fetches, Phone!Permitted, Phone!Goes, Phone!Written,
     Phone!NoRequest, Phone!ReadBack
<1>12. CASE Phone!LogCollect
  BY <1>12, <1>o DEF Phone!LogCollect, Phone!Fetches, Phone!Goes, Phone!Written, Phone!NoRequest, Phone!ReadBack
<1>13. CASE Phone!Write
  BY <1>13, <1>o DEF Phone!Write, Phone!Refuses
<1>14. CASE Phone!Reboot
  <2>1. /\ UNCHANGED output /\ Phone!Is("reboot") /\ ~ request.seen
        /\ iphone' \in {iphone, [iphone EXCEPT !.here = "none", !.capture = FALSE]}
    BY <1>14 DEF Phone!Reboot, Phone!Permitted
  <2>2. CASE /\ UNCHANGED answer
             /\ request' = [request EXCEPT !.at = "sent", !.sent = TRUE, !.gone = iphone'.here = "none"]
    <3>1. request' = [op |-> "reboot", at |-> "sent", sent |-> TRUE, gone |-> iphone'.here = "none", seen |-> FALSE]
      BY <2>1, <2>2
    <3>2. request' # Phone!NoRequest
      BY <3>1 DEF Phone!NoRequest
    <3>h. iphone' \in [here : {"this", "none"}, app : {"absent", "old", "new"}, file : {"absent", "before", "sent"},
                      capture : BOOLEAN]
      BY <2>1
    <3>3. Phone!ControlTypeOK'
      BY <2>1, <2>2, <3>1, <3>h
    <3> QED
      BY <3>1, <3>2, <3>3
  <2> QED
    BY <1>14, <1>o, <2>1, <2>2 DEF Phone!Reboot
<1>15. CASE Phone!SeeGone
  <2>1. request' = [request EXCEPT !.seen = TRUE] /\ UNCHANGED <<iphone, output, answer>>
    BY <1>15 DEF Phone!SeeGone
  <2>2. Phone!Is("reboot") /\ Phone!At("sent") /\ (~ Phone!Here \/ FALSE)
    BY <1>15 DEF Phone!SeeGone, Phone!LooksGone
  <2>3. request' # Phone!NoRequest
    BY <2>1, <2>2 DEF Phone!NoRequest
  <2>4. request.gone \/ FALSE
    BY <2>2 DEF Phone!Here
  <2>5. Phone!ControlTypeOK'
    <3>1. request' = [op |-> request.op, at |-> request.at, sent |-> request.sent, gone |-> request.gone, seen |-> TRUE]
      BY <2>1
    <3>2. UNCHANGED <<iphone, output, answer>>
      BY <2>1
    <3> QED
      BY <3>1, <3>2
  <2>6. /\ request'.op = request.op /\ request'.at = request.at /\ request'.sent = request.sent
        /\ request'.gone = request.gone
    BY <2>1
  <2> QED
    BY <2>1, <2>2, <2>3, <2>4, <2>5, <2>6
<1>16. CASE Phone!SeeBack
  BY <1>16, <1>o DEF Phone!SeeBack
<1>17. CASE Phone!GiveUp
  BY <1>17, <1>o DEF Phone!GiveUp
<1>18. CASE Phone!Elsewhere
  <2>1. CASE /\ \E here \in {"this", "none"} :
                  /\ iphone' = [iphone EXCEPT !.here = here, !.capture = @ /\ here = "this"]
                  /\ request' = [request EXCEPT !.gone = @ \/ (Phone!At("sent") /\ here # "this")]
             /\ UNCHANGED <<output, answer>>
    <3>o. PICK here \in {"this", "none"} :
             /\ iphone' = [iphone EXCEPT !.here = here, !.capture = @ /\ here = "this"]
             /\ request' = [request EXCEPT !.gone = @ \/ (Phone!At("sent") /\ here # "this")]
      BY <2>1
    <3>p. iphone' = [here |-> here, app |-> iphone.app, file |-> iphone.file, capture |-> iphone.capture /\ here = "this"]
      BY <3>o
    <3>q. PICK gone \in BOOLEAN :
             /\ request' = [op |-> request.op, at |-> request.at, sent |-> request.sent, gone |-> gone, seen |-> request.seen]
             /\ gone = (request.gone \/ (Phone!At("sent") /\ here # "this"))
      BY <3>o
    <3>u. UNCHANGED <<output, answer>>
      BY <2>1
    <3>1. Phone!ControlTypeOK'
      BY <3>u, <3>p, <3>q
    <3>2. /\ request'.op = request.op /\ request'.at = request.at /\ request'.sent = request.sent
          /\ request'.seen = request.seen /\ iphone'.here = here
          /\ request'.gone = (request.gone \/ (Phone!At("sent") /\ here # "this"))
      BY <3>o
    <3>3. Phone!At("idle")' <=> request' = Phone!NoRequest
      <4>1. CASE Phone!At("idle")
        BY <3>q, <4>1 DEF Phone!NoRequest
      <4>2. CASE ~ Phone!At("idle")
        BY <3>2, <4>2 DEF Phone!NoRequest
      <4> QED
        BY <4>1, <4>2
    <3> QED
      BY <3>1, <3>2, <3>3
  <2>2. CASE /\ \E spot \in {"absent", "old"}, file \in {"absent", "before"} :
                  iphone' = [iphone EXCEPT !.app = spot, !.file = file]
             /\ UNCHANGED <<output, request, answer>>
    <3>1. PICK spot \in {"absent", "old"}, file \in {"absent", "before"} :
             iphone' = [here |-> iphone.here, app |-> spot, file |-> file, capture |-> iphone.capture]
      BY <2>2
    <3> QED
      BY <2>2, <3>1
  <2>3. CASE output' \in {"absent", "theirs"} /\ UNCHANGED <<iphone, request, answer>>
    BY <2>3
  <2> QED
    BY <1>18, <2>1, <2>2, <2>3 DEF Phone!Elsewhere
<1>19. CASE UNCHANGED Phone!controlVars
  BY <1>19 DEF Phone!controlVars
<1>20. CASE Phone!Install \/ Phone!Uninstall \/ Phone!CopyTo
  BY <1>7, <1>20 DEF Phone!Install, Phone!Uninstall, Phone!CopyTo, Phone!ReadBack
<1> QED
  BY <1>1, <1>2, <1>3, <1>4, <1>5, <1>6, <1>8, <1>9, <1>10, <1>11, <1>12, <1>13, <1>14, <1>15, <1>16, <1>17, <1>18,
     <1>19, <1>20 DEF Phone!ControlNext

\* What each step says of the request it ends.
LEMMA PhoneTells == ASSUME PhoneInv, [Phone!ControlNext]_(Phone!controlVars) PROVE Phone!TellsWhatHappened
<1> USE DEF PhoneInv, Phone!At, Phone!Is
<1>t. Phone!ControlTypeOK
  OBVIOUS
<1>1. CASE UNCHANGED <<request, output>>
  BY <1>1 DEF Phone!TellsWhatHappened, Phone!NoRequest
<1>2. ASSUME NEW d, NEW e, Phone!Answers(d, e), UNCHANGED output, e = "refused" => ~ request.sent,
             e = "confirmed" => request.op \notin Phone!ReadBack \union {"reboot"}
      PROVE Phone!TellsWhatHappened
  BY <1>2 DEF Phone!TellsWhatHappened, Phone!Answers
<1>s. ASSUME request'.at \in {"asked", "stopped", "sent", "fetched"}, UNCHANGED output PROVE Phone!TellsWhatHappened
  <2>1. request' # Phone!NoRequest
    BY <1>s DEF Phone!NoRequest
  <2> QED
    BY <1>s, <2>1 DEF Phone!TellsWhatHappened
<1>3. CASE Phone!Ask
  BY <1>3 DEF Phone!Ask, Phone!TellsWhatHappened, Phone!NoRequest
<1>4. CASE Phone!Refuse
  BY <1>2, <1>4 DEF Phone!Refuse, Phone!Refuses
<1>5. CASE Phone!Provide
  BY <1>2, <1>5 DEF Phone!Provide, Phone!Refuses, Phone!Permitted, Phone!Provided, Phone!ReadBack
<1>6. CASE Phone!OpenUrl \/ Phone!ApplicationList \/ Phone!CrashList
  BY <1>2, <1>6 DEF Phone!OpenUrl, Phone!ApplicationList, Phone!CrashList, Phone!Lists
<1>7. CASE Phone!LogStart
  BY <1>2, <1>7 DEF Phone!LogStart, Phone!Permitted, Phone!ReadBack
<1>8. CASE Phone!Install \/ Phone!Uninstall \/ Phone!CopyTo
  <2>1. ASSUME NEW op, NEW effect, Phone!Delivers(op, effect) PROVE Phone!TellsWhatHappened
    <3>1. CASE Phone!Sends("sent")
      BY <1>s, <2>1, <3>1 DEF Phone!Delivers, Phone!Sends
    <3>2. CASE Phone!Answers("unknown", "unknown")
      BY <1>2, <2>1, <3>2 DEF Phone!Delivers
    <3> QED
      BY <2>1, <3>1, <3>2 DEF Phone!Delivers
  <2> QED
    BY <1>8, <2>1 DEF Phone!Install, Phone!Uninstall, Phone!CopyTo
<1>9. CASE Phone!ReadsBack
  BY <1>9 DEF Phone!ReadsBack, Phone!Answers, Phone!Refuses, Phone!TellsWhatHappened, Phone!Observed, Phone!ReadBack
<1>10. CASE Phone!StopCapture
  <2>1. CASE Phone!Sends("stopped")
    BY <1>s, <1>10, <2>1 DEF Phone!StopCapture, Phone!Sends
  <2> QED
    BY <1>2, <1>10, <2>1 DEF Phone!StopCapture
<1>11. CASE Phone!LateRefusal
  BY <1>11 DEF Phone!LateRefusal, Phone!Refuses, Phone!Answers, Phone!TellsWhatHappened
<1>12. CASE Phone!CopyFrom \/ Phone!CrashCollect \/ Phone!LogCollect
  BY <1>2, <1>12 DEF Phone!CopyFrom, Phone!CrashCollect, Phone!LogCollect, Phone!Fetches, Phone!Goes,
     Phone!TellsWhatHappened, Phone!NoRequest
<1>13. CASE Phone!Write
  BY <1>13 DEF Phone!Write, Phone!Refuses, Phone!Answers, Phone!TellsWhatHappened, Phone!Free, Phone!Written,
     Phone!ReadBack
<1>14. CASE Phone!Reboot
  <2>1. CASE request' = [request EXCEPT !.at = "sent", !.sent = TRUE, !.gone = iphone'.here = "none"]
    BY <1>s, <1>14, <2>1 DEF Phone!Reboot
  <2> QED
    BY <1>2, <1>14, <2>1 DEF Phone!Reboot
<1>15. CASE Phone!SeeGone
  BY <1>15 DEF Phone!SeeGone, Phone!TellsWhatHappened, Phone!NoRequest
<1>16. CASE Phone!SeeBack
  BY <1>16 DEF Phone!SeeBack, Phone!Answers, Phone!TellsWhatHappened, Phone!ReadBack
<1>17. CASE Phone!GiveUp
  BY <1>2, <1>17 DEF Phone!GiveUp
<1>18. CASE Phone!Elsewhere
  BY <1>1, <1>18 DEF Phone!Elsewhere, Phone!TellsWhatHappened, Phone!NoRequest
<1> QED
  BY <1>1, <1>3, <1>4, <1>5, <1>6, <1>7, <1>8, <1>9, <1>10, <1>11, <1>12, <1>13, <1>14, <1>15, <1>16, <1>17, <1>18
  DEF Phone!ControlNext, Phone!controlVars

\* What a request to an iPhone is answered says what happened on this phone, also
\* when another phone is found in its place (ios_device.py).
THEOREM AnswersAreTold == Phone!ControlSpec => Phone!AnswersTellWhatHappened
<1>1. PhoneInv /\ [Phone!ControlNext]_(Phone!controlVars) => PhoneInv' /\ Phone!TellsWhatHappened
  BY PhoneSteps, PhoneTells
<1> QED
  BY <1>1, PhoneStarts, PTL DEF Phone!ControlSpec, Phone!AnswersTellWhatHappened

\* A request to an iPhone, its output and its answer are as typed (ios_device.py).
THEOREM PhoneTypesAreKept == Phone!ControlSpec => []Phone!ControlTypeOK
<1>1. PhoneInv /\ [Phone!ControlNext]_(Phone!controlVars) => PhoneInv'
  BY PhoneSteps
<1>2. PhoneInv => Phone!ControlTypeOK
  BY DEF PhoneInv
<1> QED
  BY <1>1, <1>2, PhoneStarts, PTL DEF Phone!ControlSpec

-----------------------------------------------------------------------------
(* The unlock of an Android phone.                                         *)

\* The finite sets of the component are those of the library.
LEMMA AndroidCounts == \A S : (Android!IsFiniteSet(S) <=> IsFiniteSet(S)) /\ Android!Cardinality(S) = Cardinality(S)
BY DEF Android!IsFiniteSet, IsFiniteSet, Android!Cardinality, Cardinality

\* What phones, locks and invocations are made of, and who has sent the code.
Invocations == [at : Android!Places, boot : 0..MaxBoot, first : 0..MaxBoot, sent : BOOLEAN, outcome : Android!Outcomes]
Phones == [boot : 1..MaxBoot, up : BOOLEAN, locked : BOOLEAN, helper : BOOLEAN, tries : 0..Cardinality(Process),
           wipe : {"zero", "some"}]
Locks == [owner : Process \union {Nobody}, written : BOOLEAN]
Senders == {p \in Process : invocation[p].sent}

\* Whoever is at work has its name in the lock, and the lock of somebody who is
\* dead is cleared by one.
LockSound ==
  /\ mutation.written => mutation.owner # Nobody
  /\ \A p \in Process : invocation[p].at \in Android!Working => mutation.owner = p /\ mutation.written
  /\ \A p \in Process : mutation.owner = p => invocation[p].at \in Android!Working \union {"writing"} \union Android!Over
  /\ \A p \in Process : invocation[p].at = "writing" => mutation.owner = p /\ ~ mutation.written
  /\ \A p \in Process : invocation[p].at = "removing" =>
       /\ mutation.owner # Nobody /\ invocation[mutation.owner].at \in Android!Over
       /\ \A q \in Process : invocation[q].at = "removing" => q = p

\* What one invocation knows and has done.
PinSound(i, m) ==
  /\ i.sent => i.at \in {"delivered"} \union Android!Over
  /\ i.at \in {"surface", "staging", "staged", "prompting"} => m.wipe = "zero"
  /\ i.outcome # "none" => i.at \in Android!Over
  /\ i.outcome = "refused" => ~ i.sent
  /\ i.at = "waiting" => i.first <= m.boot /\ i.first = i.boot
  /\ i.outcome = "rebooted" => m.boot > i.first

\* The inductive invariant of the unlock.
AndroidInv ==
  /\ android \in Phones /\ mutation \in Locks /\ invocation \in [Process -> Invocations]
  /\ android.tries > 0 => android.wipe = "zero"
  /\ android.tries = Cardinality(Senders)
  /\ LockSound
  /\ \A p \in Process : PinSound(invocation[p], android)

LEMMA AndroidStarts == ASSUME Android!ProcessesAreFinite, Android!AndroidInit PROVE AndroidInv
<1> USE DEF Android!AndroidInit, Android!NoLock, Android!ProcessesAreFinite
<1>1. Senders = {} /\ Cardinality(Senders) = 0
  BY FS_EmptySet DEF Senders
<1>2. Cardinality(Process) \in Nat
  BY AndroidCounts, FS_CardinalityType
<1>3. android \in Phones /\ mutation \in Locks /\ invocation \in [Process -> Invocations]
  BY <1>2 DEF Phones, Locks, Invocations, Android!Places, Android!Outcomes
<1>4. android.tries = 0
  OBVIOUS
<1>5. LockSound /\ \A p \in Process : PinSound(invocation[p], android)
  BY DEF LockSound, PinSound, Android!Working, Android!Over
<1>6. android.tries = Cardinality(Senders) /\ ~ (android.tries > 0)
  BY <1>1, <1>4
<1> QED
  BY <1>3, <1>5, <1>6 DEF AndroidInv

\* A step of one invocation that leaves the lock and tries nothing.
LEMMA MovesAreSound ==
  ASSUME Android!ProcessesAreFinite, AndroidInv, NEW p \in Process, NEW i \in Invocations,
         invocation' = [invocation EXCEPT ![p] = i], i.sent = invocation[p].sent,
         android' \in Phones, android'.tries = android.tries, android'.wipe = android.wipe, android'.boot = android.boot,
         PinSound(i, android),
         mutation' \in Locks, LockSound'
  PROVE  AndroidInv'
<1> USE DEF AndroidInv
<1>1. /\ invocation' \in [Process -> Invocations] /\ invocation'[p] = i
      /\ \A q \in Process : q # p => invocation'[q] = invocation[q]
  OBVIOUS
<1>2. Senders' = Senders
  BY <1>1 DEF Senders
<1>3. \A q \in Process : PinSound(invocation'[q], android')
  BY <1>1 DEF PinSound
<1> QED
  BY <1>1, <1>2, <1>3

\* The lock after a step in which its owner goes on, or gives it up.
LEMMA LockGoesOn ==
  ASSUME AndroidInv, NEW p \in Process, NEW i \in Invocations, invocation' = [invocation EXCEPT ![p] = i],
         invocation[p].at \in Android!Working, i.at \in Android!Working, UNCHANGED mutation
  PROVE  LockSound'
BY DEF AndroidInv, LockSound, Android!Working, Android!Over, Locks

LEMMA LockIsGivenUp ==
  ASSUME Android!ProcessesAreFinite, AndroidInv, NEW p \in Process, NEW i \in Invocations,
         invocation' = [invocation EXCEPT ![p] = i], invocation[p].at \in Android!Working, i.at \in Android!Over,
         mutation' = IF mutation.owner = p /\ mutation.written THEN Android!NoLock ELSE mutation
  PROVE  LockSound'
BY DEF AndroidInv, LockSound, Android!Working, Android!Over, Locks, Android!NoLock, Android!ProcessesAreFinite

\* A step that ends the invocation at work.
LEMMA EndsAreSound ==
  ASSUME Android!ProcessesAreFinite, AndroidInv, NEW p \in Process, NEW spot \in {"released", "failed"},
         NEW outcome \in Android!Outcomes, Android!Ends(p, spot, outcome), invocation[p].at \in Android!Working,
         outcome = "refused" => ~ invocation[p].sent,
         outcome = "rebooted" => android.boot > invocation[p].first,
         android' \in Phones, android'.tries = android.tries, android'.wipe = android.wipe, android'.boot = android.boot
  PROVE  AndroidInv'
<1> DEFINE i == [invocation[p] EXCEPT !.at = spot, !.outcome = outcome]
<1>1. invocation[p] \in Invocations /\ PinSound(invocation[p], android) /\ mutation \in Locks
  BY DEF AndroidInv
<1>2. /\ i \in Invocations /\ i.at = spot /\ i.outcome = outcome /\ i.sent = invocation[p].sent
      /\ i.boot = invocation[p].boot /\ i.first = invocation[p].first
  BY <1>1 DEF Invocations, Android!Places
<1>3. i.at \in Android!Over
  BY <1>2 DEF Android!Over
<1>4. PinSound(i, android)
  BY <1>1, <1>2 DEF PinSound, Android!Over
<1>5. invocation' = [invocation EXCEPT ![p] = i] /\ mutation' = IF mutation.owner = p /\ mutation.written THEN Android!NoLock ELSE mutation
  BY DEF Android!Ends
<1> HIDE DEF i
<1>6. LockSound'
  BY <1>2, <1>3, <1>5, LockIsGivenUp
<1>7. mutation' \in Locks
  BY <1>1, <1>5 DEF Locks, Android!NoLock
<1> QED
  BY <1>2, <1>4, <1>5, <1>6, <1>7, MovesAreSound

\* A step of the invocation at work to its next place.
LEMMA WorkGoesOn ==
  ASSUME Android!ProcessesAreFinite, AndroidInv, NEW p \in Process, NEW i \in Invocations,
         invocation' = [invocation EXCEPT ![p] = i], i.sent = invocation[p].sent,
         invocation[p].at \in Android!Working, i.at \in Android!Working, PinSound(i, android), UNCHANGED mutation,
         android' \in Phones, android'.tries = android.tries, android'.wipe = android.wipe, android'.boot = android.boot
  PROVE  AndroidInv'
<1>1. LockSound'
  BY LockGoesOn
<1>2. mutation' \in Locks
  BY DEF AndroidInv
<1> QED
  BY <1>1, <1>2, MovesAreSound

\* A step of the phone and of people alone.
LEMMA PhoneMoves ==
  ASSUME AndroidInv, android' \in Phones, android'.tries = android.tries, android'.wipe = android.wipe,
         android'.boot >= android.boot, UNCHANGED <<mutation, invocation>>
  PROVE  AndroidInv'
<1>1. Senders' = Senders
  BY DEF Senders
<1>2. \A p \in Process : PinSound(invocation[p], android)
  BY DEF AndroidInv
<1>3. android \in Phones /\ invocation \in [Process -> Invocations]
  BY DEF AndroidInv
<1>4. \A p \in Process : PinSound(invocation'[p], android')
  <2> SUFFICES ASSUME NEW p \in Process PROVE PinSound(invocation[p], android')
    OBVIOUS
  <2>1. invocation[p].first \in Nat /\ android.boot \in Nat /\ android'.boot \in Nat
    BY <1>3 DEF Invocations, Phones
  <2> QED
    BY <2>1, <1>2 DEF PinSound
<1> QED
  BY <1>1, <1>4 DEF AndroidInv, LockSound

LEMMA RestartKeeps ==
  ASSUME Android!ProcessesAreFinite, AndroidInv, Android!Restart \/ Android!Up \/ Android!Person PROVE AndroidInv'
<1>1. android \in Phones
  BY DEF AndroidInv
<1>0. android.boot \in Nat
  BY <1>1 DEF Phones, Android!ProcessesAreFinite
<1>2. /\ android' \in Phones /\ android'.tries = android.tries /\ android'.wipe = android.wipe /\ android'.boot >= android.boot
      /\ UNCHANGED <<mutation, invocation>>
  <2>1. CASE Android!Restart
    <3>1. android' = [boot |-> android.boot + 1, up |-> FALSE, locked |-> TRUE, helper |-> android.helper,
                    tries |-> android.tries, wipe |-> android.wipe]
      BY <1>1, <2>1 DEF Android!Restart, Phones
    <3>2. android.boot + 1 \in 1..MaxBoot
      BY <1>1, <2>1 DEF Android!Restart, Phones, Android!ProcessesAreFinite
    <3>3. UNCHANGED <<mutation, invocation>>
      BY <2>1 DEF Android!Restart
    <3>4. android' \in Phones
      BY <1>1, <3>1, <3>2 DEF Phones
    <3> QED
      BY <1>0, <3>1, <3>3, <3>4
  <2>2. CASE Android!Up
    <3>1. android' = [android EXCEPT !.up = TRUE] /\ UNCHANGED <<mutation, invocation>>
      BY <2>2 DEF Android!Up
    <3>2. android.boot >= android.boot
      BY <1>0
    <3> QED
      BY <1>1, <3>1, <3>2 DEF Phones
  <2>3. CASE Android!Person
    <3>1. android' = [android EXCEPT !.locked = ~ @] /\ UNCHANGED <<mutation, invocation>>
      BY <2>3 DEF Android!Person
    <3>2. android.boot >= android.boot
      BY <1>0
    <3> QED
      BY <1>1, <3>1, <3>2 DEF Phones
  <2> QED
    BY <2>1, <2>2, <2>3
<1> QED
  BY <1>2, PhoneMoves

LEMMA LockStepsKeep ==
  ASSUME Android!ProcessesAreFinite, AndroidInv, NEW p \in Process,
         Android!Take(p) \/ Android!Remove(p) \/ Android!Create(p) \/ Android!WriteLock(p) \/ Android!Die(p)
  PROVE  AndroidInv'
<1> USE DEF Android!At, Android!Goes
<1>1. /\ invocation \in [Process -> Invocations] /\ PinSound(invocation[p], android) /\ mutation \in Locks /\ LockSound
      /\ Nobody \notin Process /\ android \in Phones
  BY DEF AndroidInv, Android!ProcessesAreFinite
<1>2. \A spot \in Android!Places : /\ [invocation[p] EXCEPT !.at = spot] \in Invocations
                                   /\ [invocation[p] EXCEPT !.at = spot].at = spot
                                   /\ [invocation[p] EXCEPT !.at = spot].sent = invocation[p].sent
                                   /\ [invocation[p] EXCEPT !.at = spot].boot = invocation[p].boot
                                   /\ [invocation[p] EXCEPT !.at = spot].first = invocation[p].first
                                   /\ [invocation[p] EXCEPT !.at = spot].outcome = invocation[p].outcome
  BY <1>1 DEF Invocations
<1>3. UNCHANGED android
  BY DEF Android!Take, Android!Remove, Android!Create, Android!WriteLock, Android!Die
<1>4. ASSUME NEW spot \in Android!Places, invocation' = [invocation EXCEPT ![p] = [invocation[p] EXCEPT !.at = spot]],
             PinSound([invocation[p] EXCEPT !.at = spot], android), mutation' \in Locks, LockSound'
      PROVE  AndroidInv'
  <2> DEFINE i == [invocation[p] EXCEPT !.at = spot]
  <2>1. i \in Invocations /\ i.sent = invocation[p].sent
    BY <1>2
  <2>2. PinSound(i, android) /\ invocation' = [invocation EXCEPT ![p] = i]
    BY <1>4
  <2> HIDE DEF i
  <2> QED
    BY <1>1, <1>3, <1>4, <2>1, <2>2, MovesAreSound
<1>5. CASE Android!Take(p)
  <2>1. mutation' = mutation /\ invocation[p].at = "new"
    BY <1>5 DEF Android!Take
  <2>2. PICK spot \in {"creating", "failed", "removing"} :
          /\ invocation' = [invocation EXCEPT ![p] = [invocation[p] EXCEPT !.at = spot]]
          /\ spot = "removing" => /\ mutation.owner # Nobody /\ ~ Android!Alive(mutation.owner)
                                  /\ \A q \in Process : invocation[q].at # "removing"
    BY <1>5 DEF Android!Take
  <2>3. spot \in Android!Places
    BY DEF Android!Places
  <2>4. PinSound([invocation[p] EXCEPT !.at = spot], android)
    BY <1>1, <1>2, <2>1, <2>3 DEF PinSound, Android!Over
  <2>5. invocation'[p].at = spot /\ \A q \in Process : q # p => invocation'[q] = invocation[q]
    BY <1>1, <1>2, <2>2, <2>3
  <2>6. LockSound'
    BY <1>1, <2>1, <2>2, <2>5 DEF LockSound, Locks, Android!Working, Android!Over, Android!Alive
  <2> QED
    BY <1>1, <1>4, <2>1, <2>2, <2>3, <2>4, <2>6
<1>6. CASE Android!Remove(p)
  <2>1. mutation' = Android!NoLock /\ invocation[p].at = "removing"
        /\ invocation' = [invocation EXCEPT ![p] = [invocation[p] EXCEPT !.at = "creating"]]
    BY <1>6 DEF Android!Remove
  <2>2. "creating" \in Android!Places
    BY DEF Android!Places
  <2>3. PinSound([invocation[p] EXCEPT !.at = "creating"], android)
    BY <1>1, <1>2, <2>1, <2>2 DEF PinSound, Android!Over
  <2>4. invocation'[p].at = "creating" /\ \A q \in Process : q # p => invocation'[q] = invocation[q]
    BY <1>1, <1>2, <2>1, <2>2
  <2>5. mutation' \in Locks /\ mutation'.owner = Nobody /\ mutation'.written = FALSE
    BY <2>1 DEF Locks, Android!NoLock
  <2>6. LockSound'
    BY <1>1, <2>1, <2>4, <2>5 DEF LockSound, Locks, Android!Working, Android!Over
  <2> QED
    BY <1>4, <2>1, <2>2, <2>3, <2>5, <2>6
<1>7. CASE Android!Create(p)
  <2>1. CASE mutation = Android!NoLock
    <3>1. mutation' = [owner |-> p, written |-> FALSE] /\ invocation[p].at = "creating"
          /\ invocation' = [invocation EXCEPT ![p] = [invocation[p] EXCEPT !.at = "writing"]]
      BY <1>7, <2>1 DEF Android!Create
    <3>2. "writing" \in Android!Places
      BY DEF Android!Places
    <3>3. PinSound([invocation[p] EXCEPT !.at = "writing"], android)
      BY <1>1, <1>2, <3>1, <3>2 DEF PinSound, Android!Over
    <3>4. invocation'[p].at = "writing" /\ \A q \in Process : q # p => invocation'[q] = invocation[q]
      BY <1>1, <1>2, <3>1, <3>2
    <3>5. mutation' \in Locks /\ mutation'.owner = p /\ mutation'.written = FALSE /\ mutation.owner = Nobody
      BY <2>1, <3>1 DEF Locks, Android!NoLock
    <3>6. LockSound'
      BY <1>1, <3>1, <3>4, <3>5 DEF LockSound, Locks, Android!Working, Android!Over
    <3> QED
      BY <1>4, <3>1, <3>2, <3>3, <3>5, <3>6
  <2>2. CASE mutation # Android!NoLock
    <3>1. mutation' = mutation /\ invocation[p].at = "creating"
          /\ invocation' = [invocation EXCEPT ![p] = [invocation[p] EXCEPT !.at = "failed"]]
      BY <1>7, <2>2 DEF Android!Create
    <3>2. "failed" \in Android!Places
      BY DEF Android!Places
    <3>3. PinSound([invocation[p] EXCEPT !.at = "failed"], android)
      BY <1>1, <1>2, <3>1, <3>2 DEF PinSound, Android!Over
    <3>4. invocation'[p].at = "failed" /\ \A q \in Process : q # p => invocation'[q] = invocation[q]
      BY <1>1, <1>2, <3>1, <3>2
    <3>6. LockSound'
      BY <1>1, <3>1, <3>4 DEF LockSound, Locks, Android!Working, Android!Over
    <3> QED
      BY <1>1, <1>4, <3>1, <3>2, <3>3, <3>6
  <2> QED
    BY <2>1, <2>2
<1>8. CASE Android!WriteLock(p)
  <2>1. invocation[p].at = "writing" /\ mutation' = [mutation EXCEPT !.written = @ \/ mutation.owner = p]
    BY <1>8 DEF Android!WriteLock
  <2>2. PICK spot \in {"checking", "starting"} :
          invocation' = [invocation EXCEPT ![p] = [invocation[p] EXCEPT !.at = spot]]
    BY <1>8 DEF Android!WriteLock
  <2>3. spot \in Android!Places
    BY DEF Android!Places
  <2>4. PinSound([invocation[p] EXCEPT !.at = spot], android)
    BY <1>1, <1>2, <2>1, <2>3 DEF PinSound, Android!Over
  <2>5. invocation'[p].at = spot /\ \A q \in Process : q # p => invocation'[q] = invocation[q]
    BY <1>1, <1>2, <2>2, <2>3
  <2>6. mutation.owner = p
    BY <1>1, <2>1 DEF LockSound
  <2>7. mutation' \in Locks /\ mutation'.owner = p /\ mutation'.written
    BY <1>1, <2>1, <2>6 DEF Locks
  <2>8. LockSound'
    BY <1>1, <2>1, <2>5, <2>6, <2>7 DEF LockSound, Locks, Android!Working, Android!Over
  <2> QED
    BY <1>4, <2>2, <2>3, <2>4, <2>7, <2>8
<1>9. CASE Android!Die(p)
  <2>1. mutation' = mutation /\ invocation' = [invocation EXCEPT ![p] = [invocation[p] EXCEPT !.at = "dead"]]
    BY <1>9 DEF Android!Die
  <2>2. "dead" \in Android!Places
    BY DEF Android!Places
  <2>3. PinSound([invocation[p] EXCEPT !.at = "dead"], android)
    BY <1>1, <1>2, <2>1, <2>2 DEF PinSound, Android!Over
  <2>4. invocation'[p].at = "dead" /\ \A q \in Process : q # p => invocation'[q] = invocation[q]
    BY <1>1, <1>2, <2>1, <2>2
  <2>5. LockSound'
    BY <1>1, <2>1, <2>4 DEF LockSound, Locks, Android!Working, Android!Over
  <2> QED
    BY <1>1, <1>4, <2>1, <2>2, <2>3, <2>5
<1> QED
  BY <1>5, <1>6, <1>7, <1>8, <1>9

LEMMA PinStepsKeep ==
  ASSUME Android!ProcessesAreFinite, AndroidInv, NEW p \in Process,
         Android!Preflight(p) \/ Android!FindField(p) \/ Android!Stage(p) \/ Android!Recheck(p) \/ Android!Observe(p) \/ Android!StartReboot(p) \/ Android!SeeBoot(p)
  PROVE  AndroidInv'
<1> USE DEF Android!At, Android!Goes
<1>1. /\ invocation \in [Process -> Invocations] /\ PinSound(invocation[p], android) /\ android \in Phones
  BY DEF AndroidInv
<1>2. /\ invocation[p] \in Invocations /\ android.boot \in Nat /\ android.boot \in 0..MaxBoot
      /\ invocation[p].first \in Nat /\ android = android
  BY <1>1 DEF Invocations, Phones, Android!ProcessesAreFinite
<1>3. \A boot \in Android!BootSeen : android.up => boot = android.boot
  BY DEF Android!BootSeen
<1>4. Android!Outcomes = {"none", "refused", "already", "confirmed", "no_effect", "unknown", "rebooted"}
  BY DEF Android!Outcomes
\* The places one after the other: nothing is written to the phone.
<1>5. ASSUME UNCHANGED android, NEW spot \in {"released", "failed"}, NEW outcome \in Android!Outcomes \ {"rebooted"},
             Android!Ends(p, spot, outcome), invocation[p].at \in Android!Working, outcome = "refused" => ~ invocation[p].sent
      PROVE  AndroidInv'
  BY <1>1, <1>5, EndsAreSound
<1>6. CASE Android!Preflight(p)
  <2>1. invocation[p].at = "checking" /\ UNCHANGED android
    BY <1>6 DEF Android!Preflight
  <2>2. invocation[p].at \in Android!Working /\ ~ invocation[p].sent
    BY <1>1, <2>1 DEF Android!Working, PinSound, Android!Over
  <2>3. CASE Android!Ends(p, "failed", "none") \/ Android!Ends(p, "released", "refused") \/ Android!Ends(p, "released", "already")
    BY <1>4, <1>5, <2>1, <2>2, <2>3
  <2>4. CASE ~ (Android!Ends(p, "failed", "none") \/ Android!Ends(p, "released", "refused") \/ Android!Ends(p, "released", "already"))
    <3>1. PICK boot \in Android!BootSeen :
            /\ android.up /\ Android!ThresholdIsZero /\ UNCHANGED mutation
            /\ invocation' = [invocation EXCEPT ![p] = [invocation[p] EXCEPT !.at = "surface", !.boot = boot]]
      BY <1>6, <2>4 DEF Android!Preflight
    <3>2. boot = android.boot /\ android.wipe = "zero"
      BY <1>3, <3>1 DEF Android!ThresholdIsZero
    <3> DEFINE i == [at |-> "surface", boot |-> boot, first |-> invocation[p].first, sent |-> invocation[p].sent,
                     outcome |-> invocation[p].outcome]
    <3>3. [invocation[p] EXCEPT !.at = "surface", !.boot = boot] = i
      <4>1. ASSUME NEW x, x = [invocation[p] EXCEPT !.at = "surface", !.boot = boot] PROVE x = i
        BY <1>2, <4>1 DEF Invocations
      <4> QED
        BY <4>1
    <3>4. i \in Invocations
      BY <1>2, <3>2 DEF Invocations, Android!Places
    <3>5. PinSound(i, android)
      BY <1>1, <2>1, <2>2, <3>2 DEF PinSound, Android!Over
    <3>6. i.sent = invocation[p].sent /\ i.at \in Android!Working
      BY DEF Android!Working
    <3>7. invocation' = [invocation EXCEPT ![p] = i]
      BY <3>1, <3>3
    <3> HIDE DEF i
    <3> QED
      BY <1>1, <2>1, <2>2, <3>1, <3>4, <3>5, <3>6, <3>7, WorkGoesOn
  <2> QED
    BY <2>3, <2>4
<1>7. ASSUME NEW spot \in {"staging", "staged", "prompting"}, Android!Goes(p, spot), UNCHANGED mutation,
             invocation[p].at \in {"surface", "staging", "staged"},
             android' \in Phones, android'.tries = android.tries, android'.wipe = android.wipe, android'.boot = android.boot
      PROVE  AndroidInv'
  <2> DEFINE i == [invocation[p] EXCEPT !.at = spot]
  <2>1. /\ i \in Invocations /\ i.at = spot /\ i.sent = invocation[p].sent /\ i.outcome = invocation[p].outcome
        /\ i.boot = invocation[p].boot /\ i.first = invocation[p].first
    BY <1>2, <1>7 DEF Invocations, Android!Places
  <2>2. PinSound(i, android)
    BY <1>1, <1>7, <2>1 DEF PinSound, Android!Over
  <2>3. i.at \in Android!Working /\ invocation[p].at \in Android!Working
    BY <1>7, <2>1 DEF Android!Working
  <2>4. invocation' = [invocation EXCEPT ![p] = i]
    BY <1>7
  <2> HIDE DEF i
  <2> QED
    BY <1>7, <2>1, <2>2, <2>3, <2>4, WorkGoesOn
<1>8. CASE Android!FindField(p)
  <2>1. invocation[p].at = "surface" /\ UNCHANGED android
    BY <1>8 DEF Android!FindField
  <2>2. invocation[p].at \in Android!Working /\ ~ invocation[p].sent
    BY <1>1, <2>1 DEF Android!Working, PinSound, Android!Over
  <2>3. Android!Ends(p, "released", "refused") \/ (Android!Goes(p, "staging") /\ UNCHANGED mutation)
    BY <1>8 DEF Android!FindField
  <2> QED
    BY <1>1, <1>4, <1>5, <1>7, <2>1, <2>2, <2>3
<1>9. CASE Android!Stage(p)
  <2>1. invocation[p].at = "staging"
    BY <1>9 DEF Android!Stage
  <2>2. invocation[p].at \in Android!Working /\ ~ invocation[p].sent
    BY <1>1, <2>1 DEF Android!Working, PinSound, Android!Over
  <2>3. \A helper \in BOOLEAN : LET m == [android EXCEPT !.helper = helper] IN
          m \in Phones /\ m.tries = android.tries /\ m.wipe = android.wipe /\ m.boot = android.boot
    BY <1>1 DEF Phones
  <2>4. android.helper \in BOOLEAN /\ android.up \in BOOLEAN
    BY <1>1 DEF Phones
  <2>5. android' = android \/ \E helper \in BOOLEAN : android' = [android EXCEPT !.helper = helper]
    BY <1>9, <2>4 DEF Android!Stage
  <2>6. android' \in Phones /\ android'.tries = android.tries /\ android'.wipe = android.wipe /\ android'.boot = android.boot
    BY <1>1, <2>3, <2>5
  <2>7. (Android!Goes(p, "staged") /\ UNCHANGED mutation) \/ Android!Ends(p, "failed", "none")
    BY <1>9 DEF Android!Stage
  <2> QED
    BY <1>4, <1>7, <2>1, <2>2, <2>6, <2>7, EndsAreSound
<1>10. CASE Android!Recheck(p)
  <2>1. invocation[p].at = "staged"
    BY <1>10 DEF Android!Recheck
  <2>2. invocation[p].at \in Android!Working /\ ~ invocation[p].sent
    BY <1>1, <2>1 DEF Android!Working, PinSound, Android!Over
  <2>3. android' = android \/ android' = Android!Clean
    BY <1>10 DEF Android!Recheck
  <2>4. android' \in Phones /\ android'.tries = android.tries /\ android'.wipe = android.wipe /\ android'.boot = android.boot
    BY <1>1, <2>3 DEF Phones, Android!Clean
  <2>5. (Android!Goes(p, "prompting") /\ UNCHANGED mutation) \/ Android!Ends(p, "released", "refused")
    BY <1>10 DEF Android!Recheck
  <2> QED
    BY <1>4, <1>7, <2>1, <2>2, <2>4, <2>5, EndsAreSound
<1>11. CASE Android!Observe(p)
  <2>1. invocation[p].at \in Android!Working /\ UNCHANGED android
    BY <1>11 DEF Android!Observe, Android!Working
  <2>2. PICK outcome \in {"unknown", "confirmed", "no_effect"} : Android!Ends(p, "released", outcome)
    BY <1>11 DEF Android!Observe
  <2> QED
    BY <1>4, <1>5, <2>1, <2>2
<1>12. CASE Android!StartReboot(p)
  <2>1. invocation[p].at = "starting" /\ UNCHANGED android
    BY <1>12 DEF Android!StartReboot
  <2>2. invocation[p].at \in Android!Working /\ ~ invocation[p].sent
    BY <1>1, <2>1 DEF Android!Working, PinSound, Android!Over
  <2>3. CASE Android!Ends(p, "failed", "none")
    BY <1>4, <1>5, <2>1, <2>2, <2>3
  <2>4. CASE ~ Android!Ends(p, "failed", "none")
    <3>1. PICK boot \in Android!BootSeen :
            /\ android.up /\ UNCHANGED mutation
            /\ invocation' = [invocation EXCEPT ![p] = [invocation[p] EXCEPT !.at = "waiting", !.boot = boot,
                                                                             !.first = android.boot]]
      BY <1>12, <2>4 DEF Android!StartReboot
    <3>2. boot = android.boot
      BY <1>3, <3>1
    <3> DEFINE i == [at |-> "waiting", boot |-> boot, first |-> android.boot, sent |-> invocation[p].sent,
                     outcome |-> invocation[p].outcome]
    <3>3. [invocation[p] EXCEPT !.at = "waiting", !.boot = boot, !.first = android.boot] = i
      <4>1. ASSUME NEW x, x = [invocation[p] EXCEPT !.at = "waiting", !.boot = boot,
                   !.first = android.boot] PROVE x = i
        BY <1>2, <4>1 DEF Invocations
      <4> QED
        BY <4>1
    <3>4. i \in Invocations
      BY <1>2, <3>2 DEF Invocations, Android!Places
    <3>5. invocation[p].outcome = "none"
      BY <1>1, <1>2, <2>1 DEF PinSound, Android!Over
    <3>6. PinSound(i, android)
      BY <1>2, <2>2, <3>2, <3>5 DEF PinSound, Android!Over
    <3>7. i.sent = invocation[p].sent /\ i.at \in Android!Working
      BY DEF Android!Working
    <3>8. invocation' = [invocation EXCEPT ![p] = i]
      BY <3>1, <3>3
    <3> HIDE DEF i
    <3> QED
      BY <1>1, <2>1, <2>2, <3>1, <3>4, <3>6, <3>7, <3>8, WorkGoesOn
  <2> QED
    BY <2>3, <2>4
<1>13. CASE Android!SeeBoot(p)
  <2>1. invocation[p].at = "waiting" /\ UNCHANGED android
    BY <1>13 DEF Android!SeeBoot
  <2>2. invocation[p].at \in Android!Working /\ ~ invocation[p].sent
    BY <1>1, <2>1 DEF Android!Working, PinSound, Android!Over
  <2>3. CASE Android!Ends(p, "failed", "none")
    BY <1>4, <1>5, <2>1, <2>2, <2>3
  <2>4. CASE ~ Android!Ends(p, "failed", "none")
    <3>1. PICK boot \in Android!BootSeen : android.up /\ boot # invocation[p].boot /\ Android!Ends(p, "released", "rebooted")
      BY <1>13, <2>4 DEF Android!SeeBoot, Android!Other
    <3>2. android.boot > invocation[p].first
      BY <1>1, <1>2, <1>3, <2>1, <3>1 DEF PinSound
    <3> QED
      BY <1>1, <1>4, <2>1, <2>2, <3>1, <3>2, EndsAreSound
  <2> QED
    BY <2>3, <2>4
<1> QED
  BY <1>6, <1>8, <1>9, <1>10, <1>11, <1>12, <1>13

LEMMA DeliverKeeps ==
  ASSUME Android!ProcessesAreFinite, AndroidInv, NEW p \in Process, Android!Deliver(p) PROVE AndroidInv'
<1>1. /\ invocation \in [Process -> Invocations] /\ PinSound(invocation[p], android) /\ android \in Phones
      /\ mutation \in Locks /\ android.tries = Cardinality(Senders) /\ LockSound
  BY DEF AndroidInv
<1>2. invocation[p].at = "prompting" /\ invocation[p] \in Invocations
  BY <1>1 DEF Android!Deliver, Android!At
<1>3. invocation[p].at \in Android!Working /\ ~ invocation[p].sent /\ android.wipe = "zero" /\ invocation[p].outcome = "none"
  BY <1>1, <1>2 DEF Android!Working, PinSound, Android!Over, Invocations
<1>4. CASE Android!Ends(p, "released", "refused") /\ android' = (IF android.up THEN Android!Clean ELSE android)
  <2>1. android' \in Phones /\ android'.tries = android.tries /\ android'.wipe = android.wipe /\ android'.boot = android.boot
    BY <1>1, <1>4 DEF Phones, Android!Clean
  <2>2. "refused" \in Android!Outcomes
    BY DEF Android!Outcomes
  <2> QED
    BY <1>3, <1>4, <2>1, <2>2, EndsAreSound
<1>5. CASE ~ (Android!Ends(p, "released", "refused") /\ android' = (IF android.up THEN Android!Clean ELSE android))
  <2>1. PICK opens \in BOOLEAN :
          android' = IF ~ android.up THEN android
                   ELSE [Android!Clean EXCEPT !.tries = @ + 1, !.locked = @ /\ ~ (opens /\ android.helper)]
    BY <1>5 DEF Android!Deliver
  <2>2. UNCHANGED mutation /\ invocation' = [invocation EXCEPT ![p] = [invocation[p] EXCEPT !.at = "delivered",
                                                                                           !.sent = android.up]]
    BY <1>5 DEF Android!Deliver
  <2> DEFINE i == [at |-> "delivered", boot |-> invocation[p].boot, first |-> invocation[p].first,
                   sent |-> android.up, outcome |-> "none"]
  <2>3. [invocation[p] EXCEPT !.at = "delivered", !.sent = android.up] = i
    <3>1. ASSUME NEW x, x = [invocation[p] EXCEPT !.at = "delivered", !.sent = android.up] PROVE x = i
      BY <1>2, <1>3, <3>1 DEF Invocations
    <3> QED
      BY <3>1
  <2>4. i \in Invocations
    BY <1>1, <1>2 DEF Invocations, Phones, Android!Places, Android!Outcomes
  <2>5. invocation' = [invocation EXCEPT ![p] = i]
    BY <2>2, <2>3
  <2>6. PinSound(i, android) /\ i.sent = android.up /\ i.at \in Android!Working
    BY DEF PinSound, Android!Working, Android!Over
  <2> HIDE DEF i
  <2>7. CASE ~ android.up
    <3>1. android' = android /\ i.sent = invocation[p].sent
      BY <1>1, <1>2, <1>3, <2>1, <2>6, <2>7 DEF Phones, Invocations
    <3> QED
      BY <1>1, <1>3, <2>2, <2>4, <2>5, <2>6, <3>1, WorkGoesOn
  <2>8. CASE android.up
    <3>1. /\ invocation' \in [Process -> Invocations] /\ invocation'[p] = i
          /\ \A q \in Process : q # p => invocation'[q] = invocation[q]
      BY <1>1, <2>4, <2>5
    <3>2. android.up = TRUE /\ i.sent = TRUE
      BY <1>1, <2>6, <2>8 DEF Phones
    <3>3. Senders' = Senders \union {p} /\ p \notin Senders
      BY <1>3, <3>1, <3>2 DEF Senders
    <3>4. Senders' \subseteq Process
      BY <3>3 DEF Senders
    <3>5. IsFiniteSet(Process) /\ IsFiniteSet(Senders)
      BY AndroidCounts, FS_Subset DEF Android!ProcessesAreFinite, Senders
    <3>6. Cardinality(Senders') = Cardinality(Senders) + 1
      BY <3>3, <3>5, FS_AddElement
    <3>7. Cardinality(Senders') <= Cardinality(Process) /\ Cardinality(Process) \in Nat /\ Cardinality(Senders) \in Nat
      BY <3>4, <3>5, FS_Subset, FS_CardinalityType
    <3>8. PICK locked \in BOOLEAN : android' = [boot |-> android.boot, up |-> android.up, locked |-> locked, helper |-> FALSE,
                                             tries |-> android.tries + 1, wipe |-> android.wipe]
      BY <1>1, <2>1, <2>8 DEF Android!Clean, Phones
    <3>9. android.tries + 1 \in 0..Cardinality(Process)
      BY <1>1, <3>6, <3>7
    <3>10. android' \in Phones
      BY <1>1, <3>8, <3>9 DEF Phones
    <3>11. android'.tries = Cardinality(Senders') /\ android'.wipe = android.wipe /\ android'.boot = android.boot
      BY <1>1, <3>6, <3>8
    <3>12. \A q \in Process : PinSound(invocation'[q], android')
      <4>1. \A q \in Process : PinSound(invocation'[q], android)
        BY <2>6, <3>1 DEF AndroidInv
      <4> QED
        BY <3>11, <4>1 DEF PinSound
    <3>13. LockSound'
      BY <1>3, <2>2, <2>4, <2>5, <2>6, LockGoesOn
    <3> QED
      BY <1>1, <1>3, <2>2, <3>1, <3>10, <3>11, <3>12, <3>13 DEF AndroidInv
  <2> QED
    BY <2>7, <2>8
<1> QED
  BY <1>4, <1>5

LEMMA AndroidGives ==
  ASSUME Android!ProcessesAreFinite, AndroidInv
  PROVE  Android!AndroidTypeOK /\ Android!UnlocksAreSafe
<1>1. Android!AndroidTypeOK
  BY AndroidCounts DEF AndroidInv, Android!AndroidTypeOK, Phones, Locks, Invocations
<1>2. \A p, q \in Process : invocation[p].at \in Android!Working /\ invocation[q].at \in Android!Working => p = q
  BY DEF AndroidInv, LockSound
<1>3. \A p \in Process : invocation[p].outcome = "refused" => ~ invocation[p].sent
  BY DEF AndroidInv, PinSound
<1>4. \A p \in Process : invocation[p].outcome = "rebooted" => android.boot > invocation[p].first
  BY DEF AndroidInv, PinSound
<1> QED
  BY AndroidCounts, <1>1, <1>2, <1>3, <1>4 DEF AndroidInv, Android!UnlocksAreSafe, Senders

LEMMA AndroidKeeps ==
  ASSUME Android!ProcessesAreFinite PROVE AndroidInv /\ [Android!AndroidNext]_(Android!androidVars) => AndroidInv'
<1> SUFFICES ASSUME AndroidInv, [Android!AndroidNext]_(Android!androidVars) PROVE AndroidInv'
  OBVIOUS
<1>1. CASE UNCHANGED Android!androidVars
  BY <1>1 DEF AndroidInv, Android!androidVars, Senders, LockSound
<1>2. CASE Android!Restart \/ Android!Up \/ Android!Person
  BY <1>2, RestartKeeps
<1>3. CASE \E p \in Process : Android!AndroidStep(p)
  BY <1>3, LockStepsKeep, PinStepsKeep, DeliverKeeps DEF Android!AndroidStep
<1> QED
  BY <1>1, <1>2, <1>3 DEF Android!AndroidNext

\* A lock code is typed only by the one invocation that knows the counter is at
\* zero, and its outcome says no more than it saw, for any number of invocations
\* and restarts (android_device.py).
THEOREM UnlocksAreAlwaysSafe ==
  ASSUME Android!ProcessesAreFinite PROVE Android!AndroidSpec => [](Android!AndroidTypeOK /\ Android!UnlocksAreSafe)
<1>1. Android!AndroidInit => AndroidInv
  BY AndroidStarts
<1>2. AndroidInv /\ [Android!AndroidNext]_(Android!androidVars) => AndroidInv'
  BY AndroidKeeps
<1>3. AndroidInv => Android!AndroidTypeOK /\ Android!UnlocksAreSafe
  BY AndroidGives
<1> QED
  BY <1>1, <1>2, <1>3, PTL DEF Android!AndroidSpec
=============================================================================
