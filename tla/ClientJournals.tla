--------------------------- MODULE ClientJournals ---------------------------
(***************************************************************************)
(* The journals of the client: the audit history, which keeps its latest   *)
(* events, and the journal of a provisioning run, which refuses at its     *)
(* limit and is finished once (audit_history.py, provision_journal.py,     *)
(* usage_journal.py), and how a command of the client writes to both       *)
(* around what it dispatches (machine_control.py _main).                   *)
(*                                                                         *)
(* Commands are processes that may die between any two steps; a write to a *)
(* journal is one transaction, which may fail.                             *)
(***************************************************************************)
EXTENDS Naturals, FiniteSets

CONSTANTS
  Command,    \* commands of the client, all attached to one run
  Cleanup,    \* those that release, shut down or revoke
  Keep,       \* events the audit history retains (MAX_EVENTS)
  RunLimit,   \* events a run may have (MAX_EVENTS of the run)
  Page        \* events a reader asks for at a time

LimitsArePositive ==
  IsFiniteSet(Command) /\ Keep \in Nat \ {0} /\ RunLimit \in Nat \ {0} /\ Page \in Nat \ {0}

VARIABLES
  history,  \* the audit history: events by id, and the last id
  run,      \* the run's events and outcome
  process,  \* each command: how far it is, its intents, its exit code
  reader    \* somebody who pages through the history

journalVars == <<history, run, process, reader>>

NoReader == [at |-> "idle", before |-> 0, got |-> {}, first |-> {}]

JournalsTypeOK ==
  /\ history.events \subseteq (1 .. history.last) \X Command \X {"intent", "result"}
  /\ run.outcome \in {"in_progress", "ready", "blocked"}
  /\ run.events \subseteq Command \X {"intent", "result"} /\ run.notes \in 0 .. RunLimit
  /\ process \in [Command -> [at : {"new", "started", "bound", "sent", "returned", "written", "over"},
                              provision : BOOLEAN, audit : BOOLEAN, dispatched : BOOLEAN,
                              exit : {"none", "zero", "error"}]]
  /\ reader.at \in {"idle", "reading", "done"} /\ reader.got \subseteq 1 .. history.last

JournalsInit ==
  /\ history = [events |-> {}, last |-> 0]
  /\ run = [events |-> {}, notes |-> 0, outcome |-> "in_progress"]
  /\ process = [c \in Command |-> [at |-> "new", provision |-> FALSE, audit |-> FALSE,
                                   dispatched |-> FALSE, exit |-> "none"]]
  /\ reader = NoReader

-----------------------------------------------------------------------------
(* Transactions.                                                           *)

\* append and best_effort of the audit history: the event and the pruning.
Audited(c, kind) ==
  LET id == history.last + 1
  IN history' = [events |-> {e \in history.events \union {<<id, c, kind>>} : e[1] + Keep > id}, last |-> id]

Full == Cardinality(run.events) + run.notes >= RunLimit

\* Mutant of Writable: a finished run is not asked for.
WritableAlways(kind) == ~Full

\* insert: nothing above the limit; an intent only while the run is open, a
\* result at any time.
Writable(kind) == ~Full /\ (kind = "intent" => run.outcome = "in_progress")

Recorded(c, kind) == run' = [run EXCEPT !.events = run.events \union {<<c, kind>>}]

Unpaired == {c \in Command : <<c, "intent">> \in run.events /\ <<c, "result">> \notin run.events}

-----------------------------------------------------------------------------
(* A command.  Cleanup goes on without a journal; anything else is refused *)
(* before it is dispatched.                                                *)

Goes(c, to) == process' = [process EXCEPT ![c] = to]

\* The error is emitted; what has an intent gets a result, if it can be written.
Refused(p) == [p EXCEPT !.at = "returned", !.exit = "error"]

Start(c) ==
  LET p == process[c]
  IN /\ p.at = "new" /\ UNCHANGED <<history, reader>>
     /\ \/ /\ Writable("intent") /\ Recorded(c, "intent")
           /\ Goes(c, [p EXCEPT !.at = "started", !.provision = TRUE])
        \/ /\ UNCHANGED run
           /\ Goes(c, IF c \in Cleanup THEN [p EXCEPT !.at = "started"]
                      ELSE [p EXCEPT !.at = "over", !.exit = "error"])

\* Registry, target and claim options are read before the audit intent.
Rejected(c) ==
  /\ process[c].at = "started" /\ Goes(c, Refused(process[c]))
  /\ UNCHANGED <<history, run, reader>>

Bind(c) ==
  LET p == process[c]
  IN /\ p.at = "started" /\ UNCHANGED <<run, reader>>
     /\ \/ Audited(c, "intent") /\ Goes(c, [p EXCEPT !.at = "bound", !.audit = TRUE])
        \/ /\ UNCHANGED history
           /\ Goes(c, IF c \in Cleanup THEN [p EXCEPT !.at = "bound"] ELSE Refused(p))

Dispatch(c) ==
  /\ process[c].at = "bound"
  /\ Goes(c, [process[c] EXCEPT !.at = "sent", !.dispatched = TRUE])
  /\ UNCHANGED <<history, run, reader>>

Return(c) ==
  /\ process[c].at = "sent"
  /\ \E exit \in {"zero", "error"} : Goes(c, [process[c] EXCEPT !.at = "returned", !.exit = exit])
  /\ UNCHANGED <<history, run, reader>>

\* Mutant of Unwritten: a result that could not be written is not mentioned.
UnwrittenIgnored(p) == p

\* A result that could not be written is an error whatever the command did.
Unwritten(p) == [p EXCEPT !.exit = "error"]

AuditResult(c) ==
  LET p == [process[c] EXCEPT !.at = "written"]
  IN /\ process[c].at = "returned" /\ UNCHANGED <<run, reader>>
     /\ \/ p.audit /\ Audited(c, "result") /\ Goes(c, p)
        \/ p.audit /\ Goes(c, Unwritten(p)) /\ UNCHANGED history
        \/ ~p.audit /\ Goes(c, p) /\ UNCHANGED history

ProvisionResult(c) ==
  LET p == [process[c] EXCEPT !.at = "over"]
  IN /\ process[c].at = "written" /\ UNCHANGED <<history, reader>>
     /\ \/ p.provision /\ Writable("result") /\ Recorded(c, "result") /\ Goes(c, p)
        \/ p.provision /\ Goes(c, Unwritten(p)) /\ UNCHANGED run
        \/ ~p.provision /\ Goes(c, p) /\ UNCHANGED run

Dies(c) ==
  /\ process[c].at \notin {"new", "over"}
  /\ Goes(c, [process[c] EXCEPT !.at = "over", !.exit = "none"])
  /\ UNCHANGED <<history, run, reader>>

-----------------------------------------------------------------------------
(* The run, and a reader of the history.                                   *)

Note ==
  /\ ~Full /\ run' = [run EXCEPT !.notes = run.notes + 1]
  /\ UNCHANGED <<history, process, reader>>

\* finish writes an event of its own, so a run at its limit stays open.
Finish(outcome) ==
  /\ run.outcome = "in_progress" /\ ~Full
  /\ outcome = "ready" => Unpaired = {}
  /\ run' = [run EXCEPT !.outcome = outcome, !.notes = run.notes + 1]
  /\ UNCHANGED <<history, process, reader>>

Ids == {e[1] : e \in history.events}
Newest(s, n) == {i \in s : Cardinality({j \in s : j > i}) < n}

\* Mutant of Rest: the cursor is off by one.
RestSkips(page) == (CHOOSE i \in page : \A j \in page : i <= j) - 1

\* The next page starts below the oldest event of this one.
Rest(page) == CHOOSE i \in page : \A j \in page : i <= j

\* history: a page of the newest events below the cursor, and whether there are
\* more; commands write and prune meanwhile.
Read ==
  LET shown == IF reader.at = "idle" THEN Ids ELSE {i \in Ids : i < reader.before}
      page == Newest(shown, Page)
      more == Cardinality(shown) > Page
  IN /\ reader.at # "done"
     /\ reader' = [at |-> IF more THEN "reading" ELSE "done",
                   before |-> IF more THEN Rest(page) ELSE 0,
                   got |-> reader.got \union page,
                   first |-> IF reader.at = "idle" THEN Ids ELSE reader.first]
     /\ UNCHANGED <<history, run, process>>

JournalsNext ==
  \/ \E c \in Command : \/ Start(c) \/ Rejected(c) \/ Bind(c) \/ Dispatch(c) \/ Return(c)
                        \/ AuditResult(c) \/ ProvisionResult(c) \/ Dies(c)
  \/ Note \/ Read \/ \E outcome \in {"ready", "blocked"} : Finish(outcome)

JournalsSpec == JournalsInit /\ [][JournalsNext]_journalVars

-----------------------------------------------------------------------------

\* A run that was finished as ready stays one whose every command has a result:
\* none was in the middle, none starts afterwards, and none of its commands but
\* cleanup was dispatched without an intent.
ReadyIsPaired ==
  /\ run.outcome = "ready" => Unpaired = {}
  /\ \A c \in Command \ Cleanup : process[c].dispatched => <<c, "intent">> \in run.events

\* A command that reports success was audited before it was dispatched and has
\* its result in the run, whatever write failed; only cleanup may lack them.
SuccessIsRecorded ==
  \A c \in Command \ Cleanup : process[c].at = "over" /\ process[c].exit = "zero" =>
    <<c, "result">> \in run.events /\ process[c].audit

\* A reader that pages to the end has read, of what was there when it began,
\* everything that is still retained, while commands write and events are pruned.
PagesAreComplete == reader.at = "done" => reader.first \intersect Ids \subseteq reader.got
=============================================================================
