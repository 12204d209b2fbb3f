---------------------------- MODULE QuestLease ----------------------------
(***************************************************************************)
(* The lease of a Quest headset (platforms/quest/quest.py): the journal    *)
(* kept on the headset, the settings it remembers, the sessions, external  *)
(* leases, ends and recoveries that change and restore them, and the       *)
(* wireless switch that a lease forbids.                                   *)
(*                                                                         *)
(* Every adb command may fail, before or after it took effect, and every   *)
(* process may be killed between two commands.                             *)
(***************************************************************************)
EXTENDS FiniteSets

CONSTANTS
  Setting,    \* MANAGED_SETTINGS
  Process,    \* invocations of the program, each used once
  Nobody,
  OneAtATime, \* TRUE: two invocations do not begin, restore or switch at once
  ReadsFail   \* TRUE: a failed read passes for an absent value

NobodyIsNoProcess == Nobody \notin Process

VARIABLES
  headset,    \* settings, proximity override, journal, network listener
  task,       \* each invocation: kind, controller, place, what it remembers
  lock,       \* the local lock of this controller
  scripts,    \* owners of external leases that still run
  record      \* the wireless record of this controller

questVars == <<headset, task, lock, scripts, record>>

Own == "own"        \* what the user chose
Leased == "leased"  \* what a lease wants
Unset == "absent"
Values == {Own, Leased, Unset}
Kinds == {"session", "external", "detached", "end", "enable", "disable"}
Begins == {"session", "external", "detached"}
Motion == {"looking", "repairing", "saving", "writing", "setting", "restoring", "unlocking", "switching", "verifying"}
Places == Motion \union {"new", "active", "done", "dead"}
Saved == [Setting -> Values]

NoJournal == [owner |-> Nobody, saved |-> [s \in Setting |-> Own]]

QuestTypeOK ==
  /\ headset.settings \in Saved /\ headset.near \in BOOLEAN /\ headset.listens \in BOOLEAN
  /\ headset.journal.owner \in Process \union {Nobody} /\ headset.journal.saved \in Saved
  /\ task \in [Process -> [kind : Kinds, far : BOOLEAN, at : Places, saved : Saved,
                           todo : SUBSET Setting, critical : BOOLEAN]]
  /\ lock \in Process \union {Nobody} /\ scripts \subseteq Process /\ record \in BOOLEAN

Idle(place, far) ==
  [kind |-> "end", far |-> far, at |-> place, saved |-> NoJournal.saved, todo |-> {}, critical |-> TRUE]

QuestInit ==
  /\ headset = [settings |-> [s \in Setting |-> Own], near |-> FALSE, journal |-> NoJournal, listens |-> FALSE]
  /\ \E far \in [Process -> BOOLEAN] : task = [p \in Process |-> Idle("new", far[p])]
  /\ lock = Nobody /\ scripts = {} /\ record = FALSE

-----------------------------------------------------------------------------

At(p, place) == task[p].at = place
Is(p, kind) == task[p].kind = kind
Alive(p) == task[p].at \notin {"new", "done", "dead"}
Goes(p, place) ==
  task' = [task EXCEPT ![p] = IF place \in {"done", "dead"} THEN Idle(place, task[p].far)
                              ELSE [task[p] EXCEPT !.at = place]]
Starts(p, kind, place) == task' = [task EXCEPT ![p] = [task[p] EXCEPT !.kind = kind, !.at = place]]
Turns(p, place, saved, todo) ==
  task' = [task EXCEPT ![p] = [task[p] EXCEPT !.at = place, !.saved = saved, !.todo = todo, !.critical = TRUE]]
Set(s, v) == [headset EXCEPT !.settings = [headset.settings EXCEPT ![s] = v]]
Turn(p) == OneAtATime => \A q \in Process \ {p} : task[q].at \notin Motion

\* journal_owner_active: of this controller, in a mode that has an owner, alive.
OwnerActive(q) ==
  q \in scripts \/ (Is(q, "session") /\ Alive(q))
Mine(p, q) == task[p].far = task[q].far

\* The journal as a command of p reads it; a failed read is "no journal".
Journals == {headset.journal} \union (IF ReadsFail THEN {NoJournal} ELSE {})

\* LocalLock.acquire: a dead owner's lock is taken over.
Lock(p) ==
  /\ At(p, "new") /\ ~task[p].far /\ Turn(p)
  /\ IF lock # Nobody /\ Alive(lock) THEN Goes(p, "done") /\ UNCHANGED lock
     ELSE lock' = p /\ Starts(p, "session", "looking")
  /\ UNCHANGED <<headset, scripts, record>>

\* Another controller's lock is another directory.
Begin(p) ==
  /\ At(p, "new") /\ Turn(p)
  /\ \E kind \in Begins :
       /\ kind = "session" => task[p].far
       /\ Starts(p, kind, "looking")
       /\ scripts' = IF kind = "external" THEN scripts \union {p} ELSE scripts
  /\ UNCHANGED <<headset, lock, record>>

\* begin_lease: an interrupted lease of this controller is restored first.
LookAtJournal(p) ==
  /\ At(p, "looking")
  /\ \E journal \in Journals :
       IF journal.owner = Nobody THEN Goes(p, "saving")
       ELSE IF Mine(p, journal.owner) /\ ~OwnerActive(journal.owner)
         THEN Turns(p, "repairing", journal.saved, Setting)
       ELSE Goes(p, "unlocking")
  /\ UNCHANGED <<headset, lock, scripts, record>>

\* new_journal; a headset that is starting or low is refused before.
Save(p) ==
  /\ At(p, "saving")
  /\ \/ Goes(p, "unlocking")
     \/ \E saved \in Saved :
          /\ \A s \in Setting : saved[s] \in {headset.settings[s]} \union (IF ReadsFail THEN {Unset} ELSE {})
          /\ Turns(p, "writing", saved, Setting)
  /\ UNCHANGED <<headset, lock, scripts, record>>

\* write_remote_journal: pushed beside and moved over; the answer may be lost.
WriteJournal(p) ==
  /\ At(p, "writing")
  /\ \/ Goes(p, "unlocking") /\ UNCHANGED headset
     \/ \E place \in {"setting", "unlocking"} :
          /\ headset' = [headset EXCEPT !.journal = [owner |-> p, saved |-> task[p].saved]]
          /\ Goes(p, place)
  /\ UNCHANGED <<lock, scripts, record>>

\* One setting, or the proximity override; a refusal is a warning.
Change(p) ==
  /\ At(p, "setting") /\ UNCHANGED <<lock, scripts, record>>
  /\ \/ headset' = [headset EXCEPT !.near = TRUE] /\ UNCHANGED task
     \/ \E s \in task[p].todo :
          /\ headset' \in {headset, Set(s, Leased)}
          /\ task' = [task EXCEPT ![p] = [task[p] EXCEPT !.todo = task[p].todo \ {s}]]

\* The wake key and the reverse ports: an error or an interrupt restores.
Started(p) ==
  /\ At(p, "setting") /\ UNCHANGED <<headset, lock, scripts, record>>
  /\ \/ task[p].todo = {} /\ Goes(p, IF Is(p, "session") THEN "active" ELSE "done")
     \/ Turns(p, "restoring", task[p].saved, Setting)

ChildEnds(p) ==
  /\ At(p, "active") /\ Turn(p)
  /\ Turns(p, "restoring", task[p].saved, Setting) /\ UNCHANGED <<headset, lock, scripts, record>>

ScriptEnds == \E p \in scripts : scripts' = scripts \ {p} /\ UNCHANGED <<headset, task, lock, record>>

\* end, recover and recover --force.
Ask(p) ==
  /\ At(p, "new") /\ Turn(p)
  /\ \E journal \in Journals, kind \in {"end", "recover", "force"} :
       IF /\ journal.owner # Nobody
          /\ kind \in {"end", "recover"} => Mine(p, journal.owner)
          /\ kind = "recover" => ~OwnerActive(journal.owner)
       THEN Turns(p, "restoring", journal.saved, Setting)
       ELSE Goes(p, "done")
  /\ UNCHANGED <<headset, lock, scripts, record>>

\* restore_journal, a setting at a time.
Restore(p) ==
  /\ task[p].at \in {"restoring", "repairing"} /\ UNCHANGED <<lock, scripts, record>>
  /\ \E s \in task[p].todo, ok \in BOOLEAN :
       /\ headset' = IF ok THEN Set(s, task[p].saved[s]) ELSE headset
       /\ task' = [task EXCEPT ![p] = [task[p] EXCEPT !.todo = task[p].todo \ {s}, !.critical = task[p].critical /\ ok]]

\* Mutant: the journal is removed whatever could not be restored.
RestoredAnyway(p) == TRUE

\* Whether everything that matters was put back.
Restored(p) == task[p].critical

\* The proximity sensor, then the journal.  Whoever's journal it is by then.
EndRestore(p) ==
  /\ task[p].at \in {"restoring", "repairing"} /\ task[p].todo = {}
  /\ \E ok \in BOOLEAN, cleared \in BOOLEAN :
       /\ cleared => ok /\ Restored(p)
       /\ headset' = [headset EXCEPT !.near = headset.near /\ ~ok, !.journal = IF cleared THEN NoJournal ELSE @]
       /\ Goes(p, IF At(p, "repairing") /\ cleared THEN "saving" ELSE "unlocking")
  /\ UNCHANGED <<lock, scripts, record>>

\* LocalLock.release.
Unlock(p) ==
  /\ At(p, "unlocking")
  /\ lock' = IF lock = p THEN Nobody ELSE lock
  /\ Goes(p, "done") /\ UNCHANGED <<headset, scripts, record>>

\* wireless enable and disable; a switch that failed may have taken effect.
Switch(p) ==
  /\ At(p, "new") /\ Turn(p)
  /\ \E journal \in Journals, kind \in {"enable", "disable"} :
       IF journal.owner = Nobody THEN Starts(p, kind, "switching") ELSE Goes(p, "done")
  /\ UNCHANGED <<headset, lock, scripts, record>>

Switched(p) ==
  /\ At(p, "switching")
  /\ \E done \in BOOLEAN :
       /\ headset' \in {[headset EXCEPT !.listens = Is(p, "enable")]} \union (IF done THEN {} ELSE {headset})
       /\ Goes(p, IF done THEN "verifying" ELSE "done")
  /\ UNCHANGED <<lock, scripts, record>>

Verified(p) ==
  /\ At(p, "verifying")
  /\ record' \in {record, Is(p, "enable")}
  /\ Goes(p, "done") /\ UNCHANGED <<headset, lock, scripts>>

\* The headset restarts: properties are gone, files and settings are not.
Restart ==
  /\ headset.near \/ headset.listens
  /\ headset' = [headset EXCEPT !.near = FALSE, !.listens = FALSE] /\ UNCHANGED <<task, lock, scripts, record>>

Die(p) == Alive(p) /\ Goes(p, "dead") /\ UNCHANGED <<headset, lock, scripts, record>>

QuestStep(p) ==
  \/ Lock(p) \/ Begin(p) \/ LookAtJournal(p) \/ Save(p) \/ WriteJournal(p) \/ Change(p) \/ Started(p)
  \/ ChildEnds(p) \/ Ask(p) \/ Restore(p) \/ EndRestore(p) \/ Unlock(p)
  \/ Switch(p) \/ Switched(p) \/ Verified(p) \/ Die(p)

QuestNext == (\E p \in Process : QuestStep(p)) \/ ScriptEnds \/ Restart

QuestSpec == QuestInit /\ [][QuestNext]_questVars

-----------------------------------------------------------------------------

\* What a lease changed can be put back, whatever failed and whoever died: as
\* long as a setting is not the user's or the headset is held awake, the
\* journal on the headset is there and remembers the user's own settings.
ChangesAreRecoverable ==
  headset.near \/ (\E s \in Setting : headset.settings[s] # Own) =>
    headset.journal.owner # Nobody /\ headset.journal.saved = NoJournal.saved

\* The transport is not switched under a lease.
ListensUnleased == headset'.listens # headset.listens /\ headset'.listens => headset.journal.owner = Nobody

TransportStays == [][ListensUnleased]_questVars
=============================================================================
