----------------------------- MODULE IosDevice -----------------------------
(***************************************************************************)
(* Who may use the one physical phone: the lease journal of                *)
(* platforms/ios/ios_device.py, the commands and sessions that take it,    *)
(* recover, and the system-log capture that outlives the command that      *)
(* started it.                                                             *)
(*                                                                         *)
(* The lease is a file: it is read, judged, removed, created and written   *)
(* in calls of their own, and a process may die between any two of them.   *)
(* An unlink acts on whatever file has the name by then.                   *)
(***************************************************************************)
EXTENDS FiniteSets

CONSTANTS
  Process,    \* commands, sessions and recoveries, each a process used once
  Nobody,
  OneTakeover \* TRUE: a dead owner's lease is judged and removed by one process
              \* at a time, and --force is not used on a lease in motion

NobodyIsNoProcess == Nobody \notin Process

VARIABLES
  lease,    \* lease.json: present, whose, and is its content written
  process,  \* each process: what it is, where it is
  capture,  \* the system-log capture: state file, source file, workers
  taken     \* captures that were collected: who collected, whose it was

deviceVars == <<lease, process, capture, taken>>

Modes == {"command", "session", "recover", "force"}
Places == {"new", "stale", "removing", "creating", "writing", "inside", "starting", "spawned",
           "closing", "releasing", "dropping", "clearing", "done", "refused", "dead", "lost"}
Over == {"done", "refused", "dead", "lost"}
Somebody == Process \union {Nobody}

DeviceTypeOK ==
  /\ lease \in [owner : Somebody, written : BOOLEAN]
  /\ process \in [Process -> [mode : Modes, at : Places]]
  /\ capture \in [state : Somebody, source : Somebody, workers : SUBSET Process]
  /\ taken \subseteq Process \X Process

NoLease == [owner |-> Nobody, written |-> FALSE]

DeviceInit ==
  /\ lease = NoLease
  /\ process \in [Process -> [mode : Modes, at : {"new"}]]
  /\ capture = [state |-> Nobody, source |-> Nobody, workers |-> {}]
  /\ taken = {}

-----------------------------------------------------------------------------

At(p, place) == process[p].at = place
Is(p, mode) == process[p].mode = mode
Goes(p, place) == process' = [process EXCEPT ![p] = [process[p] EXCEPT !.at = place]]
Alive(p) == process[p].at \notin Over
Owns(p) == lease.owner = p /\ lease.written

\* Nobody else is about to remove the file of the lease it has read.
Quiet(p) ==
  OneTakeover => \A q \in Process \ {p} : process[q].at \notin {"stale", "removing", "dropping", "clearing"}

\* acquire_lease, one file operation a step.  A file without its content is an
\* invalid journal, for everybody, also when its owner is dead.
ReadLease(p) ==
  /\ At(p, "new") /\ process[p].mode \in {"command", "session"}
  /\ \/ lease = NoLease /\ Goes(p, "creating")
     \/ /\ lease.owner # Nobody /\ lease.written /\ ~Alive(lease.owner)
        /\ Quiet(p) /\ Goes(p, "stale")
     \/ lease.owner # Nobody /\ (lease.written => Alive(lease.owner)) /\ Goes(p, "refused")
  /\ UNCHANGED <<lease, capture, taken>>

\* stale_cleanup stops the daemon.
CleanStale(p) == At(p, "stale") /\ Goes(p, "removing") /\ UNCHANGED <<lease, capture, taken>>

RemoveStale(p) ==
  /\ At(p, "removing")
  /\ lease' = NoLease /\ Goes(p, "creating") /\ UNCHANGED <<capture, taken>>

\* Mutant: the file is opened whether it is there or not.
OpensAny == TRUE

\* O_EXCL
Opens == lease = NoLease

CreateLease(p) ==
  /\ At(p, "creating")
  /\ IF Opens THEN lease' = [owner |-> p, written |-> FALSE] /\ Goes(p, "writing")
     ELSE UNCHANGED lease /\ Goes(p, "refused")
  /\ UNCHANGED <<capture, taken>>

\* The content goes to the file that was created, whether it still has its name.
WriteLease(p) ==
  /\ At(p, "writing")
  /\ lease' = IF lease.owner = p THEN [owner |-> p, written |-> TRUE] ELSE lease
  /\ Goes(p, "inside") /\ UNCHANGED <<capture, taken>>

\* A command ends; a session's child ends, and the session cleans up first.
Finish(p) ==
  /\ At(p, "inside")
  /\ Goes(p, IF Is(p, "session") THEN "closing" ELSE "releasing")
  /\ UNCHANGED <<lease, capture, taken>>

\* Mutant: a session stops any capture.
StopsAny(p) == capture.state # Nobody

\* stop_system_log_capture.  A worker writes what it has, over whatever is
\* there, when it ends; one that is killed writes nothing.
StopsOwn(p) == capture.state = p
Stopped(source) == [capture EXCEPT !.state = Nobody, !.workers = @ \ {capture.state}, !.source = source]
Written == IF capture.state \in capture.workers THEN {capture.state, capture.source} ELSE {capture.source}

\* cleanup_session; somebody else's capture is left, and the cleaning fails.
CloseSession(p) ==
  /\ At(p, "closing")
  /\ capture' = IF capture.state = Nobody THEN [capture EXCEPT !.source = Nobody]
                ELSE IF StopsOwn(p) THEN Stopped(Nobody) ELSE capture
  /\ Goes(p, "releasing") /\ UNCHANGED <<lease, taken>>

\* release_lease: read and compare, then unlink.
ReleaseLease(p) ==
  /\ At(p, "releasing")
  /\ Goes(p, IF Owns(p) THEN "dropping" ELSE IF lease = NoLease \/ lease.written THEN "done" ELSE "refused")
  /\ UNCHANGED <<lease, capture, taken>>

DropLease(p) ==
  /\ At(p, "dropping")
  /\ lease' = NoLease /\ Goes(p, "done") /\ UNCHANGED <<capture, taken>>

-----------------------------------------------------------------------------
(* Commands of a session's child: the lease in the environment must match. *)

StartCapture(p) ==
  /\ At(p, "inside") /\ Is(p, "session") /\ Owns(p)
  /\ capture.state = Nobody \/ capture.state \notin capture.workers
  /\ capture' = [capture EXCEPT !.state = Nobody, !.source = Nobody]
  /\ Goes(p, "starting") /\ UNCHANGED <<lease, taken>>

SpawnWorker(p) ==
  /\ At(p, "starting")
  /\ capture' = [capture EXCEPT !.workers = @ \union {p}]
  /\ Goes(p, "spawned") /\ UNCHANGED <<lease, taken>>

\* The state is written, and the worker proves live or is stopped again.
CaptureReady(p) ==
  /\ At(p, "spawned") /\ Goes(p, "inside") /\ UNCHANGED <<lease, taken>>
  /\ \/ capture.state = Nobody /\ capture' = [capture EXCEPT !.state = p]
     \/ capture.state = Nobody /\ capture' = [capture EXCEPT !.workers = @ \ {p}, !.source = Nobody]
     \/ capture.state # Nobody /\ UNCHANGED capture

Collect(p) ==
  /\ At(p, "inside") /\ Is(p, "session") /\ Owns(p)
  /\ StopsOwn(p)
  /\ \E source \in Written :
       IF source = Nobody THEN UNCHANGED taken ELSE taken' = taken \union {<<p, source>>}
  /\ capture' = Stopped(Nobody)
  /\ UNCHANGED <<lease, process>>

WorkerEnds ==
  \E w \in capture.workers :
    /\ capture' = [capture EXCEPT !.workers = @ \ {w}, !.source = w]
    /\ UNCHANGED <<lease, process, taken>>

-----------------------------------------------------------------------------
(* recover, and recover --force.                                           *)

Recover(p) ==
  /\ At(p, "new") /\ process[p].mode \in {"recover", "force"}
  /\ IF lease.owner # Nobody /\ (~lease.written \/ (Alive(lease.owner) /\ Is(p, "recover")))
     THEN Goes(p, "refused") /\ UNCHANGED capture
     ELSE /\ lease.owner # Nobody => Quiet(p)
          /\ lease.owner # Nobody /\ OneTakeover => ~Alive(lease.owner)
          /\ capture' = IF capture.state = Nobody THEN [capture EXCEPT !.source = Nobody] ELSE Stopped(Nobody)
          /\ Goes(p, IF lease.owner = Nobody THEN "done" ELSE "clearing")
  /\ UNCHANGED <<lease, taken>>

ClearLease(p) ==
  /\ At(p, "clearing")
  /\ lease' = NoLease /\ Goes(p, "done") /\ UNCHANGED <<capture, taken>>

\* A process is killed; workers have sessions of their own and stay.  One that
\* was spawned and is in no state file yet is lost: nobody can stop it.
Die(p) ==
  /\ Alive(p) /\ ~At(p, "new")
  /\ Goes(p, IF At(p, "spawned") THEN "lost" ELSE "dead") /\ UNCHANGED <<lease, capture, taken>>

DeviceStep(p) ==
  \/ ReadLease(p) \/ CleanStale(p) \/ RemoveStale(p) \/ CreateLease(p) \/ WriteLease(p)
  \/ Finish(p) \/ CloseSession(p) \/ ReleaseLease(p) \/ DropLease(p)
  \/ StartCapture(p) \/ SpawnWorker(p) \/ CaptureReady(p) \/ Collect(p)
  \/ Recover(p) \/ ClearLease(p) \/ Die(p)

DeviceNext == (\E p \in Process : DeviceStep(p)) \/ WorkerEnds

DeviceSpec == DeviceInit /\ [][DeviceNext]_deviceVars

-----------------------------------------------------------------------------

\* One of them has the phone: two processes never act on it at the same time,
\* when the owner before them died at any point of its own acquisition.
Acting == {"inside", "starting", "spawned", "closing"}
OneHasThePhone ==
  \A p, q \in Process : process[p].at \in Acting /\ process[q].at \in Acting => p = q

\* What a session collects was captured by that session, never by one before
\* it whose worker or files were left behind.  The one exception is a worker
\* nobody knows of: it ends when it likes, and writes over what is there.
CollectedIsOwn == \A pair \in taken : pair[1] = pair[2] \/ At(pair[2], "lost")
=============================================================================
