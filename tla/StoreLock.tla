----------------------------- MODULE StoreLock -----------------------------
(***************************************************************************)
(* The operation lock of the claim store: store_lock, remove_stale_lock    *)
(* and process_alive of providers/claims/claims.py.                        *)
(*                                                                         *)
(* The lock is a directory that holds a file with its owner's process id.  *)
(* mkdir is the only atomic acquisition; everything else is a call of its  *)
(* own on a path, so a process may die, or another process may act,        *)
(* between any two of them.  A rename or an unlink acts on whatever is at  *)
(* the path by then.  A process runs one operation and has an identifier   *)
(* nobody uses again.                                                      *)
(***************************************************************************)
EXTENDS FiniteSets

CONSTANTS
  Process,   \* claim operations, one per process
  Nobody,    \* no process identifier in the directory
  ShortOperations  \* TRUE: no operation lasts for the grace (161-162: "Normal claim
                   \* operations are short")

NobodyIsNoProcess == Nobody \notin Process /\ ShortOperations \in BOOLEAN

VARIABLES
  lock,    \* the directory .operation.lock: does it exist, whose pid it holds,
           \* and has it gone unchanged for STALE_LOCK_GRACE_SECONDS
  at,      \* where each process is in its operation
  seen,    \* the pid a process has read from the lock
  late     \* processes whose LOCK_TIMEOUT_SECONDS are over

lockVars == <<lock, at, seen, late>>

NoLock == [present |-> FALSE, pid |-> Nobody, old |-> FALSE]
Fresh(pid) == [present |-> TRUE, pid |-> pid, old |-> FALSE]

Places == {"waiting", "made", "inside", "leaving", "looked", "read", "judged",
           "moved", "done", "busy", "failed", "dead"}
Over == {"done", "busy", "failed", "dead"}

LockTypeOK ==
  /\ lock \in [present : BOOLEAN, pid : Process \union {Nobody}, old : BOOLEAN]
  /\ at \in [Process -> Places]
  /\ seen \in [Process -> Process \union {Nobody}]
  /\ late \subseteq Process

LockInit ==
  /\ lock = NoLock
  /\ at = [p \in Process |-> "waiting"]
  /\ seen = [p \in Process |-> Nobody]
  /\ late = {}

Alive(p) == p \in Process /\ at[p] \notin Over

Goes(p, place) == at' = [at EXCEPT ![p] = place] /\ UNCHANGED <<seen, late>>

\* lock.mkdir: the one step that decides.
MakeDirectory(p) ==
  /\ at[p] = "waiting" /\ ~lock.present
  /\ lock' = Fresh(Nobody)
  /\ Goes(p, "made")

\* The pid is written to the path: into whatever directory is there now.
WritePid(p) ==
  /\ at[p] = "made"
  /\ \/ lock.present /\ lock' = Fresh(p) /\ Goes(p, "inside")
     \/ ~lock.present /\ UNCHANGED lock /\ Goes(p, "failed")

\* The end of the operation: unlink the pid, then remove the directory.  Both
\* act on the path, and an error of either is ignored.
ErasePid(p) ==
  /\ at[p] = "inside"
  /\ lock' = IF lock.present THEN [lock EXCEPT !.pid = Nobody,
                                     !.old = @ /\ lock.pid = Nobody] ELSE lock
  /\ Goes(p, "leaving")

RemoveDirectory(p) ==
  /\ at[p] = "leaving"
  /\ lock' = IF lock.pid = Nobody THEN NoLock ELSE lock
  /\ Goes(p, "done")

\* The directory exists: is it old enough to be looked into?
Look(p) ==
  /\ at[p] = "waiting" /\ lock.present /\ lock.old
  /\ UNCHANGED lock /\ Goes(p, "looked")

ReadPid(p) ==
  /\ at[p] = "looked" /\ lock.present /\ lock.pid # Nobody
  /\ at' = [at EXCEPT ![p] = "read"] /\ seen' = [seen EXCEPT ![p] = lock.pid]
  /\ UNCHANGED <<lock, late>>

\* process_alive of the pid that was read.
Judge(p) ==
  /\ at[p] = "read" /\ ~Alive(seen[p])
  /\ UNCHANGED lock /\ Goes(p, "judged")

\* The lock is judged stale and moved aside: the directory that is at the path.
MoveAside(p) ==
  /\ at[p] = "judged" /\ lock.present
  /\ lock' = NoLock
  /\ at' = [at EXCEPT ![p] = IF lock.pid = Nobody THEN "failed" ELSE "moved"]
  /\ UNCHANGED <<seen, late>>

\* What was moved aside is deleted, and the process tries again.
DeleteMoved(p) ==
  at[p] = "moved" /\ UNCHANGED lock /\ Goes(p, "waiting")

\* The lock is not removable as far as this process can tell: it gives up when
\* its time is over, and tries again after a pause otherwise.
NotStale(p) ==
  \/ at[p] = "waiting" /\ lock.present /\ ~lock.old /\ p \in late
  \/ at[p] = "looked" /\ (~lock.present \/ lock.pid = Nobody)
  \/ at[p] = "read" /\ Alive(seen[p])
  \/ at[p] = "judged" /\ ~lock.present

GiveUpOrRetry(p) ==
  /\ NotStale(p)
  /\ UNCHANGED lock
  /\ Goes(p, IF p \in late THEN "busy" ELSE "waiting")

\* A process is killed, wherever it is.
Die(p) ==
  /\ at[p] \notin Over
  /\ UNCHANGED lock /\ Goes(p, "dead")

\* Time: the directory has not changed for the length of the grace, or the
\* patience of a process is over.
GracePasses ==
  /\ lock.present /\ ~lock.old
  /\ ShortOperations => \A p \in Process : at[p] \notin {"made", "inside", "leaving"}
  /\ lock' = [lock EXCEPT !.old = TRUE]
  /\ UNCHANGED <<at, seen, late>>

PatienceEnds(p) ==
  /\ at[p] \notin Over /\ p \notin late
  /\ late' = late \union {p}
  /\ UNCHANGED <<lock, at, seen>>

LockStep(p) ==
  \/ MakeDirectory(p) \/ WritePid(p) \/ ErasePid(p) \/ RemoveDirectory(p)
  \/ Look(p) \/ ReadPid(p) \/ Judge(p) \/ MoveAside(p) \/ DeleteMoved(p)
  \/ GiveUpOrRetry(p)

LockNext ==
  \/ \E p \in Process : LockStep(p) \/ Die(p) \/ PatienceEnds(p)
  \/ GracePasses

LockSpec == LockInit /\ [][LockNext]_lockVars

-----------------------------------------------------------------------------

\* Mutual exclusion of claim operations, which claims.py:158-162 argues for:
\* no two processes are inside the store's critical section at the same time,
\* also when an owner has died in it and others clear its lock away.
Exclusion ==
  \A p, q \in Process : at[p] = "inside" /\ at[q] = "inside" => p = q
=============================================================================
