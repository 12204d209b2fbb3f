----------------------------- MODULE ScopedRun -----------------------------
(***************************************************************************)
(* A task that runs under a claim: class Run and handle_run of             *)
(* client/scoped_run.py, with ProcessTree of client/scoped_process.py.     *)
(*                                                                         *)
(* The runner acquires a claim (by the command, through the queue, or with *)
(* a workspace), starts a process tree, renews the claim, stops the tree   *)
(* and releases what it acquired.  Time is in thirds of a second: a lease  *)
(* of less than 3 seconds is refused, the renewal is due after a third of  *)
(* the lease and may last a third of what is left, and a tree that does    *)
(* not end at its signal is killed a second later.                         *)
(***************************************************************************)
EXTENDS Integers

CONSTANTS
  Modes,      \* subset of {"claim", "workspace", "queued"}: how it acquires
  Leases,     \* lengths of the leases the store gives
  Slow        \* bound on the time a step without a deadline of its own takes

MinLease == 9   \* 3 seconds (207, 262)
Grace == 3      \* 1 second between the signal and the kill

LeasesAreNatural == Leases \subseteq Nat /\ Slow \in Nat
ModesAreKnown == Modes \subseteq {"claim", "workspace", "queued"}

VARIABLES
  run,    \* the Run object and the place in handle_run
  held    \* what the provider still holds for this run: lease left, workspace

runVars == <<run, held>>

Cleanups == {"not_acquired", "unresolved", "released"}

RunTypeOK ==
  /\ run.mode \in {"claim", "workspace", "queued"}
  /\ run.at \in {"doctor", "status", "acquire", "prepare", "launch", "running",
                 "renewing", "stopping", "release", "done"}
  /\ run.claim \in BOOLEAN /\ run.handle \in BOOLEAN /\ run.signal \in BOOLEAN
  /\ run.error \in BOOLEAN /\ run.failedChild \in BOOLEAN
  /\ run.claimCleanup \in Cleanups /\ run.workspaceCleanup \in Cleanups
  /\ run.child \in {"none", "alive", "gone"}
  /\ run.left \in Nat /\ run.renewIn \in Nat /\ run.spent \in Nat
  /\ held.claim \in BOOLEAN /\ held.workspace \in BOOLEAN /\ held.left \in Nat

RunInit ==
  /\ run \in {[mode |-> m, at |-> "doctor", claim |-> FALSE, handle |-> FALSE,
               signal |-> FALSE, error |-> FALSE, failedChild |-> FALSE,
               claimCleanup |-> "not_acquired", workspaceCleanup |-> "not_acquired",
               child |-> "none", left |-> 0, renewIn |-> 0, spent |-> 0] : m \in Modes}
  /\ held = [claim |-> FALSE, workspace |-> FALSE, left |-> 0]

\* Mutant: the cleanup does not stop the process tree first.
CleaningAtOnce(r) == [r EXCEPT !.at = "release", !.spent = 0]

\* What every error leads to: the cleanup, which begins with the process tree.
Cleaning(r) == [r EXCEPT !.at = IF r.child = "alive" THEN "stopping" ELSE "release",
                         !.spent = 0]
Error(r) == Cleaning([r EXCEPT !.error = TRUE])

Nothing == UNCHANGED held

\* acquire(): the doctor binds the identity, claim-status resolves it.
Inspect ==
  /\ run.at \in {"doctor", "status"}
  /\ \/ run' = Error(run)
     \/ run' = IF run.at = "doctor" THEN [run EXCEPT !.at = "status"]
               ELSE IF run.signal THEN Cleaning(run)
               ELSE [run EXCEPT !.at = "acquire", !.claimCleanup = "unresolved",
                       !.workspaceCleanup = IF run.mode = "workspace" THEN "unresolved" ELSE @]
  /\ Nothing

\* Mutant: a lease too short to clean up under is taken all the same.
LeasedShort(r, n) == [r EXCEPT !.claim = TRUE, !.left = n, !.renewIn = n \div 3, !.spent = 0]

\* set_lease: what is left of the lease, and when to renew it.
Leased(r, n) ==
  IF n < MinLease THEN Error([r EXCEPT !.claim = TRUE])
  ELSE [r EXCEPT !.claim = TRUE, !.left = n, !.renewIn = n \div 3, !.spent = 0]

Acquired(n) == [claim |-> TRUE, workspace |-> run.mode = "workspace", left |-> n]

AcquireAccepted ==
  /\ run.at = "acquire"
  /\ \E n \in Leases :
       /\ held' = Acquired(n)
       /\ run' = Leased([run EXCEPT !.at = "prepare", !.handle = run.mode = "workspace"], n)

\* The result is malformed, uncertain or of another intent: the identifiers
\* that are well formed are kept, for the release.
AcquireInvalid ==
  /\ run.at = "acquire" /\ run.mode # "queued"
  /\ \E n \in Leases, claim \in BOOLEAN, handle \in BOOLEAN :
       /\ handle => run.mode = "workspace"
       /\ held' = Acquired(n)
       /\ run' = Error([run EXCEPT !.claim = claim, !.handle = handle])

AcquireRefused ==
  /\ run.at = "acquire"
  /\ run' = Error(IF run.mode = "queued" THEN run
                  ELSE [run EXCEPT !.claimCleanup = "not_acquired",
                                   !.workspaceCleanup = "not_acquired"])
  /\ Nothing

\* No answer: the provider may have acquired or not.  A queued claim ends with
\* the connection that asked for it.
AcquireLost ==
  /\ run.at = "acquire"
  /\ run' = Error(run)
  /\ IF run.mode = "queued" THEN Nothing ELSE \E n \in Leases : held' \in {held, Acquired(n)}

\* The scope files are written; then the renewal comes first when it is due.
Prepare ==
  /\ run.at = "prepare"
  /\ run' = IF run.signal THEN Cleaning(run)
            ELSE IF run.renewIn = 0 THEN [run EXCEPT !.at = "renewing", !.spent = 0]
            ELSE [run EXCEPT !.at = "launch"]
  /\ Nothing

PrepareFails == run.at \in {"prepare", "launch"} /\ run' = Error(run) /\ Nothing

Launch ==
  /\ run.at = "launch"
  /\ run' = [run EXCEPT !.at = "running", !.child = "alive"]
  /\ Nothing

\* The loop, every twentieth of a second: the child has ended, a signal came,
\* the queued ownership ended, or the renewal is due.
ChildEnds ==
  /\ run.child = "alive" /\ run.at \in {"running", "renewing", "stopping"}
  /\ \E failed \in BOOLEAN : run' = [run EXCEPT !.child = "gone", !.failedChild = failed]
  /\ Nothing

Poll ==
  /\ run.at = "running"
  /\ \/ run.signal \/ run.child = "gone"
     \/ run.mode = "queued" /\ ~held.claim
  /\ run' = IF run.signal \/ run.child = "gone" THEN Cleaning(run) ELSE Error(run)
  /\ Nothing

RenewIsDue ==
  /\ run.at = "running" /\ run.renewIn = 0 /\ run.child = "alive" /\ ~run.signal
  /\ run' = [run EXCEPT !.at = "renewing", !.spent = 0]
  /\ Nothing

\* renew(): refused without a call when less than the least lease is left; the
\* call is given up after a third of what was left when it began.
RenewTime == (run.left + run.spent) \div 3

RenewAccepted ==
  /\ run.at = "renewing" /\ held.claim
  /\ run.left + run.spent >= MinLease
  /\ \E n \in Leases :
       /\ run' = Leased([run EXCEPT !.at = IF run.child = "none" THEN "launch" ELSE "running"],
                        IF n > run.spent THEN n - run.spent ELSE 0)
       /\ held' = [held EXCEPT !.left = n]

RenewFails == run.at = "renewing" /\ run' = Error(run) /\ Nothing

\* cleanup(): ProcessTree.stop signals the group, waits, and kills it.
Kill ==
  /\ run.at = "stopping" /\ run.child = "alive" /\ run.spent >= Grace
  /\ run' = [run EXCEPT !.child = "gone", !.failedChild = TRUE]
  /\ Nothing

TreeStopped ==
  /\ run.at = "stopping" /\ run.child = "gone"
  /\ run' = [run EXCEPT !.at = "release"]
  /\ Nothing

\* The group cannot be signalled or does not end: authority is not released,
\* but a queued connection stops keeping its claim alive.
StopFails ==
  /\ run.at = "stopping" /\ run.child = "alive" /\ run.spent >= Grace
  /\ run' = [run EXCEPT !.at = "done", !.error = TRUE]
  /\ held' = IF run.mode = "queued" THEN [held EXCEPT !.claim = FALSE] ELSE held

\* What is known is released; the receipt names what the release is about.
ReleaseNothing ==
  /\ run.at = "release" /\ ~run.claim
  /\ run' = [run EXCEPT !.at = "done",
               !.claimCleanup = IF run.mode = "queued" THEN "not_acquired" ELSE @]
  /\ held' = IF run.mode = "queued" THEN [held EXCEPT !.claim = FALSE] ELSE held

Releasable == run.claim /\ (run.mode = "workspace" => run.handle)

Release ==
  /\ run.at = "release" /\ Releasable
  /\ run' = [run EXCEPT !.at = "done", !.claimCleanup = "released",
               !.workspaceCleanup = IF run.mode = "workspace" THEN "released" ELSE @]
  /\ held' = [held EXCEPT !.claim = FALSE, !.workspace = FALSE]

ReleaseFails ==
  /\ run.at = "release" /\ run.claim
  /\ run' = [run EXCEPT !.at = "done", !.error = TRUE]
  /\ held' \in {[held EXCEPT !.claim = run.mode # "queued" /\ @],
                [held EXCEPT !.claim = FALSE, !.workspace = Releasable => FALSE]}

\* A first SIGINT, SIGTERM or SIGHUP is remembered; the loop looks at it.
Signal ==
  /\ ~run.signal /\ run.at # "done"
  /\ run' = [run EXCEPT !.signal = TRUE]
  /\ Nothing

-----------------------------------------------------------------------------

Less(n) == IF n > 0 THEN n - 1 ELSE 0

\* Time passes while a step is under way; a step with a deadline ends by it.
MayTakeTime ==
  \/ run.at = "prepare" /\ run.spent < Slow
  \/ run.at = "running" /\ run.renewIn > 0 /\ run.child = "alive" /\ ~run.signal
                        /\ ~(run.mode = "queued" /\ ~held.claim)
  \/ run.at = "renewing" /\ run.left + run.spent >= MinLease /\ run.spent < RenewTime
  \/ run.at = "stopping" /\ run.child = "alive" /\ run.spent < Grace

TimePasses ==
  /\ MayTakeTime
  /\ run' = [run EXCEPT !.left = Less(@), !.renewIn = Less(@),
                        !.spent = IF run.at = "running" THEN 0 ELSE @ + 1]
  /\ held' = [held EXCEPT !.left = Less(@)]

\* The connection of a queued claim fails at any time, and its claim with it.
AdmissionEnds ==
  /\ run.mode = "queued" /\ held.claim
  /\ held' = [held EXCEPT !.claim = FALSE]
  /\ UNCHANGED run

RunStep ==
  \/ Inspect
  \/ AcquireAccepted \/ AcquireInvalid \/ AcquireRefused \/ AcquireLost
  \/ Prepare \/ PrepareFails \/ Launch
  \/ ChildEnds \/ Poll \/ RenewIsDue \/ RenewAccepted \/ RenewFails
  \/ Kill \/ TreeStopped \/ StopFails
  \/ ReleaseNothing \/ Release \/ ReleaseFails
  \/ Signal \/ AdmissionEnds

RunNext == RunStep \/ TimePasses

RunSpec == RunInit /\ [][RunNext]_runVars

-----------------------------------------------------------------------------

\* The task never runs on without its lease: from its start until it has ended
\* or its kill was refused, time is left on the claim, however late the
\* renewal came, however long it took and whatever it answered.
LeaseOutlivesTask ==
  run.child = "alive" /\ run.at # "done" => run.left > 0

\* Authority is not released while the workload may still be alive
\* (scoped_run.py:294); only the connection of a queued claim ends on its own.
AuthorityOutlivesTask ==
  run.child = "alive" /\ run.mode # "queued" => held.claim

\* A run that ends without an error and with nothing unresolved has left
\* nothing behind at the provider, on whatever path it ended.
CleanExitLeavesNothing ==
  run.at = "done" /\ ~run.error /\ "unresolved" \notin {run.claimCleanup, run.workspaceCleanup}
    => ~held.claim /\ ~held.workspace

=============================================================================
