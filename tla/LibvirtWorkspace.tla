-------------------------- MODULE LibvirtWorkspace --------------------------
(***************************************************************************)
(* Workspaces derived from a stopped base: command_derive and              *)
(* command_release of providers/libvirt-linux/workspace_domain.py, start,  *)
(* shutdown and inspection in libvirt_provider.py, and the receipts of     *)
(* providers/workspaces/receipts.py, as libvirt-linux.sh calls them.       *)
(*                                                                         *)
(* One operation runs at a time, under the lock of the receipts; each      *)
(* command of virsh is a step.  A command is refused, or it times out      *)
(* having had its effect or not, and the operation may be killed between   *)
(* any two of them.  A derived identity (domain, volume, handle) is new    *)
(* each time, so it is one model value.                                    *)
(***************************************************************************)
EXTENDS Integers, FiniteSets

CONSTANTS
  Workspace,      \* derived identities
  NoWorkspace,
  MaxTemporary, MaxRetained   \* LIBVIRT_WORKSPACE_MAX_*

LimitsAreNatural == MaxTemporary \in Nat /\ MaxRetained \in Nat \ {0}
NoWorkspaceIsNone == NoWorkspace \notin Workspace

VARIABLES
  host,      \* domains and volumes of libvirt
  receipt,   \* the receipts, by the workspace they name
  job        \* the operation under way

workspaceVars == <<host, receipt, job>>

Intents == {"isolated", "candidate"}
NoReceiptYet == [intent |-> "none", cleanup |-> "none", state |-> "unknown"]
NoJob == [at |-> "none", w |-> NoWorkspace, intent |-> "none", defined |-> FALSE]

WorkspaceTypeOK ==
  /\ host.domain \in [Workspace -> {"absent", "stopped", "started"}]
  /\ host.volume \subseteq Workspace /\ host.base \in {"stopped", "started"}
  /\ host.fresh \subseteq Workspace /\ host.loose \subseteq Workspace
  /\ receipt \in [Workspace -> [intent : {"none"} \union Intents, state : {"off", "running", "unknown"},
                                cleanup : {"none", "release", "pending"}]]
  /\ job.at \in {"none", "derive", "define", "inspect", "undo", "unclaimed", "receipt", "start",
                 "release", "stopped", "undefined"}

WorkspaceInit ==
  /\ host = [domain |-> [w \in Workspace |-> "absent"], volume |-> {}, base |-> "stopped",
             fresh |-> Workspace, loose |-> {}]
  /\ receipt = [w \in Workspace |-> NoReceiptYet]
  /\ job = NoJob

\* command_create, command_update and command_forget; counts of the inventory.
Known(w) == receipt[w].intent # "none"
CountOf(intent) == Cardinality({w \in Workspace : receipt[w].intent = intent})
Updated(w, state, cleanup) ==
  [receipt EXCEPT ![w] = [receipt[w] EXCEPT !.state = state, !.cleanup = cleanup]]

\* inspect_domain and validate_domain_xml of a derived domain: it is there,
\* under its name, with one disk, and with the disk it was given.
Whole(w) == host.domain[w] # "absent" /\ w \in host.volume

\* What a virsh command does: its effect, a refusal, or a timeout that leaves
\* it open whether it had its effect.  `loose` notes who was left in doubt.
InDoubt(h, w) == [h EXCEPT !.loose = @ \union {w}]
Refused(effect, w) == host' \in {host, InDoubt(host, w), InDoubt(effect, w)}

-----------------------------------------------------------------------------
(* workspace-acquire of a derived workspace *)

Acquire(w, intent) ==
  /\ job = NoJob /\ w \in host.fresh
  /\ host.base = "stopped"
  /\ CountOf(intent) < (IF intent = "isolated" THEN MaxTemporary ELSE MaxRetained)
  /\ job' = [at |-> "derive", w |-> w, intent |-> intent, defined |-> FALSE]
  /\ host' = [host EXCEPT !.fresh = @ \ {w}]
  /\ UNCHANGED receipt

With(h, w) == [h EXCEPT !.volume = @ \union {w}]
DefinedIn(h, w) == [h EXCEPT !.domain[w] = "stopped"]

\* create_volume: an overlay over the disk of the base, which is stopped.
CreateVolume ==
  /\ job.at = "derive"
  /\ \/ /\ host.base = "stopped"
        /\ host' = With(host, job.w) /\ job' = [job EXCEPT !.at = "define"]
     \/ Refused(With(host, job.w), job.w) /\ job' = [job EXCEPT !.at = "undo"]
  /\ UNCHANGED receipt

\* define --validate of the derived XML: `defined` only when it answered.
Define ==
  /\ job.at = "define"
  /\ \/ host' = DefinedIn(host, job.w) /\ job' = [job EXCEPT !.at = "inspect", !.defined = TRUE]
     \/ Refused(DefinedIn(host, job.w), job.w) /\ job' = [job EXCEPT !.at = "undo"]
  /\ UNCHANGED receipt

\* The derived domain is inspected: the right disk, the right profile.
InspectDerived ==
  /\ job.at = "inspect"
  /\ job' \in {[job EXCEPT !.at = "unclaimed"], [job EXCEPT !.at = "undo"]}
  /\ UNCHANGED <<host, receipt>>

\* Mutant: a definition is left behind.
WithoutVolume(h, w, defined) == [h EXCEPT !.volume = @ \ {w}]

\* The cleanup of a failed derivation: both commands run whatever they answer.
Without(h, w, defined) ==
  [h EXCEPT !.domain[w] = IF defined THEN "absent" ELSE @, !.volume = @ \ {w}]
Undo ==
  /\ job.at = "undo"
  /\ \/ host' = Without(host, job.w, job.defined)
     \/ host' \in {InDoubt(host, job.w), InDoubt([host EXCEPT !.volume = @ \ {job.w}], job.w)}
  /\ job' = NoJob
  /\ UNCHANGED receipt

\* The claim of the new target, and the receipt.  When either is refused the
\* workspace is released again (cleanup_derived), and what that answers is
\* not looked at.
Claimed ==
  /\ job.at = "unclaimed"
  /\ job' \in {[job EXCEPT !.at = "receipt"], [job EXCEPT !.at = "stopped"]}
  /\ UNCHANGED <<host, receipt>>

CreateReceipt ==
  /\ job.at = "receipt"
  /\ \/ /\ receipt' = [receipt EXCEPT ![job.w] = [intent |-> job.intent, state |-> "running",
                         cleanup |-> IF job.intent = "isolated" THEN "release" ELSE "none"]]
        /\ job' = [job EXCEPT !.at = "start"]
     \/ UNCHANGED receipt /\ job' = [job EXCEPT !.at = "stopped"]
  /\ UNCHANGED host

\* start_domain: started, with KVM; a start that fails is undone by destroy.
StartDerived ==
  /\ job.at = "start"
  /\ \/ host' = [host EXCEPT !.domain[job.w] = "started"] /\ UNCHANGED receipt
     \/ /\ \E s \in {"stopped", "started"} : host' = [host EXCEPT !.domain[job.w] = s]
        /\ receipt' = Updated(job.w, "unknown", "pending")
  /\ job' = NoJob

-----------------------------------------------------------------------------
(* workspace-release *)

\* A candidate stays, and only its receipt is brought up to date; an isolated
\* workspace is marked first, then stopped, then removed.
ReleaseRetained(w) ==
  /\ job = NoJob /\ receipt[w].intent = "candidate"
  /\ \E state \in {IF host.domain[w] = "started" THEN "running" ELSE "off", "unknown"} :
       receipt' = Updated(w, state, "none")
  /\ UNCHANGED <<host, job>>

ReleaseIsolated(w) ==
  /\ job = NoJob /\ receipt[w].intent = "isolated"
  /\ receipt' = Updated(w, receipt[w].state, "pending")
  /\ job' = [NoJob EXCEPT !.at = "release", !.w = w]
  /\ UNCHANGED host

\* shutdown_domain: asked by the agent, then by ACPI, and awaited.
ShutdownDerived ==
  /\ job.at = "release"
  /\ \/ /\ host.domain[job.w] # "absent"
        /\ host' = [host EXCEPT !.domain[job.w] = "stopped"]
        /\ job' = [job EXCEPT !.at = "stopped"]
     \/ UNCHANGED host /\ job' = NoJob
  /\ UNCHANGED receipt

\* command_release: the domain is stopped and has its own disk, over the disk
\* of the exact base; first the domain goes, then its volume.
UndefineDerived ==
  /\ job.at = "stopped" /\ Whole(job.w) /\ host.domain[job.w] = "stopped"
  /\ \/ /\ host' = [host EXCEPT !.domain[job.w] = "absent"]
        /\ job' = [job EXCEPT !.at = "undefined"]
     \/ /\ Refused([host EXCEPT !.domain[job.w] = "absent"], job.w)
        /\ Known(job.w) \/ job.w \in host'.loose
        /\ job' = NoJob
  /\ UNCHANGED receipt

\* Nothing of that is as it should be, or could not be read: released later, if
\* there is a receipt to release it by.
ReleaseRefused ==
  /\ job.at = "stopped"
  /\ host' = IF Known(job.w) THEN host ELSE InDoubt(host, job.w)
  /\ job' = NoJob /\ UNCHANGED receipt

\* A release that is refused here cannot be repeated: it would inspect a domain
\* that is gone.  The receipt stays, and its volume is in doubt.
DeleteVolume ==
  /\ job.at = "undefined"
  /\ \/ /\ host' = [host EXCEPT !.volume = @ \ {job.w}]
        /\ receipt' = [receipt EXCEPT ![job.w] = NoReceiptYet]
     \/ /\ host' \in {InDoubt(host, job.w), InDoubt([host EXCEPT !.volume = @ \ {job.w}], job.w)}
        /\ UNCHANGED receipt
  /\ job' = NoJob

-----------------------------------------------------------------------------

\* The operation is killed; its lock is cleared by the next one.
Killed ==
  /\ job # NoJob
  /\ host' = InDoubt(host, job.w)
  /\ job' = NoJob /\ UNCHANGED receipt

\* Users of the machines: the base is claimed and used between derivations, and
\* a workspace that is known is started and stopped by who holds its claim.
UseBase ==
  /\ job.at \in {"none", "start", "release", "stopped", "undefined"}
  /\ host' = [host EXCEPT !.base = IF @ = "stopped" THEN "started" ELSE "stopped"]
  /\ UNCHANGED <<receipt, job>>

UseWorkspace(w) ==
  /\ job.w # w /\ Known(w) /\ host.domain[w] # "absent"
  /\ host' = [host EXCEPT !.domain[w] = IF @ = "stopped" THEN "started" ELSE "stopped"]
  /\ UNCHANGED <<receipt, job>>

WorkspaceNext ==
  \/ \E w \in Workspace, intent \in Intents : Acquire(w, intent)
  \/ CreateVolume \/ Define \/ InspectDerived \/ Undo \/ Claimed \/ CreateReceipt \/ StartDerived
  \/ \E w \in Workspace : ReleaseRetained(w) \/ ReleaseIsolated(w) \/ UseWorkspace(w)
  \/ ShutdownDerived \/ UndefineDerived \/ ReleaseRefused \/ DeleteVolume
  \/ Killed \/ UseBase

WorkspaceSpec == WorkspaceInit /\ [][WorkspaceNext]_workspaceVars

-----------------------------------------------------------------------------

\* Nothing is lost: unless a command left its effect in doubt or an operation
\* was killed, what exists at the host has a receipt to release it by, and what
\* has a receipt is still whole, after every failure on the way.
NothingIsLost ==
  \A w \in Workspace : w \notin host.loose /\ job.w # w =>
    /\ host.domain[w] # "absent" \/ w \in host.volume => Known(w)
    /\ Known(w) => Whole(w)
=============================================================================
