---------------------------- MODULE DomainFactory ----------------------------
(***************************************************************************)
(* Making and unmaking factory candidates:                                 *)
(* providers/libvirt-linux/domain_factory.py.                              *)
(*                                                                         *)
(* Everything is about one name: a domain and the volumes NAME.qcow2,      *)
(* NAME.installer.iso and NAME.seed.iso, files of the pool.  No lock holds *)
(* creations apart; what does is that a volume is made, or linked to its   *)
(* name, only where there is none.  Each check and each command is a step. *)
(***************************************************************************)
EXTENDS FiniteSets

CONSTANTS
  LinuxCreation, WindowsCreation,  \* processes that run create-linux, create-windows
  NoCreation

Creation == LinuxCreation \union WindowsCreation
Volumes == {"installer", "seed", "system"}

CreationsDiffer ==
  LinuxCreation \intersect WindowsCreation = {} /\ NoCreation \notin Creation

VARIABLES
  domain,   \* who defined the domain of this name, whether it runs, its media
  volume,   \* who made each volume
  making,   \* each creation: where it is, and the volumes it owns
  taking    \* detach-installer, detach-media or delete-windows: where it is

factoryVars == <<domain, volume, making, taking>>

NoDomain == [by |-> NoCreation, power |-> "off", media |-> {}]
Needed(c) == IF c \in WindowsCreation THEN Volumes ELSE {"seed", "system"}
NothingTaken == [op |-> "none", volumes |-> {}]

FactoryTypeOK ==
  /\ domain.by \in Creation \union {NoCreation} /\ domain.power \in {"off", "running"}
  /\ domain.media \subseteq {"installer", "seed"}
  /\ volume \in [Volumes -> Creation \union {NoCreation}]
  /\ \A c \in Creation :
       /\ making[c].at \in {"new", "checking", "making", "rollback", "created", "failed", "removed"}
       /\ making[c].checked \subseteq Volumes /\ making[c].owned \subseteq Volumes
  /\ taking.op \in {"none", "detach", "delete"} /\ taking.volumes \subseteq Volumes

FactoryInit ==
  /\ domain = NoDomain
  /\ volume = [v \in Volumes |-> NoCreation]
  /\ making = [c \in Creation |-> [at |-> "new", checked |-> {}, owned |-> {}]]
  /\ taking = NothingTaken

CreationGoes(c, place) == making' = [making EXCEPT ![c] = [making[c] EXCEPT !.at = place]]

\* require_name, require_media, validate_cloud_image, the host, absent_domain.
BeginCreation(c) ==
  /\ making[c].at = "new"
  /\ CreationGoes(c, IF domain.by = NoCreation THEN "checking" ELSE "failed")
  /\ UNCHANGED <<domain, volume, taking>>

\* absent_volume, one after the other.
CheckVolume(c) ==
  /\ making[c].at = "checking"
  /\ \E v \in Needed(c) \ making[c].checked :
       making' = [making EXCEPT ![c] =
         IF volume[v] # NoCreation THEN [making[c] EXCEPT !.at = "failed"]
         ELSE [making[c] EXCEPT !.checked = @ \union {v},
                 !.at = IF Needed(c) \ making[c].checked = {v} THEN "making" ELSE @]]
  /\ UNCHANGED <<domain, volume, taking>>

\* create_volume, stage_pool_file, import_cloud_volume: the system disk first.
NextVolume(c) == IF "system" \notin making[c].owned THEN "system"
            ELSE IF c \in WindowsCreation /\ "installer" \notin making[c].owned
            THEN "installer" ELSE "seed"
MakeVolume(c) ==
  /\ making[c].at = "making" /\ making[c].owned # Needed(c)
  /\ volume[NextVolume(c)] = NoCreation
  /\ volume' = [volume EXCEPT ![NextVolume(c)] = c]
  /\ making' = [making EXCEPT ![c] = [making[c] EXCEPT !.owned = @ \union {NextVolume(c)}]]
  /\ UNCHANGED <<domain, taking>>

\* The volume is there, or the copy fails, and takes its own link away: what is
\* owned so far is rolled back, unless nothing is and a Windows creation, which
\* makes its disk outside the try block, just ends.
MakeVolumeFails(c) ==
  /\ making[c].at = "making" /\ making[c].owned # Needed(c)
  /\ CreationGoes(c, IF c \in WindowsCreation /\ making[c].owned = {} THEN "failed" ELSE "rollback")
  /\ UNCHANGED <<domain, volume, taking>>

\* define_domain; libvirt refuses a name that is taken.
DefineDomain(c) ==
  /\ making[c].at = "making" /\ making[c].owned = Needed(c)
  /\ \/ /\ domain.by = NoCreation
        /\ domain' = [by |-> c, power |-> "off", media |-> Needed(c) \ {"system"}]
        /\ making' \in {[making EXCEPT ![c] = [making[c] EXCEPT !.at = "created"]],
                        [making EXCEPT ![c] = [making[c] EXCEPT !.at = "rollback"]]}
     \/ UNCHANGED domain /\ CreationGoes(c, "rollback")
  /\ UNCHANGED <<volume, taking>>

\* Mutant: every volume of the name is rolled back.
RemovableAll(c) == Needed(c)

\* cleanup_failed_creation: the domain of this name, whoever defined it, and
\* the volumes this creation owns.
Removable(c) == making[c].owned

RollBack(c) ==
  /\ making[c].at = "rollback"
  /\ domain' = IF domain.power = "off" THEN NoDomain ELSE domain
  /\ volume' = [v \in Volumes |-> IF v \in Removable(c) THEN NoCreation ELSE volume[v]]
  /\ CreationGoes(c, "failed")
  /\ UNCHANGED taking

-----------------------------------------------------------------------------

\* The candidate is started to install itself, and stops.
PowerChanges ==
  /\ domain.by # NoCreation /\ making[domain.by].at = "created"
  /\ domain' = [domain EXCEPT !.power = IF @ = "off" THEN "running" ELSE "off"]
  /\ UNCHANGED <<volume, making, taking>>

\* media_stage: which media the candidate has; the rest is not a factory shape.
MediaStage == IF domain.media = {"installer", "seed"} THEN "installer_and_seed"
         ELSE IF domain.media = {"seed"} THEN "seed_only" ELSE "detached"

Takeable == taking = NothingTaken /\ domain.by # NoCreation /\ domain.power = "off"
            /\ making[domain.by].at = "created"

\* detach_media of a stopped candidate: the installer of two, or the last seed.
DetachMedium ==
  /\ Takeable /\ MediaStage # "detached"
  /\ LET selected == IF MediaStage = "seed_only" THEN {"seed"} ELSE {"installer"}
     IN /\ domain' = [domain EXCEPT !.media = @ \ selected]
        /\ taking' = [op |-> "detach", volumes |-> selected]
  /\ UNCHANGED <<volume, making>>

\* delete_windows_candidate: only the exact stopped candidate, whose disks are
\* its own volumes; then the volumes that were attached, one after the other.
DeleteCandidate ==
  /\ Takeable /\ domain.by \in WindowsCreation
  /\ volume["system"] = domain.by
  /\ taking' = [op |-> "delete", volumes |-> domain.media \union {"system"}]
  /\ making' = [making EXCEPT ![domain.by] = [making[domain.by] EXCEPT !.at = "removed"]]
  /\ domain' = NoDomain
  /\ UNCHANGED volume

Earliest(V) == IF "installer" \in V THEN "installer" ELSE IF "system" \in V THEN "system" ELSE "seed"
TakeVolume ==
  /\ taking.volumes # {}
  /\ LET v == Earliest(taking.volumes)
         left == taking.volumes \ {v}
     IN \/ /\ volume' = [volume EXCEPT ![v] = NoCreation]
           /\ taking' = IF left = {} THEN NothingTaken ELSE [taking EXCEPT !.volumes = left]
        \/ UNCHANGED volume /\ taking' = NothingTaken   \* its removal was not verified
  /\ UNCHANGED <<domain, making>>

FactoryNext ==
  \/ \E c \in Creation :
       \/ BeginCreation(c) \/ CheckVolume(c) \/ MakeVolume(c) \/ MakeVolumeFails(c)
       \/ DefineDomain(c) \/ RollBack(c)
  \/ PowerChanges \/ DetachMedium \/ DeleteCandidate \/ TakeVolume

FactorySpec == FactoryInit /\ [][FactoryNext]_factoryVars

-----------------------------------------------------------------------------

\* Creation rolls back only its exact newly owned volumes (image-factory.md:297):
\* a candidate that was created keeps its disk and the media it has attached,
\* whatever other creations of the same name fail at.
CreatedKeepsItsVolumes ==
  \A c \in Creation : making[c].at = "created" =>
    /\ volume["system"] = c
    /\ domain.by = c => \A v \in domain.media : volume[v] = c

=============================================================================
