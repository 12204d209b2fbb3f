---------------------------- MODULE FactoryStages ----------------------------
(***************************************************************************)
(* The read-only stage reports of an image factory                         *)
(* (platforms/linux/scripts/factory-stages.py for the routes "libvirt" and *)
(* "utm", platforms/windows/scripts/factory-stages.py for "windows"), the  *)
(* receipts the reports trust, and the credential handoff of Linux         *)
(* (platforms/linux/scripts/credential.py).  A report is a function of     *)
(* what is there when it is made; the operator runs the commands it        *)
(* offers, one after another.  The programs behind those commands and the  *)
(* guest are external.                                                     *)
(*                                                                         *)
(* A password is the number of the file version that holds it; 0 is the    *)
(* locked account of the key-only seed.                                    *)
(***************************************************************************)
EXTENDS Naturals, FiniteSets

CONSTANTS Route,      \* of "libvirt", "utm", "windows"
          Process,    \* runs of `credential`
          MaxVersion, \* versions of the secret file
          MaxAge      \* ticks a receipt stays valid

BoundsAreKnown == Route \subseteq {"libvirt", "utm", "windows"} /\ MaxVersion \in Nat \ {0} /\ MaxAge \in Nat

VARIABLES candidate,  \* the virtual machine under construction
          media,      \* the inputs of the factory on the controller
          files,      \* the receipts and credential files of the controller
          job         \* the credential command each process runs

stageVars == <<candidate, media, files, job>>

Nothing == [age |-> 0, of |-> MaxVersion + 1]   \* no receipt on the disk
Versions == 0..MaxVersion

StageInit ==
    /\ candidate \in
         [route : Route, profile : {"password", "password-free"}, power : {"none"},
          agent : {FALSE}, cloud : {"none"}, seed : {FALSE}, installer : {FALSE},
          resident : {FALSE}, password : {0}, given : {FALSE}]
    /\ media = [source |-> FALSE, prepared |-> FALSE, key |-> FALSE, seed |-> "absent"]
    /\ files = [secret |-> 1, receipt |-> Nothing, attested |-> Nothing,
                pending |-> 0, accepted |-> {}]
    /\ job = [p \in Process |-> [at |-> "idle", fd |-> 0, op |-> "verify", wrote |-> FALSE]]

Windows == candidate.route = "windows"
Off == candidate.power = "off"
Running == candidate.power = "running"
Attached == candidate.seed \/ candidate.installer

----------------------------------------------------------------------------
(* Before the machine exists: each check of preflight, and what it offers. *)

SourceReady == media.source /\ (Windows => media.prepared)
SeedReady == media.key /\ media.seed = "good"
CreateOffered == candidate.power = "none" /\ SourceReady /\ SeedReady
PrepareOffered == candidate.power = "none" /\ Windows /\ media.source /\ ~media.prepared
RenderOffered == candidate.power = "none" /\ media.key /\ media.seed = "absent"

----------------------------------------------------------------------------
(* The report on a candidate. *)

Fresh(receipt) == receipt # Nothing /\ receipt.age =< MaxAge

(* attested(): completion of the first boot was observed not long ago. *)
Historical == Fresh(files.attested)

(* What the guest itself says now; its agent must answer. *)
CloudDone == Running /\ candidate.agent /\ candidate.cloud = "done"

(* credential.py configuration() and recorded(): a receipt for the file as *)
(* it is, or for the locked account of the password-free profile.          *)
Expected == IF candidate.profile = "password" THEN files.secret ELSE 0
Recorded == Fresh(files.receipt) /\ files.receipt.of = Expected

AttestOffered == CloudDone /\ ~Historical /\ candidate.route # "libvirt"

BootstrapOffered ==
    /\ CloudDone /\ ~candidate.resident
    /\ Windows => ~Attached

(* Off and attached are enough, as on the libvirt route. *)
DetachAnyway == Off /\ Attached

DetachOffered ==
    /\ Off /\ Attached
    /\ candidate.route # "libvirt" => Historical

FinalStop ==
    /\ Off /\ ~Attached
    /\ candidate.route = "utm" => Historical

(* The stop is only offered once the seed is gone. *)
ShutdownDetached ==
    CASE candidate.route = "windows" -> CloudDone /\ Historical /\ Attached
      [] OTHER -> Running /\ candidate.resident /\ CloudDone /\ ~Attached

ShutdownOffered ==
    CASE candidate.route = "libvirt" -> Running /\ candidate.resident /\ CloudDone /\ ~Attached
      [] candidate.route = "utm" ->
           CloudDone /\ candidate.resident /\ (Attached => Historical)
      [] candidate.route = "windows" -> CloudDone /\ Historical /\ Attached

UpOffered == Off
VerifyOffered == ~Windows /\ Running /\ ~Recorded

(* promotion_stage(): the last stage of the two Linux routes. *)
Promoted == ~Windows /\ FinalStop /\ Recorded

Finished == IF Windows THEN CloudDone /\ ~Attached /\ candidate.resident
                       ELSE Promoted

----------------------------------------------------------------------------
(* The operator follows a report. *)

Provide ==
    /\ candidate.power = "none"
    /\ \/ media' = [media EXCEPT !.source = TRUE]
       \/ media' = [media EXCEPT !.key = TRUE]
    /\ UNCHANGED <<candidate, files, job>>

Prepare ==
    /\ PrepareOffered
    /\ media' = [media EXCEPT !.prepared = TRUE]
    /\ UNCHANGED <<candidate, files, job>>

Render ==
    /\ RenderOffered
    /\ media' = [media EXCEPT !.seed = "good"]
    /\ UNCHANGED <<candidate, files, job>>

Create ==
    /\ CreateOffered
    /\ candidate' = [candidate EXCEPT !.power = "off", !.seed = TRUE, !.installer = Windows]
    /\ UNCHANGED <<media, files, job>>

Up ==
    /\ UpOffered
    /\ candidate' = [candidate EXCEPT !.power = "running"]
    /\ UNCHANGED <<media, files, job>>

(* attest_cloud_init() and attest_first_logon() look again before they     *)
(* write.                                                                  *)
Attest ==
    /\ AttestOffered
    /\ files' = [files EXCEPT !.attested = [age |-> 0, of |-> 0]]
    /\ UNCHANGED <<candidate, media, job>>

Bootstrap ==
    /\ BootstrapOffered
    /\ candidate' = [candidate EXCEPT !.resident = TRUE]
    /\ UNCHANGED <<media, files, job>>

Shutdown ==
    /\ ShutdownOffered
    /\ candidate' = [candidate EXCEPT !.power = "off", !.agent = FALSE]
    /\ UNCHANGED <<media, files, job>>

(* Windows removes the installer first, then the answer media. *)
Detach ==
    /\ DetachOffered
    /\ candidate' = IF candidate.installer
                    THEN [candidate EXCEPT !.installer = FALSE]
                    ELSE [candidate EXCEPT !.seed = FALSE]
    /\ UNCHANGED <<media, files, job>>

----------------------------------------------------------------------------
(* credential.py: inspect("verify") and inspect("establish"). *)

Goes(p, at) == job' = [job EXCEPT ![p].at = at]

(* The file is opened, then the earlier receipt is dropped. *)
Begin(p) ==
    /\ ~Windows /\ job[p].at = "idle" /\ candidate.power # "none"
    /\ \E op \in {"verify", "establish"} :
         job' = [job EXCEPT ![p] = [at |-> "route", fd |-> Expected, op |-> op, wrote |-> FALSE]]
    /\ files' = [files EXCEPT !.receipt = Nothing]
    /\ UNCHANGED <<candidate, media>>

(* Any command to the guest can fail; what was written stays. *)
Refuse(p) ==
    /\ job[p].at \in {"route", "store", "set", "ask"}
    /\ Goes(p, "idle")
    /\ UNCHANGED <<candidate, media, files>>

(* verification_route(), and for establish the state of the account. *)
AskRoute(p) ==
    /\ job[p].at = "route" /\ Running /\ candidate.agent
    /\ IF job[p].op = "verify" THEN Goes(p, "ask")
       ELSE /\ candidate.profile = "password"
            /\ Goes(p, IF candidate.password = 0 THEN "store" ELSE "ask")
    /\ UNCHANGED <<candidate, media, files>>

(* O_EXCL: the bytes are kept before the guest is changed, and an earlier  *)
(* pending file is never replaced.                                         *)
StoreAnyway == TRUE
MayStore == files.pending = 0

StorePending(p) ==
    /\ job[p].at = "store" /\ MayStore
    /\ files' = [files EXCEPT !.pending = job[p].fd]
    /\ job' = [job EXCEPT ![p].at = "set", ![p].wrote = TRUE]
    /\ UNCHANGED <<candidate, media>>

(* ESTABLISH_SCRIPT changes only an account that is still locked; the      *)
(* answer may be lost after the change.                                    *)
SetPassword(p) ==
    /\ job[p].at = "set" /\ Running /\ candidate.agent /\ candidate.password = 0
    /\ candidate' = [candidate EXCEPT !.password = job[p].fd, !.given = TRUE]
    /\ \E at \in {"ask", "idle"} : Goes(p, at)
    /\ UNCHANGED <<media, files>>

(* VERIFY_SCRIPT *)
Accepts(p) == candidate.password = job[p].fd

AskGuest(p) ==
    /\ job[p].at = "ask" /\ Running /\ candidate.agent
    /\ Accepts(p)
    /\ files' = [files EXCEPT !.accepted = @ \cup {job[p].fd}]
    /\ Goes(p, "write")
    /\ UNCHANGED <<candidate, media>>

(* The file must still be the one that was read. *)
Unchanged(p) == job[p].fd = Expected

WriteReceipt(p) ==
    /\ job[p].at = "write"
    /\ IF Unchanged(p)
       THEN /\ files' = [files EXCEPT !.receipt = [age |-> 0, of |-> job[p].fd]]
            /\ candidate' = [candidate EXCEPT !.given = candidate.given /\ candidate.password # job[p].fd]
            /\ Goes(p, "clean")
       ELSE Goes(p, "idle") /\ UNCHANGED <<candidate, files>>
    /\ UNCHANGED media

(* pending.unlink() of the run that created it. *)
DropPending(p) ==
    /\ job[p].at = "clean"
    /\ files' = [files EXCEPT !.pending = IF job[p].wrote THEN 0 ELSE @]
    /\ Goes(p, "idle")
    /\ UNCHANGED <<candidate, media>>

----------------------------------------------------------------------------
(* The guest, the person and the clock. *)

Die(p) ==
    /\ job[p].at # "idle"
    /\ Goes(p, "idle")
    /\ UNCHANGED <<candidate, media, files>>

AgentComes ==
    /\ Running /\ ~candidate.agent
    /\ candidate' = [candidate EXCEPT !.agent = TRUE]
    /\ UNCHANGED <<media, files, job>>

(* The first boot ends; only a machine with its seed has one. *)
FirstBootEnds ==
    /\ Running /\ candidate.seed /\ candidate.cloud = "none"
    /\ candidate' = [candidate EXCEPT !.cloud = "done"]
    /\ UNCHANGED <<media, files, job>>

(* A person puts another password into the file. *)
ReplaceSecret ==
    /\ files.secret < MaxVersion
    /\ files' = [files EXCEPT !.secret = @ + 1]
    /\ UNCHANGED <<candidate, media, job>>

Older(receipt) ==
    IF Fresh(receipt) THEN [receipt EXCEPT !.age = @ + 1] ELSE receipt

TimePasses ==
    /\ Fresh(files.receipt) \/ Fresh(files.attested)
    /\ files' = [files EXCEPT !.receipt = Older(@), !.attested = Older(@)]
    /\ UNCHANGED <<candidate, media, job>>

Follow == Provide \/ Prepare \/ Render \/ Create \/ Up \/ Attest
          \/ Bootstrap \/ Shutdown \/ Detach

Credential(p) == Begin(p) \/ Refuse(p) \/ AskRoute(p) \/ StorePending(p) \/ SetPassword(p)
                 \/ AskGuest(p) \/ WriteReceipt(p) \/ DropPending(p) \/ Die(p)

StageNext == Follow \/ (\E p \in Process : Credential(p)) \/ AgentComes \/ FirstBootEnds
             \/ ReplaceSecret \/ TimePasses

StageSpec == StageInit /\ [][StageNext]_stageVars

----------------------------------------------------------------------------
StagesTypeOK ==
    /\ candidate.power \in {"none", "off", "running"} /\ candidate.password \in Versions
    /\ candidate.cloud \in {"none", "done"}
    /\ files.secret \in Versions /\ files.pending \in Versions
    /\ files.receipt.of \in 0..(MaxVersion + 1) /\ files.receipt.age \in 0..(MaxAge + 1)
    /\ \A p \in Process : job[p].at \in {"idle", "route", "store", "set", "ask", "write", "clean"}

(* A promotion is reported complete only for a stopped machine without its *)
(* seed whose guest has confirmed the password that the file holds now;    *)
(* and where a receipt of the first boot is asked for, the seed is only    *)
(* given away by a guest that needs it no more.                            *)
HandoffIsEarned ==
    /\ Promoted => Off /\ ~Attached /\ Expected \in files.accepted
    /\ candidate.route # "libvirt" /\ candidate.power # "none" /\ ~candidate.seed
         => candidate.cloud = "done"

(* A password that was put into the guest is on the controller's disk from *)
(* before the guest is changed until a receipt names the file that holds   *)
(* it, whoever dies or replaces the file in between.                       *)
PasswordIsKept ==
    candidate.given => candidate.password \in {files.secret, files.pending}

(* A candidate that is not finished, with a guest that is up, is always    *)
(* offered a command: following the reports of UTM and Windows never stops *)
(* half-way.                                                               *)
StagesLeadOn ==
    CloudDone /\ ~Finished /\ candidate.route # "libvirt"
      => AttestOffered \/ BootstrapOffered \/ ShutdownOffered \/ VerifyOffered
=============================================================================
