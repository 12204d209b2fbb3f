--------------------------- MODULE VirtualBoxImage ---------------------------
(***************************************************************************)
(* A candidate machine of the VirtualBox adapter and its way to a          *)
(* protected base: providers/virtualbox-windows/adapter.py and images.py.  *)
(*                                                                         *)
(* Every command holds the operation lock and looks at the machine first,  *)
(* so commands follow one another; the machine itself goes on meanwhile,   *)
(* and the command that waits for it (shutdown) or hashes its files        *)
(* (promote-base) may end anywhere.  A claim can be found missing at each  *)
(* look at it.  Ages of receipts are choices: a receipt is recent or not.  *)
(***************************************************************************)
EXTENDS Integers, FiniteSets, Sequences

CONSTANT MaxBoots   \* bound on the boots of the machine

BootsAreBounded == MaxBoots \in Nat

VARIABLES
  machine,   \* the VM: power, boot, hardware, media, who is logged in
  image,     \* the files of class Images and the credential verification
  command    \* the command that holds the lock: "none", "shutdown", "promote"

imageVars == <<machine, image, command>>

Required == 3     \* distinct boots (images.py:145)
Kept == 10        \* entries of the history (127: the last nine and this one)
NoReceipt == [boot |-> 0, hardware |-> 0, disk |-> 0]

ImageTypeOK ==
  /\ machine.power \in {"poweroff", "running", "paused"}
  /\ machine.boot \in 0..MaxBoots /\ machine.hardware \in 0..1
  /\ machine.session \in BOOLEAN /\ machine.media \in BOOLEAN
  /\ machine.cut \subseteq 1..MaxBoots
  /\ image.qualification.boot \in 0..MaxBoots
  /\ Len(image.history) <= Kept
  /\ image.pending \in BOOLEAN /\ image.protected \in BOOLEAN /\ image.verified \in BOOLEAN
  /\ command \in {"none", "shutdown", "promote"}

ImageInit ==
  /\ machine = [power |-> "poweroff", boot |-> 0, hardware |-> 0, media |-> TRUE,
                session |-> FALSE, cut |-> {}]
  /\ image = [qualification |-> NoReceipt, history |-> <<>>, pending |-> FALSE,
              protected |-> FALSE, verified |-> FALSE, base |-> <<>>]
  /\ command = "none"

-----------------------------------------------------------------------------
(* class Images *)

\* The entries of a history at some of its places, in their order.
Nth(places, r) == CHOOSE n \in places : Cardinality({m \in places : m <= n}) = r
Selected(history, places) == [r \in 1 .. Cardinality(places) |-> history[Nth(places, r)]]

\* invalidate(): the qualification goes, and the history with it if asked.
Invalidated(i, history) ==
  [i EXCEPT !.qualification = NoReceipt, !.history = IF history THEN <<>> ELSE @]

\* Mutant: a start that keeps what was qualified in the boot before.
StartingKeeps(i) == [i EXCEPT !.pending = TRUE]

\* starting(): what was qualified is over, and an unqualified boot is noted.
Starting(i) == [Invalidated(i, FALSE) EXCEPT !.pending = TRUE]

\* stopped(): a qualification that is recent and of this hardware becomes a
\* receipt of a clean life cycle; one entry per boot.
Clean(i, recent) ==
  IF i.qualification = NoReceipt THEN i
  ELSE IF ~recent \/ i.qualification.hardware # machine.hardware THEN Invalidated(i, FALSE)
  ELSE LET receipt == [i.qualification EXCEPT !.disk = machine.boot]
           others == Selected(i.history, {n \in DOMAIN i.history : i.history[n].boot # receipt.boot})
           kept == SubSeq(others, IF Len(others) < Kept THEN 1 ELSE Len(others) - Kept + 2, Len(others))
       IN [Invalidated(i, FALSE) EXCEPT !.history = Append(kept, receipt), !.pending = FALSE]

\* promote(): enough distinct boots among the matching receipts, the last of
\* them of the disk as it is.
Matches(i) == Selected(i.history, {n \in DOMAIN i.history : i.history[n].hardware = machine.hardware})
Promotable(matches) ==
  /\ Cardinality({matches[n].boot : n \in DOMAIN matches}) >= Required
  /\ matches[Len(matches)].disk = machine.boot

-----------------------------------------------------------------------------
(* The commands of dispatch().  A protected base refuses all but looking.  *)

Admitted == command = "none" /\ ~image.protected

\* up: also the disk is no longer the one that was stopped cleanly.
Up ==
  /\ Admitted /\ machine.power = "poweroff" /\ machine.boot < MaxBoots
  /\ image' = Starting(image)
  /\ machine' = [machine EXCEPT !.power = "running", !.boot = @ + 1, !.session = FALSE]
  /\ UNCHANGED command

\* The process dies, or VBoxManage fails, between the note and the start.
UpFails ==
  /\ Admitted /\ machine.power = "poweroff"
  /\ image' = Starting(image)
  /\ UNCHANGED <<machine, command>>

\* login: the secret is read only when nobody is logged in, the one password
\* field belongs to the account, and the claim and the machine are still there.
Login ==
  /\ Admitted /\ machine.power = "running" /\ ~machine.session
  /\ machine' = [machine EXCEPT !.session = TRUE]
  /\ UNCHANGED <<image, command>>

\* credential: a verification in the guest is kept for a day; status reads it.
Credential ==
  /\ Admitted /\ machine.power = "running" /\ ~image.verified
  /\ image' = [image EXCEPT !.verified = TRUE]
  /\ UNCHANGED <<machine, command>>

\* The password file changes, or a day has passed.
CredentialStale ==
  /\ image.verified
  /\ image' = [image EXCEPT !.verified = FALSE]
  /\ UNCHANGED <<machine, command>>

\* doctor: ready means an unlocked desktop and a resident that answers.
Ready == machine.power = "running" /\ machine.session /\ ~image.protected

\* detach-bootstrap-media, and its readback.
DetachMedia ==
  /\ Admitted /\ machine.power = "poweroff" /\ machine.media /\ image.verified
  /\ machine' = [machine EXCEPT !.media = FALSE]
  /\ UNCHANGED <<image, command>>

\* qualify: the facts are of the boot that answered; the machine is looked at
\* once more at the end.
Qualify ==
  /\ Admitted /\ Ready /\ ~machine.media
  /\ image' = [image EXCEPT !.verified = TRUE,
                 !.qualification = [boot |-> machine.boot, hardware |-> machine.hardware, disk |-> 0]]
  /\ UNCHANGED <<machine, command>>

\* candidate-hardware on a stopped candidate.
Hardware ==
  /\ Admitted /\ machine.power = "poweroff"
  /\ image' = Invalidated(image, TRUE)
  /\ \E h \in 0..1 : machine' = [machine EXCEPT !.hardware = h]
  /\ UNCHANGED command

\* acpi-shutdown and recovery-key: delivered, with an effect nobody confirms.
Recovery ==
  /\ Admitted /\ machine.power = "running"
  /\ image' = Invalidated(image, TRUE)
  /\ machine' \in {machine, [machine EXCEPT !.power = "poweroff", !.cut = @ \union {machine.boot}]}
  /\ UNCHANGED command

\* force-stop: the power is cut, and its effect awaited.
ForceStop ==
  /\ Admitted /\ machine.power # "poweroff"
  /\ image' = Invalidated(image, TRUE)
  /\ machine' = [machine EXCEPT !.power = "poweroff", !.cut = @ \union {machine.boot}]
  /\ UNCHANGED command

\* shutdown: the guest is asked; then the power is watched, under a claim that
\* is checked each time.
Shutdown ==
  /\ Admitted /\ machine.power = "running"
  /\ command' = "shutdown"
  /\ UNCHANGED <<machine, image>>

ShutdownSeen ==
  /\ command = "shutdown" /\ machine.power = "poweroff"
  /\ \E recent \in BOOLEAN : image' = Clean(image, recent)
  /\ command' = "none" /\ UNCHANGED machine

\* One pause and resume after the request, which is undone in any case.
Reschedule ==
  /\ command = "shutdown" /\ machine.power \in {"running", "paused"}
  /\ machine' = [machine EXCEPT !.power = IF machine.power = "running" THEN "paused" ELSE "running"]
  /\ UNCHANGED <<image, command>>

\* The claim is gone, the time is over, or the caller gave the command up.
ShutdownUnconfirmed ==
  /\ command = "shutdown" /\ machine.power # "paused"
  /\ command' = "none"
  /\ UNCHANGED <<machine, image>>

\* promote-base: checked, hashed, checked again, written.
Promote ==
  /\ Admitted /\ machine.power = "poweroff" /\ ~image.pending
  /\ Promotable(Matches(image))
  /\ command' = "promote"
  /\ UNCHANGED <<machine, image>>

PromoteEnds ==
  /\ command = "promote"
  /\ command' = "none"
  /\ image' \in {image, [image EXCEPT !.protected = TRUE, !.base = Matches(image)]}
  /\ UNCHANGED machine

\* The guest: it powers off, after a request or by itself, or restarts, which
\* the adapter does not notice.
GuestStops ==
  /\ machine.power = "running"
  /\ machine' = [machine EXCEPT !.power = "poweroff",
                   !.cut = IF command = "shutdown" THEN @ ELSE @ \union {machine.boot}]
  /\ UNCHANGED <<image, command>>

GuestRestarted ==
  /\ machine.power = "running" /\ machine.boot < MaxBoots
  /\ machine' = [machine EXCEPT !.boot = @ + 1, !.session = FALSE]
  /\ UNCHANGED <<image, command>>

ImageNext ==
  \/ Up \/ UpFails \/ Login \/ Credential \/ CredentialStale \/ DetachMedia \/ Qualify
  \/ Hardware \/ Recovery \/ ForceStop
  \/ Shutdown \/ ShutdownSeen \/ Reschedule \/ ShutdownUnconfirmed
  \/ Promote \/ PromoteEnds \/ GuestStops \/ GuestRestarted

ImageSpec == ImageInit /\ [][ImageNext]_imageVars

-----------------------------------------------------------------------------

\* Promotion is earned: a protected base is the disk that the last of three
\* distinct qualified boots left, and no boot it rests on lost its power or went
\* off unasked, whatever failed, was cut off or was repeated on the way.
PromotionIsEarned ==
  image.protected =>
    /\ Promotable(image.base)
    /\ \A n \in DOMAIN image.base : image.base[n].boot \notin machine.cut
=============================================================================
