--------------------------- MODULE AndroidUnlock ---------------------------
(***************************************************************************)
(* The guarded PIN unlock and the reboot of an Android handheld            *)
(* (platforms/android/android_device.py): the mutation lock, the preflight *)
(* over adb, the helper staged on the phone, the one delivery of the PIN,  *)
(* and the observation afterwards.                                         *)
(*                                                                         *)
(* Reads are not checked: one that fails reads as nothing.  The phone      *)
(* restarts, and people lock and unlock it, between any two commands.      *)
(***************************************************************************)
EXTENDS Naturals, FiniteSets

CONSTANTS
  Process,    \* invocations of unlock and reboot, each used once
  Nobody,
  MaxBoot,    \* bound on restarts
  OneTaker,   \* TRUE: one process at a time judges a lock and removes it, and none
              \* judges a lock whose owner has yet to write its content
  BootIdReads \* TRUE: a phone whose boot was seen completed is still there when
              \* its boot identifier is read

ProcessesAreFinite == IsFiniteSet(Process) /\ Nobody \notin Process /\ MaxBoot \in Nat \ {0}

VARIABLES phone, lock, invocation

androidVars == <<phone, lock, invocation>>

Unknown == 0 \* a boot identifier that was not read
Places == {"new", "removing", "creating", "writing", "checking", "surface", "staging", "staged", "prompting",
           "delivered", "starting", "waiting", "released", "failed", "dead"}
Outcomes == {"none", "refused", "already", "confirmed", "no_effect", "unknown", "rebooted"}
Over == {"released", "failed", "dead"}

AndroidTypeOK ==
  /\ phone \in [boot : 1..MaxBoot, up : BOOLEAN, locked : BOOLEAN, helper : BOOLEAN, tries : 0..Cardinality(Process),
                wipe : {"zero", "some"}]
  /\ lock \in [owner : Process \union {Nobody}, written : BOOLEAN]
  /\ invocation \in [Process -> [at : Places, boot : 0..MaxBoot, first : 0..MaxBoot, sent : BOOLEAN, outcome : Outcomes]]

NoLock == [owner |-> Nobody, written |-> FALSE]

AndroidInit ==
  /\ \E wipe \in {"zero", "some"}, locked \in BOOLEAN :
       phone = [boot |-> 1, up |-> TRUE, locked |-> locked, helper |-> FALSE, tries |-> 0, wipe |-> wipe]
  /\ lock = NoLock
  /\ invocation = [p \in Process |-> [at |-> "new", boot |-> 0, first |-> 0, sent |-> FALSE, outcome |-> "none"]]

-----------------------------------------------------------------------------

At(p, place) == invocation[p].at = place
Alive(p) == invocation[p].at \notin Over
Goes(p, place) == invocation' = [invocation EXCEPT ![p] = [invocation[p] EXCEPT !.at = place]]
Ends(p, place, outcome) ==
  /\ invocation' = [invocation EXCEPT ![p] = [invocation[p] EXCEPT !.at = place, !.outcome = outcome]]
  /\ lock' = IF lock.owner = p /\ lock.written THEN NoLock ELSE lock
Clean == [phone EXCEPT !.helper = FALSE]

\* mutation_lease: the lock of a dead owner, and one without content, is removed.
Take(p) ==
  /\ At(p, "new") /\ UNCHANGED <<phone, lock>>
  /\ \/ lock = NoLock /\ Goes(p, "creating")
     \/ lock.written /\ Alive(lock.owner) /\ Goes(p, "failed")
     \/ /\ lock.owner # Nobody /\ (lock.written => ~Alive(lock.owner))
        /\ OneTaker => ~Alive(lock.owner) /\ \A q \in Process : ~At(q, "removing")
        /\ Goes(p, "removing")

Remove(p) == At(p, "removing") /\ lock' = NoLock /\ Goes(p, "creating") /\ UNCHANGED phone

Create(p) ==
  /\ At(p, "creating") /\ UNCHANGED phone
  /\ IF lock = NoLock THEN lock' = [owner |-> p, written |-> FALSE] /\ Goes(p, "writing")
     ELSE Goes(p, "failed") /\ UNCHANGED lock

WriteLock(p) ==
  /\ At(p, "writing") /\ UNCHANGED phone
  /\ lock' = [lock EXCEPT !.written = @ \/ lock.owner = p]
  /\ \E place \in {"checking", "starting"} : Goes(p, place)

\* What device_status reads of the boot: nothing when the phone is not there.
BootSeen == IF phone.up THEN {phone.boot} \union (IF BootIdReads THEN {} ELSE {Unknown}) ELSE {Unknown}

\* Mutant: an omitted threshold is no threshold.
ThresholdOmitted == TRUE

\* The threshold is zero: in the dump, or asked for by the policy probe.
ThresholdIsZero == phone.wipe = "zero"

\* _unlock_pin_impl, up to the keyguard.
Preflight(p) ==
  /\ At(p, "checking") /\ UNCHANGED phone
  /\ \E boot \in BootSeen :
       \/ ~phone.up /\ Ends(p, "failed", "none")
       \/ Ends(p, "released", "refused")
       \/ phone.up /\ ~phone.locked /\ Ends(p, "released", "already")
       \/ /\ phone.up /\ phone.locked /\ ThresholdIsZero
          /\ invocation' = [invocation EXCEPT ![p] = [invocation[p] EXCEPT !.at = "surface", !.boot = boot]]
          /\ UNCHANGED lock

\* The keyguard is woken and the one empty PIN field looked for.
FindField(p) ==
  /\ At(p, "surface") /\ UNCHANGED phone
  /\ \/ Ends(p, "released", "refused")
     \/ phone.up /\ phone.locked /\ Goes(p, "staging") /\ UNCHANGED lock

\* The helper is built and pushed; an error leaves what was pushed.
Stage(p) ==
  /\ At(p, "staging")
  /\ \/ phone.up /\ phone' = [phone EXCEPT !.helper = TRUE] /\ Goes(p, "staged") /\ UNCHANGED lock
     \/ phone' \in {phone, [phone EXCEPT !.helper = @ \/ phone.up]} /\ Ends(p, "failed", "none")

SameBoot(p, boot) == boot = invocation[p].boot

Recheck(p) ==
  /\ At(p, "staged")
  /\ \E boot \in BootSeen :
       IF SameBoot(p, boot) /\ (phone.up => phone.locked) THEN Goes(p, "prompting") /\ UNCHANGED <<phone, lock>>
       ELSE Ends(p, "released", "refused") /\ phone' = (IF phone.up THEN Clean ELSE phone)

\* The PIN is read, perhaps from a person, and delivered once.
Deliver(p) ==
  /\ At(p, "prompting")
  /\ \/ phone' = (IF phone.up THEN Clean ELSE phone) /\ Ends(p, "released", "refused")
     \/ /\ UNCHANGED lock
        /\ \E opens \in BOOLEAN :
             phone' = IF ~phone.up THEN phone
                      ELSE [Clean EXCEPT !.tries = @ + 1, !.locked = @ /\ ~(opens /\ phone.helper)]
        /\ invocation' = [invocation EXCEPT ![p] = [invocation[p] EXCEPT !.at = "delivered", !.sent = phone.up]]

Observe(p) ==
  /\ At(p, "delivered") /\ UNCHANGED phone
  /\ \/ Ends(p, "released", "unknown")
     \/ Ends(p, "released", IF phone.up /\ ~phone.locked THEN "confirmed" ELSE "no_effect")

\* reboot_device: accepted, and a boot identifier other than before.
StartReboot(p) ==
  /\ At(p, "starting")
  /\ \/ Ends(p, "failed", "none") /\ UNCHANGED phone
     \/ /\ phone.up /\ UNCHANGED <<phone, lock>>
        /\ \E boot \in BootSeen :
             invocation' = [invocation EXCEPT ![p] = [invocation[p] EXCEPT !.at = "waiting", !.boot = boot, !.first = phone.boot]]

\* Mutant: the phone being there is enough.
AnyOther(p, boot) == TRUE

Other(p, boot) == boot # invocation[p].boot

SeeBoot(p) ==
  /\ At(p, "waiting") /\ UNCHANGED phone
  /\ \/ phone.up /\ \E boot \in BootSeen : Other(p, boot) /\ Ends(p, "released", "rebooted")
     \/ Ends(p, "failed", "none")

\* The phone and the people around it.
Restart ==
  /\ phone.up /\ phone.boot < MaxBoot
  /\ phone' = [phone EXCEPT !.boot = @ + 1, !.up = FALSE, !.locked = TRUE] /\ UNCHANGED <<lock, invocation>>
Up == ~phone.up /\ phone' = [phone EXCEPT !.up = TRUE] /\ UNCHANGED <<lock, invocation>>
Person == phone.up /\ phone' = [phone EXCEPT !.locked = ~@] /\ UNCHANGED <<lock, invocation>>

Die(p) == Alive(p) /\ ~At(p, "new") /\ Goes(p, "dead") /\ UNCHANGED <<phone, lock>>

AndroidStep(p) ==
  \/ Take(p) \/ Remove(p) \/ Create(p) \/ WriteLock(p) \/ Preflight(p) \/ FindField(p) \/ Stage(p) \/ Recheck(p)
  \/ Deliver(p) \/ Observe(p) \/ StartReboot(p) \/ SeeBoot(p) \/ Die(p)

AndroidNext == (\E p \in Process : AndroidStep(p)) \/ Restart \/ Up \/ Person

AndroidSpec == AndroidInit /\ [][AndroidNext]_androidVars

-----------------------------------------------------------------------------

\* An unlock is safe.  A PIN is tried only on a phone whose threshold is known
\* to be zero, by one invocation at a time and once by each; the helper is gone
\* from the phone when no invocation failed or died over it; a refusal tried
\* nothing, and a reported reboot was one.
Working == {"checking", "surface", "staging", "staged", "prompting", "delivered", "starting", "waiting"}
UnlocksAreSafe ==
  /\ phone.tries > 0 => phone.wipe = "zero"
  /\ phone.tries = Cardinality({p \in Process : invocation[p].sent})
  /\ \A p, q \in Process : invocation[p].at \in Working /\ invocation[q].at \in Working => p = q
  /\ \A p \in Process : invocation[p].outcome = "refused" => ~invocation[p].sent
  /\ \A p \in Process : invocation[p].outcome = "rebooted" => phone.boot > invocation[p].first
=============================================================================
