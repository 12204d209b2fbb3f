---------------------------- MODULE IosControl ----------------------------
(***************************************************************************)
(* What a typed request to the iPhone adapter does and what it says it did *)
(* (platforms/ios/ios_device.py): the preflight, the delivery by XCTest or *)
(* CoreDevice, the readback, the file written on the host, and the reboot  *)
(* that is watched from outside.                                           *)
(*                                                                         *)
(* Every call to the phone may fail after it took effect.  Between two     *)
(* calls a person or an application changes the phone, the phone goes and  *)
(* comes, and other programs write files on the host.                      *)
(***************************************************************************)

CONSTANT ListingFails \* TRUE: a listing of devices may fail with the phone there

VARIABLES
  phone,   \* is it this one that is seen, application, container file, console capture
  output,  \* the file on the host the request names
  request, \* the request being handled; was anything sent for it
  answer   \* the last result

controlVars == <<phone, output, request, answer>>

Provided == {"press", "launch", "prepare"}              \* one call to Agent Device
Guarded == {"open_url", "uninstall", "copy_to", "copy_from"} \* need a development app
ReadBack == {"install", "uninstall", "copy_to"}
Written == {"copy_from", "crash_collect", "log_collect"}
Listed == {"application_list", "crash_list"}
Operations ==
  Provided \union Guarded \union ReadBack \union Written \union Listed \union {"log_start", "reboot"}

NoRequest == [op |-> "none", at |-> "idle", sent |-> FALSE, gone |-> FALSE, seen |-> FALSE]
NoAnswer == [op |-> "none", delivery |-> "none", effect |-> "none"]

ControlTypeOK ==
  /\ phone \in [here : {"this", "none"}, app : {"absent", "old", "new"},
                file : {"absent", "before", "sent"}, capture : BOOLEAN]
  /\ output \in {"absent", "theirs", "ours"}
  /\ request \in [op : Operations \union {"none"}, sent : BOOLEAN, gone : BOOLEAN, seen : BOOLEAN,
                  at : {"idle", "asked", "stopped", "sent", "fetched"}]
  /\ answer \in [op : Operations \union {"none"}, delivery : {"none", "refused", "unknown", "confirmed", "not_applicable"},
                 effect : {"none", "refused", "unknown", "unverifiable", "confirmed", "not_applicable"}]

ControlInit ==
  /\ phone = [here |-> "this", app |-> "old", file |-> "before", capture |-> FALSE]
  /\ output = "absent" /\ request = NoRequest /\ answer = NoAnswer

-----------------------------------------------------------------------------

Is(op) == request.op = op
At(place) == request.at = place
Here == phone.here = "this"

Answers(delivery, effect) ==
  answer' = [op |-> request.op, delivery |-> delivery, effect |-> effect] /\ request' = NoRequest
Refuses == Answers("refused", "refused")
Goes(place) == request' = [request EXCEPT !.at = place] /\ UNCHANGED answer
Sends(place) == request' = [request EXCEPT !.at = place, !.sent = TRUE] /\ UNCHANGED answer

Ask ==
  /\ At("idle")
  /\ \E op \in Operations : request' = [NoRequest EXCEPT !.op = op, !.at = "asked"]
  /\ UNCHANGED <<phone, output, answer>>

\* The configuration, the lease, the parameters; the phone and the application
\* it must have; and the output path, which must not exist.
Refuse ==
  /\ At("asked") /\ Refuses /\ UNCHANGED <<phone, output>>

Permitted ==
  /\ At("asked")
  /\ request.op \notin Provided \union {"log_start"} => Here
  /\ request.op \in Guarded => phone.app # "absent"
  /\ request.op \in {"copy_from", "crash_collect"} => output = "absent"

\* provider_control_result: garbled, refused with a code, failed, or successful.
\* A success confirms an effect only where the screen was seen to change.
Provide ==
  /\ request.op \in Provided /\ Permitted /\ UNCHANGED <<phone, output>>
  /\ \/ Answers("unknown", "unknown")
     \/ Is("press") /\ Refuses
     \/ Here /\ Answers("confirmed", IF Is("prepare") THEN "confirmed" ELSE "unverifiable")
     \/ Here /\ Is("press") /\ Answers("confirmed", "confirmed")

OpenUrl ==
  /\ Is("open_url") /\ Permitted /\ UNCHANGED <<phone, output>>
  /\ Answers("unknown", "unknown") \/ Answers("confirmed", "unverifiable")

LogStart ==
  /\ Is("log_start") /\ Permitted /\ UNCHANGED output
  /\ phone' \in {phone} \union (IF Here THEN {[phone EXCEPT !.capture = TRUE]} ELSE {})
  /\ Answers("unknown", "unknown") \/ (phone'.capture /\ Answers("confirmed", "confirmed"))

\* The two lists only read.
Lists(op) ==
  /\ Is(op) /\ Permitted /\ UNCHANGED <<phone, output>>
  /\ \E effect \in {"unknown", "not_applicable"} : Answers("not_applicable", effect)

ApplicationList == Lists("application_list")
CrashList == Lists("crash_list")

\* Delivered to the phone, and perhaps so when the answer is lost.
Delivers(op, effect) ==
  /\ Is(op) /\ Permitted /\ UNCHANGED output
  /\ \/ phone' = effect /\ Sends("sent")
     \/ phone' \in {phone, effect} /\ Answers("unknown", "unknown")

Install == Delivers("install", [phone EXCEPT !.app = "new"])
Uninstall == Delivers("uninstall", [phone EXCEPT !.app = "absent"])
CopyTo == Delivers("copy_to", [phone EXCEPT !.file = "sent"])

\* What the readback must see: an inventory names no version.
Shows ==
  CASE Is("install") -> phone.app # "absent"
    [] Is("uninstall") -> phone.app = "absent"
    [] OTHER -> phone.file = "sent" /\ phone.app # "absent"

\* Mutant: what was accepted is confirmed.
AcceptedIsConfirmed == TRUE

Observed == Here /\ Shows

\* The readback.  An inventory that cannot be read after an uninstall is an
\* error of the request, and the answer is a refusal.
ReadsBack ==
  /\ request.op \in ReadBack /\ At("sent") /\ UNCHANGED <<phone, output>>
  /\ \/ Answers("confirmed", IF Observed THEN "confirmed" ELSE "unknown")
     \/ Is("uninstall") /\ Refuses
     \/ ~Is("uninstall") /\ Answers("confirmed", "unknown")

\* The console capture is stopped before the output path is looked at.
StopCapture ==
  /\ Is("log_collect") /\ At("asked") /\ UNCHANGED output
  /\ \/ phone.capture /\ phone' = [phone EXCEPT !.capture = FALSE] /\ Sends("stopped")
     \/ phone' \in {phone, [phone EXCEPT !.capture = FALSE]} /\ Answers("not_applicable", "unknown")

LateRefusal ==
  /\ At("stopped") /\ output # "absent" /\ Refuses /\ UNCHANGED <<phone, output>>

Fetches(op) ==
  /\ Is(op) /\ UNCHANGED <<phone, output>>
  /\ Goes("fetched") \/ (At("asked") /\ Answers("not_applicable", "unknown"))

CopyFrom == Permitted /\ Fetches("copy_from")
CrashCollect == Permitted /\ Fetches("crash_collect")
LogCollect == At("stopped") /\ output = "absent" /\ Fetches("log_collect")

\* Mutant: collecting a report replaces what is there.
AnyFile == TRUE

\* The destination is created only when nothing has its name.
Free == output = "absent"

\* copy_from removes the file it could not create; the others do not.
Write ==
  /\ At("fetched") /\ UNCHANGED phone
  /\ \/ Free /\ output' = "ours" /\ Answers("not_applicable", "not_applicable")
     \/ Free /\ output' = "absent" /\ Refuses
     \/ ~Free /\ output' = (IF Is("copy_from") THEN "absent" ELSE output) /\ Refuses

-----------------------------------------------------------------------------
(* The reboot: accepted, gone, and back.                                   *)

Reboot ==
  /\ Is("reboot") /\ Permitted /\ UNCHANGED output
  /\ \/ phone' \in {phone, [phone EXCEPT !.here = "none", !.capture = FALSE]}
        /\ request' = [request EXCEPT !.at = "sent", !.sent = TRUE, !.gone = phone'.here = "none"]
        /\ UNCHANGED answer
     \/ phone' \in {phone, [phone EXCEPT !.here = "none", !.capture = FALSE]} /\ Answers("unknown", "unknown")

\* Mutant: the first look counts as a disconnection.
GoneAtOnce == TRUE

\* A look that finds no phone; a listing that fails finds none either.
LooksGone == ~Here \/ ListingFails

SeeGone ==
  /\ Is("reboot") /\ At("sent") /\ ~request.seen
  /\ LooksGone /\ request' = [request EXCEPT !.seen = TRUE] /\ UNCHANGED <<phone, output, answer>>

SeeBack ==
  /\ Is("reboot") /\ At("sent") /\ request.seen /\ UNCHANGED <<phone, output>>
  /\ Here /\ Answers("confirmed", "confirmed")

GiveUp == Is("reboot") /\ At("sent") /\ Answers("unknown", "unknown") /\ UNCHANGED <<phone, output>>

\* People, applications and programs.
Elsewhere ==
  \/ /\ \E here \in {"this", "none"} :
          /\ phone' = [phone EXCEPT !.here = here, !.capture = @ /\ here = "this"]
          /\ request' = [request EXCEPT !.gone = @ \/ (At("sent") /\ here # "this")]
     /\ UNCHANGED <<output, answer>>
  \/ /\ \E app \in {"absent", "old"}, file \in {"absent", "before"} :
          phone' = [phone EXCEPT !.app = app, !.file = file]
     /\ UNCHANGED <<output, request, answer>>
  \/ output' \in {"absent", "theirs"} /\ UNCHANGED <<phone, request, answer>>

ControlNext ==
  \/ Ask \/ Refuse \/ Provide \/ OpenUrl \/ LogStart \/ ApplicationList \/ CrashList
  \/ Install \/ Uninstall \/ CopyTo \/ ReadsBack \/ StopCapture \/ LateRefusal
  \/ CopyFrom \/ CrashCollect \/ LogCollect \/ Write
  \/ Reboot \/ SeeGone \/ SeeBack \/ GiveUp \/ Elsewhere

ControlSpec == ControlInit /\ [][ControlNext]_controlVars

-----------------------------------------------------------------------------

\* An answer tells what happened.  A confirmed effect on an application or a
\* file is there when the answer is given, a reboot that is reported was one
\* in which this phone went away after the request, and a refusal means that
\* nothing was sent, with two exceptions the code has: an uninstall whose
\* inventory cannot be read, and a console capture stopped before its output
\* path was looked at.  Somebody else's file on the host survives a request, but
\* for copy_from, which removes the file it failed to create.
TellsWhatHappened ==
  /\ At("idle") \/ request' # NoRequest \/ answer'.effect # "confirmed" \/
     /\ request.op \in ReadBack => Here /\ Shows
     /\ Is("reboot") => request.gone
  /\ request.sent /\ request' = NoRequest /\ answer'.effect = "refused" =>
       request.op \in {"uninstall", "log_collect"}
  /\ request' # request /\ output = "theirs" /\ output' # "theirs" => Is("copy_from")

AnswersTellWhatHappened == [][TellsWhatHappened]_controlVars
=============================================================================
