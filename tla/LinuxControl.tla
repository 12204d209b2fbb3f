---------------------------- MODULE LinuxControl ----------------------------
(***************************************************************************)
(* The resident of the Ubuntu appliance (platforms/linux/guests/ubuntu/ui/ *)
(* linuxcontrol.py): it numbers snapshots of the accessibility tree, acts  *)
(* on what a reference names, and turns every other request into one or    *)
(* two effects in the session.  handle() answers one request at a time,    *)
(* while the session changes by itself and the resident may be restarted.  *)
(***************************************************************************)
EXTENDS Naturals, FiniteSets

CONSTANTS MaxNode,        \* elements that stand at the watched place in turn
          MaxSnapshot,    \* snapshots of one resident
          MaxGeneration,  \* resident processes
          Keep            \* snapshots a resident remembers: 20 in the code

LimitsArePositive == MaxNode \in Nat \ {0} /\ MaxSnapshot \in Nat /\ MaxGeneration \in Nat \ {0} /\ Keep \in Nat \ {0}

VARIABLES screen,    \* [node, gone]: what stands at the watched place
          resident,  \* [generation, sequence, snapshots]
          shown,     \* what each reference was given out for
          call,      \* the request being handled
          reply      \* the latest answer, and what was done for it

controlVars == <<screen, resident, shown, call, reply>>

Referred == {"action", "focus", "set_value"}     \* the operations on an element
Input == {"click", "key", "text"}                \* the operations of the input broker
Kind == Referred \cup Input
          \cup {"launch", "activate", "raise", "terminate", "capture", "list"}

(* A click with a position moves first; text first takes the clipboard and *)
(* then pastes.                                                            *)
InputEffects(kind) == IF kind = "key" THEN 1 ELSE 2

Effects(kind) ==
    IF kind \in Input THEN InputEffects(kind)
    ELSE IF kind \in {"capture", "list"} THEN 0 ELSE 1

Idle == [at |-> "idle", kind |-> "list", reference |-> <<0, 0>>, node |-> 0, done |-> 0,
         touched |-> FALSE]

(* An answer, with what was asked and done for it. *)
Answer(accepted, effect, c) ==
    [accepted |-> accepted, effect |-> effect, touched |-> c.touched,
     reference |-> c.reference, node |-> c.node]
NoReply == Answer(FALSE, "not_applicable", Idle)

ControlInit ==
    /\ screen = [node |-> 1, gone |-> {}]
    /\ resident = [generation |-> 1, sequence |-> 0, snapshots |-> [s \in 1..MaxSnapshot |-> 0]]
    /\ shown = [r \in (1..MaxGeneration) \X (1..MaxSnapshot) |-> 0]
    /\ call = Idle
    /\ reply = NoReply

Given == {r \in DOMAIN shown : shown[r] # 0}

----------------------------------------------------------------------------
Reply(accepted, effect) ==
    /\ reply' = Answer(accepted, effect, call)
    /\ call' = Idle

(* fail(): whatever the error, the answer says that nothing was delivered. *)
Refuse == Reply(FALSE, "refused")

(* normalize_request() and the checks of each operation come before any    *)
(* effect.                                                                 *)
Ask(kind) ==
    /\ call = Idle
    /\ \E reference \in IF kind \in Referred THEN Given ELSE {<<0, 0>>} :
         call' = [Idle EXCEPT !.at = "start", !.kind = kind, !.reference = reference]
    /\ UNCHANGED <<screen, resident, shown, reply>>

Invalid ==
    /\ call.at = "start"
    /\ Refuse
    /\ UNCHANGED <<screen, resident, shown>>

(* snapshot(): the oldest of too many is forgotten. *)
Snapshot ==
    /\ call = Idle /\ resident.sequence < MaxSnapshot
    /\ LET s == resident.sequence + 1 IN
       /\ resident' = [resident EXCEPT
                         !.sequence = s,
                         !.snapshots = [t \in 1..MaxSnapshot |->
                                          IF t = s THEN screen.node
                                          ELSE IF t + Keep =< s THEN 0 ELSE @[t]]]
       /\ shown' = [shown EXCEPT ![<<resident.generation, s>>] = screen.node]
    /\ UNCHANGED <<screen, call, reply>>

(* resolve_reference(): the reference of another generation or of a        *)
(* forgotten snapshot is stale.                                            *)
ResolvesAnyGeneration(reference) == resident.snapshots[reference[2]] # 0
Resolves(reference) ==
    reference[1] = resident.generation /\ resident.snapshots[reference[2]] # 0

Resolve ==
    /\ call.at = "start" /\ call.kind \in Referred
    /\ IF Resolves(call.reference)
       THEN /\ call' = [call EXCEPT !.at = "effect", !.node = resident.snapshots[call.reference[2]]]
            /\ UNCHANGED reply
       ELSE Refuse
    /\ UNCHANGED <<screen, resident, shown>>

Prepare ==
    /\ call.at = "start" /\ call.kind \notin Referred
    /\ call' = [call EXCEPT !.at = IF Effects(call.kind) = 0 THEN "look" ELSE "effect"]
    /\ UNCHANGED <<screen, resident, shown, reply>>

(* An effect of the session: do_action, the input broker, wl-copy,         *)
(* systemd-run, gtk-launch, a signal.  It is made, or it is not and the    *)
(* call fails, or it is made and the call fails all the same (a timeout, a *)
(* lost answer).  An element that is gone takes no action.                 *)
Possible == call.kind \in Referred => call.node \notin screen.gone

EffectMade ==
    /\ call.at = "effect" /\ Possible
    /\ call' = [call EXCEPT !.done = @ + 1, !.touched = TRUE,
                            !.at = IF call.done + 1 = Effects(call.kind) THEN "look" ELSE "effect"]
    /\ UNCHANGED <<screen, resident, shown, reply>>

EffectRefused ==
    /\ call.at = "effect"
    /\ Refuse
    /\ UNCHANGED <<screen, resident, shown>>

EffectUnanswered ==
    /\ call.at = "effect" /\ Possible
    /\ reply' = Answer(FALSE, "refused", [call EXCEPT !.touched = TRUE])
    /\ call' = Idle
    /\ UNCHANGED <<screen, resident, shown>>

(* What each operation looks at afterwards, and what it then claims. *)
Ends(kind, effects) ==
    /\ call.at = "look" /\ call.kind = kind
    /\ \E effect \in effects : Reply(TRUE, effect)
    /\ UNCHANGED <<screen, resident, shown>>

NotFound(kind) ==
    /\ call.at = "look" /\ call.kind = kind
    /\ Refuse
    /\ UNCHANGED <<screen, resident, shown>>

EndAction == Ends("action", {"unverifiable"})
EndFocus == Ends("focus", {"observed", "unverifiable"})
EndSetValue == Ends("set_value", {"unverifiable"})
EndInput == \E kind \in Input : Ends(kind, {"unverifiable"})
EndLaunch == Ends("launch", {"observed", "unverifiable"})
EndTerminate == Ends("terminate", {"observed", "unverifiable"})
EndList == Ends("list", {"not_applicable"})

(* An application activated by its identifier is looked for only after it  *)
(* was started; one that is raised was found before.                       *)
EndActivate ==
    \/ Ends("activate", {"observed", "unverifiable"}) \/ NotFound("activate")
    \/ Ends("raise", {"observed", "unverifiable"})

EndCapture == Ends("capture", {"observed"}) \/ NotFound("capture")

----------------------------------------------------------------------------
(* The element at the watched place is replaced by another one. *)
ScreenChanges ==
    /\ screen.node < MaxNode
    /\ screen' = [node |-> screen.node + 1, gone |-> screen.gone \cup {screen.node}]
    /\ UNCHANGED <<resident, shown, call, reply>>

(* run_server() in a new process: a new generation, numbers from one. *)
Restart ==
    /\ resident.generation < MaxGeneration
    /\ resident' = [generation |-> resident.generation + 1, sequence |-> 0,
                    snapshots |-> [s \in 1..MaxSnapshot |-> 0]]
    /\ call' = Idle
    /\ UNCHANGED <<screen, shown, reply>>

ControlNext ==
    \/ \E kind \in Kind : Ask(kind)
    \/ Invalid \/ Snapshot \/ Resolve \/ Prepare
    \/ EffectMade \/ EffectRefused \/ EffectUnanswered
    \/ EndAction \/ EndFocus \/ EndSetValue \/ EndInput \/ EndLaunch \/ EndActivate
    \/ EndTerminate \/ EndList \/ EndCapture
    \/ ScreenChanges \/ Restart

ControlSpec == ControlInit /\ [][ControlNext]_controlVars

----------------------------------------------------------------------------
ControlTypeOK ==
    /\ screen.node \in 1..MaxNode
    /\ resident.sequence \in 0..MaxSnapshot /\ resident.generation \in 1..MaxGeneration
    /\ Cardinality({s \in 1..MaxSnapshot : resident.snapshots[s] # 0}) =< Keep
    /\ call.at \in {"idle", "start", "effect", "look"} /\ call.kind \in Kind

(* An accepted operation on an element was made, and on the very element   *)
(* its reference was given out for, however often the screen changed or    *)
(* the resident was restarted in between.                                  *)
AcceptedIsDone ==
    reply.accepted /\ reply.reference # <<0, 0>> =>
      reply.touched /\ reply.node = shown[reply.reference]

(* topics/capabilities-and-results.md: `refused` says that something       *)
(* prevented dispatch, so a refused request has had no effect.             *)
RefusedIsNotDispatched == reply.effect = "refused" => ~reply.touched
=============================================================================
