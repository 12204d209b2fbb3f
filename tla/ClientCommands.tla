--------------------------- MODULE ClientCommands ---------------------------
(***************************************************************************)
(* The commands of client/machine_control.py that act on a machine: target *)
(* (with ensure-ready and the two candidate operations), claim, workspace, *)
(* maintenance and the testbed escape.                                     *)
(*                                                                         *)
(* A command is a client process that makes adapter calls one after the    *)
(* other, each a process of its own, and decides between them on what it   *)
(* was told.  Meanwhile the machine changes by itself, claims lapse, and   *)
(* other clients run commands on the same machine.  A call is one step: an *)
(* adapter checks the claim itself before it changes anything, and a claim *)
(* is taken to outlast one such call (the calls that wait check again).    *)
(***************************************************************************)
EXTENDS Naturals, Sequences

CONSTANTS
  Client,     \* operators, each with one command at a time
  Kind,       \* machines to consider: subset of {"linux", "windows", "device"}
  Uses,       \* [Client -> commands it uses]
  MaxClaims   \* bound on the claims that are acquired

VARIABLES
  machine,   \* what the machine is and does
  claim,     \* its claim in the store: number, holder, class, live
  command    \* each client: its command, what is left of it, what it was told

clientVars == <<machine, claim, command>>

Powers == {"off", "starting", "running", "suspended"}
Lifecycle == {"up", "suspend", "shutdown", "force-stop", "reboot"}
Observing == {"status", "doctor", "capabilities"}
Maintenance == {"audit", "repair", "certify"}
Claims == {"claim-status", "claim-acquire", "claim-acquire-disruptive", "claim-renew", "claim-release"}
Workspaces == {"workspace-inventory", "workspace-acquire", "workspace-release"}
Candidates == {"validate-candidate", "prepare-promotion"}
Operations == Lifecycle \union Observing \union Maintenance \union Claims \union Workspaces
                \union Candidates \union {"ensure-ready", "testbed", "testbed-input", "desktop", "profile"}

Results == {"none", "refused", "done", "ready", "repair_required", "ready_with_adapter_error",
            "action_failed", "not_ready", "validated", "eligible", "healthy", "unhealthy"}
Idle == [op |-> "none", rest |-> <<>>, reported |-> FALSE, claim |-> 0, result |-> "none"]

UsesAreKnown ==
  /\ Kind \subseteq {"linux", "windows", "device"} /\ MaxClaims \in Nat /\ Client # {}
  /\ Uses \in [Client -> SUBSET Operations]

CommandsTypeOK ==
  /\ machine \in [kind : Kind, power : Powers, ready : BOOLEAN, stopping : BOOLEAN,
                  owned : BOOLEAN, credential : {"stored", "verified"}]
  /\ claim \in [number : 0..MaxClaims, holder : Client, class : {"ordinary", "disruptive"}, live : BOOLEAN]
  /\ \A c \in Client :
       /\ command[c].op \in Uses[c] \union {"none"}
       /\ Len(command[c].rest) <= 7
       /\ command[c].claim \in 0..MaxClaims
       /\ command[c].result \in Results

CommandsInit ==
  /\ machine \in [kind : Kind, power : {"off", "running"}, ready : {FALSE}, stopping : {FALSE},
                  owned : {FALSE}, credential : {"stored"}]
  /\ claim = [number |-> 0, holder |-> CHOOSE c \in Client : TRUE, class |-> "ordinary", live |-> FALSE]
  /\ command = [c \in Client |-> Idle]

-----------------------------------------------------------------------------

IsDevice == machine.kind = "device"
ClaimsRequired == ~IsDevice   \* claimPolicy of load_registry: desktop platforms

\* operation_requires_claim.
RequiresClaim(op) == op \notin Observing \union Claims \union Workspaces
UseClass(op) == IF op = "testbed-input" THEN "disruptive" ELSE "ordinary"

\* What the target may be asked for.
Allowed(op) ==
  CASE op \in Lifecycle -> op # "reboot" \/ machine.kind # "windows"
    [] op \in Candidates \union Maintenance \union {"ensure-ready"} -> ~IsDevice
    [] op \in Claims \union Workspaces -> ~IsDevice
    [] OTHER -> TRUE

\* The adapter calls of a command, in order; it may end before the last one.
HandleTarget(op) ==
  CASE op \in Lifecycle -> IF IsDevice THEN <<"doctor", op, "doctor">>
                           ELSE IF op \in {"suspend", "reboot"} THEN <<"doctor", op, "status">> ELSE <<op, "status">>
    [] OTHER -> IF op = "status" /\ ~IsDevice THEN <<"status">> ELSE <<"doctor">>

EnsureReady == <<"doctor", "up", "doctor">>

HandleCandidate(op) ==
  LET linux(calls) == IF machine.kind = "linux" THEN calls ELSE <<>>
  IN IF op = "validate-candidate" THEN <<"candidate", "doctor">>
     ELSE <<"candidate", "doctor">> \o linux(<<"verify">>) \o <<"shutdown", "candidate">> \o linux(<<"credential">>)

Script(op) ==
  CASE op \in Lifecycle \union Observing -> HandleTarget(op)
    [] op = "ensure-ready" -> EnsureReady
    [] op \in Candidates -> HandleCandidate(op)
    [] op = "profile" -> <<"capabilities", "control">>
    [] op = "desktop" -> <<"control">>
    [] OTHER -> <<op>>

Calls(op) == (IF RequiresClaim(op) /\ ClaimsRequired THEN <<"check">> ELSE <<>>) \o Script(op)

\* A client starts a command.  Candidate operations and maintenance that
\* changes the machine refuse a workspace handle, which is no state of ours.
Start(c) ==
  /\ command[c].rest = <<>>
  /\ \E op \in Uses[c] :
       /\ Allowed(op)
       /\ command' = [command EXCEPT ![c] =
            [Idle EXCEPT !.op = op, !.rest = Calls(op), !.claim = command[c].claim]]
  /\ UNCHANGED <<machine, claim>>

At(c, call) == command[c].rest # <<>> /\ Head(command[c].rest) = call
Told(c, new) == command' = [command EXCEPT ![c] = new]
Goes(c) == [command[c] EXCEPT !.rest = Tail(command[c].rest)]
Ends(c, result) == [command[c] EXCEPT !.op = "none", !.rest = <<>>, !.result = result]
Onward(c) == IF Len(command[c].rest) = 1 THEN Ends(c, "done") ELSE Goes(c)
Refused(c) == Told(c, Ends(c, "refused"))

\* An adapter call that fails, or that answers what no validator accepts.
Fails(c) == Refused(c)

\* The adapter's own check, before it does anything to the machine.
Holds(c, class) ==
  /\ claim.live /\ command[c].claim = claim.number /\ claim.holder = c
  /\ class = "disruptive" => claim.class = "disruptive"
Guard(c, class) == ClaimsRequired => Holds(c, class)

-----------------------------------------------------------------------------
(* Calls that only look.                                                   *)

\* require_selected_claim.
Check(c) ==
  /\ At(c, "check") /\ UNCHANGED <<machine, claim>>
  /\ \/ Holds(c, UseClass(command[c].op)) /\ Told(c, Goes(c))
     \/ Refused(c)

\* Documents a doctor may give of the machine as it is.  One that says two
\* things of suspending is not accepted (validate_doctor).
Documents == [ready : {machine.ready}, power : {machine.power},
              operations : {{}, Lifecycle, Lifecycle \ {"suspend"}},
              suspend : {"available", "unavailable"}, down : {"suspend", "guest-shutdown"}]
ValidDoctor(d) ==
  /\ (d.suspend = "available") <=> ("suspend" \in d.operations)
  /\ d.down = "suspend" => d.suspend = "available"

\* What follows from a doctor's document.
AfterDoctor(c, saw) ==
  LET op == command[c].op
      last == Len(command[c].rest) = 1
      ends(result) == Ends(c, result)
  IN CASE op = "ensure-ready" /\ last ->
            ends(IF command[c].reported
                 THEN IF saw.ready THEN "ready_with_adapter_error" ELSE "action_failed"
                 ELSE IF saw.ready THEN "ready" ELSE "repair_required")
       [] op = "ensure-ready" /\ ~last ->
            IF saw.ready THEN ends("ready")
            ELSE IF saw.power = "running" THEN ends("repair_required")
            ELSE IF "up" \notin saw.operations THEN ends("refused") ELSE Goes(c)
       [] op \in Candidates ->
            IF ~saw.ready THEN ends("not_ready")
            ELSE IF op = "validate-candidate" THEN ends("validated") ELSE Goes(c)
       [] OTHER ->
            IF last THEN ends("done")
            ELSE IF op \in Lifecycle /\ op \notin saw.operations THEN ends("refused") ELSE Goes(c)

Doctor(c) ==
  /\ At(c, "doctor") /\ UNCHANGED <<machine, claim>>
  /\ \/ \E d \in Documents : ValidDoctor(d) /\ Told(c, AfterDoctor(c, d))
     \/ Fails(c)

Status(c) ==
  /\ At(c, "status") /\ UNCHANGED <<machine, claim>>
  /\ Told(c, Onward(c)) \/ Fails(c)

\* Mutant: whatever power the second assertion reports.
CandidateAnyPower(c) ==
  /\ At(c, "candidate") /\ UNCHANGED <<machine, claim>>
  /\ \/ ~machine.owned /\ Told(c, IF Len(command[c].rest) = 1 THEN Ends(c, "eligible") ELSE Goes(c))
     \/ Fails(c)

\* candidate_assertion: running at first, off after the shutdown.
Candidate(c) ==
  LET before == \/ command[c].op = "validate-candidate"
                \/ Len(command[c].rest) > 3
                \/ machine.kind # "linux" /\ Len(command[c].rest) > 2
      asserted == /\ ~machine.owned
                  /\ machine.power = (IF before THEN "running" ELSE "off")
  IN /\ At(c, "candidate") /\ UNCHANGED <<machine, claim>>
     /\ \/ /\ asserted
           /\ Told(c, IF Len(command[c].rest) = 1 THEN Ends(c, "eligible") ELSE Goes(c))
        \/ Fails(c)

\* require_linux_credential_handoff.
Verify(c) ==
  /\ At(c, "verify") /\ UNCHANGED claim
  /\ \/ machine.power = "running" /\ machine' = [machine EXCEPT !.credential = "verified"] /\ Told(c, Goes(c))
     \/ UNCHANGED machine /\ Fails(c)

Credential(c) ==
  /\ At(c, "credential") /\ UNCHANGED <<machine, claim>>
  /\ \/ machine.credential = "verified" /\ Told(c, Ends(c, "eligible"))
     \/ Fails(c)

\* A profile is selected only in a resident that says it can; then the request
\* goes out, and what the resident answers is the result.
Resident(c) ==
  \E call \in {"capabilities", "control"} :
    /\ At(c, call) /\ UNCHANGED <<machine, claim>>
    /\ \/ Told(c, Onward(c))
       \/ Fails(c)

-----------------------------------------------------------------------------
(* Calls that change the machine.  One that reports a failure may have     *)
(* done its work all the same.                                             *)

Is(power) == [machine EXCEPT !.power = power, !.ready = FALSE, !.stopping = FALSE]
Effects(call) ==
  CASE call = "up" -> IF machine.power \in {"off", "suspended"} THEN {Is("starting")} ELSE {machine}
    [] call = "suspend" -> IF machine.power = "running" THEN {Is("suspended")} ELSE {machine}
    [] call = "shutdown" -> IF machine.power \in {"off", "suspended"} THEN {machine}
                            ELSE {Is("off"), [machine EXCEPT !.stopping = TRUE]}
    [] call = "force-stop" -> {Is("off")}
    [] call = "reboot" -> IF machine.power = "running" THEN {Is("starting")} ELSE {machine}
    [] call = "testbed" -> {machine, [machine EXCEPT !.credential = "stored"], Is("starting")}
    [] call = "repair" -> {machine, Is("starting")}
    [] call = "certify" -> {machine, Is("starting"), Is("off")}
    [] OTHER -> {machine}

\* A reported failure of ensure-ready's start is looked into, not believed.
Act(c) ==
  \E call \in Lifecycle :
    /\ At(c, call) /\ UNCHANGED claim
    /\ \/ /\ Guard(c, "ordinary")
          /\ machine' \in Effects(call)
          /\ \/ Told(c, Onward(c))
             \/ IF command[c].op = "ensure-ready"
                THEN Told(c, [Goes(c) EXCEPT !.reported = TRUE]) ELSE Fails(c)
       \/ /\ UNCHANGED machine
          /\ IF command[c].op = "ensure-ready"
             THEN Told(c, [Goes(c) EXCEPT !.reported = TRUE]) ELSE Fails(c)

\* The escape hatch runs an adapter command and returns what it returned.
Escape(c) ==
  \E call \in {"testbed", "testbed-input"} :
    /\ At(c, call) /\ UNCHANGED claim
    /\ \/ Guard(c, UseClass(call)) /\ machine' \in Effects(call)
       \/ UNCHANGED machine
    /\ Told(c, Onward(c)) \/ Fails(c)

\* validate_maintenance_result: a document that says healthy has to show it.
Needed(op, reboot) ==
  IF op = "certify" THEN {"profile", "stopped", "source", "guest", "reboot"}
  ELSE {"post_update", "doctor"} \union (IF reboot THEN {"reboot"} ELSE {})
Believed(op, reboot, healthy, evidence) == healthy => Needed(op, reboot) \subseteq evidence

Maintain(c) ==
  \E op \in Maintenance, reboot \in BOOLEAN :
    /\ At(c, op) /\ (reboot => op = "repair") /\ UNCHANGED claim
    /\ IF Guard(c, "ordinary") THEN machine' \in Effects(op) ELSE UNCHANGED machine
    /\ \/ /\ Guard(c, "ordinary")
          /\ \E healthy \in BOOLEAN, lacking \in {{}} \union {{e} : e \in Needed(op, reboot)} :
               /\ Believed(op, reboot, healthy, Needed(op, reboot) \ lacking)
               /\ Told(c, Ends(c, IF healthy THEN "healthy" ELSE "unhealthy"))
       \/ Fails(c)

-----------------------------------------------------------------------------
(* Claims and workspaces.  An acquired workspace comes with its claim.     *)

NewClaim(c, class) ==
  /\ ~claim.live /\ claim.number < MaxClaims
  /\ claim' = [number |-> claim.number + 1, holder |-> c, class |-> class, live |-> TRUE]

\* A client knows a claim only from an answer it could read.
Acquired(c) ==
  \/ Told(c, [Ends(c, "done") EXCEPT !.claim = claim'.number])
  \/ Fails(c)

Acquire(c) ==
  \E class \in {"ordinary", "disruptive"} :
    /\ At(c, IF class = "ordinary" THEN "claim-acquire" ELSE "claim-acquire-disruptive")
    /\ UNCHANGED machine
    /\ \/ NewClaim(c, class) /\ Acquired(c)
       \/ UNCHANGED claim /\ Fails(c)

Release(c) ==
  /\ At(c, "claim-release") /\ UNCHANGED machine
  /\ \/ /\ claim' = [claim EXCEPT !.live = @ /\ command[c].claim # claim.number]
        /\ Told(c, Onward(c)) \/ Fails(c)
     \/ UNCHANGED claim /\ Fails(c)

\* Status and renewal: a lapsed claim is not renewed, a live one stays as it is.
Ask(c) ==
  \E call \in {"claim-status", "claim-renew", "workspace-inventory"} :
    /\ At(c, call) /\ UNCHANGED <<machine, claim>>
    /\ \/ (call = "claim-renew" => Holds(c, "ordinary")) /\ Told(c, Onward(c))
       \/ Fails(c)

AcquireWorkspace(c) ==
  /\ At(c, "workspace-acquire")
  /\ \/ /\ ~machine.owned /\ NewClaim(c, "ordinary")
        /\ machine' = [machine EXCEPT !.owned = TRUE]
        /\ Acquired(c)
     \/ UNCHANGED <<machine, claim>> /\ Fails(c)

ReleaseWorkspace(c) ==
  /\ At(c, "workspace-release")
  /\ \/ /\ command[c].claim > 0 /\ Guard(c, "ordinary")
        /\ machine' = [machine EXCEPT !.owned = FALSE]
        /\ claim' = [claim EXCEPT !.live = FALSE]
        /\ Told(c, Onward(c)) \/ Fails(c)
     \/ UNCHANGED <<machine, claim>> /\ Fails(c)

-----------------------------------------------------------------------------

\* The machine by itself: it comes up, it stops as it was told, it becomes
\* ready or unready.  A claim runs out.
Machine ==
  /\ \/ machine.power = "starting" /\ \E ready \in BOOLEAN : machine' = [Is("running") EXCEPT !.ready = ready]
     \/ machine.stopping /\ machine' = Is("off")
     \/ machine.power = "running" /\ machine' = [machine EXCEPT !.ready = ~machine.ready]
  /\ UNCHANGED <<claim, command>>

Lapse ==
  /\ claim.live /\ claim' = [claim EXCEPT !.live = FALSE]
  /\ UNCHANGED <<machine, command>>

Command(c) ==
  \/ Start(c) \/ Check(c) \/ Doctor(c) \/ Status(c) \/ Candidate(c) \/ Verify(c) \/ Credential(c)
  \/ Resident(c) \/ Act(c) \/ Escape(c) \/ Maintain(c) \/ Acquire(c) \/ Release(c) \/ Ask(c)
  \/ AcquireWorkspace(c) \/ ReleaseWorkspace(c)

CommandsNext == (\E c \in Client : Command(c)) \/ Machine \/ Lapse

CommandsSpec == CommandsInit /\ [][CommandsNext]_clientVars

-----------------------------------------------------------------------------

\* A machine reported eligible for promotion is one that may be handed on:
\* off, owned by no workspace, its Linux credential verified, for as long as
\* the operator who asked still holds the claim, whatever commands of others
\* were under way when the claim was taken.
EligibleIsHandedOff ==
  \A c \in Client : command[c].result = "eligible" /\ Holds(c, "ordinary") =>
    /\ machine.power = "off" /\ ~machine.owned
    /\ machine.kind = "linux" => machine.credential = "verified"

\* A start whose failure was reported never becomes a plain success, nor a
\* plain failure: the report of ensure-ready says which way it was uncertain.
FailureIsTold ==
  \A c \in Client : command[c].reported /\ command[c].rest = <<>> =>
    command[c].result \in {"ready_with_adapter_error", "action_failed", "refused"}
=============================================================================
