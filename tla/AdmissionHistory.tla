-------------------------- MODULE AdmissionHistory --------------------------
(***************************************************************************)
(* AccessAdmission with a record of what the person decided, for promises  *)
(* about decisions made earlier.  The history only watches.                *)
(***************************************************************************)
EXTENDS AdmissionProperties

VARIABLES
  approvedFor,  \* [Surface -> tasks approved since the surface was last held,
                \*  reconfigured, stopped or, with reapproval, taken over]
  gated,        \* surfaces held or taken over since a task last started there
                \*  with an approval of its own
  welcomed      \* tasks approved since the last takeover and not held since

history == <<approvedFor, gated, welcomed>>

\* Forget the approvals for the surfaces S.
Without(S) == [s \in Surface |-> IF s \in S THEN {} ELSE approvedFor[s]]

HInit ==
  /\ Init
  /\ approvedFor = [s \in Surface |-> {}]
  /\ gated = {} /\ welcomed = {}

ApproveH(t, d) ==
  /\ Approve(t, d)
  /\ approvedFor' = [s \in Surface |->
                       approvedFor[s] \union {u \in {t} : s \in Request[u].surfaces}]
  /\ welcomed' = welcomed \union {t}
  /\ UNCHANGED gated

HoldH(t) ==
  /\ Hold(t)
  /\ approvedFor' = Without(Request[t].surfaces)
  /\ gated' = gated \union Request[t].surfaces
  /\ welcomed' = welcomed \ {t}

InputH(s) ==
  LET S == IF policy.preferences.reapprove THEN {"desktop"} ELSE {}
  IN  /\ Input(s)
      /\ approvedFor' = Without(S)
      /\ gated' = gated \union S
      /\ welcomed' = {}

AcceptH(t) ==
  /\ Accept(t)
  /\ gated' = gated \ {s \in Request[t].surfaces : t \in approvedFor[s]}
  /\ UNCHANGED <<approvedFor, welcomed>>

ConfigureH(s, c) ==
  /\ Configure(s, c)
  /\ approvedFor' = Without({s})
  /\ gated' = gated \ {s}
  /\ UNCHANGED welcomed

StopH ==
  /\ Stop
  /\ approvedFor' = Without(Surface)
  /\ gated' = {}
  /\ UNCHANGED welcomed

Unwatched ==
  \/ \E o \in Owner : Open(o) \/ Close(o)
  \/ \E t \in Task : \/ Submit(t) \/ Heartbeat(t) \/ Cancel(t)
                     \/ \E d \in Renewals : Renew(t, d)
                     \/ \E d \in Delays : Postpone(t, d)
                     \/ StartNow(t) \/ Deny(t)
                     \/ \E d \in DeferTimes : Defer(t, d)
  \/ \E c \in PreferenceChoices : SetPreferences(c)
  \/ \E d \in NoticeChoices : Notice(d)
  \/ \E s \in Surface : \E v \in VisibilityChoices[s] : Ready(s, v)
  \/ \E b \in InputChoices : InputReady(b)
  \/ \E c \in Scope : \/ ResumeTakeover(c) \/ ResumeDeferral(c)
                      \/ \E r \in PauseReason :
                            Resume(c, r) \/ \E d \in PauseTimes : Pause(c, r, d)
  \/ Poll
  \/ Pass

HNext ==
  \/ \E t \in Task, d \in Delays : ApproveH(t, d)
  \/ \E t \in Task : HoldH(t)
  \/ \E s \in InputSurfaces : InputH(s)
  \/ \E t \in Task : AcceptH(t)
  \/ \E s \in Surface : \E c \in Configurations[s] : ConfigureH(s, c)
  \/ StopH
  \/ Unwatched /\ UNCHANGED history

HSpec == HInit /\ [][HNext]_<<policy, history>>

-----------------------------------------------------------------------------

\* An approval belongs to one task and to the situation it was given in.  A
\* session starts on an Ask surface, or on any surface after the person held a
\* task or took over with reapproval on, only for a task the person approved
\* since; another task's approval, or an older one, does not open the gate, and
\* cancelling and submitting again does not step around it.
ApprovedStep ==
  \A t \in Task : IsActive(policy', t) /\ ~ IsActive(policy, t) =>
    \A s \in Request[t].surfaces :
      policy.config[s].mode = "ask" \/ s \in gated => t \in approvedFor[s]
ApprovalIsOwn == [][ApprovedStep]_<<policy, history>>

\* After a takeover the first disruptive desktop task comes back with a visible
\* warning, also when the notice is set to zero and also when the task was
\* approved before the takeover; only an approval after it, or the click on its
\* notice, waives the warning.
WarnedStep ==
  \A t \in Task :
    /\ YieldsToHuman(t) /\ policy'.postYieldWarning /\ policy'.available["desktop"].notice
    /\ policy.intents[t].state \notin {"announcing", "offered"}
    /\ policy'.intents[t].state = "offered"
    => t \in welcomed' \/ StartNow(t)
ReturnIsWarned == [][WarnedStep]_<<policy, history>>
=============================================================================
