---------------------------- MODULE LinuxPortal ----------------------------
(***************************************************************************)
(* Desktop sharing of the Linux resident: portal.py (connect, the chain of *)
(* portal requests, the media thread, close) and the gestures it delivers. *)
(*                                                                         *)
(* The coordinator runs the callbacks; the media thread opens and disposes *)
(* of the screen stream; the provider's worker delivers gestures.  close() *)
(* renews the epoch, so an answer or a stream of an older one is unwanted. *)
(***************************************************************************)
EXTENDS Naturals, FiniteSets

CONSTANT Key  \* keys and buttons a gesture may hold down

VARIABLES
  portal,   \* the coordinator's view: state, step, session, stream, timer
  media,    \* the media thread's one job
  streams,  \* screen streams (pipeline and descriptor) that are open
  gesture,  \* the gesture the worker is delivering
  held      \* keys and buttons the compositor holds down for the session

portalVars == <<portal, media, streams, gesture, held>>

Steps == {"create", "devices", "sources", "start"}
NoMedia == [kind |-> "none", at |-> "none", wanted |-> FALSE, ok |-> FALSE]
NoGesture == [op |-> "none", todo |-> {}, owes |-> {}, lost |-> FALSE]
Off == [state |-> "off", step |-> "none", session |-> FALSE, stream |-> FALSE, timer |-> FALSE]

PortalTypeOK ==
  /\ portal \in [state : {"off", "pending", "ready"}, step : Steps \union {"none", "media"},
                 session : BOOLEAN, stream : BOOLEAN, timer : BOOLEAN]
  /\ media \in [kind : {"none", "prepare", "dispose"}, at : {"none", "begun", "open", "done"},
                wanted : BOOLEAN, ok : BOOLEAN]
  /\ streams \in 0 .. 2
  /\ gesture \in [op : {"none", "pointer", "key"}, todo : SUBSET Key, owes : SUBSET Key, lost : BOOLEAN]
  /\ held \subseteq Key

PortalInit ==
  /\ portal = Off /\ media = NoMedia /\ streams = 0
  /\ gesture = NoGesture /\ held = {}

-----------------------------------------------------------------------------
(* connect() and the chain of requests to the portal.                      *)

\* Mutant of Disposed: close() forgets the stream without disposing of it.
DisposedNever(p, m) == [m EXCEPT !.wanted = FALSE]

\* The stream is handed to the media thread, when its one slot is free.
Disposed(p, m) ==
  IF p.stream /\ m.kind = "none" THEN [NoMedia EXCEPT !.kind = "dispose", !.at = "begun"]
  ELSE [m EXCEPT !.wanted = FALSE]

\* close(): a new epoch, the media job cancelled, request and session closed;
\* the compositor lets go of what a closed session held.
Close(p, m) ==
  /\ portal' = Off
  /\ media' = Disposed(p, m)
  /\ held' = IF p.session THEN {} ELSE held

SharingEnds ==  \* closed by the portal, a locked desktop, Stop, or at the end
  /\ portal.state # "off" \/ portal.stream
  /\ Close(portal, media)
  /\ UNCHANGED <<streams, gesture>>

\* A new connection while the media thread is at work is refused; connecting
\* again first closes, and is refused when that leaves a stream to dispose of.
Connect ==
  /\ portal.state # "pending" /\ media.kind = "none"
  /\ IF portal.stream THEN Close(portal, media)
     ELSE /\ portal' = [Off EXCEPT !.state = "pending", !.step = "create", !.timer = TRUE]
          /\ UNCHANGED <<media, held>>
  /\ UNCHANGED <<streams, gesture>>

After == [create |-> "devices", devices |-> "sources", sources |-> "start", start |-> "media"]

\* A response of the current epoch: the next request, or the stream's turn.
Response ==
  /\ portal.step \in Steps
  /\ portal' = [portal EXCEPT !.step = After[portal.step], !.session = TRUE]
  /\ media' = IF portal.step = "start"
              THEN [kind |-> "prepare", at |-> "begun", wanted |-> TRUE, ok |-> FALSE] ELSE media
  /\ UNCHANGED <<streams, gesture, held>>

Refusal ==  \* cancelled by the person, failed, or more than one screen chosen
  /\ portal.step \in Steps
  /\ Close(portal, media)
  /\ UNCHANGED <<streams, gesture>>

TimedOut ==
  /\ portal.timer /\ portal.state = "pending"
  /\ Close(portal, media)
  /\ UNCHANGED <<streams, gesture>>

-----------------------------------------------------------------------------
(* The media thread.                                                       *)

\* Nothing is opened for a job that was cancelled or whose call failed.
Opens ==
  /\ media.kind = "prepare" /\ media.at = "begun"
  /\ \/ media.wanted /\ streams' = streams + 1 /\ media' = [media EXCEPT !.at = "open"]
     \/ media' = [media EXCEPT !.at = "done"] /\ UNCHANGED streams
  /\ UNCHANGED <<portal, gesture, held>>

\* The last check comes after the stream plays: what fails it is closed here.
Plays ==
  /\ media.at = "open"
  /\ \/ media.wanted /\ media' = [media EXCEPT !.at = "done", !.ok = TRUE] /\ UNCHANGED streams
     \/ media' = [media EXCEPT !.at = "done"] /\ streams' = streams - 1
  /\ UNCHANGED <<portal, gesture, held>>

Disposes ==
  /\ media.kind = "dispose" /\ media.at = "begun"
  /\ streams' = streams - 1
  /\ media' = [media EXCEPT !.at = "done"]
  /\ UNCHANGED <<portal, gesture, held>>

\* done(), posted to the coordinator: the slot is free before prepared() runs,
\* which can then hand an unwanted stream back for disposal.
Prepared ==
  /\ media.kind = "prepare" /\ media.at = "done"
  /\ LET p == [portal EXCEPT !.stream = media.ok]
     IN IF media.ok /\ media.wanted
        THEN /\ portal' = [p EXCEPT !.state = "ready", !.step = "none", !.timer = FALSE]
             /\ media' = NoMedia /\ UNCHANGED held
        ELSE Close(p, NoMedia)
  /\ UNCHANGED <<streams, gesture>>

Disposal ==
  /\ media.kind = "dispose" /\ media.at = "done"
  /\ media' = NoMedia
  /\ UNCHANGED <<portal, streams, gesture, held>>

-----------------------------------------------------------------------------
(* Gestures.  A press asks the ticket first, a release does not; both need *)
(* a portal that is ready.  A call that fails may have had its effect.     *)

BeginGesture ==
  /\ gesture.op = "none" /\ portal.state = "ready"
  /\ \E op \in {"pointer", "key"}, keys \in (SUBSET Key) \ {{}} :
       /\ op = "pointer" => Cardinality(keys) = 1
       /\ gesture' = [gesture EXCEPT !.op = op, !.todo = keys]
  /\ UNCHANGED <<portal, media, streams, held>>

\* Mutant of Owed: a release is owed only for a press that was confirmed.
OwedConfirmed(op, k, ok) == IF ok THEN {k} ELSE {}

\* A button is released whatever its press did; a key only if it was pressed.
Owed(op, k, ok) == IF op = "pointer" \/ ok THEN {k} ELSE {}

Press(k) ==
  /\ k \in gesture.todo
  /\ portal.state = "ready"
  /\ \E delivered, ok \in BOOLEAN :
       /\ ok => delivered
       /\ held' = IF delivered THEN held \union {k} ELSE held
       /\ gesture' = [gesture EXCEPT !.todo = IF ok THEN gesture.todo \ {k} ELSE {},
                        !.owes = gesture.owes \union Owed(gesture.op, k, ok),
                        !.lost = gesture.lost \/ (gesture.op = "key" /\ delivered /\ ~ok)]
  /\ UNCHANGED <<portal, media, streams>>

\* The ticket was cancelled, or the portal is closed: no more presses.
Interrupted ==
  /\ gesture.todo # {}
  /\ gesture' = [gesture EXCEPT !.todo = {}]
  /\ UNCHANGED <<portal, media, streams, held>>

Release(k) ==
  /\ gesture.todo = {} /\ k \in gesture.owes
  /\ \/ /\ portal.state = "ready"
        /\ gesture' = [gesture EXCEPT !.owes = gesture.owes \ {k}]
        /\ held' = held \ {k}
     \/ /\ gesture' = [gesture EXCEPT !.owes = {}, !.lost = gesture.lost \/ portal.state = "ready"]
        /\ UNCHANGED held
  /\ UNCHANGED <<portal, media, streams>>

\* What was lost stays down until the session is closed.
Delivered ==
  /\ gesture.op # "none" /\ gesture.todo = {} /\ gesture.owes = {}
  /\ gesture' = [NoGesture EXCEPT !.lost = gesture.lost /\ held # {}]
  /\ UNCHANGED <<portal, media, streams, held>>

PortalNext ==
  \/ Connect \/ Response \/ Refusal \/ TimedOut \/ SharingEnds
  \/ Opens \/ Plays \/ Disposes \/ Prepared \/ Disposal
  \/ BeginGesture \/ Interrupted \/ Delivered
  \/ \E k \in Key : Press(k) \/ Release(k)

PortalSpec == PortalInit /\ [][PortalNext]_portalVars

-----------------------------------------------------------------------------

\* Every open screen stream has one that will close it: the portal that shows
\* it, the job that opened it or the job that disposes of it, however close(),
\* a timeout and a late answer fall; and a ready portal shows one.
StreamsAreOwned ==
  /\ streams = (IF portal.stream THEN 1 ELSE 0)
             + (IF media.at = "open" \/ media.ok \/ (media.kind = "dispose" /\ media.at = "begun") THEN 1 ELSE 0)
  /\ portal.state = "ready" <=> portal.stream

\* A gesture that is over holds nothing down, whether it was cancelled between
\* two presses or its portal closed, except after a call that failed with its
\* effect unknown.
GesturesLetGo == gesture.op = "none" /\ held # {} => gesture.lost
=============================================================================
