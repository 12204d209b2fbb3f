---------------------------- MODULE ControlOwner ----------------------------
(***************************************************************************)
(* The owner of a control intent in the client: wait, call, renew and      *)
(* close of class ControlSession, its heartbeat, the loop of `control      *)
(* call|stream` (handle_control), and the handoff of a plain request to a  *)
(* session (complete_session_handoff), all in client/control_session.py.   *)
(*                                                                         *)
(* The intent is the provider's: it offers, pauses, expires and ends it at *)
(* any moment.  A request is carried out, or not, some time after it was   *)
(* written, also when the client no longer waits for the answer.           *)
(***************************************************************************)
EXTENDS Integers, Sequences

CONSTANTS
  Requests,   \* requests of one stream; a plain request is the first of them
  MaxSession, \* sessions of the intent
  MaxOffer,   \* activation offers
  Interval    \* ticks of the lease; it is renewed at the last of them

LimitsArePositive == {Requests, MaxSession, MaxOffer, Interval} \subseteq Nat \ {0}

VARIABLES
  intent,   \* the provider's: state, session, offer, ticks left
  client,   \* the process: where it is, its request, the fence and offer it saw
  flight,   \* requests written and not yet carried out or refused
  carried   \* what was carried out, in order

ownerVars == <<intent, client, flight, carried>>

Outcomes == {"clean", "unsure", "refused"}
Places == {"plain", "asked", "opening", "waiting", "accepting", "checking", "calling", "sent", "settling", "over"}
Numbers == 1..Requests
Sessions == 0..MaxSession

Intents == [state : {"none", "waiting", "offered", "active", "ended"},
            session : Sessions, offer : 0..MaxOffer, left : 0..Interval]
Clients == [at : Places, request : Numbers, seen : Sessions, offer : 0..MaxOffer,
            answer : Outcomes \union {"none"}, mode : {"plain", "opening"}]
Written == [request : Numbers, session : Sessions]
Done == [request : Numbers, session : Sessions, outcome : Outcomes]

OwnerTypeOK == intent \in Intents /\ client \in Clients /\ flight \subseteq Written /\ carried \in Seq(Done)

OwnerInit ==
  /\ intent = [state |-> "none", session |-> 0, offer |-> 0, left |-> 0]
  /\ \E at \in {"plain", "opening"} :
       client = [at |-> at, request |-> 1, seen |-> 0, offer |-> 0, answer |-> "none", mode |-> at]
  /\ flight = {} /\ carried = <<>>

-----------------------------------------------------------------------------

At(place) == client.at = place
Goes(place) == client' = [client EXCEPT !.at = place]

\* The client with an offer to accept, with the fence it saw, with its request
\* written, and at its next request.
Accepting(offer) == [client EXCEPT !.at = "accepting", !.offer = offer]
Calling(session) == [client EXCEPT !.at = "calling", !.seen = session]
Sending == [client EXCEPT !.at = "sent", !.answer = "none"]
Following == [client EXCEPT !.at = "checking", !.request = client.request + 1]

\* The intent with its next session, with its next offer, and without control.
Activated == [intent EXCEPT !.state = "active", !.session = intent.session + 1, !.left = Interval]
Offered == [intent EXCEPT !.state = "offered", !.offer = intent.offer + 1]
Stopped(state) == [intent EXCEPT !.state = state, !.left = 0]

\* Leaving `with ControlSession`: the adapter's input is closed.  The provider
\* ends what the connection owned when it sees that.
Close == Goes("over") /\ UNCHANGED intent

\* A request without a session, as every other command of the client sends it.
Plain ==
  /\ At("plain")
  /\ flight' = {[request |-> 1, session |-> 0]}
  /\ Goes("asked") /\ UNCHANGED <<intent, carried>>

\* Mutant: any refusal is handed over.
HandsOverAnything(answer) == answer # "clean"

\* Only a refusal that says it was not dispatched, and why.
HandsOver(answer) == answer = "refused"

Handoff ==
  /\ At("asked") /\ client.answer # "none"
  /\ IF HandsOver(client.answer) THEN Goes("opening") ELSE Goes("over")
  /\ UNCHANGED <<intent, flight, carried>>

\* ControlSession(): control.open.
Open ==
  /\ At("opening")
  /\ \/ intent' = [intent EXCEPT !.state = "waiting"] /\ Goes("waiting")
     \/ Close
  /\ UNCHANGED <<flight, carried>>

\* wait(): a status; an offer seen is accepted by its number.  Otherwise the
\* next status is asked for, until the intent has ended or the time is up.
Wait ==
  /\ At("waiting") /\ UNCHANGED <<flight, carried>>
  /\ CASE intent.state = "active" -> Goes("checking") /\ UNCHANGED intent
       [] intent.state = "offered" -> client' = Accepting(intent.offer) /\ UNCHANGED intent
       [] OTHER -> Close

Accept ==
  /\ At("accepting") /\ UNCHANGED <<flight, carried>>
  /\ IF intent.state = "offered" /\ intent.offer = client.offer /\ intent.session < MaxSession
     THEN intent' = Activated /\ Goes("checking")
     ELSE Goes("waiting") /\ UNCHANGED intent

\* call(): a status of its own, and the fence it shows.
Check ==
  /\ At("checking") /\ UNCHANGED <<flight, carried>>
  /\ IF intent.state = "active"
     THEN client' = Calling(intent.session) /\ UNCHANGED intent
     ELSE Close

Call ==
  /\ At("calling")
  /\ flight' = flight \union {[request |-> client.request, session |-> client.seen]}
  /\ client' = Sending
  /\ UNCHANGED <<intent, carried>>

\* Mutant: what was delivered is done.
ContinuesUnsure(answer) == answer \in {"clean", "unsure"}

Continues(answer) == answer = "clean"

\* The loop of handle_control; a refusal that may have ended the owner is
\* looked into first (ended_owner).
TakeAnswer ==
  /\ At("sent") /\ client.answer # "none" /\ UNCHANGED <<flight, carried>>
  /\ IF Continues(client.answer) /\ client.mode = "opening" /\ client.request < Requests
     THEN client' = Following /\ UNCHANGED intent
     ELSE IF client.answer = "refused" THEN Goes("settling") /\ UNCHANGED intent
     ELSE Close

EndedOwner == At("settling") /\ Close /\ UNCHANGED <<flight, carried>>

\* No answer in time, or the transport failed: never sent again.
GiveUp ==
  /\ client.at \in {"asked", "sent"} /\ client.answer = "none"
  /\ Close /\ UNCHANGED <<flight, carried>>

\* _keepalive, beside the task: a heartbeat, and renew() near the end.  A view
\* that says ended fails the session for the task too.
Alive == client.at \notin {"plain", "asked", "opening", "over"}

Keepalive ==
  /\ Alive /\ UNCHANGED <<flight, carried>>
  /\ IF intent.state = "ended" THEN Close
     ELSE /\ intent.state = "active" /\ intent.left = 1
          /\ \/ intent' = [intent EXCEPT !.left = Interval] /\ UNCHANGED client
             \/ Close

\* The process is killed.
Die == ~At("over") /\ Close /\ UNCHANGED <<flight, carried>>

-----------------------------------------------------------------------------
(* The provider.                                                           *)

Offer ==
  /\ intent.state = "waiting" /\ intent.offer < MaxOffer
  /\ intent' = Offered
  /\ UNCHANGED <<client, flight, carried>>

\* The connection is closed, or the adapter is gone.
Disconnected ==
  /\ At("over") /\ intent.state \notin {"none", "ended"}
  /\ intent' = Stopped("ended")
  /\ UNCHANGED <<client, flight, carried>>

\* An offer lapses; a person pauses; the resource is taken back.
Withdraw ==
  /\ intent.state \in {"offered", "active"}
  /\ \E state \in {"waiting", "ended"} : intent' = Stopped(state)
  /\ UNCHANGED <<client, flight, carried>>

Tick ==
  /\ intent.state = "active"
  /\ IF intent.left <= 1 THEN intent' = Stopped("ended")
     ELSE intent' = [intent EXCEPT !.left = intent.left - 1]
  /\ UNCHANGED <<client, flight, carried>>

Answered(f, answer) ==
  client' = IF client.at \in {"asked", "sent"} /\ f.request = client.request
            THEN [client EXCEPT !.answer = answer] ELSE client

Holds(f) == f.session = 0 \/ (intent.state = "active" /\ intent.session = f.session)

CarryOut(f) ==
  /\ Holds(f) /\ flight' = flight \ {f}
  /\ \E outcome \in {"clean", "unsure"} :
       /\ carried' = Append(carried, [request |-> f.request, session |-> f.session, outcome |-> outcome])
       /\ Answered(f, outcome)
  /\ UNCHANGED intent

Decline(f) ==
  /\ flight' = flight \ {f} /\ Answered(f, "refused") /\ UNCHANGED <<intent, carried>>

OwnerNext ==
  \/ Plain \/ Handoff \/ Open \/ Wait \/ Accept \/ Check \/ Call \/ TakeAnswer \/ EndedOwner
  \/ GiveUp \/ Keepalive \/ Die \/ Offer \/ Withdraw \/ Disconnected \/ Tick
  \/ \E f \in flight : CarryOut(f) \/ Decline(f)

OwnerSpec == OwnerInit /\ [][OwnerNext]_ownerVars

-----------------------------------------------------------------------------

\* A request is carried out at most once and in the order of the stream, also
\* when a plain one was refused first and handed to a session; and nothing is
\* carried out after a request whose effect is in doubt.
NothingTwice ==
  \A i, j \in 1..Len(carried) : i < j =>
    carried[i].request < carried[j].request /\ carried[i].outcome = "clean"
=============================================================================
