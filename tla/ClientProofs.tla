---------------------------- MODULE ClientProofs ----------------------------
(***************************************************************************)
(* Theorems about how the client works under a claim: the owner of a       *)
(* control intent (ControlOwner), the guarded channel its requests go      *)
(* through (ControlChannel), and the scoped runs of a child (ScopedRun).   *)
(*                                                                         *)
(* NothingTwice is not inductive: that the next request may be sent rests  *)
(* on the one in flight being the current one, on nothing being in flight  *)
(* where the client decides what to send next, and on an answer saying     *)
(* what became of the request it answers.  OwnerInv says this.             *)
(*                                                                         *)
(* FailureReachesEveryCall is not inductive either: a failure wakes the    *)
(* calls that are pending, so the pending ones have to be exactly those    *)
(* that wait.  The order of the numbers rests on every number given out    *)
(* having been written, which the lock of the channel sees to (ChannelInv).*)
(*                                                                         *)
(* Of a scoped run, for leases of any length: a task never outlives the    *)
(* lease it runs under, the authority outlives the task, and a run that    *)
(* says it left nothing behind did.  What makes it work is the margin      *)
(* between the deadline a run stops its child at and the end of the lease: *)
(* the invariant RunSound keeps, for each stage of a run, the time that is *)
(* left against the steps that are still to be paid from it.               *)
(***************************************************************************)
EXTENDS ControlOwner, ControlChannel, ScopedRun, FiniteSetTheorems, TLAPS

-----------------------------------------------------------------------------
(* The owner of an intent.                                                 *)

\* All that was carried out so far came out clean.
AllClean == \A i \in 1..Len(carried) : carried[i].outcome = "clean"
AllBelow(r) == \A i \in 1..Len(carried) : carried[i].request < r

\* A request may still be carried out: it is the only one, the client's
\* current one, unanswered, and what came before it was clean.
InFlight ==
  /\ \A f, g \in flight : f = g
  /\ \A f \in flight : f.request = client.request
  /\ flight # {} => /\ AllClean /\ AllBelow(client.request)
                    /\ client.at \in {"asked", "sent", "over"}
                    /\ client.at # "over" => client.answer = "none"

\* The client has yet to send its current request.
Deciding == client.at \in {"plain", "opening", "waiting", "accepting", "checking", "calling"}
NotYetSent == Deciding => AllClean /\ AllBelow(client.request)

\* What an answer says about the request it answers.
AnswerIsTrue ==
  client.at \in {"asked", "sent"} =>
    /\ client.answer = "refused" => AllClean /\ AllBelow(client.request)
    /\ client.answer = "clean" => AllClean /\ AllBelow(client.request + 1)

\* A plain request is the first.
NothingAsked == client.at = "plain" => client.answer = "none" /\ client.request = 1

RequestInv == InFlight /\ NotYetSent /\ AnswerIsTrue /\ NothingAsked /\ NothingTwice
OwnerInv == OwnerTypeOK /\ RequestInv

-----------------------------------------------------------------------------
(* Types.                                                                  *)

\* The client and the intent start in range.
LEMMA InitTypes == ASSUME LimitsArePositive, OwnerInit PROVE OwnerTypeOK
<1>1. intent \in Intents BY DEF LimitsArePositive, OwnerInit, Intents, Sessions
<1>2. client \in Clients BY DEF LimitsArePositive, OwnerInit, Clients, Places, Numbers, Sessions
<1>3. flight \subseteq Written /\ carried \in Seq(Done) BY DEF OwnerInit
<1> QED BY <1>1, <1>2, <1>3 DEF OwnerTypeOK

\* Where the client is after a step, and what it keeps of its request and of
\* the answer to it.
Moved(place, request, answer) ==
  client' \in Clients /\ client'.at = place /\ client'.request = request /\ client'.answer = answer

\* Each update of the client gives a client, at the place the update names.
LEMMA ClientSteps ==
  ASSUME LimitsArePositive, client \in Clients
  PROVE  /\ \A p \in Places : Goes(p) => Moved(p, client.request, client.answer)
         /\ \A o \in 0..MaxOffer : client' = Accepting(o) => Moved("accepting", client.request, client.answer)
         /\ \A n \in Sessions : client' = Calling(n) => Moved("calling", client.request, client.answer)
         /\ client' = Sending => Moved("sent", client.request, "none")
         /\ client' = Following /\ client.request < Requests
              => Moved("checking", client.request + 1, client.answer)
<1>1. \A p \in Places : Goes(p) => Moved(p, client.request, client.answer) BY DEF Goes, Moved, Clients
<1>2. ASSUME NEW o \in 0..MaxOffer, client' = Accepting(o)
      PROVE Moved("accepting", client.request, client.answer)
  BY <1>2 DEF Accepting, Moved, Clients, Places
<1>3. ASSUME NEW n \in Sessions, client' = Calling(n)
      PROVE Moved("calling", client.request, client.answer)
  BY <1>3 DEF Calling, Moved, Clients, Places
<1>4. ASSUME client' = Sending PROVE Moved("sent", client.request, "none")
  BY <1>4 DEF Sending, Moved, Clients, Places
<1>5. ASSUME client' = Following, client.request < Requests
      PROVE Moved("checking", client.request + 1, client.answer)
  <2> DEFINE next == client.request + 1
  <2>1. next \in Numbers BY <1>5 DEF Clients, Numbers, LimitsArePositive
  <2>2. client' = [client EXCEPT !.at = "checking", !.request = next] BY <1>5 DEF Following
  <2> HIDE DEF next
  <2>3. Moved("checking", next, client.answer) BY <2>1, <2>2 DEF Moved, Clients, Places
  <2> QED BY <2>3 DEF next
<1> QED BY <1>1, <1>2, <1>3, <1>4, <1>5

\* Each update of the intent gives an intent.
LEMMA IntentSteps ==
  ASSUME LimitsArePositive, intent \in Intents
  PROVE  /\ \A state \in {"waiting", "ended"} : Stopped(state) \in Intents
         /\ intent.session < MaxSession => Activated \in Intents
         /\ intent.offer < MaxOffer => Offered \in Intents
         /\ [intent EXCEPT !.state = "waiting"] \in Intents
         /\ [intent EXCEPT !.left = Interval] \in Intents
         /\ intent.left # 0 => [intent EXCEPT !.left = intent.left - 1] \in Intents
<1>n. Interval \in 0..Interval /\ 0 \in 0..Interval BY DEF LimitsArePositive
<1>1. ASSUME NEW state \in {"waiting", "ended"} PROVE Stopped(state) \in Intents
  BY <1>n DEF Stopped, Intents
<1>2. ASSUME intent.session < MaxSession PROVE Activated \in Intents
  <2> DEFINE next == intent.session + 1
  <2>1. next \in Sessions BY <1>2 DEF Intents, Sessions, LimitsArePositive
  <2> HIDE DEF next
  <2>2. [intent EXCEPT !.state = "active", !.session = next, !.left = Interval] \in Intents
    BY <2>1, <1>n DEF Intents
  <2> QED BY <2>2 DEF Activated, next
<1>3. ASSUME intent.offer < MaxOffer PROVE Offered \in Intents
  <2> DEFINE next == intent.offer + 1
  <2>1. next \in 0..MaxOffer BY <1>3 DEF Intents, LimitsArePositive
  <2> HIDE DEF next
  <2>2. [intent EXCEPT !.state = "offered", !.offer = next] \in Intents BY <2>1 DEF Intents
  <2> QED BY <2>2 DEF Offered, next
<1>4. [intent EXCEPT !.state = "waiting"] \in Intents BY DEF Intents
<1>5. [intent EXCEPT !.left = Interval] \in Intents BY <1>n DEF Intents
<1>6. ASSUME intent.left # 0 PROVE [intent EXCEPT !.left = intent.left - 1] \in Intents
  <2>1. intent.left - 1 \in 0..Interval BY <1>6 DEF Intents, LimitsArePositive
  <2> QED BY <2>1 DEF Intents
<1> QED BY <1>1, <1>2, <1>3, <1>4, <1>5, <1>6

\* Every step of the client and of the provider keeps every field in range.
LEMMA StepTypes ==
  ASSUME LimitsArePositive, OwnerTypeOK, [OwnerNext]_ownerVars
  PROVE  OwnerTypeOK'
<1>c. client \in Clients BY DEF OwnerTypeOK
<1>i. intent \in Intents BY DEF OwnerTypeOK
<1>n. intent.offer \in 0..MaxOffer /\ intent.session \in Sessions BY <1>i DEF Intents
<1>f. flight \subseteq Written /\ carried \in Seq(Done) BY DEF OwnerTypeOK
<1>1. CASE Plain
  <2>1. client' \in Clients BY <1>1, <1>c, <1>n, ClientSteps DEF Plain, Moved, Places
  <2>2. intent' = intent BY <1>1 DEF Plain
  <2>3. flight' \subseteq Written BY <1>1 DEF Plain, Written, Numbers, Sessions, LimitsArePositive
  <2> QED BY <1>1, <1>i, <1>f, <2>1, <2>2, <2>3 DEF Plain, OwnerTypeOK
<1>2. CASE Handoff
  <2>1. client' \in Clients BY <1>2, <1>c, <1>n, ClientSteps DEF Handoff, Moved, Places
  <2>2. intent' = intent BY <1>2 DEF Handoff
  <2> QED BY <1>2, <1>i, <1>f, <2>1, <2>2 DEF Handoff, OwnerTypeOK
<1>3. CASE Open
  <2>1. client' \in Clients BY <1>3, <1>c, <1>n, ClientSteps DEF Open, Close, Moved, Places
  <2>2. intent' \in Intents BY <1>3, <1>i, IntentSteps DEF Open, Close
  <2> QED BY <1>3, <1>i, <1>f, <2>1, <2>2 DEF Open, OwnerTypeOK
<1>4. CASE Wait
  <2>1. client' \in Clients BY <1>4, <1>c, <1>n, ClientSteps DEF Wait, Close, Moved, Places
  <2>2. intent' = intent BY <1>4 DEF Wait, Close
  <2> QED BY <1>4, <1>i, <1>f, <2>1, <2>2 DEF Wait, OwnerTypeOK
<1>5. CASE Accept
  <2>1. client' \in Clients BY <1>5, <1>c, <1>n, ClientSteps DEF Accept, Moved, Places
  <2>2. intent' \in Intents BY <1>5, <1>i, IntentSteps DEF Accept
  <2> QED BY <1>5, <1>i, <1>f, <2>1, <2>2 DEF Accept, OwnerTypeOK
<1>6. CASE Check
  <2>1. client' \in Clients BY <1>6, <1>c, <1>n, ClientSteps DEF Check, Close, Moved, Places
  <2>2. intent' = intent BY <1>6 DEF Check, Close
  <2> QED BY <1>6, <1>i, <1>f, <2>1, <2>2 DEF Check, OwnerTypeOK
<1>7. CASE Call
  <2>1. client' \in Clients BY <1>7, <1>c, <1>n, ClientSteps DEF Call, Moved, Places
  <2>2. intent' = intent BY <1>7 DEF Call
  <2>3. flight' \subseteq Written BY <1>7, <1>c, <1>f DEF Call, Written, Clients
  <2> QED BY <1>7, <1>i, <1>f, <2>1, <2>2, <2>3 DEF Call, OwnerTypeOK
<1>8. CASE TakeAnswer
  <2>1. client' \in Clients BY <1>8, <1>c, <1>n, ClientSteps DEF TakeAnswer, Close, Moved, Places
  <2>2. intent' = intent BY <1>8 DEF TakeAnswer, Close
  <2> QED BY <1>8, <1>i, <1>f, <2>1, <2>2 DEF TakeAnswer, OwnerTypeOK
<1>9. CASE EndedOwner
  <2>1. client' \in Clients BY <1>9, <1>c, <1>n, ClientSteps DEF EndedOwner, Close, Moved, Places
  <2>2. intent' = intent BY <1>9 DEF EndedOwner, Close
  <2> QED BY <1>9, <1>i, <1>f, <2>1, <2>2 DEF EndedOwner, OwnerTypeOK
<1>10. CASE GiveUp
  <2>1. client' \in Clients BY <1>10, <1>c, <1>n, ClientSteps DEF GiveUp, Close, Moved, Places
  <2>2. intent' = intent BY <1>10 DEF GiveUp, Close
  <2> QED BY <1>10, <1>i, <1>f, <2>1, <2>2 DEF GiveUp, OwnerTypeOK
<1>11. CASE Keepalive
  <2>1. client' \in Clients BY <1>11, <1>c, <1>n, ClientSteps DEF Keepalive, Close, Moved, Places
  <2>2. intent' \in Intents BY <1>11, <1>i, IntentSteps DEF Keepalive, Close
  <2> QED BY <1>11, <1>i, <1>f, <2>1, <2>2 DEF Keepalive, OwnerTypeOK
<1>12. CASE Die
  <2>1. client' \in Clients BY <1>12, <1>c, <1>n, ClientSteps DEF Die, Close, Moved, Places
  <2>2. intent' = intent BY <1>12 DEF Die, Close
  <2> QED BY <1>12, <1>i, <1>f, <2>1, <2>2 DEF Die, OwnerTypeOK
<1>13. CASE Offer
  <2>1. intent' \in Intents BY <1>13, <1>i, IntentSteps DEF Offer
  <2> QED BY <1>13, <1>c, <1>f, <2>1 DEF Offer, OwnerTypeOK
<1>14. CASE Withdraw
  <2>1. intent' \in Intents BY <1>14, <1>i, IntentSteps DEF Withdraw
  <2> QED BY <1>14, <1>c, <1>f, <2>1 DEF Withdraw, OwnerTypeOK
<1>15. CASE Disconnected
  <2>1. intent' \in Intents BY <1>15, <1>i, IntentSteps DEF Disconnected
  <2> QED BY <1>15, <1>c, <1>f, <2>1 DEF Disconnected, OwnerTypeOK
<1>16. CASE Tick
  <2>1. intent' \in Intents
    <3>1. CASE intent.left <= 1 BY <1>16, <3>1, <1>i, IntentSteps DEF Tick
    <3>2. CASE ~(intent.left <= 1)
      <4>1. intent.left # 0 BY <3>2
      <4> QED BY <1>16, <3>2, <4>1, <1>i, IntentSteps DEF Tick
    <3> QED BY <3>1, <3>2
  <2> QED BY <1>16, <1>c, <1>f, <2>1 DEF Tick, OwnerTypeOK
<1>17. ASSUME NEW f \in flight, CarryOut(f) PROVE OwnerTypeOK'
  <2>1. PICK outcome \in {"clean", "unsure"} :
          /\ carried' = Append(carried, [request |-> f.request, session |-> f.session, outcome |-> outcome])
          /\ Answered(f, outcome)
    BY <1>17 DEF CarryOut
  <2>2. client' \in Clients BY <2>1, <1>c DEF Answered, Clients, Outcomes
  <2>3. [request |-> f.request, session |-> f.session, outcome |-> outcome] \in Done
    BY <1>f DEF Written, Done, Outcomes
  <2>4. carried' \in Seq(Done) BY <1>f, <2>1, <2>3
  <2>5. intent' = intent /\ flight' \subseteq flight BY <1>17 DEF CarryOut
  <2> QED BY <1>i, <1>f, <2>2, <2>4, <2>5 DEF OwnerTypeOK
<1>18. ASSUME NEW f \in flight, Decline(f) PROVE OwnerTypeOK'
  <2>1. client' \in Clients BY <1>18, <1>c DEF Decline, Answered, Clients, Outcomes
  <2> QED BY <1>18, <1>i, <1>f, <2>1 DEF Decline, OwnerTypeOK
<1>19. CASE UNCHANGED ownerVars BY <1>19 DEF ownerVars, OwnerTypeOK
<1> QED
  BY <1>1, <1>2, <1>3, <1>4, <1>5, <1>6, <1>7, <1>8, <1>9, <1>10, <1>11,
     <1>12, <1>13, <1>14,
     <1>15, <1>16, <1>17, <1>18, <1>19 DEF OwnerNext

-----------------------------------------------------------------------------
(* The invariant.                                                          *)

\* The invariant holds at first: nothing is in flight, nothing carried out.
LEMMA InitInv == ASSUME LimitsArePositive, OwnerInit PROVE OwnerInv
<1>1. OwnerTypeOK BY InitTypes
<1> QED BY <1>1 DEF OwnerInit, RequestInv, OwnerInv, InFlight, NotYetSent, Deciding, AnswerIsTrue, NothingAsked,
                    NothingTwice, AllClean, AllBelow

\* A step that carries nothing out keeps what was said about what was.
LEMMA SameCarried ==
  ASSUME UNCHANGED carried
  PROVE  /\ AllClean' <=> AllClean
         /\ \A r : AllBelow(r)' <=> AllBelow(r)
         /\ NothingTwice' <=> NothingTwice
BY DEF AllClean, AllBelow, NothingTwice

\* Carrying out a request appends it: what is in flight is the current request,
\* and everything before it was clean and of an earlier one.
LEMMA Appended ==
  ASSUME OwnerInv, NEW f \in flight, NEW outcome \in {"clean", "unsure"},
         carried' = Append(carried, [request |-> f.request, session |-> f.session, outcome |-> outcome])
  PROVE  /\ NothingTwice'
         /\ outcome = "clean" => AllClean'
         /\ \A i \in 1..Len(carried') : carried'[i].request < client.request + 1
<1>1. f.request = client.request /\ AllClean /\ AllBelow(client.request)
  BY DEF OwnerInv, RequestInv, InFlight
<1>2. client.request \in Nat /\ Len(carried) \in Nat
      /\ \A i \in 1..Len(carried) : carried[i].request \in Nat
  <2>1. client \in Clients /\ carried \in Seq(Done) BY DEF OwnerInv, OwnerTypeOK
  <2>2. \A i \in 1..Len(carried) : carried[i] \in Done BY <2>1
  <2> QED BY <2>1, <2>2 DEF Clients, Done, Numbers
<1>3. /\ Len(carried') = Len(carried) + 1
      /\ \A i \in 1..Len(carried) : carried'[i] = carried[i]
      /\ carried'[Len(carried) + 1] = [request |-> f.request, session |-> f.session, outcome |-> outcome]
  BY DEF OwnerInv, OwnerTypeOK
<1>4. \A i \in 1..Len(carried') : i \in 1..Len(carried) \/ i = Len(carried) + 1 BY <1>2, <1>3
<1>5. NothingTwice'
  <2> SUFFICES ASSUME NEW i \in 1..Len(carried'), NEW j \in 1..Len(carried'), i < j
               PROVE carried'[i].request < carried'[j].request /\ carried'[i].outcome = "clean"
    BY DEF NothingTwice
  <2>1. i \in 1..Len(carried) BY <1>2, <1>3
  <2>2. carried'[i].outcome = "clean" BY <2>1, <1>1, <1>3 DEF AllClean
  <2>3. CASE j \in 1..Len(carried)
    BY <2>1, <2>2, <2>3, <1>3 DEF OwnerInv, RequestInv, NothingTwice
  <2>4. CASE j = Len(carried) + 1
    BY <2>1, <2>2, <2>4, <1>1, <1>3 DEF AllBelow
  <2> QED BY <2>3, <2>4, <1>4
<1>6. outcome = "clean" => AllClean' BY <1>1, <1>3, <1>4 DEF AllClean
<1>7. \A i \in 1..Len(carried') : carried'[i].request < client.request + 1
  BY <1>1, <1>2, <1>3, <1>4 DEF AllBelow
<1> QED BY <1>5, <1>6, <1>7

\* Every step keeps the invariant.
LEMMA StepInv ==
  ASSUME LimitsArePositive, OwnerInv, [OwnerNext]_ownerVars
  PROVE  OwnerInv'
<1>t. OwnerTypeOK /\ OwnerTypeOK' BY StepTypes DEF OwnerInv
<1>c. client \in Clients BY <1>t DEF OwnerTypeOK
<1>r. client.request \in Nat BY <1>c DEF Clients, Numbers, LimitsArePositive
<1>n. intent.offer \in 0..MaxOffer /\ intent.session \in Sessions BY <1>t DEF OwnerTypeOK, Intents
<1>i. RequestInv BY DEF OwnerInv
<1> SUFFICES RequestInv' BY <1>t DEF OwnerInv
<1>1. CASE Plain
  <2>1. UNCHANGED carried BY <1>1 DEF Plain
  <2>2. Moved("asked", client.request, client.answer)
    BY <1>1, <1>c, <1>n, ClientSteps DEF Plain, Places
  <2>3. flight' = {[request |-> client.request, session |-> 0]}
    BY <1>1, <1>i DEF Plain, At, RequestInv, NothingAsked
  <2> QED BY <1>1, <1>i, <1>r, <2>1, <2>2, <2>3, SameCarried
       DEF Plain, At, Moved, RequestInv, InFlight, NotYetSent, Deciding, AnswerIsTrue, NothingAsked
<1>2. CASE Handoff
  <2>1. UNCHANGED <<flight, carried>> BY <1>2 DEF Handoff
  <2>2. \/ client.answer = "refused" /\ Moved("opening", client.request, client.answer)
        \/ Moved("over", client.request, client.answer)
    BY <1>2, <1>c, <1>n, ClientSteps DEF Handoff, HandsOver, Places
  <2> QED BY <1>2, <1>i, <1>r, <2>1, <2>2, SameCarried
       DEF Handoff, At, Moved, RequestInv, InFlight, NotYetSent, Deciding, AnswerIsTrue, NothingAsked
<1>3. CASE Open
  <2>1. UNCHANGED <<flight, carried>> BY <1>3 DEF Open
  <2>2. Moved("waiting", client.request, client.answer) \/ Moved("over", client.request, client.answer)
    BY <1>3, <1>c, <1>n, ClientSteps DEF Open, Close, Places
  <2> QED BY <1>3, <1>i, <1>r, <2>1, <2>2, SameCarried
       DEF Open, At, Moved, RequestInv, InFlight, NotYetSent, Deciding, AnswerIsTrue, NothingAsked
<1>4. CASE Wait
  <2>1. UNCHANGED <<flight, carried>> BY <1>4 DEF Wait
  <2>2. Moved("checking", client.request, client.answer) \/ Moved("accepting", client.request, client.answer) \/ Moved("over", client.request, client.answer)
    BY <1>4, <1>c, <1>n, ClientSteps DEF Wait, Close, Places
  <2> QED BY <1>4, <1>i, <1>r, <2>1, <2>2, SameCarried
       DEF Wait, At, Moved, RequestInv, InFlight, NotYetSent, Deciding, AnswerIsTrue, NothingAsked
<1>5. CASE Accept
  <2>1. UNCHANGED <<flight, carried>> BY <1>5 DEF Accept
  <2>2. Moved("checking", client.request, client.answer) \/ Moved("waiting", client.request, client.answer)
    BY <1>5, <1>c, <1>n, ClientSteps DEF Accept, Places
  <2> QED BY <1>5, <1>i, <1>r, <2>1, <2>2, SameCarried
       DEF Accept, At, Moved, RequestInv, InFlight, NotYetSent, Deciding, AnswerIsTrue, NothingAsked
<1>6. CASE Check
  <2>1. UNCHANGED <<flight, carried>> BY <1>6 DEF Check
  <2>2. Moved("calling", client.request, client.answer) \/ Moved("over", client.request, client.answer)
    BY <1>6, <1>c, <1>n, ClientSteps DEF Check, Close, Places
  <2> QED BY <1>6, <1>i, <1>r, <2>1, <2>2, SameCarried
       DEF Check, At, Moved, RequestInv, InFlight, NotYetSent, Deciding, AnswerIsTrue, NothingAsked
<1>7. CASE Call
  <2>1. UNCHANGED carried BY <1>7 DEF Call
  <2>2. Moved("sent", client.request, "none") BY <1>7, <1>c, ClientSteps DEF Call
  <2>3. flight = {} /\ AllClean /\ AllBelow(client.request)
    BY <1>7, <1>i DEF Call, At, RequestInv, InFlight, NotYetSent, Deciding
  <2>4. \A f \in flight' : f = [request |-> client.request, session |-> client.seen]
    BY <1>7, <2>3 DEF Call
  <2> QED BY <1>i, <2>1, <2>2, <2>3, <2>4, SameCarried DEF Moved, RequestInv, InFlight, NotYetSent, Deciding, AnswerIsTrue, NothingAsked
<1>8. CASE TakeAnswer
  <2>1. UNCHANGED <<flight, carried>> BY <1>8 DEF TakeAnswer
  <2>2. \/ client.answer = "clean" /\ Moved("checking", client.request + 1, client.answer)
        \/ Moved("settling", client.request, client.answer)
        \/ Moved("over", client.request, client.answer)
    BY <1>8, <1>c, ClientSteps DEF TakeAnswer, Continues, Close, Places
  <2>3. flight = {} BY <1>8, <1>i DEF TakeAnswer, At, RequestInv, InFlight
  <2>4. client.answer = "clean" => AllClean /\ AllBelow(client.request + 1)
    BY <1>8, <1>i DEF TakeAnswer, At, RequestInv, AnswerIsTrue
  <2> QED BY <1>i, <2>1, <2>2, <2>3, <2>4, SameCarried DEF Moved, RequestInv, InFlight, NotYetSent, Deciding, AnswerIsTrue, NothingAsked
<1>9. CASE EndedOwner
  <2>1. UNCHANGED <<flight, carried>> BY <1>9 DEF EndedOwner
  <2>2. Moved("over", client.request, client.answer)
    BY <1>9, <1>c, <1>n, ClientSteps DEF EndedOwner, Close, Places
  <2> QED BY <1>9, <1>i, <1>r, <2>1, <2>2, SameCarried
       DEF EndedOwner, At, Moved, RequestInv, InFlight, NotYetSent, Deciding, AnswerIsTrue, NothingAsked
<1>10. CASE GiveUp
  <2>1. UNCHANGED <<flight, carried>> BY <1>10 DEF GiveUp
  <2>2. Moved("over", client.request, client.answer)
    BY <1>10, <1>c, <1>n, ClientSteps DEF GiveUp, Close, Places
  <2> QED BY <1>10, <1>i, <1>r, <2>1, <2>2, SameCarried
       DEF GiveUp, At, Moved, RequestInv, InFlight, NotYetSent, Deciding, AnswerIsTrue, NothingAsked
<1>11. CASE Keepalive
  <2>1. UNCHANGED <<flight, carried>> BY <1>11 DEF Keepalive
  <2>2. client' = client \/ Moved("over", client.request, client.answer)
    BY <1>11, <1>c, ClientSteps DEF Keepalive, Close, Places
  <2> QED BY <1>11, <1>i, <1>r, <2>1, <2>2, SameCarried
       DEF Keepalive, Alive, Moved, RequestInv, InFlight, NotYetSent, Deciding, AnswerIsTrue, NothingAsked
<1>12. CASE Die
  <2>1. UNCHANGED <<flight, carried>> BY <1>12 DEF Die
  <2>2. Moved("over", client.request, client.answer)
    BY <1>12, <1>c, <1>n, ClientSteps DEF Die, Close, Places
  <2> QED BY <1>12, <1>i, <1>r, <2>1, <2>2, SameCarried
       DEF Die, At, Moved, RequestInv, InFlight, NotYetSent, Deciding, AnswerIsTrue, NothingAsked
<1>13. CASE Offer
  <2>1. UNCHANGED <<client, flight, carried>> BY <1>13 DEF Offer
  <2> QED BY <1>i, <2>1, SameCarried DEF RequestInv, InFlight, NotYetSent, Deciding, AnswerIsTrue, NothingAsked
<1>14. CASE Withdraw
  <2>1. UNCHANGED <<client, flight, carried>> BY <1>14 DEF Withdraw
  <2> QED BY <1>i, <2>1, SameCarried DEF RequestInv, InFlight, NotYetSent, Deciding, AnswerIsTrue, NothingAsked
<1>15. CASE Disconnected
  <2>1. UNCHANGED <<client, flight, carried>> BY <1>15 DEF Disconnected
  <2> QED BY <1>i, <2>1, SameCarried DEF RequestInv, InFlight, NotYetSent, Deciding, AnswerIsTrue, NothingAsked
<1>16. CASE Tick
  <2>1. UNCHANGED <<client, flight, carried>> BY <1>16 DEF Tick
  <2> QED BY <1>i, <2>1, SameCarried DEF RequestInv, InFlight, NotYetSent, Deciding, AnswerIsTrue, NothingAsked
<1>17. ASSUME NEW f \in flight, CarryOut(f) PROVE RequestInv'
  <2>1. PICK outcome \in {"clean", "unsure"} :
          /\ carried' = Append(carried, [request |-> f.request, session |-> f.session, outcome |-> outcome])
          /\ Answered(f, outcome)
    BY <1>17 DEF CarryOut
  <2>2. flight' = {} BY <1>17, <1>i DEF CarryOut, RequestInv, InFlight
  <2>3. client.at \in {"asked", "sent", "over"} /\ f.request = client.request
    BY <1>i DEF RequestInv, InFlight
  <2>4. client'.at = client.at /\ client'.request = client.request
        /\ (client.at # "over" => client'.answer = outcome)
    BY <2>1, <2>3, <1>c DEF Answered, Clients
  <2>5. NothingTwice' /\ (outcome = "clean" => AllClean')
        /\ \A i \in 1..Len(carried') : carried'[i].request < client.request + 1
    BY <2>1, Appended
  <2>6. AllBelow(client.request + 1)' BY <2>4, <2>5 DEF AllBelow
  <2>7. ~Deciding' /\ client'.at # "plain" BY <2>3, <2>4 DEF Deciding
  <2>8. AnswerIsTrue' BY <2>3, <2>4, <2>5, <2>6 DEF AnswerIsTrue
  <2> QED BY <2>2, <2>5, <2>7, <2>8 DEF RequestInv, InFlight, NotYetSent, NothingAsked
<1>18. ASSUME NEW f \in flight, Decline(f) PROVE RequestInv'
  <2>1. UNCHANGED carried BY <1>18 DEF Decline
  <2>2. flight' = {} BY <1>18, <1>i DEF Decline, RequestInv, InFlight
  <2>3. client.at \in {"asked", "sent", "over"} /\ AllClean /\ AllBelow(client.request)
    BY <1>i DEF RequestInv, InFlight
  <2>4. client'.at = client.at /\ client'.request = client.request /\ (client.at # "over" => client'.answer = "refused")
    BY <1>18, <2>3, <1>c, <1>i DEF Decline, Answered, Clients, RequestInv, InFlight
  <2> QED BY <2>1, <2>2, <2>3, <2>4, <1>i, SameCarried
       DEF RequestInv, InFlight, NotYetSent, Deciding, AnswerIsTrue, NothingAsked
<1>19. CASE UNCHANGED ownerVars
  BY <1>19, <1>i DEF ownerVars, RequestInv, InFlight, NotYetSent, Deciding, AnswerIsTrue, NothingAsked,
                        NothingTwice, AllClean, AllBelow
<1> QED
  BY <1>1, <1>2, <1>3, <1>4, <1>5, <1>6, <1>7, <1>8, <1>9, <1>10, <1>11, <1>12, <1>13, <1>14,
     <1>15, <1>16, <1>17, <1>18, <1>19 DEF OwnerNext

-----------------------------------------------------------------------------

\* The owner of a control intent keeps its session, offer, lease, request and
\* answer in range, whatever the provider does.
THEOREM OwnerTypesAreKept == ASSUME LimitsArePositive PROVE OwnerSpec => []OwnerTypeOK
<1>1. OwnerInit => OwnerTypeOK BY InitTypes
<1>2. OwnerTypeOK /\ [OwnerNext]_ownerVars => OwnerTypeOK' BY StepTypes
<1> QED BY <1>1, <1>2, PTL DEF OwnerSpec

\* Of a stream of any length, over any number of sessions, offers and renewals,
\* no request is carried out twice, none after a later one, and nothing after a
\* request whose effect is in doubt: not when a plain request was refused and
\* handed to a session, and not when the client gave up or died before the
\* provider carried it out.
THEOREM NothingIsDoneTwice == ASSUME LimitsArePositive PROVE OwnerSpec => []NothingTwice
<1>1. OwnerInit => OwnerInv BY InitInv
<1>2. OwnerInv /\ [OwnerNext]_ownerVars => OwnerInv' BY StepInv
<1>3. OwnerInv => NothingTwice BY DEF OwnerInv, RequestInv
<1> QED BY <1>1, <1>2, <1>3, PTL DEF OwnerSpec

-----------------------------------------------------------------------------
(* The guarded channel.                                                    *)

Numbered == [id : Thread \X Nat, number : Nat]
Replies == [id : Thread \X Nat, answer : Answers]
Mails == {"none", "failed"} \union Answers

\* What a session is made of.  The counters are not bounded here: that is a
\* matter of how often each thread calls.
ChannelShape ==
  /\ call \in [Thread -> [at : {"idle", "registered", "sent"}, n : Nat, mail : Mails]]
  /\ chan \in [pending : SUBSET (Thread \X Nat), failed : BOOLEAN, stopped : BOOLEAN,
               reading : BOOLEAN, open : BOOLEAN, sequence : Nat]
  /\ adapter \in [up : BOOLEAN, input : Seq(Numbered), output : Seq(Replies), last : Nat]

\* The calls a failure wakes are those that wait: the pending ones.
Waits(t) == call[t].at # "idle" /\ call[t].mail = "none"
PendingAreWaiting ==
  \A t \in Thread, n \in Nat : <<t, n>> \in chan.pending <=> n = call[t].n /\ Waits(t)

\* The numbers given out are those the adapter has served or has before it.
EveryNumberIsWritten == chan.sequence = adapter.last + Len(adapter.input)

ChannelInv ==
  /\ ChannelShape /\ PendingAreWaiting /\ EveryNumberIsWritten
  /\ FailureReachesEveryCall /\ NumbersAreInOrder

\* The parts of the session a step has to do with.
LEMMA Shapes ==
  ASSUME ChannelShape
  PROVE  /\ \A t \in Thread : call[t] = [at |-> call[t].at, n |-> call[t].n, mail |-> call[t].mail]
         /\ \A t \in Thread : call[t].n \in Nat /\ call[t].mail \in Mails
         /\ chan.pending \subseteq Thread \X Nat /\ chan.sequence \in Nat
         /\ adapter.input \in Seq(Numbered) /\ adapter.output \in Seq(Replies) /\ adapter.last \in Nat
BY DEF ChannelShape

\* What a failure does to a session: nobody is pending, everybody is told.
LEMMA FailedTellsAll ==
  ASSUME ChannelInv
  PROVE  /\ Failed(chan) \in [pending : {{}}, failed : {TRUE}, stopped : {chan.stopped},
                              reading : {chan.reading}, open : {chan.open}, sequence : {chan.sequence}]
         /\ Woken \in [Thread -> [at : {"idle", "registered", "sent"}, n : Nat, mail : Mails]]
         /\ \A t \in Thread : Woken[t].at # "idle" => Woken[t].mail # "none"
<1>1. chan \in [pending : SUBSET (Thread \X Nat), failed : BOOLEAN, stopped : BOOLEAN,
               reading : BOOLEAN, open : BOOLEAN, sequence : Nat] BY DEF ChannelInv, ChannelShape
<1>2. Failed(chan) \in [pending : {{}}, failed : {TRUE}, stopped : {chan.stopped},
                        reading : {chan.reading}, open : {chan.open}, sequence : {chan.sequence}]
  BY <1>1 DEF Failed
<1>3. ASSUME NEW t \in Thread
      PROVE  /\ Woken[t] \in [at : {"idle", "registered", "sent"}, n : Nat, mail : Mails]
             /\ Woken[t].at # "idle" => Woken[t].mail # "none"
  <2>1. call[t] \in [at : {"idle", "registered", "sent"}, n : Nat, mail : Mails]
    BY DEF ChannelInv, ChannelShape
  <2>2. Id(t) \in chan.pending <=> Waits(t) BY <2>1 DEF ChannelInv, PendingAreWaiting, Id
  <2>3. Woken[t] = IF Id(t) \in chan.pending THEN [call[t] EXCEPT !.mail = "failed"] ELSE call[t]
    BY DEF Woken
  <2>4. CASE Waits(t) BY <2>1, <2>2, <2>3, <2>4 DEF Mails
  <2>5. CASE ~Waits(t) BY <2>1, <2>2, <2>3, <2>5 DEF Waits
  <2> QED BY <2>4, <2>5
<1>4. Woken \in [Thread -> [at : {"idle", "registered", "sent"}, n : Nat, mail : Mails]]
  BY <1>3 DEF Woken
<1> QED BY <1>2, <1>3, <1>4

\* A step that fails the session keeps the invariant, whatever calls come to
\* rest in it and whether the reader goes on.
LEMMA FailureKeeps ==
  ASSUME ChannelInv,
         chan' \in [pending : {{}}, failed : {TRUE}, stopped : BOOLEAN,
                    reading : BOOLEAN, open : BOOLEAN, sequence : {chan.sequence}],
         call' \in [Thread -> [at : {"idle", "registered", "sent"}, n : Nat, mail : Mails]],
         \A t \in Thread : call'[t].at # "idle" => call'[t].mail # "none",
         adapter' \in [up : BOOLEAN, input : {adapter.input}, output : Seq(Replies), last : {adapter.last}]
  PROVE  ChannelInv'
<1>1. ChannelShape' BY DEF ChannelInv, ChannelShape
<1>2. PendingAreWaiting' BY DEF PendingAreWaiting, Waits
<1>3. EveryNumberIsWritten' BY DEF ChannelInv, EveryNumberIsWritten
<1>4. FailureReachesEveryCall' BY DEF FailureReachesEveryCall
<1>5. NumbersAreInOrder' BY DEF ChannelInv, NumbersAreInOrder
<1> QED BY <1>1, <1>2, <1>3, <1>4, <1>5 DEF ChannelInv

\* The session of a new adapter.
LEMMA ChannelStarts == ASSUME ChannelInit PROVE ChannelInv
<1>1. ChannelShape BY DEF ChannelInit, ChannelShape, Idle, Mails
<1> QED BY <1>1 DEF ChannelInit, ChannelInv, PendingAreWaiting, Waits, EveryNumberIsWritten,
                    FailureReachesEveryCall, NumbersAreInOrder, Idle

\* A step of one thread that leaves the adapter's queue alone: the call moves
\* on, and it is pending exactly when it waits.
LEMMA OneCallMoves ==
  ASSUME ChannelInv, NEW t \in Thread, NEW c \in [at : {"idle", "registered", "sent"}, n : Nat, mail : Mails],
         call' = [call EXCEPT ![t] = c],
         chan' \in [pending : SUBSET (Thread \X Nat), failed : {chan.failed}, stopped : BOOLEAN,
                    reading : BOOLEAN, open : BOOLEAN, sequence : {chan.sequence}],
         \A u \in Thread, n \in Nat : u # t => (<<u, n>> \in chan'.pending <=> <<u, n>> \in chan.pending),
         \A n \in Nat : <<t, n>> \in chan'.pending <=> n = c.n /\ c.at # "idle" /\ c.mail = "none",
         chan.failed => (c.at # "idle" => c.mail # "none"),
         adapter' \in [up : BOOLEAN, input : {adapter.input}, output : Seq(Replies), last : {adapter.last}]
  PROVE  ChannelInv'
<1>0. call'[t] = c /\ \A u \in Thread : u # t => call'[u] = call[u]
  BY DEF ChannelInv, ChannelShape
<1>1. ChannelShape' BY DEF ChannelInv, ChannelShape
<1>2. PendingAreWaiting'
  <2> SUFFICES ASSUME NEW u \in Thread, NEW n \in Nat
               PROVE  <<u, n>> \in chan'.pending <=> n = call'[u].n /\ call'[u].at # "idle" /\ call'[u].mail = "none"
    BY DEF PendingAreWaiting, Waits
  <2>1. CASE u = t BY <2>1, <1>0
  <2>2. CASE u # t BY <2>2, <1>0 DEF ChannelInv, PendingAreWaiting, Waits
  <2> QED BY <2>1, <2>2
<1>3. EveryNumberIsWritten' BY DEF ChannelInv, EveryNumberIsWritten
<1>4. FailureReachesEveryCall' BY <1>0 DEF ChannelInv, FailureReachesEveryCall
<1>5. NumbersAreInOrder' BY DEF ChannelInv, NumbersAreInOrder
<1> QED BY <1>1, <1>2, <1>3, <1>4, <1>5 DEF ChannelInv

\* Every step of the callers, the reader, the adapter and the heartbeat keeps
\* the invariant.
LEMMA ChannelSteps ==
  ASSUME ChannelInv, [ChannelNext]_channelVars
  PROVE  ChannelInv'
<1>s. ChannelShape BY DEF ChannelInv
<1>k. chan \in [pending : SUBSET (Thread \X Nat), failed : BOOLEAN, stopped : BOOLEAN,
               reading : BOOLEAN, open : BOOLEAN, sequence : Nat]
      /\ adapter \in [up : BOOLEAN, input : Seq(Numbered), output : Seq(Replies), last : Nat]
  BY <1>s DEF ChannelShape
<1>p. PendingAreWaiting BY DEF ChannelInv
<1>f. FailureReachesEveryCall BY DEF ChannelInv
<1>a. adapter \in [up : BOOLEAN, input : {adapter.input}, output : Seq(Replies), last : {adapter.last}]
  BY <1>k
<1>q. adapter.input \in Seq(Numbered) /\ adapter.output \in Seq(Replies) /\ adapter.last \in Nat
  BY <1>s, Shapes
<1>1. ASSUME NEW t \in Thread, Register(t) PROVE ChannelInv'
  <2> DEFINE c == [at |-> "registered", n |-> call[t].n + 1, mail |-> "none"]
  <2>1. c \in [at : {"idle", "registered", "sent"}, n : Nat, mail : Mails] BY <1>s, Shapes DEF Mails
  <2>2. call' = [call EXCEPT ![t] = c] /\ chan' = [chan EXCEPT !.pending = @ \union {<<t, c.n>>}]
        /\ adapter' = adapter BY <1>1 DEF Register
  <2>3. chan'.pending = chan.pending \union {<<t, c.n>>} /\ ~chan.failed BY <1>1, <2>2, <1>k DEF Register
  <2>4. \A n \in Nat : <<t, n>> \notin chan.pending BY <1>1, <1>p DEF Register, PendingAreWaiting, Waits
  <2> HIDE DEF c
  <2>5. c.at = "registered" /\ c.mail = "none" /\ c.n \in Nat BY <2>1 DEF c
  <2>6. <<t, c.n>> \in Thread \X Nat BY <2>5
  <2>7. chan' \in [pending : SUBSET (Thread \X Nat), failed : {chan.failed}, stopped : BOOLEAN,
                  reading : BOOLEAN, open : BOOLEAN, sequence : {chan.sequence}]
    BY <1>k, <2>2, <2>6
  <2>8. \A u \in Thread, n \in Nat : u # t => (<<u, n>> \in chan'.pending <=> <<u, n>> \in chan.pending)
    BY <2>3
  <2>9. \A n \in Nat : <<t, n>> \in chan'.pending <=> n = c.n /\ c.at # "idle" /\ c.mail = "none"
    BY <2>3, <2>4, <2>5
  <2>10. adapter' \in [up : BOOLEAN, input : {adapter.input}, output : Seq(Replies), last : {adapter.last}]
    BY <1>a, <2>2
  <2>11. call' = [call EXCEPT ![t] = c] BY <2>2
  <2>12. ~chan.failed BY <2>3
  <2> QED BY <2>1, <2>7, <2>8, <2>9, <2>10, <2>11, <2>12, OneCallMoves
<1>2. ASSUME NEW t \in Thread, TooLarge(t) PROVE ChannelInv'
  <2>1. Idle(call[t].n) \in [at : {"idle", "registered", "sent"}, n : Nat, mail : Mails]
    BY <1>s, Shapes DEF Idle, Mails
  <2>2. call' = [call EXCEPT ![t] = Idle(call[t].n)] /\ chan' = [chan EXCEPT !.pending = @ \ {Id(t)}]
        /\ adapter' = adapter BY <1>2 DEF TooLarge
  <2>3. chan'.pending = chan.pending \ {<<t, call[t].n>>} BY <2>2, <1>k DEF Id
  <2>4. \A n \in Nat : <<t, n>> \notin chan'.pending BY <2>3, <1>p DEF PendingAreWaiting
  <2>5. Idle(call[t].n).at = "idle" BY DEF Idle
  <2> QED BY <1>k, <1>a, <2>1, <2>2, <2>3, <2>4, <2>5, OneCallMoves
<1>3. ASSUME NEW t \in Thread, Write(t) PROVE ChannelInv'
  <2> DEFINE item == [id |-> Id(t), number |-> chan.sequence + 1]
  <2>1. call' = [call EXCEPT ![t] = [call[t] EXCEPT !.at = "sent"]]
        /\ chan' = [chan EXCEPT !.sequence = @ + 1]
        /\ adapter' = [adapter EXCEPT !.input = Append(@, item)] BY <1>3 DEF Write
  <2>2. item \in Numbered /\ item.number = chan.sequence + 1 BY <1>k, <1>s, Shapes DEF Numbered, Id
  <2> HIDE DEF item
  <2>12. Append(adapter.input, item) \in Seq(Numbered) BY <1>q, <2>2
  <2>3. adapter'.input = Append(adapter.input, item) /\ adapter'.last = adapter.last
        /\ adapter' \in [up : BOOLEAN, input : Seq(Numbered), output : Seq(Replies), last : Nat]
    BY <1>k, <2>1, <2>12
  <2>4. chan'.sequence = chan.sequence + 1 /\ chan'.pending = chan.pending /\ chan'.failed = chan.failed
    BY <1>k, <2>1
  <2>5. \A u \in Thread : call'[u].n = call[u].n /\ call'[u].mail = call[u].mail
                          /\ (call'[u].at = "idle" <=> call[u].at = "idle")
    BY <1>3, <1>s, <2>1 DEF ChannelShape, Write
  <2>6. ChannelShape'
    <3>1. [call[t] EXCEPT !.at = "sent"] \in [at : {"idle", "registered", "sent"}, n : Nat, mail : Mails]
      <4>1. call[t] \in [at : {"idle", "registered", "sent"}, n : Nat, mail : Mails] BY <1>s DEF ChannelShape
      <4> QED BY <4>1
    <3>2. call' \in [Thread -> [at : {"idle", "registered", "sent"}, n : Nat, mail : Mails]]
      BY <1>s, <2>1, <3>1 DEF ChannelShape
    <3>3. chan' \in [pending : SUBSET (Thread \X Nat), failed : BOOLEAN, stopped : BOOLEAN,
                    reading : BOOLEAN, open : BOOLEAN, sequence : Nat]
      <4>1. chan.sequence + 1 \in Nat BY <1>k
      <4>2. chan' = [chan EXCEPT !.sequence = chan.sequence + 1] BY <2>1
      <4> QED BY <1>k, <4>1, <4>2
    <3> QED BY <2>3, <3>2, <3>3 DEF ChannelShape
  <2>7. PendingAreWaiting' BY <1>p, <2>4, <2>5 DEF PendingAreWaiting, Waits
  <2>8. Len(adapter'.input) = Len(adapter.input) + 1 /\ Len(adapter.input) \in Nat
        /\ adapter'.input[Len(adapter.input) + 1] = item
        /\ \A i \in 1..Len(adapter.input) : adapter'.input[i] = adapter.input[i]
    BY <1>q, <2>2, <2>3
  <2>9. EveryNumberIsWritten' BY <1>k, <2>3, <2>4, <2>8 DEF ChannelInv, EveryNumberIsWritten
  <2>10. FailureReachesEveryCall' BY <1>f, <2>4, <2>5 DEF FailureReachesEveryCall
  <2>11. NumbersAreInOrder'
    <3> SUFFICES ASSUME NEW i \in 1..Len(adapter'.input) PROVE adapter'.input[i].number = adapter'.last + i
      BY DEF NumbersAreInOrder
    <3>1. CASE i \in 1..Len(adapter.input) BY <3>1, <2>3, <2>8 DEF ChannelInv, NumbersAreInOrder
    <3>2. CASE i = Len(adapter.input) + 1
      BY <3>2, <1>k, <2>2, <2>3, <2>8 DEF ChannelInv, EveryNumberIsWritten
    <3> QED BY <3>1, <3>2, <2>8
  <2> QED BY <2>6, <2>7, <2>9, <2>10, <2>11 DEF ChannelInv
<1>4. ASSUME NEW t \in Thread, GivesUp(t) PROVE ChannelInv'
  <2>1. chan' = Failed(chan) /\ call' = [Woken EXCEPT ![t] = Idle(call[t].n)] /\ adapter' = adapter
    BY <1>4 DEF GivesUp
  <2>2. Idle(call[t].n) \in [at : {"idle", "registered", "sent"}, n : Nat, mail : Mails]
        /\ Idle(call[t].n).at = "idle" BY <1>s, Shapes DEF Idle, Mails
  <2> QED BY <1>k, <1>a, <2>1, <2>2, FailedTellsAll, FailureKeeps
<1>5. ASSUME NEW t \in Thread, Return(t) PROVE ChannelInv'
  <2>1. Idle(call[t].n) \in [at : {"idle", "registered", "sent"}, n : Nat, mail : Mails]
        /\ Idle(call[t].n).at = "idle" BY <1>s, Shapes DEF Idle, Mails
  <2>2. \A n \in Nat : <<t, n>> \notin chan.pending BY <1>5, <1>p DEF Return, PendingAreWaiting, Waits
  <2> QED BY <1>k, <1>a, <1>5, <2>1, <2>2, OneCallMoves DEF Return
<1>6. CASE Read
  <2> DEFINE reply == Head(adapter.output)
             t == reply.id[1]
  <2>0. adapter.output # <<>> BY <1>6 DEF Read
  <2>1. reply \in Replies /\ Tail(adapter.output) \in Seq(Replies) BY <1>q, <2>0
  <2>2. t \in Thread /\ reply.id[2] \in Nat /\ reply.id = <<t, reply.id[2]>> /\ reply.answer \in Answers
    BY <2>1 DEF Replies
  <2>3. adapter' = [adapter EXCEPT !.output = Tail(adapter.output)] BY <1>6 DEF Read
  <2>4. adapter' \in [up : BOOLEAN, input : {adapter.input}, output : Seq(Replies), last : {adapter.last}]
    BY <1>k, <2>1, <2>3
  <2>5. CASE reply.id \in chan.pending
    <3> DEFINE c == [call[t] EXCEPT !.mail = reply.answer]
    <3>1. call' = [call EXCEPT ![t] = c] /\ chan' = [chan EXCEPT !.pending = @ \ {reply.id}]
      BY <1>6, <2>5 DEF Read
    <3>2. reply.id[2] = call[t].n /\ Waits(t)
      <4> DEFINE n == reply.id[2]
      <4>1. n \in Nat /\ <<t, n>> \in chan.pending BY <2>2, <2>5
      <4> HIDE DEF n, t, reply
      <4>2. n = call[t].n /\ Waits(t) BY <2>2, <4>1, <1>p DEF PendingAreWaiting
      <4> QED BY <4>2 DEF n
    <3>3. c \in [at : {"idle", "registered", "sent"}, n : Nat, mail : Mails] /\ c.mail = reply.answer
      <4>1. call[t] \in [at : {"idle", "registered", "sent"}, n : Nat, mail : Mails]
        BY <1>s, <2>2 DEF ChannelShape
      <4>2. reply.answer \in Mails BY <2>2 DEF Mails
      <4> HIDE DEF t, reply
      <4> QED BY <4>1, <4>2
    <3>4. chan'.pending = chan.pending \ {<<t, call[t].n>>} BY <1>k, <3>1, <3>2, <2>2
    <3>5. \A n \in Nat : <<t, n>> \notin chan'.pending BY <2>2, <3>4, <1>p DEF PendingAreWaiting
    <3>6. reply.answer # "none" BY <2>2 DEF Answers
    <3> HIDE DEF c, t, reply
    <3> QED BY <1>k, <2>2, <2>4, <3>1, <3>3, <3>4, <3>5, <3>6, OneCallMoves
  <2>6. CASE reply.id \notin chan.pending
    <3>1. chan' = [Failed(chan) EXCEPT !.reading = FALSE] /\ call' = Woken BY <1>6, <2>6 DEF Read
    <3> HIDE DEF t, reply
    <3> QED BY <1>k, <2>4, <3>1, FailedTellsAll, FailureKeeps
  <2> QED BY <2>5, <2>6
<1>7. CASE ReadEnds
  <2>1. adapter' = adapter BY <1>7 DEF ReadEnds
  <2>2. CASE chan.stopped
    <3>1. chan' = [chan EXCEPT !.reading = FALSE] /\ call' = call BY <1>7, <2>2 DEF ReadEnds
    <3> QED BY <1>s, <1>k, <2>1, <3>1
         DEF ChannelInv, ChannelShape, PendingAreWaiting, Waits, EveryNumberIsWritten, FailureReachesEveryCall,
             NumbersAreInOrder
  <2>3. CASE ~chan.stopped
    <3>1. chan' = [Failed(chan) EXCEPT !.reading = FALSE] /\ call' = Woken BY <1>7, <2>3 DEF ReadEnds
    <3> QED BY <1>k, <1>a, <2>1, <3>1, FailedTellsAll, FailureKeeps
  <2> QED BY <2>2, <2>3
<1>8. CASE Serve
  <2> DEFINE request == Head(adapter.input)
  <2>1. UNCHANGED <<call, chan>> BY <1>8 DEF Serve
  <2>0. adapter.input # <<>> BY <1>8 DEF Serve
  <2>2. adapter.input # <<>> /\ Len(adapter.input) \in Nat \ {0} BY <1>q, <2>0
  <2>3. request = adapter.input[1] /\ request \in Numbered /\ Tail(adapter.input) \in Seq(Numbered)
        /\ Len(Tail(adapter.input)) = Len(adapter.input) - 1
        /\ \A i \in 1..(Len(adapter.input) - 1) : Tail(adapter.input)[i] = adapter.input[i + 1]
    BY <1>q, <2>2
  <2>4. request.number = adapter.last + 1 BY <2>2, <2>3 DEF ChannelInv, NumbersAreInOrder
  <2>5. PICK a \in Answers :
          adapter' = [adapter EXCEPT !.input = Tail(adapter.input), !.last = request.number,
                        !.output = Append(adapter.output, [id |-> request.id, answer |-> a])]
    BY <1>8, <2>4 DEF Serve
  <2>6. [id |-> request.id, answer |-> a] \in Replies BY <2>3 DEF Numbered, Replies
  <2>11. Append(adapter.output, [id |-> request.id, answer |-> a]) \in Seq(Replies) BY <1>q, <2>6
  <2>7. adapter'.input = Tail(adapter.input) /\ adapter'.last = adapter.last + 1
        /\ adapter' \in [up : BOOLEAN, input : Seq(Numbered), output : Seq(Replies), last : Nat]
    <3> DEFINE input == Tail(adapter.input)
               output == Append(adapter.output, [id |-> request.id, answer |-> a])
    <3>1. adapter' = [adapter EXCEPT !.input = input, !.last = request.number, !.output = output] BY <2>5
    <3>2. input \in Seq(Numbered) /\ output \in Seq(Replies) BY <2>3, <2>11
    <3>3. request.number = adapter.last + 1 /\ adapter.last + 1 \in Nat BY <1>q, <2>4
    <3> HIDE DEF input, output, request
    <3>4. adapter'.input = input /\ adapter'.last = adapter.last + 1
          /\ adapter' \in [up : BOOLEAN, input : Seq(Numbered), output : Seq(Replies), last : Nat]
      BY <1>k, <3>1, <3>2, <3>3
    <3> QED BY <3>4 DEF input
  <2> HIDE DEF request
  <2>8. ChannelShape' BY <1>s, <2>1, <2>7 DEF ChannelShape
  <2>9. EveryNumberIsWritten' BY <1>k, <2>1, <2>2, <2>3, <2>7 DEF ChannelInv, EveryNumberIsWritten
  <2>10. NumbersAreInOrder'
    <3> SUFFICES ASSUME NEW i \in 1..Len(adapter'.input) PROVE adapter'.input[i].number = adapter'.last + i
      BY DEF NumbersAreInOrder
    <3>1. i + 1 \in 1..Len(adapter.input) /\ adapter'.input[i] = adapter.input[i + 1] BY <2>2, <2>3, <2>7
    <3>2. adapter.input[i + 1].number = adapter.last + (i + 1) BY <3>1 DEF ChannelInv, NumbersAreInOrder
    <3> QED BY <1>k, <2>7, <3>1, <3>2
  <2> QED BY <1>p, <1>f, <2>1, <2>8, <2>9, <2>10
       DEF ChannelInv, PendingAreWaiting, Waits, FailureReachesEveryCall
<1>9. CASE AdapterEnds
  BY <1>9, <1>s, <1>k DEF AdapterEnds, ChannelInv, ChannelShape, PendingAreWaiting, Waits, EveryNumberIsWritten,
     FailureReachesEveryCall, NumbersAreInOrder
<1>10. CASE Stop
  BY <1>10, <1>s, <1>k DEF Stop, ChannelInv, ChannelShape, PendingAreWaiting, Waits, EveryNumberIsWritten,
     FailureReachesEveryCall, NumbersAreInOrder
<1>11. CASE FailStopped
  BY <1>11, <1>k, <1>a, FailedTellsAll, FailureKeeps DEF FailStopped, Fail
<1>12. CASE ClosePipe
  BY <1>12, <1>s, <1>k DEF ClosePipe, ChannelInv, ChannelShape, PendingAreWaiting, Waits, EveryNumberIsWritten,
     FailureReachesEveryCall, NumbersAreInOrder
<1>13. CASE KeepaliveFails
  BY <1>13, <1>k, <1>a, FailedTellsAll, FailureKeeps DEF KeepaliveFails, Fail
<1>14. CASE UNCHANGED channelVars
  BY <1>14 DEF channelVars, ChannelInv, ChannelShape, PendingAreWaiting, Waits, EveryNumberIsWritten,
     FailureReachesEveryCall, NumbersAreInOrder
<1> QED
  BY <1>1, <1>2, <1>3, <1>4, <1>5, <1>6, <1>7, <1>8, <1>9, <1>10, <1>11, <1>12, <1>13, <1>14 DEF ChannelNext

\* Nobody waits for what cannot come, with any number of threads and of calls.
THEOREM FailuresReachEveryCall == ChannelSpec => []FailureReachesEveryCall
<1>1. ChannelInit => ChannelInv BY ChannelStarts
<1>2. ChannelInv /\ [ChannelNext]_channelVars => ChannelInv' BY ChannelSteps
<1>3. ChannelInv => FailureReachesEveryCall BY DEF ChannelInv
<1> QED BY <1>1, <1>2, <1>3, PTL DEF ChannelSpec

\* The adapter is never sent a number out of order.
THEOREM NumbersStayInOrder == ChannelSpec => []NumbersAreInOrder
<1>1. ChannelInit => ChannelInv BY ChannelStarts
<1>2. ChannelInv /\ [ChannelNext]_channelVars => ChannelInv' BY ChannelSteps
<1>3. ChannelInv => NumbersAreInOrder BY DEF ChannelInv
<1> QED BY <1>1, <1>2, <1>3, PTL DEF ChannelSpec

-----------------------------------------------------------------------------
(* Scoped runs.                                                            *)

Early == {"doctor", "status", "acquire"}
Underway == {"prepare", "launch", "running", "renewing"}

Runs == [mode : {"claim", "workspace", "queued"},
         at : Early \union Underway \union {"stopping", "release", "done"},
         claim : BOOLEAN, handle : BOOLEAN, signal : BOOLEAN, error : BOOLEAN, failedChild : BOOLEAN,
         claimCleanup : Cleanups, workspaceCleanup : Cleanups,
         child : {"none", "alive", "gone"}, left : Nat, renewIn : Nat, spent : Nat]
Holdings == [claim : BOOLEAN, workspace : BOOLEAN, left : Nat]

\* Only a step of the task's own has a child, and the claim it runs under.
ChildInv(r) ==
  /\ r.at \in Early \union {"prepare", "launch"} => r.child = "none"
  /\ r.at = "release" => r.child # "alive"
  /\ r.at \in Underway \union {"stopping"} => r.claim
  /\ r.at \in Early \union Underway => ~r.error

\* The margins of the lease: two thirds of the least one are left when the
\* renewal is due, and as much when it is given up; that is more than the
\* grace of the kill.
Margin == 6
LeaseInv(r) ==
  /\ r.at = "prepare" /\ r.renewIn > 0 => r.left >= r.renewIn + Margin
  /\ r.at = "launch" => r.left >= r.renewIn + Margin
  /\ r.at = "running" /\ r.child = "alive" => r.left >= r.renewIn + Margin
  /\ r.at = "renewing" /\ r.child = "alive" => r.left >= Margin
  /\ r.at = "stopping" /\ r.child = "alive" => r.left + r.spent >= Margin /\ r.spent <= Grace

\* What the provider holds for the run.
HoldingInv(r, h) ==
  /\ r.mode # "queued" /\ (r.child = "alive" \/ r.at \in Underway) => h.claim
  /\ h.workspace => r.mode = "workspace"
  /\ r.at \in Early => ~h.claim /\ ~h.workspace
  /\ r.at = "release" /\ ~r.error /\ ~r.claim => ~h.claim /\ ~h.workspace
  /\ r.at = "done" /\ ~r.error => ~h.claim /\ ~h.workspace

RunSound(r, h) == r \in Runs /\ h \in Holdings /\ ChildInv(r) /\ LeaseInv(r) /\ HoldingInv(r, h)
RunInv == RunSound(run, held)

\* The fields a cleanup and a lease change keep the run a run.
LEMMA RunsStayRuns ==
  ASSUME NEW r \in Runs
  PROVE  \A place \in {"stopping", "release"} : [r EXCEPT !.at = place, !.spent = 0] \in Runs
BY DEF Runs

\* A lease moves a run on, and not out of its shape.
LEMMA LeasedRunsAreRuns ==
  ASSUME NEW r \in Runs, NEW n \in Nat, NEW third \in Nat
  PROVE  [r EXCEPT !.claim = TRUE, !.left = n, !.renewIn = third, !.spent = 0] \in Runs
BY DEF Runs

\* Turning to the cleanup is sound while the child, if any, has its margin.
LEMMA CleaningIsSound ==
  ASSUME NEW r \in Runs, NEW h \in Holdings,
         r.child = "alive" => r.left >= Margin /\ r.claim,
         r.child = "alive" /\ r.mode # "queued" => h.claim,
         h.workspace => r.mode = "workspace",
         ~r.error /\ ~r.claim => ~h.claim /\ ~h.workspace
  PROVE  RunSound(Cleaning(r), h)
<1>1. CASE r.child = "alive"
  <2>1. Cleaning(r) = [r EXCEPT !.at = "stopping", !.spent = 0] BY <1>1 DEF Cleaning
  <2> DEFINE c == Cleaning(r)
  <2>2. c \in Runs BY <2>1, RunsStayRuns
  <2>3. /\ c.at = "stopping" /\ c.claim = r.claim /\ c.child = r.child /\ c.mode = r.mode
        /\ c.left = r.left /\ c.spent = 0
    BY <2>1 DEF Runs
  <2> HIDE DEF c
  <2>4. ChildInv(c) BY <1>1, <2>3 DEF ChildInv, Early, Underway
  <2>5. LeaseInv(c) BY <1>1, <2>2, <2>3 DEF Runs, LeaseInv, Grace, Margin
  <2>6. HoldingInv(c, h) BY <1>1, <2>3 DEF HoldingInv, Early, Underway
  <2> QED BY <2>2, <2>4, <2>5, <2>6 DEF RunSound, c
<1>2. CASE r.child # "alive"
  <2>1. Cleaning(r) = [r EXCEPT !.at = "release", !.spent = 0] BY <1>2 DEF Cleaning
  <2> DEFINE c == Cleaning(r)
  <2>2. c \in Runs BY <2>1, RunsStayRuns
  <2>3. /\ c.at = "release" /\ c.claim = r.claim /\ c.child = r.child /\ c.mode = r.mode /\ c.error = r.error
    BY <2>1 DEF Runs
  <2> HIDE DEF c
  <2>4. ChildInv(c) BY <1>2, <2>3 DEF ChildInv, Early, Underway
  <2>5. LeaseInv(c) BY <1>2, <2>3 DEF LeaseInv
  <2>6. HoldingInv(c, h) BY <1>2, <2>3 DEF HoldingInv, Early, Underway
  <2> QED BY <2>2, <2>4, <2>5, <2>6 DEF RunSound, c
<1> QED BY <1>1, <1>2

\* So is an error.
LEMMA ErrorIsSound ==
  ASSUME NEW r \in Runs, NEW h \in Holdings,
         r.child = "alive" => r.left >= Margin /\ r.claim,
         r.child = "alive" /\ r.mode # "queued" => h.claim,
         h.workspace => r.mode = "workspace"
  PROVE  RunSound(Error(r), h)
<1> DEFINE e == [r EXCEPT !.error = TRUE]
<1>1. e \in Runs /\ e.child = r.child /\ e.left = r.left /\ e.claim = r.claim /\ e.mode = r.mode /\ e.error = TRUE
  BY DEF Runs
<1> HIDE DEF e
<1>2. RunSound(Cleaning(e), h) BY <1>1, CleaningIsSound
<1> QED BY <1>2 DEF Error, e

\* An error, and any other way into the cleanup, is sound wherever it happens.
LEMMA ErrorsAreSound ==
  ASSUME RunInv, run.at \notin {"stopping", "release", "done"}
  PROVE  RunSound(Error(run), held)
BY ErrorIsSound DEF RunInv, RunSound, Runs, ChildInv, LeaseInv, HoldingInv, Early, Underway, Margin

\* A run starts with nothing.
LEMMA StartSound == ASSUME ModesAreKnown, RunInit PROVE RunInv
<1>1. PICK m \in Modes :
        run = [mode |-> m, at |-> "doctor", claim |-> FALSE, handle |-> FALSE,
               signal |-> FALSE, error |-> FALSE, failedChild |-> FALSE,
               claimCleanup |-> "not_acquired", workspaceCleanup |-> "not_acquired",
               child |-> "none", left |-> 0, renewIn |-> 0, spent |-> 0]
  BY DEF RunInit
<1>2. m \in {"claim", "workspace", "queued"} BY DEF ModesAreKnown
<1>3. run \in Runs BY <1>1, <1>2 DEF Runs, Early, Cleanups
<1>4. held = [claim |-> FALSE, workspace |-> FALSE, left |-> 0] BY DEF RunInit
<1>5. held \in Holdings BY <1>4 DEF Holdings
<1> QED BY <1>1, <1>3, <1>4, <1>5 DEF RunInv, RunSound, ChildInv, LeaseInv, HoldingInv, Early, Underway

\* A lease that is long enough gives the margins; one that is not is an error.
LEMMA LeasedIsSound ==
  ASSUME NEW r \in Runs, NEW h \in Holdings, NEW n \in Nat,
         r.at \in {"prepare", "launch", "running"}, r.at # "running" => r.child = "none",
         ~r.error, h.claim, h.workspace => r.mode = "workspace",
         r.child = "alive" => r.left >= Margin
  PROVE  RunSound(Leased(r, n), h)
<1> DEFINE c == [r EXCEPT !.claim = TRUE]
<1>1. c \in Runs /\ c.child = r.child /\ c.left = r.left /\ c.claim = TRUE /\ c.mode = r.mode
  BY DEF Runs
<1>2. CASE n < MinLease
  <2> HIDE DEF c
  <2>1. RunSound(Error(c), h) BY <1>1, ErrorIsSound
  <2> QED BY <1>2, <2>1 DEF Leased, c
<1>3. CASE ~(n < MinLease)
  <2>1. Leased(r, n) = [r EXCEPT !.claim = TRUE, !.left = n, !.renewIn = n \div 3, !.spent = 0]
    BY <1>3 DEF Leased
  <2>2. n \div 3 \in Nat /\ n >= (n \div 3) + Margin BY <1>3 DEF MinLease, Margin
  <2> DEFINE third == n \div 3
  <2> HIDE DEF third
  <2>3. Leased(r, n) = [r EXCEPT !.claim = TRUE, !.left = n, !.renewIn = third, !.spent = 0] BY <2>1 DEF third
  <2>4. third \in Nat /\ n >= third + Margin BY <2>2 DEF third
  <2>11. [r EXCEPT !.claim = TRUE, !.left = n, !.renewIn = third, !.spent = 0] \in Runs
    BY <2>4, LeasedRunsAreRuns
  <2>5. Leased(r, n) \in Runs BY <2>3, <2>11
  <2>6. LET l == Leased(r, n) IN
        /\ l.at = r.at /\ l.claim = TRUE /\ l.left = n /\ l.renewIn = third /\ l.error = r.error
        /\ l.child = r.child /\ l.mode = r.mode
    BY <2>3 DEF Runs
  <2> DEFINE l == Leased(r, n)
  <2> HIDE DEF l
  <2>7. /\ l.at = r.at /\ l.claim = TRUE /\ l.left = n /\ l.renewIn = third /\ l.error = r.error
        /\ l.child = r.child /\ l.mode = r.mode
    BY <2>6 DEF l
  <2>8. ChildInv(l) BY <2>7 DEF ChildInv, Early, Underway
  <2>9. LeaseInv(l) BY <2>4, <2>7 DEF LeaseInv
  <2>10. HoldingInv(l, h) BY <2>7 DEF HoldingInv, Early, Underway
  <2> QED BY <2>5, <2>8, <2>9, <2>10 DEF RunSound, l
<1> QED BY <1>2, <1>3

\* Every step of a run, one case each.
LEMMA StepsAreSound ==
  ASSUME LeasesAreNatural, RunInv, [RunNext]_runVars
  PROVE  RunInv'
<1> USE DEF RunInv
<1>r. run \in Runs /\ held \in Holdings BY DEF RunSound
<1>1. CASE Inspect
  <2>1. CASE run' = Error(run) BY <1>1, <2>1, ErrorsAreSound DEF Inspect, Nothing
  <2>2. CASE run.at = "doctor" /\ run' = [run EXCEPT !.at = "status"] /\ held' = held
    BY <2>2, <1>r DEF RunSound, Runs, ChildInv, LeaseInv, HoldingInv, Early, Underway, Margin
  <2>3. CASE run.at = "status" /\ run' = Cleaning(run) /\ held' = held
    BY <2>3, <1>r, CleaningIsSound DEF RunSound, ChildInv, LeaseInv, HoldingInv, Early, Underway
  <2>4. CASE /\ run.at = "status" /\ held' = held
             /\ run' = [run EXCEPT !.at = "acquire", !.claimCleanup = "unresolved",
                          !.workspaceCleanup = IF run.mode = "workspace" THEN "unresolved" ELSE @]
    BY <2>4, <1>r DEF RunSound, Runs, Cleanups, ChildInv, LeaseInv, HoldingInv, Early, Underway, Margin
  <2> QED BY <1>1, <2>1, <2>2, <2>3, <2>4 DEF Inspect, Nothing
<1>2. CASE AcquireAccepted
  <2> DEFINE r == [run EXCEPT !.at = "prepare", !.handle = run.mode = "workspace"]
  <2>1. PICK n \in Leases : held' = Acquired(n) /\ run' = Leased(r, n) BY <1>2 DEF AcquireAccepted
  <2>2. n \in Nat BY DEF LeasesAreNatural
  <2>3. run.child = "none" /\ ~run.error BY <1>2 DEF AcquireAccepted, RunSound, ChildInv, Early
  <2>4. r \in Runs /\ r.at = "prepare" /\ r.child = "none" /\ ~r.error /\ r.mode = run.mode
    BY <1>r, <2>3 DEF Runs, Underway
  <2>5. Acquired(n) \in Holdings /\ Acquired(n).claim /\ (Acquired(n).workspace => run.mode = "workspace")
    BY <2>2 DEF Acquired, Holdings
  <2> HIDE DEF r
  <2> QED BY <2>1, <2>2, <2>4, <2>5, LeasedIsSound
<1>3. CASE AcquireInvalid
  <2>1. PICK n \in Leases, claim \in BOOLEAN, handle \in BOOLEAN :
          held' = Acquired(n) /\ run' = Error([run EXCEPT !.claim = claim, !.handle = handle])
    BY <1>3 DEF AcquireInvalid
  <2> DEFINE r == [run EXCEPT !.claim = claim, !.handle = handle]
  <2>2. n \in Nat BY DEF LeasesAreNatural
  <2>3. run.child = "none" BY <1>3 DEF AcquireInvalid, RunSound, ChildInv, Early
  <2>4. r \in Runs /\ r.child = "none" /\ r.mode = run.mode BY <1>r, <2>3 DEF Runs
  <2>5. Acquired(n) \in Holdings /\ (Acquired(n).workspace => run.mode = "workspace")
    BY <2>2 DEF Acquired, Holdings
  <2> HIDE DEF r
  <2>6. RunSound(Error(r), Acquired(n)) BY <2>4, <2>5, ErrorIsSound
  <2> QED BY <2>1, <2>6 DEF r
<1>4. CASE AcquireRefused
  <2>1. CASE run' = Error(run) BY <1>4, <2>1, ErrorsAreSound DEF AcquireRefused, Nothing
  <2> DEFINE r == [run EXCEPT !.claimCleanup = "not_acquired", !.workspaceCleanup = "not_acquired"]
  <2>2. r \in Runs /\ r.child = run.child /\ r.mode = run.mode BY <1>r DEF Runs, Cleanups
  <2>3. run.child = "none" /\ (held.workspace => run.mode = "workspace")
    BY <1>4 DEF AcquireRefused, RunSound, ChildInv, HoldingInv, Early
  <2>4. CASE run' = Error(r)
    <3> HIDE DEF r
    <3>1. RunSound(Error(r), held) BY <1>r, <2>2, <2>3, ErrorIsSound
    <3> QED BY <1>4, <2>4, <3>1 DEF AcquireRefused, Nothing
  <2> QED BY <1>4, <2>1, <2>4 DEF AcquireRefused
<1>5. CASE AcquireLost
  <2>1. run' = Error(run) BY <1>5 DEF AcquireLost
  <2>2. held' = held \/ \E n \in Leases : held' = Acquired(n) BY <1>5 DEF AcquireLost, Nothing
  <2>3. held' \in Holdings /\ (held'.workspace => run.mode = "workspace")
    <3>1. CASE held' = held BY <3>1, <1>r DEF RunSound, HoldingInv
    <3>2. ASSUME NEW n \in Leases, held' = Acquired(n) PROVE held' \in Holdings /\ (held'.workspace => run.mode = "workspace")
      BY <3>2 DEF Acquired, Holdings, LeasesAreNatural
    <3> QED BY <2>2, <3>1, <3>2
  <2>4. run.child = "none" BY <1>5 DEF AcquireLost, RunSound, ChildInv, Early
  <2> QED BY <1>r, <2>1, <2>3, <2>4, ErrorIsSound
<1>6. CASE Prepare
  <2>0. run.at = "prepare" /\ held' = held BY <1>6 DEF Prepare, Nothing
  <2>1. CASE run' = Cleaning(run)
    BY <2>0, <2>1, <1>r, CleaningIsSound DEF RunSound, ChildInv, LeaseInv, HoldingInv, Early, Underway
  <2>2. CASE run' = [run EXCEPT !.at = "renewing", !.spent = 0]
    BY <2>0, <2>2, <1>r DEF RunSound, Runs, ChildInv, LeaseInv, HoldingInv, Early, Underway, Margin
  <2>3. CASE run.renewIn # 0 /\ run' = [run EXCEPT !.at = "launch"]
    BY <2>0, <2>3, <1>r DEF RunSound, Runs, ChildInv, LeaseInv, HoldingInv, Early, Underway, Margin
  <2> QED BY <1>6, <2>1, <2>2, <2>3 DEF Prepare
<1>7. CASE PrepareFails BY <1>7, ErrorsAreSound DEF PrepareFails, Nothing
<1>8. CASE Launch
  BY <1>8, <1>r DEF Launch, Nothing, RunSound, Runs, ChildInv, LeaseInv, HoldingInv, Early, Underway, Margin
<1>9. CASE ChildEnds
  <2>1. PICK failed \in BOOLEAN : run' = [run EXCEPT !.child = "gone", !.failedChild = failed]
    BY <1>9 DEF ChildEnds
  <2>2. run.child = "alive" /\ held' = held BY <1>9 DEF ChildEnds, Nothing
  <2>3. run' \in Runs BY <1>r, <2>1 DEF Runs
  <2>4. /\ run'.at = run.at /\ run'.claim = run.claim /\ run'.left = run.left /\ run'.renewIn = run.renewIn
        /\ run'.error = run.error /\ run'.child = "gone" /\ run'.mode = run.mode
    BY <1>r, <2>1 DEF Runs
  <2>5. ChildInv(run)' BY <2>2, <2>4 DEF RunSound, ChildInv
  <2>6. LeaseInv(run)' BY <2>4 DEF RunSound, LeaseInv
  <2>7. HoldingInv(run, held)' BY <2>2, <2>4 DEF RunSound, HoldingInv
  <2> QED BY <1>r, <2>2, <2>3, <2>5, <2>6, <2>7 DEF RunSound
<1>10. CASE Poll
  <2>0. run.at = "running" /\ held' = held BY <1>10 DEF Poll, Nothing
  <2>1. CASE run' = Cleaning(run)
    BY <2>0, <2>1, <1>r, CleaningIsSound DEF RunSound, Runs, ChildInv, LeaseInv, HoldingInv, Early, Underway, Margin
  <2>2. CASE run' = Error(run) BY <2>0, <2>2, ErrorsAreSound
  <2> QED BY <1>10, <2>1, <2>2 DEF Poll
<1>11. CASE RenewIsDue
  <2>1. run.at = "running" /\ run.renewIn = 0 /\ run.child = "alive" /\ held' = held
        /\ run' = [run EXCEPT !.at = "renewing", !.spent = 0]
    BY <1>11 DEF RenewIsDue, Nothing
  <2>2. run' \in Runs BY <1>r, <2>1 DEF Runs, Underway
  <2>3. /\ run'.at = "renewing" /\ run'.claim = run.claim /\ run'.left = run.left /\ run'.error = run.error
        /\ run'.child = run.child /\ run'.mode = run.mode /\ run.left \in Nat
    BY <1>r, <2>1 DEF Runs
  <2>4. ChildInv(run)' BY <2>1, <2>3 DEF RunSound, ChildInv, Early, Underway
  <2>5. LeaseInv(run)' BY <2>1, <2>3 DEF RunSound, LeaseInv, Margin
  <2>6. HoldingInv(run, held)' BY <2>1, <2>3 DEF RunSound, HoldingInv, Early, Underway
  <2> QED BY <1>r, <2>1, <2>2, <2>4, <2>5, <2>6 DEF RunSound
<1>12. CASE RenewAccepted
  <2> DEFINE r == [run EXCEPT !.at = IF run.child = "none" THEN "launch" ELSE "running"]
  <2>1. PICK n \in Leases : /\ run' = Leased(r, IF n > run.spent THEN n - run.spent ELSE 0)
                            /\ held' = [held EXCEPT !.left = n]
    BY <1>12 DEF RenewAccepted
  <2>2. run.at = "renewing" /\ held.claim BY <1>12 DEF RenewAccepted
  <2>3. r \in Runs /\ r.child = run.child /\ r.mode = run.mode /\ r.left = run.left /\ r.error = run.error
        /\ r.at = (IF run.child = "none" THEN "launch" ELSE "running")
    BY <1>r DEF Runs, Underway
  <2>4. n \in Nat /\ run.spent \in Nat BY <1>r DEF LeasesAreNatural, Runs
  <2>5. (IF n > run.spent THEN n - run.spent ELSE 0) \in Nat BY <2>4
  <2>6. held' \in Holdings /\ held'.claim /\ (held'.workspace => run.mode = "workspace")
    BY <1>r, <2>1, <2>2, <2>4 DEF Holdings, RunSound, HoldingInv
  <2>7. ~run.error /\ (run.child = "alive" => run.left >= Margin)
    BY <2>2 DEF RunSound, ChildInv, LeaseInv, Underway
  <2> HIDE DEF r
  <2> QED BY <2>1, <2>3, <2>5, <2>6, <2>7, LeasedIsSound
<1>13. CASE RenewFails BY <1>13, ErrorsAreSound DEF RenewFails, Nothing
<1>14. CASE Kill
  BY <1>14, <1>r DEF Kill, Nothing, RunSound, Runs, ChildInv, LeaseInv, HoldingInv, Early, Underway, Margin
<1>15. CASE TreeStopped
  BY <1>15, <1>r DEF TreeStopped, Nothing, RunSound, Runs, ChildInv, LeaseInv, HoldingInv, Early, Underway, Margin
<1>16. CASE StopFails
  BY <1>16, <1>r DEF StopFails, RunSound, Runs, Holdings, ChildInv, LeaseInv, HoldingInv, Early, Underway, Margin
<1>17. CASE ReleaseNothing
  BY <1>17, <1>r DEF ReleaseNothing, RunSound, Runs, Holdings, Cleanups, ChildInv, LeaseInv, HoldingInv, Early, Underway, Margin
<1>18. CASE Release
  <2> DEFINE cleanup == IF run.mode = "workspace" THEN "released" ELSE run.workspaceCleanup
  <2>1. /\ run' = [run EXCEPT !.at = "done", !.claimCleanup = "released", !.workspaceCleanup = cleanup]
        /\ held' = [held EXCEPT !.claim = FALSE, !.workspace = FALSE] /\ run.at = "release"
    BY <1>18 DEF Release
  <2>2. cleanup \in Cleanups BY <1>r DEF Runs, Cleanups
  <2> HIDE DEF cleanup
  <2>3. run' \in Runs BY <1>r, <2>1, <2>2 DEF Runs, Cleanups
  <2>4. run'.at = "done" /\ run'.child = run.child /\ run'.mode = run.mode BY <1>r, <2>1 DEF Runs
  <2>5. held' \in Holdings /\ ~held'.claim /\ ~held'.workspace BY <1>r, <2>1 DEF Holdings
  <2>6. run.child # "alive" BY <2>1 DEF RunSound, ChildInv
  <2> QED BY <2>3, <2>4, <2>5, <2>6 DEF RunSound, ChildInv, LeaseInv, HoldingInv, Early, Underway
<1>19. CASE ReleaseFails
  <2>1. run.at = "release" /\ run' = [run EXCEPT !.at = "done", !.error = TRUE] BY <1>19 DEF ReleaseFails
  <2>2. run' \in Runs BY <1>r, <2>1 DEF Runs
  <2>3. run'.at = "done" /\ run'.error = TRUE /\ run'.child = run.child /\ run'.mode = run.mode
    BY <1>r, <2>1 DEF Runs
  <2>4. held' = [held EXCEPT !.claim = run.mode # "queued" /\ held.claim]
        \/ held' = [held EXCEPT !.claim = FALSE, !.workspace = Releasable => FALSE]
    BY <1>19 DEF ReleaseFails
  <2>5. run.mode \in {"claim", "workspace", "queued"} /\ held.claim \in BOOLEAN /\ held.workspace \in BOOLEAN
    BY <1>r DEF Runs, Holdings
  <2>7. held' \in Holdings /\ (held'.workspace => run.mode = "workspace")
    <3>1. CASE held' = [held EXCEPT !.claim = run.mode # "queued" /\ held.claim]
      BY <3>1, <1>r DEF Holdings, RunSound, HoldingInv
    <3>2. CASE held' = [held EXCEPT !.claim = FALSE, !.workspace = Releasable => FALSE]
      BY <3>2, <1>19, <1>r DEF Holdings, Releasable, ReleaseFails
    <3> QED BY <2>4, <3>1, <3>2
  <2>8. run.child # "alive" BY <2>1 DEF RunSound, ChildInv
  <2> QED BY <2>2, <2>3, <2>7, <2>8 DEF RunSound, ChildInv, LeaseInv, HoldingInv, Early, Underway
<1>20. CASE Signal
  BY <1>20, <1>r DEF Signal, Nothing, RunSound, Runs, ChildInv, LeaseInv, HoldingInv, Early, Underway, Margin
<1>21. CASE AdmissionEnds
  BY <1>21, <1>r DEF AdmissionEnds, RunSound, Runs, Holdings, ChildInv, LeaseInv, HoldingInv, Early, Underway, Margin
<1>22. CASE TimePasses
  <2> DEFINE left == Less(run.left)
             renewIn == Less(run.renewIn)
             spent == IF run.at = "running" THEN 0 ELSE run.spent + 1
  <2>1. run' = [run EXCEPT !.left = left, !.renewIn = renewIn, !.spent = spent]
        /\ held' = [held EXCEPT !.left = Less(held.left)]
    BY <1>22 DEF TimePasses
  <2>2. /\ run.left \in Nat /\ run.renewIn \in Nat /\ run.spent \in Nat
        /\ left \in Nat /\ renewIn \in Nat /\ spent \in Nat
        /\ held.left \in Nat /\ Less(held.left) \in Nat
    BY <1>r DEF Runs, Holdings, Less
  <2>3. /\ left = IF run.left > 0 THEN run.left - 1 ELSE 0
        /\ renewIn = IF run.renewIn > 0 THEN run.renewIn - 1 ELSE 0
        /\ spent = IF run.at = "running" THEN 0 ELSE run.spent + 1
    BY DEF Less
  <2> HIDE DEF left, renewIn, spent
  <2>4. run' \in Runs /\ held' \in Holdings BY <1>r, <2>1, <2>2 DEF Runs, Holdings
  <2>5. /\ run'.at = run.at /\ run'.claim = run.claim /\ run'.error = run.error /\ run'.child = run.child
        /\ run'.mode = run.mode /\ run'.left = left /\ run'.renewIn = renewIn /\ run'.spent = spent
        /\ held'.claim = held.claim /\ held'.workspace = held.workspace
    BY <1>r, <2>1 DEF Runs, Holdings
  <2>6. ChildInv(run)' BY <2>5 DEF RunSound, ChildInv
  <2>7. HoldingInv(run, held)' BY <2>5 DEF RunSound, HoldingInv
  <2>8. LeaseInv(run)'
    <3>0. MayTakeTime BY <1>22 DEF TimePasses
    <3>1. CASE run.at = "prepare" BY <3>1, <2>2, <2>3, <2>5 DEF RunSound, LeaseInv, Margin
    <3>2. CASE run.at = "running" /\ run.renewIn > 0
      BY <3>2, <2>2, <2>3, <2>5 DEF RunSound, LeaseInv, Margin
    <3>3. CASE run.at = "renewing" /\ run.left + run.spent >= MinLease /\ run.spent < RenewTime
      <4>1. 3 * (run.spent + 1) <= run.left + run.spent BY <3>3, <2>2 DEF RenewTime
      <4>2. run.left - 1 >= Margin BY <3>3, <4>1, <2>2 DEF MinLease, Margin
      <4> QED BY <3>3, <4>2, <2>2, <2>3, <2>5 DEF LeaseInv, Margin
    <3>4. CASE run.at = "stopping" /\ run.spent < Grace
      BY <3>4, <2>2, <2>3, <2>5 DEF RunSound, LeaseInv, Margin, Grace
    <3> QED BY <3>0, <3>1, <3>2, <3>3, <3>4 DEF MayTakeTime
  <2> QED BY <2>4, <2>6, <2>7, <2>8 DEF RunSound
<1>23. CASE UNCHANGED runVars BY <1>23 DEF runVars
<1> QED
  BY <1>1, <1>2, <1>3, <1>4, <1>5, <1>6, <1>7, <1>8, <1>9, <1>10, <1>11, <1>12, <1>13, <1>14,
     <1>15, <1>16, <1>17, <1>18, <1>19, <1>20, <1>21, <1>22, <1>23 DEF RunNext, RunStep

\* What is true of a sound run.
LEMMA SoundRunsAreRight ==
  ASSUME RunInv
  PROVE  RunTypeOK /\ LeaseOutlivesTask /\ AuthorityOutlivesTask /\ CleanExitLeavesNothing
<1>1. RunSound(run, held) BY DEF RunInv
<1>2. RunTypeOK BY <1>1 DEF RunSound, Runs, Holdings, Early, Underway, RunTypeOK
<1>3. LeaseOutlivesTask
  <2>1. run \in Runs /\ ChildInv(run) /\ LeaseInv(run) BY <1>1 DEF RunSound
  <2>2. /\ run.at \in Early \union Underway \union {"stopping", "release", "done"}
        /\ run.left \in Nat /\ run.renewIn \in Nat /\ run.spent \in Nat
    BY <2>1 DEF Runs
  <2> QED BY <2>1, <2>2 DEF ChildInv, LeaseInv, LeaseOutlivesTask, Early, Underway, Margin, Grace
<1>4. AuthorityOutlivesTask BY <1>1 DEF RunSound, HoldingInv, AuthorityOutlivesTask
<1>5. CleanExitLeavesNothing BY <1>1 DEF RunSound, HoldingInv, CleanExitLeavesNothing
<1> QED BY <1>2, <1>3, <1>4, <1>5

\* Whatever way the steps of a run, its provider, its child and time take.
LEMMA RunIsSound == ASSUME LeasesAreNatural, ModesAreKnown PROVE RunSpec => []RunInv
<1>1. RunInit => RunInv BY StartSound
<1>2. RunInv /\ [RunNext]_runVars => RunInv' BY StepsAreSound
<1> QED BY <1>1, <1>2, PTL DEF RunSpec

\* Every field of a run and of what its provider holds for it keeps its range.
THEOREM RunTypesAreKept == ASSUME LeasesAreNatural, ModesAreKnown PROVE RunSpec => []RunTypeOK
<1>1. RunInv => RunTypeOK BY SoundRunsAreRight
<1> QED BY <1>1, RunIsSound, PTL

\* The task never runs on without its lease, whatever leases the provider
\* grants, however late a renewal comes and whatever it answers: renewal and
\* kill are due while more than the grace of the kill is left (scoped_run.py).
THEOREM TasksNeverOutliveTheirLease ==
  ASSUME LeasesAreNatural, ModesAreKnown PROVE RunSpec => []LeaseOutlivesTask
<1>1. RunInv => LeaseOutlivesTask BY SoundRunsAreRight
<1> QED BY <1>1, RunIsSound, PTL

\* No cleanup, on any path, releases the claim while its task may be alive.
THEOREM AuthorityIsHeldForTasks == ASSUME LeasesAreNatural, ModesAreKnown PROVE RunSpec => []AuthorityOutlivesTask
<1>1. RunInv => AuthorityOutlivesTask BY SoundRunsAreRight
<1> QED BY <1>1, RunIsSound, PTL

\* A run that ends well and says nothing is unresolved has left nothing behind,
\* also after answers that were lost and acquisitions that were refused late.
THEOREM CleanExitsLeaveNothing == ASSUME LeasesAreNatural, ModesAreKnown PROVE RunSpec => []CleanExitLeavesNothing
<1>1. RunInv => CleanExitLeavesNothing BY SoundRunsAreRight
<1> QED BY <1>1, RunIsSound, PTL

-----------------------------------------------------------------------------
(* The bounds of a channel: how many calls there are, and frames of them.  *)

Bounded == Thread \X (1..MaxCalls)
Frames == [id : Bounded, number : Nat]
BoundedReplies == [id : Bounded, answer : Answers]

\* The calls that have been written, or will not be any more.
Past == {w \in Bounded : \/ w[2] < call[w[1]].n
                         \/ w[2] = call[w[1]].n /\ call[w[1]].at # "registered"}

CallsInv ==
  /\ ChannelInv
  /\ \A t \in Thread : call[t].n <= MaxCalls /\ (call[t].at # "idle" => call[t].n > 0)
  /\ chan.sequence <= Cardinality(Past)
  /\ adapter.input \in Seq(Frames) /\ adapter.output \in Seq(BoundedReplies)

LEMMA BoundedIsFinite ==
  ASSUME CallsAreBounded
  PROVE  /\ IsFiniteSet(Bounded) /\ Cardinality(Bounded) = MaxCalls * Cardinality(Thread)
         /\ Cardinality(Bounded) \in Nat
         /\ \A S \in SUBSET Bounded : IsFiniteSet(S) /\ Cardinality(S) \in Nat /\ Cardinality(S) <= Cardinality(Bounded)
<1>1. IsFiniteSet(Thread) /\ Cardinality(Thread) \in Nat BY FS_CardinalityType DEF CallsAreBounded
<1>2. IsFiniteSet(1..MaxCalls) /\ Cardinality(1..MaxCalls) = MaxCalls BY FS_Interval DEF CallsAreBounded
<1>3. IsFiniteSet(Bounded) /\ Cardinality(Bounded) = Cardinality(Thread) * MaxCalls
  BY <1>1, <1>2, FS_Product DEF Bounded
<1>4. Cardinality(Thread) * MaxCalls = MaxCalls * Cardinality(Thread) BY <1>1 DEF CallsAreBounded
<1> QED BY <1>3, <1>4, FS_Subset, FS_CardinalityType

LEMMA CallsAreTypes == ASSUME CallsAreBounded, CallsInv PROVE ChannelTypeOK
<1>1. ChannelShape /\ PendingAreWaiting /\ EveryNumberIsWritten BY DEF CallsInv, ChannelInv
<1>2. call \in [Thread -> [at : {"idle", "registered", "sent"}, n : 0..MaxCalls,
                           mail : {"none", "failed"} \union Answers]]
  <2>1. ASSUME NEW t \in Thread
        PROVE  call[t] \in [at : {"idle", "registered", "sent"}, n : 0..MaxCalls, mail : {"none", "failed"} \union Answers]
    <3>1. call[t] \in [at : {"idle", "registered", "sent"}, n : Nat, mail : Mails] BY <1>1 DEF ChannelShape
    <3>2. call[t].n \in 0..MaxCalls BY <3>1 DEF CallsInv, CallsAreBounded
    <3> QED BY <3>1, <3>2 DEF Mails
  <2> QED BY <1>1, <2>1 DEF ChannelShape
<1>3. chan.pending \subseteq Bounded
  <2> SUFFICES ASSUME NEW w \in chan.pending PROVE w \in Bounded OBVIOUS
  <2>1. chan.pending \subseteq Thread \X Nat BY <1>1 DEF ChannelShape
  <2>2. PICK t \in Thread, n \in Nat : w = <<t, n>> BY <2>1
  <2>3. n = call[t].n /\ call[t].at # "idle" BY <1>1, <2>2 DEF PendingAreWaiting, Waits
  <2>4. n <= MaxCalls /\ n > 0 BY <2>3 DEF CallsInv
  <2> QED BY <2>2, <2>4 DEF Bounded, CallsAreBounded
<1>4. chan.sequence \in 0..(MaxCalls * Cardinality(Thread)) /\ chan.sequence \in Nat
  <2>1. Past \in SUBSET Bounded BY DEF Past
  <2>2. Cardinality(Past) \in Nat /\ Cardinality(Past) <= MaxCalls * Cardinality(Thread)
        /\ MaxCalls * Cardinality(Thread) \in Nat
    BY <2>1, BoundedIsFinite
  <2>3. chan.sequence \in Nat /\ chan.sequence <= Cardinality(Past) BY <1>1 DEF ChannelShape, CallsInv
  <2> QED BY <2>2, <2>3
<1>5. adapter.last \in 0..chan.sequence
  <2>1. adapter.last \in Nat /\ Len(adapter.input) \in Nat /\ chan.sequence = adapter.last + Len(adapter.input)
    BY <1>1 DEF ChannelShape, EveryNumberIsWritten
  <2> QED BY <2>1
<1>6. adapter.input \in Seq(Frames) /\ adapter.output \in Seq(BoundedReplies) BY DEF CallsInv
<1> QED BY <1>1, <1>2, <1>3, <1>4, <1>5, <1>6 DEF ChannelTypeOK, ChannelShape, Bounded, Frames, BoundedReplies

\* A call goes on as it is, is written or over, or is the next one.
CallGoesOn(t) ==
  \/ call'[t].n = call[t].n /\ call'[t].at = call[t].at
  \/ call'[t].n = call[t].n /\ call[t].at # "idle" /\ call'[t].at # "registered"
  \/ call'[t].n = call[t].n + 1 /\ call[t].at = "idle" /\ call[t].n < MaxCalls

LEMMA PastGrows ==
  ASSUME CallsAreBounded, CallsInv, ChannelInv', \A t \in Thread : CallGoesOn(t)
  PROVE  /\ \A t \in Thread : call'[t].n <= MaxCalls /\ (call'[t].at # "idle" => call'[t].n > 0)
         /\ Past \in SUBSET Past' /\ Past' \in SUBSET Bounded
         /\ Cardinality(Past) <= Cardinality(Past')
         /\ \A w \in Past' \ Past : Cardinality(Past) + 1 <= Cardinality(Past')
<1>t. \A t \in Thread : call[t].n \in Nat /\ call'[t].n \in Nat /\ call[t].at \in {"idle", "registered", "sent"}
  BY DEF CallsInv, ChannelInv, ChannelShape
<1>1. \A t \in Thread : call'[t].n <= MaxCalls /\ (call'[t].at # "idle" => call'[t].n > 0)
  BY <1>t DEF CallsAreBounded, CallsInv, CallGoesOn
<1>2. Past' = {w \in Bounded : \/ w[2] < call'[w[1]].n
                               \/ w[2] = call'[w[1]].n /\ call'[w[1]].at # "registered"}
  BY DEF Past, Bounded
<1>3. ASSUME NEW w \in Past PROVE w \in Past'
  <2>1. w \in Bounded /\ w[1] \in Thread /\ w[2] \in Nat BY DEF Past, Bounded, CallsAreBounded
  <2>2. w[2] < call[w[1]].n \/ (w[2] = call[w[1]].n /\ call[w[1]].at # "registered") BY DEF Past
  <2>3. CallGoesOn(w[1]) /\ call[w[1]].n \in Nat /\ call'[w[1]].n \in Nat BY <1>t, <2>1
  <2>4. w[2] < call'[w[1]].n \/ (w[2] = call'[w[1]].n /\ call'[w[1]].at # "registered")
    BY <2>1, <2>2, <2>3 DEF CallGoesOn
  <2> QED BY <1>2, <2>1, <2>4
<1>4. Past \in SUBSET Bounded /\ Past' \in SUBSET Bounded BY <1>2 DEF Past
<1>5. Past \in SUBSET Past' BY <1>3
<1>6. IsFiniteSet(Past') /\ IsFiniteSet(Past) /\ Cardinality(Past) \in Nat /\ Cardinality(Past') \in Nat
  BY <1>4, BoundedIsFinite
<1>7. Cardinality(Past) <= Cardinality(Past') BY <1>5, <1>6, FS_Subset
<1>8. ASSUME NEW w \in Past' \ Past PROVE Cardinality(Past) + 1 <= Cardinality(Past')
  <2>1. Cardinality(Past) # Cardinality(Past') BY <1>5, <1>6, <1>8, FS_Subset
  <2> QED BY <1>6, <1>7, <2>1
<1> QED BY <1>1, <1>4, <1>5, <1>7, <1>8

\* A failure wakes calls, and moves none of them.
LEMMA WokenStay ==
  ASSUME ChannelShape, NEW t \in Thread PROVE Woken[t].n = call[t].n /\ Woken[t].at = call[t].at
<1>1. call[t] \in [at : {"idle", "registered", "sent"}, n : Nat, mail : Mails] BY DEF ChannelShape
<1> QED BY <1>1 DEF Woken

LEMMA CallsGoOn ==
  ASSUME CallsInv, [ChannelNext]_channelVars
  PROVE  /\ \A t \in Thread : CallGoesOn(t)
         /\ chan'.sequence = chan.sequence \/ \E t \in Thread : Write(t)
<1>s. ChannelShape BY DEF CallsInv, ChannelInv
<1>k. chan \in [pending : SUBSET (Thread \X Nat), failed : BOOLEAN, stopped : BOOLEAN,
               reading : BOOLEAN, open : BOOLEAN, sequence : Nat] BY <1>s DEF ChannelShape
<1>c. \A t \in Thread : call[t] \in [at : {"idle", "registered", "sent"}, n : Nat, mail : Mails] BY <1>s DEF ChannelShape
<1>f. Failed(chan).sequence = chan.sequence /\ [Failed(chan) EXCEPT !.reading = FALSE].sequence = chan.sequence
  BY <1>k DEF Failed
<1>1. ASSUME NEW t \in Thread, Register(t) \/ TooLarge(t) \/ Return(t)
      PROVE  chan'.sequence = chan.sequence /\ \A u \in Thread : CallGoesOn(u)
  <2>1. chan'.sequence = chan.sequence BY <1>1, <1>k DEF Register, TooLarge, Return
  <2>2. ASSUME NEW u \in Thread, u # t PROVE CallGoesOn(u)
    BY <1>1, <1>s, <2>2 DEF Register, TooLarge, Return, CallGoesOn, ChannelShape
  <2>3. CallGoesOn(t)
    <3>1. CASE Register(t)
      <4>1. call'[t] = [at |-> "registered", n |-> call[t].n + 1, mail |-> "none"] BY <1>s, <3>1 DEF Register, ChannelShape
      <4> QED BY <3>1, <4>1 DEF Register, CallGoesOn
    <3>2. CASE TooLarge(t) \/ Return(t)
      <4>1. call'[t] = Idle(call[t].n) BY <1>s, <3>2 DEF TooLarge, Return, ChannelShape
      <4> QED BY <3>2, <4>1 DEF TooLarge, Return, CallGoesOn, Idle
    <3> QED BY <1>1, <3>1, <3>2
  <2> QED BY <2>1, <2>2, <2>3
<1>2. ASSUME NEW t \in Thread, Write(t) PROVE \A u \in Thread : CallGoesOn(u)
  <2>1. ASSUME NEW u \in Thread, u # t PROVE CallGoesOn(u) BY <1>2, <1>s, <2>1 DEF Write, CallGoesOn, ChannelShape
  <2>2. call'[t] = [call[t] EXCEPT !.at = "sent"] BY <1>2, <1>s DEF Write, ChannelShape
  <2>3. CallGoesOn(t)
    <3>1. call[t] \in [at : {"idle", "registered", "sent"}, n : Nat, mail : Mails] BY <1>c
    <3>2. call'[t].n = call[t].n /\ call'[t].at = "sent" BY <2>2, <3>1
    <3> QED BY <1>2, <3>2 DEF Write, CallGoesOn
  <2> QED BY <2>1, <2>3
<1>3. ASSUME NEW t \in Thread, GivesUp(t) PROVE chan'.sequence = chan.sequence /\ \A u \in Thread : CallGoesOn(u)
  <2>1. chan'.sequence = chan.sequence BY <1>3, <1>f DEF GivesUp
  <2>2. call' = [Woken EXCEPT ![t] = Idle(call[t].n)] /\ call[t].at # "idle" BY <1>3 DEF GivesUp
  <2>3. call'[t] = Idle(call[t].n) /\ \A u \in Thread : u # t => call'[u] = Woken[u] BY <2>2 DEF Woken
  <2>4. ASSUME NEW u \in Thread PROVE CallGoesOn(u)
    <3>1. CASE u = t BY <2>2, <2>3, <3>1 DEF CallGoesOn, Idle
    <3>2. CASE u # t BY <1>s, <2>3, <3>2, WokenStay DEF CallGoesOn
    <3> QED BY <3>1, <3>2
  <2> QED BY <2>1, <2>4
<1>w. ASSUME call' = Woken PROVE \A u \in Thread : CallGoesOn(u) BY <1>w, <1>s, WokenStay DEF CallGoesOn
<1>u. ASSUME call' = call PROVE \A u \in Thread : CallGoesOn(u) BY <1>u DEF CallGoesOn
<1>4. CASE Read
  <2> DEFINE reply == Head(adapter.output)
             t == reply.id[1]
  <2>1. CASE reply.id \notin chan.pending
    <3>1. call' = Woken /\ chan' = [Failed(chan) EXCEPT !.reading = FALSE] BY <1>4, <2>1 DEF Read
    <3> QED BY <1>f, <1>w, <3>1
  <2>2. CASE reply.id \in chan.pending
    <3>1. chan' = [chan EXCEPT !.pending = @ \ {reply.id}] /\ call' = [call EXCEPT ![t] = [call[t] EXCEPT !.mail = reply.answer]]
      BY <1>4, <2>2 DEF Read
    <3>2. chan'.sequence = chan.sequence BY <1>k, <3>1
    <3>3. ASSUME NEW u \in Thread PROVE CallGoesOn(u)
      <4>1. call[u] \in [at : {"idle", "registered", "sent"}, n : Nat, mail : Mails] BY <1>c
      <4> DEFINE a == reply.answer
      <4>2. call'[u] = IF u = t THEN [call[u] EXCEPT !.mail = a] ELSE call[u] BY <1>s, <3>1 DEF ChannelShape
      <4> HIDE DEF a, t, reply
      <4>3. call'[u].n = call[u].n /\ call'[u].at = call[u].at BY <4>1, <4>2
      <4> QED BY <4>3 DEF CallGoesOn
    <3> QED BY <3>2, <3>3
  <2> QED BY <2>1, <2>2
<1>5. CASE ReadEnds
  <2>1. call' = call \/ call' = Woken BY <1>5 DEF ReadEnds
  <2>2. chan'.sequence = chan.sequence BY <1>5, <1>k, <1>f DEF ReadEnds
  <2> QED BY <1>u, <1>w, <2>1, <2>2
<1>6. CASE Serve \/ AdapterEnds
  <2>1. call' = call /\ chan' = chan BY <1>6 DEF Serve, AdapterEnds
  <2> QED BY <1>u, <2>1
<1>7. CASE Stop \/ ClosePipe
  <2>1. call' = call BY <1>7 DEF Stop, ClosePipe
  <2>2. chan'.sequence = chan.sequence BY <1>7, <1>k DEF Stop, ClosePipe
  <2> QED BY <1>u, <2>1, <2>2
<1>8. CASE FailStopped \/ KeepaliveFails
  <2>1. call' = Woken /\ chan'.sequence = chan.sequence BY <1>8, <1>f DEF FailStopped, KeepaliveFails, Fail
  <2> QED BY <1>w, <2>1
<1>9. CASE UNCHANGED channelVars
  <2>1. call' = call /\ chan' = chan BY <1>9 DEF channelVars
  <2> QED BY <1>u, <2>1
<1> QED BY <1>1, <1>2, <1>3, <1>4, <1>5, <1>6, <1>7, <1>8, <1>9 DEF ChannelNext

\* What is between the session and the adapter is of its calls.
LEMMA FramesAreOfCalls ==
  ASSUME CallsAreBounded, CallsInv, [ChannelNext]_channelVars
  PROVE  adapter'.input \in Seq(Frames) /\ adapter'.output \in Seq(BoundedReplies)
<1>s. adapter \in [up : BOOLEAN, input : Seq(Numbered), output : Seq(Replies), last : Nat] /\ chan.sequence \in Nat
  BY DEF CallsInv, ChannelInv, ChannelShape
<1>q. adapter.input \in Seq(Frames) /\ adapter.output \in Seq(BoundedReplies) BY DEF CallsInv
<1>1. CASE UNCHANGED adapter BY <1>1, <1>q
<1>2. ASSUME NEW t \in Thread, Write(t) PROVE adapter'.input \in Seq(Frames) /\ adapter'.output \in Seq(BoundedReplies)
  <2> DEFINE f == [id |-> Id(t), number |-> chan.sequence + 1]
  <2>1. f \in Frames
    <3>1. call[t].n \in Nat /\ call[t].n <= MaxCalls /\ call[t].n > 0
      BY <1>2 DEF CallsInv, ChannelInv, ChannelShape, Write
    <3> QED BY <1>s, <3>1 DEF Frames, Bounded, Id, CallsAreBounded
  <2>2. adapter' = [adapter EXCEPT !.input = Append(adapter.input, f)] BY <1>2 DEF Write
  <2> HIDE DEF f
  <2>3. adapter'.input = Append(adapter.input, f) /\ adapter'.output = adapter.output BY <1>s, <2>2
  <2> QED BY <1>q, <2>1, <2>3
<1>3. CASE Read
  <2>1. adapter' = [adapter EXCEPT !.output = Tail(adapter.output)] /\ adapter.output # <<>> BY <1>3 DEF Read
  <2>2. adapter'.input = adapter.input /\ adapter'.output = Tail(adapter.output) BY <1>s, <2>1
  <2> QED BY <1>q, <2>1, <2>2
<1>4. CASE Serve
  <2>1. CASE adapter' = [adapter EXCEPT !.up = FALSE] BY <1>s, <1>q, <2>1
  <2>2. ASSUME NEW a \in Answers,
               adapter' = [adapter EXCEPT !.input = Tail(@), !.last = Head(adapter.input).number,
                             !.output = Append(@, [id |-> Head(adapter.input).id, answer |-> a])]
        PROVE  adapter'.input \in Seq(Frames) /\ adapter'.output \in Seq(BoundedReplies)
    <3> DEFINE h == Head(adapter.input)
               b == [id |-> h.id, answer |-> a]
    <3>1. adapter.input # <<>> BY <1>4 DEF Serve
    <3>2. h \in Frames /\ Tail(adapter.input) \in Seq(Frames) BY <1>q, <3>1
    <3>3. b \in BoundedReplies BY <3>2 DEF Frames, BoundedReplies
    <3>4. adapter' = [adapter EXCEPT !.input = Tail(adapter.input), !.last = h.number,
                        !.output = Append(adapter.output, b)] BY <2>2
    <3> HIDE DEF h, b
    <3>5. adapter'.input = Tail(adapter.input) /\ adapter'.output = Append(adapter.output, b) BY <1>s, <3>4
    <3> QED BY <1>q, <3>2, <3>3, <3>5
  <2> QED BY <1>4, <2>1, <2>2 DEF Serve
<1>5. CASE AdapterEnds
  <2>1. adapter' = [adapter EXCEPT !.up = FALSE] BY <1>5 DEF AdapterEnds
  <2> QED BY <1>s, <1>q, <2>1
<1>6. ASSUME NEW t \in Thread, Register(t) \/ TooLarge(t) \/ GivesUp(t) \/ Return(t) PROVE UNCHANGED adapter
  BY <1>6 DEF Register, TooLarge, GivesUp, Return
<1>7. CASE ReadEnds \/ Stop \/ FailStopped \/ ClosePipe \/ KeepaliveFails \/ UNCHANGED channelVars
  BY <1>1, <1>7 DEF ReadEnds, Stop, FailStopped, ClosePipe, KeepaliveFails, channelVars
<1> QED BY <1>1, <1>2, <1>3, <1>4, <1>5, <1>6, <1>7 DEF ChannelNext

\* Every call has one number at most, every frame and answer is of a call, and
\* the adapter has not seen more numbers than were given out (_rpc).
THEOREM ChannelTypesAreKept == ASSUME CallsAreBounded PROVE ChannelSpec => []ChannelTypeOK
<1>1. ASSUME ChannelInit PROVE CallsInv
  <2>1. ChannelInv BY <1>1, ChannelStarts
  <2>2. /\ \A t \in Thread : call[t] = Idle(0)
        /\ chan.sequence = 0 /\ adapter.input = <<>> /\ adapter.output = <<>>
    BY <1>1 DEF ChannelInit
  <2>3. Past \in SUBSET Bounded BY DEF Past
  <2>4. Cardinality(Past) \in Nat BY <2>3, BoundedIsFinite
  <2> QED BY <2>1, <2>2, <2>4 DEF CallsInv, Idle, CallsAreBounded
<1>2. ASSUME CallsInv, [ChannelNext]_channelVars PROVE CallsInv'
  <2>1. ChannelInv' BY <1>2, ChannelSteps DEF CallsInv
  <2>2. /\ \A t \in Thread : CallGoesOn(t)
        /\ chan'.sequence = chan.sequence \/ \E t \in Thread : Write(t)
    BY <1>2, CallsGoOn
  <2>3. /\ \A t \in Thread : call'[t].n <= MaxCalls /\ (call'[t].at # "idle" => call'[t].n > 0)
        /\ Past' \in SUBSET Bounded /\ Cardinality(Past) <= Cardinality(Past')
        /\ \A w \in Past' \ Past : Cardinality(Past) + 1 <= Cardinality(Past')
    BY <1>2, <2>1, <2>2, PastGrows
  <2>4. adapter'.input \in Seq(Frames) /\ adapter'.output \in Seq(BoundedReplies) BY <1>2, FramesAreOfCalls
  <2>5. /\ chan.sequence \in Nat /\ chan.sequence <= Cardinality(Past)
        /\ Cardinality(Past) \in Nat /\ Cardinality(Past') \in Nat
    <3>1. Past \in SUBSET Bounded BY DEF Past
    <3> QED BY <1>2, <2>3, <3>1, BoundedIsFinite DEF CallsInv, ChannelInv, ChannelShape
  <2>6. chan'.sequence <= Cardinality(Past')
    <3>1. CASE chan'.sequence = chan.sequence BY <2>3, <2>5, <3>1
    <3>2. ASSUME NEW t \in Thread, Write(t) PROVE chan'.sequence <= Cardinality(Past')
      <4> DEFINE w == <<t, call[t].n>>
      <4>1. /\ call[t] \in [at : {"idle", "registered", "sent"}, n : Nat, mail : Mails]
            /\ call[t].n <= MaxCalls /\ call[t].n > 0 /\ call[t].at = "registered"
        BY <1>2, <3>2 DEF CallsInv, ChannelInv, ChannelShape, Write
      <4>2. call'[t] = [call[t] EXCEPT !.at = "sent"]
        BY <1>2, <3>2 DEF CallsInv, ChannelInv, ChannelShape, Write
      <4>3. call'[t].n = call[t].n /\ call'[t].at = "sent" BY <4>1, <4>2
      <4>4. w \in Bounded BY <4>1 DEF Bounded, CallsAreBounded
      <4>5. w \in Past' BY <4>3, <4>4 DEF Past, Bounded
      <4>6. w \notin Past BY <4>1 DEF Past
      <4>7. chan' = [chan EXCEPT !.sequence = chan.sequence + 1] BY <3>2 DEF Write
      <4>8. chan'.sequence = chan.sequence + 1 BY <1>2, <4>7 DEF CallsInv, ChannelInv, ChannelShape
      <4> QED BY <2>3, <2>5, <4>5, <4>6, <4>8
    <3> QED BY <2>2, <3>1, <3>2
  <2> QED BY <2>1, <2>3, <2>4, <2>6 DEF CallsInv, Frames, BoundedReplies, Bounded, Answers
<1> QED BY <1>1, <1>2, CallsAreTypes, PTL DEF ChannelSpec
=============================================================================
