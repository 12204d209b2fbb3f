---------------------------- MODULE CoreHistory -----------------------------
(***************************************************************************)
(* ResidentCore with a record of the consent the operator gave to each     *)
(* profile.  The history only watches.                                     *)
(***************************************************************************)
EXTENDS CoreProperties

VARIABLE
  consent  \* [Profile -> [devtools or not -> time left of the longest consent
           \*  since the profile was last withdrawn and since the last Stop]]

Nothing == [devtools \in BOOLEAN |-> 0]

Longer(a, b) == IF a >= b THEN a ELSE b

HInit == Init /\ consent = [f \in Profile |-> Nothing]

\* A consent that includes the developer tools is also one without them.
ApproveH(S, d, devtools) ==
  /\ Approve(S, d, devtools)
  /\ consent' = [f \in Profile |-> [v \in BOOLEAN |->
       IF f \in S /\ (v => devtools) THEN Longer(consent[f][v], d) ELSE consent[f][v]]]

WithdrawH(f) == Withdraw(f) /\ consent' = [consent EXCEPT ![f] = Nothing]

StopH == Stop /\ consent' = [f \in Profile |-> Nothing]

PassH ==
  /\ Pass
  /\ consent' = [f \in Profile |-> [v \in BOOLEAN |-> Aged(consent[f][v], 1)]]

Unwatched ==
  \/ ProviderStep
  \/ ReplaceWithoutApproval
  \/ \E k \in Token : Checkpoint(k) \/ Restore(k)
  \/ RequestStep
  \/ Tick

HNext ==
  \/ \E S \in Grants, d \in Durations, devtools \in Scopes : ApproveH(S, d, devtools)
  \/ \E f \in Profile : WithdrawH(f)
  \/ StopH
  \/ PassH
  \/ Unwatched /\ UNCHANGED consent

HSpec == HInit /\ [][HNext]_<<core, consent>>

-----------------------------------------------------------------------------

\* Authority is never more than an operator said: what is approved now, by an
\* approval or by the restoring of one, was consented to by the operator for
\* this profile, at least as far, after its last withdrawal and after the last
\* Stop, and for at least this long.
ConsentIsOperators ==
  \A f \in core.approval.profiles \ core.withdrawn :
    core.approval.left <= consent[f][core.approval.devtools]
=============================================================================
