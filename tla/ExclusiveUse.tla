---------------------------- MODULE ExclusiveUse ----------------------------
(***************************************************************************)
(* What the arbitration of AccessAdmission promises about sessions alone:  *)
(* a task takes everything it uses in one step, only while nothing of it   *)
(* is in use, and any number of tasks may lose theirs at any time.  Use is *)
(* never handed from one task to the next within a step.                   *)
(***************************************************************************)
CONSTANTS Task, Uses   \* Uses[t] is the set of resources that t needs

VARIABLE using         \* the tasks that have a session

Free(t) == \A u \in using : Uses[t] \intersect Uses[u] = {}

Init == using = {}

Take(t) == /\ t \notin using
           /\ Free(t)
           /\ \E kept \in SUBSET using : using' = kept \union {t}

Lose == using' \in SUBSET using

Next == Lose \/ \E t \in Task : Take(t)

Spec == Init /\ [][Next]_using
=============================================================================
