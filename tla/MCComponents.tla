---------------------------- MODULE MCComponents ----------------------------
(***************************************************************************)
(* The components with the bounds of a small instance, checked in one run. *)
(* The sets of names are in Components.cfg; here are the functions.        *)
(***************************************************************************)
EXTENDS Components, TLC

\* Two owners that want the same resource.
OneTarget == ("o1" :> "r") @@ ("o2" :> "r")

\* What each of two operators does: the first with a machine of a lab, the
\* second beside it.
TwoOperators == [c \in {"a", "b"} |->
  IF c = "a" THEN {"status", "doctor", "up", "shutdown", "suspend", "ensure-ready", "claim-acquire",
                   "claim-release", "validate-candidate", "prepare-promotion", "desktop"}
  ELSE {"claim-acquire", "up", "testbed", "workspace-acquire"}]
=============================================================================
