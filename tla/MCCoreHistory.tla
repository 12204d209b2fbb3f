--------------------------- MODULE MCCoreHistory ----------------------------
(* ResidentCore with its history, on two profiles and no requests. *)
EXTENDS CoreHistory

NoRequests == [c \in {} |-> 0]
Pair == {{"p1", "p2"}}

\* The screen is locked and unlocked; streams need the developer tools.
Dark == {[readable |-> b, writable |-> b, renamed |-> FALSE] : b \in BOOLEAN}
ToolStream == [writes : {FALSE}, devtools : {TRUE}]
=============================================================================
