--------------------------- MODULE MCResidentCore ---------------------------
(* Small instances of ResidentCore for TLC: requests, and who grants what. *)
EXTENDS CoreProperties

Ask(id, f, n) == [id |-> id, profile |-> f, timeout |-> n, writes |-> FALSE, devtools |-> FALSE]
Write(id, f, n) == [Ask(id, f, n) EXCEPT !.writes = TRUE]
Tools(id, f, n) == [Ask(id, f, n) EXCEPT !.devtools = TRUE]
Report(readable, writable, renamed) ==
  [readable |-> readable, writable |-> writable, renamed |-> renamed]

None == {}
One == {{"p1"}}

\* CoreRequests: a write and, under the same request identifier, the use of a
\* developer tool, next to an observation; two of the three fit.
MixedRequests == [c1 |-> Write("a", "p1", 2), c2 |-> Tools("a", "p1", 1), c3 |-> Ask("b", "p1", 1)]
Guarded == {Report(TRUE, FALSE, FALSE), Report(TRUE, TRUE, TRUE)}

\* CoreFinishes: two requests under an approval that does not run out.
EndlessRequests == [c1 |-> Ask("a", "p1", 2), c2 |-> Write("b", "p1", 1)]
=============================================================================
