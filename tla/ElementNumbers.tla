--------------------------- MODULE ElementNumbers ---------------------------
(***************************************************************************)
(* The numbers an agent sees for the elements of one application           *)
(* (client/agent_session.py): App.tree prints the whole tree or only what  *)
(* changed, and an action names an element by its number.                  *)
(*                                                                         *)
(* A tree is a sequence of elements; of a line matters the element and one *)
(* attribute of it.  belief is what a reader holds who applies every text  *)
(* that was returned to what it held before.                               *)
(***************************************************************************)
EXTENDS Naturals, Sequences, FiniteSets

CONSTANTS
  Element,   \* native identities of elements
  Value,     \* what a line shows of one
  MaxNumber  \* bound on the numbers given

NumbersAreBounded == IsFiniteSet(Element) /\ MaxNumber \in Nat

VARIABLES
  app,      \* the lines of the last observation and the next number
  belief,   \* the lines, in order, that the reader holds
  given     \* the numbers given to each element, ever

numbersVars == <<app, belief, given>>

NumbersInit ==
  /\ app = [lines |-> <<>>, next |-> 1]
  /\ belief = <<>> /\ given = {}

-----------------------------------------------------------------------------

Places(s) == 1 .. Len(s)
Trees == {t \in UNION {[1 .. n -> Element \X Value] : n \in 0 .. Cardinality(Element)} :
            \A i, j \in Places(t) : t[i][1] = t[j][1] => i = j}

NumberIn(lines, n) == \E i \in Places(lines) : lines[i].number = n
Numbers(lines) == {lines[i].number : i \in Places(lines)}
LineOf(lines, n) == CHOOSE l \in {lines[i] : i \in Places(lines)} : l.number = n

\* An element that the last observation showed keeps its number; every other
\* one gets the next number, in the order of the tree.
Fresh(t, i) == Cardinality({j \in 1 .. i : \A k \in Places(app.lines) : app.lines[k].element # t[j][1]})
NumberOf(t, i) ==
  IF \E k \in Places(app.lines) : app.lines[k].element = t[i][1]
  THEN (CHOOSE l \in {app.lines[k] : k \in Places(app.lines)} : l.element = t[i][1]).number
  ELSE app.next + Fresh(t, i) - 1
Lines(t) == [i \in Places(t) |-> [number |-> NumberOf(t, i), element |-> t[i][1], value |-> t[i][2]]]

\* Mutant of SameOrder: only the set of lines is compared.
SameOrderAny(old, new) == Numbers(new) \subseteq Numbers(old)

\* The lines that both have are in the same order in both.
SameOrder(old, new) ==
  \A a, b \in Numbers(old) \cap Numbers(new) :
    LET at(s, n) == CHOOSE i \in Places(s) : s[i].number = n
    IN at(old, a) < at(old, b) <=> at(new, a) < at(new, b)

Changed(old, new) == {n \in Numbers(new) : ~NumberIn(old, n) \/ LineOf(old, n) # LineOf(new, n)}
Removed(old, new) == Numbers(old) \ Numbers(new)

\* What is returned says nothing, the changed lines and the removed numbers, or
\* everything; a reader brings up to date what it holds.
Nothing(old, new) == old = new
Patch(old, new) ==
  /\ old # <<>> /\ Numbers(new) \subseteq Numbers(old) /\ SameOrder(old, new)
  /\ 2 * (Cardinality(Changed(old, new)) + Cardinality(Removed(old, new))) < Len(new)
Staying(s, gone) == {i \in Places(s) : s[i].number \notin gone}
Nth(places, r) == CHOOSE i \in places : Cardinality({j \in places : j <= i}) = r
Kept(s, gone) == LET stay == Staying(s, gone) IN [r \in 1 .. Cardinality(stay) |-> s[Nth(stay, r)]]
Patched(s, old, new) ==
  LET k == Kept(s, Removed(old, new))
  IN [i \in Places(k) |-> IF k[i].number \in Changed(old, new) THEN LineOf(new, k[i].number) ELSE k[i]]

Shows(t, full) ==
  LET old == app.lines
      new == Lines(t)
      next == app.next + Fresh(t, Len(t))
  IN /\ next <= MaxNumber + 1
     /\ app' = [lines |-> new, next |-> next]
     /\ given' = given \union {<<l.number, l.element>> : l \in {new[i] : i \in Places(new)}}
     /\ belief' = IF ~full /\ Nothing(old, new) THEN belief
                  ELSE IF ~full /\ Patch(old, new) THEN Patched(belief, old, new)
                  ELSE new

\* Mutant of Forgotten: counting starts again.
ForgottenWhole == [lines |-> <<>>, next |-> 1]

\* invalidate(): after a refused action or a failed observation no number is
\* good and nothing is known to be printed; numbers are not given out again.
Forgotten == [app EXCEPT !.lines = <<>>]

-----------------------------------------------------------------------------

Tree(t, full) == Shows(t, full)

\* A snapshot is refused, malformed, or has one identity twice.
TreeFails ==
  /\ app' = Forgotten
  /\ UNCHANGED <<belief, given>>

\* An action by number, or by a point of a window image: it is refused, or the
\* tree is observed after it.  Without automatic observation nothing changes.
Act(t) ==
  /\ app.lines # <<>>
  /\ \/ Shows(t, FALSE)
     \/ app' = Forgotten /\ UNCHANGED <<belief, given>>

NumbersNext ==
  \/ TreeFails
  \/ \E t \in Trees : Act(t) \/ \E full \in BOOLEAN : Tree(t, full)

NumbersSpec == NumbersInit /\ [][NumbersNext]_numbersVars

-----------------------------------------------------------------------------

NumbersTypeOK ==
  /\ app.next \in 1 .. MaxNumber + 1
  /\ given \subseteq (1 .. app.next - 1) \X Element

\* A reader that applies every text holds the tree that was observed last, in
\* its order: a patch is only printed where it says enough.
TextsSayEnough == app.lines # <<>> => belief = app.lines

\* A number that was an element's is never another's, whatever disappears,
\* returns, fails or is refused in between, so a number that is remembered acts
\* on its element or on nothing.
NumbersStay == \A p, q \in given : p[1] = q[1] => p[2] = q[2]
=============================================================================
