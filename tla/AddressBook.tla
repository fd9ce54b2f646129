----------------------------- MODULE AddressBook -----------------------------
(***************************************************************************)
(* What the addresses promise, with nothing of how they are kept: a book   *)
(* in which every address, once it is given, names one tournament for      *)
(* ever, and the address a tournament was published under names the live   *)
(* tournament of its lineage (specs/003-replace-active-tournament, FR-210).*)
(* Module Addresses implements it.                                         *)
(***************************************************************************)
CONSTANT Tournament      \* ids

VARIABLES
  book,                  \* the tournament at each address that is given
  retired                \* the tournaments that were replaced

vars == <<book, retired>>

Given == DOMAIN book
Listed == {book[a] : a \in Given}

Init == book = [a \in {} |-> a] /\ retired = {}

\* A new tournament takes an address nobody has.
Publish(a, t) ==
  /\ a \notin Given
  /\ t \in Tournament \ Listed
  /\ book' = [x \in Given \cup {a} |-> IF x = a THEN t ELSE book[x]]
  /\ UNCHANGED retired

\* A new tournament takes over the address of a live one, which moves to one nobody has.
Replace(a, t, new) ==
  /\ a \in Given
  /\ book[a] \notin retired
  /\ new \notin Given
  /\ t \in Tournament \ Listed
  /\ book' = [x \in Given \cup {new} |->
                IF x = a THEN t ELSE IF x = new THEN book[a] ELSE book[x]]
  /\ retired' = retired \cup {book[a]}

\* Any address will do that the book has after the step.
Next ==
  \E t \in Tournament, a \in DOMAIN book' :
    Publish(a, t) \/ \E new \in DOMAIN book' : Replace(a, t, new)

Spec == Init /\ [][Next]_vars
===============================================================================
