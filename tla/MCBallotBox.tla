----------------------------- MODULE MCBallotBox -----------------------------
(***************************************************************************)
(* Small instances of BallotBox.  The pairs are model values; groups have  *)
(* three pairs, the smallest a lineup may have, or four.                   *)
(***************************************************************************)
EXTENDS BallotBoxInv, TLC

CONSTANTS p1, p2, p3, p4, p5, p6, p7       \* pairs

\* One group, as first published and re-seeded by new points.
Reseeded == {[A |-> <<p1, p2, p3>>], [A |-> <<p2, p1, p3>>]}

\* Two groups: as first published; A grown by a pair and B re-seeded.
Regrouped == {[A |-> <<p1, p2, p3>>, B |-> <<p4, p5, p6>>],
              [A |-> <<p3, p7, p1, p2>>, B |-> <<p6, p4, p5>>]}

\* A complete ordering of three pairs and one that repeats a position.
TwoSubmissions == {<<1, 2, 3>>, <<1, 1, 3>>}

\* A complete ordering of three pairs and one of four.
TwoSizes == {<<1, 2, 3>>, <<4, 2, 1, 3>>}

\* Everything named by an id is interchangeable with its like.
Identities == Permutations(Request) \cup Permutations(Organiser)
                \cup Permutations(Voter) \cup Permutations(Tournament)
===============================================================================
