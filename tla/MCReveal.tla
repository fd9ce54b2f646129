------------------------------- MODULE MCReveal -------------------------------
(***************************************************************************)
(* Small instances of Reveal.  One ordering is enough: what is compared is *)
(* how many ballots two queries count; the points themselves are checked   *)
(* by Poll.  Two labels let one group be judged apart from another.        *)
(***************************************************************************)
EXTENDS Reveal, TLC

ThreePairs == <<[id |-> 1, totalPoints |-> 9],
                [id |-> 2, totalPoints |-> 8],
                [id |-> 3, totalPoints |-> 7]>>

Upright == <<1, 2, 3>>

OneOrdering == {Upright}

Identities == Permutations(Voter) \cup Permutations(Tournament) \cup Permutations(Label)
===============================================================================
