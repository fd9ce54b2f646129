------------------------------ MODULE CarryOver ------------------------------
(***************************************************************************)
(* Which ballots survive a replacement, and where each of their entries    *)
(* goes (packages/core/src/replacement), with the rule that a ballot is a  *)
(* complete ordering of its group (packages/core/src/ballot).              *)
(*                                                                         *)
(* A lineup maps the label of each group to the group: the sequence of its *)
(* pairs by seed.  A pair stands for its pairKey, the two players whatever *)
(* their order.  A pair row is named by its group and its seed, so the     *)
(* entries of a ballot are a sequence of positions indexed by seed.        *)
(***************************************************************************)
EXTENDS Integers, Sequences

Injective(f) == \A i, j \in DOMAIN f : f[i] = f[j] => i = j

(***************************************************************************)
(* validateBallot: one entry per pair of the group (neither unknown nor    *)
(* missing nor repeated), no position used twice, none outside 1..size.    *)
(***************************************************************************)
validateBallot(group, ordering) ==
  /\ Len(ordering) = Len(group)
  /\ Injective(ordering)
  /\ \A s \in DOMAIN ordering : ordering[s] \in 1..Len(group)

(***************************************************************************)
(* planCarryOver: the group of the replacement under label l keeps its     *)
(* votes when the original has a group under that label, of the same       *)
(* length, in which every pair of the replacement's group is found.        *)
(***************************************************************************)
keepsVotes_NoLengthCheck(original, replacement, l) ==
  /\ l \in DOMAIN original \cap DOMAIN replacement
  /\ \A s \in DOMAIN replacement[l] :
       \E f \in DOMAIN original[l] : original[l][f] = replacement[l][s]

keepsVotes_SameSeeds(original, replacement, l) ==
  /\ l \in DOMAIN original \cap DOMAIN replacement
  /\ original[l] = replacement[l]

keepsVotes(original, replacement, l) ==
  /\ l \in DOMAIN original \cap DOMAIN replacement
  /\ Len(original[l]) = Len(replacement[l])
  /\ \A s \in DOMAIN replacement[l] :
       \E f \in DOMAIN original[l] : original[l][f] = replacement[l][s]

planCarryOver(original, replacement) ==
  {l \in DOMAIN replacement : keepsVotes(original, replacement, l)}

\* The seed, in the group carried from, of the pair now at each seed.
pairMap(from, to) ==
  [s \in DOMAIN to |-> CHOOSE f \in DOMAIN from : from[f] = to[s]]

(***************************************************************************)
(* The entries copied for one ballot: each pair keeps the position it had, *)
(* at the seed it has now.                                                 *)
(***************************************************************************)
carriedOrdering_BySeed(from, to, ordering) == ordering

carriedOrdering(from, to, ordering) ==
  [s \in DOMAIN to |-> ordering[pairMap(from, to)[s]]]

(***************************************************************************)
(* The two inserts of the copy, for one ballot of a group of the original  *)
(* (lineup from): the row in the replacement's group of the same label     *)
(* (tournament successor, lineup to), marked as carried, and its entries.  *)
(* A group is named by its tournament and its label.                       *)
(***************************************************************************)
carriedBallot(b, successor, from, to) ==
  LET l == b.group[2] IN
  [group    |-> <<successor, l>>,
   voter    |-> b.voter,
   ordering |-> carriedOrdering(from[l], to[l], b.ordering),
   carried  |-> TRUE]
===============================================================================
