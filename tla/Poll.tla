--------------------------------- MODULE Poll ---------------------------------
(***************************************************************************)
(* A group collecting ballots, and the results it would show after each:   *)
(* scoreGroup over the counts of the ballots cast so far.                  *)
(***************************************************************************)
EXTENDS Scoring, Functions

CONSTANTS
  Pairs,                 \* the pairs of the group, by seed
  Voter                  \* voter ids

ASSUME PollConstants ==
  /\ Pairs \in Seq([id : Nat, totalPoints : Nat])
  /\ \A i, j \in DOMAIN Pairs : Pairs[i].id = Pairs[j].id => i = j

Ids == {Pairs[i].id : i \in DOMAIN Pairs}
Ordering == {o \in [Ids -> 1..Len(Pairs)] : IsInjective(o)}

VARIABLE ballots         \* the ballots of the group, by voter

\* The results for the pairs in some order.
ResultsOf(cast, pairs) == scoreGroup(pairs, ballotCount(cast), positionCounts(cast))
Results == ResultsOf(ballots, Pairs)

PollInit == ballots = <<>>

Cast(v, ordering) ==
  /\ v \notin DOMAIN ballots
  /\ ballots' = [u \in DOMAIN ballots \cup {v} |-> IF u = v THEN ordering ELSE ballots[u]]

PollNext == \E v \in Voter, ordering \in Ordering : Cast(v, ordering)

PollSpec == PollInit /\ [][PollNext]_ballots

-------------------------------------------------------------------------------
\* What a count by hand ranks a pair by.
HandCount(id) ==
  LET pair == Pairs[CHOOSE i \in DOMAIN Pairs : Pairs[i].id = id] IN
  <<MapThenSumSet(LAMBDA v : ballots[v][id], DOMAIN ballots),
    -Cardinality({v \in DOMAIN ballots : ballots[v][id] = 1}),
    -pair.totalPoints,
    id>>

Earlier(s, t) ==
  \E k \in DOMAIN s : s[k] < t[k] /\ \A m \in 1..(k - 1) : s[m] = t[m]

\* The orders in which the pairs of the group may be loaded.
Loaded == {[i \in DOMAIN Pairs |-> Pairs[f[i]]] :
             f \in {g \in [DOMAIN Pairs -> DOMAIN Pairs] : IsInjective(g)}}

(***************************************************************************)
(* The results are the ones a hand count gives (SC-004), and the same for  *)
(* every caller, in whatever order he loads the pairs (FR-018): each share *)
(* is the ballots that put the pair there (FR-016), and the order is by    *)
(* the sum of the positions on the ballots themselves, then most first     *)
(* places, then most points, then the lower id, compared as tuples.        *)
(***************************************************************************)
AsCountedByHand ==
  ballots # <<>> => \A pairs \in Loaded :
    LET results == ResultsOf(ballots, pairs) IN
    /\ results.ballotCount = Cardinality(DOMAIN ballots)
    /\ \A n, position \in DOMAIN Pairs :
         results.standings[n].votes[position] =
           Cardinality({v \in DOMAIN ballots :
                          ballots[v][results.standings[n].id] = position})
    /\ \A p, q \in Ids :
         Earlier(HandCount(p), HandCount(q)) =>
           predictedPosition(results, p) < predictedPosition(results, q)

(***************************************************************************)
(* A ballot never works against itself: a pair that is ahead of another    *)
(* stays ahead when one more ballot places it ahead.                       *)
(***************************************************************************)
BallotsCountForTheirChoice ==
  [][\A p, q \in Ids, v \in Voter :
       /\ ballots # <<>>
       /\ v \in DOMAIN ballots' \ DOMAIN ballots
       /\ ballots'[v][p] < ballots'[v][q]
       /\ predictedPosition(Results, p) < predictedPosition(Results, q)
       => predictedPosition(Results', p) < predictedPosition(Results', q)]_ballots
===============================================================================
