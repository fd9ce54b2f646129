------------------------------- MODULE Scoring -------------------------------
(***************************************************************************)
(* The crowd's order of a group, from counts of its ballots: the two views *)
(* of supabase/migrations/0002_result_views.sql and scoreGroup of          *)
(* packages/core/src/scoring.                                              *)
(*                                                                         *)
(* A ballot maps each pair to its position.  A pair is a record of its id  *)
(* and the total points it was entered with; ids are numbers, since all    *)
(* that matters of them is their order.  A share is left as the votes it   *)
(* is computed from and a mean as the weighted sum: both are divided by    *)
(* the same count of ballots, which keeps their order.                     *)
(***************************************************************************)
EXTENDS Integers, Sequences, FiniteSets, FiniteSetsExt

NoResults == <<>>        \* null

-------------------------------------------------------------------------------
(***************************************************************************)
(* group_ballot_counts and group_position_counts over the ballots of one   *)
(* group, a function from voters.                                          *)
(***************************************************************************)
ballotCount(ballots) == Cardinality(DOMAIN ballots)

positionCounts(ballots) ==
  LET placed == UNION {{<<p, ballots[v][p]>> : p \in DOMAIN ballots[v]} : v \in DOMAIN ballots}
  IN  {[pair |-> x[1], position |-> x[2],
        votes |-> Cardinality({v \in DOMAIN ballots : ballots[v][x[1]] = x[2]})] : x \in placed}

-------------------------------------------------------------------------------
(***************************************************************************)
(* scoreGroup.                                                             *)
(***************************************************************************)

\* perPosition.get(position) ?? 0 of a pair, once every count is in.
votesFor(counts, id, position) ==
  MapThenSumSet(LAMBDA c : c.votes,
                {c \in counts : c.pair = id /\ c.position = position})

weightedVotes_ShortLoop(counts, id, size) ==
  MapThenSumSet(LAMBDA position : position * votesFor(counts, id, position), 1..(size - 1))

weightedVotes(counts, id, size) ==
  MapThenSumSet(LAMBDA position : position * votesFor(counts, id, position), 1..size)

scoredPair(counts, pair, size) ==
  [id              |-> pair.id,
   totalPoints     |-> pair.totalPoints,
   weighted        |-> weightedVotes(counts, pair.id, size),
   firstPlaceVotes |-> votesFor(counts, pair.id, 1),
   votes           |-> [position \in 1..size |-> votesFor(counts, pair.id, position)]]

\* The tie-break chain of the comparator.
before_PointsFirst(a, b) ==
  \/ a.weighted < b.weighted
  \/ /\ a.weighted = b.weighted
     /\ \/ a.totalPoints > b.totalPoints
        \/ /\ a.totalPoints = b.totalPoints
           /\ \/ a.firstPlaceVotes > b.firstPlaceVotes
              \/ a.firstPlaceVotes = b.firstPlaceVotes /\ a.id < b.id

before(a, b) ==
  \/ a.weighted < b.weighted
  \/ /\ a.weighted = b.weighted
     /\ \/ a.firstPlaceVotes > b.firstPlaceVotes
        \/ /\ a.firstPlaceVotes = b.firstPlaceVotes
           /\ \/ a.totalPoints > b.totalPoints
              \/ a.totalPoints = b.totalPoints /\ a.id < b.id

\* Where Array.sort, which is stable, puts one of the scored pairs <<index, score>>.
sortedPlace(scored, x) ==
  1 + Cardinality({y \in scored :
                     \/ before(y[2], x[2])
                     \/ y[1] < x[1] /\ ~before(x[2], y[2])})

scoreGroup(pairs, count, counts) ==
  LET scored == {<<i, scoredPair(counts, pairs[i], Len(pairs))>> : i \in DOMAIN pairs}
      at(n)  == CHOOSE x \in scored : sortedPlace(scored, x) = n
  IN  IF count <= 0
      THEN NoResults
      ELSE [ballotCount |-> count,
            standings   |-> [n \in DOMAIN pairs |-> at(n)[2]]]

\* The place of a pair in a result.
predictedPosition(results, id) ==
  CHOOSE n \in DOMAIN results.standings : results.standings[n].id = id
===============================================================================
