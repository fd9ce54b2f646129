----------------------------- MODULE VoteLedger ------------------------------
(***************************************************************************)
(* What voting promises, with nothing of how it is kept: a ledger of       *)
(* ballots in which a vote is one step and a replacement is one step.      *)
(* There is no clock, no request, no transaction and no lock here; module  *)
(* BallotBox has them and implements this one.                             *)
(*                                                                         *)
(* The promises are those of specs/003-replace-active-tournament: exactly  *)
(* one tournament of the lineage is live, a replacement is indivisible and *)
(* takes along every ballot on a group it leaves unchanged, a replaced     *)
(* tournament keeps its own ballots as a frozen record, and nobody has two *)
(* ballots in a group.                                                     *)
(***************************************************************************)
EXTENDS CarryOver, FiniteSets

CONSTANTS
  Tournament,            \* ids a tournament may be given
  Label,                 \* group labels
  Pair,                  \* pairs of players
  Voter,                 \* voter ids
  Lineups,               \* the lineups an organiser may publish
  Submissions,           \* the orderings a voter may send
  None                   \* no successor

VARIABLES
  lineup,                \* the lineup of each published tournament
  replacedBy,            \* its direct replacement, None while it is live
  ballots                \* the ballots that count

vars == <<lineup, replacedBy, ballots>>

Published == DOMAIN lineup
Live(t) == t \in Published /\ replacedBy[t] = None
BallotsIn(g) == {b \in ballots : b.group = g}

-------------------------------------------------------------------------------
Init ==
  \E t \in Tournament, L \in Lineups :
    /\ lineup = [x \in {t} |-> L]
    /\ replacedBy = [x \in {t} |-> None]
    /\ ballots = {}

\* A voter without a ballot in a group of a live tournament orders its pairs.
Cast(t, l, v, ordering) ==
  /\ Live(t)
  /\ l \in DOMAIN lineup[t]
  /\ validateBallot(lineup[t][l], ordering)
  /\ \A b \in BallotsIn(<<t, l>>) : b.voter # v
  /\ ballots' = ballots \cup
       {[group |-> <<t, l>>, voter |-> v, ordering |-> ordering, carried |-> FALSE]}
  /\ UNCHANGED <<lineup, replacedBy>>

\* A live tournament gives way to a new one, which starts with the ballots of
\* the groups it leaves unchanged and with no other.
Replace(t, s, L) ==
  /\ Live(t)
  /\ s \in Tournament \ Published
  /\ lineup' = [x \in Published \cup {s} |-> IF x = s THEN L ELSE lineup[x]]
  /\ replacedBy' = [x \in Published \cup {s} |->
                      IF x = s THEN None ELSE IF x = t THEN s ELSE replacedBy[x]]
  /\ ballots' = ballots \cup
       {carriedBallot(b, s, lineup[t], L) :
          b \in UNION {BallotsIn(<<t, l>>) : l \in planCarryOver(lineup[t], L)}}

Next ==
  \/ \E t \in Tournament, l \in Label, v \in Voter, ordering \in Submissions :
       Cast(t, l, v, ordering)
  \/ \E t, s \in Tournament, L \in Lineups : Replace(t, s, L)

Spec == Init /\ [][Next]_vars
===============================================================================
