-------------------------------- MODULE Reveal --------------------------------
(***************************************************************************)
(* What a visitor is shown of a group while others vote and replace        *)
(* (core/src/reveal, the handlers get-group-results and                    *)
(* get-tournament-detail of packages/api, the readers of packages/db).     *)
(*                                                                         *)
(* One request reads, one action per query and one for the clock: readers  *)
(* write nothing, so that one stands for any number.  The world it reads   *)
(* is module Lineage, which BallotBox implements.  Every group here has    *)
(* the same pairs, by seed.                                                *)
(***************************************************************************)
EXTENDS Lineage, Scoring

CONSTANTS
  Nobody,                \* a caller without a cookie: voterId is null
  Pairs                  \* the pairs of a group, by seed

ASSUME RevealConstants == Nobody \notin Voter /\ IsFiniteSet(Voter)

\* What the schema has of pairs, and validateBallot lets through of orderings.
ASSUME RevealGroup ==
  /\ Pairs \in Seq([id : Nat, totalPoints : Nat])
  /\ \A i, j \in DOMAIN Pairs : Pairs[i].id = Pairs[j].id => i = j
  /\ Orderings \subseteq [{Pairs[i].id : i \in DOMAIN Pairs} -> 1..Len(Pairs)]

VARIABLES
  pc,                    \* where the request is, or the answer it gave
  asked,                 \* what it asks: [caller, tournament, labels]
  read,                  \* what it has read so far
  shown,                 \* the results in its answer, by label
  earned,                \* history: the labels it might be shown at some instant
  atStart,               \* history: [voted, counted, settled] when it began
  overtaken              \* history: its tournament's lineage was replaced meanwhile

vars == <<world, pc, asked, read, shown, earned, atStart, overtaken>>
history == <<earned, atStart, overtaken>>

BallotsOf(g) == [v \in {u \in Voter : <<g, u>> \in DOMAIN ballots} |-> ballots[<<g, v>>]]

NotAsked == [caller |-> Nobody, tournament |-> None, labels |-> {}]
NotRead == [row |-> None, now |-> None, liveSuccessor |-> None, voted |-> {},
            totals |-> <<>>, positions |-> <<>>]

-------------------------------------------------------------------------------
(***************************************************************************)
(* isRevealed: the gate.                                                   *)
(***************************************************************************)
isRevealed_ClosedOnly(row, hasVoted, now, liveSuccessor) ==
  /\ tournamentStatusAt(row, now) # "draft"
  /\ IF row.invalidatedAt # None
     THEN liveSuccessor # None /\ tournamentStatusAt(liveSuccessor, now) = "closed"
     ELSE tournamentStatusAt(row, now) = "closed"

isRevealed(row, hasVoted, now, liveSuccessor) ==
  /\ tournamentStatusAt(row, now) # "draft"
  /\ IF row.invalidatedAt # None
     THEN liveSuccessor # None /\ tournamentStatusAt(liveSuccessor, now) = "closed"
     ELSE tournamentStatusAt(row, now) = "closed" \/ hasVoted

\* findLiveSuccessor: the recursive query, from the row's own link to the end of the chain.
findLiveSuccessor_FirstOnly(t) ==
  IF tournaments[t].replacedBy = None THEN None ELSE tournaments[tournaments[t].replacedBy]

findLiveSuccessor(t) ==
  LET chain[n \in Nat] ==
        IF n = 0 THEN tournaments[t].replacedBy
        ELSE LET s == chain[n - 1] IN
             IF s # None /\ tournaments[s].replacedBy # None
             THEN tournaments[s].replacedBy ELSE s
      end == chain[Cardinality(Published)]
  IN  IF end \in Published /\ tournaments[end].invalidatedAt = None
      THEN tournaments[end] ELSE None

\* The rule the gate stands for, judged in one instant (FR-020, FR-021, FR-213): who has
\* voted, and everyone once the voting of the live tournament of the lineage is over.
MayBeShown(v, g) ==
  LET live == CHOOSE t \in Published : tournaments[t].replacedBy = None IN
  \/ clock >= tournaments[live].startsAt
  \/ g[1] = live /\ HasBallot(g, v)

\* No vote can be on its way to a commit any more.
Settled(t) ==
  tournaments[t].invalidatedAt # None \/ tournaments[t].startsAt + Lag <= clock

-------------------------------------------------------------------------------
Init ==
  /\ LineageInit
  /\ pc = "idle"
  /\ asked = NotAsked
  /\ read = NotRead
  /\ shown = <<>>
  /\ earned = {}
  /\ atStart = [voted |-> {}, counted |-> {}, settled |-> FALSE]
  /\ overtaken = FALSE

-------------------------------------------------------------------------------
(***************************************************************************)
(* The world.  Each of its steps may earn the request under way more.      *)
(***************************************************************************)
EarnedNow ==
  {l \in asked.labels : MayBeShown(asked.caller, <<asked.tournament, l>>)}

Remember == earned' = earned \cup EarnedNow'

Vote ==
  /\ CommitVote
  /\ UNCHANGED <<pc, asked, read, shown, atStart, overtaken>>
  /\ Remember

Replace ==
  /\ CommitReplacement
  /\ overtaken' = (overtaken \/ pc # "idle")
  /\ UNCHANGED <<pc, asked, read, shown, atStart>>
  /\ Remember

Tick ==
  /\ PassTime
  /\ UNCHANGED <<pc, asked, read, shown, atStart, overtaken>>
  /\ Remember

-------------------------------------------------------------------------------
(***************************************************************************)
(* The request.                                                            *)
(***************************************************************************)
Ask(v, t, labels, step) ==
  /\ pc = "idle"
  /\ asked' = [caller |-> v, tournament |-> t, labels |-> labels]
  /\ read' = [NotRead EXCEPT !.row = tournaments[t]]
  /\ pc' = step
  /\ atStart' = [voted   |-> {l \in labels : HasBallot(<<t, l>>, v)},
                 counted |-> {l \in labels : \E u \in Voter : HasBallot(<<t, l>>, u)},
                 settled |-> Settled(t)]
  /\ earned' = {l \in labels : MayBeShown(v, <<t, l>>)}
  /\ UNCHANGED <<world, shown, overtaken>>

\* groups.findById and findTournamentForGroup; the group never changes.
LoadGroup ==
  \E v \in Voter \cup {Nobody}, t \in Published, l \in Label : Ask(v, t, {l}, "group")

\* tournaments.findBySlug.
LoadTournament ==
  \E v \in Voter \cup {Nobody}, t \in Published : Ask(v, t, Label, "tournament")

Continue(step, value) ==
  /\ pc' = step
  /\ read' = value
  /\ UNCHANGED <<world, asked, shown, history>>

Voted == {l \in asked.labels : HasBallot(<<asked.tournament, l>>, asked.caller)}
LiveSuccessor ==
  IF read.row.replacedBy = None THEN None ELSE findLiveSuccessor(asked.tournament)

\* getGroupResults: ballots.findOwn, loadInvalidationContext, then the gate and the clock.
FindOwn ==
  /\ pc = "group"
  /\ Continue("own", [read EXCEPT !.voted = Voted])

FollowGroup ==
  /\ pc = "own"
  /\ Continue("chained", [read EXCEPT !.liveSuccessor = LiveSuccessor])

JudgeGroup ==
  /\ pc = "chained"
  /\ IF isRevealed(read.row, read.voted # {}, clock, read.liveSuccessor)
     THEN Continue("countGroup", [read EXCEPT !.now = clock])
     ELSE Continue("RESULTS_HIDDEN", [read EXCEPT !.now = clock])

\* getTournamentDetail: the clock, loadInvalidationContext, ballots.votedGroupIds.
ReadClock ==
  /\ pc = "tournament"
  /\ Continue("timed", [read EXCEPT !.now = clock])

FollowTournament ==
  /\ pc = "timed"
  /\ Continue("followed", [read EXCEPT !.liveSuccessor = LiveSuccessor])

FindVoted ==
  /\ pc = "followed"
  /\ Continue("countTournament", [read EXCEPT !.voted = Voted])

\* countsForGroup and countsForGroups: two queries at once, on two connections.
Counting == {"countGroup", "countTournament"}

CountBallots ==
  /\ pc \in Counting /\ read.totals = <<>>
  /\ Continue(pc, [read EXCEPT !.totals =
       [l \in asked.labels |-> ballotCount(BallotsOf(<<asked.tournament, l>>))]])

CountPositions ==
  /\ pc \in Counting /\ read.positions = <<>>
  /\ Continue(pc, [read EXCEPT !.positions =
       [l \in asked.labels |-> positionCounts(BallotsOf(<<asked.tournament, l>>))]])

Counted == read.totals # <<>> /\ read.positions # <<>>
Score(l) == scoreGroup(Pairs, read.totals[l], read.positions[l])

Answer(step, results) ==
  /\ pc' = step
  /\ shown' = results
  /\ UNCHANGED <<world, asked, read, history>>

AnswerGroup ==
  /\ pc = "countGroup" /\ Counted
  /\ \A l \in asked.labels :
       IF Score(l) = NoResults
       THEN Answer("NOT_FOUND", <<>>)
       ELSE Answer("RESULTS", [x \in {l} |-> Score(l)])

AnswerTournament ==
  /\ pc = "countTournament" /\ Counted
  /\ Answer("DETAIL", [l \in asked.labels |->
       IF isRevealed(read.row, l \in read.voted, read.now, read.liveSuccessor)
       THEN Score(l) ELSE NoResults])

-------------------------------------------------------------------------------
(***************************************************************************)
(* The page that the answer is displayed on (torneios/[slug]/page.tsx):    *)
(* a notice over a replaced tournament, and a group as one of three        *)
(* states.  The gate is not asked again: results are there or are not.     *)
(***************************************************************************)

\* toInvalidationDto: the gate once more, of a caller who has not voted.
resultsWithheld_Shown(row, now, liveSuccessor) == FALSE

resultsWithheld(row, now, liveSuccessor) ==
  row.invalidatedAt # None /\ ~isRevealed(row, FALSE, now, liveSuccessor)

resultsStateFor(revealed, results) ==
  IF ~revealed THEN "hidden" ELSE IF results = NoResults THEN "empty" ELSE "results"

Withheld == resultsWithheld(read.row, read.now, read.liveSuccessor)

GroupState(l) ==
  IF Withheld THEN "withheld"
  ELSE resultsStateFor(l \in read.voted \/ ~isVotingOpen(read.row, read.now), shown[l])

\* The form to vote is under the group.
FormShown(l) == l \notin read.voted /\ isVotingOpen(read.row, read.now)

-------------------------------------------------------------------------------
Step ==
  \/ LoadGroup \/ FindOwn \/ FollowGroup \/ JudgeGroup \/ AnswerGroup
  \/ LoadTournament \/ ReadClock \/ FollowTournament \/ FindVoted \/ AnswerTournament
  \/ CountBallots \/ CountPositions

Next == Vote \/ Replace \/ Tick \/ Step

Spec == Init /\ [][Next]_vars

-------------------------------------------------------------------------------
(***************************************************************************)
(* Properties.                                                             *)
(***************************************************************************)
Answers == {"RESULTS", "DETAIL", "RESULTS_HIDDEN", "NOT_FOUND"}
ShownLabels == {l \in DOMAIN shown : shown[l] # NoResults}

(***************************************************************************)
(* Nobody reads the crowd of an open group before he has voted in it: a    *)
(* group is in an answer only when the rule allowed it at some instant of  *)
(* the request, whichever writes came between its queries.  It is stated   *)
(* for requests that no replacement overtakes; the next property is what   *)
(* happens to the others.                                                  *)
(***************************************************************************)
NothingLeaks == ~overtaken => ShownLabels \subseteq earned

\* FR-213, of every request: the results of a replaced tournament stay hidden until the
\* voting of the one that took its place closes.
HiddenUntilSuccessorCloses == ShownLabels \subseteq earned

(***************************************************************************)
(* Who had voted in a group before he asked sees its results, and they     *)
(* count his ballot in the total and at every position (FR-020).           *)
(***************************************************************************)
VoterIsShown ==
  ~overtaken /\ pc \in Answers /\ ~atStart.settled =>
    \A l \in atStart.voted :
      /\ l \in ShownLabels
      /\ shown[l].ballotCount >= 1
      /\ \A n \in DOMAIN Pairs :
           shown[l].standings[n].votes[ballots[<<<<asked.tournament, l>>, asked.caller>>]
                                          [shown[l].standings[n].id]] >= 1

(***************************************************************************)
(* "You have not earned this" and "nobody voted" mean opposite things     *)
(* (ui-logic/results.ts:66-70; FR-019, FR-020): of a group that had a      *)
(* ballot when it was asked for, no page says that nobody voted; results   *)
(* are hidden from nobody but who has the form to earn them, and withheld  *)
(* only of a replaced tournament, which has none of them in the answer.    *)
(***************************************************************************)
PageTellsWhy ==
  pc = "DETAIL" =>
    \A l \in asked.labels :
      /\ GroupState(l) = "empty" => l \notin atStart.counted
      /\ GroupState(l) = "hidden" => FormShown(l)
      /\ GroupState(l) \in {"hidden", "withheld"} => l \notin ShownLabels
      /\ GroupState(l) = "withheld" => tournaments[asked.tournament].replacedBy # None

\* The results of the ballots a group has now.
ExactResults(g) ==
  scoreGroup(Pairs, ballotCount(BallotsOf(g)), positionCounts(BallotsOf(g)))

(***************************************************************************)
(* Final results are exact (SC-004, FR-213, FR-024): a group that could    *)
(* take no more ballots when it was asked for is shown as its ballots are  *)
(* counted, then and ever after.                                           *)
(***************************************************************************)
FinalResultsAreExact ==
  atStart.settled =>
    \A l \in ShownLabels : shown[l] = ExactResults(<<asked.tournament, l>>)

===============================================================================
