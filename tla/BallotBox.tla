------------------------------ MODULE BallotBox ------------------------------
(***************************************************************************)
(* Casting a ballot against replacing the tournament it is cast in.        *)
(*                                                                         *)
(* Voters' requests run castBallot (packages/api) over the insert          *)
(* transaction of packages/db/src/ballots.ts; organisers' requests run     *)
(* replaceTournament over the transaction of packages/db/src/tournaments.  *)
(* One action is one await of a handler: a query, a statement of a         *)
(* transaction or its commit.  Between two actions anything else may run,  *)
(* the clock included.  Tables hold what is committed; what a transaction  *)
(* has written and not committed is in the locals of its request, where no *)
(* other request can read it (READ COMMITTED).  The row locks on a         *)
(* tournament are read off the program counters of the requests.           *)
(*                                                                         *)
(* Every tournament here descends by replacement from one that was         *)
(* published first; tournaments published apart share no row with them.    *)
(***************************************************************************)
EXTENDS Window, CarryOver, FiniteSets

CONSTANTS
  Tournament,            \* ids a tournament may be given
  Label,                 \* group labels
  Pair,                  \* pairs of players
  Voter,                 \* voter ids
  Request,               \* requests to cast a ballot, each served once
  Organiser,             \* requests to replace a tournament, each served once
  Lineups,               \* the lineups an organiser may publish
  Submissions,           \* the orderings a voter may submit, valid or not
  Horizon                \* bound on the clock

ASSUME BallotBoxConstants ==
  /\ Horizon \in Nat
  /\ None \notin Tournament
  /\ Request \cap Organiser = {}
  /\ Submissions \subseteq Seq(Nat)
  /\ \A L \in Lineups :
       /\ DOMAIN L \subseteq Label
       /\ \A l \in DOMAIN L : L[l] \in Seq(Pair) /\ Injective(L[l])

Instant == 0..Horizon
Group == Tournament \X Label
Process == Request \cup Organiser

VARIABLES
  clock,                 \* server time
  tournaments,           \* the committed rows, by id
  ballots,               \* the committed ballots with their entries
  pc,                    \* where each request is, or the answer it gave
  cast,                  \* the locals of a castBallot request
  swap                   \* the locals of a replaceTournament request

vars == <<clock, tournaments, ballots, pc, cast, swap>>

Published == DOMAIN tournaments
HasGroup(g) == g[1] \in Published /\ g[2] \in DOMAIN tournaments[g[1]].lineup
GroupLineup(g) == tournaments[g[1]].lineup[g[2]]
BallotsIn(g) == {b \in ballots : b.group = g}

NoCast == [voter |-> None, group |-> None, ordering |-> <<>>, seen |-> None, now |-> None]
NoSwap == [original |-> None, seen |-> None, lineup |-> <<>>, startsAt |-> None,
           now |-> None, todo |-> {}, copies |-> {}, successor |-> None]

\* The answers end a request; FAILED stands for a 500, a lost connection and a killed function.
Answers == {"RECORDED", "ALREADY_VOTED", "VOTING_CLOSED", "INVALID_BALLOT", "NOT_FOUND",
            "REPLACED", "NOT_REPLACEABLE", "NOT_CONFIRMED", "REJECTED", "EMPTY_RESULTS", "FAILED"}
Answered(p) == pc[p] \in Answers

Goto(p, step) == pc' = [pc EXCEPT ![p] = step]
AnswerVoter(r, answer) == Goto(r, answer) /\ cast' = [cast EXCEPT ![r] = NoCast]
AnswerOrganiser(o, answer) == Goto(o, answer) /\ swap' = [swap EXCEPT ![o] = NoSwap]

-------------------------------------------------------------------------------
(***************************************************************************)
(* Row locks.  FOR SHARE is held from the lock to the end of the insert's  *)
(* transaction, FOR UPDATE from the lock to the end of the replacement's.  *)
(***************************************************************************)
Sharing_NoShareLock(t) == {}

Sharing(t) == {r \in Request : pc[r] \in {"sharing", "inserted"} /\ cast[r].group[1] = t}

Holding_NoUpdateLock(t) == {}

Holding(t) == {o \in Organiser : pc[o] \in {"locked", "copying"} /\ swap[o].original = t}

(***************************************************************************)
(* The re-check under the lock, the same in both transactions: the row as  *)
(* it is now, against the instant the handler read before it asked for     *)
(* the lock.                                                               *)
(***************************************************************************)
StillOpen_TimeOnly(t, now) == tournaments[t].startsAt > now

StillOpen(t, now) ==
  /\ tournaments[t].invalidatedAt = None
  /\ tournaments[t].startsAt > now
-------------------------------------------------------------------------------
(***************************************************************************)
(* castBallot.                                                             *)
(***************************************************************************)

\* groups.findById and groups.findTournamentForGroup: the group's row and pairs
\* never change, the tournament's row is a snapshot.
LoadGroup(r) ==
  /\ pc[r] = "idle"
  /\ \E v \in Voter, g \in Group, ordering \in Submissions :
       \/ /\ HasGroup(g)
          /\ tournaments[g[1]].publishedAt # None
          /\ cast' = [cast EXCEPT ![r] =
               [NoCast EXCEPT !.voter = v, !.group = g, !.ordering = ordering,
                              !.seen = tournaments[g[1]]]]
          /\ Goto(r, "loaded")
       \/ /\ ~HasGroup(g)
          /\ AnswerVoter(r, "NOT_FOUND")
  /\ UNCHANGED <<clock, tournaments, ballots, swap>>

\* The one reading of the clock, the window and the ballot's own rules.
CheckBallot(r) ==
  /\ pc[r] = "loaded"
  /\ \/ /\ ~isVotingOpen(cast[r].seen, clock)
        /\ AnswerVoter(r, "VOTING_CLOSED")
     \/ /\ isVotingOpen(cast[r].seen, clock)
        /\ ~validateBallot(GroupLineup(cast[r].group), cast[r].ordering)
        /\ AnswerVoter(r, "INVALID_BALLOT")
     \/ /\ isVotingOpen(cast[r].seen, clock)
        /\ validateBallot(GroupLineup(cast[r].group), cast[r].ordering)
        /\ cast' = [cast EXCEPT ![r].now = clock, ![r].seen = None]
        /\ Goto(r, "checked")
  /\ UNCHANGED <<clock, tournaments, ballots, swap>>

\* begin; select .. for share: waits for a replacement under way, then judges the row it left.
LockTournament_NoEarlyReturn(r) ==
  LET t == cast[r].group[1] IN
  /\ pc[r] = "checked"
  /\ Holding(t) = {}
  /\ StillOpen(t, cast[r].now)
  /\ Goto(r, "sharing")
  /\ UNCHANGED <<clock, tournaments, ballots, cast, swap>>

LockTournament(r) ==
  LET t == cast[r].group[1] IN
  /\ pc[r] = "checked"
  /\ Holding(t) = {}
  /\ IF StillOpen(t, cast[r].now)
     THEN Goto(r, "sharing") /\ UNCHANGED cast
     ELSE AnswerVoter(r, "VOTING_CLOSED")
  /\ UNCHANGED <<clock, tournaments, ballots, swap>>

(***************************************************************************)
(* insert into ballots, under unique (group_id, voter_id): a committed     *)
(* rival is a duplicate, which rolls back and is answered; an uncommitted  *)
(* one is waited for.                                                      *)
(***************************************************************************)
HasBallot(g, v) == \E b \in BallotsIn(g) : b.voter = v

Rivals(r) == {q \in Request \ {r} : /\ pc[q] = "inserted"
                                    /\ cast[q].group = cast[r].group
                                    /\ cast[q].voter = cast[r].voter}

InsertBallot_ConflictIgnored(r) ==
  /\ pc[r] = "sharing"
  /\ Rivals(r) = {}
  /\ Goto(r, IF HasBallot(cast[r].group, cast[r].voter) THEN "committed" ELSE "inserted")
  /\ UNCHANGED <<clock, tournaments, ballots, cast, swap>>

InsertBallot(r) ==
  /\ pc[r] = "sharing"
  /\ \/ /\ HasBallot(cast[r].group, cast[r].voter)
        /\ AnswerVoter(r, "ALREADY_VOTED")
     \/ /\ ~HasBallot(cast[r].group, cast[r].voter)
        /\ Rivals(r) = {}
        /\ Goto(r, "inserted")
        /\ UNCHANGED cast
  /\ UNCHANGED <<clock, tournaments, ballots, swap>>

\* The entries and the commit: ballot and entries become visible together.
CommitBallot(r) ==
  /\ pc[r] = "inserted"
  /\ ballots' = ballots \cup
       {[group |-> cast[r].group, voter |-> cast[r].voter,
         ordering |-> cast[r].ordering, carried |-> FALSE]}
  /\ Goto(r, "committed")
  /\ UNCHANGED <<clock, tournaments, cast, swap>>

\* results.countsForGroup and the answer; a group that counts nothing is an error.
\* The locals of a recorded ballot stay: they are the voter's receipt.
CountBallots(r) ==
  /\ pc[r] = "committed"
  /\ IF BallotsIn(cast[r].group) = {}
     THEN AnswerVoter(r, "EMPTY_RESULTS")
     ELSE Goto(r, "RECORDED") /\ UNCHANGED cast
  /\ UNCHANGED <<clock, tournaments, ballots, swap>>

\* A query fails, the connection is lost or the function is killed.  An open
\* transaction rolls back; a committed one stays, only its answer is lost.
FailCast(r) ==
  /\ pc[r] \in {"loaded", "checked", "sharing", "inserted", "committed"}
  /\ AnswerVoter(r, "FAILED")
  /\ UNCHANGED <<clock, tournaments, ballots, swap>>
-------------------------------------------------------------------------------
(***************************************************************************)
(* replaceTournament.                                                      *)
(***************************************************************************)

\* The confirmation and tournaments.findBySlug: any row has an address, an invalidated
\* one too, and an address may be nobody's.
LoadOriginal(o) ==
  /\ pc[o] = "idle"
  /\ \/ \E answer \in {"NOT_CONFIRMED", "NOT_FOUND"} : AnswerOrganiser(o, answer)
     \/ \E t \in Published, L \in Lineups, startsAt \in Instant :
          /\ swap' = [swap EXCEPT ![o] =
               [NoSwap EXCEPT !.original = t, !.seen = tournaments[t],
                              !.lineup = L, !.startsAt = startsAt]]
          /\ Goto(o, "loaded")
  /\ UNCHANGED <<clock, tournaments, ballots, cast>>

\* The rest of prepare: the one reading of the clock, the window, the new lineup's
\* own rules (its start is in the future) and the plan of what carries over.
Prepare(o) ==
  /\ pc[o] = "loaded"
  /\ \/ /\ ~isVotingOpen(swap[o].seen, clock)
        /\ AnswerOrganiser(o, "NOT_REPLACEABLE")
     \/ /\ isVotingOpen(swap[o].seen, clock)
        /\ swap[o].startsAt <= clock
        /\ AnswerOrganiser(o, "REJECTED")
     \/ /\ isVotingOpen(swap[o].seen, clock)
        /\ swap[o].startsAt > clock
        /\ swap' = [swap EXCEPT ![o].now = clock, ![o].seen = None,
                      ![o].todo = planCarryOver(swap[o].seen.lineup, swap[o].lineup)]
        /\ Goto(o, "prepared")
  /\ UNCHANGED <<clock, tournaments, ballots, cast>>

\* begin; select .. for update: waits for every other lock on the row.
LockOriginal(o) ==
  LET t == swap[o].original IN
  /\ pc[o] = "prepared"
  /\ Sharing(t) = {} /\ Holding(t) = {}
  /\ IF StillOpen(t, swap[o].now)
     THEN Goto(o, "locked") /\ UNCHANGED swap
     ELSE AnswerOrganiser(o, "NOT_REPLACEABLE")
  /\ UNCHANGED <<clock, tournaments, ballots, cast>>

\* insertPublication: a fresh id, unknown to everybody else until the commit.
InsertPublication(o) ==
  /\ pc[o] = "locked"
  /\ \E s \in Tournament \ Published :
       /\ \A q \in Organiser : swap[q].successor # s
       /\ swap' = [swap EXCEPT ![o].successor = s]
  /\ Goto(o, "copying")
  /\ UNCHANGED <<clock, tournaments, ballots, cast>>

\* The two insert .. select of one carried group.
CopyGroup(o) ==
  /\ pc[o] = "copying"
  /\ \E l \in swap[o].todo :
       LET t == swap[o].original IN
       swap' = [swap EXCEPT
         ![o].todo = @ \ {l},
         ![o].copies = @ \cup
           {carriedBallot(b, swap[o].successor, tournaments[t].lineup, swap[o].lineup) :
              b \in BallotsIn(<<t, l>>)}]
  /\ UNCHANGED <<clock, tournaments, ballots, pc, cast>>

\* The original leaves the competition and names its replacement.
invalidated(row, now, s) == [row EXCEPT !.invalidatedAt = now, !.replacedBy = s]

\* The original's invalidation and the commit: everything becomes visible together.
CommitReplacement(o) ==
  LET t == swap[o].original
      s == swap[o].successor
  IN
  /\ pc[o] = "copying"
  /\ swap[o].todo = {}
  /\ tournaments' = [x \in Published \cup {s} |->
       CASE x = s -> [lineup |-> swap[o].lineup, startsAt |-> swap[o].startsAt,
                      publishedAt |-> swap[o].now, invalidatedAt |-> None,
                      replacedBy |-> None]
         [] x = t -> invalidated(tournaments[t], swap[o].now, s)
         [] OTHER -> tournaments[x]]
  /\ ballots' = ballots \cup swap[o].copies
  /\ Goto(o, "committed")
  /\ UNCHANGED <<clock, cast, swap>>

\* The replacement read back with its counts, and the answer.
ReadReplacement(o) ==
  /\ pc[o] = "committed"
  /\ AnswerOrganiser(o, "REPLACED")
  /\ UNCHANGED <<clock, tournaments, ballots, cast>>

\* As FailCast: what was not committed is rolled back, a committed replacement stays
\* and only its answer is lost.
FailReplacement(o) ==
  /\ pc[o] \in {"loaded", "prepared", "locked", "copying", "committed"}
  /\ AnswerOrganiser(o, "FAILED")
  /\ UNCHANGED <<clock, tournaments, ballots, cast>>
-------------------------------------------------------------------------------
\* One tournament has been published, at instant 0, to start later.
Init ==
  /\ clock = 0
  /\ \E t \in Tournament, L \in Lineups, startsAt \in Instant \ {0} :
       tournaments = [x \in {t} |->
         [lineup |-> L, startsAt |-> startsAt, publishedAt |-> 0,
          invalidatedAt |-> None, replacedBy |-> None]]
  /\ ballots = {}
  /\ pc = [p \in Process |-> "idle"]
  /\ cast = [r \in Request |-> NoCast]
  /\ swap = [o \in Organiser |-> NoSwap]

Tick ==
  /\ clock < Horizon
  /\ clock' = clock + 1
  /\ UNCHANGED <<tournaments, ballots, pc, cast, swap>>

\* Every request has been served and the bounded clock has run out.
Rest ==
  /\ clock = Horizon
  /\ \A p \in Process : Answered(p)
  /\ UNCHANGED vars

CastStep(r) ==
  CheckBallot(r) \/ LockTournament(r) \/ InsertBallot(r) \/ CommitBallot(r) \/ CountBallots(r)

SwapStep(o) ==
  \/ Prepare(o) \/ LockOriginal(o) \/ InsertPublication(o)
  \/ CopyGroup(o) \/ CommitReplacement(o) \/ ReadReplacement(o)

Next ==
  \/ Tick
  \/ \E r \in Request : LoadGroup(r) \/ CastStep(r) \/ FailCast(r)
  \/ \E o \in Organiser : LoadOriginal(o) \/ SwapStep(o) \/ FailReplacement(o)
  \/ Rest

Spec == Init /\ [][Next]_vars

\* A request under way goes on: no step of it waits for the client.
Fairness ==
  /\ \A r \in Request : WF_vars(CastStep(r))
  /\ \A o \in Organiser : WF_vars(SwapStep(o))

FairSpec == Spec /\ Fairness
-------------------------------------------------------------------------------
(***************************************************************************)
(* Properties.                                                             *)
(***************************************************************************)
Row == [lineup : Lineups, startsAt : Instant, publishedAt : Instant,
        invalidatedAt : Instant \cup {None}, replacedBy : Tournament \cup {None}]
Ballot == [group : Group, voter : Voter, ordering : Seq(Nat), carried : BOOLEAN]
Cast == [voter : Voter \cup {None}, group : Group \cup {None},
         ordering : Submissions \cup {<<>>}, seen : Row \cup {None},
         now : Instant \cup {None}]
Swap == [original : Tournament \cup {None}, seen : Row \cup {None},
         lineup : Lineups \cup {<<>>}, startsAt : Instant \cup {None},
         now : Instant \cup {None}, todo : SUBSET Label, copies : SUBSET Ballot,
         successor : Tournament \cup {None}]
CastSteps == {"loaded", "checked", "sharing", "inserted", "committed"}
SwapSteps == {"loaded", "prepared", "locked", "copying", "committed"}

\* The tables and the locals of the requests keep their types, and a row is
\* invalidated exactly when it names its replacement (migration 0007).
TypeOK ==
  /\ clock \in Instant
  /\ Published \in SUBSET Tournament
  /\ tournaments \in [Published -> Row]
  /\ \A t \in Published : LET row == tournaments[t] IN
       (row.invalidatedAt = None) <=> (row.replacedBy = None)
  /\ ballots \in SUBSET Ballot
  /\ pc \in [Process -> {"idle"} \cup CastSteps \cup SwapSteps \cup Answers]
  /\ cast \in [Request -> Cast]
  /\ swap \in [Organiser -> Swap]

Replaced(t) == t \in Published /\ tournaments[t].invalidatedAt # None

\* The groups of the same label in a replaced tournament and in its replacement.
Counterpart(g) == <<tournaments[g[1]].replacedBy, g[2]>>
PairsOf(g) == {GroupLineup(g)[s] : s \in DOMAIN GroupLineup(g)}
Unchanged(g) ==
  /\ HasGroup(g) /\ Replaced(g[1])
  /\ HasGroup(Counterpart(g))
  /\ PairsOf(g) = PairsOf(Counterpart(g))

\* The same voter gives every pair the same position in both ballots.
SameVote(a, b) ==
  /\ a.voter = b.voter
  /\ \A i \in DOMAIN GroupLineup(a.group), j \in DOMAIN GroupLineup(b.group) :
       GroupLineup(a.group)[i] = GroupLineup(b.group)[j] => a.ordering[i] = b.ordering[j]

\* No ballot is lost to a replacement: one that counts in a group whose pairs the
\* replacement left as they were counts there too, with the same positions,
\* however its insert raced the replacement (FR-207, research R4).
NoLostBallot ==
  \A a \in ballots : Unchanged(a.group) =>
    \E b \in BallotsIn(Counterpart(a.group)) : SameVote(a, b)

\* A replacement brings no ballot of its own making: each carried ballot repeats
\* one of the group it came from, whose pairs were the same (FR-206, FR-209).
NothingInvented ==
  \A b \in ballots : b.carried =>
    \E a \in ballots : /\ Replaced(a.group[1])
                       /\ b.group = Counterpart(a.group)
                       /\ Unchanged(a.group)
                       /\ SameVote(a, b)

\* A voter has at most one ballot in a group, whether cast there or carried into
\* it, and however many requests of the same voter run at once (SC-009).
OneBallotPerVoter ==
  \A a, b \in ballots : a.group = b.group /\ a.voter = b.voter => a = b

\* Every ballot that counts ranks every pair of its group and uses every position,
\* a carried one as much as a cast one (FR-010).
WholeBallots ==
  \A b \in ballots :
    /\ DOMAIN b.ordering = DOMAIN GroupLineup(b.group)
    /\ \A p \in 1..Len(GroupLineup(b.group)) : \E s \in DOMAIN b.ordering : b.ordering[s] = p

\* A voter told that the ballot was recorded has that ballot in the table, as sent.
ReceiptHonoured ==
  \A r \in Request : pc[r] = "RECORDED" =>
    [group |-> cast[r].group, voter |-> cast[r].voter,
     ordering |-> cast[r].ordering, carried |-> FALSE] \in ballots

\* The results are never empty after a ballot has been inserted: castBallot's own
\* assertion, which it answers with a 500 (cast-ballot.ts, FR-019).
NeverEmptyResults == \A r \in Request : pc[r] # "EMPTY_RESULTS"

\* Exactly one tournament of the lineage is live, and following replacedBy from any
\* other leads to it: the links have no cycle (spec 003, Key Entities).
OneLiveEnd ==
  /\ Cardinality({t \in Published : ~Replaced(t)}) = 1
  /\ \A t \in Published : Replaced(t) => tournaments[t].replacedBy \in Published
  /\ \A S \in SUBSET Published :
       (\A t \in S : Replaced(t) /\ tournaments[t].replacedBy \in S) => S = {}

\* A replaced tournament is a frozen record: none of its groups gains or loses a
\* ballot, not even one whose insert was under way (FR-207, SC-204).
FrozenRecord ==
  [][\A t \in Published : Replaced(t) =>
       /\ tournaments'[t] = tournaments[t]
       /\ {b \in ballots' : b.group[1] = t} = {b \in ballots : b.group[1] = t}]_vars

Votes(g, pair, position) ==
  Cardinality({b \in BallotsIn(g) : \E s \in DOMAIN GroupLineup(g) :
                 GroupLineup(g)[s] = pair /\ b.ordering[s] = position})

\* Across the step that replaces a tournament the votes of an unchanged group are
\* the same, pair by pair and position by position, and a changed group starts with
\* no ballot (SC-202, SC-203).
ReplacementIsExact ==
  [][\A t \in Published : ~Replaced(t) /\ Replaced(t)' =>
       \A l \in DOMAIN tournaments'[tournaments'[t].replacedBy].lineup :
         LET g == <<t, l>>
         IN  IF Unchanged(g)'
             THEN \A pair \in PairsOf(g), p \in 1..Len(GroupLineup(g)) :
                    Votes(g, pair, p) = Votes(Counterpart(g), pair, p)'
             ELSE BallotsIn(Counterpart(g))' = {}]_vars

\* Every request is answered: no wait for a row lock or for a rival insert lasts
\* for ever, whatever fails in the middle of a transaction.
EventuallyAnswered == \A p \in Process : pc[p] # "idle" ~> Answered(p)

\* Each commit is one step of the ledger, and every other step none.
Ledger == INSTANCE VoteLedger WITH
  lineup     <- [t \in Published |-> tournaments[t].lineup],
  replacedBy <- [t \in Published |-> tournaments[t].replacedBy]

ImplementsLedger == Ledger!Spec

(***************************************************************************)
(* The tables as they are read (module Lineage): rows without the lineup,  *)
(* and each ballot by its group and voter, as the position of every pair.  *)
(***************************************************************************)
SeenRow(row) == [publishedAt |-> row.publishedAt, startsAt |-> row.startsAt,
                 invalidatedAt |-> row.invalidatedAt, replacedBy |-> row.replacedBy]
SeenRows == [t \in Published |-> SeenRow(tournaments[t])]

Positions(group, ordering) ==
  [pair \in {group[s] : s \in DOMAIN group} |->
     ordering[CHOOSE s \in DOMAIN group : group[s] = pair]]
BallotOf(g, v) == CHOOSE b \in ballots : b.group = g /\ b.voter = v
SeenBallots ==
  [x \in {<<b.group, b.voter>> : b \in ballots} |->
     Positions(GroupLineup(x[1]), BallotOf(x[1], x[2]).ordering)]

\* Any positions of the pairs of any group.
AllOrderings ==
  UNION {UNION {[{L[l][s] : s \in DOMAIN L[l]} -> 1..Len(L[l])] : l \in DOMAIN L} : L \in Lineups}

Read == INSTANCE Lineage WITH
  Orderings <- AllOrderings, Lag <- Horizon,
  tournaments <- SeenRows, ballots <- SeenBallots

TablesStay == UNCHANGED <<clock, tournaments, ballots>>

\* To a reader every commit is one step that the window allowed at an instant that had
\* come, and no other step is seen: what Reveal assumes of the tables it reads.
ImplementsLineage == Read!LineageInit /\ [][TablesStay \/ Read!LineageNext]_vars
===============================================================================
