----------------------------- MODULE RevealProofs -----------------------------
(***************************************************************************)
(* The inductive invariant of Reveal, one lemma per action, and what it    *)
(* gives: nothing leaks, final results are exact and the page tells why,   *)
(* for any number of tournaments, groups and voters, any clock and any     *)
(* time a write may take.                                                  *)
(***************************************************************************)
EXTENDS Reveal, ScoringProofs, SequenceTheorems

Row == [publishedAt   : Nat, startsAt : Nat,
        invalidatedAt : Nat \cup {None}, replacedBy : Tournament \cup {None}]

Live(t) == t \in Published /\ tournaments[t].replacedBy = None

\* A lineage has one live end, and it is the one that is not invalidated.
TablesKeep ==
  /\ clock \in Nat
  /\ Published \subseteq Tournament
  /\ tournaments \in [Published -> Row]
  /\ DOMAIN ballots \subseteq (Published \X Label) \X Voter
  /\ \A t \in Published : tournaments[t].replacedBy = None <=> tournaments[t].invalidatedAt = None
  /\ \E t : Live(t)
  /\ \A t, u : Live(t) /\ Live(u) => t = u

Steps == {"group", "own", "chained", "countGroup",
          "tournament", "timed", "followed", "countTournament"}

RequestTyped ==
  /\ pc \in {"idle"} \cup Steps \cup Answers
  /\ pc = "idle" => asked = NotAsked
  /\ asked = [caller |-> asked.caller, tournament |-> asked.tournament, labels |-> asked.labels]
  /\ asked.labels \subseteq Label
  /\ pc # "idle" => asked.tournament \in Published
  /\ pc \in {"group", "own", "chained", "countGroup"} => \E l : asked.labels = {l}
  /\ read = [row |-> read.row, now |-> read.now, liveSuccessor |-> read.liveSuccessor,
             voted |-> read.voted, totals |-> read.totals, positions |-> read.positions]
  /\ pc # "idle" => read.row \in Row
  /\ pc \notin Answers => shown = <<>>

\* What was read is still so, unless a replacement came between; a ballot read and an
\* invalidation read are for ever.
RequestKnows ==
  /\ pc # "idle" /\ ~overtaken => read.row = tournaments[asked.tournament]
  /\ pc # "idle" /\ read.row.invalidatedAt # None =>
       tournaments[asked.tournament].invalidatedAt # None
  /\ pc # "idle" /\ ~overtaken /\ read.liveSuccessor # None =>
       \E e : Live(e) /\ read.liveSuccessor = tournaments[e]
  /\ \A l \in read.voted : l \in asked.labels /\ HasBallot(<<asked.tournament, l>>, asked.caller)
  /\ pc \in {"timed", "followed", "countTournament"} => read.now \in Nat /\ read.now <= clock

\* What the rule allows now is remembered, and nothing else is counted or shown.
GateKept ==
  /\ EarnedNow \subseteq earned
  /\ pc = "countGroup" /\ ~overtaken => asked.labels \subseteq earned
  /\ NothingLeaks

Totals == [l \in asked.labels |-> ballotCount(BallotsOf(<<asked.tournament, l>>))]
Positions == [l \in asked.labels |-> positionCounts(BallotsOf(<<asked.tournament, l>>))]

\* The ballots of a group that is settled do not change: what was counted is what
\* there is.
FinalKept ==
  atStart.settled =>
    /\ pc # "idle" /\ Settled(asked.tournament)
    /\ read.totals # <<>> => read.totals = Totals
    /\ read.positions # <<>> => read.positions = Positions
    /\ FinalResultsAreExact

\* A group that had a ballot when it was asked for is counted with one.
PageKept ==
  /\ \A l \in atStart.counted : \E u \in Voter : HasBallot(<<asked.tournament, l>>, u)
  /\ read.totals # <<>> =>
       \A l \in asked.labels : l \in atStart.counted => read.totals[l] \in Nat \ {0}
  /\ pc = "DETAIL" =>
       /\ read.totals # <<>>
       /\ shown = [l \in asked.labels |->
                     IF isRevealed(read.row, l \in read.voted, read.now, read.liveSuccessor)
                     THEN Score(l) ELSE NoResults]

IInv == TablesKeep /\ RequestTyped /\ RequestKnows /\ GateKept /\ FinalKept /\ PageKept

-------------------------------------------------------------------------------
\* The tables and the rule.

\* There is one live end to speak of.
LEMMA LiveRule ==
  ASSUME TablesKeep, NEW e, Live(e), NEW v, NEW g
  PROVE  MayBeShown(v, g) <=> clock >= tournaments[e].startsAt \/ (g[1] = e /\ HasBallot(g, v))
  <1>1. (CHOOSE t \in Published : tournaments[t].replacedBy = None) = e
    BY DEF TablesKeep, Live
  <1> QED BY <1>1 DEF MayBeShown

\* A row that is not invalidated is the live end's, and any other's live successor is.
LEMMA GateIsRule ==
  ASSUME TablesKeep, NEW t \in Published, NEW v, NEW l, NEW hasVoted \in BOOLEAN,
         NEW now \in Nat, now <= clock, NEW successor,
         successor # None => \E e : Live(e) /\ successor = tournaments[e],
         hasVoted => HasBallot(<<t, l>>, v),
         isRevealed(tournaments[t], hasVoted, now, successor)
  PROVE  MayBeShown(v, <<t, l>>)
  <1>1. PICK e : Live(e)
    BY DEF TablesKeep
  <1>2. tournaments[e] \in Row /\ tournaments[e].invalidatedAt = None
    BY <1>1 DEF TablesKeep, Live
  <1>3. CASE tournaments[t].invalidatedAt = None
    <2>1. t = e
      BY <1>1, <1>3 DEF TablesKeep, Live
    <2>2. hasVoted \/ now >= tournaments[t].startsAt
      BY <1>2, <1>3, <2>1 DEF isRevealed, tournamentStatusAt, Row
    <2> QED BY <1>1, <1>2, <2>1, <2>2, LiveRule DEF TablesKeep, Row
  <1>4. CASE tournaments[t].invalidatedAt # None
    <2>1. successor # None /\ tournamentStatusAt(successor, now) = "closed"
      BY <1>4 DEF isRevealed
    <2>2. successor = tournaments[e]
      BY <1>1, <2>1 DEF TablesKeep
    <2>3. now >= tournaments[e].startsAt
      BY <1>2, <2>1, <2>2 DEF tournamentStatusAt, Row
    <2> QED BY <1>1, <1>2, <2>3, LiveRule DEF TablesKeep, Row
  <1> QED BY <1>3, <1>4

\* The end of the chain the query returns is live, or there is none.
LEMMA SuccessorIsLive ==
  ASSUME TablesKeep, NEW t, findLiveSuccessor(t) # None
  PROVE  \E e : Live(e) /\ findLiveSuccessor(t) = tournaments[e]
  <1> DEFINE chain == CHOOSE f : f = [n \in Nat |->
                        IF n = 0 THEN tournaments[t].replacedBy
                        ELSE LET s == f[n - 1] IN
                             IF s # None /\ tournaments[s].replacedBy # None
                             THEN tournaments[s].replacedBy ELSE s]
             end == chain[Cardinality(Published)]
  <1>1. findLiveSuccessor(t) = IF end \in Published /\ tournaments[end].invalidatedAt = None
                               THEN tournaments[end] ELSE None
    BY DEF findLiveSuccessor
  <1> HIDE DEF end
  <1> QED BY <1>1 DEF TablesKeep, Live

-------------------------------------------------------------------------------
\* One lemma per action: the world.

\* A settled group takes no ballot, and another's ballot does not touch it.
LEMMA VoteInv ==
  ASSUME IInv, Vote
  PROVE  IInv'
  <1> USE DEF IInv
  <1>1. PICK v \in Voter, g \in Group, o \in Orderings :
          /\ g[1] \in Published
          /\ \E now \in Recent : StillOpen(g[1], now)
          /\ ballots' = [x \in DOMAIN ballots \cup {<<g, v>>} |->
                           IF x = <<g, v>> THEN o ELSE ballots[x]]
    BY DEF Vote, CommitVote
  <1>2. UNCHANGED <<clock, tournaments, pc, asked, read, shown, atStart, overtaken>>
    BY DEF Vote, CommitVote
  <1>3. earned' = earned \cup EarnedNow'
    BY DEF Vote, CommitVote, Remember
  <1>4. \A h, u : HasBallot(h, u) => HasBallot(h, u)'
    BY <1>1 DEF HasBallot
  <1>5. TablesKeep'
    BY <1>1, <1>2 DEF TablesKeep, Published, Live, Group
  <1>6. RequestTyped'
    BY <1>2 DEF RequestTyped, Published
  <1>7. RequestKnows'
    BY <1>2, <1>4 DEF RequestKnows, Live, Published
  <1>8. GateKept'
    BY <1>2, <1>3 DEF GateKept, NothingLeaks, ShownLabels
  <1>9. FinalKept'
    <2> SUFFICES ASSUME atStart.settled
                 PROVE  /\ (pc # "idle" /\ Settled(asked.tournament))'
                        /\ (read.totals # <<>> => read.totals = Totals)'
                        /\ (read.positions # <<>> => read.positions = Positions)'
                        /\ FinalResultsAreExact'
      BY <1>2 DEF FinalKept
    <2>1. pc # "idle" /\ Settled(asked.tournament)
      BY DEF FinalKept
    <2>2. g[1] # asked.tournament
      <3>1. asked.tournament \in Published
        BY <2>1 DEF RequestTyped
      <3>2. tournaments[asked.tournament].startsAt \in Nat
        BY <3>1 DEF TablesKeep, Row
      <3> QED BY <1>1, <2>1, <3>2, LineageConstants DEF StillOpen, Recent, Settled, Instant, TablesKeep
    <2>3. \A l : BallotsOf(<<asked.tournament, l>>)' = BallotsOf(<<asked.tournament, l>>)
      BY <1>1, <1>2, <2>2 DEF BallotsOf
    <2>4. Settled(asked.tournament)'
      BY <1>2, <2>1 DEF Settled
    <2>5. Totals' = Totals /\ Positions' = Positions
      BY <1>2, <2>3 DEF Totals, Positions
    <2>6. FinalResultsAreExact'
      BY <1>2, <2>3 DEF FinalKept, FinalResultsAreExact, ShownLabels, ExactResults
    <2> QED BY <1>2, <2>1, <2>4, <2>5, <2>6 DEF FinalKept
  <1>10. PageKept'
    BY <1>2, <1>4 DEF PageKept, Score
  <1> QED BY <1>5, <1>6, <1>7, <1>8, <1>9, <1>10

\* A settled tournament is not replaced once more, and a replacement writes no ballot
\* of any tournament there was.
LEMMA ReplaceInv ==
  ASSUME IInv, Replace
  PROVE  IInv'
  <1> USE DEF IInv
  <1>1. PICK t \in Published, s \in Tournament \ Published, start \in Instant,
             kept \in SUBSET Label, now \in Recent :
          /\ StillOpen(t, now)
          /\ tournaments' = Replaced(t, s, start, now)
          /\ ballots' = WithCopies(t, s, kept)
    BY DEF Replace, CommitReplacement
  <1>2. UNCHANGED <<clock, pc, asked, read, shown, atStart>> /\ (pc # "idle" => overtaken')
    BY DEF Replace, CommitReplacement
  <1>3. earned' = earned \cup EarnedNow' /\ (overtaken => overtaken')
    BY DEF Replace, CommitReplacement, Remember
  <1>4. \A h, u : HasBallot(h, u) => HasBallot(h, u)'
    BY <1>1 DEF HasBallot, WithCopies
  <1>5. now \in Nat /\ start \in Nat /\ s # None /\ s # t /\ tournaments[t] \in Row
    BY <1>1, LineageConstants DEF Recent, Instant, TablesKeep
  <1>6. /\ Published' = Published \cup {s}
        /\ tournaments'[s] \in Row /\ tournaments'[t] \in Row
        /\ tournaments'[s].invalidatedAt = None /\ tournaments'[s].replacedBy = None
        /\ tournaments'[t].invalidatedAt = now /\ tournaments'[t].replacedBy = s
        /\ \A x \in Published \ {t} : tournaments'[x] = tournaments[x]
    <2>1. Published' = Published \cup {s} /\ \A x \in Published \ {t} : tournaments'[x] = tournaments[x]
      BY <1>1, <1>5 DEF Replaced, Published
    <2>2. tournaments'[s] = [publishedAt |-> now, startsAt |-> start,
                             invalidatedAt |-> None, replacedBy |-> None]
      BY <1>1, <1>5 DEF Replaced, Published
    <2>3. tournaments'[t] = [tournaments[t] EXCEPT !.invalidatedAt = now, !.replacedBy = s]
      BY <1>1, <1>5 DEF Replaced, Published
    <2>4. /\ tournaments'[s] \in Row
          /\ tournaments'[s].invalidatedAt = None /\ tournaments'[s].replacedBy = None
      BY <1>5, <2>2 DEF Row
    <2>5. /\ tournaments'[t] \in Row
          /\ tournaments'[t].invalidatedAt = now /\ tournaments'[t].replacedBy = s
      <3> DEFINE row == tournaments[t]
      <3>1. row \in Row /\ tournaments'[t] = [row EXCEPT !.invalidatedAt = now, !.replacedBy = s]
        BY <1>5, <2>3
      <3> HIDE DEF row
      <3> QED BY <1>5, <3>1 DEF Row
    <2> QED BY <2>1, <2>4, <2>5
  <1>7. TablesKeep'
    <2>1. tournaments' \in [Published' -> Row'] /\ Published' \subseteq Tournament
      <3>1. /\ tournaments'[s] \in Row
            /\ tournaments'[t] \in Row
            /\ \A x \in Published \ {t} : tournaments'[x] \in Row
        BY <1>6 DEF TablesKeep
      <3>2. \A x \in Published' : tournaments'[x] \in Row
        BY <1>6, <3>1
      <3>3. tournaments' = [x \in Published' |-> tournaments'[x]]
        BY <1>1, <1>6 DEF Replaced
      <3> QED BY <1>6, <3>2, <3>3 DEF TablesKeep, Row
    <2>2. DOMAIN ballots' \subseteq (Published' \X Label) \X Voter
      BY <1>1, <1>6 DEF TablesKeep, WithCopies
    <2>3. \A x \in Published : tournaments[x].replacedBy = None <=> tournaments[x].invalidatedAt = None
      BY DEF TablesKeep
    <2>4. \A x \in Published' : tournaments'[x].replacedBy = None <=> tournaments'[x].invalidatedAt = None
      BY <1>5, <1>6, <2>3, NoneAssumption
    <2>5. Live(t) /\ \A x : Live(x) => x = t
      BY <1>1, <2>3 DEF StillOpen, TablesKeep, Live
    <2>6. \A x : Live(x)' <=> x = s
      BY <1>5, <1>6, <2>5 DEF Live
    <2> QED BY <1>2, <2>1, <2>2, <2>4, <2>6 DEF TablesKeep
  <1>8. RequestTyped'
    BY <1>2, <1>6 DEF RequestTyped, Row
  <1>9. RequestKnows'
    <2>1. \A x \in Published : tournaments[x].invalidatedAt # None => tournaments'[x].invalidatedAt # None
      BY <1>5, <1>6, NoneAssumption DEF Row
    <2> QED BY <1>2, <1>4, <2>1 DEF RequestKnows, RequestTyped
  <1>10. GateKept'
    BY <1>2, <1>3 DEF GateKept, NothingLeaks, ShownLabels, RequestTyped, Answers, Steps
  <1>11. FinalKept'
    <2> SUFFICES ASSUME atStart.settled
                 PROVE  /\ (pc # "idle" /\ Settled(asked.tournament))'
                        /\ (read.totals # <<>> => read.totals = Totals)'
                        /\ (read.positions # <<>> => read.positions = Positions)'
                        /\ FinalResultsAreExact'
      BY <1>2 DEF FinalKept
    <2>1. pc # "idle" /\ Settled(asked.tournament) /\ asked.tournament \in Published
      BY DEF FinalKept, RequestTyped
    <2>2. t # asked.tournament
      <3>1. tournaments[asked.tournament].startsAt \in Nat
        BY <2>1 DEF TablesKeep, Row
      <3> QED BY <1>1, <2>1, <3>1, LineageConstants DEF StillOpen, Recent, Settled, Instant, TablesKeep
    <2>3. \A l : BallotsOf(<<asked.tournament, l>>)' = BallotsOf(<<asked.tournament, l>>)
      <3>1. asked.tournament # s
        BY <2>1
      <3>2. \A l, u : <<<<asked.tournament, l>>, u>> \in DOMAIN ballots'
                        <=> <<<<asked.tournament, l>>, u>> \in DOMAIN ballots
        BY <1>1, <3>1 DEF WithCopies
      <3>3. \A l, u : <<<<asked.tournament, l>>, u>> \in DOMAIN ballots =>
              ballots'[<<<<asked.tournament, l>>, u>>] = ballots[<<<<asked.tournament, l>>, u>>]
        BY <1>1, <3>1 DEF WithCopies
      <3> QED BY <1>2, <3>2, <3>3 DEF BallotsOf
    <2>4. Settled(asked.tournament)'
      BY <1>2, <1>6, <2>1, <2>2 DEF Settled
    <2>5. Totals' = Totals /\ Positions' = Positions
      BY <1>2, <2>3 DEF Totals, Positions
    <2>6. FinalResultsAreExact'
      BY <1>2, <2>3 DEF FinalKept, FinalResultsAreExact, ShownLabels, ExactResults
    <2> QED BY <1>2, <2>1, <2>4, <2>5, <2>6 DEF FinalKept
  <1>12. PageKept'
    BY <1>2, <1>4 DEF PageKept, Score
  <1> QED BY <1>7, <1>8, <1>9, <1>10, <1>11, <1>12

\* What is settled stays settled, and an instant read is in the past.
LEMMA TickInv ==
  ASSUME IInv, Tick
  PROVE  IInv'
  <1> USE DEF IInv
  <1>1. UNCHANGED <<tournaments, ballots, pc, asked, read, shown, atStart, overtaken>>
    BY DEF Tick, PassTime
  <1>2. clock' = clock + 1 /\ earned' = earned \cup EarnedNow'
    BY DEF Tick, PassTime, Remember
  <1>3. TablesKeep'
    BY <1>1, <1>2 DEF TablesKeep, Published, Live
  <1>4. RequestTyped'
    BY <1>1 DEF RequestTyped, Published
  <1>5. RequestKnows'
    BY <1>1, <1>2 DEF RequestKnows, Live, Published, HasBallot, TablesKeep
  <1>6. GateKept'
    BY <1>1, <1>2 DEF GateKept, NothingLeaks, ShownLabels
  <1>7. FinalKept'
    <2>1. Totals' = Totals /\ Positions' = Positions /\ (FinalResultsAreExact => FinalResultsAreExact')
      BY <1>1 DEF Totals, Positions, FinalResultsAreExact, ShownLabels, ExactResults, BallotsOf
    <2>2. pc # "idle" /\ Settled(asked.tournament) => Settled(asked.tournament)'
      BY <1>1, <1>2, LineageConstants DEF Settled, RequestTyped, TablesKeep, Row
    <2> QED BY <1>1, <2>1, <2>2 DEF FinalKept
  <1>8. PageKept'
    BY <1>1 DEF PageKept, Score, HasBallot
  <1> QED BY <1>3, <1>4, <1>5, <1>6, <1>7, <1>8

-------------------------------------------------------------------------------
\* One lemma per action: the request.

\* A query changes nothing but what has been read.
LEMMA Undisturbed ==
  ASSUME TablesKeep, UNCHANGED <<world, asked, atStart, overtaken>>
  PROVE  /\ TablesKeep'
         /\ EarnedNow' = EarnedNow
         /\ Totals' = Totals /\ Positions' = Positions
         /\ \A h, u : HasBallot(h, u)' <=> HasBallot(h, u)
         /\ \A t : Settled(t)' <=> Settled(t)
         /\ \A e : Live(e)' <=> Live(e)
  <1> USE DEF world
  <1>1. TablesKeep'
    BY DEF TablesKeep, Published, Live
  <1>2. PICK e : Live(e) /\ Live(e)'
    BY DEF TablesKeep, Published, Live
  <1>3. \A v, g : MayBeShown(v, g)' <=> MayBeShown(v, g)
    <2>1. (CHOOSE t \in Published : tournaments[t].replacedBy = None)' = e
      BY <1>1, <1>2 DEF TablesKeep, Live
    <2>2. (CHOOSE t \in Published : tournaments[t].replacedBy = None) = e
      BY <1>2 DEF TablesKeep, Live
    <2> QED BY <2>1, <2>2 DEF MayBeShown, HasBallot
  <1>4. EarnedNow' = EarnedNow
    BY <1>3 DEF EarnedNow
  <1>5. Totals' = Totals /\ Positions' = Positions
    BY DEF Totals, Positions, BallotsOf
  <1> QED BY <1>1, <1>4, <1>5 DEF HasBallot, Settled, Live, Published

\* The first query of a request.
LEMMA AskInv ==
  ASSUME IInv, NEW v, NEW t \in Published, NEW labels \in SUBSET Label,
         NEW step \in {"group", "tournament"}, step = "group" => \E l : labels = {l},
         Ask(v, t, labels, step)
  PROVE  IInv'
  <1> USE DEF IInv
  <1>1. /\ asked' = [caller |-> v, tournament |-> t, labels |-> labels]
        /\ read' = [NotRead EXCEPT !.row = tournaments[t]]
        /\ pc' = step /\ pc = "idle"
        /\ atStart' = [voted   |-> {l \in labels : HasBallot(<<t, l>>, v)},
                       counted |-> {l \in labels : \E u \in Voter : HasBallot(<<t, l>>, u)},
                       settled |-> Settled(t)]
        /\ earned' = {l \in labels : MayBeShown(v, <<t, l>>)}
        /\ UNCHANGED <<clock, tournaments, ballots, shown, overtaken>>
    BY DEF Ask, world
  <1>2. read' = [row |-> tournaments[t], now |-> None, liveSuccessor |-> None, voted |-> {},
                 totals |-> <<>>, positions |-> <<>>]
    BY <1>1 DEF NotRead
  <1>3. shown' = <<>> /\ shown = <<>>
    BY <1>1 DEF RequestTyped, Answers
  <1>4. TablesKeep'
    BY <1>1 DEF TablesKeep, Published, Live
  <1>5. RequestTyped'
    BY <1>1, <1>2, <1>3 DEF RequestTyped, Published, Steps, Answers, TablesKeep, Row
  <1>6. RequestKnows'
    BY <1>1, <1>2 DEF RequestKnows
  <1>7. GateKept'
    <2>1. PICK e : Live(e) /\ Live(e)'
      BY <1>1 DEF TablesKeep, Live, Published
    <2>2. (CHOOSE x \in Published : tournaments[x].replacedBy = None)' = e
      BY <1>4, <2>1 DEF TablesKeep, Live
    <2>3. (CHOOSE x \in Published : tournaments[x].replacedBy = None) = e
      BY <2>1 DEF TablesKeep, Live
    <2>4. \A g : MayBeShown(v, g)' <=> MayBeShown(v, g)
      BY <1>1, <2>2, <2>3 DEF MayBeShown, HasBallot
    <2>5. EarnedNow' = earned'
      BY <1>1, <2>4 DEF EarnedNow
    <2> QED BY <1>1, <1>3, <2>5 DEF GateKept, NothingLeaks, ShownLabels
  <1>8. FinalKept'
    <2>1. atStart'.settled => Settled(asked.tournament)'
      BY <1>1 DEF Settled
    <2>2. FinalResultsAreExact'
      BY <1>3 DEF FinalResultsAreExact, ShownLabels
    <2> QED BY <1>1, <1>2, <2>1, <2>2 DEF FinalKept
  <1>9. PageKept'
    BY <1>1, <1>2 DEF PageKept, HasBallot
  <1> QED BY <1>4, <1>5, <1>6, <1>7, <1>8, <1>9

\* The queries that find things out: own ballots, the live successor, the clock.
LEMMA ReadInv ==
  ASSUME IInv, FindOwn \/ FollowGroup \/ ReadClock \/ FollowTournament \/ FindVoted
  PROVE  IInv'
  <1> USE DEF IInv
  <1>1. UNCHANGED <<world, asked, shown, earned, atStart, overtaken>>
    BY DEF FindOwn, FollowGroup, ReadClock, FollowTournament, FindVoted, Continue, history
  <1>2. /\ pc \in {"group", "own", "tournament", "timed", "followed"}
        /\ pc' \in {"own", "chained", "timed", "followed", "countTournament"}
        /\ pc \in {"group", "own"} <=> pc' \in {"own", "chained"}
        /\ pc \in {"timed", "followed"} => pc' \in {"followed", "countTournament"}
    BY DEF FindOwn, FollowGroup, ReadClock, FollowTournament, FindVoted, Continue
  <1>3. /\ read' = [row |-> read.row, now |-> read'.now, liveSuccessor |-> read'.liveSuccessor,
                    voted |-> read'.voted, totals |-> read.totals, positions |-> read.positions]
        /\ read'.liveSuccessor \in {read.liveSuccessor, LiveSuccessor}
        /\ read'.voted \in {read.voted, Voted}
        /\ IF pc = "tournament" THEN read'.now = clock ELSE read'.now = read.now
    BY DEF FindOwn, FollowGroup, ReadClock, FollowTournament, FindVoted, Continue, RequestTyped
  <1>4. shown = <<>>
    BY <1>2 DEF RequestTyped, Answers
  <1>5. TablesKeep'
    BY <1>1, Undisturbed
  <1>6. RequestTyped'
    BY <1>1, <1>2, <1>3, <1>4 DEF RequestTyped, Steps, Answers, world, Published, Row
  <1>7. RequestKnows'
    <2>1. LiveSuccessor # None => \E e : Live(e) /\ LiveSuccessor = tournaments[e]
      BY SuccessorIsLive DEF LiveSuccessor
    <2>2. \A l \in Voted : l \in asked.labels /\ HasBallot(<<asked.tournament, l>>, asked.caller)
      BY DEF Voted
    <2>3. pc' \in {"timed", "followed", "countTournament"} => read'.now \in Nat /\ read'.now <= clock'
      BY <1>1, <1>2, <1>3 DEF RequestKnows, TablesKeep, world
    <2>4. pc # "idle" /\ UNCHANGED <<clock, tournaments, ballots, asked, overtaken>> /\ read'.row = read.row
      BY <1>1, <1>2, <1>3 DEF world
    <2>5. ~overtaken /\ read'.liveSuccessor # None =>
            \E e : Live(e)' /\ read'.liveSuccessor = tournaments'[e]
      <3>1. ~overtaken /\ read'.liveSuccessor # None =>
              \E e : Live(e) /\ read'.liveSuccessor = tournaments[e]
        BY <1>3, <2>1, <2>4 DEF RequestKnows
      <3> QED BY <1>1, <2>4, <3>1, Undisturbed
    <2>6. \A l \in read'.voted : l \in asked'.labels /\ HasBallot(<<asked.tournament, l>>, asked.caller)'
      <3>1. \A l \in read'.voted : l \in asked.labels /\ HasBallot(<<asked.tournament, l>>, asked.caller)
        BY <1>3, <2>2 DEF RequestKnows
      <3> QED BY <2>4, <3>1 DEF HasBallot
    <2>7. (pc # "idle" /\ ~overtaken => read.row = tournaments[asked.tournament])'
      BY <2>4 DEF RequestKnows
    <2>8. (pc # "idle" /\ read.row.invalidatedAt # None =>
             tournaments[asked.tournament].invalidatedAt # None)'
      BY <2>4 DEF RequestKnows
    <2>9. (pc # "idle" /\ ~overtaken /\ read.liveSuccessor # None =>
             \E e : Live(e) /\ read.liveSuccessor = tournaments[e])'
      BY <2>4, <2>5
    <2> QED BY <2>3, <2>6, <2>7, <2>8, <2>9 DEF RequestKnows
  <1>8. GateKept'
    BY <1>1, <1>2, <1>4, Undisturbed DEF GateKept, NothingLeaks, ShownLabels
  <1>9. FinalKept'
    BY <1>1, <1>2, <1>3, <1>4, Undisturbed DEF FinalKept, FinalResultsAreExact, ShownLabels
  <1>10. PageKept'
    BY <1>1, <1>2, <1>3, Undisturbed DEF PageKept
  <1> QED BY <1>5, <1>6, <1>7, <1>8, <1>9, <1>10

\* The gate is asked, and the group is counted only if the rule allows it now.
LEMMA JudgeInv ==
  ASSUME IInv, JudgeGroup
  PROVE  IInv'
  <1> USE DEF IInv
  <1>1. /\ UNCHANGED <<world, asked, shown, earned, atStart, overtaken>>
        /\ pc = "chained" /\ pc' \in {"countGroup", "RESULTS_HIDDEN"}
        /\ read' = [read EXCEPT !.now = clock]
        /\ pc' = "countGroup" => isRevealed(read.row, read.voted # {}, clock, read.liveSuccessor)
    BY DEF JudgeGroup, Continue, history
  <1>2. read' = [row |-> read.row, now |-> clock, liveSuccessor |-> read.liveSuccessor,
                 voted |-> read.voted, totals |-> read.totals, positions |-> read.positions]
    BY <1>1 DEF RequestTyped
  <1>3. shown = <<>>
    BY <1>1 DEF RequestTyped, Answers
  <1>4. UNCHANGED <<clock, tournaments, ballots>>
    BY <1>1 DEF world
  <1>5. TablesKeep'
    BY <1>1, Undisturbed
  <1>6. RequestTyped'
    BY <1>1, <1>2, <1>3, <1>4 DEF RequestTyped, Steps, Answers, Published, Row
  <1>7. RequestKnows'
    BY <1>1, <1>2, <1>4 DEF RequestKnows, HasBallot, Live, Published
  <1>8. GateKept'
    <2>1. ASSUME pc' = "countGroup", ~overtaken
          PROVE  asked.labels \subseteq earned
      <3>1. PICK l : asked.labels = {l}
        BY <1>1 DEF RequestTyped
      <3>2. read.row = tournaments[asked.tournament] /\ asked.tournament \in Published
        BY <1>1, <2>1 DEF RequestKnows, RequestTyped
      <3>3. read.voted # {} => HasBallot(<<asked.tournament, l>>, asked.caller)
        BY <3>1 DEF RequestKnows
      <3>4. read.liveSuccessor # None => \E e : Live(e) /\ read.liveSuccessor = tournaments[e]
        BY <1>1, <2>1 DEF RequestKnows
      <3>5. MayBeShown(asked.caller, <<asked.tournament, l>>)
        <4>1. clock \in Nat /\ clock <= clock /\ (read.voted # {}) \in BOOLEAN
          BY DEF TablesKeep
        <4>2. isRevealed(tournaments[asked.tournament], read.voted # {}, clock, read.liveSuccessor)
          BY <1>1, <2>1, <3>2
        <4> QED BY <3>2, <3>3, <3>4, <4>1, <4>2, GateIsRule
      <3> QED BY <3>1, <3>5 DEF GateKept, EarnedNow
    <2> QED BY <1>1, <1>3, <2>1, Undisturbed DEF GateKept, NothingLeaks, ShownLabels
  <1>9. FinalKept'
    BY <1>1, <1>2, <1>3, Undisturbed DEF FinalKept, FinalResultsAreExact, ShownLabels
  <1>10. PageKept'
    BY <1>1, <1>2, Undisturbed DEF PageKept
  <1> QED BY <1>5, <1>6, <1>7, <1>8, <1>9, <1>10

\* A group that has a ballot has a total above zero.
LEMMA CountedAboveZero ==
  ASSUME NEW g, NEW u \in Voter, HasBallot(g, u)
  PROVE  ballotCount(BallotsOf(g)) \in Nat \ {0}
  <1>1. u \in DOMAIN BallotsOf(g) /\ DOMAIN BallotsOf(g) \subseteq Voter
    BY DEF BallotsOf, HasBallot
  <1> HIDE DEF BallotsOf
  <1>2. IsFiniteSet(DOMAIN BallotsOf(g))
    BY <1>1, FS_Subset, RevealConstants
  <1> QED BY <1>1, <1>2, FS_EmptySet, FS_CardinalityType DEF ballotCount

\* Each of the two queries over the ballots.
LEMMA CountInv ==
  ASSUME IInv, CountBallots \/ CountPositions
  PROVE  IInv'
  <1> USE DEF IInv
  <1>1. UNCHANGED <<world, asked, shown, earned, atStart, overtaken, pc>> /\ pc \in Counting
    BY DEF CountBallots, CountPositions, Continue, history
  <1>2. /\ read' = [row |-> read.row, now |-> read.now, liveSuccessor |-> read.liveSuccessor,
                    voted |-> read.voted, totals |-> read'.totals, positions |-> read'.positions]
        /\ read'.totals \in {read.totals, Totals}
        /\ read'.positions \in {read.positions, Positions}
    BY DEF CountBallots, CountPositions, Continue, RequestTyped, Totals, Positions
  <1>3. shown = <<>>
    BY <1>1 DEF RequestTyped, Answers, Counting
  <1>4. UNCHANGED <<clock, tournaments, ballots>>
    BY <1>1 DEF world
  <1>5. TablesKeep'
    BY <1>1, Undisturbed
  <1>6. RequestTyped'
    <2>1. /\ read' = [row |-> read'.row, now |-> read'.now, liveSuccessor |-> read'.liveSuccessor,
                      voted |-> read'.voted, totals |-> read'.totals, positions |-> read'.positions]
          /\ read'.row = read.row
      BY <1>2
    <2> QED BY <1>1, <1>4, <2>1 DEF RequestTyped, Published, Row
  <1>7. RequestKnows'
    BY <1>1, <1>2, <1>4 DEF RequestKnows, HasBallot, Live, Published
  <1>8. GateKept'
    BY <1>1, <1>3, Undisturbed DEF GateKept, NothingLeaks, ShownLabels
  <1>9. FinalKept'
    BY <1>1, <1>2, <1>3, Undisturbed DEF FinalKept, FinalResultsAreExact, ShownLabels
  <1>10. PageKept'
    <2>1. \A l \in asked.labels : l \in atStart.counted => Totals[l] \in Nat \ {0}
      BY CountedAboveZero DEF PageKept, Totals
    <2>2. pc # "DETAIL"
      BY <1>1 DEF Counting
    <2> QED BY <1>1, <1>2, <2>1, <2>2, Undisturbed DEF PageKept
  <1> QED BY <1>5, <1>6, <1>7, <1>8, <1>9, <1>10

\* An answer shows what the rule allows now, counted as it was.
LEMMA AnswerInv ==
  ASSUME IInv, AnswerGroup \/ AnswerTournament
  PROVE  IInv'
  <1> USE DEF IInv
  <1>1. /\ UNCHANGED <<world, asked, read, earned, atStart, overtaken>>
        /\ pc \in Counting /\ Counted
    BY DEF AnswerGroup, AnswerTournament, Answer, history, RequestTyped, Counting
  <1>2. UNCHANGED <<clock, tournaments, ballots>>
    BY <1>1 DEF world
  <1>3. /\ pc = "countGroup" => pc' \in {"RESULTS", "NOT_FOUND"}
        /\ pc = "countTournament" => pc' = "DETAIL"
    <2>1. pc = "countGroup" => pc' \in {"RESULTS", "NOT_FOUND"}
      <3>1. pc = "countGroup" => AnswerGroup /\ \E l : l \in asked.labels
        BY DEF AnswerTournament, RequestTyped
      <3> QED BY <3>1 DEF AnswerGroup, Answer
    <2> QED BY <2>1 DEF AnswerGroup, AnswerTournament, Answer
  <1>4. \A l \in DOMAIN shown' : l \in asked.labels /\ shown'[l] \in {NoResults, Score(l)}
    <2>1. CASE AnswerGroup
      <3>1. PICK l : asked.labels = {l}
        BY <2>1 DEF AnswerGroup, RequestTyped
      <3>2. shown' = <<>> \/ shown' = [x \in {l} |-> Score(l)]
        BY <2>1, <3>1 DEF AnswerGroup, Answer
      <3> QED BY <3>1, <3>2
    <2>2. CASE AnswerTournament
      BY <2>2 DEF AnswerTournament, Answer
    <2> QED BY <2>1, <2>2
  <1>5. TablesKeep'
    BY <1>1, Undisturbed
  <1>6. RequestTyped'
    BY <1>1, <1>2, <1>3 DEF RequestTyped, Published, Row, Counting, Answers, Steps
  <1>7. RequestKnows'
    BY <1>1, <1>2, <1>3 DEF RequestKnows, HasBallot, Live, Published, Counting
  <1>8. GateKept'
    <2>1. ASSUME pc = "countTournament", ~overtaken, NEW l \in asked.labels,
                 isRevealed(read.row, l \in read.voted, read.now, read.liveSuccessor)
          PROVE  l \in earned
      <3>1. read.row = tournaments[asked.tournament] /\ asked.tournament \in Published
        BY <2>1 DEF RequestKnows, RequestTyped
      <3>2. l \in read.voted => HasBallot(<<asked.tournament, l>>, asked.caller)
        BY DEF RequestKnows
      <3>3. read.liveSuccessor # None => \E e : Live(e) /\ read.liveSuccessor = tournaments[e]
        BY <2>1 DEF RequestKnows
      <3>4. read.now \in Nat /\ read.now <= clock /\ (l \in read.voted) \in BOOLEAN
        BY <2>1 DEF RequestKnows
      <3>5. isRevealed(tournaments[asked.tournament], l \in read.voted, read.now, read.liveSuccessor)
        BY <2>1, <3>1
      <3>6. MayBeShown(asked.caller, <<asked.tournament, l>>)
        BY <3>1, <3>2, <3>3, <3>4, <3>5, GateIsRule
      <3> QED BY <3>6 DEF GateKept, EarnedNow
    <2>2. ~overtaken => ShownLabels' \subseteq earned
      <3>1. CASE pc = "countGroup"
        BY <1>4, <3>1 DEF GateKept, ShownLabels
      <3>2. CASE pc = "countTournament"
        <4>1. shown' = [l \in asked.labels |->
                IF isRevealed(read.row, l \in read.voted, read.now, read.liveSuccessor)
                THEN Score(l) ELSE NoResults]
          BY <3>2 DEF AnswerGroup, AnswerTournament, Answer
        <4> QED BY <2>1, <3>2, <4>1 DEF ShownLabels
      <3> QED BY <1>1, <3>1, <3>2 DEF Counting
    <2>3. pc' # "countGroup"
      BY <1>1, <1>3 DEF Counting
    <2> QED BY <1>1, <2>2, <2>3, Undisturbed DEF GateKept, NothingLeaks
  <1>9. FinalKept'
    <2>1. ASSUME atStart.settled, NEW l \in asked.labels
          PROVE  Score(l) = ExactResults(<<asked.tournament, l>>)'
      <3>1. read.totals = Totals /\ read.positions = Positions
        BY <1>1, <2>1 DEF FinalKept, Counted
      <3>2. Score(l) = ExactResults(<<asked.tournament, l>>)
        BY <2>1, <3>1 DEF Score, ExactResults, Totals, Positions
      <3> QED BY <1>1, <1>2, <3>2 DEF ExactResults, BallotsOf
    <2>2. atStart.settled => FinalResultsAreExact'
      BY <1>1, <1>4, <2>1 DEF FinalResultsAreExact, ShownLabels
    <2>3. pc' # "idle"
      BY <1>1, <1>3 DEF Counting
    <2> QED BY <1>1, <2>2, <2>3, Undisturbed DEF FinalKept
  <1>10. PageKept'
    <2>1. pc' = "DETAIL" =>
            shown' = [l \in asked.labels |->
               IF isRevealed(read.row, l \in read.voted, read.now, read.liveSuccessor)
               THEN Score(l) ELSE NoResults]
      BY <1>1, <1>3 DEF AnswerTournament, AnswerGroup, Answer, Counting
    <2>2. \A l : Score(l)' = Score(l)
      BY <1>1 DEF Score
    <2> QED BY <1>1, <2>1, <2>2, Undisturbed DEF PageKept, Counted
  <1> QED BY <1>5, <1>6, <1>7, <1>8, <1>9, <1>10

-------------------------------------------------------------------------------
\* The theorems.

\* One tournament and no request.
LEMMA InitInv == Init => IInv
  <1> SUFFICES ASSUME Init PROVE IInv
    OBVIOUS
  <1>1. PICK t \in Tournament, start \in Instant \ {0} :
          tournaments = [x \in {t} |-> [publishedAt |-> 0, startsAt |-> start,
                                        invalidatedAt |-> None, replacedBy |-> None]]
    BY DEF Init, LineageInit
  <1>2. /\ clock = 0 /\ ballots = <<>> /\ pc = "idle" /\ asked = NotAsked /\ read = NotRead
        /\ shown = <<>> /\ earned = {} /\ overtaken = FALSE
        /\ atStart = [voted |-> {}, counted |-> {}, settled |-> FALSE]
    BY DEF Init, LineageInit
  <1>3. start \in Nat
    BY LineageConstants DEF Instant
  <1>4. TablesKeep
    <2>1. tournaments \in [Published -> Row] /\ Published = {t}
      BY <1>1, <1>3 DEF Published, Row
    <2>2. \A x : Live(x) <=> x = t
      BY <1>1 DEF Live, Published
    <2>3. DOMAIN ballots = {}
      BY <1>2
    <2> QED BY <1>1, <1>2, <2>1, <2>2, <2>3 DEF TablesKeep
  <1>5. RequestTyped
    BY <1>2 DEF RequestTyped, NotAsked, NotRead
  <1>6. RequestKnows
    BY <1>2 DEF RequestKnows, NotRead
  <1>7. GateKept
    BY <1>2 DEF GateKept, EarnedNow, NotAsked, NothingLeaks, ShownLabels
  <1>8. FinalKept /\ PageKept
    BY <1>2 DEF FinalKept, PageKept, NotRead
  <1> QED BY <1>4, <1>5, <1>6, <1>7, <1>8 DEF IInv

\* The inductive invariant holds in every reachable state, whatever the tournaments,
\* groups and voters, the clock and the time a write takes.
THEOREM Invariance == Spec => []IInv
  <1>1. IInv /\ [Next]_vars => IInv'
    <2> SUFFICES ASSUME IInv, [Next]_vars PROVE IInv'
      OBVIOUS
    <2>1. CASE Vote
      BY <2>1, VoteInv
    <2>2. CASE Replace
      BY <2>2, ReplaceInv
    <2>3. CASE Tick
      BY <2>3, TickInv
    <2>4. CASE LoadGroup
      <3>1. PICK v \in Voter \cup {Nobody}, t \in Published, l \in Label : Ask(v, t, {l}, "group")
        BY <2>4 DEF LoadGroup
      <3>2. {l} \in SUBSET Label /\ \E k : {l} = {k}
        OBVIOUS
      <3> QED BY <3>1, <3>2, AskInv
    <2>5. CASE LoadTournament
      BY <2>5, AskInv DEF LoadTournament
    <2>6. CASE FindOwn \/ FollowGroup \/ ReadClock \/ FollowTournament \/ FindVoted
      BY <2>6, ReadInv
    <2>7. CASE JudgeGroup
      BY <2>7, JudgeInv
    <2>8. CASE CountBallots \/ CountPositions
      BY <2>8, CountInv
    <2>9. CASE AnswerGroup \/ AnswerTournament
      BY <2>9, AnswerInv
    <2>10. CASE UNCHANGED vars
      <3>1. UNCHANGED <<world, asked, atStart, overtaken, pc, read, shown, earned>>
        BY <2>10 DEF vars
      <3>2. TablesKeep' /\ EarnedNow' = EarnedNow /\ Totals' = Totals /\ Positions' = Positions
        BY <3>1, Undisturbed DEF IInv
      <3>3. RequestTyped' /\ RequestKnows'
        BY <3>1 DEF IInv, RequestTyped, RequestKnows, world, Published, Live, HasBallot, Row
      <3>4. GateKept'
        BY <3>1, <3>2 DEF IInv, GateKept, NothingLeaks, ShownLabels
      <3>5. FinalKept'
        <4>1. FinalResultsAreExact => FinalResultsAreExact'
          BY <3>1 DEF FinalResultsAreExact, ShownLabels, world, ExactResults, BallotsOf
        <4> QED BY <3>1, <3>2, <4>1, Undisturbed DEF IInv, FinalKept
      <3>6. PageKept'
        <4>1. \A l : Score(l)' = Score(l)
          BY <3>1 DEF Score
        <4> QED BY <3>1, <4>1 DEF IInv, PageKept, world, HasBallot
      <3> QED BY <3>2, <3>3, <3>4, <3>5, <3>6 DEF IInv
    <2> QED BY <2>1, <2>2, <2>3, <2>4, <2>5, <2>6, <2>7, <2>8, <2>9, <2>10 DEF Next, Step
  <1> QED BY <1>1, InitInv, PTL DEF Spec

\* Whichever votes come between the queries of a request, it shows a group only if the
\* rule allowed that at some instant of it (FR-020, FR-021).
THEOREM NobodyPeeks == Spec => []NothingLeaks
  <1>1. IInv => NothingLeaks
    BY DEF IInv, GateKept
  <1> QED BY <1>1, Invariance, PTL

\* What is shown of a group that could take no more ballots is what its ballots are
\* counted as, then and ever after (SC-004).
THEOREM FinalResultsStand == Spec => []FinalResultsAreExact
  <1>1. IInv => FinalResultsAreExact
    <2> SUFFICES ASSUME IInv, atStart.settled PROVE FinalResultsAreExact
      BY DEF FinalResultsAreExact
    <2> QED BY DEF IInv, FinalKept
  <1> QED BY <1>1, Invariance, PTL

\* The page never says that nobody voted of a group with a ballot, hides results only
\* from who has the form to earn them, and withholds them only of a replaced
\* tournament (FR-019, FR-213).
THEOREM PageNeverMistaken == Spec => []PageTellsWhy
  <1>1. IInv => PageTellsWhy
    <2> SUFFICES ASSUME IInv, pc = "DETAIL", NEW l \in asked.labels
                 PROVE  /\ GroupState(l) = "empty" => l \notin atStart.counted
                        /\ GroupState(l) = "hidden" => FormShown(l)
                        /\ GroupState(l) \in {"hidden", "withheld"} => l \notin ShownLabels
                        /\ GroupState(l) = "withheld" =>
                             tournaments[asked.tournament].replacedBy # None
      BY DEF PageTellsWhy
    <2> DEFINE revealed == isRevealed(read.row, l \in read.voted, read.now, read.liveSuccessor)
    <2>1. read.row \in Row /\ asked.tournament \in Published
      BY DEF IInv, RequestTyped
    <2>2. shown[l] = IF revealed THEN Score(l) ELSE NoResults
      BY DEF IInv, PageKept
    <2>3. l \in atStart.counted => Score(l) # NoResults
      <3>1. l \in atStart.counted => read.totals[l] \in Nat \ {0}
        BY DEF IInv, PageKept
      <3>2. l \in atStart.counted => "ballotCount" \in DOMAIN Score(l)
        BY <3>1 DEF Score, scoreGroup
      <3> QED BY <3>2 DEF NoResults
    <2>4. GroupState(l) = "withheld" <=> Withheld
      BY DEF GroupState, resultsStateFor
    <2>5. CASE Withheld
      <3>1. read.row.invalidatedAt # None /\ ~revealed
        BY <2>5 DEF Withheld, resultsWithheld, isRevealed
      <3>2. tournaments[asked.tournament].replacedBy # None
        BY <2>1, <3>1 DEF IInv, RequestKnows, TablesKeep
      <3> QED BY <2>2, <2>4, <2>5, <3>1, <3>2 DEF GroupState, ShownLabels
    <2>6. CASE ~Withheld
      <3>1. GroupState(l) = resultsStateFor(l \in read.voted \/ ~isVotingOpen(read.row, read.now), shown[l])
        BY <2>6 DEF GroupState
      <3>2. (l \in read.voted \/ ~isVotingOpen(read.row, read.now)) <=> revealed
        BY <2>1, <2>6, NoneAssumption DEF Withheld, resultsWithheld, isRevealed, isVotingOpen, tournamentStatusAt, Row
      <3>3. CASE revealed
        BY <2>2, <2>3, <3>1, <3>2, <3>3 DEF resultsStateFor
      <3>4. CASE ~revealed
        BY <2>2, <3>1, <3>2, <3>4 DEF resultsStateFor, FormShown, ShownLabels
      <3> QED BY <3>3, <3>4
    <2> QED BY <2>5, <2>6
  <1> QED BY <1>1, Invariance, PTL

-------------------------------------------------------------------------------
(***************************************************************************)
(* The voter himself: a ballot cast before the request is read, judged and *)
(* counted by it, unless a replacement comes between.                      *)
(***************************************************************************)
Own(l) == <<<<asked.tournament, l>>, asked.caller>>

\* The positions that were read are those of ballots with his own among them.
CountedWith(l) ==
  \E b : /\ Ballots(b, IdsOf(Pairs), Len(Pairs))
         /\ asked.caller \in DOMAIN b /\ b[asked.caller] = ballots[Own(l)]
         /\ read.positions[l] = positionCounts(b)

Told == {"own", "chained", "countGroup", "countTournament"} \cup Answers

VoterKnown ==
  /\ atStart.voted \subseteq asked.labels \cap atStart.counted
  /\ \A l \in atStart.voted : Own(l) \in DOMAIN ballots
  /\ ~atStart.settled => read.row.invalidatedAt = None
  /\ pc \in Told => atStart.voted \subseteq read.voted
  /\ read.positions # <<>> => \A l \in atStart.voted : CountedWith(l)
  /\ VoterIsShown

VoterInv ==
  /\ \A x \in DOMAIN ballots : ballots[x] \in Orderings
  /\ pc = "idle" => atStart.voted = {}
  /\ pc # "idle" /\ ~overtaken => VoterKnown

LEMMA PairsAreList == PairList(Pairs)
  <1> DEFINE T == [id : Nat, totalPoints : Nat]
  <1>1. Pairs \in Seq(T)
    BY RevealGroup
  <1>2. /\ Len(Pairs) \in Nat /\ DOMAIN Pairs = 1..Len(Pairs)
        /\ \A i \in DOMAIN Pairs : Pairs[i] \in T
    <2> HIDE DEF T
    <2> QED BY <1>1, LenProperties, ElementOfSeq
  <1> QED BY <1>2, RevealGroup DEF PairList

\* The ballots of a group are orderings of its pairs.
LEMMA GroupBallots ==
  ASSUME \A x \in DOMAIN ballots : ballots[x] \in Orderings, NEW g
  PROVE  /\ Ballots(BallotsOf(g), IdsOf(Pairs), Len(Pairs))
         /\ \A v \in Voter : <<g, v>> \in DOMAIN ballots =>
              v \in DOMAIN BallotsOf(g) /\ BallotsOf(g)[v] = ballots[<<g, v>>]
  <1>1. DOMAIN BallotsOf(g) \in SUBSET Voter
        /\ \A v \in DOMAIN BallotsOf(g) : BallotsOf(g)[v] \in Orderings
    BY DEF BallotsOf
  <1>2. IsFiniteSet(DOMAIN BallotsOf(g))
    BY <1>1, FS_Subset, RevealConstants
  <1>3. \A o \in Orderings : DOMAIN o = IdsOf(Pairs) /\ \A id \in IdsOf(Pairs) : o[id] \in 1..Len(Pairs)
    BY RevealGroup DEF IdsOf
  <1>4. Ballots(BallotsOf(g), IdsOf(Pairs), Len(Pairs))
    <2> HIDE DEF BallotsOf
    <2> QED BY <1>1, <1>2, <1>3 DEF Ballots
  <1> QED BY <1>4 DEF BallotsOf

\* Results made of counts with his ballot among them show it.
LEMMA ScoreShowsVoter ==
  ASSUME NEW b, Ballots(b, IdsOf(Pairs), Len(Pairs)), NEW v \in DOMAIN b,
         NEW total \in Nat \ {0}
  PROVE  LET results == scoreGroup(Pairs, total, positionCounts(b)) IN
         /\ results # NoResults
         /\ results.ballotCount >= 1
         /\ \A n \in DOMAIN Pairs :
              results.standings[n].votes[b[v][results.standings[n].id]] >= 1
  <1> DEFINE results == scoreGroup(Pairs, total, positionCounts(b))
  <1>1. results.ballotCount = total /\ Places(results, b, Pairs)
    BY PairsAreList, ResultsInOrder
  <1>2. results # NoResults
    BY DEF scoreGroup, NoResults
  <1> HIDE DEF results
  <1>3. ASSUME NEW n \in DOMAIN Pairs
        PROVE  results.standings[n].votes[b[v][results.standings[n].id]] >= 1
    <2>1. PICK i \in DOMAIN Pairs : results.standings[n] = ScoreOf(b, Pairs, i)
      BY <1>1 DEF Places
    <2> DEFINE id == Pairs[i].id
               position == b[v][id]
    <2>2. id \in IdsOf(Pairs)
      BY DEF IdsOf
    <2>3. position \in DOMAIN Pairs
      BY <2>2, PairsAreList DEF Ballots, PairList
    <2>4. /\ results.standings[n].id = id
          /\ results.standings[n].votes[position] = Cardinality(Supporters(b, id, position))
      BY <2>1, <2>3, PairsAreList, ScoreIsCount
    <2>5. v \in Supporters(b, id, position) /\ Supporters(b, id, position) \in SUBSET DOMAIN b
      BY DEF Supporters
    <2>6. IsFiniteSet(Supporters(b, id, position))
      BY <2>5, FS_Subset DEF Ballots
    <2>7. Cardinality(Supporters(b, id, position)) \in Nat \ {0}
      BY <2>5, <2>6, FS_CardinalityType, FS_EmptySet
    <2> HIDE DEF id
    <2> QED BY <2>4, <2>7
  <1> QED BY <1>1, <1>2, <1>3 DEF results

\* Nothing that others do touches his ballot or what was read.
LEMMA VoterUndisturbed ==
  ASSUME VoterKnown, UNCHANGED <<pc, asked, read, shown, atStart, overtaken>>,
         \A l \in atStart.voted : Own(l) \in DOMAIN ballots =>
           Own(l) \in DOMAIN ballots' /\ ballots'[Own(l)] = ballots[Own(l)]
  PROVE  VoterKnown'
  <1>1. \A l \in atStart.voted : /\ Own(l) \in DOMAIN ballots /\ Own(l) \in DOMAIN ballots'
                                 /\ ballots'[Own(l)] = ballots[Own(l)]
    BY DEF VoterKnown
  <1>2. \A l : Own(l)' = Own(l)
    BY DEF Own
  <1>3. ASSUME NEW l \in atStart.voted, CountedWith(l)
        PROVE  CountedWith(l)'
    <2>1. PICK b : /\ Ballots(b, IdsOf(Pairs), Len(Pairs))
                   /\ asked.caller \in DOMAIN b /\ b[asked.caller] = ballots[Own(l)]
                   /\ read.positions[l] = positionCounts(b)
      BY <1>3 DEF CountedWith
    <2> QED BY <1>1, <1>2, <2>1 DEF CountedWith
  <1>4. VoterIsShown'
    BY <1>1 DEF VoterKnown, VoterIsShown, Own, ShownLabels
  <1> QED BY <1>1, <1>2, <1>3, <1>4 DEF VoterKnown

LEMMA VoterWorld ==
  ASSUME IInv, VoterInv, Vote \/ Replace \/ Tick \/ UNCHANGED vars
  PROVE  VoterInv'
  <1>1. CASE Vote
    <2>1. PICK v \in Voter, g \in Group, o \in Orderings :
            /\ ~HasBallot(g, v)
            /\ ballots' = [y \in DOMAIN ballots \cup {<<g, v>>} |->
                             IF y = <<g, v>> THEN o ELSE ballots[y]]
      BY <1>1 DEF Vote, CommitVote
    <2>2. UNCHANGED <<pc, asked, read, shown, atStart, overtaken>>
      BY <1>1 DEF Vote, CommitVote
    <2>3. /\ \A y \in DOMAIN ballots : y \in DOMAIN ballots' /\ ballots'[y] = ballots[y]
          /\ \A y \in DOMAIN ballots' : ballots'[y] \in Orderings
      BY <2>1 DEF VoterInv, HasBallot
    <2> QED BY <2>2, <2>3, VoterUndisturbed DEF VoterInv
  <1>2. CASE Replace
    <2>1. PICK t \in Published, s \in Tournament \ Published, kept \in SUBSET Label :
            ballots' = WithCopies(t, s, kept)
      BY <1>2 DEF Replace, CommitReplacement
    <2>2. UNCHANGED <<pc, atStart>> /\ overtaken' = (overtaken \/ pc # "idle")
      BY <1>2 DEF Replace, CommitReplacement
    <2>3. \A x \in DOMAIN ballots' : ballots'[x] \in Orderings
      <3> DEFINE copied == {x \in DOMAIN ballots : x[1][1] = t /\ x[1][2] \in kept}
                 copies == {<<<<s, y[1][2]>>, y[2]>> : y \in copied}
      <3> SUFFICES ASSUME NEW x \in DOMAIN ballots \cup copies
                   PROVE  (IF x[1][1] = s THEN ballots[<<<<t, x[1][2]>>, x[2]>>] ELSE ballots[x])
                            \in Orderings
        BY <2>1 DEF WithCopies
      <3>1. CASE x[1][1] = s
        <4>1. x \notin DOMAIN ballots
          BY <2>1, <3>1 DEF IInv, TablesKeep
        <4>2. PICK y \in copied : x = <<<<s, y[1][2]>>, y[2]>>
          BY <4>1
        <4>3. y \in (Published \X Label) \X Voter /\ y[1][1] = t
          BY DEF IInv, TablesKeep
        <4>4. <<<<t, x[1][2]>>, x[2]>> = y
          BY <4>2, <4>3
        <4> QED BY <3>1, <4>4 DEF VoterInv
      <3>2. CASE x[1][1] # s
        <4>1. x \in DOMAIN ballots
          BY <3>2
        <4> QED BY <3>2, <4>1 DEF VoterInv
      <3> QED BY <3>1, <3>2
    <2> QED BY <2>2, <2>3 DEF VoterInv
  <1>3. CASE Tick \/ UNCHANGED vars
    <2>1. UNCHANGED <<ballots, pc, asked, read, shown, atStart, overtaken>>
      BY <1>3 DEF Tick, PassTime, vars, world
    <2> QED BY <2>1, VoterUndisturbed DEF VoterInv
  <1> QED BY <1>1, <1>2, <1>3

LEMMA VoterAsks ==
  ASSUME IInv, VoterInv, NEW v, NEW t \in Published, NEW labels \in SUBSET Label,
         NEW step \in {"group", "tournament"}, Ask(v, t, labels, step)
  PROVE  VoterInv'
  <1>1. /\ asked' = [caller |-> v, tournament |-> t, labels |-> labels]
        /\ read'.row = tournaments[t] /\ read'.positions = <<>>
        /\ pc' = step /\ pc = "idle"
        /\ atStart'.voted = {l \in labels : HasBallot(<<t, l>>, v)}
        /\ atStart'.counted = {l \in labels : \E u \in Voter : HasBallot(<<t, l>>, u)}
        /\ atStart'.settled = Settled(t)
        /\ ballots' = ballots
    BY DEF Ask, world, NotRead
  <1>2. \A l, u : HasBallot(<<t, l>>, u) => u \in Voter
    BY DEF HasBallot, IInv, TablesKeep
  <1>3. /\ atStart'.voted \subseteq asked'.labels \cap atStart'.counted
        /\ \A l \in atStart'.voted : Own(l)' \in DOMAIN ballots'
    BY <1>1, <1>2 DEF HasBallot, Own
  <1>4. ~atStart'.settled => read'.row.invalidatedAt = None
    BY <1>1 DEF Settled
  <1>5. pc' \notin Told /\ pc' \notin Answers /\ pc' # "idle"
    BY <1>1 DEF Told, Answers
  <1>6. VoterKnown'
    BY <1>1, <1>3, <1>4, <1>5 DEF VoterKnown, VoterIsShown
  <1> QED BY <1>1, <1>5, <1>6 DEF VoterInv

\* The row of a tournament that still takes votes lets a voter through the gate.
LEMMA VoterPasses ==
  ASSUME NEW row \in Row, row.invalidatedAt = None, NEW now, NEW successor
  PROVE  isRevealed(row, TRUE, now, successor)
  BY NoneAssumption DEF isRevealed, tournamentStatusAt, Row

LEMMA VoterReads ==
  ASSUME IInv, VoterInv,
         FindOwn \/ FollowGroup \/ JudgeGroup \/ ReadClock \/ FollowTournament \/ FindVoted
  PROVE  VoterInv'
  <1>1. /\ UNCHANGED <<ballots, asked, shown, atStart, overtaken>>
        /\ pc # "idle" /\ pc' # "idle"
        /\ read'.row = read.row /\ read'.positions = read.positions
    BY DEF FindOwn, FollowGroup, JudgeGroup, ReadClock, FollowTournament, FindVoted, Continue,
           history, world, IInv, RequestTyped
  <1> SUFFICES ASSUME ~overtaken PROVE VoterKnown'
    BY <1>1 DEF VoterInv
  <1>2. VoterKnown
    BY <1>1 DEF VoterInv
  <1>3. atStart.voted \subseteq Voted
    BY <1>2 DEF VoterKnown, Voted, HasBallot, Own
  <1>4. pc' \in Told => atStart.voted \subseteq read'.voted
    <2>1. CASE FindOwn \/ FindVoted
      <3>1. read'.voted = Voted
        BY <2>1 DEF FindOwn, FindVoted, Continue, IInv, RequestTyped
      <3> QED BY <1>3, <3>1
    <2>2. CASE FollowGroup \/ JudgeGroup
      <3>1. read'.voted = read.voted /\ pc \in Told
        BY <2>2 DEF FollowGroup, JudgeGroup, Continue, IInv, RequestTyped, Told
      <3> QED BY <1>2, <3>1 DEF VoterKnown
    <2>3. CASE ReadClock \/ FollowTournament
      BY <2>3 DEF ReadClock, FollowTournament, Continue, Told, Answers
    <2> QED BY <2>1, <2>2, <2>3
  <1>5. pc' \in Answers /\ ~atStart.settled => atStart.voted = {}
    <2> SUFFICES ASSUME pc' \in Answers, ~atStart.settled, atStart.voted # {} PROVE FALSE
      OBVIOUS
    <2>1. JudgeGroup /\ pc = "chained"
      BY DEF FindOwn, FollowGroup, JudgeGroup, ReadClock, FollowTournament, FindVoted, Continue,
             Answers
    <2>2. (read.voted # {}) = TRUE
      BY <1>2, <2>1 DEF VoterKnown, Told
    <2>3. read.row \in Row /\ read.row.invalidatedAt = None
      BY <1>1, <1>2 DEF IInv, RequestTyped, VoterKnown
    <2>4. isRevealed(read.row, read.voted # {}, clock, read.liveSuccessor)
      BY <2>2, <2>3, VoterPasses
    <2>5. pc' = "countGroup"
      BY <2>1, <2>4 DEF JudgeGroup, Continue
    <2> QED BY <2>5 DEF Answers
  <1>6. VoterIsShown'
    BY <1>1, <1>5 DEF VoterIsShown
  <1>7. \A l : Own(l)' = Own(l)
    BY <1>1 DEF Own
  <1>8. read'.positions # <<>> => \A l \in atStart.voted : CountedWith(l)'
    BY <1>1, <1>2, <1>7 DEF VoterKnown, CountedWith
  <1> QED BY <1>1, <1>2, <1>4, <1>6, <1>7, <1>8 DEF VoterKnown

LEMMA VoterIsCounted ==
  ASSUME IInv, VoterInv, CountBallots \/ CountPositions
  PROVE  VoterInv'
  <1>1. /\ UNCHANGED <<ballots, asked, shown, atStart, overtaken, pc>>
        /\ pc \in Counting
        /\ read'.row = read.row /\ read'.voted = read.voted
        /\ read'.positions \in {read.positions, Positions}
    BY DEF CountBallots, CountPositions, Continue, history, world, IInv, RequestTyped, Positions
  <1>2. pc # "idle" /\ pc \notin Answers
    BY <1>1 DEF Counting, Answers
  <1> SUFFICES ASSUME ~overtaken PROVE VoterKnown'
    BY <1>1, <1>2 DEF VoterInv
  <1>3. VoterKnown
    BY <1>2 DEF VoterInv
  <1>4. \A l : Own(l)' = Own(l)
    BY <1>1 DEF Own
  <1>5. ASSUME NEW l \in atStart.voted, read'.positions # <<>>
        PROVE  CountedWith(l)'
    <2>1. CASE read'.positions = read.positions
      BY <1>1, <1>3, <1>4, <1>5, <2>1 DEF VoterKnown, CountedWith
    <2>2. CASE read'.positions = Positions
      <3> DEFINE g == <<asked.tournament, l>>
                 b == BallotsOf(g)
      <3>1. l \in asked.labels /\ Own(l) \in DOMAIN ballots /\ Own(l) = <<g, asked.caller>>
        BY <1>3, <1>5 DEF VoterKnown, Own
      <3>2. asked.caller \in Voter
        BY <3>1 DEF IInv, TablesKeep, Own
      <3>3. /\ Ballots(b, IdsOf(Pairs), Len(Pairs))
            /\ asked.caller \in DOMAIN b /\ b[asked.caller] = ballots[Own(l)]
        BY <3>1, <3>2, GroupBallots DEF VoterInv
      <3>4. read'.positions[l] = positionCounts(b)
        BY <2>2, <3>1 DEF Positions
      <3> HIDE DEF b, g
      <3> QED BY <1>1, <1>4, <3>3, <3>4 DEF CountedWith
    <2> QED BY <1>1, <2>1, <2>2
  <1>6. VoterIsShown'
    BY <1>1, <1>2 DEF VoterIsShown
  <1> QED BY <1>1, <1>3, <1>4, <1>5, <1>6 DEF VoterKnown

LEMMA VoterAnswered ==
  ASSUME IInv, VoterInv, AnswerGroup \/ AnswerTournament
  PROVE  VoterInv'
  <1>1. /\ UNCHANGED <<ballots, asked, read, atStart, overtaken>>
        /\ pc \in Counting /\ Counted /\ pc' # "idle"
    BY DEF AnswerGroup, AnswerTournament, Answer, history, world, IInv, RequestTyped, Counting
  <1>2. pc # "idle" /\ pc \in Told
    BY <1>1 DEF Counting, Told
  <1> SUFFICES ASSUME ~overtaken PROVE VoterKnown'
    BY <1>1, <1>2 DEF VoterInv
  <1>3. VoterKnown
    BY <1>2 DEF VoterInv
  <1>4. \A l : Own(l)' = Own(l)
    BY <1>1 DEF Own
  <1>5. \A l \in atStart.voted : CountedWith(l)'
    BY <1>1, <1>3, <1>4 DEF VoterKnown, CountedWith, Counted
  <1>6. ASSUME NEW l \in atStart.voted
        PROVE  /\ Score(l) # NoResults
               /\ Score(l).ballotCount >= 1
               /\ \A n \in DOMAIN Pairs :
                    Score(l).standings[n].votes[ballots[Own(l)][Score(l).standings[n].id]] >= 1
    <2>1. PICK b : /\ Ballots(b, IdsOf(Pairs), Len(Pairs))
                   /\ asked.caller \in DOMAIN b /\ b[asked.caller] = ballots[Own(l)]
                   /\ read.positions[l] = positionCounts(b)
      BY <1>1, <1>3, <1>6 DEF VoterKnown, CountedWith, Counted
    <2>2. read.totals[l] \in Nat \ {0}
      BY <1>1, <1>3, <1>6 DEF VoterKnown, IInv, PageKept, Counted
    <2>3. Score(l) = scoreGroup(Pairs, read.totals[l], positionCounts(b))
      BY <2>1 DEF Score
    <2> QED BY <2>1, <2>2, <2>3, ScoreShowsVoter
  <1>7. ~atStart.settled => \A l \in atStart.voted : l \in DOMAIN shown' /\ shown'[l] = Score(l)
    <2> SUFFICES ASSUME ~atStart.settled, NEW l \in atStart.voted
                 PROVE  l \in DOMAIN shown' /\ shown'[l] = Score(l)
      OBVIOUS
    <2>1. l \in asked.labels /\ l \in read.voted
      BY <1>2, <1>3 DEF VoterKnown
    <2>2. CASE AnswerGroup
      <3>1. asked.labels = {l}
        BY <2>1, <2>2 DEF AnswerGroup, IInv, RequestTyped
      <3>2. shown' = [x \in {l} |-> Score(l)]
        BY <1>6, <2>2, <3>1 DEF AnswerGroup, Answer
      <3> QED BY <3>2
    <2>3. CASE AnswerTournament
      <3>1. (l \in read.voted) = TRUE /\ read.row \in Row /\ read.row.invalidatedAt = None
        BY <1>2, <1>3, <2>1 DEF VoterKnown, IInv, RequestTyped
      <3>2. isRevealed(read.row, l \in read.voted, read.now, read.liveSuccessor)
        BY <3>1, VoterPasses
      <3>3. shown' = [x \in asked.labels |->
                        IF isRevealed(read.row, x \in read.voted, read.now, read.liveSuccessor)
                        THEN Score(x) ELSE NoResults]
        BY <2>3 DEF AnswerTournament, Answer
      <3> QED BY <2>1, <3>2, <3>3
    <2> QED BY <2>2, <2>3
  <1>8. VoterIsShown'
    BY <1>1, <1>6, <1>7 DEF VoterIsShown, ShownLabels, Own
  <1> QED BY <1>1, <1>2, <1>3, <1>4, <1>5, <1>8 DEF VoterKnown

(***************************************************************************)
(* Who had voted in a group before he asked sees its results, with his     *)
(* ballot in the total and at each position (FR-020): for any number of    *)
(* voters, groups and pairs, and whatever is cast between the queries.     *)
(***************************************************************************)
THEOREM VotersAreShown == Spec => []VoterIsShown
  <1>1. Init => VoterInv
    BY DEF Init, LineageInit, VoterInv
  <1>2. IInv /\ VoterInv /\ [Next]_vars => VoterInv'
    <2> SUFFICES ASSUME IInv, VoterInv, [Next]_vars PROVE VoterInv'
      OBVIOUS
    <2>1. CASE Vote \/ Replace \/ Tick \/ UNCHANGED vars
      BY <2>1, VoterWorld
    <2>2. CASE LoadGroup
      <3>1. PICK v \in Voter \cup {Nobody}, t \in Published, l \in Label : Ask(v, t, {l}, "group")
        BY <2>2 DEF LoadGroup
      <3>2. {l} \in SUBSET Label
        OBVIOUS
      <3> QED BY <3>1, <3>2, VoterAsks
    <2>3. CASE LoadTournament
      BY <2>3, VoterAsks DEF LoadTournament
    <2>4. CASE FindOwn \/ FollowGroup \/ JudgeGroup \/ ReadClock \/ FollowTournament \/ FindVoted
      BY <2>4, VoterReads
    <2>5. CASE CountBallots \/ CountPositions
      BY <2>5, VoterIsCounted
    <2>6. CASE AnswerGroup \/ AnswerTournament
      BY <2>6, VoterAnswered
    <2> QED BY <2>1, <2>2, <2>3, <2>4, <2>5, <2>6 DEF Next, Step
  <1>3. IInv /\ VoterInv => VoterIsShown
    <2> SUFFICES ASSUME IInv, VoterInv, pc \in Answers, ~overtaken PROVE VoterIsShown
      BY DEF VoterIsShown
    <2>1. pc # "idle"
      BY DEF Answers
    <2> QED BY <2>1 DEF VoterInv, VoterKnown
  <1> QED BY <1>1, <1>2, <1>3, Invariance, PTL DEF Spec
===============================================================================
