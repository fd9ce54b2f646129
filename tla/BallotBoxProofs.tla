---------------------------- MODULE BallotBoxProofs ----------------------------
(***************************************************************************)
(* The invariant of BallotBoxInv is inductive: one lemma per action of     *)
(* BallotBox, over lemmas on the carry-over of CarryOver and on what a     *)
(* step leaves alone.  A step of a voter's request changes its own locals  *)
(* and, at the commit, the ballots; a step of an organiser's request       *)
(* changes its own locals and, at the commit, both tables.  The row locks  *)
(* are what lets the two commits leave the knowledge of every other        *)
(* request true.  From it, what each commit is to the ledger of VoteLedger *)
(* and to the readers of Lineage.                                          *)
(***************************************************************************)
EXTENDS BallotBoxInv, FiniteSets, FiniteSetTheorems, SequenceTheorems, TLAPS

-------------------------------------------------------------------------------
(***************************************************************************)
(* What the carry-over does to the ballots of one group, whatever the      *)
(* pairs and however many: a complete ballot stays complete, every pair    *)
(* keeps its position, and a group keeps its votes exactly when its pairs  *)
(* are the same set.                                                       *)
(***************************************************************************)

\* A complete ballot carried to a group that keeps its votes is a complete ballot
\* there (the entries copied by replace, packages/db/src/tournaments.ts).
LEMMA CarriedOrderingValid ==
  ASSUME NEW from \in Seq(Pair), NEW to \in Seq(Pair),
         Injective(to), Len(from) = Len(to),
         \A s \in DOMAIN to : \E f \in DOMAIN from : from[f] = to[s],
         NEW ordering \in Seq(Nat), validateBallot(from, ordering)
  PROVE  /\ carriedOrdering(from, to, ordering) \in Seq(Nat)
         /\ validateBallot(to, carriedOrdering(from, to, ordering))
  <1> DEFINE c == carriedOrdering(from, to, ordering)
             m == pairMap(from, to)
  <1> HIDE DEF c, m
  <1>1. /\ DOMAIN to = 1..Len(to) /\ DOMAIN from = 1..Len(to)
        /\ DOMAIN ordering = 1..Len(to) /\ Len(to) \in Nat
    BY DEF validateBallot
  <1>2. \A s \in DOMAIN to : m[s] \in DOMAIN from /\ from[m[s]] = to[s]
    BY DEF m, pairMap
  <1>3. c = [s \in 1..Len(to) |-> ordering[m[s]]]
    BY <1>1 DEF carriedOrdering, c, m
  <1>4. \A s \in 1..Len(to) : c[s] \in 1..Len(to)
    BY <1>1, <1>2, <1>3 DEF validateBallot
  <1>5. c \in [1..Len(to) -> Nat]
    BY <1>1, <1>3, <1>4
  <1>6. c \in Seq(Nat) /\ Len(c) = Len(to)
    <2>1. Len(to) \in Nat
      BY <1>1
    <2>2. [1..Len(to) -> Nat] \in {[1..n -> Nat] : n \in Nat}
      BY <2>1
    <2>3. c \in UNION {[1..n -> Nat] : n \in Nat}
      BY <1>5, <2>2
    <2>4. c \in Seq(Nat)
      BY <2>3, SeqDef, Zenon
    <2> QED BY <1>1, <1>3, <2>4, LenProperties
  <1>7. ASSUME NEW i \in 1..Len(to), NEW j \in 1..Len(to), c[i] = c[j] PROVE i = j
    <2>1. ordering[m[i]] = ordering[m[j]]
      BY <1>3, <1>7
    <2>2. m[i] = m[j]
      BY <1>1, <1>2, <2>1 DEF validateBallot, Injective
    <2>3. i \in DOMAIN to /\ j \in DOMAIN to
      BY <1>1
    <2>4. to[i] = to[j]
      BY <1>2, <2>2, <2>3
    <2> QED BY <2>3, <2>4 DEF Injective
  <1>8. Injective(c)
    BY <1>3, <1>7 DEF Injective
  <1>9. validateBallot(to, c)
    BY <1>3, <1>4, <1>6, <1>8 DEF validateBallot
  <1> QED BY <1>6, <1>9 DEF c

\* In the carried ballot every pair has the position it had in the original: the
\* ballots of the voter agree on it, wherever the pair is seeded.
LEMMA CarriedOrderingSameVote ==
  ASSUME NEW from, NEW to, NEW ordering, Injective(from),
         NEW i \in DOMAIN from, NEW j \in DOMAIN to, from[i] = to[j]
  PROVE  ordering[i] = carriedOrdering(from, to, ordering)[j]
  BY DEF Injective, carriedOrdering, pairMap

\* A group without repeated pairs has as many pairs as seeds.
LEMMA PairCount ==
  ASSUME NEW group \in Seq(Pair), Injective(group)
  PROVE  /\ IsFiniteSet({group[s] : s \in DOMAIN group})
         /\ Cardinality({group[s] : s \in DOMAIN group}) = Len(group)
  <1> DEFINE P == {group[s] : s \in DOMAIN group}
  <1>1. DOMAIN group = 1..Len(group) /\ Len(group) \in Nat
    BY LenProperties
  <1>2. group \in [1..Len(group) -> P]
    BY <1>1, LenProperties
  <1>3. group \in Bijection(1..Len(group), P)
    BY <1>1, <1>2 DEF Bijection, Injection, Surjection, IsInjective, Injective
  <1>4. ExistsBijection(1..Len(group), P)
    BY <1>3 DEF ExistsBijection
  <1> QED BY <1>1, <1>4, FS_NatBijection, FS_CountingElements

\* "As many pairs, each of them in the original" (planCarryOver) leaves no pair of
\* the original out.
LEMMA KeptGroupWhole ==
  ASSUME NEW original, NEW replacement, NEW l,
         original[l] \in Seq(Pair), replacement[l] \in Seq(Pair),
         Injective(original[l]), Injective(replacement[l]),
         keepsVotes(original, replacement, l)
  PROVE  \A i \in DOMAIN original[l] : \E j \in DOMAIN replacement[l] :
           replacement[l][j] = original[l][i]
  <1> DEFINE P == {original[l][s] : s \in DOMAIN original[l]}
             Q == {replacement[l][s] : s \in DOMAIN replacement[l]}
  <1>1. /\ IsFiniteSet(P) /\ Cardinality(P) = Len(original[l])
        /\ IsFiniteSet(Q) /\ Cardinality(Q) = Len(replacement[l])
    BY PairCount
  <1>2. Q \subseteq P /\ Cardinality(Q) = Cardinality(P)
    BY <1>1 DEF keepsVotes
  <1>3. P = Q
    <2> HIDE DEF P, Q
    <2> QED BY <1>1, <1>2, FS_Subset
  <1>4. \A i \in DOMAIN original[l] : original[l][i] \in Q
    BY <1>3
  <1> QED BY <1>4

\* So a group keeps its votes exactly when the pairs of both are the same set.
LEMMA KeepsVotesIffSamePairs ==
  ASSUME NEW original, NEW replacement, NEW l,
         l \in DOMAIN original, l \in DOMAIN replacement,
         original[l] \in Seq(Pair), replacement[l] \in Seq(Pair),
         Injective(original[l]), Injective(replacement[l])
  PROVE  keepsVotes(original, replacement, l) <=>
           {original[l][s] : s \in DOMAIN original[l]}
             = {replacement[l][s] : s \in DOMAIN replacement[l]}
  <1> DEFINE P == {original[l][s] : s \in DOMAIN original[l]}
             Q == {replacement[l][s] : s \in DOMAIN replacement[l]}
  <1>1. ASSUME keepsVotes(original, replacement, l) PROVE P = Q
    <2>1. \A i \in DOMAIN original[l] : \E j \in DOMAIN replacement[l] :
            replacement[l][j] = original[l][i]
      BY <1>1, KeptGroupWhole
    <2> QED BY <1>1, <2>1 DEF keepsVotes
  <1>2. ASSUME P = Q PROVE keepsVotes(original, replacement, l)
    <2>1. Len(original[l]) = Len(replacement[l])
      BY <1>2, PairCount
    <2>2. \A s \in DOMAIN replacement[l] : replacement[l][s] \in P
      BY <1>2
    <2>3. \A s \in DOMAIN replacement[l] :
            \E f \in DOMAIN original[l] : original[l][f] = replacement[l][s]
      BY <2>2
    <2> QED BY <2>1, <2>3 DEF keepsVotes
  <1> QED BY <1>1, <1>2

-------------------------------------------------------------------------------
\* What a step leaves alone.

\* The locals of a request that is not under way have the types of locals.
LEMMA NoCastType == NoCast \in Cast
  BY DEF NoCast, Cast

\* As NoCastType, for an organiser.
LEMMA NoSwapType == NoSwap \in Swap
  BY DEF NoSwap, Swap

\* What a request knows stays true in a step that changes neither the
\* tables nor its own locals: an organiser's.
LEMMA SwapFrame ==
  ASSUME NEW o \in Organiser, SwapKnows(o), pc'[o] = pc[o], swap'[o] = swap[o],
         tournaments' = tournaments, ballots' = ballots
  PROVE  SwapKnows(o)'
  BY DEF SwapKnows, Plan, Copy, Published, Replaced

\* The same for a voter's request.
LEMMA CastFrame ==
  ASSUME NEW r \in Request, CastKnows(r), pc'[r] = pc[r], cast'[r] = cast[r],
         tournaments' = tournaments, ballots' = ballots
  PROVE  CastKnows(r)'
  BY DEF CastKnows, Published, HasGroup, GroupLineup, Replaced, HasBallot, BallotsIn, Receipt

\* The same for what the tables keep.
LEMMA TablesFrame ==
  ASSUME TablesKeep, tournaments' = tournaments, ballots' = ballots
  PROVE  TablesKeep'
  BY DEF TablesKeep, Published, Replaced, HasGroup, GroupLineup, OneBallotPerVoter

\* A step of a voter's request that changes its own locals only.
LEMMA CastStepFrame ==
  ASSUME IInv, NEW r \in Request, NEW step \in CastSteps \cup Answers, NEW c \in Cast,
         pc' = [pc EXCEPT ![r] = step], cast' = [cast EXCEPT ![r] = c],
         UNCHANGED <<clock, tournaments, ballots, swap>>
  PROVE  /\ TypeOK'
         /\ \A q \in Request \ {r} : CastKnows(q)'
         /\ \A o \in Organiser : SwapKnows(o)'
         /\ TablesKeep'
  <1>1. TypeOK'
    BY DEF IInv, TypeOK, Published, Process
  <1>2. ASSUME NEW q \in Request \ {r} PROVE CastKnows(q)'
    BY <1>2, CastFrame DEF IInv, TypeOK, Process
  <1>3. ASSUME NEW o \in Organiser PROVE SwapKnows(o)'
    BY <1>3, SwapFrame, BallotBoxConstants DEF IInv, TypeOK, Process
  <1>4. TablesKeep'
    BY TablesFrame DEF IInv
  <1> QED BY <1>1, <1>2, <1>3, <1>4

\* A request that holds no lock after its step excludes nobody.
LEMMA ReleasedFrame ==
  ASSUME LocksExclude, NEW r \in Request,
         \A p \in Process \ {r} : pc'[p] = pc[p],
         \A q \in Request \ {r} : cast'[q] = cast[q],
         swap' = swap,
         pc'[r] \notin {"sharing", "inserted"}
  PROVE  LocksExclude'
  <1>0. /\ \A o \in Organiser : pc'[o] = pc[o]
        /\ \A q \in Request : q # r => pc'[q] = pc[q] /\ cast'[q] = cast[q]
    BY BallotBoxConstants DEF Process
  <1>1. ASSUME NEW o \in Organiser, NEW q \in Request,
               pc'[o] \in {"locked", "copying"}, pc'[q] \in {"sharing", "inserted"}
        PROVE  cast'[q].group[1] # swap'[o].original
    <2>1. q # r
      BY <1>1
    <2> QED BY <1>0, <1>1, <2>1 DEF LocksExclude
  <1>2. ASSUME NEW q \in Request, NEW p \in Request,
               pc'[q] = "inserted", pc'[p] = "inserted", q # p
        PROVE  cast'[q].group # cast'[p].group \/ cast'[q].voter # cast'[p].voter
    BY <1>0, <1>2 DEF LocksExclude
  <1>3. ASSUME NEW o \in Organiser, NEW q \in Organiser,
               pc'[o] \in {"locked", "copying"}, pc'[q] \in {"locked", "copying"}, o # q
        PROVE  swap'[q].original # swap'[o].original
    BY <1>0, <1>3 DEF LocksExclude
  <1>4. ASSUME NEW o \in Organiser, NEW q \in Organiser,
               pc'[o] = "copying", pc'[q] = "copying", o # q
        PROVE  swap'[q].successor # swap'[o].successor
    BY <1>0, <1>4 DEF LocksExclude
  <1> QED BY <1>1, <1>2, <1>3, <1>4 DEF LocksExclude

-------------------------------------------------------------------------------
\* The steps of a voter's request.

\* An answer to a voter, other than the receipt, ends the request: a rollback where a
\* transaction was open.
LEMMA AnswerVoterInv ==
  ASSUME IInv, NEW r \in Request, NEW answer \in Answers \ {"RECORDED"},
         AnswerVoter(r, answer), UNCHANGED <<clock, tournaments, ballots, swap>>
  PROVE  IInv'
  <1>1. pc' = [pc EXCEPT ![r] = answer] /\ cast' = [cast EXCEPT ![r] = NoCast]
    BY DEF AnswerVoter, Goto
  <1>2. pc'[r] = answer /\ \A p \in Process \ {r} : pc'[p] = pc[p]
    BY <1>1 DEF IInv, TypeOK, Process
  <1>3. \A q \in Request \ {r} : cast'[q] = cast[q]
    BY <1>1 DEF IInv, TypeOK
  <1>4. CastKnows(r)'
    BY <1>2 DEF CastKnows, Answers, CastSteps
  <1>5. LocksExclude'
    BY <1>2, <1>3, ReleasedFrame DEF IInv, Answers
  <1> QED BY <1>1, <1>4, <1>5, CastStepFrame, NoCastType DEF IInv

\* The two first queries leave the request with a group that exists.
LEMMA LoadGroupInv ==
  ASSUME IInv, NEW r \in Request, LoadGroup(r)
  PROVE  IInv'
  <1>1. PICK v \in Voter, g \in Group, ordering \in Submissions :
          \/ /\ HasGroup(g)
             /\ cast' = [cast EXCEPT ![r] =
                  [NoCast EXCEPT !.voter = v, !.group = g, !.ordering = ordering,
                                 !.seen = tournaments[g[1]]]]
             /\ Goto(r, "loaded")
          \/ AnswerVoter(r, "NOT_FOUND")
    BY DEF LoadGroup
  <1>2. UNCHANGED <<clock, tournaments, ballots, swap>>
    BY DEF LoadGroup
  <1>3. CASE AnswerVoter(r, "NOT_FOUND")
    BY <1>2, <1>3, AnswerVoterInv DEF Answers
  <1>4. CASE /\ HasGroup(g)
             /\ cast' = [cast EXCEPT ![r] =
                  [NoCast EXCEPT !.voter = v, !.group = g, !.ordering = ordering,
                                 !.seen = tournaments[g[1]]]]
             /\ Goto(r, "loaded")
    <2> DEFINE c == [NoCast EXCEPT !.voter = v, !.group = g, !.ordering = ordering,
                                   !.seen = tournaments[g[1]]]
    <2>1. cast' = [cast EXCEPT ![r] = c] /\ pc' = [pc EXCEPT ![r] = "loaded"]
      BY <1>4 DEF Goto
    <2>2. tournaments[g[1]] \in Row
      BY <1>4 DEF IInv, TypeOK, HasGroup
    <2>3. /\ c \in Cast
          /\ c.voter = v /\ c.group = g /\ c.ordering = ordering
          /\ c.seen = tournaments[g[1]]
      BY <2>2, NoCastType DEF Cast
    <2> HIDE DEF c
    <2>4. pc'[r] = "loaded" /\ \A p \in Process \ {r} : pc'[p] = pc[p]
      BY <2>1 DEF IInv, TypeOK, Process
    <2>5. cast'[r] = c /\ \A q \in Request \ {r} : cast'[q] = cast[q]
      BY <2>1 DEF IInv, TypeOK
    <2>6. CastKnows(r)'
      BY <1>2, <1>4, <2>2, <2>3, <2>4, <2>5 DEF CastKnows, CastSteps, HasGroup, Published
    <2>7. LocksExclude'
      BY <1>2, <2>4, <2>5, ReleasedFrame DEF IInv
    <2> QED BY <1>2, <2>1, <2>3, <2>6, <2>7, CastStepFrame DEF IInv, CastSteps
  <1> QED BY <1>1, <1>3, <1>4

\* After the handler's check the ballot is complete for its group.
LEMMA CheckBallotInv ==
  ASSUME IInv, NEW r \in Request, CheckBallot(r)
  PROVE  IInv'
  <1>1. UNCHANGED <<clock, tournaments, ballots, swap>>
    BY DEF CheckBallot
  <1>2. CASE AnswerVoter(r, "VOTING_CLOSED") \/ AnswerVoter(r, "INVALID_BALLOT")
    BY <1>1, <1>2, AnswerVoterInv DEF Answers
  <1>3. CASE /\ validateBallot(GroupLineup(cast[r].group), cast[r].ordering)
             /\ cast' = [cast EXCEPT ![r].now = clock, ![r].seen = None]
             /\ Goto(r, "checked")
    <2> DEFINE c == [cast[r] EXCEPT !.now = clock, !.seen = None]
    <2>1. cast[r] \in Cast /\ clock \in Instant
      BY DEF IInv, TypeOK
    <2>2. cast' = [cast EXCEPT ![r] = c] /\ pc' = [pc EXCEPT ![r] = "checked"]
      BY <1>3 DEF Goto, IInv, TypeOK
    <2>3. /\ c \in Cast
          /\ c.voter = cast[r].voter /\ c.group = cast[r].group
          /\ c.ordering = cast[r].ordering /\ c.now = clock
      BY <2>1 DEF Cast
    <2> HIDE DEF c
    <2>4. pc'[r] = "checked" /\ \A p \in Process \ {r} : pc'[p] = pc[p]
      BY <2>2 DEF IInv, TypeOK, Process
    <2>5. cast'[r] = c /\ \A q \in Request \ {r} : cast'[q] = cast[q]
      BY <2>2 DEF IInv, TypeOK
    <2>6. CastKnows(r) /\ pc[r] = "loaded"
      BY DEF IInv, CheckBallot
    <2>7. CastKnows(r)'
      BY <1>1, <1>3, <2>1, <2>3, <2>4, <2>5, <2>6
      DEF CastKnows, CastSteps, HasGroup, GroupLineup, Published
    <2>8. LocksExclude'
      BY <1>1, <2>4, <2>5, ReleasedFrame DEF IInv
    <2> QED BY <1>1, <2>2, <2>3, <2>7, <2>8, CastStepFrame DEF IInv, CastSteps
  <1> QED BY <1>2, <1>3 DEF CheckBallot

\* FOR SHARE is granted when nobody replaces the tournament, and while it is live.
LEMMA LockTournamentInv ==
  ASSUME IInv, NEW r \in Request, LockTournament(r)
  PROVE  IInv'
  <1> DEFINE t == cast[r].group[1]
  <1>1. UNCHANGED <<clock, tournaments, ballots, swap>>
    BY DEF LockTournament
  <1>2. CASE AnswerVoter(r, "VOTING_CLOSED")
    BY <1>1, <1>2, AnswerVoterInv DEF Answers
  <1>3. CASE StillOpen(t, cast[r].now) /\ Holding(t) = {} /\ Goto(r, "sharing") /\ UNCHANGED cast
    <2>1. pc' = [pc EXCEPT ![r] = "sharing"] /\ cast' = [cast EXCEPT ![r] = cast[r]]
      BY <1>3 DEF Goto, IInv, TypeOK
    <2>2. pc'[r] = "sharing" /\ \A p \in Process \ {r} : pc'[p] = pc[p]
      BY <2>1 DEF IInv, TypeOK, Process
    <2>3. CastKnows(r) /\ pc[r] = "checked" /\ cast[r] \in Cast
      BY DEF IInv, TypeOK, LockTournament
    <2>4. CastKnows(r)'
      BY <1>1, <1>3, <2>2, <2>3
      DEF CastKnows, CastSteps, HasGroup, GroupLineup, Published, Replaced, StillOpen
    <2>5. LocksExclude'
      <3>1. \A o \in Organiser : pc'[o] = pc[o] /\ o # r
        BY <2>2, BallotBoxConstants DEF Process
      <3>2. \A q \in Request \ {r} : pc'[q] = pc[q]
        BY <2>2 DEF Process
      <3>3. \A o \in Organiser : pc[o] \in {"locked", "copying"} => swap[o].original # t
        BY <1>3 DEF Holding
      <3> QED BY <1>1, <1>3, <2>2, <3>1, <3>2, <3>3 DEF LocksExclude, IInv
    <2> QED BY <1>1, <2>1, <2>3, <2>4, <2>5, CastStepFrame DEF IInv, CastSteps
  <1> QED BY <1>2, <1>3 DEF LockTournament

\* The unique index admits one uncommitted ballot of a voter in a group.
LEMMA InsertBallotInv ==
  ASSUME IInv, NEW r \in Request, InsertBallot(r)
  PROVE  IInv'
  <1>1. UNCHANGED <<clock, tournaments, ballots, swap>> /\ pc[r] = "sharing"
    BY DEF InsertBallot
  <1>2. CASE AnswerVoter(r, "ALREADY_VOTED")
    BY <1>1, <1>2, AnswerVoterInv DEF Answers
  <1>3. CASE /\ ~HasBallot(cast[r].group, cast[r].voter)
             /\ Rivals(r) = {} /\ Goto(r, "inserted") /\ UNCHANGED cast
    <2>1. pc' = [pc EXCEPT ![r] = "inserted"] /\ cast' = [cast EXCEPT ![r] = cast[r]]
      BY <1>3 DEF Goto, IInv, TypeOK
    <2>2. pc'[r] = "inserted" /\ \A p \in Process \ {r} : pc'[p] = pc[p]
      BY <2>1 DEF IInv, TypeOK, Process
    <2>3. CastKnows(r) /\ cast[r] \in Cast
      BY DEF IInv, TypeOK
    <2>4. CastKnows(r)'
      BY <1>1, <1>3, <2>2, <2>3
      DEF CastKnows, CastSteps, HasGroup, GroupLineup, Published, Replaced, HasBallot, BallotsIn
    <2>5. LocksExclude'
      <3>1. \A o \in Organiser : pc'[o] = pc[o] /\ o # r
        BY <2>2, BallotBoxConstants DEF Process
      <3>2. \A q \in Request \ {r} : pc'[q] = pc[q]
        BY <2>2 DEF Process
      <3>3. \A q \in Request \ {r} : pc[q] = "inserted" =>
              cast[q].group # cast[r].group \/ cast[q].voter # cast[r].voter
        BY <1>3 DEF Rivals
      <3> QED BY <1>1, <1>3, <2>2, <3>1, <3>2, <3>3 DEF LocksExclude, IInv
    <2> QED BY <1>1, <2>1, <2>3, <2>4, <2>5, CastStepFrame DEF IInv, CastSteps
  <1> QED BY <1>2, <1>3 DEF InsertBallot

\* The commit of a ballot: no replacement of its tournament is copying, for the share
\* lock was held until now, so no copy misses it.
LEMMA CommitBallotInv ==
  ASSUME IInv, NEW r \in Request, CommitBallot(r)
  PROVE  IInv'
  <1> DEFINE b0 == Receipt(r)
  <1>1. /\ UNCHANGED <<clock, tournaments, cast, swap>> /\ pc[r] = "inserted"
        /\ ballots' = ballots \cup {b0}
        /\ pc' = [pc EXCEPT ![r] = "committed"]
    BY DEF CommitBallot, Goto, Receipt
  <1>2. pc'[r] = "committed" /\ \A p \in Process \ {r} : pc'[p] = pc[p]
    BY <1>1 DEF IInv, TypeOK, Process
  <1>3. /\ CastKnows(r)
        /\ b0.group = cast[r].group /\ b0.voter = cast[r].voter /\ b0.ordering = cast[r].ordering
        /\ b0.carried = FALSE
    BY DEF IInv, Receipt
  <1>4. b0 \in Ballot
    BY <1>1, <1>3, BallotBoxConstants DEF Ballot, CastKnows, CastSteps, Receipt
  <1>5. b0 = Receipt(r)'
    BY <1>1 DEF Receipt
  <1> HIDE DEF b0
  <1>6. TypeOK'
    BY <1>1, <1>4 DEF IInv, TypeOK, CastSteps, Published, Process
  <1>7. CastKnows(r)'
    BY <1>1, <1>2, <1>3, <1>5 DEF CastKnows, CastSteps, HasGroup, Published
  <1>8. ASSUME NEW q \in Request \ {r} PROVE CastKnows(q)'
    <2>1. pc'[q] = pc[q] /\ CastKnows(q)
      BY <1>2 DEF Process, IInv
    <2>2. pc[q] = "inserted" => ~HasBallot(cast[q].group, cast[q].voter)'
      BY <1>1, <1>3, <2>1 DEF IInv, LocksExclude, CastKnows, HasBallot, BallotsIn
    <2> QED BY <1>1, <2>1, <2>2
        DEF CastKnows, HasGroup, GroupLineup, Published, Replaced, Receipt
  <1>9. ASSUME NEW o \in Organiser PROVE SwapKnows(o)'
    <2>1. pc'[o] = pc[o] /\ SwapKnows(o)
      BY <1>2, BallotBoxConstants DEF Process, IInv
    <2>2. pc[o] = "copying" => b0.group[1] # swap[o].original
      BY <1>1, <1>3 DEF IInv, LocksExclude
    <2>3. Plan(o)' = Plan(o) /\ \A b : Copy(o, b)' = Copy(o, b)
      BY <1>1 DEF Plan, Copy
    <2>4. pc[o] = "copying" =>
            {a \in ballots' : a.group[1] = swap[o].original /\ a.group[2] \in Plan(o) \ swap[o].todo}
              = {a \in ballots : a.group[1] = swap[o].original /\ a.group[2] \in Plan(o) \ swap[o].todo}
      BY <1>1, <2>2
    <2> QED BY <1>1, <2>1, <2>3, <2>4 DEF SwapKnows, Published, Replaced
  <1>10. LocksExclude'
    BY <1>1, <1>2, ReleasedFrame DEF IInv
  <1>11. TablesKeep'
    <2>1. HasGroup(b0.group) /\ validateBallot(GroupLineup(b0.group), b0.ordering)
      BY <1>1, <1>3 DEF CastKnows, CastSteps
    <2>2. ~Replaced(b0.group[1])
      BY <1>1, <1>3 DEF CastKnows
    <2>3. \A a \in ballots : a.group = b0.group => a.voter # b0.voter
      BY <1>1, <1>3 DEF CastKnows, HasBallot, BallotsIn
    <2>4. OneBallotPerVoter'
      BY <1>1, <2>3 DEF IInv, TablesKeep, OneBallotPerVoter
    <2> QED BY <1>1, <2>1, <2>2, <2>4
        DEF IInv, TablesKeep, HasGroup, GroupLineup, Published, Replaced
  <1> QED BY <1>6, <1>7, <1>8, <1>9, <1>10, <1>11 DEF IInv

\* The count after the commit finds at least the ballot just committed, so the request
\* ends with its receipt.
LEMMA CountBallotsInv ==
  ASSUME IInv, NEW r \in Request, CountBallots(r)
  PROVE  IInv' /\ pc'[r] = "RECORDED"
  <1>1. UNCHANGED <<clock, tournaments, ballots, swap>> /\ pc[r] = "committed"
    BY DEF CountBallots
  <1>2. CastKnows(r) /\ Receipt(r) \in BallotsIn(cast[r].group) /\ cast[r] \in Cast
    BY <1>1 DEF IInv, TypeOK, CastKnows, Receipt, BallotsIn
  <1>3. pc' = [pc EXCEPT ![r] = "RECORDED"] /\ cast' = cast
    BY <1>2 DEF CountBallots, Goto
  <1>4. pc'[r] = "RECORDED" /\ \A p \in Process \ {r} : pc'[p] = pc[p]
    BY <1>3 DEF IInv, TypeOK, Process
  <1>5. cast' = [cast EXCEPT ![r] = cast[r]]
    BY <1>3 DEF IInv, TypeOK
  <1>6. CastKnows(r)'
    BY <1>1, <1>2, <1>3, <1>4 DEF CastKnows, CastSteps, Answers, HasGroup, Published, Receipt
  <1>7. LocksExclude'
    BY <1>1, <1>3, <1>4, ReleasedFrame DEF IInv
  <1> QED BY <1>1, <1>2, <1>3, <1>4, <1>5, <1>6, <1>7, CastStepFrame DEF IInv, Answers

\* A failure before the answer rolls back what was not committed.
LEMMA FailCastInv ==
  ASSUME IInv, NEW r \in Request, FailCast(r)
  PROVE  IInv'
  BY AnswerVoterInv DEF FailCast, Answers

-------------------------------------------------------------------------------
\* The steps of an organiser's request.

\* A step of an organiser's request that changes its own locals only.
LEMMA SwapStepFrame ==
  ASSUME IInv, NEW o \in Organiser, NEW step \in SwapSteps \cup Answers, NEW c \in Swap,
         pc' = [pc EXCEPT ![o] = step], swap' = [swap EXCEPT ![o] = c],
         UNCHANGED <<clock, tournaments, ballots, cast>>
  PROVE  /\ TypeOK'
         /\ \A r \in Request : CastKnows(r)'
         /\ \A q \in Organiser \ {o} : SwapKnows(q)'
         /\ TablesKeep'
  <1>1. TypeOK'
    BY DEF IInv, TypeOK, Published, Process
  <1>2. ASSUME NEW r \in Request PROVE CastKnows(r)'
    BY <1>2, CastFrame, BallotBoxConstants DEF IInv, TypeOK, Process
  <1>3. ASSUME NEW q \in Organiser \ {o} PROVE SwapKnows(q)'
    BY <1>3, SwapFrame DEF IInv, TypeOK, Process
  <1>4. TablesKeep'
    BY TablesFrame DEF IInv
  <1> QED BY <1>1, <1>2, <1>3, <1>4

\* An organiser's request that gives up its lock, or keeps the one it had, excludes the
\* others as before.
LEMMA OrganiserFrame ==
  ASSUME LocksExclude, NEW o \in Organiser,
         \A p \in Process \ {o} : pc'[p] = pc[p],
         \A q \in Organiser \ {o} : swap'[q] = swap[q],
         cast' = cast,
         \/ pc'[o] \notin {"locked", "copying"}
         \/ /\ pc[o] \in {"locked", "copying"}
            /\ swap'[o].original = swap[o].original
            /\ \A q \in Organiser \ {o} :
                 pc[q] = "copying" => swap[q].successor # swap'[o].successor
  PROVE  LocksExclude'
  <1>0. /\ \A r \in Request : pc'[r] = pc[r]
        /\ \A q \in Organiser : q # o => pc'[q] = pc[q] /\ swap'[q] = swap[q]
    BY BallotBoxConstants DEF Process
  <1>1. ASSUME NEW q \in Organiser, NEW r \in Request,
               pc'[q] \in {"locked", "copying"}, pc'[r] \in {"sharing", "inserted"}
        PROVE  cast'[r].group[1] # swap'[q].original
    BY <1>0, <1>1 DEF LocksExclude
  <1>2. ASSUME NEW q \in Request, NEW r \in Request,
               pc'[q] = "inserted", pc'[r] = "inserted", q # r
        PROVE  cast'[q].group # cast'[r].group \/ cast'[q].voter # cast'[r].voter
    BY <1>0, <1>2 DEF LocksExclude
  <1>3. ASSUME NEW p \in Organiser, NEW q \in Organiser,
               pc'[p] \in {"locked", "copying"}, pc'[q] \in {"locked", "copying"}, p # q
        PROVE  swap'[q].original # swap'[p].original
    BY <1>0, <1>3 DEF LocksExclude
  <1>4. ASSUME NEW p \in Organiser, NEW q \in Organiser,
               pc'[p] = "copying", pc'[q] = "copying", p # q
        PROVE  swap'[q].successor # swap'[p].successor
    BY <1>0, <1>4 DEF LocksExclude
  <1> QED BY <1>1, <1>2, <1>3, <1>4 DEF LocksExclude

\* An answer to an organiser ends the request.
LEMMA AnswerOrganiserInv ==
  ASSUME IInv, NEW o \in Organiser, NEW answer \in Answers,
         AnswerOrganiser(o, answer), UNCHANGED <<clock, tournaments, ballots, cast>>
  PROVE  IInv'
  <1>1. pc' = [pc EXCEPT ![o] = answer] /\ swap' = [swap EXCEPT ![o] = NoSwap]
    BY DEF AnswerOrganiser, Goto
  <1>2. pc'[o] = answer /\ \A p \in Process \ {o} : pc'[p] = pc[p]
    BY <1>1 DEF IInv, TypeOK, Process
  <1>3. \A q \in Organiser \ {o} : swap'[q] = swap[q]
    BY <1>1 DEF IInv, TypeOK
  <1>4. SwapKnows(o)'
    BY <1>2 DEF SwapKnows, Answers, SwapSteps
  <1>5. LocksExclude'
    BY <1>2, <1>3, OrganiserFrame DEF IInv, Answers
  <1> QED BY <1>1, <1>4, <1>5, SwapStepFrame, NoSwapType DEF IInv

\* The first query leaves the request with an original that exists and its lineup.
LEMMA LoadOriginalInv ==
  ASSUME IInv, NEW o \in Organiser, LoadOriginal(o)
  PROVE  IInv'
  <1>1. UNCHANGED <<clock, tournaments, ballots, cast>>
    BY DEF LoadOriginal
  <1>2. ASSUME NEW answer \in {"NOT_CONFIRMED", "NOT_FOUND"}, AnswerOrganiser(o, answer)
        PROVE  IInv'
    BY <1>1, <1>2, AnswerOrganiserInv DEF Answers
  <1>3. ASSUME NEW t \in Published, NEW L \in Lineups, NEW startsAt \in Instant,
               swap' = [swap EXCEPT ![o] =
                 [NoSwap EXCEPT !.original = t, !.seen = tournaments[t],
                                !.lineup = L, !.startsAt = startsAt]],
               Goto(o, "loaded")
        PROVE  IInv'
    <2> DEFINE c == [NoSwap EXCEPT !.original = t, !.seen = tournaments[t],
                                   !.lineup = L, !.startsAt = startsAt]
    <2>1. pc' = [pc EXCEPT ![o] = "loaded"] /\ swap' = [swap EXCEPT ![o] = c]
      BY <1>3 DEF Goto
    <2>2. tournaments[t] \in Row /\ t \in Tournament
      BY DEF IInv, TypeOK
    <2>3. /\ c \in Swap
          /\ c.original = t /\ c.seen = tournaments[t] /\ c.lineup = L
          /\ c.startsAt = startsAt /\ c.copies = {}
      BY <2>2, NoSwapType DEF Swap, NoSwap
    <2> HIDE DEF c
    <2>4. pc'[o] = "loaded" /\ \A p \in Process \ {o} : pc'[p] = pc[p]
      BY <2>1 DEF IInv, TypeOK, Process
    <2>5. swap'[o] = c /\ \A q \in Organiser \ {o} : swap'[q] = swap[q]
      BY <2>1 DEF IInv, TypeOK
    <2>6. SwapKnows(o)'
      BY <1>1, <2>2, <2>3, <2>4, <2>5 DEF SwapKnows, SwapSteps, Published
    <2>7. LocksExclude'
      BY <1>1, <2>4, <2>5, OrganiserFrame DEF IInv
    <2> QED BY <1>1, <2>1, <2>3, <2>6, <2>7, SwapStepFrame DEF IInv, SwapSteps
  <1> QED BY <1>2, <1>3 DEF LoadOriginal

\* The plan is made from the lineup as first read, and a lineup never changes.
LEMMA PrepareInv ==
  ASSUME IInv, NEW o \in Organiser, Prepare(o)
  PROVE  IInv'
  <1>1. UNCHANGED <<clock, tournaments, ballots, cast>> /\ pc[o] = "loaded"
    BY DEF Prepare
  <1>2. CASE AnswerOrganiser(o, "NOT_REPLACEABLE") \/ AnswerOrganiser(o, "REJECTED")
    BY <1>1, <1>2, AnswerOrganiserInv DEF Answers
  <1>3. CASE /\ swap' = [swap EXCEPT ![o].now = clock, ![o].seen = None,
                           ![o].todo = planCarryOver(swap[o].seen.lineup, swap[o].lineup)]
             /\ Goto(o, "prepared")
    <2> DEFINE plan == planCarryOver(swap[o].seen.lineup, swap[o].lineup)
               c == [swap[o] EXCEPT !.now = clock, !.seen = None, !.todo = plan]
    <2>1. swap[o] \in Swap /\ clock \in Instant /\ SwapKnows(o)
      BY DEF IInv, TypeOK
    <2>2. plan \in SUBSET Label
      BY <1>1, <2>1, BallotBoxConstants DEF SwapKnows, SwapSteps, planCarryOver
    <2>3. swap' = [swap EXCEPT ![o] = c] /\ pc' = [pc EXCEPT ![o] = "prepared"]
      BY <1>3 DEF Goto, IInv, TypeOK
    <2>4. plan = Plan(o)
      BY <1>1, <2>1 DEF SwapKnows, Plan
    <2>5. /\ c \in Swap
          /\ c.original = swap[o].original /\ c.lineup = swap[o].lineup
          /\ c.startsAt = swap[o].startsAt /\ c.copies = swap[o].copies
          /\ c.now = clock /\ c.todo = Plan(o)
      <3> HIDE DEF plan
      <3> QED BY <2>1, <2>2, <2>4 DEF Swap
    <2> HIDE DEF c, plan
    <2>6. pc'[o] = "prepared" /\ \A p \in Process \ {o} : pc'[p] = pc[p]
      BY <2>3 DEF IInv, TypeOK, Process
    <2>7. swap'[o] = c /\ \A q \in Organiser \ {o} : swap'[q] = swap[q]
      BY <2>3 DEF IInv, TypeOK
    <2>8. SwapKnows(o)'
      BY <1>1, <2>1, <2>5, <2>6, <2>7 DEF SwapKnows, SwapSteps, Published, Plan
    <2>9. LocksExclude'
      BY <1>1, <2>6, <2>7, OrganiserFrame DEF IInv
    <2> QED BY <1>1, <2>3, <2>5, <2>8, <2>9, SwapStepFrame DEF IInv, SwapSteps
  <1> QED BY <1>2, <1>3 DEF Prepare

\* FOR UPDATE is granted when nobody casts in the tournament nor replaces it.
LEMMA LockOriginalInv ==
  ASSUME IInv, NEW o \in Organiser, LockOriginal(o)
  PROVE  IInv'
  <1> DEFINE t == swap[o].original
  <1>1. /\ UNCHANGED <<clock, tournaments, ballots, cast>> /\ pc[o] = "prepared"
        /\ Sharing(t) = {} /\ Holding(t) = {}
    BY DEF LockOriginal
  <1>2. CASE AnswerOrganiser(o, "NOT_REPLACEABLE")
    BY <1>1, <1>2, AnswerOrganiserInv DEF Answers
  <1>3. CASE StillOpen(t, swap[o].now) /\ Goto(o, "locked") /\ UNCHANGED swap
    <2>1. pc' = [pc EXCEPT ![o] = "locked"] /\ swap' = [swap EXCEPT ![o] = swap[o]]
      BY <1>3 DEF Goto, IInv, TypeOK
    <2>2. pc'[o] = "locked" /\ \A p \in Process \ {o} : pc'[p] = pc[p]
      BY <2>1 DEF IInv, TypeOK, Process
    <2>3. SwapKnows(o) /\ swap[o] \in Swap
      BY DEF IInv, TypeOK
    <2>4. SwapKnows(o)'
      BY <1>1, <1>3, <2>2, <2>3 DEF SwapKnows, SwapSteps, Published, Plan, Replaced, StillOpen
    <2>5. LocksExclude'
      <3>1. \A r \in Request : /\ pc'[r] = pc[r]
                               /\ pc[r] \in {"sharing", "inserted"} => cast[r].group[1] # t
        BY <1>1, <2>2, BallotBoxConstants DEF Process, Sharing
      <3>2. \A q \in Organiser \ {o} : /\ pc'[q] = pc[q]
                                       /\ pc[q] \in {"locked", "copying"} => swap[q].original # t
        BY <1>1, <2>2 DEF Process, Holding
      <3> QED BY <1>1, <1>3, <2>2, <3>1, <3>2 DEF LocksExclude, IInv
    <2> QED BY <1>1, <2>1, <2>3, <2>4, <2>5, SwapStepFrame DEF IInv, SwapSteps
  <1> QED BY <1>2, <1>3 DEF LockOriginal

\* The replacement's id is nobody else's.
LEMMA InsertPublicationInv ==
  ASSUME IInv, NEW o \in Organiser, InsertPublication(o)
  PROVE  IInv'
  <1>1. PICK s \in Tournament \ Published :
          /\ \A q \in Organiser : swap[q].successor # s
          /\ swap' = [swap EXCEPT ![o].successor = s]
    BY DEF InsertPublication
  <1> DEFINE c == [swap[o] EXCEPT !.successor = s]
  <1>2. /\ UNCHANGED <<clock, tournaments, ballots, cast>> /\ pc[o] = "locked"
        /\ pc' = [pc EXCEPT ![o] = "copying"]
        /\ swap' = [swap EXCEPT ![o] = c]
    BY <1>1 DEF InsertPublication, Goto, IInv, TypeOK
  <1>3. swap[o] \in Swap /\ SwapKnows(o)
    BY DEF IInv, TypeOK
  <1>4. /\ c \in Swap
        /\ c.original = swap[o].original /\ c.lineup = swap[o].lineup
        /\ c.startsAt = swap[o].startsAt /\ c.copies = swap[o].copies
        /\ c.now = swap[o].now /\ c.todo = swap[o].todo /\ c.successor = s
    BY <1>3 DEF Swap
  <1> HIDE DEF c
  <1>5. pc'[o] = "copying" /\ \A p \in Process \ {o} : pc'[p] = pc[p]
    BY <1>2 DEF IInv, TypeOK, Process
  <1>6. swap'[o] = c /\ \A q \in Organiser \ {o} : swap'[q] = swap[q]
    BY <1>2 DEF IInv, TypeOK
  <1>7. SwapKnows(o)'
    <2>1. Plan(o)' = Plan(o)
      BY <1>2, <1>4, <1>6 DEF Plan
    <2>2. c.todo = Plan(o) /\ c.copies = {}
      BY <1>2, <1>3, <1>4 DEF SwapKnows
    <2>3. {a \in ballots : a.group[1] = swap[o].original /\ a.group[2] \in Plan(o) \ c.todo} = {}
      BY <2>2
    <2>4. {Copy(o, b)' : b \in {a \in ballots : /\ a.group[1] = swap[o].original
                                                /\ a.group[2] \in Plan(o) \ c.todo}} = {}
      BY <2>3
    <2> QED BY <1>2, <1>3, <1>4, <1>5, <1>6, <2>1, <2>2, <2>4
        DEF SwapKnows, SwapSteps, Published, Replaced
  <1>8. LocksExclude'
    BY <1>1, <1>2, <1>4, <1>5, <1>6, OrganiserFrame DEF IInv
  <1> QED BY <1>2, <1>4, <1>7, <1>8, SwapStepFrame DEF IInv, SwapSteps

\* The copy of a ballot of a kept group is a complete ballot of the replacement's group
\* of the same label.
LEMMA CopyProperty ==
  ASSUME IInv, NEW o \in Organiser, pc[o] = "copying",
         NEW b \in ballots, b.group[1] = swap[o].original, b.group[2] \in Plan(o)
  PROVE  /\ Copy(o, b) \in Ballot
         /\ Copy(o, b).group = <<swap[o].successor, b.group[2]>>
         /\ Copy(o, b).voter = b.voter
         /\ b.group[2] \in DOMAIN swap[o].lineup
         /\ validateBallot(swap[o].lineup[b.group[2]], Copy(o, b).ordering)
  <1> DEFINE l == b.group[2]
             from == tournaments[swap[o].original].lineup
             to == swap[o].lineup
             c == carriedOrdering(from[l], to[l], b.ordering)
  <1>1. /\ from \in Lineups /\ to \in Lineups
        /\ swap[o].successor \in Tournament
    BY DEF IInv, TypeOK, SwapKnows, SwapSteps, Row
  <1>2. keepsVotes(from, to, l)
    BY DEF Plan, planCarryOver
  <1>3. /\ l \in Label /\ l \in DOMAIN to /\ l \in DOMAIN from
        /\ from[l] \in Seq(Pair) /\ to[l] \in Seq(Pair) /\ Injective(to[l])
        /\ Len(from[l]) = Len(to[l])
        /\ \A s \in DOMAIN to[l] : \E f \in DOMAIN from[l] : from[l][f] = to[l][s]
    <2> HIDE DEF from, to, l
    <2> QED BY <1>1, <1>2, BallotBoxConstants DEF keepsVotes
  <1>4. b.ordering \in Seq(Nat) /\ b.voter \in Voter
    BY DEF IInv, TypeOK, Ballot
  <1>5. validateBallot(from[l], b.ordering)
    BY DEF IInv, TablesKeep, GroupLineup
  <1>6. c \in Seq(Nat) /\ validateBallot(to[l], c)
    <2> HIDE DEF from, to, l
    <2> QED BY <1>3, <1>4, <1>5, CarriedOrderingValid DEF c
  <1>7. Copy(o, b) = [group |-> <<swap[o].successor, l>>, voter |-> b.voter,
                      ordering |-> c, carried |-> TRUE]
    BY DEF Copy, carriedBallot
  <1> HIDE DEF c, from, to, l
  <1>8. <<swap[o].successor, l>> \in Group
    BY <1>1, <1>3 DEF Group
  <1> QED BY <1>3, <1>4, <1>6, <1>7, <1>8 DEF Ballot, to, l

\* Copying one group takes in every ballot of it that there is, and there will be no
\* other while the lock is held.
LEMMA CopyGroupInv ==
  ASSUME IInv, NEW o \in Organiser, CopyGroup(o)
  PROVE  IInv'
  <1> DEFINE t == swap[o].original
  <1>1. PICK l \in swap[o].todo :
          swap' = [swap EXCEPT
            ![o].todo = @ \ {l},
            ![o].copies = @ \cup
              {carriedBallot(b, swap[o].successor, tournaments[t].lineup, swap[o].lineup) :
                 b \in BallotsIn(<<t, l>>)}]
    BY DEF CopyGroup
  <1> DEFINE new == {Copy(o, b) : b \in BallotsIn(<<t, l>>)}
             c == [swap[o] EXCEPT !.todo = swap[o].todo \ {l}, !.copies = swap[o].copies \cup new]
  <1>2. /\ UNCHANGED <<clock, tournaments, ballots, cast, pc>> /\ pc[o] = "copying"
        /\ swap' = [swap EXCEPT ![o] = c]
    BY <1>1 DEF CopyGroup, Copy, IInv, TypeOK
  <1>3. pc' = [pc EXCEPT ![o] = "copying"]
    BY <1>2 DEF IInv, TypeOK
  <1>4. swap[o] \in Swap /\ SwapKnows(o) /\ l \in Plan(o)
    BY <1>2 DEF IInv, TypeOK, SwapKnows
  <1>5. \A b \in BallotsIn(<<t, l>>) : b \in ballots /\ b.group[1] = t /\ b.group[2] = l
    BY DEF BallotsIn
  <1>6. new \in SUBSET Ballot
    BY <1>2, <1>4, <1>5, CopyProperty
  <1> HIDE DEF new
  <1>7. /\ c \in Swap
        /\ c.original = swap[o].original /\ c.lineup = swap[o].lineup
        /\ c.startsAt = swap[o].startsAt /\ c.now = swap[o].now
        /\ c.successor = swap[o].successor
        /\ c.copies = swap[o].copies \cup new /\ c.todo = swap[o].todo \ {l}
    BY <1>4, <1>6 DEF Swap
  <1> HIDE DEF c
  <1>8. swap'[o] = c /\ \A q \in Organiser \ {o} : swap'[q] = swap[q]
    BY <1>2 DEF IInv, TypeOK
  <1>9. SwapKnows(o)'
    <2>1. Plan(o)' = Plan(o) /\ \A b : Copy(o, b)' = Copy(o, b)
      BY <1>2, <1>7, <1>8 DEF Plan, Copy
    <2> DEFINE Done(todo) == {a \in ballots : a.group[1] = t /\ a.group[2] \in Plan(o) \ todo}
    <2>2. Done(swap[o].todo \ {l}) = Done(swap[o].todo) \cup BallotsIn(<<t, l>>)
      <3>1. \A a \in ballots : a.group \in Group
        BY DEF IInv, TypeOK, Ballot
      <3>2. \A a \in ballots : a.group = <<t, l>> <=> a.group[1] = t /\ a.group[2] = l
        BY <3>1 DEF Group
      <3> QED BY <1>4, <3>2 DEF BallotsIn
    <2>3. swap[o].copies = {Copy(o, b) : b \in Done(swap[o].todo)}
      BY <1>2, <1>4 DEF SwapKnows
    <2>4. c.copies = {Copy(o, b) : b \in Done(c.todo)}
      <3> HIDE DEF Done
      <3> QED BY <1>7, <2>2, <2>3 DEF new
    <2>5. c.copies = {Copy(o, b)' : b \in {a \in ballots : a.group[1] = t /\ a.group[2] \in Plan(o) \ c.todo}}
      BY <2>1, <2>4
    <2> QED BY <1>2, <1>4, <1>7, <1>8, <2>1, <2>5
        DEF SwapKnows, SwapSteps, Published, Replaced
  <1>10. LocksExclude'
    <2>1. \A q \in Organiser \ {o} : pc[q] = "copying" => swap[q].successor # c.successor
      BY <1>2, <1>7 DEF IInv, LocksExclude
    <2> QED BY <1>2, <1>7, <1>8, <2>1, OrganiserFrame DEF IInv
  <1> QED BY <1>2, <1>3, <1>7, <1>9, <1>10, SwapStepFrame DEF IInv, SwapSteps

\* What the commit of a replacement does to the tables: the original becomes history,
\* the successor is live with the new lineup, every other row stays, and the ballots
\* that come in are the copies of every ballot of a kept group.
LEMMA ReplacementStep ==
  ASSUME IInv, NEW o \in Organiser, CommitReplacement(o)
  PROVE  LET t == swap[o].original
             s == swap[o].successor
         IN
         /\ t \in Published /\ ~Replaced(t)
         /\ s \in Tournament \ Published
         /\ swap[o].copies \in SUBSET Ballot
         /\ Published' = Published \cup {s}
         /\ tournaments'[s] \in Row /\ tournaments'[s].lineup = swap[o].lineup
         /\ tournaments'[s].invalidatedAt = None /\ tournaments'[s].replacedBy = None
         /\ tournaments'[t] \in Row /\ tournaments'[t].lineup = tournaments[t].lineup
         /\ tournaments'[t].invalidatedAt # None /\ tournaments'[t].replacedBy = s
         /\ \A x \in Published \ {t} : tournaments'[x] = tournaments[x]
         /\ \E f : tournaments' = [x \in Published \cup {s} |-> f[x]]
         /\ ballots' = ballots \cup swap[o].copies
         /\ swap[o].copies = {Copy(o, b) : b \in {a \in ballots : /\ a.group[1] = t
                                                                  /\ a.group[2] \in Plan(o)}}
  <1> DEFINE t == swap[o].original
             s == swap[o].successor
             fresh == [lineup |-> swap[o].lineup, startsAt |-> swap[o].startsAt,
                       publishedAt |-> swap[o].now, invalidatedAt |-> None, replacedBy |-> None]
             gone == invalidated(tournaments[t], swap[o].now, s)
             row(x) == CASE x = s -> fresh [] x = t -> gone [] OTHER -> tournaments[x]
  <1>1. /\ pc[o] = "copying" /\ swap[o].todo = {}
        /\ ballots' = ballots \cup swap[o].copies
        /\ tournaments' = [x \in Published \cup {s} |-> row(x)]
    BY DEF CommitReplacement
  <1>2. SwapKnows(o) /\ swap[o] \in Swap
    BY DEF IInv, TypeOK
  <1>3. /\ t \in Published /\ s \in Tournament \ Published
        /\ swap[o].lineup \in Lineups /\ swap[o].startsAt \in Instant /\ swap[o].now \in Instant
        /\ ~Replaced(t) /\ swap[o].copies \in SUBSET Ballot
    BY <1>1, <1>2 DEF SwapKnows, SwapSteps, Swap
  <1>4. swap[o].now # None
    BY <1>3, NoneAssumption, BallotBoxConstants DEF Instant
  <1>5. /\ fresh \in Row /\ fresh.lineup = swap[o].lineup
        /\ fresh.invalidatedAt = None /\ fresh.replacedBy = None
    BY <1>3 DEF Row
  <1>6. tournaments[t] \in Row
    BY <1>3 DEF IInv, TypeOK
  <1>7. /\ gone \in Row /\ gone.lineup = tournaments[t].lineup
        /\ gone.invalidatedAt = swap[o].now /\ gone.replacedBy = s
    BY <1>3, <1>6 DEF Row, invalidated
  <1> HIDE DEF fresh, gone
  <1>8. /\ Published' = Published \cup {s}
        /\ tournaments'[s] = fresh /\ tournaments'[t] = gone
        /\ \A x \in Published \ {t} : tournaments'[x] = tournaments[x]
    BY <1>1, <1>3 DEF Published
  <1>9. \E f : tournaments' = [x \in Published \cup {s} |-> f[x]]
    <2>1. tournaments' = [x \in Published \cup {s} |-> tournaments'[x]]
      BY <1>1
    <2> QED BY <2>1
  <1>10. Plan(o) \ swap[o].todo = Plan(o)
    BY <1>1
  <1>11. swap[o].copies = {Copy(o, b) : b \in {a \in ballots : /\ a.group[1] = t
                                                                /\ a.group[2] \in Plan(o)}}
    BY <1>1, <1>2, <1>10 DEF SwapKnows
  <1> HIDE DEF row
  <1> QED BY <1>1, <1>3, <1>4, <1>5, <1>7, <1>8, <1>9, <1>11

\* The commit of a replacement: the requests that rely on the original being live hold
\* no lock on it, and the copies are complete ballots of nobody who has one already.
LEMMA CommitReplacementInv ==
  ASSUME IInv, NEW o \in Organiser, CommitReplacement(o)
  PROVE  IInv'
  <1> DEFINE t == swap[o].original
             s == swap[o].successor
             copies == swap[o].copies
  <1>1. /\ pc[o] = "copying"
        /\ UNCHANGED <<clock, cast>>
        /\ pc' = [pc EXCEPT ![o] = "committed"]
        /\ swap' = swap
    BY DEF CommitReplacement, Goto
  <1>2. ballots' = ballots \cup copies
    BY ReplacementStep
  <1>3. /\ t \in Published /\ s \in Tournament \ Published /\ s # t
        /\ ~Replaced(t) /\ copies \in SUBSET Ballot /\ s # None
    BY ReplacementStep, BallotBoxConstants
  <1>4. /\ tournaments'[s] \in Row /\ tournaments'[s].lineup = swap[o].lineup
        /\ tournaments'[s].invalidatedAt = None /\ tournaments'[s].replacedBy = None
    BY ReplacementStep
  <1>5. tournaments \in [Published -> Row] /\ Published \in SUBSET Tournament
    BY DEF IInv, TypeOK
  <1>6. /\ tournaments'[t] \in Row /\ tournaments'[t].lineup = tournaments[t].lineup
        /\ tournaments'[t].invalidatedAt # None /\ tournaments'[t].replacedBy = s
    BY ReplacementStep
  <1>7. /\ Published' = Published \cup {s}
        /\ \A x \in Published \ {t} : tournaments'[x] = tournaments[x]
    BY ReplacementStep
  <1>8. \A x \in Published : tournaments'[x].lineup = tournaments[x].lineup
    BY <1>6, <1>7
  <1>9. \A g : HasGroup(g) => HasGroup(g)' /\ GroupLineup(g)' = GroupLineup(g)
    BY <1>7, <1>8 DEF HasGroup, GroupLineup
  <1>10. \A x \in Published \ {t} : Replaced(x)' <=> Replaced(x)
    BY <1>7 DEF Replaced
  <1>11. \A x : (x = s => ~Replaced(x)') /\ (x = t => Replaced(x)')
    BY <1>3, <1>4, <1>6, <1>7 DEF Replaced
  <1>12. /\ pc'[o] = "committed" /\ \A p \in Process \ {o} : pc'[p] = pc[p]
         /\ \A q \in Organiser \ {o} : swap'[q] = swap[q]
    BY <1>1 DEF IInv, TypeOK, Process
  <1>13. copies = {Copy(o, b) : b \in {a \in ballots : a.group[1] = t /\ a.group[2] \in Plan(o)}}
    BY ReplacementStep
  <1>14. ASSUME NEW b \in copies
         PROVE  \E a \in ballots : /\ a.group[1] = t /\ a.group[2] \in Plan(o) /\ b = Copy(o, a)
                                   /\ b.group = <<s, a.group[2]>> /\ b.voter = a.voter
                                   /\ a.group[2] \in DOMAIN swap[o].lineup
                                   /\ validateBallot(swap[o].lineup[a.group[2]], b.ordering)
    BY <1>1, <1>13, CopyProperty
  <1>15. \A b \in copies : b.group[1] = s
    BY <1>14
  <1>16. \A b \in ballots : b.group[1] \in Published /\ b.group \in Group
    BY DEF IInv, TypeOK, TablesKeep, HasGroup, Ballot
  <1> HIDE DEF copies
  <1>17. TypeOK'
    <2>1. tournaments' \in [Published' -> Row]
      <3>1. PICK f : tournaments' = [x \in Published \cup {s} |-> f[x]]
        BY ReplacementStep
      <3>2. \A x \in Published \cup {s} : tournaments'[x] \in Row
        BY <1>4, <1>5, <1>6, <1>7
      <3> QED BY <1>7, <3>1, <3>2
    <2>2. \A x \in Published' : (tournaments'[x].invalidatedAt = None) <=> (tournaments'[x].replacedBy = None)
      BY <1>3, <1>4, <1>6, <1>7 DEF IInv, TypeOK
    <2>3. Published' \in SUBSET Tournament
      BY <1>3, <1>5, <1>7
    <2>4. /\ pc' \in [Process -> {"idle"} \cup CastSteps \cup SwapSteps \cup Answers]
          /\ swap' \in [Organiser -> Swap]
      BY <1>1 DEF IInv, TypeOK, SwapSteps
    <2>5. ballots' \in SUBSET Ballot
      BY <1>2, <1>3 DEF IInv, TypeOK
    <2> QED BY <1>1, <2>1, <2>2, <2>3, <2>4, <2>5 DEF IInv, TypeOK
  <1>18. ASSUME NEW r \in Request PROVE CastKnows(r)'
    <2>1. pc'[r] = pc[r] /\ CastKnows(r)
      BY <1>12, BallotBoxConstants DEF Process, IInv
    <2>2. pc[r] \in {"sharing", "inserted"} => cast[r].group[1] # t
      BY <1>1, <1>2 DEF IInv, LocksExclude
    <2>3. pc[r] \in CastSteps => cast[r].group[1] \in Published
      BY <2>1 DEF CastKnows, HasGroup
    <2>4. pc[r] \in {"sharing", "inserted"} => ~Replaced(cast[r].group[1])'
      BY <1>1, <1>2, <1>7, <2>1, <2>2, <2>3 DEF CastKnows, CastSteps, Replaced
    <2>5. pc[r] = "inserted" => ~HasBallot(cast[r].group, cast[r].voter)'
      BY <1>1, <1>2, <1>3, <1>15, <2>1, <2>3 DEF CastKnows, CastSteps, HasBallot, BallotsIn
    <2>6. Receipt(r)' = Receipt(r) /\ (Receipt(r) \in ballots => Receipt(r) \in ballots')
      BY <1>1, <1>2 DEF Receipt
    <2>7. HasGroup(cast[r].group) => /\ HasGroup(cast[r].group)'
                                     /\ GroupLineup(cast[r].group)' = GroupLineup(cast[r].group)
      BY <1>1, <1>2, <1>9 DEF HasGroup, GroupLineup, Published
    <2> QED BY <1>1, <1>2, <2>1, <2>4, <2>5, <2>6, <2>7 DEF CastKnows, CastSteps
  <1>19. SwapKnows(o)'
    BY <1>1, <1>7, <1>12 DEF IInv, SwapKnows, SwapSteps
  <1>20. ASSUME NEW q \in Organiser \ {o} PROVE SwapKnows(q)'
    <2>1. pc'[q] = pc[q] /\ swap'[q] = swap[q] /\ SwapKnows(q)
      BY <1>12 DEF Process, IInv
    <2>2. CASE pc[q] \notin SwapSteps
      BY <2>1, <2>2 DEF SwapKnows, SwapSteps
    <2>3. CASE pc[q] \in SwapSteps
      <3>1. swap[q].original \in Published /\ swap[q].original \in Published'
        BY <1>7, <2>1, <2>3 DEF SwapKnows
      <3>2. tournaments'[swap[q].original].lineup = tournaments[swap[q].original].lineup
        BY <1>8, <3>1
      <3>3. Plan(q)' = Plan(q) /\ \A b : Copy(q, b)' = Copy(q, b)
        BY <2>1, <3>2 DEF Plan, Copy
      <3>4. pc[q] \in {"locked", "copying"} => swap[q].original # t /\ ~Replaced(swap[q].original)'
        BY <1>1, <1>2, <1>10, <2>1, <3>1 DEF IInv, LocksExclude, SwapKnows
      <3>5. pc[q] = "copying" => swap[q].successor \in Tournament \ Published'
        BY <1>1, <1>2, <1>7, <2>1 DEF IInv, LocksExclude, SwapKnows
      <3> DEFINE Done(B) == {a \in B : a.group[1] = swap[q].original
                                       /\ a.group[2] \in Plan(q) \ swap[q].todo}
      <3>6. Done(ballots') = Done(ballots)
        BY <1>1, <1>2, <1>3, <1>15, <3>1
      <3>7. pc[q] = "copying" => swap[q].copies = {Copy(q, b) : b \in Done(ballots')}
        BY <2>1, <3>6 DEF SwapKnows
      <3>8. pc[q] = "copying" => swap[q].copies = {Copy(q, b)' : b \in Done(ballots')}
        BY <3>3, <3>7
      <3> QED BY <2>1, <3>1, <3>2, <3>3, <3>4, <3>5, <3>8 DEF SwapKnows, SwapSteps
    <2> QED BY <2>2, <2>3
  <1>21. LocksExclude'
    BY <1>1, <1>2, <1>12, OrganiserFrame DEF IInv
  <1>22. TablesKeep'
    <2>1. \A x \in Published' : Replaced(x)' => tournaments'[x].replacedBy \in Published'
      BY <1>3, <1>6, <1>7, <1>10, <1>11 DEF IInv, TablesKeep
    <2>2. ASSUME NEW b \in ballots'
          PROVE  HasGroup(b.group)' /\ validateBallot(GroupLineup(b.group)', b.ordering)
      <3>1. CASE b \in ballots
        BY <1>9, <3>1 DEF IInv, TablesKeep
      <3>2. CASE b \in copies
        BY <1>4, <1>7, <1>14, <3>2 DEF HasGroup, GroupLineup
      <3> QED BY <1>1, <1>2, <3>1, <3>2
    <2>3. ASSUME NEW b \in ballots', NEW x, x = b.group[1], NEW y, y = tournaments'[x].replacedBy,
                 Replaced(x)', b.group[2] \in planCarryOver(tournaments'[x].lineup, tournaments'[y].lineup)
          PROVE  carriedBallot(b, y, tournaments'[x].lineup, tournaments'[y].lineup) \in ballots'
      <3>1. b \in ballots /\ x \in Published
        BY <1>1, <1>2, <1>11, <1>15, <1>16, <2>3
      <3>2. CASE x = t
        <4>1. y = s /\ tournaments'[x].lineup = tournaments[t].lineup
                    /\ tournaments'[y].lineup = swap[o].lineup
          BY <1>4, <1>6, <1>7, <2>3, <3>2
        <4>2. b.group[1] = t /\ b.group[2] \in Plan(o)
          BY <2>3, <3>2, <4>1 DEF Plan
        <4>3. Copy(o, b) \in copies
          BY <1>13, <3>1, <4>2
        <4> QED BY <1>1, <1>2, <4>1, <4>3 DEF Copy
      <3>3. CASE x # t
        <4>1. Replaced(x) /\ y = tournaments[x].replacedBy
          BY <1>7, <1>10, <2>3, <3>1, <3>3
        <4>2. y \in Published
          BY <3>1, <4>1 DEF IInv, TablesKeep
        <4>3. tournaments'[x].lineup = tournaments[x].lineup /\ tournaments'[y].lineup = tournaments[y].lineup
          BY <1>8, <3>1, <4>2
        <4>4. b.group[2] \in planCarryOver(tournaments[x].lineup, tournaments[y].lineup)
          BY <2>3, <4>3
        <4>5. carriedBallot(b, y, tournaments[x].lineup, tournaments[y].lineup) \in ballots
          BY <2>3, <3>1, <4>1, <4>4 DEF IInv, TablesKeep
        <4> QED BY <1>1, <1>2, <4>3, <4>5
      <3> QED BY <3>2, <3>3
    <2>4. OneBallotPerVoter'
      <3>1. ASSUME NEW a \in ballots', NEW b \in ballots', a.group = b.group, a.voter = b.voter
            PROVE  a = b
        <4>1. CASE a \in ballots /\ b \in ballots
          BY <3>1, <4>1 DEF IInv, TablesKeep, OneBallotPerVoter
        <4>2. CASE a \in copies /\ b \in copies
          <5>1. PICK a0 \in ballots : /\ a0.group[1] = t /\ a = Copy(o, a0)
                                      /\ a.group = <<s, a0.group[2]>> /\ a.voter = a0.voter
            BY <1>14, <4>2
          <5>2. PICK b0 \in ballots : /\ b0.group[1] = t /\ b = Copy(o, b0)
                                      /\ b.group = <<s, b0.group[2]>> /\ b.voter = b0.voter
            BY <1>14, <4>2
          <5>3. a0.group = b0.group /\ a0.voter = b0.voter
            BY <1>16, <3>1, <5>1, <5>2 DEF Group
          <5> QED BY <5>1, <5>2, <5>3 DEF IInv, TablesKeep, OneBallotPerVoter
        <4> QED BY <1>1, <1>2, <1>3, <1>15, <1>16, <3>1, <4>1, <4>2
      <3> QED BY <3>1 DEF OneBallotPerVoter
    <2> QED BY <2>1, <2>2, <2>3, <2>4 DEF TablesKeep, Replaced
  <1> QED BY <1>17, <1>18, <1>19, <1>20, <1>21, <1>22 DEF IInv

\* Reading the replacement back changes no table.
LEMMA ReadReplacementInv ==
  ASSUME IInv, NEW o \in Organiser, ReadReplacement(o)
  PROVE  IInv'
  BY AnswerOrganiserInv DEF ReadReplacement, Answers

\* A failure ends the request: of what it had not committed nothing is left.
LEMMA FailReplacementInv ==
  ASSUME IInv, NEW o \in Organiser, FailReplacement(o)
  PROVE  IInv'
  BY AnswerOrganiserInv DEF FailReplacement, Answers

-------------------------------------------------------------------------------
\* The clock, stuttering, the initial states, and all steps together.

\* Time passing changes nothing the requests know.
LEMMA TickInv ==
  ASSUME IInv, Tick
  PROVE  IInv'
  <1>1. UNCHANGED <<tournaments, ballots, pc, cast, swap>>
    BY DEF Tick
  <1>2. TypeOK'
    BY <1>1, BallotBoxConstants DEF IInv, TypeOK, Tick, Published, Instant
  <1>3. \A r \in Request : CastKnows(r)'
    BY <1>1, CastFrame DEF IInv
  <1>4. \A o \in Organiser : SwapKnows(o)'
    BY <1>1, SwapFrame DEF IInv
  <1>5. LocksExclude' /\ TablesKeep'
    BY <1>1, TablesFrame DEF IInv, LocksExclude
  <1> QED BY <1>2, <1>3, <1>4, <1>5 DEF IInv

\* A step that changes nothing.
LEMMA StutterInv ==
  ASSUME IInv, UNCHANGED vars
  PROVE  IInv'
  <1>1. UNCHANGED <<clock, tournaments, ballots, pc, cast, swap>>
    BY DEF vars
  <1>2. TypeOK'
    BY <1>1 DEF IInv, TypeOK, Published
  <1>3. \A r \in Request : CastKnows(r)'
    BY <1>1, CastFrame DEF IInv
  <1>4. \A o \in Organiser : SwapKnows(o)'
    BY <1>1, SwapFrame DEF IInv
  <1>5. LocksExclude' /\ TablesKeep'
    BY <1>1, TablesFrame DEF IInv, LocksExclude
  <1> QED BY <1>2, <1>3, <1>4, <1>5 DEF IInv

\* Before the first request there is one tournament, live and without ballots.
LEMMA InitInv ==
  ASSUME Init
  PROVE  IInv
  <1>1. PICK t \in Tournament, L \in Lineups, startsAt \in Instant \ {0} :
          tournaments = [x \in {t} |->
            [lineup |-> L, startsAt |-> startsAt, publishedAt |-> 0,
             invalidatedAt |-> None, replacedBy |-> None]]
    BY DEF Init
  <1>2. 0 \in Instant
    BY BallotBoxConstants DEF Instant
  <1>3. /\ ballots = {} /\ clock = 0
        /\ \A p \in Process : pc[p] = "idle"
        /\ \A r \in Request : cast[r] = NoCast
        /\ \A o \in Organiser : swap[o] = NoSwap
        /\ pc \in [Process -> {"idle"}]
        /\ cast = [r \in Request |-> NoCast]
        /\ swap = [o \in Organiser |-> NoSwap]
    BY DEF Init
  <1>4. /\ Published = {t}
        /\ tournaments[t] = [lineup |-> L, startsAt |-> startsAt, publishedAt |-> 0,
                             invalidatedAt |-> None, replacedBy |-> None]
        /\ tournaments \in [{t} -> Row]
    BY <1>1, <1>2 DEF Published, Row
  <1>5. TypeOK
    BY <1>2, <1>3, <1>4, NoCastType, NoSwapType DEF TypeOK
  <1>6. \A r \in Request : CastKnows(r)
    BY <1>3 DEF CastKnows, CastSteps, Process, Answers
  <1>7. \A o \in Organiser : SwapKnows(o)
    BY <1>3 DEF SwapKnows, SwapSteps, Process, Answers
  <1>8. LocksExclude
    BY <1>3 DEF LocksExclude, Process
  <1>9. TablesKeep
    BY <1>3, <1>4 DEF TablesKeep, Replaced, OneBallotPerVoter
  <1> QED BY <1>5, <1>6, <1>7, <1>8, <1>9 DEF IInv

\* Every step of the specification keeps the inductive invariant.
THEOREM StepInv == IInv /\ [Next]_vars => IInv'
  <1> SUFFICES ASSUME IInv, [Next]_vars PROVE IInv'
    OBVIOUS
  <1>1. CASE Tick
    BY <1>1, TickInv
  <1>2. ASSUME NEW r \in Request, LoadGroup(r) \/ CastStep(r) \/ FailCast(r)
        PROVE  IInv'
    <2>1. CASE LoadGroup(r)
      BY <2>1, LoadGroupInv
    <2>2. CASE CheckBallot(r)
      BY <2>2, CheckBallotInv
    <2>3. CASE LockTournament(r)
      BY <2>3, LockTournamentInv
    <2>4. CASE InsertBallot(r)
      BY <2>4, InsertBallotInv
    <2>5. CASE CommitBallot(r)
      BY <2>5, CommitBallotInv
    <2>6. CASE CountBallots(r)
      BY <2>6, CountBallotsInv
    <2>7. CASE FailCast(r)
      BY <2>7, FailCastInv
    <2> QED BY <1>2, <2>1, <2>2, <2>3, <2>4, <2>5, <2>6, <2>7 DEF CastStep
  <1>3. ASSUME NEW o \in Organiser, LoadOriginal(o) \/ SwapStep(o) \/ FailReplacement(o)
        PROVE  IInv'
    <2>1. CASE LoadOriginal(o)
      BY <2>1, LoadOriginalInv
    <2>2. CASE Prepare(o)
      BY <2>2, PrepareInv
    <2>3. CASE LockOriginal(o)
      BY <2>3, LockOriginalInv
    <2>4. CASE InsertPublication(o)
      BY <2>4, InsertPublicationInv
    <2>5. CASE CopyGroup(o)
      BY <2>5, CopyGroupInv
    <2>6. CASE CommitReplacement(o)
      BY <2>6, CommitReplacementInv
    <2>7. CASE ReadReplacement(o)
      BY <2>7, ReadReplacementInv
    <2>8. CASE FailReplacement(o)
      BY <2>8, FailReplacementInv
    <2> QED BY <1>3, <2>1, <2>2, <2>3, <2>4, <2>5, <2>6, <2>7, <2>8 DEF SwapStep
  <1>4. CASE Rest \/ UNCHANGED vars
    BY <1>4, StutterInv DEF Rest
  <1> QED BY <1>1, <1>2, <1>3, <1>4 DEF Next

\* The inductive invariant holds in every behaviour, whatever the voters, the
\* organisers, the lineups and the horizon.
THEOREM Invariance == Spec => []IInv
  <1>1. Init => IInv
    BY InitInv
  <1> QED BY <1>1, StepInv, PTL DEF Spec

-------------------------------------------------------------------------------
(***************************************************************************)
(* What the inductive invariant gives: the safety properties of BallotBox  *)
(* and its refinement of VoteLedger, for any number of voters, requests,   *)
(* organisers, tournaments and groups, and any clock.                      *)
(***************************************************************************)
\* The tables and the locals of the requests keep their types, and a row is
\* invalidated exactly when it names its replacement.
THEOREM Typing == Spec => []TypeOK
  <1>1. IInv => TypeOK
    BY DEF IInv
  <1> QED BY <1>1, Invariance, PTL

\* Two inserts of one voter, an insert and a carried copy, or two copies: at most
\* one ballot of a voter in a group is ever committed.
THEOREM VotersCountOnce == Spec => []OneBallotPerVoter
  <1>1. IInv => OneBallotPerVoter
    BY DEF IInv, TablesKeep
  <1> QED BY <1>1, Invariance, PTL

\* Whoever was told that the ballot was recorded finds it in the table, whatever
\* has been replaced since.
THEOREM ReceiptsHonoured == Spec => []ReceiptHonoured
  <1>1. IInv => ReceiptHonoured
    BY DEF IInv, CastKnows, Receipt, ReceiptHonoured
  <1> QED BY <1>1, Invariance, PTL

\* castBallot never answers with its own assertion: the results of a group in which
\* a ballot has just been committed are not empty.
THEOREM ResultsNeverEmpty == Spec => []NeverEmptyResults
  <1>1. Init => NeverEmptyResults
    BY DEF Init, NeverEmptyResults, Process
  <1>2. IInv /\ NeverEmptyResults /\ [Next]_vars => NeverEmptyResults'
    <2> SUFFICES ASSUME IInv, NeverEmptyResults, [Next]_vars, NEW r \in Request
                 PROVE  pc'[r] # "EMPTY_RESULTS"
      BY DEF NeverEmptyResults
    <2>1. pc \in [Process -> {"idle"} \cup CastSteps \cup SwapSteps \cup Answers] /\ r \in Process
      BY DEF IInv, TypeOK, Process
    <2>2. pc[r] # "EMPTY_RESULTS"
      BY DEF NeverEmptyResults
    <2>3. CASE CountBallots(r)
      BY <2>3, CountBallotsInv
    <2>4. CASE LoadGroup(r) \/ CheckBallot(r) \/ LockTournament(r) \/ InsertBallot(r)
                 \/ CommitBallot(r) \/ FailCast(r)
      BY <2>1, <2>4 DEF LoadGroup, CheckBallot, LockTournament, InsertBallot, CommitBallot,
                        FailCast, AnswerVoter, Goto
    <2>5. ASSUME NEW q \in Request \ {r}, LoadGroup(q) \/ CastStep(q) \/ FailCast(q)
          PROVE  pc'[r] = pc[r]
      BY <2>1, <2>5 DEF CastStep, LoadGroup, CheckBallot, LockTournament, InsertBallot,
                        CommitBallot, CountBallots, FailCast, AnswerVoter, Goto
    <2>6. ASSUME NEW o \in Organiser, LoadOriginal(o) \/ SwapStep(o) \/ FailReplacement(o)
          PROVE  pc'[r] = pc[r]
      <3>1. o # r
        BY BallotBoxConstants
      <3> QED BY <2>1, <2>6, <3>1 DEF SwapStep, LoadOriginal, Prepare, LockOriginal,
            InsertPublication, CopyGroup, CommitReplacement, ReadReplacement, FailReplacement,
            AnswerOrganiser, Goto
    <2>7. CASE Tick \/ Rest \/ UNCHANGED vars
      BY <2>2, <2>7 DEF Tick, Rest, vars
    <2> QED BY <2>2, <2>3, <2>4, <2>5, <2>6, <2>7 DEF Next, CastStep
  <1> QED BY <1>1, <1>2, Invariance, PTL DEF Spec

\* A ballot that counts uses every position of its group: an ordering without
\* repetition of as many positions as there are pairs leaves none out.
THEOREM BallotsWhole == Spec => []WholeBallots
  <1>1. IInv => WholeBallots
    <2> SUFFICES ASSUME IInv, NEW b \in ballots
                 PROVE  /\ DOMAIN b.ordering = DOMAIN GroupLineup(b.group)
                        /\ \A p \in 1..Len(GroupLineup(b.group)) :
                             \E s \in DOMAIN b.ordering : b.ordering[s] = p
      BY DEF WholeBallots
    <2> DEFINE group == GroupLineup(b.group)
               n == Len(group)
    <2>1. validateBallot(group, b.ordering) /\ HasGroup(b.group)
      BY DEF IInv, TablesKeep
    <2>2. group \in Seq(Pair) /\ b.ordering \in Seq(Nat)
      BY <2>1, BallotBoxConstants DEF IInv, TypeOK, Ballot, Row, HasGroup, GroupLineup
    <2> HIDE DEF group
    <2>3. DOMAIN group = 1..n /\ DOMAIN b.ordering = 1..n /\ n \in Nat
      BY <2>1, <2>2, LenProperties DEF validateBallot
    <2>4. b.ordering \in [1..n -> 1..n]
      BY <2>1, <2>2, <2>3, LenProperties DEF validateBallot
    <2>5. b.ordering \in Injection(1..n, 1..n)
      BY <2>1, <2>3, <2>4 DEF Injection, IsInjective, validateBallot, Injective
    <2>6. IsFiniteSet(1..n)
      BY <2>3, FS_Interval
    <2>7. b.ordering \in Surjection(1..n, 1..n)
      BY <2>5, <2>6, FS_Injection
    <2> QED BY <2>3, <2>7 DEF Surjection, group
  <1> QED BY <1>1, Invariance, PTL

\* No ballot is lost to a replacement, however its insert raced it: where the pairs
\* of its group stayed the same set, its copy is in the replacement, pair by pair.
THEOREM NoBallotLost == Spec => []NoLostBallot
  <1>1. IInv => NoLostBallot
    <2> SUFFICES ASSUME IInv, NEW a \in ballots, Unchanged(a.group)
                 PROVE  \E b \in BallotsIn(Counterpart(a.group)) : SameVote(a, b)
      BY DEF NoLostBallot
    <2> DEFINE t == a.group[1]
               l == a.group[2]
               s == tournaments[t].replacedBy
               from == tournaments[t].lineup
               to == tournaments[s].lineup
               b == carriedBallot(a, s, from, to)
    <2>1. /\ t \in Published /\ s \in Published /\ Replaced(t)
          /\ l \in DOMAIN from /\ l \in DOMAIN to
          /\ Counterpart(a.group) = <<s, l>>
          /\ GroupLineup(a.group) = from[l] /\ GroupLineup(<<s, l>>) = to[l]
          /\ {from[l][i] : i \in DOMAIN from[l]} = {to[l][i] : i \in DOMAIN to[l]}
      BY DEF Unchanged, HasGroup, Counterpart, PairsOf, GroupLineup
    <2>2. from \in Lineups /\ to \in Lineups
      BY <2>1 DEF IInv, TypeOK, Row
    <2> HIDE DEF from, to, l
    <2>3. /\ from[l] \in Seq(Pair) /\ to[l] \in Seq(Pair)
          /\ Injective(from[l]) /\ Injective(to[l])
      BY <2>1, <2>2, BallotBoxConstants
    <2>4. keepsVotes(from, to, l)
      BY <2>1, <2>3, KeepsVotesIffSamePairs
    <2>5. l \in planCarryOver(from, to)
      BY <2>1, <2>4 DEF planCarryOver
    <2>6. b \in ballots
      BY <2>1, <2>5 DEF IInv, TablesKeep, from, to, l
    <2>7. /\ b.group = <<s, l>> /\ b.voter = a.voter
          /\ b.ordering = carriedOrdering(from[l], to[l], a.ordering)
      BY DEF carriedBallot, l
    <2>8. SameVote(a, b)
      <3>1. ASSUME NEW i \in DOMAIN from[l], NEW j \in DOMAIN to[l], from[l][i] = to[l][j]
            PROVE  a.ordering[i] = carriedOrdering(from[l], to[l], a.ordering)[j]
        BY <2>3, <3>1, CarriedOrderingSameVote
      <3> HIDE DEF b
      <3> QED BY <2>1, <2>7, <3>1 DEF SameVote
    <2> QED BY <2>1, <2>6, <2>7, <2>8 DEF BallotsIn
  <1> QED BY <1>1, Invariance, PTL

\* The tables change at the two commits and nowhere else.
LEMMA OnlyCommits ==
  ASSUME [Next]_vars
  PROVE  \/ UNCHANGED <<tournaments, ballots>>
         \/ \E r \in Request : CommitBallot(r)
         \/ \E o \in Organiser : CommitReplacement(o)
  BY DEF Next, vars, Tick, Rest, CastStep, SwapStep, LoadGroup, CheckBallot, LockTournament,
         InsertBallot, CountBallots, FailCast, LoadOriginal, Prepare, LockOriginal,
         InsertPublication, CopyGroup, ReadReplacement, FailReplacement

\* What the commit of a ballot does to the tables: one ballot more, in a group of a
\* live tournament where its voter had none.
LEMMA BallotStep ==
  ASSUME IInv, NEW r \in Request, CommitBallot(r)
  PROVE  /\ tournaments' = tournaments
         /\ ballots' = ballots \cup {Receipt(r)}
         /\ cast[r].voter \in Voter /\ cast[r].group \in Group
         /\ HasGroup(cast[r].group) /\ ~Replaced(cast[r].group[1])
         /\ ~HasBallot(cast[r].group, cast[r].voter)
         /\ validateBallot(GroupLineup(cast[r].group), cast[r].ordering)
         /\ cast[r].ordering \in Seq(Nat)
  <1>1. CastKnows(r) /\ pc[r] = "inserted"
    BY DEF IInv, CommitBallot
  <1>2. ballots' = ballots \cup {Receipt(r)} /\ tournaments' = tournaments
    BY DEF CommitBallot, Receipt
  <1>3. cast[r].ordering \in Seq(Nat)
    BY <1>1, BallotBoxConstants DEF CastKnows, CastSteps
  <1> QED BY <1>1, <1>2, <1>3 DEF CastKnows, CastSteps

\* A replaced tournament is a frozen record: no step changes its row, and none gives
\* its groups a ballot or takes one away.
THEOREM RecordsFrozen == Spec => FrozenRecord
  <1>1. IInv /\ [Next]_vars =>
          [\A t \in Published : Replaced(t) =>
             /\ tournaments'[t] = tournaments[t]
             /\ {b \in ballots' : b.group[1] = t} = {b \in ballots : b.group[1] = t}]_vars
    <2> SUFFICES ASSUME IInv, [Next]_vars, NEW t \in Published, Replaced(t)
                 PROVE  /\ tournaments'[t] = tournaments[t]
                        /\ \A b \in ballots' : b.group[1] = t => b \in ballots
                        /\ ballots \subseteq ballots'
      OBVIOUS
    <2>1. CASE UNCHANGED <<tournaments, ballots>>
      BY <2>1
    <2>2. ASSUME NEW r \in Request, CommitBallot(r)
          PROVE  /\ tournaments'[t] = tournaments[t]
                 /\ \A b \in ballots' : b.group[1] = t => b \in ballots
                 /\ ballots \subseteq ballots'
      BY <2>2, BallotStep DEF Receipt
    <2>3. ASSUME NEW o \in Organiser, CommitReplacement(o)
          PROVE  /\ tournaments'[t] = tournaments[t]
                 /\ \A b \in ballots' : b.group[1] = t => b \in ballots
                 /\ ballots \subseteq ballots'
      <3>1. \A a : Copy(o, a).group[1] = swap[o].successor
        BY DEF Copy, carriedBallot
      <3>2. swap[o].copies = {Copy(o, b) : b \in {a \in ballots : /\ a.group[1] = swap[o].original
                                                                 /\ a.group[2] \in Plan(o)}}
        BY <2>3, ReplacementStep
      <3>3. \A b \in swap[o].copies : b.group[1] = swap[o].successor
        BY <3>1, <3>2
      <3>4. /\ ballots' = ballots \cup swap[o].copies
            /\ swap[o].successor \notin Published /\ ~Replaced(swap[o].original)
            /\ \A x \in Published \ {swap[o].original} : tournaments'[x] = tournaments[x]
        BY <2>3, ReplacementStep
      <3> QED BY <3>3, <3>4
    <2> QED BY <2>1, <2>2, <2>3, OnlyCommits
  <1> QED BY <1>1, Invariance, PTL DEF Spec, FrozenRecord

\* One tournament of the lineage is live, and no links lead round in a circle: one that
\* is replaced hands over to a tournament that did not exist before.
LineageEnds ==
  /\ \E x : {t \in Published : ~Replaced(t)} = {x}
  /\ \A S \in SUBSET Published :
       (\A t \in S : Replaced(t) /\ tournaments[t].replacedBy \in S) => S = {}

\* However many replacements race, the links lead to the one live tournament.
THEOREM OneEndOfLineage == Spec => []OneLiveEnd
  <1>1. Init => LineageEnds
    <2> SUFFICES ASSUME Init PROVE LineageEnds
      OBVIOUS
    <2>1. PICK x \in Tournament : Published = {x} /\ tournaments[x].invalidatedAt = None
      BY DEF Init, Published
    <2>2. ~Replaced(x)
      BY <2>1 DEF Replaced
    <2> QED BY <2>1, <2>2 DEF LineageEnds
  <1>2. IInv /\ LineageEnds /\ [Next]_vars => LineageEnds'
    <2> SUFFICES ASSUME IInv, LineageEnds, [Next]_vars PROVE LineageEnds'
      OBVIOUS
    <2>1. CASE tournaments' = tournaments
      BY <2>1 DEF LineageEnds, Replaced, Published
    <2>2. ASSUME NEW o \in Organiser, CommitReplacement(o) PROVE LineageEnds'
      <3>0. PICK t, s : t = swap[o].original /\ s = swap[o].successor
        OBVIOUS
      <3>1. /\ t \in Published /\ ~Replaced(t) /\ s \notin Published
            /\ Published' = Published \cup {s}
            /\ Replaced(t)' /\ tournaments'[t].replacedBy = s /\ ~Replaced(s)'
            /\ \A x \in Published \ {t} : /\ Replaced(x)' <=> Replaced(x)
                                          /\ tournaments'[x] = tournaments[x]
        <4>1. /\ t \in Published /\ ~Replaced(t) /\ s \notin Published
              /\ Published' = Published \cup {s}
              /\ tournaments'[t].invalidatedAt # None /\ tournaments'[t].replacedBy = s
              /\ tournaments'[s].invalidatedAt = None
              /\ \A x \in Published \ {t} : tournaments'[x] = tournaments[x]
          BY <2>2, <3>0, ReplacementStep
        <4> QED BY <4>1 DEF Replaced
      <3>2. {x \in Published : ~Replaced(x)} = {t}
        BY <3>1 DEF LineageEnds
      <3>3. {x \in Published : ~Replaced(x)}' = {s}
        BY <3>1, <3>2
      <3>4. ASSUME NEW S \in SUBSET Published',
                   \A x \in S : Replaced(x)' /\ tournaments'[x].replacedBy \in S
            PROVE  S = {}
        <4>1. s \notin S /\ t \notin S
          BY <3>1, <3>4
        <4>2. S \in SUBSET Published /\ \A x \in S : Replaced(x) /\ tournaments[x].replacedBy \in S
          BY <3>1, <3>4, <4>1
        <4> QED BY <4>2 DEF LineageEnds
      <3> QED BY <3>3, <3>4 DEF LineageEnds
    <2>3. ASSUME NEW r \in Request, CommitBallot(r) PROVE LineageEnds'
      BY <2>1, <2>3, BallotStep
    <2> QED BY <2>1, <2>2, <2>3, OnlyCommits
  <1>3. IInv /\ LineageEnds => OneLiveEnd
    BY FS_Singleton DEF IInv, TablesKeep, LineageEnds, OneLiveEnd
  <1> QED BY <1>1, <1>2, <1>3, Invariance, PTL DEF Spec

\* A copy always has its source in the table, and the two lineups that made it a copy.
LEMMA SourceInvariant == Spec => []CarriedHaveSource
  <1>1. Init => CarriedHaveSource
    BY DEF Init, CarriedHaveSource
  <1>2. IInv /\ CarriedHaveSource /\ [Next]_vars => CarriedHaveSource'
    <2> SUFFICES ASSUME IInv, CarriedHaveSource, [Next]_vars PROVE CarriedHaveSource'
      OBVIOUS
    <2>1. CASE UNCHANGED <<tournaments, ballots>>
      BY <2>1 DEF CarriedHaveSource, Replaced, Published
    <2>2. ASSUME NEW r \in Request, CommitBallot(r) PROVE CarriedHaveSource'
      <3>1. /\ tournaments' = tournaments
            /\ \A b \in ballots' : b.carried => b \in ballots
            /\ ballots \subseteq ballots'
        BY <2>2, BallotStep DEF Receipt
      <3> QED BY <3>1 DEF CarriedHaveSource, Replaced, Published
    <2>3. ASSUME NEW o \in Organiser, CommitReplacement(o) PROVE CarriedHaveSource'
      <3> SUFFICES ASSUME NEW b \in ballots', b.carried
                   PROVE  \E a \in ballots' : \E t, s :
                            /\ t = a.group[1] /\ s = tournaments'[t].replacedBy
                            /\ Replaced(t)'
                            /\ a.group[2] \in planCarryOver(tournaments'[t].lineup, tournaments'[s].lineup)
                            /\ b = carriedBallot(a, s, tournaments'[t].lineup, tournaments'[s].lineup)
        BY DEF CarriedHaveSource
      <3>1. ballots' = ballots \cup swap[o].copies
        BY <2>3, ReplacementStep
      <3>2. CASE b \in ballots
        <4>1. PICK a, t, s :
                /\ a \in ballots
                /\ t = a.group[1] /\ s = tournaments[t].replacedBy
                /\ Replaced(t)
                /\ a.group[2] \in planCarryOver(tournaments[t].lineup, tournaments[s].lineup)
                /\ b = carriedBallot(a, s, tournaments[t].lineup, tournaments[s].lineup)
          BY <3>2 DEF CarriedHaveSource
        <4>2. t \in Published /\ s \in Published
          BY <4>1 DEF IInv, TablesKeep, Replaced
        <4>3. /\ tournaments'[t] = tournaments[t] /\ Replaced(t)'
              /\ tournaments'[s].lineup = tournaments[s].lineup
          BY <2>3, <4>1, <4>2, ReplacementStep DEF Replaced
        <4> QED BY <3>1, <4>1, <4>3
      <3>3. CASE b \in swap[o].copies
        <4>1. PICK a \in ballots : /\ a.group[1] = swap[o].original
                                   /\ a.group[2] \in Plan(o) /\ b = Copy(o, a)
          <5>1. swap[o].copies = {Copy(o, x) : x \in {a \in ballots : /\ a.group[1] = swap[o].original
                                                                     /\ a.group[2] \in Plan(o)}}
            BY <2>3, ReplacementStep
          <5> QED BY <3>3, <5>1
        <4>2. PICK t, s : t = swap[o].original /\ s = swap[o].successor
          OBVIOUS
        <4>3. /\ t \in Published' /\ s = tournaments'[t].replacedBy
              /\ tournaments'[t].invalidatedAt # None
              /\ tournaments'[t].lineup = tournaments[t].lineup
              /\ tournaments'[s].lineup = swap[o].lineup
          BY <2>3, <4>2, ReplacementStep
        <4>4. Replaced(t)'
          BY <4>3 DEF Replaced
        <4> QED BY <3>1, <4>1, <4>2, <4>3, <4>4 DEF Plan, Copy
      <3> QED BY <3>1, <3>2, <3>3
    <2> QED BY <2>1, <2>2, <2>3, OnlyCommits
  <1> QED BY <1>1, <1>2, Invariance, PTL DEF Spec

\* A replacement invents no ballot: every carried one repeats, pair by pair, a ballot
\* of the group it came from, and that group had the same pairs.
THEOREM NoBallotInvented == Spec => []NothingInvented
  <1>1. IInv /\ CarriedHaveSource => NothingInvented
    <2> SUFFICES ASSUME IInv, CarriedHaveSource, NEW b \in ballots, b.carried
                 PROVE  \E a \in ballots : /\ Replaced(a.group[1])
                                           /\ b.group = Counterpart(a.group)
                                           /\ Unchanged(a.group)
                                           /\ SameVote(a, b)
      BY DEF NothingInvented
    <2>1. PICK a, x, y, l, old, new :
            /\ a \in ballots
            /\ x = a.group[1] /\ y = tournaments[x].replacedBy /\ l = a.group[2]
            /\ old = tournaments[x].lineup /\ new = tournaments[y].lineup
            /\ Replaced(x) /\ l \in planCarryOver(old, new)
            /\ b = carriedBallot(a, y, old, new)
      BY DEF CarriedHaveSource
    <2>2. /\ x \in Published /\ y \in Published /\ old \in Lineups /\ new \in Lineups
      BY <2>1 DEF IInv, TypeOK, TablesKeep, Replaced, Row
    <2>3. keepsVotes(old, new, l)
      BY <2>1 DEF planCarryOver
    <2>4. /\ l \in DOMAIN old /\ l \in DOMAIN new
          /\ old[l] \in Seq(Pair) /\ new[l] \in Seq(Pair)
          /\ Injective(old[l]) /\ Injective(new[l])
      BY <2>2, <2>3, BallotBoxConstants DEF keepsVotes
    <2>5. {old[l][i] : i \in DOMAIN old[l]} = {new[l][i] : i \in DOMAIN new[l]}
      <3>1. \A i \in DOMAIN old[l] : \E j \in DOMAIN new[l] : new[l][j] = old[l][i]
        BY <2>3, <2>4, KeptGroupWhole
      <3>2. \A j \in DOMAIN new[l] : \E i \in DOMAIN old[l] : old[l][i] = new[l][j]
        BY <2>3 DEF keepsVotes
      <3> QED BY <3>1, <3>2
    <2>6. /\ b.group = <<y, l>> /\ b.voter = a.voter
          /\ b.ordering = carriedOrdering(old[l], new[l], a.ordering)
      BY <2>1 DEF carriedBallot
    <2>7. /\ Counterpart(a.group) = <<y, l>>
          /\ GroupLineup(a.group) = old[l] /\ GroupLineup(<<y, l>>) = new[l]
          /\ HasGroup(a.group) /\ HasGroup(<<y, l>>)
      BY <2>1, <2>2, <2>4 DEF Counterpart, GroupLineup, HasGroup
    <2>8. Unchanged(a.group)
      <3>1. PairsOf(a.group) = PairsOf(Counterpart(a.group))
        BY <2>5, <2>7 DEF PairsOf
      <3> QED BY <2>1, <2>7, <3>1 DEF Unchanged
    <2>9. SameVote(a, b)
      <3>1. ASSUME NEW i \in DOMAIN old[l], NEW j \in DOMAIN new[l], old[l][i] = new[l][j]
            PROVE  a.ordering[i] = carriedOrdering(old[l], new[l], a.ordering)[j]
        BY <2>4, <3>1, CarriedOrderingSameVote
      <3> QED BY <2>6, <2>7, <3>1 DEF SameVote
    <2> QED BY <2>1, <2>6, <2>7, <2>8, <2>9
  <1> QED BY <1>1, Invariance, SourceInvariant, PTL

\* Only finitely many ballots are ever in the table: a commit adds one, a replacement no
\* more than there were.
LEMMA FinitelyMany == Spec => []IsFiniteSet(ballots)
  <1>1. Init => IsFiniteSet(ballots)
    BY FS_EmptySet DEF Init
  <1>2. IInv /\ IsFiniteSet(ballots) /\ [Next]_vars => IsFiniteSet(ballots)'
    <2> SUFFICES ASSUME IInv, IsFiniteSet(ballots), [Next]_vars PROVE IsFiniteSet(ballots)'
      OBVIOUS
    <2>1. CASE UNCHANGED <<tournaments, ballots>>
      BY <2>1
    <2>2. ASSUME NEW r \in Request, CommitBallot(r) PROVE IsFiniteSet(ballots)'
      BY <2>2, BallotStep, FS_AddElement
    <2>3. ASSUME NEW o \in Organiser, CommitReplacement(o) PROVE IsFiniteSet(ballots)'
      <3> DEFINE A == {a \in ballots : a.group[1] = swap[o].original /\ a.group[2] \in Plan(o)}
                 f == [a \in A |-> Copy(o, a)]
      <3>1. ballots' = ballots \cup swap[o].copies /\ swap[o].copies = {Copy(o, b) : b \in A}
        BY <2>3, ReplacementStep
      <3>2. f \in Surjection(A, swap[o].copies)
        BY <3>1 DEF Surjection
      <3>3. IsFiniteSet(A)
        BY FS_Subset
      <3>4. IsFiniteSet(swap[o].copies)
        <4> HIDE DEF A, f
        <4> QED BY <3>2, <3>3, FS_Surjection
      <3> QED BY <3>1, <3>4, FS_Union
    <2> QED BY <2>1, <2>2, <2>3, OnlyCommits
  <1> QED BY <1>1, <1>2, Invariance, PTL DEF Spec

\* The ballots a replacement starts with in each of its groups: the copies of those of
\* the group carried from, where the plan keeps its votes, and no other.
LEMMA BallotsAfter ==
  ASSUME IInv, NEW o \in Organiser, CommitReplacement(o), NEW l, l \in DOMAIN swap[o].lineup,
         NEW t, NEW s, t = swap[o].original, s = swap[o].successor
  PROVE  BallotsIn(<<s, l>>)' =
           IF l \in Plan(o) THEN {Copy(o, b) : b \in BallotsIn(<<t, l>>)} ELSE {}
  <1>1. /\ t \in Published /\ s \notin Published
        /\ ballots' = ballots \cup swap[o].copies
        /\ swap[o].copies = {Copy(o, b) : b \in {a \in ballots : /\ a.group[1] = t
                                                                 /\ a.group[2] \in Plan(o)}}
    BY ReplacementStep
  <1>2. \A b \in ballots : b.group # <<s, l>>
    <2>1. \A b \in ballots : b.group[1] \in Published
      BY DEF IInv, TablesKeep, HasGroup
    <2> QED BY <1>1, <2>1
  <1>3. \A b : Copy(o, b).group = <<s, b.group[2]>>
    BY DEF Copy, carriedBallot
  <1>4. \A b \in ballots : b.group = <<b.group[1], b.group[2]>>
    BY DEF IInv, TypeOK, Ballot, Group
  <1>5. ASSUME NEW e \in BallotsIn(<<s, l>>)'
        PROVE  l \in Plan(o) /\ \E b \in BallotsIn(<<t, l>>) : e = Copy(o, b)
    <2>1. e \in ballots' /\ e.group = <<s, l>>
      BY <1>5 DEF BallotsIn
    <2>2. e \in swap[o].copies
      BY <1>1, <1>2, <2>1
    <2>3. PICK b \in ballots : b.group[1] = t /\ b.group[2] \in Plan(o) /\ e = Copy(o, b)
      BY <1>1, <2>2
    <2>4. b.group[2] = l
      BY <1>3, <2>1, <2>3
    <2> QED BY <1>4, <2>3, <2>4 DEF BallotsIn
  <1>6. ASSUME l \in Plan(o), NEW b \in BallotsIn(<<t, l>>)
        PROVE  Copy(o, b) \in BallotsIn(<<s, l>>)'
    <2>1. b \in ballots /\ b.group = <<t, l>>
      BY <1>6 DEF BallotsIn
    <2>2. Copy(o, b) \in ballots' /\ Copy(o, b).group = <<s, l>>
      BY <1>1, <1>3, <1>6, <2>1
    <2> QED BY <2>2 DEF BallotsIn
  <1> QED BY <1>5, <1>6

\* The lineups of a replacement: its groups are sequences of pairs without repetition,
\* and the plan keeps a group exactly when its pairs are the same set.
LEMMA PlanIsSamePairs ==
  ASSUME NEW from \in Lineups, NEW to \in Lineups, NEW l \in DOMAIN to
  PROVE  /\ l \in planCarryOver(from, to) <=>
              /\ l \in DOMAIN from
              /\ {from[l][i] : i \in DOMAIN from[l]} = {to[l][i] : i \in DOMAIN to[l]}
         /\ l \in planCarryOver(from, to) =>
              /\ Injective(from[l])
              /\ \A i \in DOMAIN from[l] : \E j \in DOMAIN to[l] : to[l][j] = from[l][i]
              /\ \A j \in DOMAIN to[l] : \E i \in DOMAIN from[l] : from[l][i] = to[l][j]
  <1>1. l \in planCarryOver(from, to) <=> keepsVotes(from, to, l)
    BY DEF planCarryOver
  <1>2. keepsVotes(from, to, l) => l \in DOMAIN from
    BY DEF keepsVotes
  <1>3. ASSUME l \in DOMAIN from
        PROVE  /\ from[l] \in Seq(Pair) /\ to[l] \in Seq(Pair)
               /\ Injective(from[l]) /\ Injective(to[l])
    BY <1>3, BallotBoxConstants
  <1>4. ASSUME keepsVotes(from, to, l)
        PROVE  /\ Injective(from[l])
               /\ \A i \in DOMAIN from[l] : \E j \in DOMAIN to[l] : to[l][j] = from[l][i]
               /\ \A j \in DOMAIN to[l] : \E i \in DOMAIN from[l] : from[l][i] = to[l][j]
    <2>1. l \in DOMAIN from
      BY <1>2, <1>4
    <2>2. \A i \in DOMAIN from[l] : \E j \in DOMAIN to[l] : to[l][j] = from[l][i]
      BY <1>3, <1>4, <2>1, KeptGroupWhole
    <2>3. \A j \in DOMAIN to[l] : \E i \in DOMAIN from[l] : from[l][i] = to[l][j]
      BY <1>4 DEF keepsVotes
    <2> QED BY <1>3, <2>1, <2>2, <2>3
  <1>5. ASSUME l \in DOMAIN from,
               {from[l][i] : i \in DOMAIN from[l]} = {to[l][i] : i \in DOMAIN to[l]}
        PROVE  keepsVotes(from, to, l)
    <2>1. from[l] \in Seq(Pair) /\ to[l] \in Seq(Pair) /\ Injective(from[l]) /\ Injective(to[l])
      BY <1>3, <1>5
    <2> QED BY <1>5, <2>1, KeepsVotesIffSamePairs
  <1>6. keepsVotes(from, to, l) =>
          {from[l][i] : i \in DOMAIN from[l]} = {to[l][i] : i \in DOMAIN to[l]}
    BY <1>4
  <1> QED BY <1>1, <1>2, <1>4, <1>5, <1>6

\* How many of some ballots give a pair of their group a position.
Count(S, group, pair, p) ==
  Cardinality({b \in S : \E i \in DOMAIN group : group[i] = pair /\ b.ordering[i] = p})

\* A replacement takes the votes along exactly: each voter's copy gives every pair the
\* position it had, so the counts of an unchanged group are those of the original, and a
\* changed group starts with none (replace, db/tournaments; SC-202, SC-203).
THEOREM VotesCarriedExactly == Spec => ReplacementIsExact
  <1>1. ASSUME IInv, IsFiniteSet(ballots), NEW o \in Organiser, CommitReplacement(o),
               NEW l, l \in DOMAIN swap[o].lineup, l \in Plan(o), NEW pair, NEW p,
               NEW t, NEW s, t = swap[o].original, s = swap[o].successor
        PROVE  Count(BallotsIn(<<t, l>>), tournaments[t].lineup[l], pair, p)
                 = Count(BallotsIn(<<s, l>>)', swap[o].lineup[l], pair, p)
    <2> DEFINE from == tournaments[t].lineup[l]
               to == swap[o].lineup[l]
               A == {b \in BallotsIn(<<t, l>>) : \E i \in DOMAIN from :
                       from[i] = pair /\ b.ordering[i] = p}
               B == {b \in BallotsIn(<<s, l>>)' : \E i \in DOMAIN to :
                       to[i] = pair /\ b.ordering[i] = p}
               f == [b \in A |-> Copy(o, b)]
    <2>1. tournaments[t].lineup \in Lineups /\ swap[o].lineup \in Lineups
      <3>1. SwapKnows(o) /\ pc[o] = "copying"
        BY <1>1 DEF IInv, CommitReplacement
      <3> QED BY <1>1, <3>1 DEF IInv, TypeOK, SwapKnows, SwapSteps, Row
    <2>2. /\ Injective(from)
          /\ \A i \in DOMAIN from : \E j \in DOMAIN to : to[j] = from[i]
          /\ \A j \in DOMAIN to : \E i \in DOMAIN from : from[i] = to[j]
      BY <1>1, <2>1, PlanIsSamePairs DEF Plan
    <2>3. BallotsIn(<<s, l>>)' = {Copy(o, b) : b \in BallotsIn(<<t, l>>)}
      BY <1>1, BallotsAfter
    <2>4. \A b \in BallotsIn(<<t, l>>) : /\ b \in ballots /\ b.group = <<t, l>>
                                         /\ Copy(o, b).voter = b.voter
                                         /\ Copy(o, b).ordering = carriedOrdering(from, to, b.ordering)
      BY <1>1 DEF BallotsIn, Copy, carriedBallot
    <2> HIDE DEF from, to
    <2>5. ASSUME NEW b, NEW i \in DOMAIN from, NEW j \in DOMAIN to, from[i] = to[j]
          PROVE  b.ordering[i] = carriedOrdering(from, to, b.ordering)[j]
      BY <2>2, <2>5, CarriedOrderingSameVote
    <2>6. ASSUME NEW b \in A PROVE f[b] \in B
      <3>1. PICK i \in DOMAIN from : from[i] = pair /\ b.ordering[i] = p
        OBVIOUS
      <3>2. PICK j \in DOMAIN to : to[j] = from[i]
        BY <2>2
      <3>3. b.ordering[i] = carriedOrdering(from, to, b.ordering)[j]
        BY <2>5, <3>2
      <3>4. Copy(o, b).ordering[j] = p /\ to[j] = pair
        BY <2>4, <3>1, <3>2, <3>3
      <3> QED BY <2>3, <3>4
    <2>7. ASSUME NEW e \in B PROVE \E b \in A : f[b] = e
      <3>1. PICK b \in BallotsIn(<<t, l>>) : e = Copy(o, b)
        BY <2>3
      <3>2. PICK j \in DOMAIN to : to[j] = pair /\ e.ordering[j] = p
        OBVIOUS
      <3>3. PICK i \in DOMAIN from : from[i] = to[j]
        BY <2>2
      <3>4. b.ordering[i] = carriedOrdering(from, to, b.ordering)[j]
        BY <2>5, <3>3
      <3>5. b \in A
        BY <2>4, <3>1, <3>2, <3>3, <3>4
      <3> QED BY <3>1, <3>5
    <2>8. ASSUME NEW a \in A, NEW b \in A, f[a] = f[b] PROVE a = b
      <3>1. a.voter = b.voter /\ a.group = b.group /\ a \in ballots /\ b \in ballots
        BY <2>4, <2>8
      <3> QED BY <1>1, <3>1 DEF IInv, TablesKeep, OneBallotPerVoter
    <2>9. f \in [A -> B]
      BY <2>6
    <2>10. IsFiniteSet(A)
      <3>1. A \in SUBSET ballots
        BY DEF BallotsIn
      <3> HIDE DEF A
      <3> QED BY <1>1, <3>1, FS_Subset
    <2>11. ExistsBijection(A, B)
      <3> HIDE DEF A, B, f
      <3>1. f \in Bijection(A, B)
        BY <2>7, <2>8, <2>9 DEF Bijection, Injection, Surjection, IsInjective
      <3> QED BY <3>1 DEF ExistsBijection
    <2>12. Cardinality(A) = Cardinality(B)
      <3> HIDE DEF A, B
      <3> QED BY <2>10, <2>11, FS_Bijection
    <2> QED BY <2>12 DEF Count, from, to
  <1>2. ASSUME IInv, IsFiniteSet(ballots), [Next]_vars,
               NEW t \in Published, ~Replaced(t), Replaced(t)',
               NEW l \in DOMAIN tournaments'[tournaments'[t].replacedBy].lineup
        PROVE  IF Unchanged(<<t, l>>)'
               THEN \A pair \in PairsOf(<<t, l>>), p \in 1..Len(GroupLineup(<<t, l>>)) :
                      Votes(<<t, l>>, pair, p) = Votes(Counterpart(<<t, l>>), pair, p)'
               ELSE BallotsIn(Counterpart(<<t, l>>))' = {}
    <2>1. PICK o \in Organiser : CommitReplacement(o)
      <3>1. tournaments' # tournaments
        BY <1>2 DEF Replaced, Published
      <3> QED BY <1>2, <3>1, OnlyCommits, BallotStep
    <2>0. PICK s : s = swap[o].successor
      OBVIOUS
    <2> DEFINE from == tournaments[t].lineup
               to == swap[o].lineup
    <2>2. t = swap[o].original
      <3>1. \A x \in Published \ {swap[o].original} : tournaments'[x] = tournaments[x]
        BY <1>2, <2>1, ReplacementStep
      <3> QED BY <1>2, <3>1 DEF Replaced
    <2>3. /\ tournaments'[t].replacedBy = s /\ tournaments'[s].lineup = to
          /\ tournaments'[t].lineup = from
          /\ Published' = Published \cup {s}
      BY <1>2, <2>0, <2>1, <2>2, ReplacementStep
    <2>4. from \in Lineups /\ to \in Lineups /\ l \in DOMAIN to
      <3>1. SwapKnows(o) /\ pc[o] = "copying"
        BY <1>2, <2>1 DEF IInv, CommitReplacement
      <3> QED BY <1>2, <2>0, <2>2, <2>3, <3>1 DEF IInv, TypeOK, SwapKnows, SwapSteps, Row
    <2>5. /\ Counterpart(<<t, l>>)' = <<s, l>>
          /\ GroupLineup(<<t, l>>) = from[l]
          /\ GroupLineup(<<s, l>>)' = to[l] /\ GroupLineup(<<t, l>>)' = from[l]
      BY <2>0, <2>3 DEF Counterpart, GroupLineup
    <2>6. Unchanged(<<t, l>>)' <=> l \in planCarryOver(from, to)
      <3>1. HasGroup(<<t, l>>)' <=> l \in DOMAIN from
        BY <2>3 DEF HasGroup
      <3>2. HasGroup(Counterpart(<<t, l>>))'
        <4>1. HasGroup(<<s, l>>)'
          BY <2>3, <2>4 DEF HasGroup
        <4> QED BY <2>3, <4>1 DEF Counterpart
      <3>3. PairsOf(<<t, l>>)' = {from[l][i] : i \in DOMAIN from[l]}
        BY <2>5 DEF PairsOf
      <3>4. PairsOf(Counterpart(<<t, l>>))' = {to[l][i] : i \in DOMAIN to[l]}
        <4>1. PairsOf(<<s, l>>)' = {to[l][i] : i \in DOMAIN to[l]}
          BY <2>5 DEF PairsOf
        <4> QED BY <2>3, <4>1 DEF Counterpart
      <3>5. l \in planCarryOver(from, to) <=>
              /\ l \in DOMAIN from
              /\ {from[l][i] : i \in DOMAIN from[l]} = {to[l][i] : i \in DOMAIN to[l]}
        BY <2>4, PlanIsSamePairs
      <3>6. Replaced(<<t, l>>[1])'
        BY <1>2
      <3> HIDE DEF from, to
      <3> QED BY <3>1, <3>2, <3>3, <3>4, <3>5, <3>6 DEF Unchanged
    <2>7. Plan(o) = planCarryOver(from, to)
      BY <2>0, <2>2 DEF Plan
    <2>8. CASE l \in Plan(o)
      <3> SUFFICES ASSUME NEW pair, NEW p
                   PROVE  Votes(<<t, l>>, pair, p) = Votes(Counterpart(<<t, l>>), pair, p)'
        BY <2>6, <2>7, <2>8
      <3>1. Votes(<<t, l>>, pair, p) = Count(BallotsIn(<<t, l>>), from[l], pair, p)
        BY <2>5 DEF Votes, Count
      <3>2. Votes(Counterpart(<<t, l>>), pair, p)' = Count(BallotsIn(<<s, l>>)', to[l], pair, p)
        <4>1. Votes(<<s, l>>, pair, p)' = Count(BallotsIn(<<s, l>>)', to[l], pair, p)
          BY <2>5 DEF Votes, Count
        <4> QED BY <2>3, <4>1 DEF Counterpart
      <3> QED BY <1>1, <1>2, <2>0, <2>1, <2>2, <2>4, <2>8, <3>1, <3>2
    <2>9. CASE l \notin Plan(o)
      <3>1. BallotsIn(<<s, l>>)' = {}
        BY <1>2, <2>0, <2>1, <2>2, <2>4, <2>9, BallotsAfter
      <3>2. BallotsIn(Counterpart(<<t, l>>))' = {}
        BY <2>3, <3>1 DEF Counterpart
      <3> QED BY <2>6, <2>7, <2>9, <3>2
    <2> QED BY <2>8, <2>9
  <1>3. IInv /\ IsFiniteSet(ballots) /\ [Next]_vars =>
          [\A t \in Published : ~Replaced(t) /\ Replaced(t)' =>
             \A l \in DOMAIN tournaments'[tournaments'[t].replacedBy].lineup :
               LET g == <<t, l>>
               IN  IF Unchanged(g)'
                   THEN \A pair \in PairsOf(g), p \in 1..Len(GroupLineup(g)) :
                          Votes(g, pair, p) = Votes(Counterpart(g), pair, p)'
                   ELSE BallotsIn(Counterpart(g))' = {}]_vars
    BY <1>2
  <1> QED BY <1>3, Invariance, FinitelyMany, PTL DEF Spec, ReplacementIsExact

\* The ledger's carry-over and ballot rule are those of BallotBox.
LEMMA SameAlgorithms ==
  /\ \A group, ordering : Ledger!validateBallot(group, ordering) <=> validateBallot(group, ordering)
  /\ \A from, to : Ledger!planCarryOver(from, to) = planCarryOver(from, to)
  /\ \A b, s, from, to : Ledger!carriedBallot(b, s, from, to) = carriedBallot(b, s, from, to)
  <1>1. \A group, ordering : Ledger!validateBallot(group, ordering) <=> validateBallot(group, ordering)
    BY DEF Ledger!validateBallot, validateBallot, Ledger!Injective, Injective
  <1>2. \A from, to, l : Ledger!keepsVotes(from, to, l) <=> keepsVotes(from, to, l)
    BY DEF Ledger!keepsVotes, keepsVotes
  <1>3. \A from, to : Ledger!planCarryOver(from, to) = planCarryOver(from, to)
    BY <1>2 DEF Ledger!planCarryOver, planCarryOver
  <1>4. \A b, s, from, to : Ledger!carriedBallot(b, s, from, to) = carriedBallot(b, s, from, to)
    BY DEF Ledger!carriedBallot, carriedBallot, Ledger!carriedOrdering, carriedOrdering,
           Ledger!pairMap, pairMap
  <1> QED BY <1>1, <1>3, <1>4

\* BallotBox implements VoteLedger: each commit is one step of the ledger, whatever
\* the other requests had read, locked or written by then, and nothing else is.
THEOREM LedgerImplemented == Spec => ImplementsLedger
  <1>1. Init => Ledger!Init
    <2> SUFFICES ASSUME Init PROVE Ledger!Init
      OBVIOUS
    <2>1. PICK t \in Tournament, L \in Lineups, startsAt \in Instant \ {0} :
            tournaments = [x \in {t} |->
              [lineup |-> L, startsAt |-> startsAt, publishedAt |-> 0,
               invalidatedAt |-> None, replacedBy |-> None]]
      BY DEF Init
    <2>2. /\ Published = {t} /\ ballots = {}
          /\ tournaments[t].lineup = L /\ tournaments[t].replacedBy = None
      BY <2>1 DEF Init, Published
    <2> QED BY <2>2 DEF Ledger!Init
  <1>2. IInv /\ [Next]_vars => [Ledger!Next]_(Ledger!vars)
    <2> SUFFICES ASSUME IInv, [Next]_vars PROVE [Ledger!Next]_(Ledger!vars)
      OBVIOUS
    <2>1. CASE UNCHANGED <<tournaments, ballots>>
      BY <2>1 DEF Ledger!vars, Published
    <2>2. ASSUME NEW r \in Request, CommitBallot(r) PROVE Ledger!Next
      <3>1. PICK t \in Tournament, l \in Label : cast[r].group = <<t, l>>
        BY <2>2, BallotStep DEF Group
      <3>2. /\ t \in Published /\ l \in DOMAIN tournaments[t].lineup
            /\ tournaments[t].replacedBy = None
            /\ validateBallot(tournaments[t].lineup[l], cast[r].ordering)
            /\ cast[r].ordering \in Seq(Nat)
        BY <2>2, <3>1, BallotStep DEF HasGroup, GroupLineup, Replaced, IInv, TypeOK
      <3>3. cast[r].ordering \in Submissions /\ l \in Label
        BY <2>2, <3>1 DEF CommitBallot, IInv, CastKnows, Group, CastSteps
      <3>4. /\ \A b \in {x \in ballots : x.group = <<t, l>>} : b.voter # cast[r].voter
            /\ ballots' = ballots \cup {[group |-> <<t, l>>, voter |-> cast[r].voter,
                                         ordering |-> cast[r].ordering, carried |-> FALSE]}
            /\ tournaments' = tournaments /\ cast[r].voter \in Voter
        BY <2>2, <3>1, BallotStep DEF HasBallot, BallotsIn, Receipt
      <3>5. Ledger!Cast(t, l, cast[r].voter, cast[r].ordering)
        <4>0. Ledger!validateBallot(tournaments[t].lineup[l], cast[r].ordering)
          BY <3>2, SameAlgorithms
        <4>1. Ledger!Live(t)
          BY <3>2 DEF Ledger!Live, Ledger!Published
        <4>2. /\ [x \in Published |-> tournaments[x].lineup]'
                   = [x \in Published |-> tournaments[x].lineup]
              /\ [x \in Published |-> tournaments[x].replacedBy]'
                   = [x \in Published |-> tournaments[x].replacedBy]
          BY <3>4 DEF Published
        <4>3. [x \in Published |-> tournaments[x].lineup][t] = tournaments[t].lineup
          BY <3>2
        <4>4. \A b \in Ledger!BallotsIn(<<t, l>>) : b.voter # cast[r].voter
          BY <3>4 DEF Ledger!BallotsIn
        <4>5. /\ l \in DOMAIN [x \in Published |-> tournaments[x].lineup][t]
              /\ Ledger!validateBallot([x \in Published |-> tournaments[x].lineup][t][l], cast[r].ordering)
          BY <3>2, <4>0, <4>3
        <4> QED BY <3>4, <4>1, <4>2, <4>4, <4>5 DEF Ledger!Cast
      <3> QED BY <3>2, <3>3, <3>4, <3>5 DEF Ledger!Next, Ledger!Published
    <2>3. ASSUME NEW o \in Organiser, CommitReplacement(o) PROVE Ledger!Next
      <3>1. PICK t, s, L : t = swap[o].original /\ s = swap[o].successor /\ L = swap[o].lineup
        OBVIOUS
      <3>2. /\ t \in Published /\ ~Replaced(t) /\ s \in Tournament \ Published
            /\ Published' = Published \cup {s}
            /\ tournaments'[s].lineup = L /\ tournaments'[s].replacedBy = None
            /\ tournaments'[t].lineup = tournaments[t].lineup /\ tournaments'[t].replacedBy = s
            /\ \A x \in Published \ {t} : tournaments'[x] = tournaments[x]
        BY <2>3, <3>1, ReplacementStep
      <3>3. L \in Lineups /\ t \in Tournament /\ tournaments[t].replacedBy = None
        BY <2>3, <3>1, <3>2
        DEF IInv, TypeOK, SwapKnows, SwapSteps, CommitReplacement, Replaced
      <3>4. ballots' = ballots \cup
              {carriedBallot(b, s, tournaments[t].lineup, L) :
                 b \in UNION {{x \in ballots : x.group = <<t, l>>} :
                                l \in planCarryOver(tournaments[t].lineup, L)}}
        <4>1. UNION {{x \in ballots : x.group = <<t, l>>} :
                       l \in planCarryOver(tournaments[t].lineup, L)}
                = {a \in ballots : a.group[1] = t /\ a.group[2] \in Plan(o)}
          <5>1. \A a \in ballots : a.group = <<a.group[1], a.group[2]>>
            BY DEF IInv, TypeOK, Ballot, Group
          <5> QED BY <3>1, <5>1 DEF Plan
        <4>2. swap[o].copies = {carriedBallot(b, s, tournaments[t].lineup, L) :
                 b \in {a \in ballots : a.group[1] = t /\ a.group[2] \in Plan(o)}}
          <5>1. \A b : Copy(o, b) = carriedBallot(b, s, tournaments[t].lineup, L)
            BY <3>1 DEF Copy
          <5>2. swap[o].copies = {Copy(o, b) : b \in {a \in ballots : /\ a.group[1] = t
                                                                     /\ a.group[2] \in Plan(o)}}
            BY <2>3, <3>1, ReplacementStep
          <5> QED BY <5>1, <5>2
        <4>3. ballots' = ballots \cup swap[o].copies
          BY <2>3, ReplacementStep
        <4> QED BY <4>1, <4>2, <4>3
      <3>5. [x \in Published |-> tournaments[x].lineup]'
              = [x \in Published \cup {s} |->
                   IF x = s THEN L ELSE [y \in Published |-> tournaments[y].lineup][x]]
        BY <3>2
      <3>6. [x \in Published |-> tournaments[x].replacedBy]'
              = [x \in Published \cup {s} |->
                   IF x = s THEN None
                   ELSE IF x = t THEN s ELSE [y \in Published |-> tournaments[y].replacedBy][x]]
        BY <3>2
      <3>7. Ledger!Replace(t, s, L)
        <4>1. Ledger!Live(t) /\ Ledger!Published = Published
          BY <3>2, <3>3 DEF Ledger!Live, Ledger!Published
        <4>2. [x \in Published |-> tournaments[x].lineup][t] = tournaments[t].lineup
          BY <3>2
        <4>3. ballots' = ballots \cup
                {Ledger!carriedBallot(b, s, [x \in Published |-> tournaments[x].lineup][t], L) :
                   b \in UNION {Ledger!BallotsIn(<<t, l>>) :
                     l \in Ledger!planCarryOver([x \in Published |-> tournaments[x].lineup][t], L)}}
          BY <3>4, <4>2, SameAlgorithms DEF Ledger!BallotsIn
        <4> QED BY <3>2, <3>5, <3>6, <4>1, <4>3 DEF Ledger!Replace
      <3> QED BY <3>2, <3>3, <3>7 DEF Ledger!Next
    <2> QED BY <2>1, <2>2, <2>3, OnlyCommits
  <1> QED BY <1>1, <1>2, Invariance, PTL DEF Spec, ImplementsLedger, Ledger!Spec

-------------------------------------------------------------------------------
(***************************************************************************)
(* What Reveal reads: BallotBox implements Lineage.                        *)
(***************************************************************************)

\* Time passes and a tournament keeps its start.
TimePasses ==
  /\ clock \in Nat /\ clock' \in Nat /\ clock <= clock'
  /\ \A t \in Published : t \in Published' /\ tournaments'[t].startsAt = tournaments[t].startsAt

LEMMA StartsStay ==
  ASSUME IInv, [Next]_vars
  PROVE  TimePasses
  <1>1. clock \in Nat /\ clock' \in Nat
    BY StepInv, BallotBoxConstants DEF IInv, TypeOK, Instant
  <1>2. clock' = clock \/ clock' = clock + 1
    BY DEF Next, vars, Tick, Rest, CastStep, SwapStep, LoadGroup, CheckBallot, LockTournament,
           InsertBallot, CommitBallot, CountBallots, FailCast, LoadOriginal, Prepare, LockOriginal,
           InsertPublication, CopyGroup, CommitReplacement, ReadReplacement, FailReplacement
  <1>3. \A t \in Published : t \in Published' /\ tournaments'[t].startsAt = tournaments[t].startsAt
    <2>1. CASE tournaments' = tournaments
      BY <2>1 DEF Published
    <2>2. ASSUME NEW o \in Organiser, CommitReplacement(o), NEW t \in Published
          PROVE  t \in Published' /\ tournaments'[t].startsAt = tournaments[t].startsAt
      <3>1. /\ Published' = Published \cup {swap[o].successor}
            /\ swap[o].successor \notin Published
            /\ \A x \in Published \ {swap[o].original} : tournaments'[x] = tournaments[x]
        BY <2>2, ReplacementStep
      <3>2. CASE t = swap[o].original
        <4>1. tournaments'[t] = invalidated(tournaments[t], swap[o].now, swap[o].successor)
          BY <2>2, <3>1, <3>2 DEF CommitReplacement, Published
        <4>2. tournaments[t] \in Row
          BY DEF IInv, TypeOK
        <4> QED BY <3>1, <4>1, <4>2 DEF invalidated, Row
      <3> QED BY <3>1, <3>2
    <2>3. ASSUME NEW r \in Request, CommitBallot(r) PROVE tournaments' = tournaments
      BY <2>3 DEF CommitBallot
    <2> QED BY <2>1, <2>2, <2>3, OnlyCommits
  <1> QED BY <1>1, <1>2, <1>3 DEF TimePasses

\* What Timely says of one request.
CastTimely(r) ==
  /\ pc[r] \in {"checked", "sharing", "inserted"} => cast[r].now <= clock
  /\ pc[r] \in {"sharing", "inserted"} =>
       cast[r].now < tournaments[cast[r].group[1]].startsAt

SwapTimely(o) ==
  /\ pc[o] \in {"prepared", "locked", "copying"} =>
       swap[o].now <= clock /\ swap[o].now < swap[o].startsAt
  /\ pc[o] \in {"locked", "copying"} =>
       swap[o].now < tournaments[swap[o].original].startsAt

\* A request that stays where it is stays in time.
LEMMA CastInTime ==
  ASSUME IInv, TimePasses, NEW r \in Request, CastTimely(r), pc'[r] = pc[r], cast'[r] = cast[r]
  PROVE  CastTimely(r)'
  <1>1. /\ pc[r] \in {"checked", "sharing", "inserted"} => cast[r].now \in Nat
        /\ pc[r] \in {"sharing", "inserted"} => cast[r].group[1] \in Published
    BY BallotBoxConstants DEF IInv, CastKnows, CastSteps, HasGroup, Instant
  <1> QED BY <1>1 DEF CastTimely, TimePasses

\* The same for an organiser's.
LEMMA SwapInTime ==
  ASSUME IInv, TimePasses, NEW o \in Organiser, SwapTimely(o), pc'[o] = pc[o], swap'[o] = swap[o]
  PROVE  SwapTimely(o)'
  <1>1. /\ pc[o] \in {"prepared", "locked", "copying"} => swap[o].now \in Nat
        /\ pc[o] \in {"locked", "copying"} => swap[o].original \in Published
    BY BallotBoxConstants DEF IInv, SwapKnows, SwapSteps, Instant
  <1> QED BY <1>1 DEF SwapTimely, TimePasses

\* A step of a voter's request leaves every other request where it is.
LEMMA OwnCast ==
  ASSUME IInv, NEW r \in Request, LoadGroup(r) \/ CastStep(r) \/ FailCast(r)
  PROVE  /\ \A p \in Process \ {r} : pc'[p] = pc[p]
         /\ \A q \in Request \ {r} : cast'[q] = cast[q]
         /\ swap' = swap
  <1>1. /\ \E step : pc' = [pc EXCEPT ![r] = step]
        /\ cast' = cast \/ \E c : cast' = [cast EXCEPT ![r] = c]
        /\ swap' = swap
    <2>1. CASE LoadGroup(r)
      BY <2>1 DEF LoadGroup, AnswerVoter, Goto
    <2>2. CASE CheckBallot(r)
      BY <2>2 DEF CheckBallot, AnswerVoter, Goto, IInv, TypeOK
    <2>3. CASE LockTournament(r)
      BY <2>3 DEF LockTournament, AnswerVoter, Goto
    <2>4. CASE InsertBallot(r)
      BY <2>4 DEF InsertBallot, AnswerVoter, Goto
    <2>5. CASE CommitBallot(r)
      BY <2>5 DEF CommitBallot, Goto
    <2>6. CASE CountBallots(r)
      BY <2>6 DEF CountBallots, AnswerVoter, Goto
    <2>7. CASE FailCast(r)
      BY <2>7 DEF FailCast, AnswerVoter, Goto
    <2> QED BY <2>1, <2>2, <2>3, <2>4, <2>5, <2>6, <2>7 DEF CastStep
  <1> QED BY <1>1 DEF IInv, TypeOK

\* The same for a step of an organiser's request.
LEMMA OwnSwap ==
  ASSUME IInv, NEW o \in Organiser, LoadOriginal(o) \/ SwapStep(o) \/ FailReplacement(o)
  PROVE  /\ \A p \in Process \ {o} : pc'[p] = pc[p]
         /\ \A q \in Organiser \ {o} : swap'[q] = swap[q]
         /\ cast' = cast
  <1>1. /\ pc' = pc \/ \E step : pc' = [pc EXCEPT ![o] = step]
        /\ swap' = swap \/ \E c : swap' = [swap EXCEPT ![o] = c]
        /\ cast' = cast
    <2>1. CASE LoadOriginal(o)
      BY <2>1 DEF LoadOriginal, AnswerOrganiser, Goto
    <2>2. CASE Prepare(o)
      BY <2>2 DEF Prepare, AnswerOrganiser, Goto, IInv, TypeOK
    <2>3. CASE LockOriginal(o)
      BY <2>3 DEF LockOriginal, AnswerOrganiser, Goto
    <2>4. CASE InsertPublication(o)
      BY <2>4 DEF InsertPublication, Goto, IInv, TypeOK
    <2>5. CASE CopyGroup(o)
      BY <2>5 DEF CopyGroup, IInv, TypeOK
    <2>6. CASE CommitReplacement(o)
      BY <2>6 DEF CommitReplacement, Goto
    <2>7. CASE ReadReplacement(o)
      BY <2>7 DEF ReadReplacement, AnswerOrganiser, Goto
    <2>8. CASE FailReplacement(o)
      BY <2>8 DEF FailReplacement, AnswerOrganiser, Goto
    <2> QED BY <2>1, <2>2, <2>3, <2>4, <2>5, <2>6, <2>7, <2>8 DEF SwapStep
  <1> QED BY <1>1 DEF IInv, TypeOK

\* A voter's step: the check reads the clock, the lock compares the start with it.
LEMMA CastStepInTime ==
  ASSUME IInv, TimePasses, NEW r \in Request, CastTimely(r),
         LoadGroup(r) \/ CastStep(r) \/ FailCast(r)
  PROVE  CastTimely(r)'
  <1>1. pc \in [Process -> {"idle"} \cup CastSteps \cup SwapSteps \cup Answers] /\ r \in Process
    BY DEF IInv, TypeOK, Process
  <1>2. cast \in [Request -> Cast]
    BY DEF IInv, TypeOK
  <1>3. ASSUME NEW step \in {"loaded", "committed"} \cup Answers, Goto(r, step)
        PROVE  CastTimely(r)'
    BY <1>1, <1>3 DEF Goto, CastTimely, Answers
  <1>4. CASE LoadGroup(r)
    BY <1>3, <1>4 DEF LoadGroup, AnswerVoter, Answers
  <1>5. CASE CheckBallot(r)
    <2>1. CASE AnswerVoter(r, "VOTING_CLOSED") \/ AnswerVoter(r, "INVALID_BALLOT")
      BY <1>3, <2>1 DEF AnswerVoter, Answers
    <2>2. CASE cast' = [cast EXCEPT ![r].now = clock, ![r].seen = None] /\ Goto(r, "checked")
      <3>1. pc'[r] = "checked"
        BY <1>1, <2>2 DEF Goto
      <3>2. cast'[r].now = clock
        BY <1>2, <2>2 DEF Cast
      <3> QED BY <3>1, <3>2 DEF CastTimely, TimePasses
    <2> QED BY <1>5, <2>1, <2>2 DEF CheckBallot
  <1>6. CASE LockTournament(r)
    <2>1. CASE AnswerVoter(r, "VOTING_CLOSED")
      BY <1>3, <2>1 DEF AnswerVoter, Answers
    <2>2. CASE StillOpen(cast[r].group[1], cast[r].now) /\ Goto(r, "sharing") /\ UNCHANGED cast
      <3>1. pc'[r] = "sharing" /\ pc[r] = "checked"
        BY <1>1, <1>6, <2>2 DEF Goto, LockTournament
      <3>2. cast[r].now \in Nat /\ tournaments[cast[r].group[1]].startsAt \in Nat
        BY <3>1, BallotBoxConstants
        DEF IInv, TypeOK, CastKnows, CastSteps, HasGroup, Row, Instant
      <3>3. tournaments' = tournaments /\ clock' = clock
        BY <1>6 DEF LockTournament
      <3> QED BY <2>2, <3>1, <3>2, <3>3 DEF CastTimely, StillOpen
    <2> QED BY <1>6, <2>1, <2>2 DEF LockTournament
  <1>7. CASE InsertBallot(r)
    <2>1. CASE AnswerVoter(r, "ALREADY_VOTED")
      BY <1>3, <2>1 DEF AnswerVoter, Answers
    <2>2. CASE Goto(r, "inserted") /\ UNCHANGED cast
      <3>1. pc'[r] = "inserted" /\ pc[r] = "sharing"
        BY <1>1, <1>7, <2>2 DEF Goto, InsertBallot
      <3>2. tournaments' = tournaments /\ clock' = clock
        BY <1>7 DEF InsertBallot
      <3> QED BY <2>2, <3>1, <3>2 DEF CastTimely
    <2> QED BY <1>7, <2>1, <2>2 DEF InsertBallot
  <1>8. CASE CommitBallot(r) \/ CountBallots(r) \/ FailCast(r)
    BY <1>3, <1>8 DEF CommitBallot, CountBallots, FailCast, AnswerVoter, Answers
  <1> QED BY <1>4, <1>5, <1>6, <1>7, <1>8 DEF CastStep

\* An organiser's step: prepare reads the clock and refuses a start that has come.
LEMMA SwapStepInTime ==
  ASSUME IInv, TimePasses, NEW o \in Organiser, SwapTimely(o),
         LoadOriginal(o) \/ SwapStep(o) \/ FailReplacement(o)
  PROVE  SwapTimely(o)'
  <1>1. pc \in [Process -> {"idle"} \cup CastSteps \cup SwapSteps \cup Answers] /\ o \in Process
    BY DEF IInv, TypeOK, Process
  <1>2. swap \in [Organiser -> Swap] /\ swap[o] \in Swap
    BY DEF IInv, TypeOK
  <1>3. ASSUME NEW step \in {"loaded", "committed"} \cup Answers, Goto(o, step)
        PROVE  SwapTimely(o)'
    BY <1>1, <1>3 DEF Goto, SwapTimely, Answers
  <1>4. CASE LoadOriginal(o) \/ CommitReplacement(o) \/ ReadReplacement(o) \/ FailReplacement(o)
    BY <1>3, <1>4
    DEF LoadOriginal, CommitReplacement, ReadReplacement, FailReplacement, AnswerOrganiser, Answers
  <1>5. CASE Prepare(o)
    <2>1. CASE AnswerOrganiser(o, "NOT_REPLACEABLE") \/ AnswerOrganiser(o, "REJECTED")
      BY <1>3, <2>1 DEF AnswerOrganiser, Answers
    <2>2. CASE /\ swap[o].startsAt > clock
               /\ swap' = [swap EXCEPT ![o].now = clock, ![o].seen = None,
                             ![o].todo = planCarryOver(swap[o].seen.lineup, swap[o].lineup)]
               /\ Goto(o, "prepared")
      <3>1. pc'[o] = "prepared" /\ pc[o] = "loaded"
        BY <1>1, <1>5, <2>2 DEF Goto, Prepare
      <3>2. swap[o].startsAt \in Nat
        BY <3>1, BallotBoxConstants DEF IInv, SwapKnows, SwapSteps, Instant
      <3>3. swap'[o].now = clock /\ swap'[o].startsAt = swap[o].startsAt
        BY <1>2, <2>2 DEF Swap
      <3> QED BY <2>2, <3>1, <3>2, <3>3 DEF SwapTimely, TimePasses
    <2> QED BY <1>5, <2>1, <2>2 DEF Prepare
  <1>6. CASE LockOriginal(o)
    <2>1. CASE AnswerOrganiser(o, "NOT_REPLACEABLE")
      BY <1>3, <2>1 DEF AnswerOrganiser, Answers
    <2>2. CASE StillOpen(swap[o].original, swap[o].now) /\ Goto(o, "locked") /\ UNCHANGED swap
      <3>1. pc'[o] = "locked" /\ pc[o] = "prepared"
        BY <1>1, <1>6, <2>2 DEF Goto, LockOriginal
      <3>2. swap[o].now \in Nat /\ tournaments[swap[o].original].startsAt \in Nat
        BY <3>1, BallotBoxConstants DEF IInv, TypeOK, SwapKnows, SwapSteps, Row, Instant
      <3>3. tournaments' = tournaments /\ clock' = clock
        BY <1>6 DEF LockOriginal
      <3> QED BY <2>2, <3>1, <3>2, <3>3 DEF SwapTimely, StillOpen
    <2> QED BY <1>6, <2>1, <2>2 DEF LockOriginal
  <1>7. CASE InsertPublication(o) \/ CopyGroup(o)
    <2>1. /\ pc[o] \in {"locked", "copying"} /\ pc'[o] = "copying"
          /\ tournaments' = tournaments /\ clock' = clock
      BY <1>1, <1>7 DEF InsertPublication, CopyGroup, Goto
    <2>2. /\ swap'[o].now = swap[o].now /\ swap'[o].startsAt = swap[o].startsAt
          /\ swap'[o].original = swap[o].original
      BY <1>2, <1>7 DEF InsertPublication, CopyGroup, Swap
    <2> QED BY <2>1, <2>2 DEF SwapTimely
  <1> QED BY <1>4, <1>5, <1>6, <1>7 DEF SwapStep

\* Every write that commits was allowed by the window at an instant that had come,
\* whatever passed between its one reading of the clock and its commit.
LEMMA TimelyInvariant == Spec => []Timely
  <1>1. Init => Timely
    BY BallotBoxConstants DEF Init, Timely, Process
  <1>2. IInv /\ Timely /\ [Next]_vars => Timely'
    <2> SUFFICES ASSUME IInv, Timely, [Next]_vars PROVE Timely'
      OBVIOUS
    <2>1. TimePasses
      BY StartsStay
    <2>2. (\A r \in Request : CastTimely(r)) /\ (\A o \in Organiser : SwapTimely(o))
      BY DEF Timely, CastTimely, SwapTimely
    <2>3. (\A r \in Request : CastTimely(r)') /\ (\A o \in Organiser : SwapTimely(o)')
      <3>1. CASE UNCHANGED <<pc, cast, swap>>
        BY <2>1, <2>2, <3>1, CastInTime, SwapInTime
      <3>2. ASSUME NEW r \in Request, LoadGroup(r) \/ CastStep(r) \/ FailCast(r)
            PROVE  (\A q \in Request : CastTimely(q)') /\ (\A o \in Organiser : SwapTimely(o)')
        <4>1. /\ \A q \in Request \ {r} : pc'[q] = pc[q] /\ cast'[q] = cast[q]
              /\ \A o \in Organiser : pc'[o] = pc[o] /\ swap'[o] = swap[o]
          BY <3>2, OwnCast, BallotBoxConstants DEF Process
        <4>2. CastTimely(r)'
          BY <2>1, <2>2, <3>2, CastStepInTime
        <4> QED BY <2>1, <2>2, <4>1, <4>2, CastInTime, SwapInTime
      <3>3. ASSUME NEW o \in Organiser, LoadOriginal(o) \/ SwapStep(o) \/ FailReplacement(o)
            PROVE  (\A q \in Request : CastTimely(q)') /\ (\A q \in Organiser : SwapTimely(q)')
        <4>1. /\ \A q \in Request : pc'[q] = pc[q] /\ cast'[q] = cast[q]
              /\ \A q \in Organiser \ {o} : pc'[q] = pc[q] /\ swap'[q] = swap[q]
          BY <3>3, OwnSwap, BallotBoxConstants DEF Process
        <4>2. SwapTimely(o)'
          BY <2>1, <2>2, <3>3, SwapStepInTime
        <4> QED BY <2>1, <2>2, <4>1, <4>2, CastInTime, SwapInTime
      <3> QED BY <3>1, <3>2, <3>3 DEF Next, Tick, Rest, vars
    <2> QED BY <2>3 DEF Timely, CastTimely, SwapTimely
  <1> QED BY <1>1, <1>2, Invariance, PTL DEF Spec

-------------------------------------------------------------------------------
\* A ballot carried to a group that keeps its votes reads the same: every pair at the
\* position it had.
LEMMA CarriedReadsTheSame ==
  ASSUME NEW from \in Lineups, NEW to \in Lineups, NEW l \in planCarryOver(from, to), NEW ordering
  PROVE  Positions(to[l], carriedOrdering(from[l], to[l], ordering)) = Positions(from[l], ordering)
  <1>1. l \in DOMAIN to
    BY DEF planCarryOver
  <1>2. /\ l \in DOMAIN from /\ Injective(from[l])
        /\ {from[l][i] : i \in DOMAIN from[l]} = {to[l][i] : i \in DOMAIN to[l]}
    BY <1>1, PlanIsSamePairs
  <1> DEFINE P == {to[l][i] : i \in DOMAIN to[l]}
             c == carriedOrdering(from[l], to[l], ordering)
             at(group, pair) == CHOOSE s \in DOMAIN group : group[s] = pair
  <1>3. ASSUME NEW pair \in P PROVE c[at(to[l], pair)] = ordering[at(from[l], pair)]
    <2>1. PICK j \in DOMAIN to[l] : to[l][j] = pair
      OBVIOUS
    <2>2. at(to[l], pair) \in DOMAIN to[l] /\ to[l][at(to[l], pair)] = pair
      BY <2>1
    <2>3. PICK i \in DOMAIN from[l] : from[l][i] = pair
      BY <1>2
    <2>4. at(from[l], pair) \in DOMAIN from[l] /\ from[l][at(from[l], pair)] = pair
      BY <2>3
    <2> HIDE DEF at
    <2> QED BY <1>2, <2>2, <2>4, CarriedOrderingSameVote DEF c
  <1>4. Positions(to[l], c) = [pair \in P |-> c[at(to[l], pair)]]
    BY DEF Positions
  <1>5. Positions(from[l], ordering) = [pair \in P |-> ordering[at(from[l], pair)]]
    BY <1>2 DEF Positions
  <1> HIDE DEF P, at
  <1>6. Positions(to[l], c) = Positions(from[l], ordering)
    BY <1>3, <1>4, <1>5
  <1> QED BY <1>6 DEF c

\* The one ballot of a voter in a group is the one that is read there.
LEMMA OneIsRead ==
  ASSUME NEW S, NEW b \in S,
         \A a, c \in S : a.group = c.group /\ a.voter = c.voter => a = c
  PROVE  (CHOOSE a \in S : a.group = b.group /\ a.voter = b.voter) = b
  <1> DEFINE one == CHOOSE a \in S : a.group = b.group /\ a.voter = b.voter
  <1>1. one \in S /\ one.group = b.group /\ one.voter = b.voter
    OBVIOUS
  <1> HIDE DEF one
  <1>2. one = b
    BY <1>1
  <1> QED BY <1>2 DEF one

\* What is read of the ballots: each at its group and voter.
LEMMA SeenOfBallots ==
  ASSUME TablesKeep
  PROVE  /\ DOMAIN SeenBallots = {<<b.group, b.voter>> : b \in ballots}
         /\ \A b \in ballots :
              SeenBallots[<<b.group, b.voter>>] = Positions(GroupLineup(b.group), b.ordering)
  <1>1. \A b \in ballots : BallotOf(b.group, b.voter) = b
    BY OneIsRead DEF BallotOf, TablesKeep, OneBallotPerVoter
  <1> HIDE DEF GroupLineup
  <1> QED BY <1>1 DEF SeenBallots

\* The same after a step.
LEMMA SeenOfBallotsNext ==
  ASSUME TablesKeep'
  PROVE  /\ SeenBallots' = [x \in {<<b.group, b.voter>> : b \in ballots'} |-> SeenBallots'[x]]
         /\ \A b \in ballots' :
              SeenBallots'[<<b.group, b.voter>>] = Positions(GroupLineup(b.group)', b.ordering)
  <1>1. ASSUME NEW b \in ballots' PROVE BallotOf(b.group, b.voter)' = b
    BY OneIsRead DEF BallotOf, TablesKeep, OneBallotPerVoter
  <1>2. SeenBallots' = [x \in {<<b.group, b.voter>> : b \in ballots'} |->
                          Positions(GroupLineup(x[1])', BallotOf(x[1], x[2])'.ordering)]
    BY DEF SeenBallots, Positions, GroupLineup
  <1> QED BY <1>1, <1>2

\* A complete ballot of a group gives positions to its pairs.
LEMMA PositionsAreOrderings ==
  ASSUME NEW L \in Lineups, NEW l \in DOMAIN L, NEW ordering \in Seq(Nat),
         validateBallot(L[l], ordering)
  PROVE  Positions(L[l], ordering) \in AllOrderings
  <1> DEFINE P == {L[l][s] : s \in DOMAIN L[l]}
             at(pair) == CHOOSE s \in DOMAIN L[l] : L[l][s] = pair
  <1>1. DOMAIN ordering = DOMAIN L[l]
    BY LenProperties, BallotBoxConstants DEF validateBallot
  <1>2. ASSUME NEW pair \in P PROVE ordering[at(pair)] \in 1..Len(L[l])
    <2>1. at(pair) \in DOMAIN L[l]
      OBVIOUS
    <2> HIDE DEF at
    <2> QED BY <1>1, <2>1 DEF validateBallot
  <1>3. Positions(L[l], ordering) = [pair \in P |-> ordering[at(pair)]]
    BY DEF Positions
  <1>4. Positions(L[l], ordering) \in [P -> 1..Len(L[l])]
    <2> HIDE DEF P, at
    <2> QED BY <1>2, <1>3
  <1> QED BY <1>4 DEF AllOrderings

-------------------------------------------------------------------------------
\* The commit of a ballot is a vote, judged at the instant castBallot read.
LEMMA BallotIsVote ==
  ASSUME IInv, IInv', Timely, NEW r \in Request, CommitBallot(r)
  PROVE  Read!CommitVote
  <1> DEFINE v == cast[r].voter
             g == cast[r].group
             now == cast[r].now
             o == Positions(GroupLineup(g), cast[r].ordering)
  <1>1. /\ tournaments' = tournaments /\ clock' = clock
        /\ ballots' = ballots \cup {Receipt(r)}
        /\ v \in Voter /\ g \in Group /\ HasGroup(g) /\ ~Replaced(g[1])
        /\ ~HasBallot(g, v)
        /\ validateBallot(GroupLineup(g), cast[r].ordering) /\ cast[r].ordering \in Seq(Nat)
    BY BallotStep DEF CommitBallot
  <1>2. /\ now \in Instant /\ now <= clock /\ now < tournaments[g[1]].startsAt
        /\ clock \in Instant
    BY DEF IInv, TypeOK, CastKnows, CommitBallot, Timely
  <1>3. Receipt(r).group = g /\ Receipt(r).voter = v /\ Receipt(r).ordering = cast[r].ordering
    BY DEF Receipt
  <1>4. g \in Read!Group /\ Read!Instant = Instant
    BY <1>1 DEF Group, Read!Group, Read!Instant, Instant
  <1>5. \A h : GroupLineup(h)' = GroupLineup(h)
    BY <1>1 DEF GroupLineup
  <1>6. SeenRows' = SeenRows
    BY <1>1 DEF SeenRows, Published, SeenRow
  <1>7. g[1] \in Published /\ g[1] \in Read!Published
    BY <1>1 DEF HasGroup, Read!Published, SeenRows
  <1>8. ~Read!HasBallot(g, v)
    <2>1. <<g, v>> \notin DOMAIN SeenBallots
      BY <1>1, SeenOfBallots DEF HasBallot, BallotsIn, IInv
    <2> QED BY <2>1 DEF Read!HasBallot
  <1>9. now \in Read!Recent /\ Read!StillOpen(g[1], now)
    <2>1. now \in Read!Recent
      BY <1>2, <1>4, BallotBoxConstants DEF Read!Recent, Instant
    <2>2. /\ SeenRows[g[1]].invalidatedAt = tournaments[g[1]].invalidatedAt
          /\ SeenRows[g[1]].startsAt = tournaments[g[1]].startsAt
      BY <1>7 DEF SeenRows, SeenRow
    <2>3. tournaments[g[1]].invalidatedAt = None /\ tournaments[g[1]].startsAt \in Nat
      BY <1>1, <1>7, BallotBoxConstants DEF Replaced, IInv, TypeOK, Row, Instant
    <2>4. tournaments[g[1]].startsAt > now
      BY <1>2, <2>3, BallotBoxConstants DEF Instant
    <2> QED BY <2>1, <2>2, <2>3, <2>4 DEF Read!StillOpen
  <1>10. o \in AllOrderings
    <2>1. /\ tournaments[g[1]].lineup \in Lineups /\ g[2] \in DOMAIN tournaments[g[1]].lineup
      BY <1>1, <1>7 DEF HasGroup, IInv, TypeOK, Row
    <2> QED BY <1>1, <2>1, PositionsAreOrderings DEF GroupLineup
  <1> HIDE DEF v, g, now, o
  <1>11. SeenBallots' = [x \in DOMAIN SeenBallots \cup {<<g, v>>} |->
                           IF x = <<g, v>> THEN o ELSE SeenBallots[x]]
    <2>1. DOMAIN SeenBallots = {<<b.group, b.voter>> : b \in ballots}
      BY SeenOfBallots DEF IInv
    <2>2. {<<b.group, b.voter>> : b \in ballots'} = DOMAIN SeenBallots \cup {<<g, v>>}
      BY <1>1, <1>3, <2>1
    <2>3. SeenBallots' = [x \in DOMAIN SeenBallots \cup {<<g, v>>} |-> SeenBallots'[x]]
      BY <2>2, SeenOfBallotsNext DEF IInv
    <2>4. SeenBallots'[<<g, v>>] = o
      <3>1. PICK b : b = Receipt(r)
        OBVIOUS
      <3>2. SeenBallots'[<<b.group, b.voter>>] = Positions(GroupLineup(b.group)', b.ordering)
        BY <1>1, <3>1, SeenOfBallotsNext DEF IInv
      <3>3. b.group = g /\ b.voter = v /\ b.ordering = cast[r].ordering
        BY <1>3, <3>1
      <3> QED BY <1>5, <3>2, <3>3 DEF o
    <2>5. ASSUME NEW x \in DOMAIN SeenBallots PROVE SeenBallots'[x] = SeenBallots[x]
      <3>1. PICK b \in ballots : x = <<b.group, b.voter>>
        BY <2>1
      <3>2. SeenBallots[x] = Positions(GroupLineup(b.group), b.ordering)
        BY <3>1, SeenOfBallots DEF IInv
      <3>3. SeenBallots'[x] = Positions(GroupLineup(b.group)', b.ordering)
        BY <1>1, <3>1, SeenOfBallotsNext DEF IInv
      <3> QED BY <1>5, <3>2, <3>3
    <2>6. <<g, v>> \notin DOMAIN SeenBallots
      BY <1>8 DEF Read!HasBallot
    <2>7. \A x \in DOMAIN SeenBallots \cup {<<g, v>>} :
            SeenBallots'[x] = IF x = <<g, v>> THEN o ELSE SeenBallots[x]
      BY <2>4, <2>5, <2>6
    <2> QED BY <2>3, <2>7
  <1>12. v \in Voter
    BY <1>1 DEF v
  <1>13. UNCHANGED <<clock, SeenRows>>
    BY <1>1, <1>6
  <1> QED BY <1>4, <1>7, <1>8, <1>9, <1>10, <1>11, <1>12, <1>13 DEF Read!CommitVote

\* The row of an original as it is read once it is replaced.
LEMMA RowRelinked ==
  ASSUME NEW row, NEW now, NEW s
  PROVE  [SeenRow(row) EXCEPT !.invalidatedAt = now, !.replacedBy = s]
           = [publishedAt |-> row.publishedAt, startsAt |-> row.startsAt,
              invalidatedAt |-> now, replacedBy |-> s]
  <1>1. PICK r, x : r = SeenRow(row) /\ x = [r EXCEPT !.invalidatedAt = now, !.replacedBy = s]
    OBVIOUS
  <1>2. x = [k \in {"publishedAt", "startsAt", "invalidatedAt", "replacedBy"} |-> x[k]]
    BY <1>1 DEF SeenRow
  <1>3. /\ x.publishedAt = row.publishedAt /\ x.startsAt = row.startsAt
        /\ x.invalidatedAt = now /\ x.replacedBy = s
    BY <1>1 DEF SeenRow
  <1> QED BY <1>1, <1>2, <1>3

\* The commit of a replacement is one of the lineage, with the groups of its plan kept.
LEMMA ReplacementIsRead ==
  ASSUME IInv, IInv', Timely, NEW o \in Organiser, CommitReplacement(o)
  PROVE  Read!CommitReplacement
  <1>1. PICK t, s, now, start, from, to :
          /\ t = swap[o].original /\ s = swap[o].successor
          /\ now = swap[o].now /\ start = swap[o].startsAt
          /\ from = tournaments[t].lineup /\ to = swap[o].lineup
    OBVIOUS
  <1>2. /\ t \in Published /\ ~Replaced(t) /\ s \in Tournament \ Published /\ s # t
        /\ Published' = Published \cup {s}
        /\ tournaments'[t].lineup = from /\ tournaments'[s].lineup = to
        /\ \A x \in Published \ {t} : tournaments'[x] = tournaments[x]
        /\ ballots' = ballots \cup swap[o].copies
        /\ swap[o].copies = {Copy(o, b) : b \in {a \in ballots : /\ a.group[1] = t
                                                                 /\ a.group[2] \in Plan(o)}}
    BY <1>1, ReplacementStep
  <1>3. /\ pc[o] = "copying" /\ clock' = clock
        /\ tournaments'[s] = [lineup |-> to, startsAt |-> start, publishedAt |-> now,
                              invalidatedAt |-> None, replacedBy |-> None]
        /\ tournaments'[t] = [tournaments[t] EXCEPT !.invalidatedAt = now, !.replacedBy = s]
    <2>1. tournaments' = [x \in Published \cup {s} |->
            CASE x = s -> [lineup |-> to, startsAt |-> start, publishedAt |-> now,
                           invalidatedAt |-> None, replacedBy |-> None]
              [] x = t -> [tournaments[t] EXCEPT !.invalidatedAt = now, !.replacedBy = s]
              [] OTHER -> tournaments[x]]
      BY <1>1 DEF CommitReplacement, invalidated
    <2> QED BY <1>2, <2>1 DEF CommitReplacement
  <1>4. /\ now \in Instant /\ start \in Instant /\ clock \in Instant
        /\ now <= clock /\ now < start /\ now < tournaments[t].startsAt
        /\ tournaments[t] \in Row /\ to \in Lineups /\ from \in Lineups
    BY <1>1, <1>2, <1>3 DEF IInv, TypeOK, SwapKnows, SwapSteps, Timely, Row
  <1>5. /\ Plan(o) = planCarryOver(from, to) /\ Plan(o) \in SUBSET Label
        /\ \A b : Copy(o, b) = carriedBallot(b, s, from, to)
    <2>1. Plan(o) = planCarryOver(from, to) /\ \A b : Copy(o, b) = carriedBallot(b, s, from, to)
      BY <1>1 DEF Plan, Copy
    <2>2. planCarryOver(from, to) \subseteq DOMAIN to
      BY DEF planCarryOver
    <2> QED BY <1>4, <2>1, <2>2, BallotBoxConstants
  <1>6. now \in Read!Recent /\ Read!StillOpen(t, now)
    <2>1. now \in Read!Recent
      BY <1>4, BallotBoxConstants DEF Read!Recent, Read!Instant, Instant
    <2>2. /\ SeenRows[t].invalidatedAt = tournaments[t].invalidatedAt
          /\ SeenRows[t].startsAt = tournaments[t].startsAt
      BY <1>2 DEF SeenRows, SeenRow
    <2>3. tournaments[t].invalidatedAt = None /\ tournaments[t].startsAt > now
      BY <1>2, <1>4, BallotBoxConstants DEF Replaced, Row, Instant
    <2> QED BY <2>1, <2>2, <2>3 DEF Read!StillOpen
  <1>7. SeenRows' = Read!Replaced(t, s, start, now)
    <2>1. SeenRows' = [x \in Published \cup {s} |-> SeenRow(tournaments'[x])]
      BY <1>2 DEF SeenRows, SeenRow
    <2>2. SeenRow(tournaments'[s]) = [publishedAt |-> now, startsAt |-> start,
                                      invalidatedAt |-> None, replacedBy |-> None]
      BY <1>3 DEF SeenRow
    <2>3. SeenRow(tournaments'[t]) = [SeenRows[t] EXCEPT !.invalidatedAt = now, !.replacedBy = s]
      <3>1. SeenRows[t] = SeenRow(tournaments[t])
        BY <1>2 DEF SeenRows
      <3>2. /\ tournaments'[t].publishedAt = tournaments[t].publishedAt
            /\ tournaments'[t].startsAt = tournaments[t].startsAt
            /\ tournaments'[t].invalidatedAt = now /\ tournaments'[t].replacedBy = s
        BY <1>3, <1>4 DEF Row
      <3> DEFINE row == [publishedAt |-> tournaments[t].publishedAt,
                         startsAt |-> tournaments[t].startsAt,
                         invalidatedAt |-> now, replacedBy |-> s]
      <3>3. SeenRow(tournaments'[t]) = row
        BY <3>2 DEF SeenRow
      <3>4. [SeenRows[t] EXCEPT !.invalidatedAt = now, !.replacedBy = s] = row
        BY <3>1, RowRelinked
      <3> QED BY <3>3, <3>4
    <2>4. \A x \in Published \ {t} : SeenRow(tournaments'[x]) = SeenRows[x]
      BY <1>2 DEF SeenRows
    <2>5. Read!Published = Published
      BY DEF Read!Published, SeenRows
    <2> HIDE DEF SeenRow
    <2> QED BY <1>2, <2>1, <2>2, <2>3, <2>4, <2>5 DEF Read!Replaced
  <1>8. SeenBallots' = Read!WithCopies(t, s, Plan(o))
    <2> DEFINE copied == {x \in DOMAIN SeenBallots : x[1][1] = t /\ x[1][2] \in Plan(o)}
               D == DOMAIN SeenBallots \cup {<<<<s, y[1][2]>>, y[2]>> : y \in copied}
    <2>1. DOMAIN SeenBallots = {<<b.group, b.voter>> : b \in ballots}
      BY SeenOfBallots DEF IInv
    <2>2. \A b \in ballots : HasGroup(b.group) /\ b.group = <<b.group[1], b.group[2]>>
                             /\ b.group[1] # s
      BY <1>2 DEF IInv, TypeOK, TablesKeep, Ballot, Group, HasGroup
    <2>3. \A b : /\ Copy(o, b).group = <<s, b.group[2]>> /\ Copy(o, b).voter = b.voter
                 /\ Copy(o, b).ordering =
                      carriedOrdering(from[b.group[2]], to[b.group[2]], b.ordering)
      <3> SUFFICES ASSUME NEW b
                   PROVE  /\ Copy(o, b).group = <<s, b.group[2]>> /\ Copy(o, b).voter = b.voter
                          /\ Copy(o, b).ordering =
                               carriedOrdering(from[b.group[2]], to[b.group[2]], b.ordering)
        OBVIOUS
      <3>1. Copy(o, b) = carriedBallot(b, s, from, to)
        BY <1>5
      <3> HIDE DEF Copy
      <3> QED BY <3>1 DEF carriedBallot
    <2>4. \A b \in swap[o].copies : \E a \in ballots :
            /\ a.group[1] = t /\ a.group[2] \in Plan(o) /\ b = Copy(o, a)
      BY <1>2
    <2>5. \A a \in ballots : a.group[1] = t /\ a.group[2] \in Plan(o) => Copy(o, a) \in ballots'
      BY <1>2
    <2>6. {<<b.group, b.voter>> : b \in ballots'} = D
      <3>1. ASSUME NEW b \in ballots' PROVE <<b.group, b.voter>> \in D
        <4>1. CASE b \in ballots
          BY <2>1, <4>1
        <4>2. CASE b \in swap[o].copies
          <5>1. PICK a \in ballots : a.group[1] = t /\ a.group[2] \in Plan(o) /\ b = Copy(o, a)
            BY <2>4, <4>2
          <5>2. <<a.group, a.voter>> \in copied
            BY <2>1, <5>1
          <5>3. <<b.group, b.voter>> = <<<<s, a.group[2]>>, a.voter>>
            BY <2>3, <5>1
          <5> QED BY <5>2, <5>3
        <4> QED BY <1>2, <4>1, <4>2
      <3>2. ASSUME NEW y \in copied
            PROVE  \E b \in ballots' : <<b.group, b.voter>> = <<<<s, y[1][2]>>, y[2]>>
        <4>1. PICK a \in ballots : y = <<a.group, a.voter>>
          BY <2>1
        <4>2. a.group[1] = t /\ a.group[2] \in Plan(o)
          BY <4>1
        <4> QED BY <2>3, <2>5, <4>1, <4>2
      <3>3. \A x \in DOMAIN SeenBallots : \E b \in ballots' : <<b.group, b.voter>> = x
        BY <1>2, <2>1
      <3> QED BY <3>1, <3>2, <3>3
    <2>7. SeenBallots' = [x \in D |-> SeenBallots'[x]]
      BY <2>6, SeenOfBallotsNext DEF IInv
    <2>8. ASSUME NEW x \in D
          PROVE  SeenBallots'[x] = IF x[1][1] = s THEN SeenBallots[<<<<t, x[1][2]>>, x[2]>>]
                                   ELSE SeenBallots[x]
      <3>1. PICK b \in ballots' : x = <<b.group, b.voter>>
        BY <2>6
      <3>2. SeenBallots'[x] = Positions(GroupLineup(b.group)', b.ordering)
        BY <3>1, SeenOfBallotsNext DEF IInv
      <3>3. CASE b \in ballots
        <4>1. x[1][1] # s
          BY <2>2, <3>1, <3>3
        <4>2. GroupLineup(b.group)' = GroupLineup(b.group)
          BY <1>1, <1>2, <2>2, <3>3 DEF GroupLineup, HasGroup
        <4>3. SeenBallots[x] = Positions(GroupLineup(b.group), b.ordering)
          BY <3>1, <3>3, SeenOfBallots DEF IInv
        <4> QED BY <3>2, <4>1, <4>2, <4>3
      <3>4. CASE b \in swap[o].copies
        <4>1. PICK a \in ballots : a.group[1] = t /\ a.group[2] \in Plan(o) /\ b = Copy(o, a)
          BY <2>4, <3>4
        <4>2. PICK l : l = a.group[2]
          OBVIOUS
        <4>3. /\ b.group = <<s, l>> /\ b.voter = a.voter
              /\ b.ordering = carriedOrdering(from[l], to[l], a.ordering)
              /\ a.group = <<t, l>> /\ l \in planCarryOver(from, to)
          BY <1>5, <2>2, <2>3, <4>1, <4>2
        <4>4. /\ GroupLineup(b.group)' = to[l] /\ GroupLineup(a.group) = from[l]
          BY <1>1, <1>2, <4>3 DEF GroupLineup
        <4>5. x[1][1] = s /\ <<<<t, x[1][2]>>, x[2]>> = <<a.group, a.voter>>
          BY <3>1, <4>3
        <4>6. SeenBallots[<<a.group, a.voter>>] = Positions(from[l], a.ordering)
          BY <4>4, SeenOfBallots DEF IInv
        <4>7. Positions(to[l], b.ordering) = Positions(from[l], a.ordering)
          BY <1>4, <4>3, CarriedReadsTheSame
        <4> QED BY <3>2, <4>4, <4>5, <4>6, <4>7
      <3> QED BY <1>2, <3>3, <3>4
    <2>9. Read!WithCopies(t, s, Plan(o)) =
            [x \in D |-> IF x[1][1] = s THEN SeenBallots[<<<<t, x[1][2]>>, x[2]>>]
                         ELSE SeenBallots[x]]
      BY DEF Read!WithCopies
    <2> HIDE DEF D, copied
    <2> QED BY <2>7, <2>8, <2>9
  <1>9. t \in Read!Published /\ s \in Tournament \ Read!Published /\ start \in Read!Instant
    BY <1>2, <1>4 DEF Read!Published, SeenRows, Read!Instant, Instant
  <1> QED BY <1>3, <1>4, <1>5, <1>6, <1>7, <1>8, <1>9 DEF Read!CommitReplacement

\* Every step that touches a table is one of the lineage's.
LEMMA LineageStep ==
  ASSUME IInv, IInv', Timely, [Next]_vars
  PROVE  TablesStay \/ Read!LineageNext
  <1>1. CASE Tick
    <2>1. /\ clock < Horizon /\ clock' = clock + 1
          /\ tournaments' = tournaments /\ ballots' = ballots
      BY <1>1 DEF Tick
    <2>2. SeenRows' = SeenRows /\ SeenBallots' = SeenBallots
      BY <2>1 DEF SeenRows, SeenBallots, SeenRow, BallotOf, GroupLineup, Positions, Published
    <2> QED BY <2>1, <2>2 DEF Read!LineageNext, Read!PassTime
  <1>2. ASSUME NEW r \in Request, CommitBallot(r) PROVE Read!LineageNext
    BY <1>2, BallotIsVote DEF Read!LineageNext
  <1>3. ASSUME NEW o \in Organiser, CommitReplacement(o) PROVE Read!LineageNext
    BY <1>3, ReplacementIsRead DEF Read!LineageNext
  <1>4. \/ TablesStay \/ Tick
        \/ \E r \in Request : CommitBallot(r)
        \/ \E o \in Organiser : CommitReplacement(o)
    BY DEF TablesStay, Next, vars, Rest, CastStep, SwapStep, LoadGroup, CheckBallot, LockTournament,
           InsertBallot, CountBallots, FailCast, LoadOriginal, Prepare, LockOriginal,
           InsertPublication, CopyGroup, ReadReplacement, FailReplacement
  <1> QED BY <1>1, <1>2, <1>3, <1>4

\* One tournament, live and without a ballot, is what a reader starts from.
LEMMA LineageStart == Init => Read!LineageInit
  <1> SUFFICES ASSUME Init PROVE Read!LineageInit
    OBVIOUS
  <1>1. PICK t \in Tournament, L \in Lineups, startsAt \in Instant \ {0} :
          tournaments = [x \in {t} |->
            [lineup |-> L, startsAt |-> startsAt, publishedAt |-> 0,
             invalidatedAt |-> None, replacedBy |-> None]]
    BY DEF Init
  <1>2. SeenRows = [x \in {t} |-> [publishedAt |-> 0, startsAt |-> startsAt,
                                   invalidatedAt |-> None, replacedBy |-> None]]
    BY <1>1 DEF SeenRows, Published, SeenRow
  <1>3. SeenBallots = <<>>
    <2>1. ballots = {}
      BY DEF Init
    <2>2. {<<b.group, b.voter>> : b \in ballots} = {}
      BY <2>1
    <2> QED BY <2>2 DEF SeenBallots
  <1>4. clock = 0 /\ startsAt \in Read!Instant \ {0}
    BY DEF Init, Read!Instant, Instant
  <1> QED BY <1>2, <1>3, <1>4 DEF Read!LineageInit

\* To a reader a ballot is cast in one step and a tournament replaced in one step, each
\* allowed by the window at an instant that had come; nothing else is seen.
THEOREM LineageImplemented == Spec => ImplementsLineage
  <1>1. IInv /\ IInv' /\ Timely /\ [Next]_vars => [TablesStay \/ Read!LineageNext]_vars
    BY LineageStep
  <1> QED BY <1>1, LineageStart, Invariance, TimelyInvariant, PTL DEF Spec, ImplementsLineage

\* BallotBox implements Lineage, the world that Reveal reads.
THEOREM LineageRefined == Spec => Read!LineageSpec
  <1>1. IInv /\ IInv' /\ Timely /\ [Next]_vars => [Read!LineageNext]_(Read!world)
    <2> SUFFICES ASSUME IInv, IInv', Timely, [Next]_vars
                 PROVE  Read!LineageNext \/ UNCHANGED Read!world
      OBVIOUS
    <2>1. TablesStay => UNCHANGED Read!world
      BY DEF TablesStay, Read!world, SeenRows, SeenBallots, SeenRow, BallotOf, GroupLineup,
             Positions, Published
    <2> QED BY <2>1, LineageStep
  <1> QED BY <1>1, LineageStart, Invariance, TimelyInvariant, PTL DEF Spec, Read!LineageSpec
===============================================================================
