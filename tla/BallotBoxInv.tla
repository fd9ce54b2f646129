----------------------------- MODULE BallotBoxInv -----------------------------
(***************************************************************************)
(* The inductive invariant of BallotBox: what the locals of a request know *)
(* of the tables at each await, what the row locks exclude, and what the   *)
(* tables keep between two commits.  The safety properties of BallotBox    *)
(* follow from it; module BallotBoxProofs has the proofs.                  *)
(***************************************************************************)
EXTENDS BallotBox

Plan(o) == planCarryOver(tournaments[swap[o].original].lineup, swap[o].lineup)

Receipt(r) == [group |-> cast[r].group, voter |-> cast[r].voter,
               ordering |-> cast[r].ordering, carried |-> FALSE]

Copy(o, b) ==
  carriedBallot(b, swap[o].successor, tournaments[swap[o].original].lineup, swap[o].lineup)

\* The voter's group exists from the first query on; the ballot is complete from the
\* check on; from the lock on the tournament is live, an inserted ballot has no
\* committed rival, and a committed one is in the table.
CastKnows(r) ==
  /\ pc[r] \in {"idle"} \cup CastSteps \cup Answers
  /\ pc[r] \in CastSteps \cup {"RECORDED"} =>
       /\ cast[r].voter \in Voter
       /\ cast[r].group \in Group
       /\ cast[r].ordering \in Submissions
       /\ HasGroup(cast[r].group)
  /\ pc[r] = "loaded" => cast[r].seen \in Row
  /\ pc[r] \in {"checked", "sharing", "inserted"} =>
       /\ cast[r].now \in Instant
       /\ validateBallot(GroupLineup(cast[r].group), cast[r].ordering)
  /\ pc[r] \in {"sharing", "inserted"} => ~Replaced(cast[r].group[1])
  /\ pc[r] = "inserted" => ~HasBallot(cast[r].group, cast[r].voter)
  /\ pc[r] \in {"committed", "RECORDED"} => Receipt(r) \in ballots

\* The plan is that of the tables; from the lock on the original is live, and the
\* copies made so far are exactly those of the groups done.
SwapKnows(o) ==
  /\ pc[o] \in {"idle"} \cup SwapSteps \cup Answers
  /\ pc[o] \in SwapSteps =>
       /\ swap[o].original \in Published
       /\ swap[o].lineup \in Lineups
       /\ swap[o].startsAt \in Instant
  /\ pc[o] = "loaded" =>
       /\ swap[o].seen \in Row
       /\ swap[o].seen.lineup = tournaments[swap[o].original].lineup
  /\ pc[o] \in {"prepared", "locked", "copying"} => swap[o].now \in Instant
  /\ pc[o] \in {"loaded", "prepared", "locked"} => swap[o].copies = {}
  /\ pc[o] \in {"prepared", "locked"} => swap[o].todo = Plan(o)
  /\ pc[o] \in {"locked", "copying"} => ~Replaced(swap[o].original)
  /\ pc[o] = "copying" =>
       /\ swap[o].successor \in Tournament \ Published
       /\ swap[o].todo \subseteq Plan(o)
       /\ swap[o].copies =
            {Copy(o, b) : b \in {a \in ballots : /\ a.group[1] = swap[o].original
                                                 /\ a.group[2] \in Plan(o) \ swap[o].todo}}

\* FOR UPDATE excludes every other lock on the row, no two uncommitted ballots are
\* of the same voter in the same group, and two replacements under way have
\* published under different ids.
LocksExclude ==
  /\ \A o \in Organiser, r \in Request :
       pc[o] \in {"locked", "copying"} /\ pc[r] \in {"sharing", "inserted"}
         => cast[r].group[1] # swap[o].original
  /\ \A o, q \in Organiser :
       pc[o] \in {"locked", "copying"} /\ pc[q] \in {"locked", "copying"} /\ o # q
         => swap[q].original # swap[o].original
  /\ \A o, q \in Organiser :
       pc[o] = "copying" /\ pc[q] = "copying" /\ o # q
         => swap[q].successor # swap[o].successor
  /\ \A r, q \in Request :
       pc[r] = "inserted" /\ pc[q] = "inserted" /\ r # q
         => cast[r].group # cast[q].group \/ cast[r].voter # cast[q].voter

\* What is committed: the ballots are in groups that exist and are complete, those
\* of a kept group have their copies, and a replaced tournament has its successor.
TablesKeep ==
  /\ \A t \in Published : Replaced(t) => tournaments[t].replacedBy \in Published
  /\ \A b \in ballots :
       HasGroup(b.group) /\ validateBallot(GroupLineup(b.group), b.ordering)
  /\ \A b \in ballots : LET t == b.group[1]
                            s == tournaments[t].replacedBy
                        IN
       Replaced(t) /\ b.group[2] \in planCarryOver(tournaments[t].lineup, tournaments[s].lineup)
         => carriedBallot(b, s, tournaments[t].lineup, tournaments[s].lineup) \in ballots
  /\ OneBallotPerVoter

\* Each carried ballot is the copy of one that stays in the group it came from.
CarriedHaveSource ==
  \A b \in ballots : b.carried =>
    \E a \in ballots : LET t == a.group[1]
                           s == tournaments[t].replacedBy
                       IN
      /\ Replaced(t)
      /\ a.group[2] \in planCarryOver(tournaments[t].lineup, tournaments[s].lineup)
      /\ b = carriedBallot(a, s, tournaments[t].lineup, tournaments[s].lineup)

\* A write is judged at an instant that has come and, from the lock on, before the
\* tournament starts; a replacement starts after the instant it is published at.
Timely ==
  /\ \A r \in Request :
       /\ pc[r] \in {"checked", "sharing", "inserted"} => cast[r].now <= clock
       /\ pc[r] \in {"sharing", "inserted"} =>
            cast[r].now < tournaments[cast[r].group[1]].startsAt
  /\ \A o \in Organiser :
       /\ pc[o] \in {"prepared", "locked", "copying"} =>
            swap[o].now <= clock /\ swap[o].now < swap[o].startsAt
       /\ pc[o] \in {"locked", "copying"} =>
            swap[o].now < tournaments[swap[o].original].startsAt

IInv ==
  /\ TypeOK
  /\ \A r \in Request : CastKnows(r)
  /\ \A o \in Organiser : SwapKnows(o)
  /\ LocksExclude
  /\ TablesKeep
===============================================================================
