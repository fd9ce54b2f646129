------------------------------- MODULE Lineage -------------------------------
(***************************************************************************)
(* What casting and replacing are to whoever only reads the tables: a      *)
(* tournament, those that replaced it one after another, and the ballots   *)
(* in their groups.  A vote is one step and a replacement is one step, at  *)
(* its commit, allowed by the clock as the request read it some time       *)
(* before.  BallotBox has the requests, the transactions and the locks,    *)
(* and implements this; Reveal reads it.                                   *)
(***************************************************************************)
EXTENDS Window

CONSTANTS
  Tournament,            \* ids a tournament may be given
  Label,                 \* group labels
  Voter,                 \* voter ids
  Orderings,             \* what voters submit: positions by pair id
  Lag,                   \* how long a write may take from its clock to its commit
  Horizon                \* bound on the clock

ASSUME LineageConstants == None \notin Tournament /\ Lag \in Nat /\ Horizon \in Nat

Instant == 0..Horizon
Group == Tournament \X Label

VARIABLES
  clock,                 \* server time
  tournaments,           \* the committed rows, by id
  ballots                \* the ballots: orderings by group and voter

world == <<clock, tournaments, ballots>>

Published == DOMAIN tournaments
HasBallot(g, v) == <<g, v>> \in DOMAIN ballots

\* The instants a write that commits now may have judged the window at.
Recent == {i \in Instant : i <= clock /\ clock - i <= Lag}

\* The re-check under the lock of both transactions.
StillOpen_TimeOnly(t, now) == tournaments[t].startsAt > now

StillOpen(t, now) == tournaments[t].invalidatedAt = None /\ tournaments[t].startsAt > now

-------------------------------------------------------------------------------
LineageInit ==
  /\ clock = 0
  /\ \E t \in Tournament, start \in Instant \ {0} :
       tournaments = [x \in {t} |-> [publishedAt |-> 0, startsAt |-> start,
                                     invalidatedAt |-> None, replacedBy |-> None]]
  /\ ballots = <<>>

\* The commit of a ballot that was judged at some recent instant.
CommitVote ==
  \E v \in Voter, g \in Group :
    /\ g[1] \in Published
    /\ ~HasBallot(g, v)
    /\ \E now \in Recent : StillOpen(g[1], now)
    /\ \E o \in Orderings :
         ballots' = [x \in DOMAIN ballots \cup {<<g, v>>} |->
                       IF x = <<g, v>> THEN o ELSE ballots[x]]
    /\ UNCHANGED <<clock, tournaments>>

\* The two rows a replacement writes.
Replaced(t, s, start, now) ==
  [x \in Published \cup {s} |->
     IF x = s THEN [publishedAt |-> now, startsAt |-> start,
                    invalidatedAt |-> None, replacedBy |-> None]
     ELSE IF x = t THEN [tournaments[t] EXCEPT !.invalidatedAt = now, !.replacedBy = s]
     ELSE tournaments[x]]

\* The ballots with the copies of those of the kept groups.
WithCopies(t, s, kept) ==
  LET copied == {x \in DOMAIN ballots : x[1][1] = t /\ x[1][2] \in kept} IN
  [x \in DOMAIN ballots \cup {<<<<s, y[1][2]>>, y[2]>> : y \in copied} |->
     IF x[1][1] = s THEN ballots[<<<<t, x[1][2]>>, x[2]>>] ELSE ballots[x]]

\* The commit of a replacement, with the ballots of the groups that keep theirs.
CommitReplacement ==
  \E t \in Published, s \in Tournament \ Published, start \in Instant,
     kept \in SUBSET Label, now \in Recent :
    /\ StillOpen(t, now)
    /\ now < start
    /\ tournaments' = Replaced(t, s, start, now)
    /\ ballots' = WithCopies(t, s, kept)
    /\ UNCHANGED clock

PassTime ==
  /\ clock < Horizon
  /\ clock' = clock + 1
  /\ UNCHANGED <<tournaments, ballots>>

LineageNext == CommitVote \/ CommitReplacement \/ PassTime

LineageSpec == LineageInit /\ [][LineageNext]_world
===============================================================================
