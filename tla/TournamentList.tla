---------------------------- MODULE TournamentList ----------------------------
(***************************************************************************)
(* The public list of tournaments (listTournaments over listPublished of   *)
(* packages/db/src/tournament-list): a walk from page to page by a cursor, *)
(* while tournaments are published, replaced and closed.  A page is one    *)
(* query.  A publication commits some time after the instant it carries,   *)
(* so that a tournament may appear behind a cursor.                        *)
(***************************************************************************)
EXTENDS Integers, Sequences, FiniteSets

CONSTANTS
  TournamentId,          \* uuids, as the numbers they are compared by
  Limits,                \* how many tournaments a page may hold
  LastDay,               \* bound on the clock
  Delay,                 \* bound on the time from an instant read to its commit
  Nothing                \* null

ASSUME TournamentListConstants ==
  /\ TournamentId \subseteq Nat /\ Limits \subseteq Nat \ {0} /\ LastDay \in Nat /\ Delay \in Nat
  /\ \A day \in 0..LastDay, t \in TournamentId : Nothing # [publishedAt |-> day, id |-> t]

VARIABLES
  today,                 \* server time
  catalogue,             \* the rows of tournaments, by id
  walk                   \* the caller's query, its cursor and what it has read

listing == <<today, catalogue, walk>>

Days == 0..LastDay
Recent == {d \in Days : d <= today /\ today - d <= Delay}

\* status is open, closed or all; steady is history: the tournaments that each page so
\* far could have listed.
NewWalk(status, includeInvalidated, limit) ==
  [status |-> status, includeInvalidated |-> includeInvalidated, limit |-> limit,
   cursor |-> Nothing, listed |-> <<>>, steady |-> TournamentId, ended |-> FALSE]

ListInit ==
  /\ today = 0
  /\ catalogue = [t \in {} |-> Nothing]
  /\ \E status \in {"open", "closed", "all"}, replacedToo \in BOOLEAN, limit \in Limits :
       walk = NewWalk(status, replacedToo, limit)

-------------------------------------------------------------------------------
\* publishTournament commits, with the instant it read.
PublicationCommits ==
  /\ \E t \in TournamentId \ DOMAIN catalogue, at \in Recent, start \in Days :
       /\ at < start
       /\ catalogue' = [x \in DOMAIN catalogue \cup {t} |->
            IF x = t THEN [publishedAt |-> at, startsAt |-> start, invalidatedAt |-> Nothing]
            ELSE catalogue[x]]
  /\ UNCHANGED <<today, walk>>

\* replaceTournament commits: the original is invalidated and another is published, both
\* at the instant it read.
ReplacementCommits ==
  /\ \E t \in DOMAIN catalogue, s \in TournamentId \ DOMAIN catalogue, at \in Recent, start \in Days :
       /\ catalogue[t].invalidatedAt = Nothing
       /\ catalogue[t].publishedAt <= at /\ at < catalogue[t].startsAt /\ at < start
       /\ catalogue' = [x \in DOMAIN catalogue \cup {s} |->
            IF x = s THEN [publishedAt |-> at, startsAt |-> start, invalidatedAt |-> Nothing]
            ELSE IF x = t THEN [catalogue[t] EXCEPT !.invalidatedAt = at]
            ELSE catalogue[x]]
  /\ UNCHANGED <<today, walk>>

DayPasses ==
  /\ today < LastDay
  /\ today' = today + 1
  /\ UNCHANGED <<catalogue, walk>>

-------------------------------------------------------------------------------
(***************************************************************************)
(* listPublished.                                                          *)
(***************************************************************************)
HasStatus(row, status) ==
  CASE status = "open"   -> row.startsAt > today /\ row.invalidatedAt = Nothing
    [] status = "closed" -> row.startsAt <= today \/ row.invalidatedAt # Nothing
    [] OTHER             -> TRUE

Qualifies(t) ==
  /\ HasStatus(catalogue[t], walk.status)
  /\ walk.includeInvalidated \/ catalogue[t].invalidatedAt = Nothing

SortKey(t) == [publishedAt |-> catalogue[t].publishedAt, id |-> t]

\* (published_at, id) < (published_at, id)
Precedes(a, b) ==
  \/ a.publishedAt < b.publishedAt
  \/ a.publishedAt = b.publishedAt /\ a.id < b.id

BehindCursor_ByInstant(t) ==
  walk.cursor = Nothing \/ catalogue[t].publishedAt < walk.cursor.publishedAt

BehindCursor(t) == walk.cursor = Nothing \/ Precedes(SortKey(t), walk.cursor)

Candidates == {t \in DOMAIN catalogue : Qualifies(t)}

\* order by published_at desc, id desc limit n
NewestFirst(S, n) ==
  LET after(t) == {x \in S : \/ catalogue[x].publishedAt > catalogue[t].publishedAt
                             \/ catalogue[x].publishedAt = catalogue[t].publishedAt /\ x > t}
      rank == [t \in S |-> Cardinality(after(t)) + 1]
      size == IF Cardinality(S) < n THEN Cardinality(S) ELSE n
  IN  [i \in 1..size |-> CHOOSE t \in S : rank[t] = i]

\* One row over the limit tells whether there is another page; it is not part of this one.
ReadPage ==
  /\ ~walk.ended
  /\ LET rows    == NewestFirst({t \in Candidates : BehindCursor(t)}, walk.limit + 1)
         hasMore == Len(rows) > walk.limit
         items   == IF hasMore THEN SubSeq(rows, 1, walk.limit) ELSE rows
     IN  walk' = [walk EXCEPT
           !.listed = @ \o [i \in DOMAIN items |-> SortKey(items[i])],
           !.cursor = IF hasMore THEN SortKey(items[Len(items)]) ELSE Nothing,
           !.steady = @ \cap Candidates,
           !.ended  = ~hasMore]
  /\ UNCHANGED <<today, catalogue>>

ListNext == PublicationCommits \/ ReplacementCommits \/ DayPasses \/ ReadPage

ListSpec == ListInit /\ [][ListNext]_listing

-------------------------------------------------------------------------------
(***************************************************************************)
(* Properties.                                                             *)
(***************************************************************************)

(***************************************************************************)
(* A walk lists the newest first and nothing twice, and when it ends it    *)
(* has listed every tournament that each of its pages could have listed,   *)
(* whatever was published, replaced or closed in between and however many  *)
(* tournaments share an instant (tournament-list.ts, header; FR-023).      *)
(***************************************************************************)
WalkIsExact ==
  /\ \A i, j \in DOMAIN walk.listed : i < j => Precedes(walk.listed[j], walk.listed[i])
  /\ walk.ended => \A t \in walk.steady : \E i \in DOMAIN walk.listed : walk.listed[i].id = t
===============================================================================
