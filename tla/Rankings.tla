------------------------------ MODULE Rankings ------------------------------
(***************************************************************************)
(* The import of the public ranking sheet (api/src/handlers/               *)
(* sync-rankings.ts over db/src/players.ts and db/src/rankings.ts).        *)
(*                                                                         *)
(* Members of Sync are runs of syncRankings: the weekly timer, the command *)
(* line and the organiser's button all start the same function, and        *)
(* nothing keeps two of them apart.  A run is one action per await; the    *)
(* sheet and the clock change between them.                                *)
(***************************************************************************)
EXTENDS RankingSheet

CONSTANTS NoSheet,    \* null
          Sync,       \* runs of syncRankings
          Sheets,     \* what the sheet may hold
          Calendar,   \* the club's calendar day at each instant, in order
          MaxEdits,   \* how often the sheet changes
          MaxInt,     \* the largest value of a Postgres integer column
          Roster      \* the players on record at first, by match key

ASSUME CalendarAssumption ==
    /\ Calendar \in Seq(Nat \ {NoDate})
    /\ Calendar # <<>>
    /\ \A i, j \in DOMAIN Calendar : i <= j => Calendar[i] <= Calendar[j]

ASSUME SheetsAssumption ==
    \A sheet \in Sheets : sheet.rating \in {<<>>} \cup (Nat \X Nat \X Nat)

ASSUME MaxEditsAssumption == MaxEdits \in Nat

VARIABLES
    now,        \* the instant, an index of Calendar
    live,       \* the sheet as it is published
    edits,      \* how often it has changed
    copies,     \* ranking_snapshots: sheets kept verbatim, with their fetch
    players,    \* players, by match_key
    ratings,    \* player_ratings: points by <<player, rated_on>>
    pc,         \* what each run does next, or how it ended
    fetched,    \* each run's sheet: [csv, fetchedAt], once it has one
    stale,      \* each run's flag: it imports a stored copy
    day,        \* each run's sync day
    ratedOn,    \* the date it stores the points under
    alone       \* history: no other run has been under way since this began

vars == <<now, live, edits, copies, players, ratings,
          pc, fetched, stale, day, ratedOn, alone>>
tables == <<copies, players, ratings>>
locals == <<fetched, stale, day, ratedOn, alone>>

Instants == DOMAIN Calendar

Running == {"FetchLatest", "LastSnapshot", "Parse", "LatestRatedOn",
            "StoreSnapshot", "UpsertMany", "UpsertSnapshots"}

\* calendarDayIn(clock.now())
Today == Calendar[now]

-----------------------------------------------------------------------------
(* The tables                                                              *)

\* select max(rated_on) from player_ratings
LatestRatedOn(table) ==
    LET dates == {x[2] : x \in DOMAIN table}
    IN  IF dates = {} THEN NoDate
        ELSE CHOOSE d \in dates : \A e \in dates : e <= d

\* The newest-dated rating of a player, as latestPointsFor reads it.
IsCurrent(table, k, points) ==
    \E d \in {x[2] : x \in DOMAIN table} :
        /\ <<k, d>> \in DOMAIN table
        /\ table[<<k, d>>] = points
        /\ \A x \in DOMAIN table : x[1] = k => x[2] <= d

\* order by fetched_at desc limit 1
NewestCopies ==
    {c \in copies : \A other \in copies : other.fetchedAt <= c.fetchedAt}

\* insert ... on conflict (match_key) do update.  The import writes no club.
UpsertedPlayers(table, sheet) ==
    LET sent == ParsedPlayers(sheet)
    IN  [k \in (DOMAIN table) \cup (DOMAIN sent) |->
            IF k \in DOMAIN sent
            THEN [externalId  |-> sent[k].externalId,
                  displayName |-> sent[k].displayName,
                  club        |-> FALSE]
            ELSE table[k]]

\* insert ... on conflict (player_id, rated_on) do update
UpsertedRatings(table, sheet, date) ==
    LET sent == ParsedPoints(sheet)
    IN  [x \in (DOMAIN table) \cup ((DOMAIN sent) \X {date}) |->
            IF x \in (DOMAIN sent) \X {date} THEN sent[x[1]] ELSE table[x]]

\* Neither column holds more than an integer does.
PlayersFit(sheet) ==
    \A k \in DOMAIN ParsedPlayers(sheet) :
        ParsedPlayers(sheet)[k].externalId <= MaxInt
PointsFit(sheet) ==
    \A k \in DOMAIN ParsedPoints(sheet) : ParsedPoints(sheet)[k] <= MaxInt

-----------------------------------------------------------------------------
Init ==
    /\ now = 1
    /\ live \in Sheets
    /\ edits = 0
    /\ copies = {}
    /\ players = Roster
    /\ ratings = <<>>
    /\ pc = [s \in Sync |-> "Idle"]
    /\ fetched = [s \in Sync |-> NoSheet]
    /\ stale = [s \in Sync |-> FALSE]
    /\ day = [s \in Sync |-> NoDate]
    /\ ratedOn = [s \in Sync |-> NoDate]
    /\ alone = [s \in Sync |-> TRUE]

Goto(s, step) == pc' = [pc EXCEPT ![s] = step]

-----------------------------------------------------------------------------
(* A run                                                                   *)

Start(s) ==
    /\ pc[s] = "Idle"
    /\ Goto(s, "FetchLatest")
    /\ alone' = [t \in Sync |-> t = s /\ \A u \in Sync : pc[u] \notin Running]
    /\ UNCHANGED <<now, live, edits, tables, fetched, stale, day, ratedOn>>

\* The sheet answered; the fetch is stamped with the clock.
FetchLatest_KeptAtOnce(s) ==
    /\ pc[s] = "FetchLatest"
    /\ fetched' = [fetched EXCEPT ![s] = [csv |-> live, fetchedAt |-> now]]
    /\ copies' = copies \cup {fetched'[s]}
    /\ Goto(s, "Parse")
    /\ UNCHANGED <<now, live, edits, players, ratings, stale, day, ratedOn, alone>>

FetchLatest(s) ==
    /\ pc[s] = "FetchLatest"
    /\ fetched' = [fetched EXCEPT ![s] = [csv |-> live, fetchedAt |-> now]]
    /\ Goto(s, "Parse")
    /\ UNCHANGED <<now, live, edits, tables, stale, day, ratedOn, alone>>

\* It was unreachable, too slow, empty, or not a CSV.
FetchThrows(s) ==
    /\ pc[s] = "FetchLatest"
    /\ Goto(s, "LastSnapshot")
    /\ UNCHANGED <<now, live, edits, tables, locals>>

LastSnapshot(s) ==
    /\ pc[s] = "LastSnapshot"
    /\ \/ /\ copies = {}
          /\ Goto(s, "INTERNAL_ERROR")
          /\ UNCHANGED <<fetched, stale>>
       \/ \E c \in NewestCopies :
             /\ fetched' = [fetched EXCEPT ![s] = c]
             /\ stale' = [stale EXCEPT ![s] = TRUE]
             /\ Goto(s, "Parse")
    /\ UNCHANGED <<now, live, edits, tables, day, ratedOn, alone>>

\* parseRankingCsv throws, or the clock is read.
Parse(s) ==
    /\ pc[s] = "Parse"
    /\ \/ /\ Parses(fetched[s].csv)
          /\ day' = [day EXCEPT ![s] = Today]
          /\ Goto(s, "LatestRatedOn")
       \/ /\ ~ Parses(fetched[s].csv)
          /\ Goto(s, ParseOutcome(fetched[s].csv))
          /\ UNCHANGED day
    /\ UNCHANGED <<now, live, edits, tables, fetched, stale, ratedOn, alone>>

ReadLatestRatedOn(s) ==
    /\ pc[s] = "LatestRatedOn"
    /\ ratedOn' = [ratedOn EXCEPT ![s] =
           chooseRatedOn(HeaderRatedOn(fetched[s].csv), day[s],
                         LatestRatedOn(ratings))]
    /\ Goto(s, IF stale[s] THEN "UpsertMany" ELSE "StoreSnapshot")
    /\ UNCHANGED <<now, live, edits, tables, fetched, stale, day, alone>>

StoreSnapshot(s) ==
    /\ pc[s] = "StoreSnapshot"
    /\ copies' = copies \cup {fetched[s]}
    /\ Goto(s, "UpsertMany")
    /\ UNCHANGED <<now, live, edits, players, ratings, locals>>

\* One transaction; a value too large for its column rolls it back.
UpsertMany(s) ==
    /\ pc[s] = "UpsertMany"
    /\ \/ /\ PlayersFit(fetched[s].csv)
          /\ players' = UpsertedPlayers(players, fetched[s].csv)
          /\ Goto(s, "UpsertSnapshots")
       \/ /\ ~ PlayersFit(fetched[s].csv)
          /\ Goto(s, "INTERNAL_ERROR")
          /\ UNCHANGED players
    /\ UNCHANGED <<now, live, edits, copies, ratings, locals>>

UpsertSnapshots(s) ==
    /\ pc[s] = "UpsertSnapshots"
    /\ \/ /\ PointsFit(fetched[s].csv)
          /\ ratings' = UpsertedRatings(ratings, fetched[s].csv, ratedOn[s])
          /\ Goto(s, "OK")
       \/ /\ ~ PointsFit(fetched[s].csv)
          /\ Goto(s, "INTERNAL_ERROR")
          /\ UNCHANGED ratings
    /\ UNCHANGED <<now, live, edits, copies, players, locals>>

\* A query fails, a deadlock is broken, the process is killed: nothing is
\* rolled back but the statement under way.
FailSync(s) ==
    /\ pc[s] \in Running \ {"FetchLatest", "Parse"}
    /\ Goto(s, "INTERNAL_ERROR")
    /\ UNCHANGED <<now, live, edits, tables, locals>>

-----------------------------------------------------------------------------
(* The world                                                               *)

EditSheet ==
    /\ edits < MaxEdits
    /\ edits' = edits + 1
    /\ live' \in Sheets \ {live}
    /\ UNCHANGED <<now, tables, pc, locals>>

Tick ==
    /\ now + 1 \in Instants
    /\ now' = now + 1
    /\ UNCHANGED <<live, edits, tables, pc, locals>>

SyncStep(s) ==
    \/ Start(s) \/ FetchLatest(s) \/ FetchThrows(s) \/ LastSnapshot(s)
    \/ Parse(s) \/ ReadLatestRatedOn(s) \/ StoreSnapshot(s)
    \/ UpsertMany(s) \/ UpsertSnapshots(s) \/ FailSync(s)

Next == EditSheet \/ Tick \/ \E s \in Sync : SyncStep(s)

Spec == Init /\ [][Next]_vars

-----------------------------------------------------------------------------
(* Properties                                                              *)

\* sync-rankings.ts:31-33: no points are dated in the future, whatever the
\* header says, whichever run stores them and however late it gets to it.
NeverInFuture == \A x \in DOMAIN ratings : x[2] <= Today

\* Every stored copy can be parsed again, so that a run that finds the sheet
\* unreachable never aborts on the copy it falls back to.
FallbackParses == \A c \in copies : Parses(c.csv)

\* The newest date is the current one (sync-rankings.ts:30-33): whatever earlier
\* runs did, overlapping, failing half way or importing a stale copy, after a run
\* that overlapped no other every player of its sheet shows that sheet's points.
LoneSyncShows ==
    \A s \in Sync :
        pc[s] = "OK" /\ alone[s] =>
            \A k \in DOMAIN ParsedPoints(fetched[s].csv) :
                IsCurrent(ratings, k, ParsedPoints(fetched[s].csv)[k])

\* Re-running changes nothing on the same day, and no current points on a later
\* one (sync-rankings.ts:27-29): what one more run of the sheet just imported would
\* store, whichever date it chose, is what the tables hold.
RerunChangesNothing ==
    \A s \in Sync :
        pc[s] = "OK" /\ alone[s] =>
            \A d \in {e \in Range(Calendar) : e >= Today} :
                LET sheet == fetched[s].csv
                    date  == chooseRatedOn(HeaderRatedOn(sheet), d, LatestRatedOn(ratings))
                    rerun == UpsertedRatings(ratings, sheet, date)
                    sent  == ParsedPoints(sheet)
                IN  /\ UpsertedPlayers(players, sheet) = players
                    /\ d = day[s] => rerun = ratings
                    /\ \A k \in DOMAIN sent : IsCurrent(rerun, k, sent[k])

\* sync-rankings.ts:82-83: a club on record is left alone by an import.
ClubKept ==
    [][\A k \in DOMAIN players :
          players[k].club => k \in DOMAIN players' /\ players'[k].club]_players

=============================================================================
