---------------------------- MODULE PlayerHistory -----------------------------
(***************************************************************************)
(* A player's page (getPlayer of packages/api over db/src/history and      *)
(* db/src/players): the player, the tournaments he was entered in and his  *)
(* points today, read by three queries while the ranking sheet is imported *)
(* and tournaments are published and replaced.                             *)
(*                                                                         *)
(* An import is two actions, one per transaction; the dates it chooses and *)
(* how it fails are in module Rankings.  A publication and a replacement   *)
(* are those of TournamentList, at their commit, with the pairs they       *)
(* insert: when a name was resolved to the row of its match key does not   *)
(* matter, since the row keeps its id.  Names, clubs, groups and totals of *)
(* ballots are left out; a person is known by his match key.               *)
(***************************************************************************)
EXTENDS TournamentList, SequencesExt

CONSTANTS
  PlayerId,              \* uuids of players, as numbers in the order they are given
  Imports,               \* parsed sheets: [key, externalId, points] per row, keys apart
  Entries,               \* lineups that are published: per pair [keys, points]
  MaxImports             \* bound on the imports

PeopleOfSheets == UNION {{sheet[i].key : i \in DOMAIN sheet} : sheet \in Imports}

\* There are ids for all people there are, and null is none; a lineup has nobody twice.
ASSUME PlayerHistoryConstants ==
  /\ PlayerId \subseteq Nat /\ IsFiniteSet(PlayerId) /\ MaxImports \in Nat
  /\ IsFiniteSet(PeopleOfSheets) /\ Cardinality(PeopleOfSheets) <= Cardinality(PlayerId)
  /\ \A sheet \in Imports : IsFiniteSet(DOMAIN sheet) /\ DOMAIN sheet \subseteq Nat
  /\ Nothing \notin Nat
  /\ \A lineup \in Entries : \A i, j \in DOMAIN lineup, m, n \in {1, 2} :
       lineup[i].keys[m] = lineup[j].keys[n] => i = j /\ m = n

VARIABLES
  people,                \* players: [matchKey, externalId] by id
  latest,                \* the points of each player's newest-dated rating, by id
  imports,               \* the sheets imported so far
  pairRows,              \* the pairs of each tournament: [players, points], a slot for each
  lineups,               \* history: the lineup each tournament was published with
  events,                \* history: the tournament each one stands for in the end
  visit                  \* the request under way, or its answer

archive == <<people, latest, imports, pairRows, lineups, events, visit>>

NoVisit == [step |-> "idle", player |-> Nothing, appearances |-> Nothing, points |-> Nothing,
            status |-> Nothing, standing |-> {}]

HistoryInit ==
  /\ people = [p \in {} |-> Nothing]
  /\ latest = [p \in {} |-> Nothing]
  /\ imports = <<>>
  /\ pairRows = [t \in {} |-> {}]
  /\ lineups = [t \in {} |-> <<>>]
  /\ events = [t \in {} |-> Nothing]
  /\ visit = NoVisit

-------------------------------------------------------------------------------
(***************************************************************************)
(* The import of a sheet.                                                  *)
(***************************************************************************)
HasKey(table, key) == {p \in DOMAIN table : table[p].matchKey = key}

\* on conflict (match_key)
Conflicting_ExternalId(table, row) ==
  {p \in DOMAIN table : table[p].externalId = row.externalId}

Conflicting(table, row) == HasKey(table, row.key)

Upsert(table, row) ==
  LET taken == Conflicting(table, row)
      id    == IF taken = {} THEN Min(PlayerId \ DOMAIN table) ELSE CHOOSE p \in taken : TRUE
  IN  [p \in DOMAIN table \cup {id} |->
         IF p = id THEN [matchKey |-> row.key, externalId |-> row.externalId] ELSE table[p]]

upsertMany ==
  /\ Len(imports) < MaxImports
  /\ \E sheet \in Imports :
       /\ people' = FoldLeft(Upsert, people, sheet)
       /\ imports' = Append(imports, sheet)
  /\ UNCHANGED <<listing, latest, pairRows, lineups, events, visit>>

\* Of the players the import has just upserted.
upsertSnapshots ==
  /\ imports # <<>>
  /\ LET sheet == Last(imports)
         rated == [p \in UNION {HasKey(people, sheet[i].key) : i \in DOMAIN sheet} |->
                     sheet[CHOOSE i \in DOMAIN sheet : sheet[i].key = people[p].matchKey].points]
     IN  latest' = [p \in DOMAIN latest \cup DOMAIN rated |->
                      IF p \in DOMAIN rated THEN rated[p] ELSE latest[p]]
  /\ UNCHANGED <<listing, people, imports, pairRows, lineups, events, visit>>

-------------------------------------------------------------------------------
(***************************************************************************)
(* The publications, with the pairs they insert.                           *)
(***************************************************************************)

\* resolvePlayers: every name is on record, once.
Resolves(lineup) ==
  \A i \in DOMAIN lineup, slot \in {1, 2} :
    Cardinality(HasKey(people, lineup[i].keys[slot])) = 1

InsertedPairs(lineup) ==
  {[players |-> [slot \in {1, 2} |-> CHOOSE p \in HasKey(people, lineup[i].keys[slot]) : TRUE],
    points  |-> lineup[i].points] : i \in DOMAIN lineup}

Insert(lineup, event) ==
  \A t \in DOMAIN catalogue' \ DOMAIN catalogue :
    /\ pairRows' = [x \in DOMAIN catalogue' |-> IF x = t THEN InsertedPairs(lineup) ELSE pairRows[x]]
    /\ lineups' = [x \in DOMAIN catalogue' |-> IF x = t THEN lineup ELSE lineups[x]]
    /\ events' = [x \in DOMAIN catalogue' |->
                    IF x # t THEN events[x] ELSE IF event = Nothing THEN t ELSE event]

publishPairs ==
  /\ PublicationCommits
  /\ \E lineup \in Entries : Resolves(lineup) /\ Insert(lineup, Nothing)
  /\ UNCHANGED <<people, latest, imports, visit>>

replacePairs ==
  /\ ReplacementCommits
  /\ \E lineup \in Entries, t \in DOMAIN catalogue :
       /\ catalogue'[t] # catalogue[t]
       /\ Resolves(lineup) /\ Insert(lineup, events[t])
  /\ UNCHANGED <<people, latest, imports, visit>>

-------------------------------------------------------------------------------
(***************************************************************************)
(* getPlayer.                                                              *)
(***************************************************************************)
Standing == {t \in DOMAIN catalogue : catalogue[t].invalidatedAt = Nothing}

\* players.findById
findById ==
  /\ visit.step = "idle"
  /\ \E p \in DOMAIN people :
       visit' = [visit EXCEPT !.step = "reading", !.player = p, !.standing = Standing]
  /\ UNCHANGED <<listing, people, latest, imports, pairRows, lineups, events>>

\* The slot of a player in a pair, and the other one.
SlotOf(pair, p) == IF pair.players[1] = p THEN 1 ELSE 2

Appearance(t, pair, p) ==
  LET slot == SlotOf(pair, p) IN
  [tournament |-> t, partner |-> pair.players[3 - slot], points |-> pair.points[slot]]

Listable(t) == catalogue[t].publishedAt # Nothing /\ catalogue[t].invalidatedAt = Nothing

AppearancesOf(p) ==
  UNION {{Appearance(t, pair, p) : pair \in {x \in pairRows[t] : p \in {x.players[1], x.players[2]}}} :
           t \in {x \in DOMAIN catalogue : Listable(x)}}

\* order by published_at desc, id desc
NewerThan(S, a) == {b \in S : Precedes(SortKey(a.tournament), SortKey(b.tournament))}

newestFirst(S) == [i \in 1..Cardinality(S) |-> CHOOSE a \in S : Cardinality(NewerThan(S, a)) = i - 1]

\* history.appearancesFor
appearancesFor ==
  /\ visit.step = "reading" /\ visit.appearances = Nothing
  /\ visit' = [visit EXCEPT !.appearances = newestFirst(AppearancesOf(visit.player))]
  /\ UNCHANGED <<listing, people, latest, imports, pairRows, lineups, events>>

\* ratings.latestPointsFor, on another connection
latestPointsFor ==
  /\ visit.step = "reading" /\ visit.points = Nothing
  /\ visit' = [visit EXCEPT !.points =
       IF visit.player \in DOMAIN latest THEN {latest[visit.player]} ELSE {}]
  /\ UNCHANGED <<listing, people, latest, imports, pairRows, lineups, events>>

\* The clock is read last.
answerPlayer ==
  /\ visit.step = "reading" /\ Nothing \notin {visit.appearances, visit.points}
  /\ visit' = [visit EXCEPT !.step = "answered", !.status =
       [i \in DOMAIN visit.appearances |->
          IF today < catalogue[visit.appearances[i].tournament].startsAt THEN "open" ELSE "closed"]]
  /\ UNCHANGED <<listing, people, latest, imports, pairRows, lineups, events>>

HistoryNext ==
  \/ upsertMany \/ upsertSnapshots \/ publishPairs \/ replacePairs
  \/ DayPasses /\ UNCHANGED archive
  \/ findById \/ appearancesFor \/ latestPointsFor \/ answerPlayer

HistorySpec == ListInit /\ HistoryInit /\ [][HistoryNext]_<<listing, archive>>

-------------------------------------------------------------------------------
(***************************************************************************)
(* Properties.                                                             *)
(***************************************************************************)

\* The pair a lineup enters a person in, and his slot, as they were typed.
EnteredAs(lineup, key) ==
  {[points |-> lineup[x[1]].points[x[2]], partner |-> lineup[x[1]].keys[3 - x[2]]] :
     x \in {y \in (DOMAIN lineup) \X {1, 2} : lineup[y[1]].keys[y[2]] = key}}

Listed == {visit.appearances[i].tournament : i \in DOMAIN visit.appearances}

(***************************************************************************)
(* One record per real person, with all of his tournaments and nobody      *)
(* else's (SC-008, FR-025): whatever sheets were imported, and whoever     *)
(* they give whose ranking id to, a page lists tournaments whose lineup    *)
(* names that person, with the partner and the points entered then         *)
(* (FR-007), newest first, and every such tournament that was published    *)
(* before the request and still stands.  None stands for the same event as *)
(* another, also when it is replaced while the page is read (FR-214).      *)
(***************************************************************************)
HistoryIsOnePersons ==
  visit.step = "answered" =>
    LET key  == people[visit.player].matchKey
        rows == visit.appearances
    IN  /\ \A i \in DOMAIN rows :
             [points |-> rows[i].points, partner |-> people[rows[i].partner].matchKey]
               \in EnteredAs(lineups[rows[i].tournament], key)
        /\ \A i, j \in DOMAIN rows :
             i < j => /\ Precedes(SortKey(rows[j].tournament), SortKey(rows[i].tournament))
                      /\ events[rows[i].tournament] # events[rows[j].tournament]
        /\ \A t \in visit.standing \cap Standing :
             EnteredAs(lineups[t], key) # {} => t \in Listed
        /\ \A n \in visit.points : \E i \in DOMAIN imports :
             \E row \in Range(imports[i]) : row.key = key /\ row.points = n
===============================================================================
