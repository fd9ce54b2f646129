# Padel Migas: a verification of the voting core

TLA+ models of the crowd-prediction site in this repository, TLC runs that check
them on small instances, and TLAPS proofs of what matters most for every instance.

An organiser publishes a *lineup*: a tournament of groups, each of three to six pairs
of players. Anonymous voters, known by a signed cookie, order the pairs of a group; a
ballot is final, and the crowd's order stays hidden from a visitor until he has voted
in the group or the tournament has begun. While the window is open the organiser may
*replace* the tournament by a corrected lineup: groups whose pairs did not change keep
their ballots, the others start again, and the original stays as a frozen record.

The program is a Next.js server over Postgres (READ COMMITTED). It keeps no state in
memory but a rate limiter, so everything difficult happens between two awaits of a
handler: other requests run there, time passes, a function may be killed.

## 1. Inventory

Paths leave out `src/`: `core`, `db`, `api` and `ui-logic` are in `packages/`,
`web` in `apps/`. Every component is in `PROJECT.json` with its files and modules.

| Component | State | Operations | What is hard | What makes it correct |
|---|---|---|---|---|
| Voting window `core/window` | none, derived from a row and an instant | `tournamentStatusAt`, `isVotingOpen` | the boundary; who reads the clock and when | closed at the start instant, closed once invalidated |
| Ballot rules `core/ballot` | none | `validateBallot` | five checks that rely on each other | accepted exactly when a complete ordering |
| Casting `api/handlers/cast-ballot`, `db/ballots` | `ballots`, `ballot_entries` | `castBallot`, `insert` | races with a replacement and with the same voter; the second check under the lock | one ballot per voter and group; none lost; an answered ballot is there |
| Replacing `api/handlers/replace-tournament`, `db/tournaments` | `tournaments`, `groups`, `pairs`, copied ballots | `prepare`, `replaceTournament`, `replace` | two replacements at once; ballots arriving during the copy; failure in the middle | indivisible; votes move exactly; the original is frozen; one live tournament |
| Carry-over `core/replacement` | none | `planCarryOver` | re-seeded pairs, groups that grow | kept exactly when the pairs are the same |
| Addresses `core/replacement`, `db/tournaments` | `tournaments.slug` and its unique index | `invalidatedSlug`, `findBySlug`, `findLiveSuccessor` | an address changes hands; truncation | an address names one tournament, and stays with the live end of its lineage |
| Publishing `api/handlers/publish-tournament` | `tournaments` | `publishTournament`, `publish` | two publications of one address, a replacement in between | refused only for a tournament that is there |
| Lineup `api/lineup-input`, `core/lineup`, `core/matching` | none; reads `players` | `deriveFromPayload`, `deriveLineup`, `resolvePlayers` | positions in one list used for another; the group that is left over; namesakes | accepted exactly when sound; each pair keeps its players |
| Scoring `core/scoring`, the views of `0002` | none | `scoreGroup` | ties | the order one would make by hand, whatever the order of the input |
| Reveal `core/reveal`, `get-group-results`, `get-tournament-detail`, `db/results`, `ui-logic/results`, the tournament page | none; reads several tables in several queries | two readers, and the page that displays the second | a replacement or a ballot between two queries; a page that guesses why results are not there | nobody reads an open group he has not voted in; final results are exact; "nobody voted" is said of no group with a ballot |
| Rankings `sync-rankings`, `db/players`, `db/rankings`, `core/rankings` | `players`, `player_ratings`, `ranking_snapshots` | `syncRankings` | two syncs at once; failure between transactions; a header that dates itself wrongly | the newest date is the newest data; re-running changes nothing |
| Voter identity `web/server/voter-cookie`, the ballot route, `BallotForm` | `voters`, the cookie, the state of each form | `submit`, `recogniseVoter`, `requireVoter` | an answer that is lost; two first requests; a cookie without its row | one device, one voter |
| Ballot form `ui-logic/ballot` | the draft of an ordering | `assign`, `clear`, `fillRemaining`, `reset` | swaps and displacements in any order | what is sent is what the server accepts |
| Rate limit `web/server/rate-limit` | a map in memory | `consume`, its sweep, `enforce` | the edge of the window; the sweep | who is refused had the whole limit |
| Lists `list-tournaments`, `db/tournament-list` | none | pages by a cursor | tournaments published, replaced and closed between pages; equal instants | no tournament twice, none skipped |
| Player history `get-player`, `db/history`, `db/players` | none; reads `players`, `pairs`, `player_ratings` | the page of a player | an import, a publication or a replacement between its queries; a ranking id that passes to somebody else | one record per person, with all of his tournaments and nobody else's |
| Admin page `web/app/admin`, `ui-logic/lineup-draft` | payload, draft, preview, requests in flight | preview, publish, replace, upload, edits of cells | late answers; keys typed meanwhile | what is published is what was previewed; the draft and the payload are one thing |
| Image extraction `extract-lineup`, `core/lineup-extraction` | none | `normalizeExtraction` | what cannot be read; an order that has to be the one grouped by | unknown stays unknown; reviewed in the order published |
| Page reads `web/server/page-data` | none | pages call the handlers in process | pages are rendered for each request | the handlers are modelled, the calls are not |
| Admin sessions `web/server/admin-auth` | none: a signed cookie | sign in, sign out | cryptography | not modelled |
| Contracts, client, wiring, schema tooling, scripts | none of their own | | generated code, shapes of data | not modelled |

Components meet in the database. Casting and replacing share the tournament's row and
its locks; replacing and publishing share the addresses; readers see both through
snapshots of single statements. The route of a ballot runs the rate limit, then the
recognition or minting of the voter, then `castBallot`. Rankings feed the players and
points that `deriveLineup` matches a paste against. There is no message queue and no
callback from one component into another.

The hazards of this code, each at its line and with the properties that stand for it,
are listed in `PROJECT.json`. Two have none, because the code does nothing about them and
the model shows them happen: a confirmation that names an address which another
replacement has taken over since (`replace-tournament.ts:45`), and a form that stays open
on the page when its window closes (`BallotForm.tsx:62`).

## 2. Modules

| Module | Models |
|---|---|
| `Window` | the status of a tournament at an instant |
| `CarryOver` | which groups keep their votes and where each entry of a ballot goes; what a complete ballot is |
| `VoteLedger` | abstract specification: a ledger in which a vote and a replacement are one step each, with no clock, request or lock |
| `Lineage` | the tables as their readers see them: a vote and a replacement are one step each, allowed by the window at an instant that had come |
| `BallotBox` | the core: requests to vote against requests to replace, await by await, with the row locks, the clock and failures |
| `AddressBook` | abstract specification: a book in which an address names one tournament for ever, and stays with the live end of its lineage |
| `Addresses` | publications and replacements that compete for slugs: the check before the insert, the unique index, `invalidatedSlug`, the preview and the confirmation |
| `RankingSheet`, `Rankings` | the sheet and what is parsed of it; syncs that overlap, fail and fall back to a stored copy |
| `Places` | the places of a list and what a filter picks from it |
| `Scoring` | the two views and `scoreGroup` |
| `Reveal` | the two readers of results, query by query, against votes and replacements, and the states of the page |
| `Devices` | forms, posts, cookies and voters: who a device is when it votes |
| `LineupDraft` | a lineup read off an image, its draft, and the payload it becomes, as values |
| `AdminPage` | the organiser's page: typing, a draft, preview and publication, with every request in two steps |
| `LineupReview` | the order the organiser reviews against the order of the groups: `AdminPage` and `Lineup` together |
| `TournamentList` | a walk through the pages of the public list, against publications, replacements and the clock |
| `PlayerHistory` | a player's page, query by query, against imports, publications and replacements; extends `TournamentList` |
| `Poll`, `BallotDraft`, `Lineup`, `RateLimit` | parts that run by themselves: a group collecting ballots, a ballot being drafted, a lineup being pasted, attempts being counted |
| `BallotBoxInv`, `AddressesInv` | the inductive invariants that are also checked by TLC, in named parts |
| `BallotBoxProofs`, `AddressesProofs` | lemmas and theorems on `BallotBox`, with those on `CarryOver`, and on `Addresses` |
| `LineupProofs` | lemmas and theorems on `Lineup`, `AdminPage` and `LineupReview` |
| `RevealProofs`, `DevicesProofs`, `RankingsProofs` | the same for `Reveal`, `Devices` and `Rankings`, each with its inductive invariant |
| `ScoringProofs` | lemmas on sums over finite sets, on counting, and on `scoreGroup` |
| `RulesProofs` | theorems on `Poll`, `RateLimit`, `BallotDraft`, `TournamentList` and `PlayerHistory`, with their inductive invariants |
| `MCBallotBox`, `MCAddresses`, `MCRankings`, `MCReveal`, `MCDevices`, `MCRules` | instances for TLC; `MCRules` runs the parts that stand alone, one per behaviour |

`BallotBox` extends `Window` and `CarryOver` and instantiates `VoteLedger` and `Lineage`,
each under a refinement mapping; `BallotBoxInv` extends it, and the proofs and `MCBallotBox` extend
that. `Addresses` models the same two handlers from another side, extends `Window` and
instantiates `AddressBook`: the two meet in the `tournaments` table, and each leaves out
the columns the other is about. `Reveal` extends `Lineage` and `Scoring`: its
readers read the world that `BallotBox` is proved to implement (`LineageRefined`), with
votes and replacements as single steps. `LineupReview` extends `AdminPage` and `Lineup`, and
`MCRules` and `LineupProofs` extend it. `Devices` takes casting a ballot from `BallotBox` in three steps and adds what is around
it.

### `BallotBox`

*Tables.* `tournaments` maps the id of a committed row to its lineup (its groups and
pairs never change after the insert), start, publication, invalidation and replacement
link; a group is named by its tournament and its label, a pair's row by its group and
seed. `ballots` holds a ballot with its entries as the sequence of positions by seed,
and whether `carried_from_id` is set. Only commits change them: what an open
transaction has written is in the locals of its request, since nobody else can read it.

*Requests.* Each member of `Request` serves one `castBallot`, each of `Organiser` one
`replaceTournament`. `pc` says which await is next, or the answer that was given:

    castBallot         LoadGroup - CheckBallot - LockTournament - InsertBallot
                       - CommitBallot - CountBallots
    replaceTournament  LoadOriginal - Prepare - LockOriginal - InsertPublication
                       - CopyGroup* - CommitReplacement - ReadReplacement

`FailCast` and `FailReplacement` end a request between any two of its steps: a
query that fails, a lost connection, a killed function. The open transaction rolls
back; what was committed stays and only the answer is lost.

*The clock.* `CheckBallot` and `Prepare` read it, once, as the handlers do. The
re-check under the lock, `StillOpen`, reads the row as it is then and the instant as it
was (`ballots.ts:83`, `tournaments.ts:185`).

*Locks.* `Sharing(t)` and `Holding(t)` are read off the program counters: `FOR SHARE`
from the lock to the end of the insert, `FOR UPDATE` from the lock to the end of the
replacement. A request that waits for a lock is one whose step is not enabled. The
unique constraint on group and voter waits for an uncommitted rival (`Rivals`) and is a
duplicate after a committed one (`HasBallot`).

*Left out.* Addresses, so an organiser chooses the row to replace, any published one; the
voter's row and cookie; which of its rules a rejected ballot or lineup breaks; the
`UNAUTHORISED` answer of `castBallot`, which only a wiring fault gives. The counts read
for an answer are reduced to whether there are any. Tournaments published apart share
no row with the lineage modelled, so there is one lineage.

### `Addresses`

*Slugs.* A slug is a sequence of symbols: letters, hyphens, the text `-invalidado-` as
one symbol, and a number as one. `MaxSlug` symbols stand for the 120 characters of
`MAX_SLUG_LENGTH`. `invalidatedSlug` is the code's: the numbers taken are looked
up under the whole base, the new slug is built on the base cut to the room that is left.

*Rows.* `rows` maps the id of a committed tournament to its slug, start, publication,
invalidation and replacement link. `born`, a history variable, is the slug it was
inserted with. A new row takes any id nobody has.

*Requests.* Each member of `Publisher` serves one `publishTournament`; each of
`Organiser` previews one replacement and then confirms it, as the admin page does, or
gives up:

    publishTournament   Derive - CheckSlug - InsertTournament - CommitPublication
                        - ReadPublication
    previewReplacement  Preview
    replaceTournament   Confirm - Prepare - LockOriginal - NumberOriginal
                        - RenameOriginal - InsertReplacement - CommitReplacement
                        - ReadReplacement

`Preview` is one step: it writes nothing, and `Confirm` reads everything again.

*The unique index.* A transaction holds the keys it has written (`Written`), and gives
up that of a row it has renamed (`GivenUp`); whoever needs such a key waits for the end
of the transaction (`MustWait`), then finds it in use or free (`InUse`). A publisher turns
the violation into `SLUG_TAKEN`; in `replace` nothing catches it, so it is an answer of
its own, `COLLISION`.

### `RankingSheet` and `Rankings`

A sheet is what is left of the CSV once its lines are split: the columns its header
names, the cell above column C as its three numbers, and a row of ID, Nome and C for
each line. Dates are numbers `YYYYMMDD`, which compare as the strings of the code do.
`ParseOutcome` has every test of `parseRankingCsv` in its order, the tolerance of one bad
cell in ten included; `chooseRatedOn` is the code's.

A run of `syncRankings` is one action per await:

    FetchLatest | FetchThrows - LastSnapshot | Parse - ReadLatestRatedOn
    - StoreSnapshot - UpsertMany - UpsertSnapshots

The last three are transactions of their own. `FailSync` stops a run between any two of
them and leaves what is committed; a value too large for an integer column rolls the
statement under way back and fails the run. Runs are not kept apart: the weekly timer,
the command line and the organiser's button start the same function. The sheet is
edited (`EditSheet`) and days pass (`Tick`) between any two awaits. `alone` is a history
variable: no other run has been under way since this one began.
*Left out*: the splitting of lines and quoting, and how a name is normalised (`MatchKey`
is any function).

### `Scoring`, `Poll` and `Reveal`

`Scoring` computes on integers, since all ratios in a group have one denominator, and
has the sort as the place each pair takes under `before`. `Poll` casts ballots one by
one and looks at the results after each, in every order in which the pairs may be
loaded: the query has none, and every caller is to see the same ranking.

`Reveal` has one request, for it writes nothing and so stands for any number, and the
world around it, which is `Lineage`. `Vote`, `Replace` and `Tick` are its `CommitVote`,
`CommitReplacement` and `PassTime`, with what they mean for the history variables. A commit
is judged at an instant up to `Lag` earlier, as the re-check under the lock allows;
`CommitReplacement` chooses which groups keep their ballots.

`BallotBox` maps to `Lineage` by what a reader selects: rows without their lineup (`SeenRows`),
and each ballot by group and voter as the position of every pair by its id (`SeenBallots`).

    getGroupResults      LoadGroup - FindOwn - FollowGroup - JudgeGroup
                         - CountBallots, CountPositions - AnswerGroup
    getTournamentDetail  LoadTournament - ReadClock - FollowTournament - FindVoted
                         - CountBallots, CountPositions - AnswerTournament

The two counts are queries on two connections and come in either order. `earned` is a
history variable: the groups whose results the rule of the specification allowed the
caller at *some* instant of the request, which is the most a reader without a snapshot
can promise. `atStart` is another: what was so when the request came.

`findLiveSuccessor` is the recursive query, as a function over the steps along the chain
of links, and its last join, which takes the end of the chain only if it is not
invalidated. `GroupState` is what the page makes of the answer: it never asks the gate
again, but tells a group apart by the results that are there or not, the caller's vote
and the notice of a replaced tournament.

### `Devices`

A page (a tab) has a form per group and each posts on its own. A post carries the cookie
the browser has when it is sent; `Deliver` gives the browser the cookie of the answer and
asks for a refresh, as the form does on success. On the server

    Enforce | Recognise - Mint - CheckWindow - Insert - Count

are the rate limit, `recogniseVoter`, `requireVoter` and the three stages of
`castBallot`; `FailPost` is an error at any of them, whose answer carries no cookie.
`Lose` is a connection lost with the server possibly carrying on. `jar` starts with a
signed cookie whose row is gone (`Forgotten`) or with none. `split` is a history
variable: browsers that had an unrecognised post under way when they sent another, or
lost its answer. *Left out*: the signature of the cookie (a browser presents only ids
it was given), `last_seen_at`.

### `BallotDraft`, `Lineup` and `RateLimit`

`BallotDraft` is the reducer of the form; what it would send, `toSubmission`, is held
against the rule of the server, stated on its own. `Lineup` is `deriveFromPayload`: the rows
of `players` with one of the paste's match keys are read (`findByMatchKeys`), and
`deriveLineup` runs over them and `resolvePlayers`, with every issue it collects and the
entry it is reported at. The organiser's paste grows by one pair at a time out of `Offers`;
its name and slug, how its start reads and the table of players are chosen at the beginning.
The rejections that are fatal on their own, an unreadable start, a name without an address
and pairs of which only some have a label, are `Malformed`; `slugify` is a table of the names
there are (`Slugify`), of which what matters is whether anything is left. `players.match_key`
is unique (`0001_initial_schema.sql:22`), so the two rows of one name against which
`resolvePlayers` defends are an input of the function rather than a state of the tables: one
of the two `Rankings` of the run has them. What the code filters from a
list in its order is `pick` of `Places`, and its stable sort gives each pair the place that counts the
pairs stronger than it.

`RateLimit` is `consume` with its window, its sweep (above `SweepAbove` buckets, ten thousand
in the code); `granted`, a history variable, is the attempts that passed, each with its
instant and a number of its own. `decision` is what is left of one once `enforce` has thrown
it: whether the attempt was refused. The wait that `consume` works out reaches nobody
(section 3).

### `LineupDraft` and `AdminPage`

`page` is the state of the React component: the payload as what was typed, a text that
does not parse (`Garbled`), or what a draft was serialised to; the draft; the preview on
display; `busy`; the mode and target; what else is on its way. A preview is kept as what
it was made of, the payload, mode and target of its request, since that is what the
organiser sees. Every request is an action that sends it and one that takes its answer:

    SignIn, RunPreview, Publish, SyncRankings      disable the controls until answered
    ChooseImage - ImageAnswered                    disables itself only
    ChooseMode - OpenTournamentsAnswered           disables nothing

`EditPayload` is enabled throughout, as the text area is. `late` and `typed` are history
variables: a key was typed during the last preview; the payload was typed over the draft.
What the handlers do with a payload is in `Addresses` and `Lineup`: here a preview, a
publication and a replacement succeed or fail. `Readable` is the reader and its checks:
a transcription of the right shape, or one failure for everything else.

`LineupDraft` has the draft's rows with their cells and positions in the image, both
normalisations, the stable sort, and the conversion of Lisbon's clock to an instant in
its two passes; half hours stand for minutes. Flags are a function of the cells and are
left out with the colours they give.

### `TournamentList`

One walk from the first page to the last; `listPublished` is one statement, with the row
over the limit that tells of another page. Tournaments commit with an instant up to
`Delay` old and a random id, so they may appear on either side of the cursor. `steady`
is a history variable: what each page so far could have listed. *Left out*: counts and
the replacement shown with an entry, which do not decide what is listed.

### `PlayerHistory`

    getPlayer   findById - appearancesFor, latestPointsFor - answerPlayer

The two queries in the middle run on two connections and come in either order.
`upsertMany` and `upsertSnapshots` are the two transactions of an import, whose dates
and failures are in `Rankings`; `publishPairs` and `replacePairs` are the commits of
`TournamentList` with the pairs they insert. A person is a match key: the row of a player
is found by it and keeps its id, whatever ranking id a sheet gives him. `lineups` and
`events` are history variables: the lineup as it was typed, and the tournament that each
replacement stands for. *Left out*: names, clubs, groups and counts of ballots.

## 3. Runs

| Run | Instance | What it shows |
|---|---|---|
| `ballotbox_race` | 2 ballots of 2 voters, 2 replacements, 3 tournaments of one group of three, 2 lineups (as published and re-seeded), a valid and an invalid submission, 2 instants | the inductive invariant `IInv`, of which `OneBallotPerVoter` is a part; `NoLostBallot`, `NothingInvented`, `ReceiptHonoured`, `OneLiveEnd`; every step is a step of the ledger or none (`ImplementsLedger`), and to readers a step of the lineage or none (`ImplementsLineage`) |
| `ballotbox_groups` | 2 ballots of one voter, 1 replacement, 2 lineups of two groups: one grown around the pairs it had, one re-seeded | `WholeBallots`, `ReplacementIsExact`; under `FairSpec`, `EventuallyAnswered` |
| `addresses_race` | 2 publications, 2 replacements, 4 ids; a short slug, one that ends in the infix and a number, one that is cut at a hyphen, two that are cut to the same base | the inductive invariant; `OneTournamentPerAddress`, `AddressFollowsLineage`, `RefusedForATournament`; `NoStandstill`: row locks and index keys make no cycle of waits; the address book is implemented |
| `rankings_race` | 3 syncs, 8 sheets of two people (month first, no such day, a day ahead, two spellings of one name, an id or points too large), one edit, 2 days | `NeverInFuture`, `FallbackParses`, `LoneSyncShows`, `RerunChangesNothing` |
| `reveal_chain` | 1 voter and a caller without a cookie, 3 tournaments of two groups, 3 instants, writes that take up to one | `NothingLeaks`, `VoterIsShown`, `FinalResultsAreExact`, `PageTellsWhy` |
| `devices_fair` | 2 browsers, 2 groups, 2 posts, 2 ids and a forgotten one | `DeviceIsOneVoter`, `VoterIsOneDevice`; under `FairSpec`, `RecordedIsShown` |
| `rules` | a poll of 3 voters on three pairs, two of them equal, loaded in every order; a draft of 4 pairs; pastes of up to 5 pairs out of 13 kinds, for groups of 2 or 3, with a name that gives an address and one that gives none, and a table with or without two people of one name; 2 clients, a limit of 2 in a window of 4 instants, 7 instants; a page with 4 replies of the reader (a failure, two rows in the wrong order, a negative number, a fraction), 2 open tournaments, a start the clocks skip; a list of 3 tournaments on 3 days; the page of a player with 2 imports, of which the second gives a ranking id to another person, 3 tournaments of 2 lineups and 3 players | `AsCountedByHand`, `BallotsCountForTheirChoice`; `SubmitsWhatIsAccepted`; `AcceptedIffSound`, `PairsKeepTheirPlayers`, `GroupedByStrength`; `LessThanTwice`, `RefusedAtLimitOnly`; `ConfirmedWasPreviewed`, `DraftIsPayload`, `ReviewedOrderIsGrouped`; `WalkIsExact`; `HistoryIsOnePersons` |
| `addresses_collide` | 1 publication replaced twice, a slug as long as it may be | `NeverCollides`: violated |
| `rankings_club` | 1 sync, a player whose club is on record | `ClubKept`: violated |
| `reveal_leak` | 1 voter, 2 tournaments of one group | `HiddenUntilSuccessorCloses`: violated |
| `devices_overwritten` | 1 browser, 2 groups, 2 posts | `OwnBallotsShown`: violated |
| `admin_unpreviewed` | the page of `rules`, publishing | `NothingUnpreviewed`: violated |

`PROJECT.json` has a mutant for each property of a passing run: a definition of the
model changed the way a bug in that code would, under which the run finds the property
violated. The mutated forms stand before the definitions they replace.

### Bounds, and why they are enough

*Bounds by name*: `Horizon` (clock) in four modules, `Calendar` in `Rankings`; the sizes
of `Request`, `Organiser`, `Publisher`, `Sync` and `Post`, each member of which is served
once; of `Tournament`; `MaxSlug` and `MaxDepth` in `Addresses`; `MaxEdits` and `MaxInt` in
`Rankings`; `Lag` in `Lineage`; `MaxPairs` in `Lineup`; `MaxPerInstant` in `RateLimit`;
`MaxRows` (rows ever in a draft) and `MaxLoads` (lists of tournaments on their way) in
`AdminPage`; `LastDay` and `Delay` in `TournamentList`; `MaxImports` in `PlayerHistory`.

`BallotBox` implements `Lineage` with `Lag <- Horizon`: nothing bounds how long a request
waits between the clock and the commit. `RevealProofs` holds for every `Lag`; `reveal_chain`
runs with 1 in a clock of 3 instants. `ImplementsLineage` says of a step without effect that
the tables themselves stay, rather than what is seen of them, which TLC decides without
working out the mapping; `LineageRefined` is the usual form.

The largest run is `reveal_chain` (1,056,308 distinct states); `rules` (358,632) has
eight parts, of which a behaviour runs one.

Locks are on one tournament's row, so two requests of each kind contain every conflict:
two voters, a voter and an organiser, two organisers. Three tournaments let a
replacement be replaced in turn, and a carried ballot be carried again. A clock of two
instants lets every request be overtaken by the start. The rules of carrying over need
different lineups rather than more requests, which is what `ballotbox_groups` has. For
addresses, two publications and two replacements make every pair of rivals for a key, and
a chain of `MaxDepth` (100 in the code) is never exceeded; slugs are of the kinds the
algorithm tells apart: short, at the limit, and ending in the infix and a number as if
they had been renamed.

Of syncs, two overlap and the third runs alone after them and repairs; the sheets are of
the kinds the parser and the choice of a date tell apart. A chain of three tournaments
tells a live successor from the next one. Two browsers suffice for an identity handed on,
two groups for two first posts at once. With groups of two or three (three to six in the
code) four pairs are the fewest at which the grouping cuts and leaves a group that is too
small, and five the fewest at which the group left over is accepted. Six instants after the first are the
stretch in which a window of four opens, ends, and is followed by another.

The organiser's page is two subjects of `rules`, since the draft and the choice of a
target hardly meet: one stays in the mode of a new tournament and edits the draft in
every way (`PublishOnly`), the other changes mode and target but takes drafts as they
are read (`DraftAsRead`). Two rows are the fewest that a sort and a removal can confuse;
one list of tournaments on its way can already answer after the mode it was asked for.
Three tournaments on pages of one and two give a page that is full, one that is followed
by another, and equal instants on both sides of a cursor. The page of a player is read
under `OnePage`: one request, ids of tournaments in order, all of them open until the
last day and the last published while the page is read, and the two sheets in their
order. Its second lineup has the first person of the first one in no pair and his partner
in the other slot, so that slots, partners and persons can each be mistaken. A paste that
is late or unreadable, that has another name than the usual one, or that is matched against
a table with two people of one name, is one of these at a time and two pairs short of the
longest; the longest, of five pairs, has no labels and no pair twice (`OneThing`).

Requests, organisers, voters, clients, tournaments, syncs, labels and posts are interchangeable
where nothing orders them, and runs of invariants and action properties use that
symmetry. Runs with a liveness property use none. `CHECK_DEADLOCK FALSE` stands in the
runs whose actors all end: syncs, a reader, posts, and the parts of `rules`. In
`BallotBox` and `Addresses` the end of every request is an explicit step, `Rest`, so
that a real deadlock is found.

### Fairness

`BallotBox`: weak fairness of the steps of a request under way. A handler, once it runs,
waits for the database and for no client. Nothing is assumed of requests arriving, of
failures or of the clock. Waiting for a lock needs no more than weak fairness here: the
holders of a row are finitely many requests, none takes a second row's lock, and the one
who waits is enabled for good once they are gone. (With an endless stream of voters
sharing a row Postgres queues the organiser in order; the model has finitely many
requests and says nothing about that.)

In `Addresses` a request may wait for a key while it holds others. No fairness is stated:
`NoStandstill` is the safety property behind termination, that some request under way
can always take its next step, and `addresses_race` has slugs chosen so that each
replacement needs a key another writes.

`Devices`: weak fairness of the route of each post, of the delivery of an answer that is
awaited, and of a refresh that was asked for. A browser takes in what arrives and the
router runs what `router.refresh` asked; losing a connection, reloading, voting and
failing are never forced, so an answer may still be lost for ever.

The other modules have safety properties only.

### What the violations show

`addresses_collide`: for a slug too long to take the infix and a number whole, the
rename cuts the base but numbers under the uncut one, so it never sees the slugs it made
itself, and the second replacement at that address violates the unique index. The
transaction rolls back and the organiser gets a 500, every time. Two long slugs that are
cut to the same base collide likewise.

`rankings_club`: the import has no clubs and writes `null` over those on record, although
its comment says that the repository leaves them alone.

`reveal_leak`: both readers judge the gate by the row they read first. A replacement that
commits before the counts are read makes them answer with the results of a tournament
that is invalidated by then and whose successor is open: to a caller who has voted in
the original and not in the group that took its place. The window is a few queries
long. `NothingLeaks` shows, and `NobodyPeeks` proves, that it takes a replacement:
nothing leaks to a request that none overtakes.

`devices_overwritten`: a page has a form per group. Two first posts of a browser at once
carry no cookie, each mints a voter, and the cookie that arrives last replaces the
other: the ballot under the other is no longer the visitor's. `DeviceIsOneVoter` shows
that the identity holds for every browser that neither does this nor loses the answer to
its first vote, and `OneVoteADevice` proves it for any number of them.

`admin_unpreviewed`: the text area is the one control that is not disabled while a
preview is on its way. A key typed then retracts a preview that is not there yet; the
answer displays one of the old text, the publish button appears, and it sends the new
text, which nobody has previewed. The server derives and checks it all the same.
`ConfirmedWasPreviewed` shows that this is the only way, and `PublishedAsPreviewed`
proves it: without a key typed during the last preview, what is sent is what is
displayed.

### Disagreements met while modelling

These follow from the code as modelled; none has a run of its own.

- *The re-check under the lock* (`core/ports/index.ts:199-200, 264-265`) is said to catch
  a window that shut in the meantime. It compares the start with the instant read
  *before* the lock was asked for, so it catches a replacement and never the passing of
  time: a ballot or a replacement that waits across the start still goes through. The
  proofs show that nothing else depends on it; `Lineage` has the delay as `Lag`.
- *A stale confirmation* (specs/003, US1 scenario 5, `spec.md:54-55`) is to be refused,
  but it goes by address, and the address has moved on: it replaces the successor, which
  that organiser was never shown.
- *Overlapping syncs* (`sync-rankings.ts:30-33`): the newest stored date is read before the
  first write, so two syncs at once can store points under a date older than one on
  record. `LoneSyncShows` says that the next undisturbed run repairs it.
- *The last good copy* (`db/rankings.ts:11-13`): a sheet with a number that no integer
  column takes is kept as the newest copy although its import fails, and serves an
  unreachable sheet from then on. `FallbackParses` is what does hold.
- *Torn counts* (specs/001, SC-004, `spec.md:326`): total and positions are read by two
  queries, so a ballot between them makes shares that do not add up. `FinalResultsAreExact`
  says that they do once nothing more can be cast.
- *A refused first vote* (`voter-cookie.ts:128-129`) leaves the row of a voter without a
  cookie: the answer of an error carries none.
- *Closed while the form is open* (specs/001, `spec.md:152-153`): results are to be shown,
  but a refusal refreshes nothing.
- *The rate limit* (`rate-limit.ts:8`): the window is fixed, so almost twice the limit
  passes around its end (`LessThanTwice` is the bound), and the sweep (`:83-84`) is never
  reached by clients who come once.
- *No `Retry-After`* (`rate-limit.ts:63, 100`): `consume` works out after how many seconds a
  refused client may come again, and the comment of `enforce` promises "429 with a
  `Retry-After`". `enforce` throws the code and drops the decision (`:101-105`), and
  `toErrorResponse` (`adapter.ts:74-77`) adds no header to any error, so that no refusal says
  when it is over. `RefusedAtLimitOnly` is about who is refused; nothing is claimed of the
  wait.
- *The year of a header* (`core/rankings/parse.ts:82-88`): one below 1000 is written with
  fewer than four digits, so that it no longer compares as a date, and the months of 0 to 99
  have the lengths of those of 1900 to 1999. `RankingSheet` is about years from 1000 on.
- *Repeated players* (`core/lineup/index.ts:187, 225`): after a name that did not resolve,
  a repetition is reported at an earlier entry than the one it is in. That the paste is
  rejected is not affected (`AcceptedIffSound`).
- *A total that is not the sum* (`ui-logic/lineup-draft.ts:169-171`,
  `lineup-draft-table.tsx:20-22`) is called a warning that never blocks, since the sheet's
  own total is authoritative. `deriveLineup` rejects it (`core/lineup/index.ts:177-185`), so
  the preview of such a draft always fails.
- *A draft that is typed over* stays on display although the payload is no longer its own
  (`page.tsx:94-99`); the next edit of a cell overwrites what was typed. `DraftIsPayload`
  is stated of payloads that were not.
- *History and front page* (`web/app/(public)/historico/page.tsx:21`) read the first page of
  the list and ignore its cursor: the twenty-first tournament is not shown.
  `WalkIsExact` is about callers who follow it.

## 4. Proofs

Every assumption on a constant is named in the module that declares it and evaluated by the
runs. `None` (and whatever stands for no voter or no sheet) is none of the values it stands
beside; the two kinds of request are different; a slug has room for the infix, a number and
something before them; a lineup's groups are sequences of different pairs, which is what
`deriveLineup` accepts (no player twice) and the tables keep. The group of `Reveal` and
`Poll` is a sequence of pairs with different ids, and an ordering gives each a position of
the group, which is what the tables and `validateBallot` keep. The voters of both are
finitely many, so that they can be counted, and `Devices` has a tab and a group. In
`Lineage` the bounds on the clock and on a delay are numbers. In `TournamentList` ids are
numbers, a page holds at least one row and no cursor is nothing; in `LineupDraft` and
`AdminPage` an hour and the changes of the clocks are numbers, and so is a start that is
known. The calendar of `Rankings` is a sequence of dates that never goes back, and what a
sheet has above column C is nothing or three naturals (`SheetsAssumption`), which is what a
pattern of digits matches. In `PlayerHistory` there are at least as many ids as people in
all the sheets, which is what uuids are for; null is no number; a sheet's rows are numbered
and finitely many; and a lineup has nobody twice, as above. In `Lineup` the total of a pair
is a natural number, which is what the payload's schema says, a group has at least one pair,
and the players are finitely many; no player has a blank match key, which the table checks,
and a slug that is given is not empty, which the schema checks (`NotBlank`). `LineupReview`
has one null in both its parts, which is no number (`OneNull`); the reader's replies have
their rows numbered from 1 (`RepliesAreRows`); and an edit is of one of the table's four
columns (`EditsAreOfCells`). The numbers of tournaments, labels, voters, requests,
organisers, browsers, posts, syncs, sheets, drafts and payloads and every bound on a clock
are arbitrary.

*The inductive invariant* `IInv` of `BallotBox` is needed since none of the properties is
inductive: that no ballot is lost depends on what a transaction that is still open has
copied. Its parts:

- `CastKnows`: what the locals of a ballot's request still say about the tables at each
  await. From the lock on the tournament is not replaced; an inserted ballot has no
  committed rival; a committed one is in the table.
- `SwapKnows`: the plan made before the lock is still that of the tables, since lineups
  never change; the copies made so far are *exactly* those of the ballots now in the
  groups done, which holds because no ballot can enter them.
- `LocksExclude`: who cannot be past a lock at the same time, and that two
  inserted ballots are never of one voter in one group.
- `TablesKeep`: what holds between commits. Ballots are complete, and each ballot of a
  kept group of a replaced tournament has its copy in the replacement.

`BallotBoxProofs` has one lemma per action and ends in `Invariance`. From it
`BallotBoxProofs` proves `OneBallotPerVoter`, `NoLostBallot`, `NothingInvented`,
`WholeBallots`, `ReceiptHonoured`, that `castBallot` never finds its results empty
(`ResultsNeverEmpty`), that the record of a replaced tournament is frozen
(`RecordsFrozen`), and `LedgerImplemented`: initial states map to initial
states, `CommitBallot` is a `Cast`, `CommitReplacement` is a `Replace`, and every other
step stutters. `NothingInvented` and `OneLiveEnd` have invariants of their own on top:
`CarriedHaveSource`, and `LineageEnds`, which says that one tournament is live and that no
set of replaced ones is closed under the links. A replacement is always a new row, so no
circle ever forms, and no induction along the chain is needed.
`ReplacementIsExact` is about numbers of ballots: `VotesCarriedExactly` shows that at the
commit the map from a group's ballots to their copies is a bijection, each voter having
one in either place, and that a group which is not kept has none.

`LineageImplemented` and `LineageRefined` are that what readers see of these tables is
`Lineage`: `CommitBallot` is its `CommitVote`, `CommitReplacement` its `CommitReplacement` with
the groups of the plan as those kept, `Tick` its `PassTime`, and no other step is seen. Two
things are needed beyond `IInv`:

- `Timely`: the instant a write is judged at has come, and was before the start of its
  tournament once the lock is held. The row is read again under the lock and the instant is
  not, so that this rests on `StartsStay`: no commit changes the start of a row.
- `CarriedReadsTheSame`: a copy gives every pair the position it had. The copy is ordered by
  the seeds of the replacement and its source by those of the original; by the ids of the
  pairs they read alike, which is why `Lineage` copies ballots as they are.

The theorems of `RevealProofs` are for any `Lag` and any ballots on one list of pairs: that
`Reveal` has the same list, by seed, for every group is the abstraction that remains between
the two.

`BallotBoxProofs` begins with facts about the algorithms, among them the claim of a comment
in `planCarryOver`, that equal sizes and every key found mean equal sets.

*Addresses* have an invariant of their own, in `AddressesInv`: what the unique index
guarantees of *committed* rows is inductive only together with the keys that open
transactions have written.

- `PublisherKnows`, `OrganiserKnows`: from the lock to the commit the original is live and
  has the address read under the lock; a new id is still nobody's.
- `KeysExclude`: the keys written by different transactions are different, and no committed
  row has one, except the row being replaced.
- `TablesKeep`: addresses are different, each link of a lineage hands its address on, and
  the rows are finitely many, so that a highest number exists.

`AddressesProofs` first shows what `invalidatedSlug` returns (a slug, and one that nobody
has if the base is not cut: the boundary that `addresses_collide` steps over), then has
one lemma per action, `Invariance`, and from it `AddressesDiffer`, `LinksHandOn`,
`RefusalsJustified` and `BookImplemented`, in which the commit of a publication is a
`Publish`, that of a replacement a `Replace`, and every other step stutters.

Two more take an argument of their own. `WaitsEnd` (`NoStandstill`): a request that waits
for a key waits for one that is past its lock, one that waits for a lock waits for one that
holds it and hence is past it, and of those past it there is one whose keys are all free.
`AddressesHandedOn` (`AddressFollowsLineage`): the steps along a chain of links lead away
from a tournament and never back to a row met before, so that the recursive query arrives
at the live end. It says so while no more than `MaxDepth + 1` tournaments are published,
since the query follows no more links than that (100 in the code).

*Scoring* (`ScoringProofs`, no state). A sum over a finite set is a fold, which no backend
unfolds beyond its first step, and the induction theorems of the library take operators.
What they would give is derived from the smallest counterexample instead: a property that
some finite set lacks is lacked by one all of whose smaller subsets have it
(`SmallestSet`). It yields that a sum exists, grows by one element at a time, and counts the
same by rows as by columns (`CountedEitherWay`), hence that `score` is the sum of the positions
on the ballots (`ScoreIsCount`) and the rows of the view sum to the votes (`VotesCounted`).
`BeforeIsOrder` shows the comparator of `scoreGroup` to be a total order, so that the standings
are one sequence whatever order the pairs arrive in (`SortSorts`, `ResultsInOrder`): the last
tie-break, by id, is what this depends on.

*Poll* (`RulesProofs`). From these, `CountedByHand` (`AsCountedByHand`) and `ChoiceCounts`
(`BallotsCountForTheirChoice`): one ballot moves the sum of a pair by its position, so two
pairs cannot change places against the ballot, whichever tie-break separated them.

*Reveal* (`RevealProofs`). What was read is seldom still so when it is used, so `IInv`
says what survives:

- `RequestKnows`: without a replacement in between, the row that was read is the row there
  is and the live successor is the live end; a vote or an invalidation that was read is
  there for good, whatever happened.
- `GateKept`: what the rule allows at this instant is in `earned`, hence whatever the gate
  lets through is too. That is why an answer may mix instants and still leak nothing.
- `FinalKept`: a group that was settled when the request came takes no more ballots, so that
  counts read by two queries are of the same ballots.
- `PageKept`: a group that had a ballot is counted with one.

From it follow `NobodyPeeks`, `FinalResultsStand` and `PageNeverMistaken`. `VotersAreShown`
(`VoterIsShown`) needs a second invariant, `VoterKnown`: of a request that no replacement
overtakes, a group voted in before it came is among those found voted, the gate passes for
it at each later step, and the counts read for it are those of *some* set of ballots that
has the caller's own, which is all that two queries can promise while others vote.

*Devices* (`DevicesProofs`). `Holds` is every way a browser can have an identity: its
cookie, one it has sent, one it was given for a post. Nobody holds what another holds,
since a voter is minted with an id that is not known anywhere. `OneVoter` is why a browser that
did not split is one voter: a post of his that is not recognised is the only one under
way, and until its answer arrives the ballots it made are his only ones under another id.

*Rankings* (`RankingsProofs`). `SyncKnows` is that the dates a run has are no later than
the clock; `AloneKnows`, that a run that met no other has a date no earlier than any on
record, which is `Settled`: chosen again by whoever reads the same sheet on the same day.
`NeverInFuture`, `FallbackParses`, `LoneSyncShows` and `RerunChangesNothing` follow, for
every calendar and any number of overlapping runs.

*AdminPage* (`LineupProofs`). A preview on display, or the request of one that is under
way, still matches the page (`Matches`): the same payload unless a key was typed late or
an image's answer discarded it, the same mode, the same target unless that one closed.
The theorem is about `AdminSpec`, the page with no limit but `MaxRows` and `MaxLoads`; the run
restricts it as described under the bounds.

`PayloadIsDraft` (`DraftIsPayload`) adds `DraftInv`: unless it was typed over, there is a payload
exactly when the draft is complete, and it is the draft's. Its one hypothesis, that null is
no record, is not an assumption of the module since TLC cannot enumerate all records; the run
has a model value for it.

*LineupReview* (`LineupProofs`). The page sorts its rows by total and the server groups the
payload by strength, each on its own: the one when an image is read, the other at every
preview. `ReviewedInOrder` (`ReviewedOrderIsGrouped`) rests on `TableInv`: the rows of a draft
are numbered from 1, no two have one position in the image, and none stands before a
row of a greater total, those without a total last. The stable sort gives the order
(`SortedInOrder`, `ReadIsTable`); an edit keeps a row's position in the image and is followed
by the sort (`EditedIsTable`); an added row takes a position above all that there are and goes
to the end (`NextIndexIsNew`, `AddedIsTable`); removal keeps what is left in order
(`RemovedIsTable`). `RowsToldApart` is that as many positions as rows are different ones. A
draft that is a payload has every total (`DraftInv`, above), so its order is the order by strength
of itself (`TableByStrength`) and it is a paste (`DraftIsPaste`), of which `Filled` says that
the groups take the places one after another. No induction over the groups is needed: two
rows are compared at a time. The hypothesis is that of `PayloadIsDraft`.

*The other parts that run by themselves* (`RulesProofs`):

- `RateLimit`: the inductive invariant says that what an open bucket counts, up to the
  limit, is the attempts granted since it opened, and that less than the limit was granted
  in the window before it; and the same of a client without a bucket, whom the sweep may
  have forgotten. `LimitHolds` (`LessThanTwice`) and `RefusalsAreFair`
  (`RefusedAtLimitOnly`) follow for every limit, window, size of the map and number of
  clients.
- `BallotDraft`: no pair has two positions and no position two pairs, after any assignments,
  displacements, removals and fillings; a draft that may be sent has as many as the group,
  so it is a complete ordering (`DraftAccepted`, `SubmitsWhatIsAccepted`).
- `TournamentList`: what was listed is in order and the cursor is the last of it; a steady
  tournament is listed or behind the cursor, where the next page continues, since the key
  (instant, then id) is a total order. `WalkExact` (`WalkIsExact`) is for any number of
  tournaments and any page size.

*PlayerHistory* (`RulesProofs`). `HistoryInv` says, beside the invariant of the list:

- there is a row for a person and not two, of people that sheets name, and a row stays that
  person's, whatever a sheet says of ranking ids; so there is always an id left for a new
  person (`FreshId`);
- the pairs inserted for a tournament are the entries of its lineup, by the match keys of
  their rows;
- of the tournaments for one event, one stands: a replacement takes over the event of the
  one it invalidates;
- what a request has read is true of its person: rows (`RowsTrue`), points (`PointsTrue`).

`VisitFrame` shows that the last stays so while the record grows. An import is a fold over
the rows of a sheet; `FoldExists` and `FoldsAgree` unfold it by a least counterexample among
the finite sets of rows, and `ImportKeeps` is the first part for any sheet.
`AppearancesSorted` shows that the rows in order are each listed once.
`PageIsOnePersons` (`HistoryIsOnePersons`) follows, for any sheets, lineups and numbers of
players and tournaments.

*Lineup* (`LineupProofs`). The invariant of a paste is only what it is made of; the work is in
the operators, for pastes of any length:

- `PlacesInTurn`: `pick` takes what is at the places of a finite set, each once and in order;
  `StrengthOrder`: `byStrength` is an order of all the pairs, with the stronger before. Both
  rest on `Ranks` of `ScoringProofs`: of a chain of sets, one for each thing, the sizes number
  the things from 1.
- `CodeIs`: the code that is answered is the first, by actionability, of what is wrong; it is
  the only thing that has to be known of the issues.
- `Filled`: the members of the groups are the places of the order, each once; within a group
  they go up, and each group begins before the next. `FilledByChunks` has the quotients and
  remainders of derived groups, `FilledByLabels` the first pair of each label.
- `CandidatesNamed`: the rows that are read are those with the name of some slot, and
  `NamedOnce`: no two of them share a name and every name has one exactly when each name of the
  paste is that of one person in the whole table. So a paste is judged by the people in it,
  whoever else is in the table.
- `SizesMet`, `NamesRight`: the sizes and the people of the paste, in the words of
  `AcceptedIffSound`.
- `Reordered`: a paste and another order of it, by a permutation. `SameKeys`, `SameStrength`,
  `SameGroups` and `SameContent` follow a pair, a place and the players of a place from one to the other;
  `ReverseReorders` and `RotationReorders` give the two permutations of the property.

`SoundAccepted` (`AcceptedIffSound`), `PlayersKept` (`PairsKeepTheirPlayers`) and
`StrengthDecides` (`GroupedByStrength`) follow.

*Model-checked only*:

- `EventuallyAnswered` and `RecordedIsShown`: liveness under fairness is out of the prover's
  reach.
- The violated properties, which are false.

## 5. Not modelled

- *Sessions of the organiser*: a password hash and a signed cookie, with no state on the
  server. `AdminPage` has signing in as a step that succeeds or fails.
- *Page reads*: the pages call the handlers in process and are rendered for each request;
  nothing outlives one.
- *Contracts, generated client and wiring*: shapes of data and the mapping of errors to
  responses, but for the answer to a refused ballot (`RateLimit`).
- *Access policies, indexes, scripts and deployment*: operations tooling, input and output.

Of answers the models keep what is shown and what is withheld; their shapes, wording and
layout are left out.

## 6. Plan

1. `BallotBox` and `Addresses` with their abstract specifications and proofs: done.
2. `Rankings`, `Reveal`, `Devices`, and the parts that run by themselves: done, checked; the
   first three proved.
3. `TournamentList`, `PlayerHistory`, `AdminPage` and `LineupDraft`: done, checked; what is
   published is what was previewed: proved.
4. The parts that run by themselves, sums and counts, exact replacement, addresses along a
   lineage and the absence of a circle of waits: proved.
5. A player's page, and a lineup for any paste: proved.
6. What is composed: the world that `Reveal` reads is implemented by `BallotBox`, and the table
   an organiser reviews is in the order of the groups that are published: proved.
7. Left to compose: `Devices` over `BallotBox`, and `Reveal` with groups of different pairs, so
   that a vote that is recorded is followed from the tap to the reader.
