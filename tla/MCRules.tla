-------------------------------- MODULE MCRules --------------------------------
(***************************************************************************)
(* Small instances of the parts that run by themselves: the poll of a      *)
(* group, a ballot being drafted, a lineup being pasted, the rate limit of *)
(* a server, the organiser's page, a walk through the list of tournaments  *)
(* and the reading of a player's page.  They share no state, but for the   *)
(* last two, so that each behaviour runs one of them and leaves the others *)
(* as they start.                                                          *)
(***************************************************************************)
EXTENDS Poll, BallotDraft, RateLimit, LineupReview, PlayerHistory

VARIABLE subject         \* the part that runs

all == <<ballots, draft, paste, limiter, page, listing, archive, subject>>

-------------------------------------------------------------------------------
\* Two pairs have the same points, and the order of the ids is not that of the seeds.
ThreePairs == <<[id |-> 2, totalPoints |-> 7],
                [id |-> 3, totalPoints |-> 5],
                [id |-> 1, totalPoints |-> 5]>>

-------------------------------------------------------------------------------
(***************************************************************************)
(* Pastes: a person written in two ways, one twice in a pair, one whose    *)
(* name nobody has, two pairs of one total, and one whose total is wrong.  *)
(***************************************************************************)
Names == {"Ana", "ana", "Bia", "Rui", "Joe", "Eva", "Gil", "Leo", "Nia", "Zoe", "Max", "ghost"}
Keyed == [n \in Names |-> IF n = "Ana" THEN "ana" ELSE n]

Everyone == {[key |-> Keyed[n], id |-> Keyed[n]] : n \in Names \ {"ghost"}}
Twins == Everyone \cup {[key |-> "Zoe", id |-> "Zoe II"]}
AllRankings == {Everyone, Twins}

Players(a, p, b, q) == <<[name |-> a, points |-> p], [name |-> b, points |-> q]>>
Offer(ps, label) ==
  [players |-> ps, totalPoints |-> ps[1].points + ps[2].points, group |-> label]

Top    == Players("Ana", 5, "Bia", 4)
Equal  == Players("Rui", 6, "Joe", 3)
Middle == Players("Eva", 4, "Gil", 3)
Low    == Players("Leo", 1, "Nia", 1)
Weak   == Players("Zoe", 1, "Max", 0)
Twice  == Players("ana", 5, "Zoe", 3)
Alone  == Players("Zoe", 2, "Zoe", 2)
Typo   == Players("ghost", 3, "Zoe", 3)

Unlabelled == {Offer(ps, None) : ps \in {Top, Equal, Middle, Low, Weak, Twice, Alone, Typo}}
                \cup {[Offer(Low, None) EXCEPT !.totalPoints = 3]}
Labelled == {Offer(ps, "X") : ps \in {Middle, Low}} \cup {Offer(ps, "Y") : ps \in {Top, Equal}}
AllOffers == Unlabelled \cup Labelled

\* A name that gives an address, and one of signs alone, with an address of its own or none.
Usual == [name |-> "Torneio", slug |-> None]
AllTitles == {Usual, [name |-> "???", slug |-> None], [name |-> "???", slug |-> "final"]}
Slugs == [n \in {"Torneio", "???"} |-> IF n = "???" THEN "" ELSE "torneio"]

-------------------------------------------------------------------------------
(***************************************************************************)
(* Images: one that cannot be read, one whose rows are complete and out of *)
(* order, one with a total below zero, and one with a number that is not   *)
(* whole.  Rows are given a total, or lose it.                             *)
(***************************************************************************)
CONSTANT Fraction

RawRow(ps, total) ==
  [names |-> [k \in {1, 2} |-> ps[k].name], points |-> [k \in {1, 2} |-> ps[k].points],
   totalPoints |-> total, club |-> "club"]

Reply(ok, rows) == [ok |-> ok, rows |-> rows]

AllReplies ==
  {Reply(FALSE, <<>>),
   Reply(TRUE, <<RawRow(Low, 2), RawRow(Top, 9)>>),
   Reply(TRUE, <<RawRow(Top, -1)>>),
   Reply(TRUE, <<RawRow(Players("Rui", 6, "Joe", Fraction), 9)>>)}

TotalEdits == {[cell |-> [kind |-> "totalPoints"], value |-> n] : n \in {12, Null}}

\* Local times: one the clocks skip, one of the summer, and the field cleared.
Starts == {11, 20, Null}

-------------------------------------------------------------------------------
(***************************************************************************)
(* Two sheets that give the ranking id of one person to another, and two   *)
(* lineups of two people who swap slots and partners.                      *)
(***************************************************************************)
SheetRow(key, externalId, points) == [key |-> key, externalId |-> externalId, points |-> points]
FirstWeek == <<SheetRow("ana", 1, 5), SheetRow("Bia", 2, 4)>>
SecondWeek == <<SheetRow("Rui", 1, 6), SheetRow("Bia", 2, 3)>>
TwoSheets == {FirstWeek, SecondWeek}
Entry(keys, points) == [keys |-> keys, points |-> points]
TwoEntries == {<<Entry(<<"ana", "Bia">>, <<5, 4>>)>>, <<Entry(<<"Bia", "Rui">>, <<3, 6>>)>>}

-------------------------------------------------------------------------------
\* The page twice: a draft that is edited, and published; and one that is left as it was
\* read, while tournaments to replace are chosen.
PublishOnly == page'.mode = "publish"
DraftAsRead == page'.draft \in {Null, page.draft} \/ (page.uploading /\ ~page'.uploading)

\* One player's page is read on the first two days, of tournaments that start on the third
\* and whose ids come in order, the last of them published once the reading has begun, and
\* each week's sheet is imported once.
OnePage ==
  /\ visit.step # "answered"
  /\ DOMAIN catalogue' = TournamentId => visit'.step # "idle"
  /\ imports' \in {<<>>, <<FirstWeek>>, <<FirstWeek, SecondWeek>>}
  /\ today' < LastDay
  /\ \A t \in DOMAIN catalogue' :
       /\ catalogue'[t].startsAt = LastDay
       /\ \A x \in TournamentId : x < t => x \in DOMAIN catalogue'

\* A paste that is late or unreadable, that is oddly named, or that meets two people of one
\* name, is one thing at a time, and two pairs short of the longest; the longest has no
\* labels and no pair twice.
Plain == start = "future" /\ known = Everyone /\ title = Usual

OneThing ==
  /\ Len(pairs') < MaxPairs - 1 \/ Plain
  /\ Len(pairs') = MaxPairs =>
       \A i, j \in DOMAIN pairs' : pairs'[i].group = None /\ (i # j => pairs'[i] # pairs'[j])

Init ==
  /\ PollInit /\ DraftInit /\ PasteInit /\ LimitInit /\ AdminInit /\ ListInit /\ HistoryInit
  /\ subject \in {"poll", "draft", "paste", "limit", "page", "replacement", "list", "player"}
  /\ known # Everyone => start = "future" /\ title = Usual
  /\ title # Usual => start = "future"
  /\ subject # "paste" => Plain
  /\ subject # "list" => walk = NewWalk("all", FALSE, 1)

Next ==
  /\ \/ subject = "poll"  /\ PollNext  /\ UNCHANGED <<draft, paste, limiter, page, listing, archive>>
     \/ subject = "draft" /\ DraftNext /\ UNCHANGED <<ballots, paste, limiter, page, listing, archive>>
     \/ subject = "paste" /\ PasteNext /\ OneThing
        /\ UNCHANGED <<ballots, draft, limiter, page, listing, archive>>
     \/ subject = "limit" /\ LimitNext /\ UNCHANGED <<ballots, draft, paste, page, listing, archive>>
     \/ subject = "page"  /\ AdminNext /\ PublishOnly
        /\ UNCHANGED <<ballots, draft, paste, limiter, listing, archive>>
     \/ subject = "replacement" /\ AdminNext /\ DraftAsRead
        /\ UNCHANGED <<ballots, draft, paste, limiter, listing, archive>>
     \/ subject = "list"  /\ ListNext  /\ UNCHANGED <<ballots, draft, paste, limiter, page, archive>>
     \/ subject = "player" /\ HistoryNext /\ OnePage
        /\ UNCHANGED <<ballots, draft, paste, limiter, page>>
  /\ UNCHANGED subject

Spec == Init /\ [][Next]_all

\* The organiser's page alone.
PageSpec == Init /\ subject = "page" /\ [][Next]_all

\* Of the initial states, only the decision before the first attempt names a client.
Clients == Permutations(Key)
===============================================================================
