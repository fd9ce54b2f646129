-------------------------------- MODULE Lineup --------------------------------
(***************************************************************************)
(* A pasted lineup and what is derived from it: deriveFromPayload of       *)
(* packages/api, that is, deriveLineup of packages/core/src/lineup over    *)
(* resolvePlayers of core/src/matching, against the players the paste      *)
(* could mean.  The organiser adds pairs; the derivation is a function.    *)
(*                                                                         *)
(* A pair is [players, totalPoints, group]: two of [name, points], their   *)
(* stated total and the label it names, or None.  Entries are numbered     *)
(* from 1 in the order of the paste, its names likewise, two per pair.     *)
(***************************************************************************)
EXTENDS Places, SequencesExt, TLC

CONSTANTS
  MatchKey,              \* toMatchKey: the normalised form of each name, "" of a blank one
  Titles,                \* what a tournament may be called: [name, slug], slug None if not given
  Slugify,               \* slugify: the address made from each of these names, "" if none
  Offers,                \* the pairs an organiser may add
  Rankings,              \* what the table of players may hold: sets of [key, id]
  MIN_GROUP_SIZE, MAX_GROUP_SIZE,
  MaxPairs,              \* bound on the paste
  None                   \* undefined

ASSUME LineupConstants ==
  /\ MIN_GROUP_SIZE \in Nat \ {0} /\ MAX_GROUP_SIZE \in Nat
  /\ MIN_GROUP_SIZE <= MAX_GROUP_SIZE
  /\ MaxPairs \in Nat
  /\ \A p \in Offers : p.totalPoints \in Nat
  /\ \A players \in Rankings : IsFiniteSet(players)

\* Of the table and of the payload's schema: no player has a blank key, no slug is empty.
ASSUME NotBlank ==
  /\ \A players \in Rankings : \A x \in players : x.key # ""
  /\ \A t \in Titles : t.slug # ""

VARIABLES
  pairs,                 \* the pairs pasted so far
  start,                 \* how the start reads: "past", "future" or "unreadable"
  title,                 \* the name, and the slug if one is given
  known                  \* the table of players

paste == <<pairs, start, title, known>>

-------------------------------------------------------------------------------
(***************************************************************************)
(* resolvePlayers.                                                         *)
(***************************************************************************)
namesOf(ps) ==
  [i \in 1..(2 * Len(ps)) |-> ps[(i + 1) \div 2].players[2 - (i % 2)].name]

Keys(players) == {x.key : x \in players}

ambiguous(players) ==
  {k \in Keys(players) : Cardinality({x \in players : x.key = k}) > 1}

IdFor(name, players) == (CHOOSE x \in players : x.key = MatchKey[name]).id

unresolved(ps, players) ==
  {i \in DOMAIN namesOf(ps) : MatchKey[namesOf(ps)[i]] \notin Keys(players)}

\* The ids of the names that match, in the order of the paste.
resolved(ps, players) ==
  LET found == pick(namesOf(ps), DOMAIN namesOf(ps) \ unresolved(ps, players))
  IN  [i \in DOMAIN found |-> IdFor(found[i], players)]

-------------------------------------------------------------------------------
(***************************************************************************)
(* The issues, each with the entry it is reported at.                      *)
(***************************************************************************)
Issue(rule, entry, slot) == [rule |-> rule, entry |-> entry, slot |-> slot]

\* The entry a flat index stands for.
At(rule, i) == Issue(rule, (i + 1) \div 2, 2 - (i % 2))

StartIssues(s) == IF s = "past" THEN {Issue("START_NOT_IN_FUTURE", 0, 0)} ELSE {}

PointsIssues(ps) ==
  {Issue("POINTS_MISMATCH", i, 0) :
     i \in {j \in DOMAIN ps : ps[j].totalPoints # ps[j].players[1].points + ps[j].players[2].points}}

NameIssues(ps, players) == {At("UNRESOLVED_PLAYERS", i) : i \in unresolved(ps, players)}

DuplicateIssues_OtherPairs(ps, players) ==
  LET ids == resolved(ps, players) IN
  {At("DUPLICATE_PLAYER", i) :
     i \in {j \in DOMAIN ids : \E k \in 1..(j - 1) :
              ids[k] = ids[j] /\ (k + 1) \div 2 # (j + 1) \div 2}}

DuplicateIssues(ps, players) ==
  LET ids == resolved(ps, players) IN
  {At("DUPLICATE_PLAYER", i) : i \in {j \in DOMAIN ids : \E k \in 1..(j - 1) : ids[k] = ids[j]}}

-------------------------------------------------------------------------------
(***************************************************************************)
(* The groups: sequences of entries, with their labels.                    *)
(***************************************************************************)
stronger(ps, i, j) ==
  \/ ps[i].totalPoints > ps[j].totalPoints
  \/ ps[i].totalPoints = ps[j].totalPoints /\ i < j

byStrength_AsPasted(ps) == [n \in DOMAIN ps |-> n]

byStrength(ps) ==
  [n \in DOMAIN ps |->
     CHOOSE i \in DOMAIN ps : Cardinality({j \in DOMAIN ps : stronger(ps, j, i)}) = n - 1]

chunk(items, size) ==
  [n \in 1..((Len(items) + size - 1) \div size) |->
     SubSeq(items, (n - 1) * size + 1,
            IF n * size < Len(items) THEN n * size ELSE Len(items))]

\* Labels by their strongest pair.
groupByExplicitLabel(ps) ==
  LET order  == byStrength(ps)
      labels == [n \in DOMAIN order |-> ps[order[n]].group]
      first  == pick(labels, {n \in DOMAIN order : \A m \in 1..(n - 1) : labels[m] # labels[n]})
  IN  [g \in DOMAIN first |->
        [label   |-> first[g],
         members |-> pick(order, {n \in DOMAIN order : labels[n] = first[g]})]]

labelled(ps) == {i \in DOMAIN ps : ps[i].group # None}

\* Derived labels are A, B, ...: here their number.
grouped(ps) ==
  IF labelled(ps) = DOMAIN ps
  THEN groupByExplicitLabel(ps)
  ELSE LET chunks == chunk(byStrength(ps), MAX_GROUP_SIZE)
       IN  [g \in DOMAIN chunks |-> [label |-> g, members |-> chunks[g]]]

SizeIssues(ps) ==
  LET groups == grouped(ps) IN
  {Issue("INVALID_GROUP_SIZE", 0, 0) :
     g \in {h \in DOMAIN groups : Len(groups[h].members) \notin MIN_GROUP_SIZE..MAX_GROUP_SIZE}}

-------------------------------------------------------------------------------
(***************************************************************************)
(* deriveLineup.                                                           *)
(***************************************************************************)
issues(ps, s, players) ==
  StartIssues(s) \cup PointsIssues(ps) \cup NameIssues(ps, players)
    \cup DuplicateIssues(ps, players) \cup SizeIssues(ps)

ByActionability == <<"UNRESOLVED_PLAYERS", "DUPLICATE_PLAYER", "POINTS_MISMATCH",
                     "START_NOT_IN_FUTURE", "INVALID_GROUP_SIZE">>

dominantCode(found) ==
  LET n == CHOOSE k \in DOMAIN ByActionability :
             /\ \E x \in found : x.rule = ByActionability[k]
             /\ \A m \in 1..(k - 1) : \A x \in found : x.rule # ByActionability[m]
  IN  ByActionability[n]

slugOf(t) == IF t.slug # None THEN t.slug ELSE Slugify[t.name]

Malformed(ps, s, t) ==
  s = "unreadable" \/ slugOf(t) = "" \/ labelled(ps) \notin {{}, DOMAIN ps}

\* An entry with its two players, whose ids are in the order of the paste.
placed_ByRank(ps, players, i) ==
  LET ids == resolved(ps, players)
      n   == CHOOSE m \in DOMAIN ps : byStrength(ps)[m] = i
  IN  [entry |-> i, members |-> <<ids[2 * n - 1], ids[2 * n]>>]

placed(ps, players, i) ==
  LET ids == resolved(ps, players)
  IN  [entry |-> i, members |-> <<ids[2 * i - 1], ids[2 * i]>>]

groupsOf(ps, players) ==
  LET groups == grouped(ps) IN
  [g \in DOMAIN groups |->
    [label |-> groups[g].label,
     pairs |-> [n \in DOMAIN groups[g].members |-> placed(ps, players, groups[g].members[n])]]]

\* The outcome: a code, its issues and the groups with the players of each entry.
deriveLineup(ps, s, t, players) ==
  LET reject(code, found) == [code |-> code, issues |-> found, groups |-> <<>>]
      found == issues(ps, s, players)
  IN  IF Malformed(ps, s, t) THEN reject("MALFORMED_PAYLOAD", {})
      ELSE IF ambiguous(players) # {} THEN reject("DUPLICATE_MATCH_KEY", {})
      ELSE IF found # {} THEN reject(dominantCode(found), found)
      ELSE [code |-> "OK", issues |-> {}, groups |-> groupsOf(ps, players)]

-------------------------------------------------------------------------------
(***************************************************************************)
(* deriveFromPayload: the rows of the names asked for, and no others, are  *)
(* what the paste is matched against.                                      *)
(***************************************************************************)
matchKeys(ps) == {MatchKey[namesOf(ps)[i]] : i \in DOMAIN namesOf(ps)} \ {""}

findByMatchKeys(keys, players) == {x \in players : x.key \in keys}

deriveFromPayload(ps, s, t, players) ==
  deriveLineup(ps, s, t, findByMatchKeys(matchKeys(ps), players))

-------------------------------------------------------------------------------
PasteInit ==
  /\ pairs = <<>>
  /\ start \in {"past", "future", "unreadable"}
  /\ title \in Titles
  /\ known \in Rankings

AddPair ==
  /\ Len(pairs) < MaxPairs
  /\ \E p \in Offers : pairs' = Append(pairs, p)
  /\ UNCHANGED <<start, title, known>>

PasteNext == AddPair

PasteSpec == PasteInit /\ [][PasteNext]_paste

-------------------------------------------------------------------------------
(***************************************************************************)
(* Properties, of every paste that passes the payload's schema.            *)
(***************************************************************************)
Payload == Len(pairs) >= MIN_GROUP_SIZE
Derived == deriveFromPayload(pairs, start, title, known)

\* The names of the paste as people, by entry and slot: their rows, and their ids.
Slots == (DOMAIN pairs) \X {1, 2}
NameAt(x) == pairs[x[1]].players[x[2]].name
Named(x) == {q \in known : q.key = MatchKey[NameAt(x)]}
People(x) == {q.id : q \in Named(x)}

CanBeGrouped ==
  LET labels == {pairs[i].group : i \in DOMAIN pairs}
      last   == Len(pairs) % MAX_GROUP_SIZE
  IN  IF labels = {None}
      THEN last = 0 \/ last >= MIN_GROUP_SIZE
      ELSE /\ None \notin labels
           /\ \A l \in labels :
                Cardinality({i \in DOMAIN pairs : pairs[i].group = l})
                  \in MIN_GROUP_SIZE..MAX_GROUP_SIZE

(***************************************************************************)
(* A lineup is published exactly when nothing is wrong with it (FR-003,    *)
(* FR-005): it starts in the future and has an address, each name is that  *)
(* of one known person and no other name is his, the totals add up, and    *)
(* the sizes can be met - of the labels as given, or of full groups and a  *)
(* last one that is not too small.  Of the players who are not in the      *)
(* paste nothing is asked.                                                 *)
(***************************************************************************)
AcceptedIffSound ==
  Payload =>
    (Derived.code = "OK" <=>
       /\ start = "future"
       /\ title.slug # None \/ Slugify[title.name] # ""
       /\ \A x \in Slots : Cardinality(Named(x)) = 1
       /\ \A x, y \in Slots : x # y => People(x) \cap People(y) = {}
       /\ \A i \in DOMAIN pairs :
            pairs[i].totalPoints = pairs[i].players[1].points + pairs[i].players[2].points
       /\ CanBeGrouped)

\* Every pair is in one group, once, with its own two players: nobody's points or votes go
\* to another, however the grouping reorders the paste (FR-004, FR-008).
PairsKeepTheirPlayers ==
  LET groups == Derived.groups
      places == UNION {{<<g, n>> : n \in DOMAIN groups[g].pairs} : g \in DOMAIN groups}
      PairAt(x) == groups[x[1]].pairs[x[2]]
  IN  Payload /\ Derived.code = "OK" =>
        /\ \A i \in DOMAIN pairs : Cardinality({x \in places : PairAt(x).entry = i}) = 1
        /\ \A x \in places, slot \in {1, 2} :
             {PairAt(x).members[slot]} = People(<<PairAt(x).entry, slot>>)

Total(p) == pairs[p.entry].totalPoints

StrongestFirst ==
  LET groups == Derived.groups IN
  Payload /\ Derived.code = "OK" =>
    \A g, h \in DOMAIN groups : \A m \in DOMAIN groups[g].pairs, n \in DOMAIN groups[h].pairs :
      LET p == groups[g].pairs[m]
          q == groups[h].pairs[n]
      IN  /\ g = h /\ m < n => Total(p) >= Total(q)
          /\ g < h /\ (labelled(pairs) = {} \/ m = 1) => Total(p) >= Total(q)

Content(d) ==
  [g \in DOMAIN d.groups |->
     [label |-> d.groups[g].label,
      pairs |-> [n \in DOMAIN d.groups[g].pairs |-> d.groups[g].pairs[n].members]]]

OrderOfPasteIrrelevant ==
  Payload /\ (\A i, j \in DOMAIN pairs : i # j => pairs[i].totalPoints # pairs[j].totalPoints) =>
    LET derived  == Derived
        reversed == deriveFromPayload(Reverse(pairs), start, title, known)
        rotated  == deriveFromPayload(Append(Tail(pairs), Head(pairs)), start, title, known)
    IN  /\ Content(reversed) = Content(derived) /\ reversed.code = derived.code
        /\ Content(rotated) = Content(derived) /\ rotated.code = derived.code

(***************************************************************************)
(* Groups are read from the top (FR-003), and the order of the paste is of *)
(* no account.  Within a group, and from one derived group to the next, no *)
(* pair is stronger than one before it; a group that is named is no        *)
(* stronger at its head than one before it.  Pasted in another order,      *)
(* pairs of different totals make the same groups of the same players.     *)
(***************************************************************************)
GroupedByStrength == StrongestFirst /\ OrderOfPasteIrrelevant
===============================================================================
