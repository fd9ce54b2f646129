----------------------------- MODULE LineupDraft -----------------------------
(***************************************************************************)
(* The draft of a lineup, from the image it is read from to the payload it *)
(* becomes: the reader and its handler, normalizeExtraction of             *)
(* core/src/lineup-extraction, and ui-logic/src/lineup-draft.  Values      *)
(* only: AdminPage holds the draft.                                        *)
(*                                                                         *)
(* A row is [sourceIndex, names, points, totalPoints, club], with names    *)
(* and points of two players; Null is null.  The flags of a row are a      *)
(* function of its cells and are left out, as warnings are.  Instants and  *)
(* local times are numbers of half hours.                                  *)
(***************************************************************************)
EXTENDS Places, Sequences

CONSTANTS
  Null,                  \* null, and the text of an empty field
  Hour,                  \* half hours in an hour
  SummerFrom, SummerTo   \* the instants between which Lisbon is an hour ahead

ASSUME LineupDraftConstants == Hour \in Nat /\ SummerFrom \in Int /\ SummerTo \in Int

-------------------------------------------------------------------------------
(***************************************************************************)
(* The reader, which transcribes or fails, and what is made of a           *)
(* transcription.                                                          *)
(***************************************************************************)

\* responseRows: a text or null, a whole number or null.  A reply of another shape, an
\* error status, a reply without text and a timeout are one failure each.
MatchesSchema(row) == \A n \in {row.points[1], row.points[2], row.totalPoints} : n \in Int \cup {Null}
Readable(reply) == reply.ok /\ \A i \in DOMAIN reply.rows : MatchesSchema(reply.rows[i])

normalizePoints(n) == IF n \in Nat THEN n ELSE Null

\* Descending by total, rows without one last.
byTotalDescending(rows, i, j) ==
  LET a == rows[i].totalPoints
      b == rows[j].totalPoints
  IN  a # b /\ (b = Null \/ (a # Null /\ a > b))

\* The sort is stable: of rows that do not compare, the earlier stays before.
goesBefore(rows, i, j) ==
  \/ byTotalDescending(rows, i, j)
  \/ i < j /\ ~byTotalDescending(rows, j, i)

Sorted(rows) ==
  [n \in DOMAIN rows |->
     rows[CHOOSE i \in DOMAIN rows :
            Cardinality({j \in DOMAIN rows : goesBefore(rows, j, i)}) = n - 1]]

\* Blank texts are read as null already.
normalizeExtraction(rawRows) ==
  Sorted([i \in DOMAIN rawRows |->
    [sourceIndex |-> i - 1,
     names       |-> rawRows[i].names,
     points      |-> [k \in {1, 2} |-> normalizePoints(rawRows[i].points[k])],
     totalPoints |-> normalizePoints(rawRows[i].totalPoints),
     club        |-> rawRows[i].club]])

-------------------------------------------------------------------------------
(***************************************************************************)
(* The draft.                                                              *)
(***************************************************************************)
createLineupDraft(rows) == [name |-> Null, startsAtLocal |-> Null, rows |-> rows]

applyCell(row, cell, value) ==
  CASE cell.kind = "playerName"   -> [row EXCEPT !.names[cell.player] = value]
    [] cell.kind = "playerPoints" -> [row EXCEPT !.points[cell.player] = normalizePoints(value)]
    [] cell.kind = "totalPoints"  -> [row EXCEPT !.totalPoints = normalizePoints(value)]
    [] cell.kind = "club"         -> [row EXCEPT !.club = value]

Edited(d, sourceIndex, cell, value) ==
  [i \in DOMAIN d.rows |->
     IF d.rows[i].sourceIndex = sourceIndex THEN applyCell(d.rows[i], cell, value) ELSE d.rows[i]]

editCell_InPlace(d, sourceIndex, cell, value) ==
  [d EXCEPT !.rows = Edited(d, sourceIndex, cell, value)]

editCell(d, sourceIndex, cell, value) ==
  [d EXCEPT !.rows = Sorted(Edited(d, sourceIndex, cell, value))]

SourceIndexes(d) == {d.rows[i].sourceIndex : i \in DOMAIN d.rows}

nextIndex(d) == CHOOSE n \in {0} \cup {s + 1 : s \in SourceIndexes(d)} : \A s \in SourceIndexes(d) : s < n

addRow(d) ==
  [d EXCEPT !.rows = Append(@, [sourceIndex |-> nextIndex(d), names |-> <<Null, Null>>,
                                points |-> <<Null, Null>>, totalPoints |-> Null, club |-> Null])]

removeRow(d, sourceIndex) ==
  [d EXCEPT !.rows = pick(@, {i \in DOMAIN @ : @[i].sourceIndex # sourceIndex})]

rowIsComplete(row) ==
  Null \notin {row.names[1], row.names[2], row.points[1], row.points[2], row.totalPoints, row.club}

isLineupDraftComplete(d) ==
  /\ d.name # Null /\ d.startsAtLocal # Null
  /\ d.rows # <<>>
  /\ \A i \in DOMAIN d.rows : rowIsComplete(d.rows[i])

-------------------------------------------------------------------------------
(***************************************************************************)
(* The payload.                                                            *)
(***************************************************************************)
lisbonOffset(instant) == IF SummerFrom <= instant /\ instant < SummerTo THEN Hour ELSE 0

\* Twice: the first correction may land on the other side of a change of the clocks.
lisbonLocalToUtc(localValue) ==
  localValue - lisbonOffset(localValue - lisbonOffset(localValue))

\* A pair as deriveLineup takes it, with no label: groups are derived.
toLineupPayload(d) ==
  [name     |-> d.name,
   startsAt |-> lisbonLocalToUtc(d.startsAtLocal),
   pairs    |-> [i \in DOMAIN d.rows |->
                  [players     |-> [k \in {1, 2} |-> [name   |-> d.rows[i].names[k],
                                                      points |-> d.rows[i].points[k]]],
                   totalPoints |-> d.rows[i].totalPoints,
                   club        |-> d.rows[i].club,
                   group       |-> Null]]]

\* What a clock in Lisbon shows at an instant.
formatStartsAt(instant) == instant + lisbonOffset(instant)
===============================================================================
