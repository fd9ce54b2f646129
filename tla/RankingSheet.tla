---------------------------- MODULE RankingSheet ----------------------------
(***************************************************************************)
(* The ranking sheet and what its import reads from it                     *)
(* (core/src/rankings/parse.ts, core/src/rankings/rated-on.ts).            *)
(*                                                                         *)
(* A sheet is what is left of the CSV once its lines are split: the        *)
(* columns its header names, the cell above column C, and one row per      *)
(* line with the cells that stand under ID, Nome and C.  A cell of numbers *)
(* is a number; one that is blank, or is no plain number, is one of the    *)
(* two constants below.                                                    *)
(***************************************************************************)
EXTENDS Integers, Sequences, FiniteSets, Functions

CONSTANTS Name,      \* names as the sheet writes them
          MatchKey   \* toMatchKey: the normalised form of each name

ASSUME MatchKeyAssumption == MatchKey \in [Name -> Range(MatchKey)]

NoName    == "no name"
Blank     == -1     \* an empty cell: not rated, which is not zero points
Malformed == -2     \* a cell that is not a whole number from zero up
NoColumn  == -1     \* findIndex of a column the header does not have
NoDate    == 0      \* null

\* Zero-based, as in the code: ID and Nome come first.
RatingColumn == 2

-----------------------------------------------------------------------------
(* Dates.  YYYY-MM-DD strings compare as the numbers YYYYMMDD do.          *)
(* Years are from 1000 on: the code does not pad a shorter one, and takes  *)
(* 0 to 99 for 1900 to 1999 when it looks up how long a month is.          *)

IsoDate(day, month, year) == year * 10000 + month * 100 + day

IsLeap(year) == year % 4 = 0 /\ (year % 100 # 0 \/ year % 400 = 0)

daysInMonth(month, year) ==
    CASE month \in {4, 6, 9, 11} -> 30
      [] month = 2               -> IF IsLeap(year) THEN 29 ELSE 28
      [] OTHER                   -> 31

\* A header cell is its three numbers, or <<>> when it does not look like a date.
parseSheetDateHeader(cell) ==
    IF /\ cell # <<>>
       /\ cell[2] \in 1..12
       /\ cell[1] \in 1..daysInMonth(cell[2], cell[3])
    THEN IsoDate(cell[1], cell[2], cell[3])
    ELSE NoDate

chooseRatedOn_AnyFuture(header, syncDay, latestStored) ==
    IF \/ header = NoDate
       \/ latestStored # NoDate /\ header < latestStored
    THEN syncDay
    ELSE header

chooseRatedOn_AnyPast(header, syncDay, latestStored) ==
    IF header = NoDate \/ header > syncDay THEN syncDay ELSE header

chooseRatedOn_NoLater(header, syncDay, latestStored) ==
    IF \/ header = NoDate
       \/ header > syncDay
       \/ latestStored # NoDate /\ header <= latestStored
    THEN syncDay
    ELSE header

chooseRatedOn(header, syncDay, latestStored) ==
    IF \/ header = NoDate
       \/ header > syncDay
       \/ latestStored # NoDate /\ header < latestStored
    THEN syncDay
    ELSE header

-----------------------------------------------------------------------------
(* Rows                                                                    *)

\* A row without a usable id or name is skipped.
Usable(row) == row.id > 0 /\ row.name # NoName

ReadRows(sheet) == {i \in DOMAIN sheet.rows : Usable(sheet.rows[i])}

KeyAt(sheet, i) == MatchKey[sheet.rows[i].name]

Filled(sheet) == {i \in ReadRows(sheet) : sheet.rows[i].points # Blank}
Bad(sheet)    == {i \in Filled(sheet) : sheet.rows[i].points < 0}

-----------------------------------------------------------------------------
(* parseRankingCsv                                                         *)

Misshapen(sheet) ==
    \/ sheet.id = NoColumn
    \/ sheet.name = NoColumn
    \/ sheet.width <= RatingColumn
    \/ RatingColumn \in {sheet.id, sheet.name}
    \/ sheet.rows = <<>>

\* One bad cell is a typo; more than one in ten, and column C is not points.
Implausible(sheet) ==
    Cardinality(Bad(sheet)) * 10 > Cardinality(Filled(sheet))

\* Two rows that normalise to the same name.
Ambiguous(sheet) ==
    \E i, j \in ReadRows(sheet) : i # j /\ KeyAt(sheet, i) = KeyAt(sheet, j)

ParseOutcome(sheet) ==
    CASE Misshapen(sheet) \/ Implausible(sheet) -> "MALFORMED_PAYLOAD"
      [] OTHER -> IF Ambiguous(sheet) THEN "DUPLICATE_MATCH_KEY" ELSE "parsed"

Parses(sheet) == ParseOutcome(sheet) = "parsed"

\* The rows by match key: what is stored of a player, and his points.
ParsedPlayers(sheet) ==
    [k \in {KeyAt(sheet, i) : i \in ReadRows(sheet)} |->
        LET i == CHOOSE j \in ReadRows(sheet) : KeyAt(sheet, j) = k
        IN  [externalId  |-> sheet.rows[i].id,
             displayName |-> sheet.rows[i].name]]

ParsedPoints(sheet) ==
    [k \in {KeyAt(sheet, i) : i \in Filled(sheet) \ Bad(sheet)} |->
        sheet.rows[CHOOSE j \in ReadRows(sheet) : KeyAt(sheet, j) = k].points]

HeaderRatedOn(sheet) == parseSheetDateHeader(sheet.rating)

=============================================================================
