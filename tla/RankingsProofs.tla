---------------------------- MODULE RankingsProofs ----------------------------
(***************************************************************************)
(* The inductive invariant of Rankings and what it gives: no points are    *)
(* dated in the future, every copy that is kept parses, and a run that     *)
(* overlapped no other shows what it stored, for any sheets and runs.      *)
(***************************************************************************)
EXTENDS Rankings, FiniteSetTheorems, WellFoundedInduction, TLAPS

Fetch == [csv : Sheets, fetchedAt : Instants]
Outcomes == {"OK", "INTERNAL_ERROR", "MALFORMED_PAYLOAD", "DUPLICATE_MATCH_KEY"}
Storing == {"StoreSnapshot", "UpsertMany", "UpsertSnapshots"}

TypeOK ==
  /\ now \in Instants /\ live \in Sheets
  /\ pc \in [Sync -> {"Idle"} \cup Running \cup Outcomes]
  /\ fetched \in [Sync -> {NoSheet} \cup Fetch]
  /\ copies \subseteq Fetch
  /\ day \in [Sync -> Nat] /\ ratedOn \in [Sync -> Nat]
  /\ alone \in [Sync -> BOOLEAN]

Dated(table) ==
  /\ table = [x \in DOMAIN table |-> table[x]]
  /\ \A x \in DOMAIN table : x = <<x[1], x[2]>> /\ x[2] \in 1..Today

\* A run that goes on has a sheet that parsed, and dates no later than the clock.
SyncKnows(s) ==
  /\ pc[s] \in {"Parse", "LatestRatedOn", "OK"} \cup Storing => fetched[s] \in Fetch
  /\ pc[s] \in {"LatestRatedOn"} \cup Storing => Parses(fetched[s].csv)
  /\ pc[s] = "LatestRatedOn" => day[s] \in 1..Today
  /\ pc[s] \in Storing => ratedOn[s] \in 1..Today

\* The date of a run is one that the same sheet is given again on the same day.
Settled(s) ==
  LET header == HeaderRatedOn(fetched[s].csv) IN
  /\ ratedOn[s] \in 1..day[s]
  /\ \/ header = ratedOn[s]
     \/ ratedOn[s] = day[s] /\ (header = NoDate \/ header > day[s] \/ header < ratedOn[s])

\* No other run is under way beside one that overlapped none: nothing is dated later than
\* its day when it reads the newest date, nor than its own date from then on.
AloneKnows(s) ==
  alone[s] /\ pc[s] \in Running \cup {"OK"} =>
    /\ \A u \in Sync \ {s} : pc[u] \notin Running
    /\ pc[s] = "LatestRatedOn" => \A x \in DOMAIN ratings : x[2] <= day[s]
    /\ pc[s] \in {"OK"} \cup Storing =>
         Settled(s) /\ \A x \in DOMAIN ratings : x[2] <= ratedOn[s]
    /\ pc[s] \in {"UpsertSnapshots", "OK"} => UpsertedPlayers(players, fetched[s].csv) = players
    /\ pc[s] = "OK" =>
         \A k \in DOMAIN ParsedPoints(fetched[s].csv) :
           /\ <<k, ratedOn[s]>> \in DOMAIN ratings
           /\ ratings[<<k, ratedOn[s]>>] = ParsedPoints(fetched[s].csv)[k]

IInv ==
  /\ TypeOK
  /\ Dated(ratings)
  /\ FallbackParses
  /\ \A s \in Sync : SyncKnows(s)
  /\ \A s \in Sync : AloneKnows(s)

-------------------------------------------------------------------------------
\* Dates.

LEMMA TodayIsDate ==
  ASSUME NEW i \in Instants
  PROVE  Calendar[i] \in Nat \ {NoDate}
  BY CalendarAssumption DEF Instants

\* Dates that are bounded have a latest one.
LEMMA LatestFound ==
  ASSUME NEW B \in Nat, NEW S \in SUBSET (1..B), S # {}
  PROVE  \E d \in S : \A e \in S : e <= d
  <1> DEFINE T == {B - d : d \in S}
  <1>0. \A d \in S : d \in Nat /\ d <= B
    OBVIOUS
  <1>1. T \subseteq Nat /\ T # {}
    <2>1. \A d \in S : B - d \in Nat
      BY <1>0
    <2>2. T \subseteq Nat
      BY <2>1
    <2> QED BY <2>2
  <1>2. PICK n \in T : \A m \in T : ~(<<m, n>> \in OpToRel(<, Nat))
    <2> HIDE DEF T
    <2> QED BY <1>1, NatLessThanWellFounded, WFMin
  <1>3. \A m \in T : ~(m < n)
    BY <1>1, <1>2 DEF OpToRel
  <1>4. PICK d \in S : n = B - d
    BY <1>2
  <1>5. \A e \in S : ~(B - e < B - d)
    BY <1>3, <1>4
  <1>6. \A e \in S : e <= d
    BY <1>0, <1>5
  <1> QED BY <1>6

\* What max(rated_on) returns of a table whose dates are no later than B.
LEMMA LatestBounds ==
  ASSUME NEW table, NEW B \in Nat, \A x \in DOMAIN table : x[2] \in 1..B
  PROVE  /\ LatestRatedOn(table) \in 0..B
         /\ \A x \in DOMAIN table : x[2] <= LatestRatedOn(table)
  <1> DEFINE dates == {x[2] : x \in DOMAIN table}
  <1>1. dates \in SUBSET (1..B)
    OBVIOUS
  <1>2. CASE dates = {}
    BY <1>2 DEF LatestRatedOn, NoDate
  <1>3. CASE dates # {}
    <2>1. PICK d \in dates : \A e \in dates : e <= d
      <3> HIDE DEF dates
      <3> QED BY <1>1, <1>3, LatestFound
    <2>2. LatestRatedOn(table) = CHOOSE c \in dates : \A e \in dates : e <= c
      BY <1>3 DEF LatestRatedOn
    <2>3. LatestRatedOn(table) \in dates /\ \A e \in dates : e <= LatestRatedOn(table)
      <3> HIDE DEF dates
      <3> QED BY <2>1, <2>2
    <2>4. \A x \in DOMAIN table : x[2] \in dates
      OBVIOUS
    <2>5. LatestRatedOn(table) \in 1..B
      <3> HIDE DEF dates
      <3> QED BY <1>1, <2>3
    <2>6. \A x \in DOMAIN table : x[2] <= LatestRatedOn(table)
      <3> HIDE DEF dates
      <3> QED BY <2>3, <2>4
    <2> QED BY <2>5, <2>6
  <1> QED BY <1>2, <1>3

\* It is the date of a row, where there is one.
LEMMA LatestStored ==
  ASSUME NEW table, NEW B \in Nat, \A x \in DOMAIN table : x[2] \in 1..B,
         DOMAIN table # {}
  PROVE  \E x \in DOMAIN table : LatestRatedOn(table) = x[2]
  <1> DEFINE dates == {x[2] : x \in DOMAIN table}
  <1>1. dates \in SUBSET (1..B) /\ dates # {}
    OBVIOUS
  <1>2. LatestRatedOn(table) = CHOOSE c \in dates : \A e \in dates : e <= c
    BY <1>1 DEF LatestRatedOn
  <1>3. LatestRatedOn(table) \in dates
    <2> HIDE DEF dates
    <2>1. PICK d \in dates : \A e \in dates : e <= d
      BY <1>1, LatestFound
    <2> QED BY <1>2, <2>1
  <1> QED BY <1>3

\* A header is a date or none.
LEMMA HeaderIsDate ==
  ASSUME NEW sheet \in Sheets
  PROVE  HeaderRatedOn(sheet) \in Nat
  <1> DEFINE cell == sheet.rating
  <1>1. CASE cell = <<>>
    BY <1>1 DEF HeaderRatedOn, parseSheetDateHeader, NoDate
  <1>2. CASE cell \in Nat \X Nat \X Nat
    <2>1. IsoDate(cell[1], cell[2], cell[3]) \in Nat
      BY <1>2 DEF IsoDate
    <2> QED BY <2>1 DEF HeaderRatedOn, parseSheetDateHeader, NoDate
  <1> QED BY <1>1, <1>2, SheetsAssumption

\* The date that is chosen is no later than the day of the run, nor, where nothing stored
\* is later than that day, earlier than what is stored.
LEMMA ChosenDate ==
  ASSUME NEW header \in Nat, NEW d \in Nat \ {NoDate}, NEW latest \in Nat
  PROVE  /\ chooseRatedOn(header, d, latest) \in 1..d
         /\ latest <= d => latest <= chooseRatedOn(header, d, latest)
         /\ \/ header = chooseRatedOn(header, d, latest)
            \/ /\ chooseRatedOn(header, d, latest) = d
               /\ header = NoDate \/ header > d \/ header < latest
  BY DEF chooseRatedOn, NoDate

-------------------------------------------------------------------------------
\* What one run's step has to show: the other runs know what they knew, and none of them
\* can be alone while this one is under way.
LEMMA StepInv ==
  ASSUME IInv, NEW s \in Sync, pc[s] \in Running,
         now' = now, alone' = alone,
         NEW step, pc' = [pc EXCEPT ![s] = step],
         \A u \in Sync \ {s} : /\ fetched'[u] = fetched[u] /\ day'[u] = day[u]
                               /\ ratedOn'[u] = ratedOn[u],
         TypeOK', Dated(ratings)', FallbackParses', SyncKnows(s)',
         alone[s] /\ (\A u \in Sync \ {s} : pc[u] \notin Running) => AloneKnows(s)'
  PROVE  IInv'
  <1>1. pc \in [Sync -> {"Idle"} \cup Running \cup Outcomes]
    BY DEF IInv, TypeOK
  <1>2. \A u \in Sync \ {s} : pc'[u] = pc[u]
    BY <1>1
  <1>3. Today' = Today
    BY DEF Today
  <1>4. ASSUME NEW u \in Sync \ {s} PROVE SyncKnows(u)' /\ AloneKnows(u)'
    <2>1. SyncKnows(u) /\ AloneKnows(u)
      BY DEF IInv
    <2>2. SyncKnows(u)'
      BY <1>2, <1>3, <2>1 DEF SyncKnows
    <2>3. ~(alone[u] /\ pc[u] \in Running \cup {"OK"})
      BY <2>1 DEF AloneKnows
    <2> QED BY <1>2, <2>2, <2>3 DEF AloneKnows
  <1>5. AloneKnows(s)'
    <2>1. CASE alone[s]
      <3>1. \A u \in Sync \ {s} : pc[u] \notin Running
        BY <2>1 DEF IInv, AloneKnows
      <3> QED BY <2>1, <3>1
    <2>2. CASE ~alone[s]
      BY <2>2 DEF AloneKnows
    <2> QED BY <2>1, <2>2
  <1> QED BY <1>4, <1>5 DEF IInv

\* A run that ends in an error knows nothing.
LEMMA ErrorInv ==
  ASSUME IInv, NEW s \in Sync, pc[s] \in Running,
         NEW step \in (Outcomes \ {"OK"}) \cup {"LastSnapshot"}, Goto(s, step),
         UNCHANGED <<now, live, tables, fetched, day, ratedOn, alone>>
  PROVE  IInv'
  <1>1. TypeOK' /\ pc'[s] = step
    BY DEF IInv, TypeOK, Goto, Outcomes, Running, tables
  <1>2. Dated(ratings)' /\ FallbackParses'
    BY DEF IInv, Dated, FallbackParses, tables, Today
  <1>3. SyncKnows(s)'
    BY <1>1 DEF SyncKnows, Outcomes, Storing
  <1>4. (\A u \in Sync \ {s} : pc[u] \notin Running) => AloneKnows(s)'
    BY <1>1 DEF AloneKnows, Outcomes, Storing, Goto, IInv, TypeOK
  <1> QED BY <1>1, <1>2, <1>3, <1>4, StepInv DEF Goto

LEMMA FetchInv ==
  ASSUME IInv, NEW s \in Sync, FetchLatest(s)
  PROVE  IInv'
  <1>1. /\ pc[s] = "FetchLatest" /\ pc[s] \in Running
        /\ now' = now /\ alone' = alone /\ UNCHANGED <<live, tables, day, ratedOn>>
        /\ fetched' = [fetched EXCEPT ![s] = [csv |-> live, fetchedAt |-> now]]
        /\ pc' = [pc EXCEPT ![s] = "Parse"]
    BY DEF FetchLatest, Goto, Running, tables
  <1>2. TypeOK' /\ pc'[s] = "Parse" /\ fetched'[s] \in Fetch
    BY <1>1 DEF IInv, TypeOK, Running, tables, Fetch
  <1>3. Dated(ratings)' /\ FallbackParses'
    BY <1>1 DEF IInv, Dated, FallbackParses, tables, Today
  <1>4. SyncKnows(s)'
    BY <1>2 DEF SyncKnows, Storing
  <1>5. (\A u \in Sync \ {s} : pc[u] \notin Running) => AloneKnows(s)'
    BY <1>1, <1>2 DEF AloneKnows, Storing, IInv, TypeOK
  <1>6. \A u \in Sync \ {s} : /\ fetched'[u] = fetched[u] /\ day'[u] = day[u]
                              /\ ratedOn'[u] = ratedOn[u]
    BY <1>1 DEF IInv, TypeOK
  <1> QED BY <1>1, <1>2, <1>3, <1>4, <1>5, <1>6, StepInv

LEMMA LastSnapshotInv ==
  ASSUME IInv, NEW s \in Sync, LastSnapshot(s)
  PROVE  IInv'
  <1>1. /\ pc[s] \in Running /\ now' = now /\ alone' = alone
        /\ UNCHANGED <<live, tables, day, ratedOn>>
    BY DEF LastSnapshot, Running, tables
  <1>2. CASE Goto(s, "INTERNAL_ERROR") /\ fetched' = fetched
    BY <1>1, <1>2, ErrorInv DEF Outcomes
  <1>3. ASSUME NEW c \in copies, fetched' = [fetched EXCEPT ![s] = c], Goto(s, "Parse")
        PROVE  IInv'
    <2>1. TypeOK' /\ pc'[s] = "Parse" /\ fetched'[s] \in Fetch
      BY <1>1, <1>3 DEF IInv, TypeOK, Running, tables, Goto
    <2>2. Dated(ratings)' /\ FallbackParses'
      BY <1>1 DEF IInv, Dated, FallbackParses, tables, Today
    <2>3. SyncKnows(s)'
      BY <2>1 DEF SyncKnows, Storing
    <2>4. (\A u \in Sync \ {s} : pc[u] \notin Running) => AloneKnows(s)'
      BY <1>3, <2>1 DEF AloneKnows, Storing, IInv, TypeOK, Goto
    <2>5. \A u \in Sync \ {s} : /\ fetched'[u] = fetched[u] /\ day'[u] = day[u]
                                /\ ratedOn'[u] = ratedOn[u]
      BY <1>1, <1>3 DEF IInv, TypeOK
    <2> QED BY <1>1, <1>3, <2>1, <2>2, <2>3, <2>4, <2>5, StepInv DEF Goto
  <1> QED BY <1>2, <1>3 DEF LastSnapshot, NewestCopies

\* The day is read after the sheet, and nothing stored is later than it.
LEMMA ParseInv ==
  ASSUME IInv, NEW s \in Sync, Parse(s)
  PROVE  IInv'
  <1>1. /\ pc[s] = "Parse" /\ pc[s] \in Running /\ now' = now /\ alone' = alone
        /\ UNCHANGED <<live, tables, fetched, ratedOn>>
        /\ fetched[s] \in Fetch /\ Today \in Nat \ {NoDate}
    BY TodayIsDate DEF Parse, Running, tables, IInv, SyncKnows, Today, TypeOK
  <1>2. CASE ~Parses(fetched[s].csv)
    <2>1. PICK step : step = ParseOutcome(fetched[s].csv)
      OBVIOUS
    <2>2. step \in Outcomes \ {"OK"}
      BY <1>2, <2>1 DEF Parses, ParseOutcome, Outcomes
    <2>3. Goto(s, step) /\ day' = day
      BY <1>2, <2>1 DEF Parse
    <2> QED BY <1>1, <2>2, <2>3, ErrorInv
  <1>3. CASE Parses(fetched[s].csv)
    <2>1. day' = [day EXCEPT ![s] = Today] /\ pc' = [pc EXCEPT ![s] = "LatestRatedOn"]
      BY <1>3 DEF Parse, Goto
    <2>2. TypeOK' /\ pc'[s] = "LatestRatedOn" /\ day'[s] = Today /\ fetched'[s] = fetched[s]
      BY <1>1, <2>1 DEF IInv, TypeOK, Running, tables
    <2>3. Dated(ratings)' /\ FallbackParses' /\ Today' = Today
      BY <1>1 DEF IInv, Dated, FallbackParses, tables, Today
    <2>4. SyncKnows(s)'
      BY <1>1, <1>3, <2>2, <2>3 DEF SyncKnows, Storing, NoDate
    <2>5. \A x \in DOMAIN ratings' : x[2] <= day'[s]
      BY <1>1, <2>2, <2>3 DEF Dated
    <2>6. (\A u \in Sync \ {s} : pc[u] \notin Running) => AloneKnows(s)'
      BY <2>1, <2>2, <2>5 DEF AloneKnows, Storing, IInv, TypeOK
    <2>7. \A u \in Sync \ {s} : /\ fetched'[u] = fetched[u] /\ day'[u] = day[u]
                                /\ ratedOn'[u] = ratedOn[u]
      BY <1>1, <2>1 DEF IInv, TypeOK
    <2> QED BY <1>1, <2>1, <2>2, <2>3, <2>4, <2>6, <2>7, StepInv
  <1> QED BY <1>2, <1>3

\* The date is chosen by what is stored, which is what a run that is alone will find.
LEMMA ReadLatestInv ==
  ASSUME IInv, NEW s \in Sync, ReadLatestRatedOn(s)
  PROVE  IInv'
  <1> DEFINE header == HeaderRatedOn(fetched[s].csv)
             latest == LatestRatedOn(ratings)
             chosen == chooseRatedOn(header, day[s], latest)
             next == IF stale[s] THEN "UpsertMany" ELSE "StoreSnapshot"
  <1>1. /\ pc[s] = "LatestRatedOn" /\ pc[s] \in Running /\ now' = now /\ alone' = alone
        /\ UNCHANGED <<live, tables, fetched, day>>
        /\ ratedOn' = [ratedOn EXCEPT ![s] = chosen] /\ pc' = [pc EXCEPT ![s] = next]
    BY DEF ReadLatestRatedOn, Goto, Running, tables
  <1>2. /\ fetched[s] \in Fetch /\ Parses(fetched[s].csv) /\ day[s] \in 1..Today
        /\ Today \in Nat \ {NoDate}
    BY <1>1, TodayIsDate DEF IInv, SyncKnows, Today, TypeOK
  <1>3. latest \in 0..Today /\ \A x \in DOMAIN ratings : x[2] <= latest
    BY <1>2, LatestBounds DEF IInv, Dated
  <1>4. header \in Nat
    BY <1>2, HeaderIsDate DEF Fetch
  <1>5. /\ chosen \in 1..day[s] /\ (latest <= day[s] => latest <= chosen)
        /\ \/ header = chosen
           \/ chosen = day[s] /\ (header = NoDate \/ header > day[s] \/ header < latest)
    <2>1. day[s] \in Nat \ {NoDate} /\ latest \in Nat
      BY <1>2, <1>3 DEF NoDate
    <2> HIDE DEF latest, header
    <2> QED BY <1>4, <2>1, ChosenDate
  <1> HIDE DEF chosen, latest, next
  <1>6. TypeOK' /\ pc'[s] = next /\ ratedOn'[s] = chosen /\ fetched'[s] = fetched[s]
    BY <1>1, <1>5 DEF IInv, TypeOK, Running, tables, next
  <1>7. Dated(ratings)' /\ FallbackParses' /\ Today' = Today
    BY <1>1 DEF IInv, Dated, FallbackParses, tables, Today
  <1>8. next \in Storing
    BY DEF next, Storing
  <1>9. chosen \in 1..Today
    BY <1>2, <1>5
  <1>10. SyncKnows(s)'
    BY <1>2, <1>6, <1>7, <1>8, <1>9 DEF SyncKnows, Storing
  <1>11. ASSUME alone[s]
         PROVE  Settled(s)' /\ \A x \in DOMAIN ratings : x[2] <= chosen
    <2>1. \A y \in DOMAIN ratings : y[2] \in 1..day[s]
      BY <1>1, <1>2, <1>11 DEF IInv, AloneKnows, Dated
    <2>2. latest <= day[s]
      BY <1>2, <2>1, LatestBounds DEF latest
    <2>3. ratedOn'[s] = chosen /\ day'[s] = day[s] /\ fetched'[s] = fetched[s]
      BY <1>1, <1>6
    <2>4. Settled(s)'
      <3> HIDE DEF header
      <3>1. \/ header = chosen
            \/ chosen = day[s] /\ (header = NoDate \/ header > day[s] \/ header < chosen)
        BY <1>2, <1>3, <1>4, <1>5, <2>2
      <3> QED BY <1>5, <2>3, <3>1 DEF Settled, header
    <2>5. \A x \in DOMAIN ratings : x[2] <= chosen
      <3> HIDE DEF header
      <3> QED BY <1>2, <1>3, <1>5, <2>1, <2>2
    <2> QED BY <2>4, <2>5
  <1> HIDE DEF header
  <1>12. alone[s] /\ (\A u \in Sync \ {s} : pc[u] \notin Running) => AloneKnows(s)'
    <2> SUFFICES ASSUME alone[s], \A u \in Sync \ {s} : pc[u] \notin Running
                 PROVE  AloneKnows(s)'
      OBVIOUS
    <2>1. \A u \in Sync \ {s} : pc'[u] \notin Running
      BY <1>1 DEF IInv, TypeOK
    <2>2. Settled(s)' /\ \A x \in DOMAIN ratings' : x[2] <= ratedOn'[s]
      BY <1>1, <1>6, <1>11 DEF tables
    <2>3. next \notin {"LatestRatedOn", "UpsertSnapshots", "OK"}
      BY DEF next
    <2> QED BY <1>6, <2>1, <2>2, <2>3 DEF AloneKnows
  <1>13. \A u \in Sync \ {s} : /\ fetched'[u] = fetched[u] /\ day'[u] = day[u]
                               /\ ratedOn'[u] = ratedOn[u]
    BY <1>1 DEF IInv, TypeOK
  <1> QED BY <1>1, <1>6, <1>7, <1>10, <1>12, <1>13, StepInv

\* What was imported once is not changed by importing it again.
LEMMA UpsertedTwice ==
  ASSUME NEW table, NEW sheet
  PROVE  UpsertedPlayers(UpsertedPlayers(table, sheet), sheet) = UpsertedPlayers(table, sheet)
  <1> DEFINE sent == ParsedPlayers(sheet)
             row(k) == [externalId |-> sent[k].externalId, displayName |-> sent[k].displayName,
                        club |-> FALSE]
             once == [k \in (DOMAIN table) \cup (DOMAIN sent) |->
                        IF k \in DOMAIN sent THEN row(k) ELSE table[k]]
             twice == [k \in (DOMAIN once) \cup (DOMAIN sent) |->
                        IF k \in DOMAIN sent THEN row(k) ELSE once[k]]
  <1>1. UpsertedPlayers(table, sheet) = once /\ UpsertedPlayers(once, sheet) = twice
    BY DEF UpsertedPlayers
  <1>2. twice = once
    <2> HIDE DEF sent, row
    <2> QED OBVIOUS
  <1> HIDE DEF once, twice
  <1> QED BY <1>1, <1>2

LEMMA StoreInv ==
  ASSUME IInv, NEW s \in Sync, StoreSnapshot(s) \/ UpsertMany(s)
  PROVE  IInv'
  <1>1. /\ pc[s] \in {"StoreSnapshot", "UpsertMany"} /\ pc[s] \in Running
        /\ now' = now /\ live' = live /\ ratings' = ratings
        /\ alone' = alone /\ fetched' = fetched /\ day' = day /\ ratedOn' = ratedOn
        /\ copies' \in {copies, copies \cup {fetched[s]}}
        /\ fetched[s] \in Fetch /\ Parses(fetched[s].csv) /\ ratedOn[s] \in 1..Today
    BY DEF StoreSnapshot, UpsertMany, Running, locals, IInv, SyncKnows, Storing
  <1>2. PICK step \in {"UpsertMany", "UpsertSnapshots", "INTERNAL_ERROR"} :
          pc' = [pc EXCEPT ![s] = step]
    BY DEF StoreSnapshot, UpsertMany, Goto
  <1>3. TypeOK' /\ pc'[s] = step
    BY <1>1, <1>2 DEF IInv, TypeOK, Running, Outcomes
  <1>4. Dated(ratings)' /\ FallbackParses' /\ Today' = Today
    BY <1>1 DEF IInv, Dated, FallbackParses, Today
  <1>5. SyncKnows(s)'
    BY <1>1, <1>2, <1>3, <1>4 DEF SyncKnows, Storing
  <1>6. alone[s] => Settled(s) /\ \A x \in DOMAIN ratings : x[2] <= ratedOn[s]
    BY <1>1 DEF IInv, AloneKnows, Storing
  <1>7. step = "UpsertSnapshots" => players' = UpsertedPlayers(players, fetched[s].csv)
    BY <1>2, <1>3 DEF StoreSnapshot, UpsertMany, Goto, IInv, TypeOK
  <1>8. step = "UpsertSnapshots" => UpsertedPlayers(players', fetched[s].csv) = players'
    BY <1>7, UpsertedTwice
  <1>9. alone[s] /\ (\A u \in Sync \ {s} : pc[u] \notin Running) => AloneKnows(s)'
    <2> SUFFICES ASSUME alone[s], \A u \in Sync \ {s} : pc[u] \notin Running
                 PROVE  AloneKnows(s)'
      OBVIOUS
    <2>1. \A u \in Sync \ {s} : pc'[u] \notin Running
      BY <1>2 DEF IInv, TypeOK
    <2>2. Settled(s)' /\ \A x \in DOMAIN ratings' : x[2] <= ratedOn'[s]
      BY <1>1, <1>6 DEF Settled
    <2> QED BY <1>1, <1>2, <1>3, <1>8, <2>1, <2>2 DEF AloneKnows
  <1> QED BY <1>1, <1>2, <1>3, <1>4, <1>5, <1>9, StepInv

\* The points of a run that is alone are dated no earlier than any others: they are current.
LEMMA UpsertInv ==
  ASSUME IInv, NEW s \in Sync, UpsertSnapshots(s)
  PROVE  IInv'
  <1>1. /\ pc[s] = "UpsertSnapshots" /\ pc[s] \in Running
        /\ now' = now /\ live' = live /\ copies' = copies
        /\ alone' = alone /\ fetched' = fetched /\ day' = day /\ ratedOn' = ratedOn
        /\ fetched[s] \in Fetch /\ Parses(fetched[s].csv) /\ ratedOn[s] \in 1..Today
        /\ players' = players
    BY DEF UpsertSnapshots, Running, locals, IInv, SyncKnows, Storing
  <1>2. CASE Goto(s, "INTERNAL_ERROR") /\ ratings' = ratings
    <2>1. UNCHANGED <<now, live, tables, fetched, day, ratedOn, alone>>
      BY <1>1, <1>2 DEF UpsertSnapshots, tables
    <2> QED BY <1>1, <1>2, <2>1, ErrorInv DEF Outcomes
  <1>3. CASE Goto(s, "OK") /\ ratings' = UpsertedRatings(ratings, fetched[s].csv, ratedOn[s])
    <2> DEFINE sent == ParsedPoints(fetched[s].csv)
               date == ratedOn[s]
               new == (DOMAIN sent) \X {date}
    <2>1. ratings' = [x \in DOMAIN ratings \cup new |-> IF x \in new THEN sent[x[1]] ELSE ratings[x]]
      BY <1>3 DEF UpsertedRatings
    <2>2. TypeOK' /\ pc'[s] = "OK" /\ Today' = Today
      BY <1>1, <1>3 DEF IInv, TypeOK, Running, Outcomes, Goto, Today
    <2>3. FallbackParses'
      BY <1>1 DEF IInv, FallbackParses
    <2>4. \A x \in new : x = <<x[1], x[2]>> /\ x[2] = date /\ x[1] \in DOMAIN sent
      <3> HIDE DEF sent, date
      <3> QED OBVIOUS
    <2> HIDE DEF sent, new
    <2>5. DOMAIN ratings' = DOMAIN ratings \cup new
      BY <2>1
    <2>6. Dated(ratings)'
      <3>1. ratings' = [x \in DOMAIN ratings' |-> ratings'[x]]
        BY <2>1
      <3>2. \A x \in DOMAIN ratings' : x = <<x[1], x[2]>> /\ x[2] \in 1..Today'
        BY <1>1, <2>2, <2>4, <2>5 DEF IInv, Dated
      <3> QED BY <3>1, <3>2 DEF Dated
    <2>7. SyncKnows(s)'
      BY <1>1, <2>2 DEF SyncKnows, Storing
    <2>8. \A k \in DOMAIN sent : <<k, date>> \in DOMAIN ratings' /\ ratings'[<<k, date>>] = sent[k]
      BY <2>1, <2>5 DEF new
    <2>9. alone[s] /\ (\A u \in Sync \ {s} : pc[u] \notin Running) => AloneKnows(s)'
      <3> SUFFICES ASSUME alone[s], \A u \in Sync \ {s} : pc[u] \notin Running
                   PROVE  AloneKnows(s)'
        OBVIOUS
      <3>1. \A u \in Sync \ {s} : pc'[u] \notin Running
        BY <1>3 DEF Goto, IInv, TypeOK
      <3>2. /\ Settled(s) /\ \A x \in DOMAIN ratings : x[2] <= date
            /\ UpsertedPlayers(players, fetched[s].csv) = players
        BY <1>1 DEF IInv, AloneKnows, Storing
      <3>3. Settled(s)' /\ UpsertedPlayers(players', fetched'[s].csv) = players'
        BY <1>1, <3>2 DEF Settled
      <3>4. \A x \in DOMAIN ratings' : x[2] <= ratedOn'[s]
        BY <1>1, <2>4, <2>5, <3>2
      <3>5. \A k \in DOMAIN ParsedPoints(fetched'[s].csv) :
              /\ <<k, ratedOn'[s]>> \in DOMAIN ratings'
              /\ ratings'[<<k, ratedOn'[s]>>] = ParsedPoints(fetched'[s].csv)[k]
        BY <1>1, <2>8 DEF sent
      <3> QED BY <2>2, <3>1, <3>3, <3>4, <3>5 DEF AloneKnows
    <2> QED BY <1>1, <1>3, <2>2, <2>3, <2>6, <2>7, <2>9, StepInv DEF Goto
  <1> QED BY <1>2, <1>3 DEF UpsertSnapshots

\* A run that starts is alone if no other is under way; all others are alone no longer.
LEMMA StartInv ==
  ASSUME IInv, NEW s \in Sync, Start(s)
  PROVE  IInv'
  <1>1. /\ now' = now /\ live' = live /\ copies' = copies /\ ratings' = ratings
        /\ fetched' = fetched /\ day' = day /\ ratedOn' = ratedOn
        /\ pc' = [pc EXCEPT ![s] = "FetchLatest"]
        /\ alone' = [t \in Sync |-> t = s /\ \A u \in Sync : pc[u] \notin Running]
    BY DEF Start, Goto, tables
  <1>2. TypeOK' /\ pc'[s] = "FetchLatest" /\ \A u \in Sync \ {s} : pc'[u] = pc[u]
    BY <1>1 DEF IInv, TypeOK, Running
  <1>3. Dated(ratings)' /\ FallbackParses' /\ Today' = Today
    BY <1>1 DEF IInv, Dated, FallbackParses, Today
  <1>4. \A u \in Sync : SyncKnows(u)'
    <2>1. SyncKnows(s)'
      BY <1>2 DEF SyncKnows, Storing
    <2>2. \A u \in Sync \ {s} : SyncKnows(u)'
      BY <1>1, <1>2, <1>3 DEF IInv, SyncKnows
    <2> QED BY <2>1, <2>2
  <1>5. \A u \in Sync : AloneKnows(u)'
    <2>1. AloneKnows(s)'
      BY <1>1, <1>2 DEF AloneKnows, Storing
    <2>2. \A u \in Sync \ {s} : ~alone'[u]
      BY <1>1
    <2> QED BY <2>1, <2>2 DEF AloneKnows
  <1> QED BY <1>2, <1>3, <1>4, <1>5 DEF IInv

\* Time passes, the sheet changes, or nothing does.
LEMMA WorldInv ==
  ASSUME IInv, EditSheet \/ Tick \/ UNCHANGED vars
  PROVE  IInv'
  <1>1. /\ pc' = pc /\ copies' = copies /\ ratings' = ratings /\ fetched' = fetched
        /\ players' = players
        /\ day' = day /\ ratedOn' = ratedOn /\ alone' = alone
        /\ live' \in Sheets /\ now' \in Instants /\ (now' = now \/ now' = now + 1)
    BY DEF EditSheet, Tick, vars, tables, locals, IInv, TypeOK
  <1>2. Today \in Nat /\ Today' \in Nat /\ Today <= Today'
    <2>1. now \in DOMAIN Calendar /\ now' \in DOMAIN Calendar /\ now <= now'
      BY <1>1, CalendarAssumption DEF IInv, TypeOK, Instants
    <2> QED BY <2>1, CalendarAssumption DEF Today
  <1>3. TypeOK'
    BY <1>1 DEF IInv, TypeOK
  <1>4. Dated(ratings)' /\ FallbackParses'
    BY <1>1, <1>2 DEF IInv, Dated, FallbackParses
  <1>5. \A s \in Sync : SyncKnows(s)'
    BY <1>1, <1>2 DEF IInv, SyncKnows
  <1>6. \A s \in Sync : AloneKnows(s)'
    BY <1>1 DEF IInv, AloneKnows, Settled
  <1> QED BY <1>3, <1>4, <1>5, <1>6 DEF IInv

LEMMA InitInv ==
  ASSUME Init
  PROVE  IInv
  <1> USE DEF Init
  <1>1. now \in Instants
    BY CalendarAssumption DEF Instants
  <1>2. TypeOK
    BY <1>1 DEF TypeOK, NoDate
  <1>3. DOMAIN ratings = {}
    OBVIOUS
  <1>4. \A s \in Sync : pc[s] = "Idle"
    OBVIOUS
  <1>5. Dated(ratings) /\ FallbackParses
    BY <1>3 DEF Dated, FallbackParses
  <1>6. \A s \in Sync : SyncKnows(s) /\ AloneKnows(s)
    BY <1>4 DEF SyncKnows, AloneKnows, Storing, Running
  <1> QED BY <1>2, <1>5, <1>6 DEF IInv

-------------------------------------------------------------------------------
\* However runs overlap, fail, and find the sheet, IInv holds.
THEOREM Invariance == Spec => []IInv
  <1>1. Init => IInv
    BY InitInv
  <1>2. IInv /\ [Next]_vars => IInv'
    <2> SUFFICES ASSUME IInv, [Next]_vars PROVE IInv'
      OBVIOUS
    <2>1. ASSUME NEW s \in Sync, SyncStep(s) PROVE IInv'
      <3>1. CASE FetchThrows(s)
        BY <3>1, ErrorInv DEF FetchThrows, Running, locals
      <3>2. CASE FailSync(s)
        BY <3>2, ErrorInv DEF FailSync, Outcomes, locals
      <3> QED BY <2>1, <3>1, <3>2, StartInv, FetchInv, LastSnapshotInv, ParseInv, ReadLatestInv,
                 StoreInv, UpsertInv DEF SyncStep
    <2> QED BY <2>1, WorldInv DEF Next
  <1> QED BY <1>1, <1>2, PTL DEF Spec

\* No points are dated after the day on which they are looked at, whatever the header of
\* the sheet says and however late a run stores them (sync-rankings.ts:31-33).
THEOREM NoFutureDates == Spec => []NeverInFuture
  <1>1. IInv => NeverInFuture
    <2>1. IInv => Today \in Nat
      BY TodayIsDate DEF IInv, TypeOK, Today
    <2> QED BY <2>1 DEF IInv, Dated, NeverInFuture
  <1> QED BY <1>1, Invariance, PTL

\* A copy is kept of a sheet that parsed, and of no other (sync-rankings.ts stores it after
\* the parse), so an import of it never aborts there.
THEOREM CopiesParse == Spec => []FallbackParses
  <1>1. IInv => FallbackParses
    BY DEF IInv
  <1> QED BY <1>1, Invariance, PTL

\* What a run that overlapped no other has left, and any further import of its sheet under
\* a date that is no earlier, is current.
LEMMA ImportIsCurrent ==
  ASSUME NEW table, NEW sheet, NEW date \in Nat, NEW k \in DOMAIN ParsedPoints(sheet),
         \A x \in DOMAIN table : x = <<x[1], x[2]>> /\ x[2] \in Nat /\ x[2] <= date
  PROVE  IsCurrent(UpsertedRatings(table, sheet, date), k, ParsedPoints(sheet)[k])
  <1> DEFINE sent == ParsedPoints(sheet)
             new == (DOMAIN sent) \X {date}
             then == UpsertedRatings(table, sheet, date)
  <1>1. then = [x \in DOMAIN table \cup new |-> IF x \in new THEN sent[x[1]] ELSE table[x]]
    BY DEF UpsertedRatings
  <1> HIDE DEF sent, then
  <1>2. <<k, date>> \in new
    BY DEF sent
  <1>3. \A x \in new : x[2] = date
    OBVIOUS
  <1> HIDE DEF new
  <1>4. <<k, date>> \in DOMAIN then /\ then[<<k, date>>] = sent[k]
    BY <1>1, <1>2
  <1>5. \A x \in DOMAIN then : x[2] <= date
    BY <1>1, <1>3
  <1>6. date \in {x[2] : x \in DOMAIN then}
    BY <1>4
  <1> QED BY <1>4, <1>5, <1>6 DEF IsCurrent, then, sent

\* A run that overlapped no other leaves every player of its sheet showing its points,
\* whatever was stored before it and under whatever dates (sync-rankings.ts:30-33).
THEOREM ShowsWhatItStored == Spec => []LoneSyncShows
  <1>1. IInv => LoneSyncShows
    <2> SUFFICES ASSUME IInv, NEW s \in Sync, pc[s] = "OK", alone[s],
                        NEW k \in DOMAIN ParsedPoints(fetched[s].csv)
                 PROVE  IsCurrent(ratings, k, ParsedPoints(fetched[s].csv)[k])
      BY DEF LoneSyncShows
    <2>1. AloneKnows(s)
      BY DEF IInv
    <2>2. /\ <<k, ratedOn[s]>> \in DOMAIN ratings
          /\ ratings[<<k, ratedOn[s]>>] = ParsedPoints(fetched[s].csv)[k]
          /\ \A x \in DOMAIN ratings : x[2] <= ratedOn[s]
      BY <2>1 DEF AloneKnows
    <2>3. ratedOn[s] \in {x[2] : x \in DOMAIN ratings}
      BY <2>2
    <2> QED BY <2>2, <2>3 DEF IsCurrent
  <1> QED BY <1>1, Invariance, PTL

\* Importing the sheet of such a run again changes no row on the same day and no current
\* points on a later one (sync-rankings.ts:27-29).
THEOREM RerunIsIdle == Spec => []RerunChangesNothing
  <1>1. IInv => RerunChangesNothing
    <2> DEFINE sheet(s) == fetched[s].csv
               date(s, d) == chooseRatedOn(HeaderRatedOn(sheet(s)), d, LatestRatedOn(ratings))
    <2> SUFFICES ASSUME IInv, NEW s \in Sync, pc[s] = "OK", alone[s],
                        NEW d \in Range(Calendar), d >= Today
                 PROVE  /\ UpsertedPlayers(players, sheet(s)) = players
                        /\ d = day[s] => UpsertedRatings(ratings, sheet(s), date(s, d)) = ratings
                        /\ \A k \in DOMAIN ParsedPoints(sheet(s)) :
                             IsCurrent(UpsertedRatings(ratings, sheet(s), date(s, d)), k,
                                       ParsedPoints(sheet(s))[k])
      BY DEF RerunChangesNothing
    <2> DEFINE header == HeaderRatedOn(sheet(s))
               latest == LatestRatedOn(ratings)
               sent == ParsedPoints(sheet(s))
    <2>1. /\ UpsertedPlayers(players, sheet(s)) = players /\ Settled(s)
          /\ \A x \in DOMAIN ratings : x[2] <= ratedOn[s]
          /\ \A k \in DOMAIN sent : /\ <<k, ratedOn[s]>> \in DOMAIN ratings
                                    /\ ratings[<<k, ratedOn[s]>>] = sent[k]
      BY DEF IInv, AloneKnows
    <2>2. /\ \A x \in DOMAIN ratings : x = <<x[1], x[2]>> /\ x[2] \in 1..Today
          /\ ratings = [x \in DOMAIN ratings |-> ratings[x]]
          /\ Today \in Nat /\ fetched[s] \in Fetch /\ day[s] \in Nat /\ ratedOn[s] \in Nat
      BY TodayIsDate DEF IInv, Dated, SyncKnows, TypeOK, Today
    <2>3. d \in Nat \ {NoDate}
      BY CalendarAssumption DEF Range
    <2>4. latest \in 0..Today /\ \A x \in DOMAIN ratings : x[2] <= latest
      BY <2>2, LatestBounds
    <2>5. header \in Nat
      BY <2>2, HeaderIsDate DEF Fetch
    <2>6. date(s, d) \in 1..d /\ latest <= date(s, d)
      <3> HIDE DEF header, latest
      <3>1. latest \in Nat /\ latest <= d
        BY <2>2, <2>3, <2>4
      <3> QED BY <2>3, <2>5, <3>1, ChosenDate DEF header, latest
    <2>7. ASSUME NEW k \in DOMAIN sent
          PROVE  IsCurrent(UpsertedRatings(ratings, sheet(s), date(s, d)), k, sent[k])
      <3>1. \A x \in DOMAIN ratings :
              x = <<x[1], x[2]>> /\ x[2] \in Nat /\ x[2] <= date(s, d)
        <4> HIDE DEF date, latest
        <4> QED BY <2>2, <2>3, <2>4, <2>6
      <3>2. date(s, d) \in Nat
        <4> HIDE DEF date
        <4> QED BY <2>3, <2>6
      <3> HIDE DEF date
      <3> QED BY <3>1, <3>2, ImportIsCurrent
    <2>8. ASSUME d = day[s]
          PROVE  UpsertedRatings(ratings, sheet(s), date(s, d)) = ratings
      <3> DEFINE new == (DOMAIN sent) \X {date(s, d)}
      <3>1. UpsertedRatings(ratings, sheet(s), date(s, d)) =
              [x \in DOMAIN ratings \cup new |-> IF x \in new THEN sent[x[1]] ELSE ratings[x]]
        BY DEF UpsertedRatings
      <3>2. \A x \in new : x \in DOMAIN ratings /\ ratings[x] = sent[x[1]]
        <4> SUFFICES ASSUME NEW k \in DOMAIN sent
                     PROVE  /\ <<k, date(s, d)>> \in DOMAIN ratings
                            /\ ratings[<<k, date(s, d)>>] = sent[k]
          OBVIOUS
        <4>1. latest = ratedOn[s]
          <5> HIDE DEF sent, latest
          <5>1. <<k, ratedOn[s]>> \in DOMAIN ratings
            BY <2>1
          <5>2. ratedOn[s] <= latest
            BY <2>4, <5>1
          <5>3. \E x \in DOMAIN ratings : latest = x[2]
            BY <2>2, LatestStored, <5>1 DEF latest
          <5> QED BY <2>1, <2>2, <2>4, <5>2, <5>3
        <4>2. date(s, d) = ratedOn[s]
          <5> HIDE DEF header, latest
          <5>1. /\ ratedOn[s] \in 1..day[s]
                /\ \/ header = ratedOn[s]
                   \/ ratedOn[s] = day[s] /\ (header = NoDate \/ header > day[s] \/ header < ratedOn[s])
            BY <2>1 DEF Settled, header
          <5>2. chooseRatedOn(header, day[s], ratedOn[s]) = ratedOn[s]
            BY <2>2, <2>5, <5>1 DEF chooseRatedOn, NoDate
          <5> QED BY <2>8, <4>1, <5>2 DEF header, latest
        <4> QED BY <2>1, <4>2
      <3> HIDE DEF new
      <3> QED BY <2>2, <3>1, <3>2
    <2> QED BY <2>1, <2>7, <2>8
  <1> QED BY <1>1, Invariance, PTL
===============================================================================
