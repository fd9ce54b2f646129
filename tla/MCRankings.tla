----------------------------- MODULE MCRankings -----------------------------
(***************************************************************************)
(* Small instances of Rankings: two people, one of them written in two     *)
(* ways, on 12 and 13 September 2026, with no integer larger than 9.       *)
(***************************************************************************)
EXTENDS Rankings, TLC

CONSTANTS ana, anaAccented, rui     \* names as the sheet writes them

Names    == {ana, anaAccented, rui}
Keys     == ana :> "ana" @@ anaAccented :> "ana" @@ rui :> "rui"

TwoDays  == <<20260912, 20260913>>

Row(i, n, p)  == [id |-> i, name |-> n, points |-> p]
Sheet(h, rows) == [id |-> 0, name |-> 1, width |-> 3, rating |-> h, rows |-> rows]

Older    == <<5, 9, 2026>>
Newer    == <<12, 9, 2026>>
Tomorrow == <<13, 9, 2026>>
Swapped  == <<9, 12, 2026>>    \* 12 September, month first
NoSuchDay == <<31, 9, 2026>>

\* The two share an id, which the sheet does.
Week1   == Sheet(Older,    <<Row(1, ana, 1), Row(1, rui, 2)>>)
Week2   == Sheet(Newer,    <<Row(1, ana, 3), Row(2, rui, Blank), Row(0, ana, 9)>>)
Misread == Sheet(Swapped,  <<Row(1, anaAccented, 4), Row(1, rui, 5)>>)
Undated == Sheet(NoSuchDay, <<Row(1, ana, 6), Row(2, NoName, 9)>>)
Early   == Sheet(Tomorrow, <<Row(1, ana, 7)>>)
Twice   == Sheet(Newer,    <<Row(1, ana, 8), Row(2, anaAccented, 9)>>)
HugeId  == Sheet(Newer,    <<Row(10, ana, 1), Row(2, rui, 1)>>)
Huge    == Sheet(Newer,    <<Row(1, ana, 10), Row(2, rui, 1)>>)

Dated    == {Week1, Week2}
Changing == {Week1, Week2, Misread, Undated, Early, Twice, HugeId, Huge}

Nobody   == <<>>
WithClub == "ana" :> [externalId |-> 1, displayName |-> ana, club |-> TRUE]

Runs == Permutations(Sync)
=============================================================================
