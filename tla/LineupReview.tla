----------------------------- MODULE LineupReview -----------------------------
(***************************************************************************)
(* What the organiser reviews and what is derived of it: the table of the  *)
(* page (AdminPage) and the groups of its payload (Lineup).  The page and  *)
(* the server sort each on their own.                                      *)
(***************************************************************************)
EXTENDS AdminPage, Lineup

\* There is one null, which is not a number.
ASSUME OneNull == Null = None /\ Null \notin Int

ASSUME RepliesAreRows ==
  \A reply \in Replies : Len(reply.rows) \in Nat /\ DOMAIN reply.rows = 1..Len(reply.rows)

ASSUME EditsAreOfCells ==
  \A e \in CellEdits : e.cell.kind \in {"playerName", "playerPoints", "totalPoints", "club"}

(***************************************************************************)
(* The organiser reviews the real order (core/lineup-extraction, header;   *)
(* FR-113): each row of the table is at one place of the groups that will  *)
(* be derived from the draft's payload, and the groups, read one after     *)
(* another, are the table from top to bottom.  And each row can be told    *)
(* from the others: an edit or a removal is of that row.                   *)
(***************************************************************************)
ReviewedOrderIsGrouped ==
  /\ page.draft # Null => Cardinality(SourceIndexes(page.draft)) = Len(page.draft.rows)
  /\ ~page.typed /\ page.payload # Null =>
       LET groups   == grouped(page.payload.pairs)
           places   == UNION {{<<g, m>> : m \in DOMAIN groups[g].members} : g \in DOMAIN groups}
           RowAt(x) == groups[x[1]].members[x[2]]
       IN  /\ {RowAt(x) : x \in places} = DOMAIN page.payload.pairs
           /\ \A x, y \in places :
                x[1] < y[1] \/ (x[1] = y[1] /\ x[2] < y[2]) => RowAt(x) < RowAt(y)
===============================================================================
