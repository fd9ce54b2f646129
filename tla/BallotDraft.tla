----------------------------- MODULE BallotDraft ------------------------------
(***************************************************************************)
(* The ordering a voter builds on the form, one tap at a time              *)
(* (packages/ui-logic/src/ballot.ts).                                      *)
(***************************************************************************)
EXTENDS CarryOver, FiniteSets

CONSTANT Size            \* how many pairs the group has; pairs are 1..Size, as displayed

ASSUME SizeAssumption == Size \in Nat \ {0}

PairId == 1..Size
Position == 1..Size

\* A draft maps pairs to positions; one that has not been placed yet has no entry.
Taken(d) == {d[p] : p \in DOMAIN d}
Without(d, p) == [q \in DOMAIN d \ {p} |-> d[q]]
With(d, p, position) == [q \in DOMAIN d \cup {p} |-> IF q = p THEN position ELSE d[q]]

Empty == [p \in {} |-> 0]

VARIABLE draft           \* position by pair

-------------------------------------------------------------------------------
(***************************************************************************)
(* ballotReducer.                                                          *)
(***************************************************************************)

\* assign: the pair that held the position takes this one's old one, if it had one.
assign(d, p, position) ==
  LET displaced == {q \in DOMAIN d : d[q] = position /\ q # p} IN
  IF displaced = {} THEN With(d, p, position)
  ELSE LET q == CHOOSE x \in displaced : TRUE IN
       IF p \in DOMAIN d
       THEN With(With(d, q, d[p]), p, position)
       ELSE With(Without(d, q), p, position)

\* fill-remaining: the n-th pair without a position gets the n-th position that is free.
Rank(x, S) == Cardinality({y \in S : y <= x})

fillRemaining(d) ==
  LET open == PairId \ DOMAIN d
      free == Position \ Taken(d)
  IN  [p \in PairId |->
        IF p \in DOMAIN d THEN d[p]
        ELSE CHOOSE position \in free : Rank(position, free) = Rank(p, open)]

isComplete_OneShort(d) == Cardinality(DOMAIN d) >= Size - 1

isComplete(d) ==
  /\ DOMAIN d = PairId
  /\ \A p, q \in DOMAIN d : d[p] = d[q] => p = q
  /\ \A p \in DOMAIN d : d[p] \in Position

\* toSubmission: the body by pair as displayed, or null.
NoSubmission == <<>>
Undefined == 0

toSubmission(d) ==
  IF isComplete(d)
  THEN [p \in PairId |-> IF p \in DOMAIN d THEN d[p] ELSE Undefined]
  ELSE NoSubmission

-------------------------------------------------------------------------------
DraftInit == draft = Empty

Assign(p, position) == draft' = assign(draft, p, position)
Clear(p) == p \in DOMAIN draft /\ draft' = Without(draft, p)
FillRemaining == draft' = fillRemaining(draft)
Reset == draft' = Empty

DraftNext ==
  \/ \E p \in PairId, position \in Position : Assign(p, position)
  \/ \E p \in PairId : Clear(p)
  \/ FillRemaining
  \/ Reset

DraftSpec == DraftInit /\ [][DraftNext]_draft

-------------------------------------------------------------------------------
Displayed == [p \in PairId |-> p]

(***************************************************************************)
(* The form and the server agree: whatever is sent passes the rules of     *)
(* validateBallot, a form with every pair placed is sent, and from any     *)
(* draft filling what remains gives such a form.  The rule is written      *)
(* twice, on purpose (ballot.ts:10-13).                                    *)
(***************************************************************************)
SubmitsWhatIsAccepted ==
  /\ toSubmission(draft) # NoSubmission => validateBallot(Displayed, toSubmission(draft))
  /\ DOMAIN draft = PairId => toSubmission(draft) # NoSubmission
  /\ isComplete(fillRemaining(draft))
===============================================================================
