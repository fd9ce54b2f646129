-------------------------------- MODULE Window --------------------------------
(***************************************************************************)
(* The voting window: what every handler decides from a tournament row and *)
(* an instant (packages/core/src/window).                                  *)
(*                                                                         *)
(* Instants are naturals.  A row is a record with at least the fields      *)
(* publishedAt, startsAt and invalidatedAt; None is SQL's null.            *)
(***************************************************************************)
EXTENDS Integers

CONSTANT None            \* null: never published, never invalidated, no row

ASSUME NoneAssumption == None \notin Nat

(***************************************************************************)
(* The status is derived, never stored.  The start instant itself is       *)
(* already closed, and an invalidated tournament is closed at any instant. *)
(***************************************************************************)
tournamentStatusAt(t, now) ==
  IF t.publishedAt = None THEN "draft"
  ELSE IF t.invalidatedAt = None /\ now < t.startsAt THEN "open" ELSE "closed"

isVotingOpen(t, now) == tournamentStatusAt(t, now) = "open"
===============================================================================
