-------------------------------- MODULE Places --------------------------------
(***************************************************************************)
(* Places of a list: the n-th of a set of them, and what the list has      *)
(* there, in its order.  What a filter keeps is picked so.                 *)
(***************************************************************************)
EXTENDS Integers, FiniteSets

nth(places, n) == CHOOSE i \in places : Cardinality({j \in places : j <= i}) = n

pick(items, places) == [n \in 1..Cardinality(places) |-> items[nth(places, n)]]
===============================================================================
