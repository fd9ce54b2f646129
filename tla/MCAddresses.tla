----------------------------- MODULE MCAddresses -----------------------------
(***************************************************************************)
(* Small instances of Addresses.  With MaxSlug = 4 a base has room for two *)
(* symbols beside the infix and a number.                                  *)
(***************************************************************************)
EXTENDS AddressesInv, TLC

CONSTANTS x, y           \* letters

\* A short address; one that a publication is given although it looks like the one a
\* replaced tournament moves to; one that fills the limit and is cut at a hyphen; and
\* two that are cut to the same base, one of them to itself.
Mixed == {<<x>>, <<x, Infix, 1>>, <<x, Hyphen, x, x>>}
Entangled == {<<x, y, x, x>>, <<x, y, Infix, 1>>}
Both == Mixed \cup Entangled

\* One address that fills the limit.
Full == {<<x, y, x, x>>}

\* Requests are interchangeable with their like.
Identities == Permutations(Publisher) \cup Permutations(Organiser)
===============================================================================
