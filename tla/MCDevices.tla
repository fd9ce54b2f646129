------------------------------- MODULE MCDevices -------------------------------
(***************************************************************************)
(* Small instances of Devices: a browser with one tab or two, and a second *)
(* browser.                                                                *)
(***************************************************************************)
EXTENDS Devices, TLC

CONSTANTS d1, d2, t1, t2

OneTab == t1 :> d1
TwoBrowsers == t1 :> d1 @@ t2 :> d2

Identities == Permutations(Group) \cup Permutations(Post) \cup Permutations(Voter)
===============================================================================
