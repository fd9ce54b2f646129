----------------------------- MODULE AddressesInv -----------------------------
(***************************************************************************)
(* The inductive invariant of Addresses, in named parts.  None of the      *)
(* properties is inductive: that addresses stay different depends on the   *)
(* keys that open transactions have written, which no row shows.           *)
(***************************************************************************)
EXTENDS Addresses

Locking(o) == pc[o] \in {"locked", "numbered", "renamed", "published"}
Inserting(p) == pc[p] \in {"inserted", "published"}

\* A publication under way has an address, and a start after the instant it read.
PublisherKnows(p) ==
  LET r == req[p] IN
  /\ pc[p] \in {"idle"} \cup PublishSteps \cup Answers
  /\ r.original = None
  /\ pc[p] \in {"derived", "free", "inserted"} =>
       r.slug \in Slug /\ r.startsAt \in Instant /\ r.now \in Instant /\ r.now < r.startsAt
  /\ pc[p] = "inserted" => r.id \in Tournament \ Published

\* What the locals of a replacement say at each await.  From the lock to the commit the
\* original is live and keeps the address that was read under the lock.
OrganiserKnows(o) ==
  LET r == req[o] IN
  /\ pc[o] \in {"idle"} \cup ReplaceSteps \cup Answers
  /\ pc[o] \in {"previewed", "loaded", "prepared"} \/ Locking(o) =>
       r.slug \in Slug /\ r.startsAt \in Instant
  /\ pc[o] \in {"loaded", "prepared"} \/ Locking(o) => r.original \in Published
  /\ pc[o] = "prepared" \/ Locking(o) => r.now \in Instant /\ r.now < r.startsAt
  /\ Locking(o) => ~Replaced(r.original) /\ r.slug = rows[r.original].slug
  /\ Locking(o) /\ pc[o] # "locked" => r.moved \in Slug
  /\ pc[o] = "published" => r.id \in Tournament \ Published /\ r.moved # r.slug

\* No two open transactions have written one key, inserted one id or locked one row;
\* a key an open transaction has written is no committed row's, but that of the row it
\* is replacing.
KeysExclude ==
  /\ \A p, q \in Process : p # q => Written(p) \cap Written(q) = {}
  /\ \A p \in Process : \A t \in Published :
       rows[t].slug \in Written(p) => t = req[p].original
  /\ \A p, q \in Process : Inserting(p) /\ Inserting(q) /\ p # q => req[p].id # req[q].id
  /\ \A o, q \in Organiser :
       Locking(o) /\ Locking(q) /\ o # q => req[o].original # req[q].original

\* One link of a lineage: a live tournament has the address it was published under; a
\* replaced one has given it up to a tournament published under that same address.
LineageKept ==
  \A t \in Published :
    IF Replaced(t)
    THEN /\ rows[t].replacedBy \in Published
         /\ rows[rows[t].replacedBy].born = rows[t].born
         /\ rows[t].slug # rows[t].born
    ELSE rows[t].slug = rows[t].born

TablesKeep == IsFiniteSet(Published) /\ OneTournamentPerAddress /\ LineageKept

IInv ==
  /\ TypeOK
  /\ \A p \in Publisher : PublisherKnows(p)
  /\ \A o \in Organiser : OrganiserKnows(o)
  /\ KeysExclude
  /\ TablesKeep
===============================================================================
