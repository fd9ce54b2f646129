------------------------------ MODULE Addresses ------------------------------
(***************************************************************************)
(* The addresses of tournaments (slugs): publications and replacements     *)
(* that compete for them.                                                  *)
(*                                                                         *)
(* Publishers' requests run publishTournament over the transaction of      *)
(* packages/db/src/tournaments (publish); organisers preview a replacement *)
(* and then confirm it, which runs replaceTournament over replace.  One    *)
(* action is one await, as in BallotBox: tables hold what is committed,    *)
(* and the keys an open transaction has written under the unique index on  *)
(* slug are read off the program counters.  Lineups and ballots are left   *)
(* to BallotBox; here a tournament is its row.                             *)
(***************************************************************************)
EXTENDS Window, Sequences, FiniteSets

CONSTANTS
  Tournament,            \* ids a tournament may be given
  Publisher,             \* requests to publish, each served once
  Organiser,             \* organisers, each with one replacement to make
  Letter,                \* letters of a slug
  Derived,               \* the slugs a publication may derive or be given
  Infix,                 \* the text -invalidado-, one symbol of a slug
  Hyphen,                \* a hyphen
  MaxSlug,               \* the longest slug, in symbols (MAX_SLUG_LENGTH)
  MaxDepth,              \* how far a chain of replacements is followed
  Horizon                \* bound on the clock

ASSUME AddressesConstants ==
  /\ Horizon \in Nat
  /\ None \notin Tournament
  /\ Publisher \cap Organiser = {}
  /\ MaxSlug \in Nat /\ MaxSlug > 2
  /\ MaxDepth \in Nat /\ MaxDepth > 0
  /\ \A slug \in Derived : slug \in Seq(Letter \cup {Hyphen, Infix} \cup Nat) /\ Len(slug) \in 1..MaxSlug

Instant == 0..Horizon
Process == Publisher \cup Organiser

VARIABLES
  clock,                 \* server time
  rows,                  \* the committed rows of tournaments, by id
  pc,                    \* where each request is, or the answer it gave
  req                    \* its locals

vars == <<clock, rows, pc, req>>

Published == DOMAIN rows
Replaced(t) == rows[t].invalidatedAt # None
SlugsTaken == {rows[t].slug : t \in Published}

NoReq == [slug |-> None, startsAt |-> None, now |-> None,
          original |-> None, seen |-> None, moved |-> None, id |-> None]

\* FAILED stands for a 500, a lost connection and a killed function, COLLISION for the
\* 500 of a replacement that violates the unique index.
Answers == {"PUBLISHED", "SLUG_TAKEN", "REPLACED", "NOT_REPLACEABLE", "NOT_FOUND",
            "NOT_CONFIRMED", "REJECTED", "COLLISION", "FAILED"}
Answered(p) == pc[p] \in Answers

Goto(p, step) == pc' = [pc EXCEPT ![p] = step]
Answer(p, answer) == Goto(p, answer) /\ req' = [req EXCEPT ![p] = NoReq]

-------------------------------------------------------------------------------
(***************************************************************************)
(* invalidatedSlug: the base, the infix and one more than the highest      *)
(* number taken under that base.  The base is truncated to make room, with *)
(* no hyphen left at the cut; the numbers are looked up under the whole    *)
(* base.  A slug is a sequence of symbols, of which the infix is one and a *)
(* number is one.                                                          *)
(***************************************************************************)
Highest(S) == CHOOSE n \in S : \A m \in S : m <= n

StripHyphens(s) == SubSeq(s, 1, Highest({0} \cup {i \in DOMAIN s : s[i] # Hyphen}))

\* Of the slugs that begin with the base and the infix, those whose tail is a number.
Numbered(slug, taken) ==
  {s \in taken : /\ Len(s) = Len(slug) + 2
                 /\ SubSeq(s, 1, Len(s) - 1) = Append(slug, Infix)
                 /\ s[Len(s)] \in Nat}

\* The base cut to the room that the infix and a number leave.
truncated(slug) ==
  StripHyphens(SubSeq(slug, 1, IF Len(slug) <= MaxSlug - 2 THEN Len(slug) ELSE MaxSlug - 2))

invalidatedSlug(slug, taken) ==
  LET highest == Highest({0} \cup {s[Len(s)] : s \in Numbered(slug, taken)})
  IN  truncated(slug) \o <<Infix, highest + 1>>

-------------------------------------------------------------------------------
(***************************************************************************)
(* The unique index on slug and the row locks.  A transaction holds the    *)
(* keys it has written, and gives up the key of a row it has renamed; both *)
(* for good only when it commits, so whoever needs such a key waits for    *)
(* it.  A key of a row nobody is renaming is in use.                       *)
(***************************************************************************)
Renames(o) == pc[o] \in {"renamed", "published"}

Written_Nothing(p) == {}

Written(p) ==
  CASE pc[p] = "inserted"  -> {req[p].slug}
    [] pc[p] = "renamed"   -> {req[p].moved}
    [] pc[p] = "published" -> {req[p].moved, req[p].slug}
    [] OTHER               -> {}

GivenUp(p) == IF Renames(p) THEN {rows[req[p].original].slug} ELSE {}

MustWait_ForItselfToo(p, key) == \E q \in Process : key \in Written(q) \cup GivenUp(q)

MustWait(p, key) == \E q \in Process \ {p} : key \in Written(q) \cup GivenUp(q)

InUse(p, key) ==
  \/ key \in Written(p)
  \/ \E t \in Published :
       /\ rows[t].slug = key
       /\ t # req[p].original
       /\ \A q \in Organiser : ~(Renames(q) /\ req[q].original = t)

\* FOR UPDATE on the row, from the lock to the end of the replacement.
Holding_NoLock(t) == {}

Holding(t) == {o \in Organiser : /\ pc[o] \in {"locked", "numbered", "renamed", "published"}
                                 /\ req[o].original = t}

\* The id of a new row: one nobody has, whichever it is.
Fresh == {t \in Tournament \ Published : \A p \in Process : req[p].id # t}
freshId == CHOOSE t \in Fresh : TRUE

newRow(slug, startsAt, now) ==
  [slug |-> slug, born |-> slug, startsAt |-> startsAt, publishedAt |-> now,
   invalidatedAt |-> None, replacedBy |-> None]

-------------------------------------------------------------------------------
(***************************************************************************)
(* publishTournament.                                                      *)
(***************************************************************************)

\* The confirmation, the one reading of the clock and the lineup's own rules.
Derive(p) ==
  /\ pc[p] = "idle"
  /\ \/ Answer(p, "NOT_CONFIRMED")
     \/ Answer(p, "REJECTED")
     \/ \E slug \in Derived, startsAt \in Instant :
          /\ startsAt > clock
          /\ req' = [req EXCEPT ![p] =
               [NoReq EXCEPT !.slug = slug, !.startsAt = startsAt, !.now = clock]]
          /\ Goto(p, "derived")
  /\ UNCHANGED <<clock, rows>>

\* tournaments.slugExists.
CheckSlug(p) ==
  /\ pc[p] = "derived"
  /\ IF req[p].slug \in SlugsTaken
     THEN Answer(p, "SLUG_TAKEN")
     ELSE Goto(p, "free") /\ UNCHANGED req
  /\ UNCHANGED <<clock, rows>>

\* begin; insert into tournaments: the unique index is the authority, and its
\* violation the same answer.
InsertTournament_NoWait(p) ==
  /\ pc[p] = "free"
  /\ IF InUse(p, req[p].slug) \/ MustWait(p, req[p].slug)
     THEN Answer(p, "SLUG_TAKEN")
     ELSE /\ Fresh # {}
          /\ req' = [req EXCEPT ![p].id = freshId]
          /\ Goto(p, "inserted")
  /\ UNCHANGED <<clock, rows>>

InsertTournament(p) ==
  /\ pc[p] = "free"
  /\ ~MustWait(p, req[p].slug)
  /\ IF InUse(p, req[p].slug)
     THEN Answer(p, "SLUG_TAKEN")
     ELSE /\ Fresh # {}
          /\ req' = [req EXCEPT ![p].id = freshId]
          /\ Goto(p, "inserted")
  /\ UNCHANGED <<clock, rows>>

\* Its groups, its pairs and the commit.
CommitPublication(p) ==
  /\ pc[p] = "inserted"
  /\ rows' = [t \in Published \cup {req[p].id} |->
                IF t = req[p].id THEN newRow(req[p].slug, req[p].startsAt, req[p].now)
                ELSE rows[t]]
  /\ Goto(p, "committed")
  /\ UNCHANGED <<clock, req>>

\* The tournament read back, and the answer.
ReadPublication(p) ==
  /\ pc[p] = "committed"
  /\ Answer(p, "PUBLISHED")
  /\ UNCHANGED <<clock, rows>>

\* A query fails, the connection is lost or the function is killed: what was not
\* committed is rolled back.
FailPublication(p) ==
  /\ pc[p] \in {"derived", "free", "inserted", "committed"}
  /\ Answer(p, "FAILED")
  /\ UNCHANGED <<clock, rows>>

-------------------------------------------------------------------------------
(***************************************************************************)
(* previewReplacement, then replaceTournament.                             *)
(***************************************************************************)

\* The preview reads the tournament at an address and writes nothing; its awaits are
\* one step, since the confirmation reads everything again.
Preview(o) ==
  /\ pc[o] = "idle"
  /\ \E slug \in Derived \cup SlugsTaken, startsAt \in Instant :
       \/ /\ slug \notin SlugsTaken
          /\ Answer(o, "NOT_FOUND")
       \/ \E t \in Published :
            /\ rows[t].slug = slug
            /\ \/ ~isVotingOpen(rows[t], clock) /\ Answer(o, "NOT_REPLACEABLE")
               \/ /\ isVotingOpen(rows[t], clock) /\ startsAt <= clock
                  /\ Answer(o, "REJECTED")
               \/ /\ isVotingOpen(rows[t], clock) /\ startsAt > clock
                  /\ req' = [req EXCEPT ![o] = [NoReq EXCEPT
                       !.slug = slug, !.startsAt = startsAt]]
                  /\ Goto(o, "previewed")
  /\ UNCHANGED <<clock, rows>>

\* The confirmation is another request, with the same address and payload; the
\* organiser may give it up.  tournaments.findBySlug.
Confirm(o) ==
  /\ pc[o] = "previewed"
  /\ \/ Answer(o, "NOT_CONFIRMED")
     \/ /\ req[o].slug \notin SlugsTaken
        /\ Answer(o, "NOT_FOUND")
     \/ \E t \in Published :
          /\ rows[t].slug = req[o].slug
          /\ req' = [req EXCEPT ![o].original = t, ![o].seen = rows[t]]
          /\ Goto(o, "loaded")
  /\ UNCHANGED <<clock, rows>>

\* The one reading of the clock, the window and the lineup's own rules.
Prepare(o) ==
  /\ pc[o] = "loaded"
  /\ \/ ~isVotingOpen(req[o].seen, clock) /\ Answer(o, "NOT_REPLACEABLE")
     \/ /\ isVotingOpen(req[o].seen, clock) /\ req[o].startsAt <= clock
        /\ Answer(o, "REJECTED")
     \/ /\ isVotingOpen(req[o].seen, clock) /\ req[o].startsAt > clock
        /\ req' = [req EXCEPT ![o].now = clock, ![o].seen = None]
        /\ Goto(o, "prepared")
  /\ UNCHANGED <<clock, rows>>

\* begin; select .. for update, and the re-check.  From here on the slug is the row's.
LockOriginal_NoRecheck(o) ==
  /\ pc[o] = "prepared"
  /\ Holding(req[o].original) = {}
  /\ req' = [req EXCEPT ![o].slug = rows[req[o].original].slug]
  /\ Goto(o, "locked")
  /\ UNCHANGED <<clock, rows>>

LockOriginal(o) ==
  LET row == rows[req[o].original] IN
  /\ pc[o] = "prepared"
  /\ Holding(req[o].original) = {}
  /\ IF row.invalidatedAt = None /\ row.startsAt > req[o].now
     THEN Goto(o, "locked") /\ req' = [req EXCEPT ![o].slug = row.slug]
     ELSE Answer(o, "NOT_REPLACEABLE")
  /\ UNCHANGED <<clock, rows>>

\* select slug .. like base-infix-%, and the slug to move to.
NumberOriginal(o) ==
  /\ pc[o] = "locked"
  /\ req' = [req EXCEPT ![o].moved = invalidatedSlug(req[o].slug, SlugsTaken)]
  /\ Goto(o, "numbered")
  /\ UNCHANGED <<clock, rows>>

\* update tournaments set slug: a violation of the unique index is nobody's to catch.
RenameOriginal(o) ==
  /\ pc[o] = "numbered"
  /\ ~MustWait(o, req[o].moved)
  /\ IF InUse(o, req[o].moved)
     THEN Answer(o, "COLLISION")
     ELSE Goto(o, "renamed") /\ UNCHANGED req
  /\ UNCHANGED <<clock, rows>>

\* insertPublication at the address that was given up.
InsertReplacement(o) ==
  /\ pc[o] = "renamed"
  /\ ~MustWait(o, req[o].slug)
  /\ IF InUse(o, req[o].slug)
     THEN Answer(o, "COLLISION")
     ELSE /\ Fresh # {}
          /\ req' = [req EXCEPT ![o].id = freshId]
          /\ Goto(o, "published")
  /\ UNCHANGED <<clock, rows>>

\* The copies of the ballots, the invalidation and the commit.
CommitReplacement_NotRenamed(o) ==
  LET t == req[o].original
      s == req[o].id
  IN
  /\ pc[o] = "published"
  /\ rows' = [x \in Published \cup {s} |->
                IF x = s THEN newRow(req[o].moved, req[o].startsAt, req[o].now)
                ELSE IF x = t THEN [rows[t] EXCEPT !.invalidatedAt = req[o].now, !.replacedBy = s]
                ELSE rows[x]]
  /\ Goto(o, "committed")
  /\ UNCHANGED <<clock, req>>

CommitReplacement(o) ==
  LET t == req[o].original
      s == req[o].id
  IN
  /\ pc[o] = "published"
  /\ rows' = [x \in Published \cup {s} |->
                IF x = s THEN newRow(req[o].slug, req[o].startsAt, req[o].now)
                ELSE IF x = t THEN [rows[t] EXCEPT !.slug = req[o].moved,
                                      !.invalidatedAt = req[o].now, !.replacedBy = s]
                ELSE rows[x]]
  /\ Goto(o, "committed")
  /\ UNCHANGED <<clock, req>>

\* The replacement read back, and the answer.
ReadReplacement(o) ==
  /\ pc[o] = "committed"
  /\ Answer(o, "REPLACED")
  /\ UNCHANGED <<clock, rows>>

FailReplacement(o) ==
  /\ pc[o] \in {"loaded", "prepared", "locked", "numbered", "renamed", "published", "committed"}
  /\ Answer(o, "FAILED")
  /\ UNCHANGED <<clock, rows>>

-------------------------------------------------------------------------------
Init ==
  /\ clock = 0
  /\ rows = [t \in {} |-> None]
  /\ pc = [p \in Process |-> "idle"]
  /\ req = [p \in Process |-> NoReq]

Tick ==
  /\ clock < Horizon
  /\ clock' = clock + 1
  /\ UNCHANGED <<rows, pc, req>>

\* Every request has been served and the bounded clock has run out.
Rest ==
  /\ clock = Horizon
  /\ \A p \in Process : Answered(p)
  /\ UNCHANGED vars

PublishStep(p) ==
  CheckSlug(p) \/ InsertTournament(p) \/ CommitPublication(p) \/ ReadPublication(p)

ReplaceStep(o) ==
  \/ Prepare(o) \/ LockOriginal(o) \/ NumberOriginal(o) \/ RenameOriginal(o)
  \/ InsertReplacement(o) \/ CommitReplacement(o) \/ ReadReplacement(o)

Next ==
  \/ Tick
  \/ \E p \in Publisher : Derive(p) \/ PublishStep(p) \/ FailPublication(p)
  \/ \E o \in Organiser : Preview(o) \/ Confirm(o) \/ ReplaceStep(o) \/ FailReplacement(o)
  \/ Rest

Spec == Init /\ [][Next]_vars

-------------------------------------------------------------------------------
(***************************************************************************)
(* findLiveSuccessor: the tournaments at the end of the chain of           *)
(* replacements from t, followed for at most MaxDepth links; the query     *)
(* takes any one of them.                                                  *)
(***************************************************************************)
liveSuccessors(t) ==
  LET next(S) == {rows[x].replacedBy : x \in S} \ {None}
      chain[d \in 1..MaxDepth] == IF d = 1 THEN next({t}) ELSE next(chain[d - 1])
  IN  {x \in UNION {chain[d] : d \in 1..MaxDepth} : ~Replaced(x)}

-------------------------------------------------------------------------------
(***************************************************************************)
(* Properties.                                                             *)
(***************************************************************************)
Slug == Seq(Letter \cup {Hyphen, Infix} \cup Nat)
Row == [slug : Slug, born : Slug, startsAt : Instant, publishedAt : Instant,
        invalidatedAt : Instant \cup {None}, replacedBy : Tournament \cup {None}]
Req == [slug : Slug \cup {None}, startsAt : Instant \cup {None}, now : Instant \cup {None},
        original : Tournament \cup {None},
        seen : Row \cup {None}, moved : Slug \cup {None}, id : Tournament \cup {None}]
PublishSteps == {"derived", "free", "inserted", "committed"}
ReplaceSteps == {"previewed", "loaded", "prepared", "locked", "numbered", "renamed",
                 "published", "committed"}

\* The rows and the locals keep their types, a row has a replacement exactly when it
\* is invalidated, and it was published before its start (migrations 0001 and 0007).
TypeOK ==
  /\ clock \in Instant
  /\ Published \in SUBSET Tournament
  /\ rows \in [Published -> Row]
  /\ \A t \in Published : /\ (rows[t].invalidatedAt = None) <=> (rows[t].replacedBy = None)
                          /\ rows[t].publishedAt < rows[t].startsAt
  /\ pc \in [Process -> {"idle"} \cup PublishSteps \cup ReplaceSteps \cup Answers]
  /\ req \in [Process -> Req]

\* No two tournaments have the same address, however many transactions write addresses
\* at once and whichever of them fail (the unique index of migration 0001).
OneTournamentPerAddress ==
  \A t, x \in Published : rows[t].slug = rows[x].slug => t = x

\* The address a tournament was published under is that of the live tournament at the
\* end of its chain of replacements, which findLiveSuccessor finds and is the only one
\* there; a replaced tournament has another (FR-210, Key Entities).
AddressFollowsLineage ==
  \A t \in Published :
    IF Replaced(t)
    THEN /\ rows[t].slug # rows[t].born
         /\ \E x \in Published : liveSuccessors(t) = {x} /\ rows[x].slug = rows[t].born
    ELSE rows[t].slug = rows[t].born

\* The address a replaced tournament moves to is free: repeated replacements never
\* collide (invalidatedSlug, core/replacement; FR-210).
NeverCollides == \A o \in Organiser : pc[o] # "COLLISION"

\* A publication is refused as taken only while a tournament has the address, and not
\* for a rival that was rolled back (publishTournament: the insert is the authority).
RefusedForATournament ==
  [][\A p \in Publisher : pc[p] # pc'[p] /\ pc'[p] = "SLUG_TAKEN" =>
       req[p].slug \in SlugsTaken]_vars

\* Whoever waits for a row lock or a key of the index waits, in the end, for a request
\* that does not wait: no cycle of replacements and publications that write one
\* another's addresses, which only the database would break (replace, publish).
UnderWay(p) == pc[p] \in (PublishSteps \cup ReplaceSteps) \ {"previewed"}

Waits(p) ==
  \/ pc[p] \in {"free", "renamed"} /\ MustWait(p, req[p].slug)
  \/ pc[p] = "numbered" /\ MustWait(p, req[p].moved)
  \/ pc[p] = "prepared" /\ Holding(req[p].original) # {}

NoStandstill == (\E p \in Process : Waits(p)) => \E q \in Process : UnderWay(q) /\ ~Waits(q)

\* Each commit is one step of the address book, and every other step none: an address
\* once given names one tournament for ever, and is never dead (US1 scenario 4).
Book == INSTANCE AddressBook WITH
  book    <- [a \in SlugsTaken |-> CHOOSE t \in Published : rows[t].slug = a],
  retired <- {t \in Published : Replaced(t)}

ImplementsAddressBook == Book!Spec
===============================================================================
