---------------------------- MODULE AddressesProofs ----------------------------
(***************************************************************************)
(* What invalidatedSlug returns, the inductive invariant of AddressesInv,  *)
(* one lemma per action, and the theorems that follow from it.             *)
(***************************************************************************)
EXTENDS AddressesInv, FiniteSetTheorems, SequenceTheorems, WellFoundedInduction, TLAPS

-------------------------------------------------------------------------------
\* The slug a replaced tournament moves to.

\* Every nonempty finite set of numbers has a highest one, and Highest returns it.
LEMMA HighestFound ==
  ASSUME NEW S \in SUBSET Nat, IsFiniteSet(S), S # {}
  PROVE  Highest(S) \in S /\ \A m \in S : m <= Highest(S)
  <1> DEFINE Above(n) == {m \in S : m > n}
             Tops == {Above(n) : n \in S}
             Less == StrictSubsetOrdering(S)
  <1>1. Tops \subseteq FiniteSubsetsOf(S) /\ Tops # {}
    <2>1. \A n \in S : Above(n) \in SUBSET S
      OBVIOUS
    <2>2. \A n \in S : IsFiniteSet(Above(n))
      <3> HIDE DEF Above
      <3> QED BY <2>1, FS_Subset
    <2>3. \A n \in S : Above(n) \in FiniteSubsetsOf(S)
      <3> HIDE DEF Above
      <3> QED BY <2>1, <2>2 DEF FiniteSubsetsOf
    <2> QED BY <2>3
  <1>2. PICK A \in Tops : \A B \in Tops : ~(<<B, A>> \in Less)
    <2> HIDE DEF Tops
    <2>1. IsWellFoundedOn(Less, FiniteSubsetsOf(S))
      BY FS_StrictSubsetOrderingWellFounded
    <2> HIDE DEF Less
    <2> QED BY <1>1, <2>1, WFMin
  <1>3. PICK n \in S : A = Above(n)
    OBVIOUS
  <1>4. \A m \in S : m <= n
    <2> SUFFICES ASSUME NEW m \in S, m > n PROVE FALSE
      OBVIOUS
    <2>0. m \in Nat /\ n \in Nat
      OBVIOUS
    <2>1. /\ Above(m) \in SUBSET S /\ Above(n) \in SUBSET S
          /\ Above(m) \subseteq Above(n) /\ m \in Above(n) /\ m \notin Above(m)
      <3> HIDE DEF Tops, Less
      <3>1. \A i \in S : i > m => i > n
        BY <2>0
      <3>2. ~(m > m)
        BY <2>0
      <3> QED BY <3>1, <3>2
    <2>2. Above(m) \in Tops
      OBVIOUS
    <2> HIDE DEF Above, Tops
    <2>3. <<Above(m), Above(n)>> \in Less
      BY <2>1 DEF Less, StrictSubsetOrdering
    <2> QED BY <1>2, <1>3, <2>2, <2>3
  <1>5. \E h \in S : \A m \in S : m <= h
    BY <1>4
  <1> QED BY <1>5 DEF Highest

\* Of finitely many slugs the numbers under a base are finitely many: with zero they
\* have a highest one (the query of replace, over the rows there are).
LEMMA HighestNumber ==
  ASSUME NEW slug, NEW taken, IsFiniteSet(taken)
  PROVE  LET N == {0} \cup {s[Len(s)] : s \in Numbered(slug, taken)}
         IN  Highest(N) \in Nat /\ \A n \in N : n <= Highest(N)
  <1> DEFINE T == Numbered(slug, taken)
             I == {s[Len(s)] : s \in T}
             f == [s \in T |-> s[Len(s)]]
  <1>1. IsFiniteSet(T)
    BY FS_Subset DEF Numbered
  <1>2. f \in Surjection(T, I)
    BY DEF Surjection
  <1>3. IsFiniteSet(I)
    <2> HIDE DEF T, I, f
    <2> QED BY <1>1, <1>2, FS_Surjection
  <1>4. I \in SUBSET Nat
    BY DEF Numbered
  <1>5. IsFiniteSet({0} \cup I) /\ {0} \cup I \in SUBSET Nat /\ {0} \cup I # {}
    <2> HIDE DEF I
    <2>1. IsFiniteSet(I \cup {0})
      BY <1>3, FS_AddElement
    <2>2. I \cup {0} = {0} \cup I
      OBVIOUS
    <2> QED BY <1>4, <2>1, <2>2
  <1> QED
    <2> HIDE DEF I
    <2>1. Highest({0} \cup I) \in {0} \cup I /\ \A n \in {0} \cup I : n <= Highest({0} \cup I)
      BY <1>5, HighestFound
    <2> QED BY <1>5, <2>1 DEF I

\* The cut of a slug is a slug, and a slug that leaves room for the infix and a number
\* and does not end in a hyphen is not cut (the last lines of invalidatedSlug).
LEMMA TruncatedSlug ==
  ASSUME NEW slug \in Slug
  PROVE  /\ truncated(slug) \in Slug
         /\ Len(slug) \in 1..(MaxSlug - 2) /\ slug[Len(slug)] # Hyphen => truncated(slug) = slug
  <1> DEFINE Symbol == Letter \cup {Hyphen, Infix} \cup Nat
             room == IF Len(slug) <= MaxSlug - 2 THEN Len(slug) ELSE MaxSlug - 2
             cut == SubSeq(slug, 1, room)
             Kept == {0} \cup {i \in DOMAIN cut : cut[i] # Hyphen}
  <1>1. /\ slug \in Seq(Symbol) /\ Len(slug) \in Nat /\ room \in 0..Len(slug)
        /\ \A i \in 1..Len(slug) : slug[i] \in Symbol
        /\ room \in Nat
    BY LenProperties, ElementOfSeq, AddressesConstants DEF Slug
  <1>2. /\ cut \in Seq(Symbol) /\ Len(cut) = room /\ DOMAIN cut = 1..room
        /\ \A i \in 1..room : cut[i] = slug[i]
    <2> HIDE DEF Symbol, room
    <2>1. \A i \in 1..room : slug[i] \in Symbol
      BY <1>1
    <2>2. /\ SubSeq(slug, 1, room) \in Seq(Symbol)
          /\ Len(SubSeq(slug, 1, room)) = IF 1 <= room THEN room - 1 + 1 ELSE 0
          /\ \A i \in 1..(room - 1 + 1) : SubSeq(slug, 1, room)[i] = slug[1 + i - 1]
      BY <1>1, <2>1, SubSeqProperties
    <2> QED BY <1>1, <2>2, LenProperties
  <1>3. /\ Kept \in SUBSET (0..room) /\ IsFiniteSet(Kept) /\ Kept # {}
        /\ Highest(Kept) \in 0..room /\ \A i \in Kept : i <= Highest(Kept)
        /\ Highest(Kept) \in Int
    <2> HIDE DEF Symbol, room
    <2>1. Kept \in SUBSET (0..room) /\ Kept # {}
      BY <1>1, <1>2
    <2> HIDE DEF Kept
    <2>2. Kept \in SUBSET Nat
      BY <1>1, <2>1
    <2>3. IsFiniteSet(0..room)
      BY <1>1, FS_Interval
    <2>4. IsFiniteSet(Kept)
      BY <2>1, <2>3, FS_Subset
    <2>5. Highest(Kept) \in Kept /\ \A i \in Kept : i <= Highest(Kept)
      BY <2>1, <2>2, <2>4, HighestFound
    <2>6. Highest(Kept) \in 0..room
      BY <2>1, <2>5
    <2>7. Highest(Kept) \in Int
      <3>1. Highest(Kept) \in Nat
        BY <2>2, <2>5
      <3> QED BY <3>1
    <2> QED BY <2>1, <2>4, <2>5, <2>6, <2>7
  <1>4. truncated(slug) = SubSeq(cut, 1, Highest(Kept))
    BY DEF truncated, StripHyphens
  <1>5. truncated(slug) \in Slug
    <2> HIDE DEF room, cut, Kept
    <2>1. Highest(Kept) \in Int
      BY <1>3
    <2>2. \A i \in 1..Highest(Kept) : cut[i] \in Symbol
      <3> HIDE DEF Symbol
      <3> QED BY <1>1, <1>2, <1>3
    <2>3. SubSeq(cut, 1, Highest(Kept)) \in Seq(Symbol)
      <3> HIDE DEF Symbol
      <3> QED BY <2>1, <2>2, SubSeqProperties
    <2> QED BY <1>4, <2>3 DEF Slug
  <1>6. ASSUME Len(slug) \in 1..(MaxSlug - 2), slug[Len(slug)] # Hyphen
        PROVE  truncated(slug) = slug
    <2>1. room = Len(slug)
      BY <1>6, AddressesConstants
    <2>2. Highest(Kept) = room
      <3>1. room \in DOMAIN cut /\ cut[room] # Hyphen
        BY <1>2, <1>6, <2>1
      <3>2. room \in Kept
        BY <3>1
      <3> HIDE DEF room, cut, Kept
      <3> QED BY <1>1, <1>3, <3>2
    <2>3. /\ \A i \in 1..room : cut[i] \in Symbol
          /\ room \in Int /\ room >= 1
      BY <1>1, <1>2, <1>6, <2>1
    <2> HIDE DEF Symbol, room, cut, Kept
    <2>4. /\ SubSeq(cut, 1, room) \in Seq(Symbol)
          /\ Len(SubSeq(cut, 1, room)) = room
          /\ \A i \in 1..room : SubSeq(cut, 1, room)[i] = cut[i]
      <3>1. /\ SubSeq(cut, 1, room) \in Seq(Symbol)
            /\ Len(SubSeq(cut, 1, room)) = IF 1 <= room THEN room - 1 + 1 ELSE 0
            /\ \A i \in 1..(room - 1 + 1) : SubSeq(cut, 1, room)[i] = cut[1 + i - 1]
        BY <2>3, SubSeqProperties
      <3> QED BY <2>3, <3>1
    <2>5. SubSeq(cut, 1, room) = slug
      BY <1>1, <1>2, <2>1, <2>4, SeqEqual
    <2> QED BY <1>4, <2>2, <2>5
  <1> QED BY <1>5, <1>6

\* The slug a replaced tournament moves to is a slug, and one that is taken by nobody
\* whenever the base is not cut (FR-210; the comment above invalidatedSlug).  For a
\* base that is cut the run addresses_collide shows the contrary.
LEMMA NumberedAddressFree ==
  ASSUME NEW slug \in Slug, NEW taken \in SUBSET Slug, IsFiniteSet(taken)
  PROVE  /\ invalidatedSlug(slug, taken) \in Slug
         /\ Len(slug) \in 1..(MaxSlug - 2) /\ slug[Len(slug)] # Hyphen =>
              invalidatedSlug(slug, taken) \notin taken
  <1> DEFINE Symbol == Letter \cup {Hyphen, Infix} \cup Nat
             N == {0} \cup {s[Len(s)] : s \in Numbered(slug, taken)}
             h == Highest(N)
             base == truncated(slug)
             new == invalidatedSlug(slug, taken)
  <1>1. h \in Nat /\ \A n \in N : n <= h
    BY HighestNumber
  <1>2. new = base \o <<Infix, h + 1>>
    BY DEF invalidatedSlug
  <1>3. /\ base \in Seq(Symbol) /\ Len(base) \in Nat
        /\ <<Infix, h + 1>> \in Seq(Symbol) /\ Len(<<Infix, h + 1>>) = 2
    <2>1. base \in Seq(Symbol)
      BY TruncatedSlug DEF Slug
    <2> HIDE DEF base, h
    <2>2. Infix \in Symbol /\ h + 1 \in Symbol
      BY <1>1
    <2> HIDE DEF Symbol
    <2>3. Len(base) \in Nat
      BY <2>1, LenProperties
    <2> QED BY <2>1, <2>2, <2>3
  <1>4. /\ new \in Seq(Symbol) /\ Len(new) = Len(base) + 2
        /\ \A i \in 1..(Len(base) + 2) :
             new[i] = IF i <= Len(base) THEN base[i] ELSE <<Infix, h + 1>>[i - Len(base)]
    <2> HIDE DEF base, h, Symbol, new
    <2> QED BY <1>2, <1>3, ConcatProperties
  <1>5. ASSUME Len(slug) \in 1..(MaxSlug - 2), slug[Len(slug)] # Hyphen, new \in taken
        PROVE  FALSE
    <2>1. base = slug
      BY <1>5, TruncatedSlug
    <2> HIDE DEF base, h, Symbol, new
    <2>2. new[Len(new)] = h + 1 /\ new[Len(slug) + 1] = Infix
      BY <1>3, <1>4, <2>1
    <2>3. SubSeq(new, 1, Len(new) - 1) = Append(slug, Infix)
      <3>1. \A i \in 1..(Len(slug) + 1) : new[i] \in Symbol
        BY <1>3, <1>4, <2>1, ElementOfSeq
      <3>2. Len(new) - 1 = Len(slug) + 1 /\ Len(slug) + 1 \in Int /\ Len(slug) \in Nat
        BY <1>3, <1>4, <2>1
      <3>3. /\ SubSeq(new, 1, Len(slug) + 1) \in Seq(Symbol)
            /\ Len(SubSeq(new, 1, Len(slug) + 1)) = Len(slug) + 1
            /\ \A i \in 1..(Len(slug) + 1) : SubSeq(new, 1, Len(slug) + 1)[i] = new[i]
        <4>1. /\ SubSeq(new, 1, Len(slug) + 1) \in Seq(Symbol)
              /\ Len(SubSeq(new, 1, Len(slug) + 1))
                   = IF 1 <= Len(slug) + 1 THEN (Len(slug) + 1) - 1 + 1 ELSE 0
              /\ \A i \in 1..((Len(slug) + 1) - 1 + 1) :
                   SubSeq(new, 1, Len(slug) + 1)[i] = new[1 + i - 1]
          BY <3>1, <3>2, SubSeqProperties
        <4> QED BY <3>2, <4>1
      <3>4. /\ slug \in Seq(Symbol) /\ Infix \in Symbol
        BY <1>3, <2>1 DEF Symbol
      <3>5. /\ Append(slug, Infix) \in Seq(Symbol)
            /\ Len(Append(slug, Infix)) = Len(slug) + 1
            /\ \A i \in 1..Len(slug) : Append(slug, Infix)[i] = slug[i]
            /\ Append(slug, Infix)[Len(slug) + 1] = Infix
        BY <3>4, AppendProperties
      <3>6. \A i \in 1..(Len(slug) + 1) : Append(slug, Infix)[i] = new[i]
        BY <1>3, <1>4, <2>1, <2>2, <3>2, <3>5
      <3> QED BY <3>2, <3>3, <3>5, <3>6, SeqEqual
    <2>4. new \in Numbered(slug, taken)
      BY <1>1, <1>4, <1>5, <2>1, <2>2, <2>3 DEF Numbered
    <2>5. h + 1 \in N
      BY <2>2, <2>4
    <2> HIDE DEF N
    <2> QED BY <1>1, <2>5
  <1>6. new \in Slug
    BY <1>4 DEF Slug
  <1> QED BY <1>5, <1>6

-------------------------------------------------------------------------------
\* What a step leaves alone.

\* The locals of a request that is not under way have the types of locals.
LEMMA NoReqType == NoReq \in Req
  BY DEF NoReq, Req

\* What a publication knows stays true in a step that changes neither the rows nor its
\* own locals.
LEMMA PublisherFrame ==
  ASSUME NEW p \in Publisher, PublisherKnows(p), pc'[p] = pc[p], req'[p] = req[p], rows' = rows
  PROVE  PublisherKnows(p)'
  BY DEF PublisherKnows, Published

\* The same for a replacement.
LEMMA OrganiserFrame ==
  ASSUME NEW o \in Organiser, OrganiserKnows(o), pc'[o] = pc[o], req'[o] = req[o], rows' = rows
  PROVE  OrganiserKnows(o)'
  BY DEF OrganiserKnows, Locking, Published, Replaced

\* A step of a request that changes its own locals only.
LEMMA OwnStep ==
  ASSUME IInv, NEW p \in Process,
         NEW step \in {"idle"} \cup PublishSteps \cup ReplaceSteps \cup Answers, NEW r \in Req,
         pc' = [pc EXCEPT ![p] = step], req' = [req EXCEPT ![p] = r],
         UNCHANGED <<clock, rows>>
  PROVE  /\ TypeOK'
         /\ pc'[p] = step /\ req'[p] = r
         /\ \A q \in Process \ {p} : pc'[q] = pc[q] /\ req'[q] = req[q]
         /\ \A q \in Publisher \ {p} : PublisherKnows(q)'
         /\ \A o \in Organiser \ {p} : OrganiserKnows(o)'
         /\ TablesKeep'
  <1>1. TypeOK'
    BY DEF IInv, TypeOK, Published
  <1>2. /\ pc'[p] = step /\ req'[p] = r
        /\ \A q \in Process \ {p} : pc'[q] = pc[q] /\ req'[q] = req[q]
    BY DEF IInv, TypeOK
  <1>3. ASSUME NEW q \in Publisher \ {p} PROVE PublisherKnows(q)'
    BY <1>2, PublisherFrame DEF IInv, Process
  <1>4. ASSUME NEW o \in Organiser \ {p} PROVE OrganiserKnows(o)'
    BY <1>2, OrganiserFrame DEF IInv, Process
  <1>5. TablesKeep'
    BY DEF IInv, TablesKeep, OneTournamentPerAddress, LineageKept, Published, Replaced
  <1> QED BY <1>1, <1>2, <1>3, <1>4, <1>5

\* Exclusion survives such a step when what the request holds after it is nobody else's.
LEMMA KeysFrame ==
  ASSUME IInv, NEW p \in Process, rows' = rows,
         \A q \in Process \ {p} : pc'[q] = pc[q] /\ req'[q] = req[q],
         \A q \in Process \ {p} : Written(p)' \cap Written(q) = {},
         \A t \in Published : rows[t].slug \in Written(p)' => t = req'[p].original,
         Inserting(p)' => \A q \in Process \ {p} : Inserting(q) => req'[p].id # req[q].id,
         p \in Organiser /\ Locking(p)' =>
           \A q \in Organiser \ {p} : Locking(q) => req'[p].original # req[q].original
  PROVE  KeysExclude'
  <1>1. \A q \in Process \ {p} : /\ Written(q)' = Written(q)
                                 /\ Inserting(q)' <=> Inserting(q)
                                 /\ Locking(q)' <=> Locking(q)
                                 /\ req'[q] = req[q]
    BY DEF Written, Inserting, Locking
  <1>2. ASSUME NEW q \in Process, NEW z \in Process, q # z
        PROVE  Written(q)' \cap Written(z)' = {}
    BY <1>1, <1>2 DEF IInv, KeysExclude
  <1>3. ASSUME NEW q \in Process, NEW t \in Published', rows'[t].slug \in Written(q)'
        PROVE  t = req'[q].original
    BY <1>1, <1>3 DEF IInv, KeysExclude, Published
  <1>4. ASSUME NEW q \in Process, NEW z \in Process, Inserting(q)', Inserting(z)', q # z
        PROVE  req'[q].id # req'[z].id
    BY <1>1, <1>4 DEF IInv, KeysExclude
  <1>5. ASSUME NEW o \in Organiser, NEW q \in Organiser, Locking(o)', Locking(q)', o # q
        PROVE  req'[o].original # req'[q].original
    <2>1. /\ \A z \in Organiser : z # p => (Locking(z)' <=> Locking(z)) /\ req'[z] = req[z]
          /\ \A x, z \in Organiser : Locking(x) /\ Locking(z) /\ x # z =>
               req[x].original # req[z].original
      BY <1>1 DEF IInv, KeysExclude, Process
    <2> QED BY <1>5, <2>1
  <1> QED BY <1>2, <1>3, <1>4, <1>5 DEF KeysExclude

\* A request that holds nothing after its step excludes nobody.
LEMMA ReleasedFrame ==
  ASSUME IInv, NEW p \in Process, rows' = rows,
         \A q \in Process \ {p} : pc'[q] = pc[q] /\ req'[q] = req[q],
         pc'[p] \notin {"inserted", "locked", "numbered", "renamed", "published"}
  PROVE  KeysExclude'
  <1>1. Written(p)' = {} /\ ~Inserting(p)' /\ ~Locking(p)'
    BY DEF Written, Inserting, Locking
  <1> QED BY <1>1, KeysFrame

\* An answer ends the request: a rollback where a transaction was open.
LEMMA AnswerInv ==
  ASSUME IInv, NEW p \in Process, NEW answer \in Answers,
         Answer(p, answer), UNCHANGED <<clock, rows>>
  PROVE  IInv'
  <1>1. pc' = [pc EXCEPT ![p] = answer] /\ req' = [req EXCEPT ![p] = NoReq]
    BY DEF Answer, Goto
  <1>2. /\ TypeOK'
        /\ pc'[p] = answer /\ req'[p] = NoReq
        /\ \A q \in Process \ {p} : pc'[q] = pc[q] /\ req'[q] = req[q]
        /\ \A q \in Publisher \ {p} : PublisherKnows(q)'
        /\ \A o \in Organiser \ {p} : OrganiserKnows(o)'
        /\ TablesKeep'
    BY <1>1, NoReqType, OwnStep
  <1>3. p \in Publisher => PublisherKnows(p)'
    BY <1>2 DEF PublisherKnows, Answers, NoReq
  <1>4. p \in Organiser => OrganiserKnows(p)'
    BY <1>2 DEF OrganiserKnows, Locking, Answers
  <1>5. KeysExclude'
    BY <1>2, ReleasedFrame DEF Answers
  <1> QED BY <1>2, <1>3, <1>4, <1>5 DEF IInv

-------------------------------------------------------------------------------
\* The steps of a publication.

\* The request has an address and a start in the future.
LEMMA DeriveInv ==
  ASSUME IInv, NEW p \in Publisher, Derive(p)
  PROVE  IInv'
  <1>1. p \in Process /\ UNCHANGED <<clock, rows>>
    BY DEF Derive, Process
  <1>2. CASE Answer(p, "NOT_CONFIRMED") \/ Answer(p, "REJECTED")
    BY <1>1, <1>2, AnswerInv DEF Answers
  <1>3. CASE \E slug \in Derived, startsAt \in Instant :
               /\ startsAt > clock
               /\ req' = [req EXCEPT ![p] =
                    [NoReq EXCEPT !.slug = slug, !.startsAt = startsAt, !.now = clock]]
               /\ Goto(p, "derived")
    <2>1. PICK slug \in Derived, startsAt \in Instant :
            /\ startsAt > clock
            /\ req' = [req EXCEPT ![p] =
                 [NoReq EXCEPT !.slug = slug, !.startsAt = startsAt, !.now = clock]]
            /\ Goto(p, "derived")
      BY <1>3
    <2> DEFINE r == [NoReq EXCEPT !.slug = slug, !.startsAt = startsAt, !.now = clock]
    <2>2. slug \in Slug /\ clock \in Instant /\ clock < startsAt
      <3>1. slug \in Slug
        BY AddressesConstants DEF Slug
      <3>2. clock \in Nat /\ startsAt \in Nat
        BY AddressesConstants DEF IInv, TypeOK, Instant
      <3> QED BY <2>1, <3>1, <3>2 DEF IInv, TypeOK
    <2>3. /\ r \in Req /\ r.original = None
          /\ r.slug = slug /\ r.startsAt = startsAt /\ r.now = clock
      BY <2>2, NoReqType DEF Req, NoReq
    <2>4. req' = [req EXCEPT ![p] = r] /\ pc' = [pc EXCEPT ![p] = "derived"]
      BY <2>1 DEF Goto
    <2> HIDE DEF r
    <2>5. /\ TypeOK' /\ TablesKeep'
          /\ pc'[p] = "derived" /\ req'[p] = r
          /\ \A q \in Process \ {p} : pc'[q] = pc[q] /\ req'[q] = req[q]
          /\ \A q \in Publisher \ {p} : PublisherKnows(q)'
          /\ \A o \in Organiser \ {p} : OrganiserKnows(o)'
      BY <1>1, <2>3, <2>4, OwnStep DEF PublishSteps
    <2>6. PublisherKnows(p)'
      BY <2>2, <2>3, <2>5 DEF PublisherKnows, PublishSteps
    <2>7. KeysExclude'
      BY <1>1, <2>5, ReleasedFrame
    <2> QED BY <2>5, <2>6, <2>7, AddressesConstants DEF IInv
  <1> QED BY <1>2, <1>3 DEF Derive

\* The check before the insert decides nothing for good.
LEMMA CheckSlugInv ==
  ASSUME IInv, NEW p \in Publisher, CheckSlug(p)
  PROVE  IInv'
  <1>1. p \in Process /\ UNCHANGED <<clock, rows>> /\ pc[p] = "derived"
    BY DEF CheckSlug, Process
  <1>2. CASE Answer(p, "SLUG_TAKEN")
    BY <1>1, <1>2, AnswerInv DEF Answers
  <1>3. CASE Goto(p, "free") /\ UNCHANGED req
    <2>1. /\ pc' = [pc EXCEPT ![p] = "free"] /\ req[p] \in Req
          /\ req' = [req EXCEPT ![p] = req[p]]
      BY <1>1, <1>3 DEF Goto, IInv, TypeOK
    <2>2. /\ TypeOK' /\ TablesKeep'
          /\ pc'[p] = "free" /\ req'[p] = req[p]
          /\ \A q \in Process \ {p} : pc'[q] = pc[q] /\ req'[q] = req[q]
          /\ \A q \in Publisher \ {p} : PublisherKnows(q)'
          /\ \A o \in Organiser \ {p} : OrganiserKnows(o)'
      BY <1>1, <2>1, OwnStep DEF PublishSteps
    <2>3. PublisherKnows(p)'
      BY <1>1, <2>2 DEF IInv, PublisherKnows, PublishSteps
    <2>4. KeysExclude'
      BY <1>1, <2>2, ReleasedFrame
    <2> QED BY <2>2, <2>3, <2>4, AddressesConstants DEF IInv
  <1> QED BY <1>2, <1>3 DEF CheckSlug

\* The id of a new row is no row's and no other request's.
LEMMA FreshIdNew ==
  ASSUME Fresh # {}
  PROVE  freshId \in Tournament \ Published /\ \A p \in Process : req[p].id # freshId
  BY DEF freshId, Fresh

\* The unique index lets the insert pass only when no row and no open transaction has
\* the address.
LEMMA InsertTournamentInv ==
  ASSUME IInv, NEW p \in Publisher, InsertTournament(p)
  PROVE  IInv'
  <1>1. p \in Process /\ UNCHANGED <<clock, rows>> /\ pc[p] = "free" /\ p \notin Organiser
    BY AddressesConstants DEF InsertTournament, Process
  <1>2. CASE Answer(p, "SLUG_TAKEN")
    BY <1>1, <1>2, AnswerInv DEF Answers
  <1>3. CASE ~InUse(p, req[p].slug)
    <2>1. Fresh # {} /\ Goto(p, "inserted") /\ req' = [req EXCEPT ![p].id = freshId]
      BY <1>1, <1>3 DEF InsertTournament
    <2>2. PICK id \in Tournament \ Published :
            id = freshId /\ \A q \in Process : req[q].id # id
      BY <2>1, FreshIdNew
    <2>3. PICK r \in Req :
            /\ r.id = id /\ r.slug = req[p].slug /\ r.startsAt = req[p].startsAt
            /\ r.now = req[p].now /\ r.original = req[p].original
            /\ req' = [req EXCEPT ![p] = r]
      <3>1. req[p] \in Req
        BY <1>1 DEF IInv, TypeOK
      <3>2. [req[p] EXCEPT !.id = id] \in Req
        BY <3>1 DEF Req
      <3>3. req' = [req EXCEPT ![p] = [req[p] EXCEPT !.id = id]]
        BY <1>1, <2>1, <2>2 DEF IInv, TypeOK
      <3> QED BY <3>1, <3>2, <3>3 DEF Req
    <2>a. pc' = [pc EXCEPT ![p] = "inserted"]
      BY <2>1 DEF Goto
    <2>4. /\ TypeOK' /\ TablesKeep'
          /\ pc'[p] = "inserted" /\ req'[p] = r
          /\ \A q \in Process \ {p} : pc'[q] = pc[q] /\ req'[q] = req[q]
          /\ \A q \in Publisher \ {p} : PublisherKnows(q)'
          /\ \A o \in Organiser \ {p} : OrganiserKnows(o)'
      BY <1>1, <2>a, <2>3, OwnStep DEF PublishSteps
    <2>5. PublisherKnows(p)'
      BY <1>1, <2>2, <2>3, <2>4 DEF IInv, PublisherKnows, PublishSteps, Published
    <2>6. KeysExclude'
      <3>1. Written(p)' = {req[p].slug}
        BY <2>3, <2>4 DEF Written
      <3>2. \A q \in Process \ {p} : req[p].slug \notin Written(q) \cup GivenUp(q)
        BY DEF InsertTournament, MustWait
      <3>3. \A t \in Published : rows[t].slug # req[p].slug
        <4> SUFFICES ASSUME NEW t \in Published, rows[t].slug = req[p].slug PROVE FALSE
          OBVIOUS
        <4>1. t # req[p].original
          BY <1>1, AddressesConstants DEF IInv, PublisherKnows, TypeOK
        <4>2. PICK q \in Organiser : Renames(q) /\ req[q].original = t
          BY <1>3, <4>1 DEF InUse
        <4>3. req[p].slug \in GivenUp(q) /\ q \in Process \ {p}
          BY <1>1, <4>2 DEF GivenUp, Process
        <4> QED BY <3>2, <4>3
      <3>4. \A q \in Process \ {p} : Written(p)' \cap Written(q) = {}
        BY <3>1, <3>2
      <3>5. \A t \in Published : rows[t].slug \in Written(p)' => t = req'[p].original
        BY <3>1, <3>3
      <3>6. \A q \in Process \ {p} : Inserting(q) => req'[p].id # req[q].id
        BY <2>2, <2>3, <2>4
      <3> QED BY <1>1, <2>4, <3>4, <3>5, <3>6, KeysFrame
    <2> QED BY <1>1, <2>4, <2>5, <2>6 DEF IInv
  <1> QED BY <1>2, <1>3 DEF InsertTournament

\* A publication that fails, or that is answered, leaves what it committed.
LEMMA EndPublicationInv ==
  ASSUME IInv, NEW p \in Publisher, ReadPublication(p) \/ FailPublication(p)
  PROVE  IInv'
  BY AnswerInv DEF ReadPublication, FailPublication, Answers, Process

\* What the commit of a publication does to the rows.
LEMMA PublicationStep ==
  ASSUME IInv, NEW p \in Publisher, CommitPublication(p)
  PROVE  /\ req[p].id \in Tournament \ Published
         /\ Published' = Published \cup {req[p].id}
         /\ rows' \in [Published' -> Row]
         /\ \A t \in Published : rows'[t] = rows[t]
         /\ rows'[req[p].id] = newRow(req[p].slug, req[p].startsAt, req[p].now)
         /\ req[p].now < req[p].startsAt
         /\ \A t \in Published : rows[t].slug # req[p].slug
         /\ \A q \in Process \ {p} : Inserting(q) => req[q].id # req[p].id
         /\ \A q \in Process \ {p} : req[p].slug \notin Written(q)
  <1>1. p \in Process /\ pc[p] = "inserted"
    BY DEF CommitPublication, Process
  <1>2. /\ req[p].id \in Tournament \ Published
        /\ req[p].slug \in Slug /\ req[p].startsAt \in Instant /\ req[p].now \in Instant
        /\ req[p].now < req[p].startsAt /\ req[p].original = None
    BY <1>1 DEF IInv, PublisherKnows
  <1>3. rows' = [t \in Published \cup {req[p].id} |->
                   IF t = req[p].id THEN newRow(req[p].slug, req[p].startsAt, req[p].now)
                   ELSE rows[t]]
    BY DEF CommitPublication
  <1>4. /\ Published' = Published \cup {req[p].id}
        /\ \A t \in Published : rows'[t] = rows[t]
        /\ rows'[req[p].id] = newRow(req[p].slug, req[p].startsAt, req[p].now)
    BY <1>2, <1>3 DEF Published
  <1>5. newRow(req[p].slug, req[p].startsAt, req[p].now) \in Row
    BY <1>2 DEF newRow, Row
  <1>6. rows' \in [Published' -> Row]
    BY <1>3, <1>4, <1>5 DEF IInv, TypeOK
  <1>7. Written(p) = {req[p].slug} /\ Inserting(p)
    BY <1>1 DEF Written, Inserting
  <1>8. \A t \in Published : rows[t].slug # req[p].slug
    BY <1>1, <1>2, <1>7, AddressesConstants DEF IInv, KeysExclude, TypeOK
  <1>9. \A q \in Process \ {p} : Inserting(q) => req[q].id # req[p].id
    BY <1>1, <1>7 DEF IInv, KeysExclude
  <1>10. \A q \in Process \ {p} : req[p].slug \notin Written(q)
    BY <1>1, <1>7 DEF IInv, KeysExclude
  <1> QED BY <1>2, <1>4, <1>6, <1>8, <1>9, <1>10

\* A new row with an address of its own disturbs nobody.
LEMMA CommitPublicationInv ==
  ASSUME IInv, NEW p \in Publisher, CommitPublication(p)
  PROVE  IInv'
  <1> DEFINE n == req[p].id
  <1>1. /\ n \in Tournament \ Published /\ Published' = Published \cup {n}
        /\ rows' \in [Published' -> Row]
        /\ \A t \in Published : rows'[t] = rows[t]
        /\ rows'[n] = newRow(req[p].slug, req[p].startsAt, req[p].now)
        /\ req[p].now < req[p].startsAt
        /\ \A t \in Published : rows[t].slug # req[p].slug
        /\ \A q \in Process \ {p} : Inserting(q) => req[q].id # n
        /\ \A q \in Process \ {p} : req[p].slug \notin Written(q)
    BY PublicationStep
  <1>2. /\ rows'[n].slug = req[p].slug /\ rows'[n].born = req[p].slug
        /\ rows'[n].startsAt = req[p].startsAt /\ rows'[n].publishedAt = req[p].now
        /\ rows'[n].invalidatedAt = None /\ rows'[n].replacedBy = None
    BY <1>1 DEF newRow
  <1> HIDE DEF n
  <1>3. /\ p \in Process /\ p \notin Organiser
        /\ pc' = [pc EXCEPT ![p] = "committed"] /\ UNCHANGED <<clock, req>>
        /\ pc'[p] = "committed" /\ \A q \in Process \ {p} : pc'[q] = pc[q]
    BY AddressesConstants DEF CommitPublication, Goto, Process, IInv, TypeOK
  <1>4. TypeOK'
    <2>1. \A t \in Published' : /\ (rows'[t].invalidatedAt = None) <=> (rows'[t].replacedBy = None)
                                /\ rows'[t].publishedAt < rows'[t].startsAt
      BY <1>1, <1>2 DEF IInv, TypeOK
    <2>2. Published' \in SUBSET Tournament
      BY <1>1 DEF IInv, TypeOK
    <2>3. clock' \in Instant /\ req' \in [Process -> Req]
      BY <1>3 DEF IInv, TypeOK
    <2>4. pc' \in [Process -> {"idle"} \cup PublishSteps \cup ReplaceSteps \cup Answers]
      BY <1>3 DEF IInv, TypeOK, PublishSteps
    <2> QED BY <1>1, <2>1, <2>2, <2>3, <2>4 DEF TypeOK
  <1>5. ASSUME NEW q \in Publisher PROVE PublisherKnows(q)'
    <2>1. CASE q = p
      BY <1>3, <2>1 DEF IInv, PublisherKnows, PublishSteps
    <2>2. CASE q # p
      <3>1. q \in Process \ {p} /\ (pc[q] = "inserted" => req[q].id # n)
        BY <1>1, <2>2 DEF Process, Inserting
      <3> QED BY <1>1, <1>3, <3>1 DEF IInv, PublisherKnows
    <2> QED BY <2>1, <2>2
  <1>6. ASSUME NEW o \in Organiser PROVE OrganiserKnows(o)'
    <2>1. o \in Process \ {p} /\ (pc[o] = "published" => req[o].id # n)
      BY <1>1, <1>3 DEF Process, Inserting
    <2>2. pc'[o] = pc[o] /\ req'[o] = req[o]
      BY <1>3, <2>1
    <2> QED BY <1>1, <2>1, <2>2 DEF IInv, OrganiserKnows, Locking, Replaced
  <1>7. KeysExclude'
    <2>1. /\ Written(p)' = {} /\ ~Inserting(p)' /\ ~Locking(p)'
          /\ \A q \in Process \ {p} : /\ Written(q)' = Written(q)
                                      /\ Inserting(q)' <=> Inserting(q)
                                      /\ Locking(q)' <=> Locking(q)
          /\ req' = req
      BY <1>3 DEF Written, Inserting, Locking
    <2>2. ASSUME NEW q \in Process, NEW z \in Process, q # z
          PROVE  Written(q)' \cap Written(z)' = {}
      BY <2>1, <2>2 DEF IInv, KeysExclude
    <2>3. ASSUME NEW q \in Process, NEW t \in Published', rows'[t].slug \in Written(q)'
          PROVE  t = req'[q].original
      <3>1. q # p
        BY <2>1, <2>3
      <3>2. t # n
        BY <1>1, <1>2, <2>1, <2>3, <3>1
      <3> QED BY <1>1, <2>1, <2>3, <3>1, <3>2 DEF IInv, KeysExclude
    <2>4. ASSUME NEW q \in Process, NEW z \in Process, Inserting(q)', Inserting(z)', q # z
          PROVE  req'[q].id # req'[z].id
      BY <2>1, <2>4 DEF IInv, KeysExclude
    <2>5. ASSUME NEW o \in Organiser, NEW q \in Organiser, Locking(o)', Locking(q)', o # q
          PROVE  req'[o].original # req'[q].original
      <3>1. Locking(o) /\ Locking(q)
        BY <1>3, <2>1, <2>5 DEF Process
      <3> QED BY <2>1, <2>5, <3>1 DEF IInv, KeysExclude
    <2> QED BY <2>2, <2>3, <2>4, <2>5 DEF KeysExclude
  <1>8. TablesKeep'
    <2>1. IsFiniteSet(Published)'
      BY <1>1, FS_AddElement DEF IInv, TablesKeep
    <2>2. OneTournamentPerAddress'
      BY <1>1, <1>2 DEF IInv, TablesKeep, OneTournamentPerAddress
    <2>3. LineageKept'
      BY <1>1, <1>2 DEF IInv, TablesKeep, LineageKept, Replaced
    <2> QED BY <2>1, <2>2, <2>3 DEF TablesKeep
  <1> QED BY <1>4, <1>5, <1>6, <1>7, <1>8 DEF IInv

-------------------------------------------------------------------------------
\* The steps of a replacement.

\* A step of an organiser before the lock keeps the invariant when it leaves him with
\* what he is to know.
LEMMA BeforeLockInv ==
  ASSUME IInv, NEW o \in Organiser, NEW step \in {"previewed", "loaded", "prepared"},
         NEW r \in Req, r.slug \in Slug, r.startsAt \in Instant,
         step # "previewed" => r.original \in Published,
         step = "prepared" => r.now \in Instant /\ r.now < r.startsAt,
         pc' = [pc EXCEPT ![o] = step], req' = [req EXCEPT ![o] = r],
         UNCHANGED <<clock, rows>>
  PROVE  IInv'
  <1>1. o \in Process /\ o \notin Publisher
    BY AddressesConstants DEF Process
  <1>2. /\ TypeOK' /\ TablesKeep'
        /\ pc'[o] = step /\ req'[o] = r
        /\ \A q \in Process \ {o} : pc'[q] = pc[q] /\ req'[q] = req[q]
        /\ \A q \in Publisher \ {o} : PublisherKnows(q)'
        /\ \A q \in Organiser \ {o} : OrganiserKnows(q)'
    BY <1>1, OwnStep DEF ReplaceSteps
  <1>3. OrganiserKnows(o)'
    BY <1>2 DEF OrganiserKnows, Locking, ReplaceSteps, Published
  <1>4. KeysExclude'
    BY <1>1, <1>2, ReleasedFrame
  <1> QED BY <1>1, <1>2, <1>3, <1>4 DEF IInv

\* The preview leaves an address and a start in the future.
LEMMA PreviewInv ==
  ASSUME IInv, NEW o \in Organiser, Preview(o)
  PROVE  IInv'
  <1>1. o \in Process /\ UNCHANGED <<clock, rows>>
    BY DEF Preview, Process
  <1>2. PICK slug \in Derived \cup SlugsTaken, startsAt \in Instant :
          \/ \E answer \in Answers : Answer(o, answer)
          \/ /\ req' = [req EXCEPT ![o] = [NoReq EXCEPT
                  !.slug = slug, !.startsAt = startsAt]]
             /\ Goto(o, "previewed")
    BY DEF Preview, Answers
  <1>3. CASE \E answer \in Answers : Answer(o, answer)
    BY <1>1, <1>3, AnswerInv
  <1>4. CASE /\ req' = [req EXCEPT ![o] = [NoReq EXCEPT
                  !.slug = slug, !.startsAt = startsAt]]
             /\ Goto(o, "previewed")
    <2>1. slug \in Slug
      <3>1. slug \in Derived => slug \in Slug
        BY AddressesConstants DEF Slug
      <3>2. slug \in SlugsTaken => slug \in Slug
        BY DEF SlugsTaken, IInv, TypeOK, Row
      <3> QED BY <3>1, <3>2 DEF IInv, TypeOK
    <2>2. PICK r \in Req : /\ r.slug = slug /\ r.startsAt = startsAt
                           /\ req' = [req EXCEPT ![o] = r]
      <3>1. [NoReq EXCEPT !.slug = slug, !.startsAt = startsAt] \in Req
        BY <2>1 DEF NoReq, Req
      <3> QED BY <1>4, <3>1 DEF NoReq
    <2>3. pc' = [pc EXCEPT ![o] = "previewed"]
      BY <1>4 DEF Goto
    <2> QED BY <1>1, <2>1, <2>2, <2>3, BeforeLockInv
  <1> QED BY <1>2, <1>3, <1>4

\* The confirmation loads a tournament that is there.
LEMMA ConfirmInv ==
  ASSUME IInv, NEW o \in Organiser, Confirm(o)
  PROVE  IInv'
  <1>1. o \in Process /\ UNCHANGED <<clock, rows>> /\ pc[o] = "previewed"
    BY DEF Confirm, Process
  <1>2. CASE Answer(o, "NOT_CONFIRMED") \/ Answer(o, "NOT_FOUND")
    BY <1>1, <1>2, AnswerInv DEF Answers
  <1>3. CASE \E t \in Published :
               /\ rows[t].slug = req[o].slug
               /\ req' = [req EXCEPT ![o].original = t, ![o].seen = rows[t]]
               /\ Goto(o, "loaded")
    <2>1. PICK t \in Published :
            /\ req' = [req EXCEPT ![o].original = t, ![o].seen = rows[t]]
            /\ Goto(o, "loaded")
      BY <1>3
    <2>2. PICK row \in Row : row = rows[t]
      BY DEF IInv, TypeOK
    <2>3. req[o] \in Req /\ req[o].slug \in Slug /\ req[o].startsAt \in Instant /\ t \in Tournament
      BY <1>1 DEF IInv, TypeOK, OrganiserKnows
    <2>4. PICK r \in Req : /\ r.slug \in Slug /\ r.startsAt \in Instant /\ r.original = t
                           /\ req' = [req EXCEPT ![o] = r]
      <3>1. [req[o] EXCEPT !.original = t, !.seen = row] \in Req
        BY <2>3 DEF Req
      <3>2. req' = [req EXCEPT ![o] = [req[o] EXCEPT !.original = t, !.seen = row]]
        BY <1>1, <2>1, <2>2 DEF IInv, TypeOK
      <3> QED BY <2>3, <3>1, <3>2 DEF Req
    <2>5. pc' = [pc EXCEPT ![o] = "loaded"]
      BY <2>1 DEF Goto
    <2> QED BY <1>1, <2>4, <2>5, BeforeLockInv
  <1> QED BY <1>2, <1>3 DEF Confirm

\* The one reading of the clock leaves an instant before the start.
LEMMA PrepareInv ==
  ASSUME IInv, NEW o \in Organiser, Prepare(o)
  PROVE  IInv'
  <1>1. o \in Process /\ UNCHANGED <<clock, rows>> /\ pc[o] = "loaded"
    BY DEF Prepare, Process
  <1>2. CASE Answer(o, "NOT_REPLACEABLE") \/ Answer(o, "REJECTED")
    BY <1>1, <1>2, AnswerInv DEF Answers
  <1>3. CASE /\ req[o].startsAt > clock
             /\ req' = [req EXCEPT ![o].now = clock, ![o].seen = None]
             /\ Goto(o, "prepared")
    <2>1. PICK now \in Instant : now = clock
      BY DEF IInv, TypeOK
    <2>2. /\ req[o] \in Req /\ req[o].slug \in Slug /\ req[o].startsAt \in Instant
          /\ req[o].original \in Published
      BY <1>1 DEF IInv, TypeOK, OrganiserKnows
    <2>3. now < req[o].startsAt
      BY <1>3, <2>1, <2>2, AddressesConstants DEF Instant
    <2>4. PICK r \in Req : /\ r.slug \in Slug /\ r.startsAt \in Instant
                           /\ r.original \in Published /\ r.now \in Instant /\ r.now < r.startsAt
                           /\ req' = [req EXCEPT ![o] = r]
      <3>1. [req[o] EXCEPT !.now = now, !.seen = None] \in Req
        BY <2>2 DEF Req
      <3>2. req' = [req EXCEPT ![o] = [req[o] EXCEPT !.now = now, !.seen = None]]
        BY <1>1, <1>3, <2>1 DEF IInv, TypeOK
      <3> QED BY <2>2, <2>3, <3>1, <3>2 DEF Req
    <2>5. pc' = [pc EXCEPT ![o] = "prepared"]
      BY <1>3 DEF Goto
    <2> QED BY <1>1, <2>4, <2>5, BeforeLockInv
  <1> QED BY <1>2, <1>3 DEF Prepare

\* A step under the lock keeps the invariant when the organiser still knows his original
\* and what he has written is nobody else's.
LEMMA UnderLockInv ==
  ASSUME IInv, NEW o \in Organiser, NEW step \in {"locked", "numbered", "renamed", "published"},
         NEW r \in Req,
         r.startsAt \in Instant, r.now \in Instant, r.now < r.startsAt,
         r.original \in Published, ~Replaced(r.original), r.slug = rows[r.original].slug,
         step # "locked" => r.moved \in Slug,
         step = "published" => r.id \in Tournament \ Published /\ r.moved # r.slug,
         pc' = [pc EXCEPT ![o] = step], req' = [req EXCEPT ![o] = r],
         UNCHANGED <<clock, rows>>,
         \A q \in Process \ {o} : Written(o)' \cap Written(q) = {},
         \A t \in Published : rows[t].slug \in Written(o)' => t = r.original,
         step = "published" => \A q \in Process \ {o} : Inserting(q) => r.id # req[q].id,
         \A q \in Organiser \ {o} : Locking(q) => r.original # req[q].original
  PROVE  IInv'
  <1>1. o \in Process /\ o \notin Publisher
    BY AddressesConstants DEF Process
  <1>2. /\ TypeOK' /\ TablesKeep'
        /\ pc'[o] = step /\ req'[o] = r
        /\ \A q \in Process \ {o} : pc'[q] = pc[q] /\ req'[q] = req[q]
        /\ \A q \in Publisher \ {o} : PublisherKnows(q)'
        /\ \A q \in Organiser \ {o} : OrganiserKnows(q)'
    <2>1. step \in {"idle"} \cup PublishSteps \cup ReplaceSteps \cup Answers
      BY DEF ReplaceSteps
    <2> QED BY ONLY IInv, r \in Req, pc' = [pc EXCEPT ![o] = step],
               req' = [req EXCEPT ![o] = r], clock' = clock, rows' = rows, <1>1, <2>1, OwnStep
  <1>3. r.slug \in Slug
    BY DEF IInv, TypeOK, Row
  <1>4. OrganiserKnows(o)'
    BY <1>2, <1>3 DEF OrganiserKnows, Locking, ReplaceSteps, Published, Replaced
  <1>5. KeysExclude'
    <2>1. Inserting(o)' => step = "published"
      BY <1>2 DEF Inserting
    <2> QED BY <1>1, <1>2, <2>1, KeysFrame
  <1> QED BY <1>1, <1>2, <1>4, <1>5 DEF IInv

\* What an organiser knows under the lock.
LEMMA UnderLock ==
  ASSUME IInv, NEW o \in Organiser, Locking(o)
  PROVE  /\ o \in Process /\ req[o] \in Req
         /\ req[o].slug \in Slug /\ req[o].startsAt \in Instant /\ req[o].now \in Instant
         /\ req[o].now < req[o].startsAt
         /\ req[o].original \in Published /\ ~Replaced(req[o].original)
         /\ req[o].slug = rows[req[o].original].slug
         /\ pc[o] # "locked" => req[o].moved \in Slug
         /\ \A q \in Organiser \ {o} : Locking(q) => req[o].original # req[q].original
  BY DEF IInv, TypeOK, OrganiserKnows, KeysExclude, Process

\* Nobody else is under the lock, and the original is live.
LEMMA LockOriginalInv ==
  ASSUME IInv, NEW o \in Organiser, LockOriginal(o)
  PROVE  IInv'
  <1>1. o \in Process /\ UNCHANGED <<clock, rows>> /\ pc[o] = "prepared"
    BY DEF LockOriginal, Process
  <1>2. CASE Answer(o, "NOT_REPLACEABLE")
    BY <1>1, <1>2, AnswerInv DEF Answers
  <1>3. CASE /\ rows[req[o].original].invalidatedAt = None
             /\ Goto(o, "locked")
             /\ req' = [req EXCEPT ![o].slug = rows[req[o].original].slug]
    <2>1. /\ req[o] \in Req /\ req[o].startsAt \in Instant /\ req[o].now \in Instant
          /\ req[o].now < req[o].startsAt /\ req[o].original \in Published
      BY <1>1 DEF IInv, TypeOK, OrganiserKnows
    <2>2. PICK slug \in Slug : slug = rows[req[o].original].slug
      BY <2>1 DEF IInv, TypeOK, Row
    <2>3. PICK r \in Req :
            /\ r.slug = slug /\ r.startsAt = req[o].startsAt /\ r.now = req[o].now
            /\ r.original = req[o].original
            /\ req' = [req EXCEPT ![o] = r]
      <3>1. [req[o] EXCEPT !.slug = slug] \in Req
        BY <2>1 DEF Req
      <3>2. req' = [req EXCEPT ![o] = [req[o] EXCEPT !.slug = slug]]
        BY <1>1, <1>3, <2>2 DEF IInv, TypeOK
      <3> QED BY <2>1, <3>1, <3>2 DEF Req
    <2>4. pc' = [pc EXCEPT ![o] = "locked"]
      BY <1>3 DEF Goto
    <2>5. Written(o)' = {}
      BY <1>1, <2>4 DEF IInv, TypeOK, Written
    <2>6. \A q \in Organiser \ {o} : Locking(q) => r.original # req[q].original
      BY <2>3 DEF LockOriginal, Holding, Locking
    <2>7. ~Replaced(r.original)
      BY <1>3, <2>3 DEF Replaced
    <2> QED BY <1>1, <2>1, <2>2, <2>3, <2>4, <2>5, <2>6, <2>7, UnderLockInv
  <1> QED BY <1>2, <1>3 DEF LockOriginal

\* The slug to move to is a slug.
LEMMA NumberOriginalInv ==
  ASSUME IInv, NEW o \in Organiser, NumberOriginal(o)
  PROVE  IInv'
  <1>1. Locking(o) /\ UNCHANGED <<clock, rows>> /\ pc[o] = "locked"
    BY DEF NumberOriginal, Locking
  <1>2. SlugsTaken \in SUBSET Slug /\ IsFiniteSet(SlugsTaken)
    <2>1. SlugsTaken \in SUBSET Slug
      BY DEF SlugsTaken, IInv, TypeOK, Row
    <2> DEFINE f == [t \in Published |-> rows[t].slug]
    <2>2. f \in Surjection(Published, SlugsTaken) /\ IsFiniteSet(Published)
      BY DEF Surjection, SlugsTaken, IInv, TablesKeep
    <2> HIDE DEF f
    <2> QED BY <2>1, <2>2, FS_Surjection
  <1>3. PICK moved \in Slug : moved = invalidatedSlug(req[o].slug, SlugsTaken)
    BY <1>1, <1>2, UnderLock, NumberedAddressFree
  <1>4. PICK r \in Req :
          /\ r.slug = req[o].slug /\ r.startsAt = req[o].startsAt /\ r.now = req[o].now
          /\ r.original = req[o].original /\ r.moved = moved
          /\ req' = [req EXCEPT ![o] = r]
    <2>1. [req[o] EXCEPT !.moved = moved] \in Req
      BY <1>1, UnderLock DEF Req
    <2>2. req' = [req EXCEPT ![o] = [req[o] EXCEPT !.moved = moved]]
      BY <1>1, <1>3, UnderLock DEF NumberOriginal, IInv, TypeOK
    <2> QED BY <1>1, <2>1, <2>2, UnderLock DEF Req
  <1>5. pc' = [pc EXCEPT ![o] = "numbered"]
    BY DEF NumberOriginal, Goto
  <1>6. Written(o)' = {}
    BY <1>1, <1>5, UnderLock DEF IInv, TypeOK, Written
  <1>7. /\ r.startsAt \in Instant /\ r.now \in Instant /\ r.now < r.startsAt
        /\ r.original \in Published /\ ~Replaced(r.original)
        /\ r.slug = rows[r.original].slug /\ r.moved \in Slug
        /\ \A q \in Organiser \ {o} : Locking(q) => r.original # req[q].original
    BY <1>1, <1>4, UnderLock
  <1> QED BY <1>1, <1>4, <1>5, <1>6, <1>7, UnderLockInv

\* The unique index lets the rename pass only when no other row and no open transaction
\* has the key.
LEMMA RenameOriginalInv ==
  ASSUME IInv, NEW o \in Organiser, RenameOriginal(o)
  PROVE  IInv'
  <1>1. Locking(o) /\ UNCHANGED <<clock, rows>> /\ pc[o] = "numbered"
    BY DEF RenameOriginal, Locking
  <1>2. CASE Answer(o, "COLLISION")
    BY <1>1, <1>2, UnderLock, AnswerInv DEF Answers
  <1>3. CASE ~InUse(o, req[o].moved) /\ Goto(o, "renamed") /\ UNCHANGED req
    <2>1. PICK r \in Req : r = req[o]
      BY <1>1, UnderLock
    <2>2. pc' = [pc EXCEPT ![o] = "renamed"] /\ req' = [req EXCEPT ![o] = r]
      BY <1>1, <1>3, <2>1, UnderLock DEF Goto, IInv, TypeOK
    <2>3. Written(o)' = {r.moved}
      BY <1>1, <2>2, UnderLock DEF IInv, TypeOK, Written
    <2>4. \A q \in Process \ {o} : r.moved \notin Written(q) \cup GivenUp(q)
      BY <2>1 DEF RenameOriginal, MustWait
    <2>5. ASSUME NEW t \in Published, rows[t].slug = r.moved PROVE t = r.original
      <3> SUFFICES ASSUME t # r.original PROVE FALSE
        OBVIOUS
      <3>1. PICK q \in Organiser : Renames(q) /\ req[q].original = t
        BY <1>3, <2>1, <2>5 DEF InUse
      <3>2. q \in Process \ {o} /\ r.moved \in GivenUp(q)
        BY <1>1, <2>5, <3>1 DEF GivenUp, Renames, Process
      <3> QED BY <2>4, <3>2
    <2>6. /\ r.startsAt \in Instant /\ r.now \in Instant /\ r.now < r.startsAt
          /\ r.original \in Published /\ ~Replaced(r.original)
          /\ r.slug = rows[r.original].slug /\ r.moved \in Slug
          /\ \A q \in Organiser \ {o} : Locking(q) => r.original # req[q].original
      BY <1>1, <2>1, UnderLock
    <2>7. \A q \in Process \ {o} : Written(o)' \cap Written(q) = {}
      BY <2>3, <2>4
    <2> QED BY <1>1, <2>2, <2>3, <2>5, <2>6, <2>7, UnderLockInv
  <1> QED BY <1>2, <1>3 DEF RenameOriginal

\* The address given up passes to the replacement before anybody else can have it.
LEMMA InsertReplacementInv ==
  ASSUME IInv, NEW o \in Organiser, InsertReplacement(o)
  PROVE  IInv'
  <1>1. Locking(o) /\ UNCHANGED <<clock, rows>> /\ pc[o] = "renamed"
    BY DEF InsertReplacement, Locking
  <1>2. CASE Answer(o, "COLLISION")
    BY <1>1, <1>2, UnderLock, AnswerInv DEF Answers
  <1>3. CASE /\ ~InUse(o, req[o].slug) /\ Fresh # {}
             /\ req' = [req EXCEPT ![o].id = freshId] /\ Goto(o, "published")
    <2>1. PICK id \in Tournament \ Published :
            id = freshId /\ \A q \in Process : req[q].id # id
      BY <1>3, FreshIdNew
    <2>2. PICK r \in Req :
            /\ r.slug = req[o].slug /\ r.startsAt = req[o].startsAt /\ r.now = req[o].now
            /\ r.original = req[o].original /\ r.moved = req[o].moved /\ r.id = id
            /\ req' = [req EXCEPT ![o] = r]
      <3>1. [req[o] EXCEPT !.id = id] \in Req
        BY <1>1, UnderLock DEF Req
      <3>2. req' = [req EXCEPT ![o] = [req[o] EXCEPT !.id = id]]
        BY <1>1, <1>3, <2>1, UnderLock DEF IInv, TypeOK
      <3> QED BY <1>1, <3>1, <3>2, UnderLock DEF Req
    <2>3. pc' = [pc EXCEPT ![o] = "published"]
      BY <1>3 DEF Goto
    <2>4. Written(o) = {r.moved} /\ Written(o)' = {r.moved, r.slug}
      BY <1>1, <2>2, <2>3, UnderLock DEF IInv, TypeOK, Written
    <2>5. r.moved # r.slug
      BY <1>3, <2>2, <2>4 DEF InUse
    <2>6. \A q \in Process \ {o} : r.slug \notin Written(q)
      BY <2>2 DEF InsertReplacement, MustWait
    <2>7. \A q \in Process \ {o} : Written(o)' \cap Written(q) = {}
      BY <1>1, <2>4, <2>6, UnderLock DEF IInv, KeysExclude
    <2>8. ASSUME NEW t \in Published, rows[t].slug \in Written(o)' PROVE t = r.original
      <3>1. CASE rows[t].slug = r.moved
        BY <1>1, <2>2, <2>4, <3>1, UnderLock DEF IInv, KeysExclude
      <3>2. CASE rows[t].slug = r.slug
        BY <1>1, <2>2, <3>2, UnderLock DEF IInv, TablesKeep, OneTournamentPerAddress
      <3> QED BY <2>4, <2>8, <3>1, <3>2
    <2>9. /\ r.startsAt \in Instant /\ r.now \in Instant /\ r.now < r.startsAt
          /\ r.original \in Published /\ ~Replaced(r.original)
          /\ r.slug = rows[r.original].slug /\ r.moved \in Slug
          /\ \A q \in Organiser \ {o} : Locking(q) => r.original # req[q].original
      BY <1>1, <2>2, UnderLock
    <2>10. \A q \in Process \ {o} : Inserting(q) => r.id # req[q].id
      BY <2>1, <2>2
    <2> QED BY <1>1, <2>1, <2>2, <2>3, <2>5, <2>7, <2>8, <2>9, <2>10, UnderLockInv
  <1> QED BY <1>2, <1>3 DEF InsertReplacement

\* A replacement that fails, or that is answered, leaves what it committed.
LEMMA EndReplacementInv ==
  ASSUME IInv, NEW o \in Organiser, ReadReplacement(o) \/ FailReplacement(o)
  PROVE  IInv'
  BY AnswerInv DEF ReadReplacement, FailReplacement, Answers, Process

\* What the commit of a replacement does to the rows.
LEMMA ReplacementStep ==
  ASSUME IInv, NEW o \in Organiser, CommitReplacement(o)
  PROVE  LET t == req[o].original
             s == req[o].id
         IN
         /\ t \in Published /\ s \in Tournament \ Published /\ ~Replaced(t)
         /\ Published' = Published \cup {s}
         /\ rows' \in [Published' -> Row]
         /\ \A x \in Published \ {t} : rows'[x] = rows[x]
         /\ rows'[t] = [rows[t] EXCEPT !.slug = req[o].moved,
                          !.invalidatedAt = req[o].now, !.replacedBy = s]
         /\ rows'[s] = newRow(req[o].slug, req[o].startsAt, req[o].now)
         /\ req[o].slug = rows[t].slug /\ req[o].slug # req[o].moved
         /\ req[o].now \in Instant /\ req[o].now < req[o].startsAt
         /\ \A x \in Published \ {t} : rows[x].slug \notin {req[o].moved, req[o].slug}
         /\ \A q \in Process \ {o} : Inserting(q) => req[q].id # s
         /\ \A q \in Organiser \ {o} : Locking(q) => req[q].original # t
         /\ \A q \in Process \ {o} : Written(q) \cap {req[o].moved, req[o].slug} = {}
  <1> DEFINE t == req[o].original
             s == req[o].id
  <1>1. /\ o \in Process /\ pc[o] = "published" /\ Locking(o) /\ Inserting(o)
        /\ Written(o) = {req[o].moved, req[o].slug}
    BY DEF CommitReplacement, Process, Locking, Inserting, Written
  <1>2. /\ t \in Published /\ ~Replaced(t) /\ req[o].slug = rows[t].slug
        /\ s \in Tournament \ Published /\ req[o].moved # req[o].slug
        /\ req[o].moved \in Slug /\ req[o].slug \in Slug
        /\ req[o].startsAt \in Instant /\ req[o].now \in Instant /\ req[o].now < req[o].startsAt
    BY <1>1 DEF IInv, OrganiserKnows
  <1>3. rows' = [x \in Published \cup {s} |->
                  IF x = s THEN newRow(req[o].slug, req[o].startsAt, req[o].now)
                  ELSE IF x = t THEN [rows[t] EXCEPT !.slug = req[o].moved,
                                        !.invalidatedAt = req[o].now, !.replacedBy = s]
                  ELSE rows[x]]
    BY DEF CommitReplacement
  <1>4. /\ Published' = Published \cup {s}
        /\ \A x \in Published \ {t} : rows'[x] = rows[x]
        /\ rows'[t] = [rows[t] EXCEPT !.slug = req[o].moved,
                         !.invalidatedAt = req[o].now, !.replacedBy = s]
        /\ rows'[s] = newRow(req[o].slug, req[o].startsAt, req[o].now)
    BY <1>2, <1>3 DEF Published
  <1>5. rows' \in [Published' -> Row]
    <2>1. newRow(req[o].slug, req[o].startsAt, req[o].now) \in Row
      BY <1>2 DEF newRow, Row
    <2>2. rows[t] \in Row
      BY <1>2 DEF IInv, TypeOK
    <2>3. [rows[t] EXCEPT !.slug = req[o].moved,
             !.invalidatedAt = req[o].now, !.replacedBy = s] \in Row
      BY <1>2, <2>2 DEF Row
    <2> QED BY <1>3, <1>4, <2>1, <2>3 DEF IInv, TypeOK
  <1>6. \A x \in Published \ {t} : rows[x].slug \notin {req[o].moved, req[o].slug}
    BY <1>1 DEF IInv, KeysExclude
  <1>7. /\ \A q \in Process \ {o} : Inserting(q) => req[q].id # s
        /\ \A q \in Organiser \ {o} : Locking(q) => req[q].original # t
        /\ \A q \in Process \ {o} : Written(q) \cap {req[o].moved, req[o].slug} = {}
    BY <1>1 DEF IInv, KeysExclude
  <1> QED BY <1>2, <1>4, <1>5, <1>6, <1>7

\* The address passes on and the lineage with it; the row lock and the keys written keep
\* every other request's knowledge true.
LEMMA CommitReplacementInv ==
  ASSUME IInv, NEW o \in Organiser, CommitReplacement(o)
  PROVE  IInv'
  <1>1. PICK t, s, moved, slug, now, startsAt :
          /\ t = req[o].original /\ s = req[o].id /\ moved = req[o].moved
          /\ slug = req[o].slug /\ now = req[o].now /\ startsAt = req[o].startsAt
    OBVIOUS
  <1>2. /\ t \in Published /\ s \in Tournament \ Published /\ ~Replaced(t)
        /\ Published' = Published \cup {s}
        /\ rows' \in [Published' -> Row]
        /\ \A x \in Published \ {t} : rows'[x] = rows[x]
        /\ slug = rows[t].slug /\ slug # moved
        /\ now \in Instant /\ now < startsAt
        /\ \A x \in Published \ {t} : rows[x].slug # moved /\ rows[x].slug # slug
        /\ \A q \in Process \ {o} : Inserting(q) => req[q].id # s
        /\ \A q \in Organiser \ {o} : Locking(q) => req[q].original # t
        /\ \A q \in Process \ {o} : moved \notin Written(q) /\ slug \notin Written(q)
    BY <1>1, ReplacementStep
  <1>3. /\ rows'[s].slug = slug /\ rows'[s].born = slug /\ rows'[s].startsAt = startsAt
        /\ rows'[s].publishedAt = now
        /\ rows'[s].invalidatedAt = None /\ rows'[s].replacedBy = None
    <2>1. rows'[s] = newRow(slug, startsAt, now)
      BY <1>1, ReplacementStep
    <2> QED BY <2>1 DEF newRow
  <1>4. /\ rows'[t].slug = moved /\ rows'[t].born = rows[t].born
        /\ rows'[t].startsAt = rows[t].startsAt /\ rows'[t].publishedAt = rows[t].publishedAt
        /\ rows'[t].invalidatedAt = now /\ rows'[t].replacedBy = s
    <2>1. rows[t] \in Row
      BY <1>2 DEF IInv, TypeOK
    <2>2. rows'[t] = [rows[t] EXCEPT !.slug = moved, !.invalidatedAt = now, !.replacedBy = s]
      BY <1>1, ReplacementStep
    <2> QED BY <2>1, <2>2 DEF Row
  <1>5. /\ o \in Process /\ o \notin Publisher
        /\ pc' = [pc EXCEPT ![o] = "committed"] /\ UNCHANGED <<clock, req>>
        /\ pc'[o] = "committed" /\ \A q \in Process \ {o} : pc'[q] = pc[q]
    BY AddressesConstants DEF CommitReplacement, Goto, Process, IInv, TypeOK
  <1>6. TypeOK'
    <2>1. now # None /\ s # None
      BY <1>2, AddressesConstants, NoneAssumption DEF Instant
    <2>2. \A x \in Published' : /\ (rows'[x].invalidatedAt = None) <=> (rows'[x].replacedBy = None)
                                /\ rows'[x].publishedAt < rows'[x].startsAt
      BY <1>2, <1>3, <1>4, <2>1 DEF IInv, TypeOK
    <2>3. Published' \in SUBSET Tournament
      BY <1>2 DEF IInv, TypeOK
    <2>4. clock' \in Instant /\ req' \in [Process -> Req]
      BY <1>5 DEF IInv, TypeOK
    <2>5. pc' \in [Process -> {"idle"} \cup PublishSteps \cup ReplaceSteps \cup Answers]
      BY <1>5 DEF IInv, TypeOK, ReplaceSteps
    <2> QED BY <1>2, <2>2, <2>3, <2>4, <2>5 DEF TypeOK
  <1>7. ASSUME NEW q \in Publisher PROVE PublisherKnows(q)'
    <2>1. /\ q \in Process \ {o} /\ (pc[q] = "inserted" => req[q].id # s)
      BY <1>2, <1>5 DEF Process, Inserting
    <2> QED BY <1>2, <1>5, <2>1 DEF IInv, PublisherKnows
  <1>8. ASSUME NEW q \in Organiser PROVE OrganiserKnows(q)'
    <2>1. CASE q = o
      BY <1>5, <2>1 DEF OrganiserKnows, Locking, ReplaceSteps
    <2>2. CASE q # o
      <3>1. q \in Process \ {o} /\ (pc[q] = "published" => req[q].id # s)
        BY <1>2, <2>2 DEF Process, Inserting
      <3>2. Locking(q) => req[q].original \in Published \ {t}
        BY <1>2, <2>2 DEF IInv, OrganiserKnows
      <3>3. pc'[q] = pc[q] /\ req'[q] = req[q]
        BY <1>5, <3>1
      <3> QED BY <1>2, <3>1, <3>2, <3>3 DEF IInv, OrganiserKnows, Locking, Replaced
    <2> QED BY <2>1, <2>2
  <1>9. KeysExclude'
    <2>1. /\ Written(o)' = {} /\ ~Inserting(o)' /\ ~Locking(o)'
          /\ \A q \in Process \ {o} : /\ Written(q)' = Written(q)
                                      /\ Inserting(q)' <=> Inserting(q)
                                      /\ Locking(q)' <=> Locking(q)
          /\ req' = req
      BY <1>5 DEF Written, Inserting, Locking
    <2>2. ASSUME NEW q \in Process, NEW z \in Process, q # z
          PROVE  Written(q)' \cap Written(z)' = {}
      BY <2>1, <2>2 DEF IInv, KeysExclude
    <2>3. ASSUME NEW q \in Process, NEW x \in Published', rows'[x].slug \in Written(q)'
          PROVE  x = req'[q].original
      <3>1. q # o
        BY <2>1, <2>3
      <3>2. x # s /\ x # t
        BY <1>2, <1>3, <1>4, <2>1, <2>3, <3>1
      <3> QED BY <1>2, <2>1, <2>3, <3>1, <3>2 DEF IInv, KeysExclude
    <2>4. ASSUME NEW q \in Process, NEW z \in Process, Inserting(q)', Inserting(z)', q # z
          PROVE  req'[q].id # req'[z].id
      BY <2>1, <2>4 DEF IInv, KeysExclude
    <2>5. ASSUME NEW q \in Organiser, NEW z \in Organiser, Locking(q)', Locking(z)', q # z
          PROVE  req'[q].original # req'[z].original
      <3>1. Locking(q) /\ Locking(z)
        BY <2>1, <2>5 DEF Process
      <3> QED BY <2>1, <2>5, <3>1 DEF IInv, KeysExclude
    <2> QED BY <2>2, <2>3, <2>4, <2>5 DEF KeysExclude
  <1>10. TablesKeep'
    <2>1. IsFiniteSet(Published)'
      BY <1>2, FS_AddElement DEF IInv, TablesKeep
    <2>2. OneTournamentPerAddress'
      BY <1>2, <1>3, <1>4 DEF IInv, TablesKeep, OneTournamentPerAddress
    <2>3. LineageKept'
      <3>1. s # None /\ now # None /\ rows[t].born = slug
        BY <1>2, AddressesConstants, NoneAssumption DEF Instant, IInv, TablesKeep, LineageKept
      <3>2. \A x \in Published : rows'[x].born = rows[x].born
        BY <1>2, <1>4
      <3>3. ASSUME NEW x \in Published \ {t}
            PROVE  IF rows'[x].invalidatedAt # None
                   THEN /\ rows'[x].replacedBy \in Published'
                        /\ rows'[rows'[x].replacedBy].born = rows'[x].born
                        /\ rows'[x].slug # rows'[x].born
                   ELSE rows'[x].slug = rows'[x].born
        BY <1>2, <3>2 DEF IInv, TablesKeep, LineageKept, Replaced
      <3> QED BY <1>2, <1>3, <1>4, <3>1, <3>3 DEF LineageKept, Replaced
    <2> QED BY <2>1, <2>2, <2>3 DEF TablesKeep
  <1> QED BY <1>6, <1>7, <1>8, <1>9, <1>10 DEF IInv

-------------------------------------------------------------------------------
\* The invariant.

\* It holds of the empty tables.
LEMMA InitInv == Init => IInv
  <1> SUFFICES ASSUME Init PROVE IInv
    OBVIOUS
  <1>1. Published = {} /\ 0 \in Instant
    BY AddressesConstants DEF Init, Published, Instant
  <1>2. TypeOK
    <2>1. rows \in [Published -> Row] /\ clock \in Instant
      BY <1>1 DEF Init, Published
    <2> QED BY <1>1, <2>1, NoReqType DEF Init, TypeOK
  <1>3. \A p \in Process : pc[p] = "idle" /\ req[p] = NoReq /\ Written(p) = {}
    BY DEF Init, Written
  <1>4. /\ \A p \in Publisher : PublisherKnows(p)
        /\ \A o \in Organiser : OrganiserKnows(o)
    BY <1>3 DEF PublisherKnows, OrganiserKnows, Locking, Process, NoReq
  <1>5. KeysExclude
    BY <1>3 DEF KeysExclude, Inserting, Locking, Process
  <1>6. TablesKeep
    BY <1>1, FS_EmptySet DEF TablesKeep, OneTournamentPerAddress, LineageKept
  <1> QED BY <1>2, <1>4, <1>5, <1>6 DEF IInv

\* A step that leaves rows and requests alone leaves it true.
LEMMA IdleInv ==
  ASSUME IInv, clock' \in Instant, UNCHANGED <<rows, pc, req>>
  PROVE  IInv'
  <1>1. TypeOK'
    BY DEF IInv, TypeOK, Published
  <1>2. /\ \A p \in Publisher : PublisherKnows(p)'
        /\ \A o \in Organiser : OrganiserKnows(o)'
    BY PublisherFrame, OrganiserFrame DEF IInv
  <1>3. KeysExclude'
    BY DEF IInv, KeysExclude, Written, Inserting, Locking, Published
  <1>4. TablesKeep'
    BY DEF IInv, TablesKeep, OneTournamentPerAddress, LineageKept, Published, Replaced
  <1> QED BY <1>1, <1>2, <1>3, <1>4 DEF IInv

\* The knowledge of the requests, the exclusion of the keys and the state of the rows
\* hold together in every reachable state (the transactions of publish and replace).
THEOREM Invariance == Spec => []IInv
  <1>1. IInv /\ [Next]_vars => IInv'
    <2> SUFFICES ASSUME IInv, [Next]_vars PROVE IInv'
      OBVIOUS
    <2>1. CASE Tick
      <3>1. clock' \in Instant
        BY <2>1, AddressesConstants DEF Tick, IInv, TypeOK, Instant
      <3> QED BY <2>1, <3>1, IdleInv DEF Tick
    <2>2. ASSUME NEW p \in Publisher, Derive(p) \/ PublishStep(p) \/ FailPublication(p)
          PROVE  IInv'
      BY <2>2, DeriveInv, CheckSlugInv, InsertTournamentInv, CommitPublicationInv,
         EndPublicationInv DEF PublishStep
    <2>3. ASSUME NEW o \in Organiser,
                 Preview(o) \/ Confirm(o) \/ ReplaceStep(o) \/ FailReplacement(o)
          PROVE  IInv'
      BY <2>3, PreviewInv, ConfirmInv, PrepareInv, LockOriginalInv, NumberOriginalInv,
         RenameOriginalInv, InsertReplacementInv, CommitReplacementInv, EndReplacementInv
      DEF ReplaceStep
    <2>4. CASE Rest \/ UNCHANGED vars
      BY <2>4, IdleInv DEF Rest, vars, IInv, TypeOK
    <2> QED BY <2>1, <2>2, <2>3, <2>4 DEF Next
  <1> QED BY <1>1, InitInv, PTL DEF Spec

-------------------------------------------------------------------------------
\* What follows from it.

\* The rows and the locals keep their types: a row has a replacement exactly when it is
\* invalidated, and was published before its start (migrations 0001 and 0007).
THEOREM Typing == Spec => []TypeOK
  <1>1. IInv => TypeOK
    BY DEF IInv
  <1> QED BY <1>1, Invariance, PTL

\* No two tournaments have the same address, however many publications and
\* replacements write addresses at once (the unique index of migration 0001).
THEOREM AddressesDiffer == Spec => []OneTournamentPerAddress
  <1>1. IInv => OneTournamentPerAddress
    BY DEF IInv, TablesKeep
  <1> QED BY <1>1, Invariance, PTL

\* Each link of a lineage hands its address on, and a live tournament has the address
\* it was published under (replace: the rename, and the insert at the address given up).
THEOREM LinksHandOn == Spec => []LineageKept
  <1>1. IInv => LineageKept
    BY DEF IInv, TablesKeep
  <1> QED BY <1>1, Invariance, PTL

\* A replacement that has renamed its original never waits for the address it gives up:
\* whoever has written that key or given it up would be replacing the same row.
LEMMA RenamedGoesOn ==
  ASSUME IInv, NEW o \in Process, pc[o] = "renamed"
  PROVE  o \in Organiser /\ ~Waits(o) /\ UnderWay(o)
  <1>1. o \in Organiser
    BY DEF IInv, PublisherKnows, Process, PublishSteps, Answers
  <1>2. /\ req[o].original \in Published /\ Locking(o)
        /\ req[o].slug = rows[req[o].original].slug
    BY <1>1 DEF IInv, OrganiserKnows, Locking
  <1>3. ASSUME NEW q \in Process \ {o}, req[o].slug \in Written(q) \cup GivenUp(q)
        PROVE  FALSE
    <2>1. CASE req[o].slug \in GivenUp(q)
      <3>1. Renames(q) /\ q \in Organiser /\ req[o].slug = rows[req[q].original].slug
        BY <2>1 DEF GivenUp, Renames, IInv, PublisherKnows, Process, PublishSteps, Answers
      <3>2. Locking(q) /\ req[q].original \in Published
        BY <3>1 DEF Renames, Locking, IInv, OrganiserKnows
      <3>3. req[q].original = req[o].original
        BY <1>2, <3>1, <3>2 DEF IInv, TablesKeep, OneTournamentPerAddress
      <3> QED BY <1>1, <1>2, <3>1, <3>2, <3>3 DEF IInv, KeysExclude
    <2>2. CASE req[o].slug \in Written(q)
      <3>1. req[o].original = req[q].original
        BY <1>2, <2>2 DEF IInv, KeysExclude
      <3>2. q \in Organiser
        BY <1>2, <3>1, AddressesConstants DEF Process, IInv, PublisherKnows, TypeOK
      <3>3. Locking(q)
        BY <2>2, <3>2 DEF Written, Locking, IInv, OrganiserKnows, ReplaceSteps, Answers
      <3> QED BY <1>1, <1>2, <3>1, <3>2, <3>3 DEF IInv, KeysExclude
    <2> QED BY <1>3, <2>1, <2>2
  <1> QED BY <1>1, <1>3 DEF Waits, MustWait, UnderWay, ReplaceSteps

\* No cycle of waits: of those that wait for a row or a key, each waits in the end for a
\* transaction that has what it needs (the locks and keys of publish and replace).
THEOREM WaitsEnd == Spec => []NoStandstill
  <1>1. ASSUME IInv, NEW p \in Process, Waits(p)
        PROVE  \E q \in Process : UnderWay(q) /\ ~Waits(q)
    \* Whoever has a key that is asked for does not wait.
    <2>1. ASSUME NEW q \in Process, NEW key, key \in Written(q) \cup GivenUp(q)
          PROVE  UnderWay(q) /\ ~Waits(q)
      <3>1. pc[q] \in {"inserted", "renamed", "published"}
        BY <2>1 DEF Written, GivenUp, Renames
      <3> QED BY <1>1, <3>1, RenamedGoesOn DEF Waits, UnderWay, PublishSteps, ReplaceSteps
    <2>2. CASE pc[p] \in {"free", "renamed", "numbered"}
      BY <1>1, <2>1, <2>2 DEF Waits, MustWait
    <2>3. CASE pc[p] = "prepared"
      <3>1. PICK o \in Holding(req[p].original) : TRUE
        BY <1>1, <2>3 DEF Waits
      <3>2. o \in Process /\ pc[o] \in {"locked", "numbered", "renamed", "published"}
        BY <3>1 DEF Holding, Process
      <3>3. CASE pc[o] \in {"locked", "published"}
        BY <3>2, <3>3 DEF Waits, UnderWay, ReplaceSteps
      <3>4. CASE pc[o] = "renamed"
        BY <1>1, <3>2, <3>4, RenamedGoesOn
      <3>5. CASE pc[o] = "numbered" /\ ~Waits(o)
        BY <3>2, <3>5 DEF UnderWay, ReplaceSteps
      <3>6. CASE pc[o] = "numbered" /\ Waits(o)
        BY <2>1, <3>6 DEF Waits, MustWait
      <3> QED BY <3>2, <3>3, <3>4, <3>5, <3>6
    <2> QED BY <1>1, <2>2, <2>3 DEF Waits
  <1>2. IInv => NoStandstill
    BY <1>1 DEF NoStandstill
  <1> QED BY <1>2, Invariance, PTL

\* A step changes the program counter of one request.
LEMMA OneCounter ==
  ASSUME IInv, NEW p \in Process, NEW step, Goto(p, step)
  PROVE  pc'[p] = step /\ \A q \in Process \ {p} : pc'[q] = pc[q]
  BY DEF IInv, TypeOK, Goto

\* A publication is refused as taken only while a tournament has the address
\* (publishTournament and the unique index).
THEOREM RefusalsJustified == Spec => RefusedForATournament
  <1>1. ASSUME IInv, Next, NEW p \in Publisher, pc[p] # pc'[p], pc'[p] = "SLUG_TAKEN"
        PROVE  req[p].slug \in SlugsTaken
    <2>0. p \in Process /\ p \notin Organiser
      BY AddressesConstants DEF Process
    <2>1. CASE Tick \/ Rest
      BY <1>1, <2>1 DEF Tick, Rest, vars
    <2>2. ASSUME NEW o \in Organiser,
                 Preview(o) \/ Confirm(o) \/ ReplaceStep(o) \/ FailReplacement(o)
          PROVE  FALSE
      <3>1. \E step : Goto(o, step)
        BY <2>2 DEF Preview, Confirm, ReplaceStep, FailReplacement, Prepare, LockOriginal,
           NumberOriginal, RenameOriginal, InsertReplacement, CommitReplacement,
           ReadReplacement, Answer
      <3>2. o \in Process /\ o # p
        BY <2>0 DEF Process
      <3> QED BY <1>1, <2>0, <3>1, <3>2, OneCounter
    <2>3. ASSUME NEW q \in Publisher, Derive(q) \/ PublishStep(q) \/ FailPublication(q)
          PROVE  req[p].slug \in SlugsTaken
      <3>1. \E step : Goto(q, step)
        BY <2>3 DEF Derive, PublishStep, FailPublication, CheckSlug, InsertTournament,
           CommitPublication, ReadPublication, Answer
      <3>2. q \in Process /\ q = p
        BY <1>1, <2>0, <3>1, OneCounter DEF Process
      <3>3. ASSUME NEW step, Goto(p, step), step # "SLUG_TAKEN" PROVE FALSE
        BY <1>1, <2>0, <3>3, OneCounter
      <3>4. CASE Derive(p) \/ FailPublication(p) \/ CommitPublication(p) \/ ReadPublication(p)
        BY <3>3, <3>4 DEF Derive, FailPublication, CommitPublication, ReadPublication, Answer
      <3>5. CASE CheckSlug(p)
        BY <3>3, <3>5 DEF CheckSlug
      <3>6. CASE InsertTournament(p)
        <4>1. pc[p] = "free" /\ InUse(p, req[p].slug)
          BY <3>3, <3>6 DEF InsertTournament
        <4>2. Written(p) = {}
          BY <4>1 DEF Written
        <4> QED BY <4>1, <4>2 DEF InUse, SlugsTaken
      <3> QED BY <2>3, <3>2, <3>4, <3>5, <3>6 DEF PublishStep
    <2> QED BY <1>1, <2>1, <2>2, <2>3 DEF Next
  <1>2. IInv /\ [Next]_vars =>
          [\A p \in Publisher : pc[p] # pc'[p] /\ pc'[p] = "SLUG_TAKEN" =>
             req[p].slug \in SlugsTaken]_vars
    BY <1>1
  <1> QED BY <1>2, Invariance, PTL DEF Spec, RefusedForATournament

\* With different addresses, the book has each tournament at its own.
LEMMA OwnAddress ==
  ASSUME NEW R, \A t, x \in DOMAIN R : R[t].slug = R[x].slug => t = x
  PROVE  \A t \in DOMAIN R : (CHOOSE x \in DOMAIN R : R[x].slug = R[t].slug) = t
  OBVIOUS

\* The book and the retired tournaments follow from the rows alone.
LEMMA BookFrame ==
  ASSUME rows' = rows
  PROVE  UNCHANGED Book!vars
  BY DEF Book!vars, SlugsTaken, Published, Replaced

\* Only the two commits change the rows.
LEMMA OnlyCommits ==
  ASSUME [Next]_vars, rows' # rows
  PROVE  \/ \E p \in Publisher : CommitPublication(p)
         \/ \E o \in Organiser : CommitReplacement(o)
  BY DEF Next, vars, Tick, Rest, Derive, PublishStep, FailPublication, CheckSlug,
     InsertTournament, ReadPublication, Preview, Confirm, ReplaceStep, FailReplacement,
     Prepare, LockOriginal, NumberOriginal, RenameOriginal, InsertReplacement,
     ReadReplacement, Answer

\* Addresses implements AddressBook: the commit of a publication is a Publish, that of a
\* replacement a Replace, and every other step stutters.
THEOREM BookImplemented == Spec => ImplementsAddressBook
  <1>1. Init => Book!Init
    <2> SUFFICES ASSUME Init PROVE Book!Init
      OBVIOUS
    <2>1. Published = {} /\ SlugsTaken = {}
      BY DEF Init, Published, SlugsTaken
    <2> QED BY <2>1 DEF Book!Init
  <1>2. IInv /\ IInv' /\ [Next]_vars => [Book!Next]_(Book!vars)
    <2> SUFFICES ASSUME IInv, IInv', [Next]_vars, rows' # rows PROVE Book!Next
      BY BookFrame
    <2> DEFINE book == [a \in SlugsTaken |-> CHOOSE t \in Published : rows[t].slug = a]
    <2>1. /\ DOMAIN book = SlugsTaken
          /\ \A t \in Published : book[rows[t].slug] = t
      <3>1. \A t, x \in DOMAIN rows : rows[t].slug = rows[x].slug => t = x
        BY DEF IInv, TablesKeep, OneTournamentPerAddress, Published
      <3>2. \A t \in DOMAIN rows : (CHOOSE x \in DOMAIN rows : rows[x].slug = rows[t].slug) = t
        BY <3>1, OwnAddress
      <3> QED BY <3>2 DEF SlugsTaken, Published
    <2>2. /\ DOMAIN book' = SlugsTaken'
          /\ \A t \in Published' : book'[rows'[t].slug] = t
      <3>1. \A t, x \in DOMAIN rows' : rows'[t].slug = rows'[x].slug => t = x
        BY DEF IInv, TablesKeep, OneTournamentPerAddress, Published
      <3>2. \A t \in DOMAIN rows' : (CHOOSE x \in DOMAIN rows' : rows'[x].slug = rows'[t].slug) = t
        BY <3>1, OwnAddress
      <3> QED BY <3>2 DEF SlugsTaken, Published
    <2>3. book' = [a \in SlugsTaken' |-> book'[a]]
      BY <2>2
    <2>4. Book!Given = SlugsTaken /\ Book!Listed = Published
      <3>1. Book!Given = SlugsTaken
        BY <2>1 DEF Book!Given
      <3>2. Book!Listed = {book[a] : a \in SlugsTaken}
        BY <3>1 DEF Book!Listed
      <3>3. \A t \in Published : rows[t].slug \in SlugsTaken
        BY DEF SlugsTaken
      <3>4. \A a \in SlugsTaken : \E t \in Published : a = rows[t].slug
        BY DEF SlugsTaken
      <3> HIDE DEF book
      <3>5. \A a \in SlugsTaken : book[a] \in Published
        BY <2>1, <3>4
      <3>6. {book[a] : a \in SlugsTaken} = Published
        BY <2>1, <3>3, <3>5
      <3> QED BY <3>1, <3>2, <3>6
    <2>5. ASSUME NEW p \in Publisher, CommitPublication(p) PROVE Book!Next
      <3>1. PICK n, a : n = req[p].id /\ a = req[p].slug
        OBVIOUS
      <3>2. /\ n \in Tournament \ Published /\ Published' = Published \cup {n}
            /\ \A t \in Published : rows'[t] = rows[t] /\ rows[t].slug # a
            /\ rows'[n].slug = a /\ rows'[n].invalidatedAt = None
        <4>1. rows'[n] = newRow(a, req[p].startsAt, req[p].now)
          BY <2>5, <3>1, PublicationStep
        <4>2. /\ n \in Tournament \ Published /\ Published' = Published \cup {n}
              /\ \A t \in Published : rows'[t] = rows[t] /\ rows[t].slug # a
          BY <2>5, <3>1, PublicationStep
        <4> QED BY <4>1, <4>2 DEF newRow
      <3>3. SlugsTaken' = SlugsTaken \cup {a} /\ a \notin SlugsTaken
        BY <3>2 DEF SlugsTaken
      <3>4. \A x \in SlugsTaken' : book'[x] = IF x = a THEN n ELSE book[x]
        <4>1. book'[a] = n
          BY <2>2, <3>2
        <4>2. ASSUME NEW x \in SlugsTaken PROVE book'[x] = book[x]
          <5>1. PICK t \in Published : x = rows[t].slug
            BY DEF SlugsTaken
          <5> HIDE DEF book
          <5> QED BY <2>1, <2>2, <3>2, <5>1
        <4> HIDE DEF book
        <4> QED BY <3>3, <4>1, <4>2
      <3>5. book' = [x \in SlugsTaken \cup {a} |-> IF x = a THEN n ELSE book[x]]
        <4> HIDE DEF book
        <4> QED BY <2>3, <3>3, <3>4
      <3>6. {t \in Published : Replaced(t)}' = {t \in Published : Replaced(t)}
        BY <3>2 DEF Replaced
      <3>7. Book!Publish(a, n)
        BY <2>4, <3>2, <3>3, <3>5, <3>6 DEF Book!Publish
      <3>8. a \in DOMAIN book'
        BY <2>2, <3>3
      <3> QED BY <3>2, <3>7, <3>8 DEF Book!Next
    <2>6. ASSUME NEW o \in Organiser, CommitReplacement(o) PROVE Book!Next
      <3>1. PICK t, n, a, moved : /\ t = req[o].original /\ n = req[o].id
                                  /\ a = req[o].slug /\ moved = req[o].moved
        OBVIOUS
      <3>2. /\ t \in Published /\ n \in Tournament \ Published /\ ~Replaced(t)
            /\ Published' = Published \cup {n}
            /\ \A x \in Published \ {t} :
                 rows'[x] = rows[x] /\ rows[x].slug # moved /\ rows[x].slug # a
            /\ a = rows[t].slug /\ a # moved
        BY <2>6, <3>1, ReplacementStep
      <3>3. rows'[t].slug = moved /\ rows'[t].invalidatedAt # None
        <4>1. rows[t] \in Row /\ req[o].now # None
          <5>1. req[o].now \in Instant /\ t \in Published
            BY <2>6, <3>1, ReplacementStep
          <5> QED BY <5>1, AddressesConstants, NoneAssumption DEF IInv, TypeOK, Instant
        <4>2. rows'[t] = [rows[t] EXCEPT !.slug = moved, !.invalidatedAt = req[o].now,
                            !.replacedBy = n]
          BY <2>6, <3>1, ReplacementStep
        <4> QED BY <4>1, <4>2 DEF Row
      <3>4. rows'[n].slug = a /\ rows'[n].invalidatedAt = None
        <4>1. rows'[n] = newRow(a, req[o].startsAt, req[o].now)
          BY <2>6, <3>1, ReplacementStep
        <4> QED BY <4>1 DEF newRow
      <3>5. /\ SlugsTaken' = SlugsTaken \cup {moved} /\ moved \notin SlugsTaken
            /\ a \in SlugsTaken
        <4>1. moved \notin SlugsTaken /\ a \in SlugsTaken
          BY <3>2 DEF SlugsTaken
        <4>2. SlugsTaken' \subseteq SlugsTaken \cup {moved}
          BY <3>2, <3>3, <3>4 DEF SlugsTaken
        <4>3. SlugsTaken \cup {moved} \subseteq SlugsTaken'
          <5>1. \A x \in Published' : rows'[x].slug \in SlugsTaken'
            BY DEF SlugsTaken
          <5>2. ASSUME NEW y \in SlugsTaken PROVE y \in SlugsTaken'
            <6>1. PICK x \in Published : y = rows[x].slug
              BY DEF SlugsTaken
            <6> QED BY <3>2, <3>4, <5>1, <6>1
          <5> QED BY <3>2, <3>3, <5>1, <5>2
        <4> QED BY <4>1, <4>2, <4>3
      <3>6. \A x \in SlugsTaken' :
              book'[x] = IF x = a THEN n ELSE IF x = moved THEN book[a] ELSE book[x]
        <4> HIDE DEF book
        <4>1. book'[a] = n /\ book'[moved] = t /\ book[a] = t
          BY <2>1, <2>2, <3>2, <3>3, <3>4
        <4>2. ASSUME NEW x \in SlugsTaken, x # a PROVE book'[x] = book[x]
          <5>1. PICK z \in Published : x = rows[z].slug
            BY DEF SlugsTaken
          <5> QED BY <2>1, <2>2, <3>2, <4>2, <5>1
        <4> QED BY <3>2, <3>5, <4>1, <4>2
      <3>7. book' = [x \in SlugsTaken \cup {moved} |->
                       IF x = a THEN n ELSE IF x = moved THEN book[a] ELSE book[x]]
        <4> HIDE DEF book
        <4> QED BY <2>3, <3>5, <3>6
      <3>8. /\ book[a] = t /\ t \notin {x \in Published : Replaced(x)}
            /\ {x \in Published : Replaced(x)}' = {x \in Published : Replaced(x)} \cup {t}
        <4>1. book[a] = t
          BY <2>1, <3>2
        <4>2. {x \in Published : Replaced(x)}' = {x \in Published : Replaced(x)} \cup {t}
          BY <3>2, <3>3, <3>4 DEF Replaced
        <4> QED BY <3>2, <4>1, <4>2
      <3>9. Book!Replace(a, n, moved)
        BY <2>4, <3>2, <3>5, <3>7, <3>8 DEF Book!Replace
      <3>10. a \in DOMAIN book' /\ moved \in DOMAIN book'
        BY <2>2, <3>5
      <3> QED BY <3>2, <3>9, <3>10 DEF Book!Next
    <2> QED BY <2>5, <2>6, OnlyCommits
  <1> QED BY <1>1, <1>2, Invariance, PTL DEF Spec, ImplementsAddressBook, Book!Spec

-------------------------------------------------------------------------------
\* The chain of replacements that findLiveSuccessor follows.

\* A set of numbers that has any has a least one.
LEMMA LeastNumber ==
  ASSUME NEW S \in SUBSET Nat, S # {}
  PROVE  \E n \in S : \A m \in S : n <= m
  <1>1. PICK n \in S : \A m \in S : ~(<<m, n>> \in OpToRel(<, Nat))
    BY NatLessThanWellFounded, WFMin
  <1>2. \A m \in S : ~(m < n)
    BY <1>1 DEF OpToRel
  <1> QED BY <1>2

\* The replacements of a set of tournaments: one link of the chain.
Link(S) == {rows[x].replacedBy : x \in S} \ {None}

ChainTo(n, t, c) == c = [d \in 1..n |-> IF d = 1 THEN Link({t}) ELSE Link(c[d - 1])]

\* The recursion of the query has a solution, to whatever depth.
LEMMA ChainExists ==
  ASSUME NEW t
  PROVE  \A n \in Nat : \E c : ChainTo(n, t, c)
  <1> DEFINE Bad == {n \in Nat : ~\E c : ChainTo(n, t, c)}
  <1> SUFFICES ASSUME Bad # {} PROVE FALSE
    OBVIOUS
  <1>1. PICK n \in Bad : \A m \in Bad : n <= m
    <2> HIDE DEF Bad
    <2>1. Bad \in SUBSET Nat
      BY DEF Bad
    <2> QED BY <2>1, LeastNumber
  <1>2. n # 0
    <2>1. ChainTo(0, t, [d \in 1..0 |-> Link({t})])
      BY DEF ChainTo
    <2> QED BY <1>1, <2>1
  <1>3. n \in Nat /\ n - 1 \in Nat /\ n - 1 \notin Bad
    BY <1>1, <1>2
  <1>4. PICK c : ChainTo(n - 1, t, c)
    BY <1>3
  <1> DEFINE e == [d \in 1..n |-> IF d = n THEN (IF d = 1 THEN Link({t}) ELSE Link(c[d - 1]))
                                  ELSE c[d]]
  <1>5. ASSUME NEW d \in 1..n
        PROVE  e[d] = IF d = 1 THEN Link({t}) ELSE Link(e[d - 1])
    <2>1. d # 1 => d - 1 \in 1..n /\ d - 1 # n /\ e[d - 1] = c[d - 1]
      BY <1>3
    <2>2. CASE d = n
      BY <2>1, <2>2
    <2>3. CASE d # n
      <3>1. d \in 1..(n - 1) /\ e[d] = c[d]
        BY <1>3, <2>3
      <3>2. c[d] = IF d = 1 THEN Link({t}) ELSE Link(c[d - 1])
        BY <1>4, <3>1 DEF ChainTo
      <3> QED BY <2>1, <3>1, <3>2
    <2> QED BY <2>2, <2>3
  <1>6. e = [d \in 1..n |-> e[d]]
    OBVIOUS
  <1>7. ChainTo(n, t, e)
    <2> HIDE DEF e
    <2> QED BY <1>5, <1>6 DEF ChainTo
  <1> QED BY <1>1, <1>7

\* What the query finds, of a chain of at most MaxDepth links.
LEMMA SuccessorsOfChain ==
  ASSUME NEW t
  PROVE  \E c : /\ \A d \in 1..MaxDepth :
                     c[d] = IF d = 1 THEN Link({t}) ELSE Link(c[d - 1])
                /\ liveSuccessors(t) = {x \in UNION {c[d] : d \in 1..MaxDepth} : ~Replaced(x)}
  <1> DEFINE c == CHOOSE c : c = [d \in 1..MaxDepth |-> IF d = 1 THEN Link({t}) ELSE Link(c[d - 1])]
  <1>1. c = [d \in 1..MaxDepth |-> IF d = 1 THEN Link({t}) ELSE Link(c[d - 1])]
    <2>1. \E e : ChainTo(MaxDepth, t, e)
      BY ChainExists, AddressesConstants
    <2> QED BY <2>1 DEF ChainTo
  <1>2. liveSuccessors(t) = {x \in UNION {c[d] : d \in 1..MaxDepth} : ~Replaced(x)}
    BY DEF liveSuccessors, Link
  <1> HIDE DEF c
  <1>3. \A d \in 1..MaxDepth : c[d] = IF d = 1 THEN Link({t}) ELSE Link(c[d - 1])
    BY <1>1
  <1> QED BY <1>2, <1>3

\* No links lead round in a circle: a tournament that is replaced hands over to one that
\* did not exist before.
NoRing ==
  \A S \in SUBSET Published : (\A t \in S : Replaced(t) /\ rows[t].replacedBy \in S) => S = {}

LEMMA LinksEnd == Spec => []NoRing
  <1>1. Init => NoRing
    BY DEF Init, NoRing, Published
  <1>2. IInv /\ NoRing /\ [Next]_vars => NoRing'
    <2> SUFFICES ASSUME IInv, NoRing, [Next]_vars, rows' # rows PROVE NoRing'
      BY DEF NoRing, Replaced, Published
    \* Whichever commit it is, the row it adds is live and nobody's replacement but one's.
    <2>1. ASSUME NEW s, NEW t, s \notin Published, Published' = Published \cup {s}, ~Replaced(s)',
                 \A x \in Published \ {t} : rows'[x] = rows[x],
                 t \in Published => rows'[t] = rows[t] \/ rows'[t].replacedBy = s
          PROVE  NoRing'
      <3> SUFFICES ASSUME NEW S \in SUBSET Published',
                          \A x \in S : Replaced(x)' /\ rows'[x].replacedBy \in S
                   PROVE  S = {}
        BY DEF NoRing
      <3>1. s \notin S
        BY <2>1
      <3>2. \A x \in S : x \in Published /\ rows'[x] = rows[x]
        BY <2>1, <3>1
      <3>3. S \in SUBSET Published /\ \A x \in S : Replaced(x) /\ rows[x].replacedBy \in S
        BY <3>2 DEF Replaced
      <3> QED BY <3>3 DEF NoRing
    <2>2. ASSUME NEW p \in Publisher, CommitPublication(p) PROVE NoRing'
      <3>1. PICK s : s = req[p].id
        OBVIOUS
      <3>2. /\ s \notin Published /\ Published' = Published \cup {s}
            /\ \A x \in Published : rows'[x] = rows[x]
            /\ rows'[s] = newRow(req[p].slug, req[p].startsAt, req[p].now)
        BY <2>2, <3>1, PublicationStep
      <3>3. ~Replaced(s)'
        BY <3>2 DEF newRow, Replaced
      <3> QED BY <2>1, <3>2, <3>3
    <2>3. ASSUME NEW o \in Organiser, CommitReplacement(o) PROVE NoRing'
      <3>1. PICK s, t : s = req[o].id /\ t = req[o].original
        OBVIOUS
      <3>2. /\ s \notin Published /\ Published' = Published \cup {s} /\ t \in Published
            /\ \A x \in Published \ {t} : rows'[x] = rows[x]
        BY <2>3, <3>1, ReplacementStep
      <3>3. ~Replaced(s)'
        <4>1. rows'[s] = newRow(req[o].slug, req[o].startsAt, req[o].now)
          BY <2>3, <3>1, ReplacementStep
        <4> QED BY <4>1 DEF newRow, Replaced
      <3>4. rows'[t].replacedBy = s
        <4>1. rows[t] \in Row
          BY <3>2 DEF IInv, TypeOK
        <4>2. rows'[t] = [rows[t] EXCEPT !.slug = req[o].moved, !.invalidatedAt = req[o].now,
                            !.replacedBy = s]
          BY <2>3, <3>1, ReplacementStep
        <4> QED BY <4>1, <4>2 DEF Row
      <3> QED BY <2>1, <3>2, <3>3, <3>4
    <2> QED BY <2>2, <2>3, OnlyCommits
  <1> QED BY <1>1, <1>2, Invariance, PTL DEF Spec

\* A link from a replaced tournament leads to one tournament, published under the same
\* address; a live one has no link.
LEMMA OneLink ==
  ASSUME IInv, NEW x \in Published
  PROVE  /\ Replaced(x) => /\ Link({x}) = {rows[x].replacedBy}
                           /\ rows[x].replacedBy \in Published
                           /\ rows[rows[x].replacedBy].born = rows[x].born
         /\ ~Replaced(x) => Link({x}) = {} /\ rows[x].slug = rows[x].born
  <1>1. (rows[x].replacedBy = None) <=> ~Replaced(x)
    BY DEF IInv, TypeOK, Replaced
  <1>2. IF Replaced(x) THEN /\ rows[x].replacedBy \in Published
                            /\ rows[rows[x].replacedBy].born = rows[x].born
        ELSE rows[x].slug = rows[x].born
    BY DEF IInv, TablesKeep, LineageKept
  <1> QED BY <1>1, <1>2 DEF Link

\* A chain of replaced tournaments visits none twice, so it is shorter than their number.
LEMMA ChainsAreShort ==
  ASSUME IInv, NoRing, NEW g, NEW n \in Nat, g \in [0..n -> Published],
         \A d \in 0..n : Replaced(g[d]),
         \A d \in 0..n : d < n => g[d + 1] = rows[g[d]].replacedBy
  PROVE  n + 1 < Cardinality(Published)
  <1>1. ASSUME NEW i \in 0..n, NEW j \in 0..n, i < j, g[i] = g[j] PROVE FALSE
    <2> DEFINE S == {g[d] : d \in i..(j - 1)}
    <2>1. i..(j - 1) \subseteq 0..n /\ i \in i..(j - 1)
      BY <1>1
    <2>2. S \in SUBSET Published /\ g[i] \in S
      BY <2>1
    <2>3. ASSUME NEW x \in S PROVE Replaced(x) /\ rows[x].replacedBy \in S
      <3>1. PICK d \in i..(j - 1) : x = g[d]
        OBVIOUS
      <3>2. d \in 0..n /\ d < n /\ g[d + 1] = rows[x].replacedBy /\ Replaced(x)
        BY <1>1, <2>1, <3>1
      <3>3. CASE d = j - 1
        <4>1. d + 1 = j
          BY <1>1, <3>3
        <4> QED BY <1>1, <2>2, <3>2, <4>1
      <3>4. CASE d # j - 1
        <4>1. d + 1 \in i..(j - 1)
          BY <1>1, <3>4
        <4> QED BY <3>2, <4>1
      <3> QED BY <3>3, <3>4
    <2> HIDE DEF S
    <2> QED BY <2>2, <2>3 DEF NoRing
  <1>2. g \in Injection(0..n, Published)
    <2>1. ASSUME NEW i \in 0..n, NEW j \in 0..n, g[i] = g[j] PROVE i = j
      <3>1. ~(i < j) /\ ~(j < i)
        BY <1>1, <2>1
      <3> QED BY <3>1
    <2> QED BY <2>1 DEF Injection, IsInjective
  <1>3. IsFiniteSet(Published) /\ Cardinality(Published) \in Nat
    BY FS_CardinalityType DEF IInv, TablesKeep
  <1>4. Cardinality(0..n) = n + 1
    BY FS_Interval
  <1>5. /\ Cardinality(0..n) <= Cardinality(Published)
        /\ Cardinality(0..n) = Cardinality(Published) => g \in Surjection(0..n, Published)
    BY <1>2, <1>3, FS_Injection
  <1>6. g \notin Surjection(0..n, Published)
    <2> SUFFICES ASSUME g \in Surjection(0..n, Published) PROVE FALSE
      OBVIOUS
    <2>1. \A x \in Published : Replaced(x) /\ rows[x].replacedBy \in Published
      BY OneLink DEF Surjection
    <2>2. g[0] \in Published
      OBVIOUS
    <2> QED BY <2>1, <2>2 DEF NoRing
  <1> QED BY <1>3, <1>4, <1>5, <1>6

\* While no more tournaments are published than a chain of MaxDepth links holds (the
\* query is cut at 100), the address a tournament was published under is that of the one
\* live tournament that findLiveSuccessor finds from it (FR-210, Key Entities).
THEOREM AddressesHandedOn ==
  Spec => [](Cardinality(Published) <= MaxDepth + 1 => AddressFollowsLineage)
  <1>1. ASSUME IInv, NoRing, Cardinality(Published) <= MaxDepth + 1, NEW t \in Published, Replaced(t)
        PROVE  \E x \in Published : liveSuccessors(t) = {x} /\ rows[x].slug = rows[t].born
    <2>1. PICK c : /\ \A d \in 1..MaxDepth :
                        c[d] = IF d = 1 THEN Link({t}) ELSE Link(c[d - 1])
                   /\ liveSuccessors(t) = {x \in UNION {c[d] : d \in 1..MaxDepth} : ~Replaced(x)}
      BY SuccessorsOfChain
    <2> DEFINE Along(d) == \E x \in Published : /\ c[d] = {x} /\ Replaced(x)
                                                /\ rows[x].born = rows[t].born
               Stop == {d \in 1..MaxDepth : ~Along(d)}
    <2>0. MaxDepth \in Nat /\ MaxDepth > 0 /\ Cardinality(Published) \in Nat
      BY <1>1, AddressesConstants, FS_CardinalityType DEF IInv, TablesKeep
    \* The links as long as they go on: from a replaced one to the next.
    <2>2. ASSUME NEW d \in 1..MaxDepth, NEW p \in Published, Replaced(p), rows[p].born = rows[t].born,
                 IF d = 1 THEN p = t ELSE c[d - 1] = {p}
          PROVE  /\ c[d] = {rows[p].replacedBy} /\ rows[p].replacedBy \in Published
                 /\ rows[rows[p].replacedBy].born = rows[t].born
      <3>1. c[d] = Link({p})
        BY <2>1, <2>2
      <3> QED BY <1>1, <2>2, <3>1, OneLink
    <2>3. Stop # {}
      <3> SUFFICES ASSUME Stop = {} PROVE FALSE
        OBVIOUS
      <3> DEFINE g == [d \in 0..MaxDepth |-> IF d = 0 THEN t ELSE CHOOSE x : c[d] = {x}]
      <3>1. \A d \in 1..MaxDepth : Along(d)
        OBVIOUS
      <3>2. \A d \in 1..MaxDepth : c[d] = {g[d]} /\ g[d] \in Published /\ Replaced(g[d])
                                   /\ rows[g[d]].born = rows[t].born
        <4> SUFFICES ASSUME NEW d \in 1..MaxDepth
                     PROVE  c[d] = {g[d]} /\ g[d] \in Published /\ Replaced(g[d])
                            /\ rows[g[d]].born = rows[t].born
          OBVIOUS
        <4>1. PICK x \in Published : c[d] = {x} /\ Replaced(x) /\ rows[x].born = rows[t].born
          BY <3>1
        <4>2. g[d] = CHOOSE y : c[d] = {y}
          <5>1. d \in 0..MaxDepth /\ d # 0
            BY <2>0
          <5> QED BY <5>1
        <4>3. (CHOOSE y : c[d] = {y}) = x
          BY <4>1
        <4> HIDE DEF g
        <4> QED BY <4>1, <4>2, <4>3
      <3>3. g[0] = t /\ DOMAIN g = 0..MaxDepth /\ g = [d \in 0..MaxDepth |-> g[d]]
        BY <2>0
      <3> HIDE DEF g
      <3>4. \A d \in 0..MaxDepth : g[d] \in Published /\ Replaced(g[d]) /\ rows[g[d]].born = rows[t].born
        <4>1. \A d \in 0..MaxDepth : d = 0 \/ d \in 1..MaxDepth
          BY <2>0
        <4> QED BY <1>1, <3>2, <3>3, <4>1
      <3>5. g \in [0..MaxDepth -> Published]
        BY <3>3, <3>4
      <3>6. ASSUME NEW d \in 0..MaxDepth, d < MaxDepth PROVE g[d + 1] = rows[g[d]].replacedBy
        <4>1. d + 1 \in 1..MaxDepth /\ (d + 1) - 1 = d /\ (d # 0 => d \in 1..MaxDepth) /\ (d + 1 = 1 <=> d = 0)
          BY <2>0, <3>6
        <4>2. IF d + 1 = 1 THEN g[d] = t ELSE c[(d + 1) - 1] = {g[d]}
          BY <3>2, <3>3, <4>1
        <4>3. c[d + 1] = {rows[g[d]].replacedBy}
          BY <2>2, <3>4, <4>1, <4>2
        <4>4. c[d + 1] = {g[d + 1]}
          BY <3>2, <4>1
        <4> QED BY <4>3, <4>4
      <3>7. MaxDepth + 1 < Cardinality(Published)
        BY <1>1, <2>0, <3>4, <3>5, <3>6, ChainsAreShort
      <3> QED BY <1>1, <2>0, <3>7
    <2>4. PICK k \in Stop : \A m \in Stop : k <= m
      <3>1. Stop \in SUBSET Nat
        BY <2>0
      <3> HIDE DEF Stop
      <3> QED BY <2>3, <3>1, LeastNumber
    <2>5. k \in 1..MaxDepth /\ ~Along(k) /\ \A d \in 1..MaxDepth : d < k => Along(d)
      <3>1. \A d \in Stop : d \in Nat
        BY <2>0
      <3> QED BY <2>0, <2>4, <3>1
    <2> HIDE DEF Stop
    <2>6. PICK y \in Published : c[k] = {y} /\ rows[y].born = rows[t].born
      <3>1. CASE k = 1
        BY <1>1, <2>2, <2>5, <3>1
      <3>2. CASE k # 1
        <4>1. k - 1 \in 1..MaxDepth /\ k - 1 < k
          BY <2>0, <2>5, <3>2
        <4>2. PICK p \in Published : c[k - 1] = {p} /\ Replaced(p) /\ rows[p].born = rows[t].born
          BY <2>5, <4>1
        <4> HIDE DEF Along
        <4> QED BY <2>2, <2>5, <3>2, <4>2
      <3> QED BY <3>1, <3>2
    <2>7. ~Replaced(y)
      BY <2>5, <2>6
    \* Past the live one there is nothing.
    <2>8. \A d \in 1..MaxDepth : d > k => c[d] = {}
      <3> DEFINE Past == {d \in 1..MaxDepth : d > k /\ c[d] # {}}
      <3> SUFFICES ASSUME Past # {} PROVE FALSE
        OBVIOUS
      <3>1. PICK d \in Past : \A m \in Past : d <= m
        <4>1. Past \in SUBSET Nat
          BY <2>0
        <4> HIDE DEF Past
        <4> QED BY <4>1, LeastNumber
      <3>2. d \in 1..MaxDepth /\ d # 1 /\ d - 1 \in 1..MaxDepth /\ (d - 1 = k \/ d - 1 > k)
        BY <2>0, <2>5, <3>1
      <3>3. c[d] = Link(c[d - 1]) /\ c[d] # {}
        BY <2>1, <3>1, <3>2
      <3>4. CASE d - 1 = k
        BY <1>1, <2>6, <2>7, <3>3, <3>4, OneLink
      <3>5. CASE d - 1 > k
        <4>1. d - 1 \notin Past
          BY <2>0, <3>1, <3>2
        <4>2. c[d - 1] = {}
          BY <3>2, <3>5, <4>1
        <4> QED BY <3>3, <4>2 DEF Link
      <3> QED BY <3>2, <3>4, <3>5
    <2>9. \A d \in 1..MaxDepth : d < k => \A x \in c[d] : Replaced(x)
      BY <2>5
    <2> HIDE DEF Along
    <2>10. \A d \in 1..MaxDepth : \A x \in c[d] : ~Replaced(x) => x = y
      <3>1. \A d \in 1..MaxDepth : d < k \/ d = k \/ d > k
        BY <2>0, <2>5
      <3> QED BY <2>6, <2>8, <2>9, <3>1
    <2>11. y \in UNION {c[d] : d \in 1..MaxDepth}
      BY <2>5, <2>6
    <2>12. liveSuccessors(t) = {y}
      <3>1. \A x \in liveSuccessors(t) : x = y
        BY <2>1, <2>10
      <3> QED BY <2>1, <2>7, <2>11, <3>1
    <2>13. rows[y].slug = rows[t].born
      BY <1>1, <2>6, <2>7, OneLink
    <2> QED BY <2>6, <2>12, <2>13
  <1>2. IInv /\ NoRing => (Cardinality(Published) <= MaxDepth + 1 => AddressFollowsLineage)
    <2> SUFFICES ASSUME IInv, NoRing, Cardinality(Published) <= MaxDepth + 1, NEW t \in Published
                 PROVE  IF Replaced(t)
                        THEN /\ rows[t].slug # rows[t].born
                             /\ \E x \in Published :
                                  liveSuccessors(t) = {x} /\ rows[x].slug = rows[t].born
                        ELSE rows[t].slug = rows[t].born
      BY DEF AddressFollowsLineage
    <2>1. IF Replaced(t) THEN rows[t].slug # rows[t].born ELSE rows[t].slug = rows[t].born
      BY DEF IInv, TablesKeep, LineageKept
    <2> QED BY <1>1, <2>1
  <1> QED BY <1>2, Invariance, LinksEnd, PTL
===============================================================================
