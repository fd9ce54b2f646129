----------------------------- MODULE LineupProofs -----------------------------
(***************************************************************************)
(* What is proved of a pasted lineup: when it is accepted, that every pair *)
(* keeps its players, and that the groups are by strength whatever the     *)
(* order of the paste; and of the organiser's page it is pasted in: what   *)
(* is published was previewed, a draft is its payload, and the table is in *)
(* the order of the groups.                                                *)
(***************************************************************************)
EXTENDS LineupReview, ScoringProofs, SequenceTheorems

-------------------------------------------------------------------------------
(***************************************************************************)
(* Places and order.                                                       *)
(***************************************************************************)

\* The places of a set, in their order.
InTurn(S) ==
  /\ Cardinality(S) \in Nat
  /\ \A n \in 1..Cardinality(S) : nth(S, n) \in S /\ Cardinality({j \in S : j <= nth(S, n)}) = n
  /\ \A m, n \in 1..Cardinality(S) : m < n => nth(S, m) < nth(S, n)
  /\ \A i \in S : \E n \in 1..Cardinality(S) : nth(S, n) = i

LEMMA PlacesInTurn ==
  ASSUME NEW S, S \subseteq Nat, IsFiniteSet(S)
  PROVE  InTurn(S)
  <1> DEFINE upTo == [t \in S |-> {y \in S : y <= t}]
  <1>1. Nested(upTo, S)
    <2>1. \A t \in S : t \in upTo[t] /\ upTo[t] \subseteq S
      OBVIOUS
    <2>2. ASSUME NEW t \in S, NEW u \in S, t < u
          PROVE  upTo[t] \subseteq upTo[u] /\ u \notin upTo[t]
      <3>1. t \in Nat /\ u \in Nat /\ ~(u <= t)
        BY <2>2
      <3>2. \A y \in S : y <= t => y <= u
        BY <2>2, <3>1
      <3> QED BY <3>1, <3>2
    <2>3. \A t, u \in S : t # u => t < u \/ u < t
      OBVIOUS
    <2> HIDE DEF upTo
    <2> QED BY <2>1, <2>2, <2>3 DEF Nested
  <1>2. \A t \in S : Cardinality({j \in S : j <= t}) = Cardinality(upTo[t])
    <2> SUFFICES ASSUME NEW t \in S PROVE Cardinality({j \in S : j <= t}) = Cardinality(upTo[t])
      OBVIOUS
    <2>1. upTo[t] = {j \in S : j <= t}
      OBVIOUS
    <2> HIDE DEF upTo
    <2> QED BY <2>1
  <1>3. ASSUME NEW t \in S, NEW u \in S, t <= u
        PROVE  upTo[t] \subseteq upTo[u]
    <2>1. \A y \in S : y <= t => y <= u
      BY <1>3
    <2> QED BY <2>1
  <1>4. \A t \in S : upTo[t] \subseteq S
    OBVIOUS
  <1> HIDE DEF upTo
  <1>5. Ranked(upTo, S)
    BY <1>1, Ranks
  <1>6. \A n \in 1..Cardinality(S) : nth(S, n) \in S /\ Cardinality({j \in S : j <= nth(S, n)}) = n
    <2> SUFFICES ASSUME NEW n \in 1..Cardinality(S)
                 PROVE  \E i \in S : Cardinality({j \in S : j <= i}) = n
      BY DEF nth
    <2> QED BY <1>2, <1>5 DEF Ranked
  <1>7. ASSUME NEW m \in 1..Cardinality(S), NEW n \in 1..Cardinality(S), m < n
        PROVE  nth(S, m) < nth(S, n)
    <2>0. nth(S, m) \in Nat /\ nth(S, n) \in Nat
      BY <1>6
    <2> SUFFICES ASSUME nth(S, n) <= nth(S, m) PROVE FALSE
      BY <2>0
    <2>1. Cardinality(upTo[nth(S, n)]) = n /\ Cardinality(upTo[nth(S, m)]) = m
      BY <1>2, <1>6
    <2>2. upTo[nth(S, n)] \in SUBSET upTo[nth(S, m)] /\ upTo[nth(S, m)] \in SUBSET S
      BY <1>3, <1>4, <1>6
    <2>3. Cardinality(upTo[nth(S, n)]) <= Cardinality(upTo[nth(S, m)])
      BY <2>2, FS_Subset
    <2> QED BY <1>7, <2>1, <2>3
  <1>8. ASSUME NEW i \in S
        PROVE  \E n \in 1..Cardinality(S) : nth(S, n) = i
    <2>1. PICK n \in 1..Cardinality(S) : n = Cardinality(upTo[i])
      BY <1>5 DEF Ranked
    <2>2. Cardinality(upTo[nth(S, n)]) = n
      BY <1>2, <1>6
    <2> QED BY <1>5, <1>6, <2>1, <2>2 DEF Ranked
  <1> QED BY <1>6, <1>7, <1>8, FS_CardinalityType DEF InTurn

LEMMA LeastPlace ==
  ASSUME NEW S, S \subseteq Nat, InTurn(S), S # {}
  PROVE  /\ 1 \in 1..Cardinality(S) /\ nth(S, 1) \in S
         /\ \A i \in S : nth(S, 1) <= i
  <1>1. 1 \in 1..Cardinality(S)
    <2>1. PICK i \in S : TRUE
      OBVIOUS
    <2>2. PICK n \in 1..Cardinality(S) : nth(S, n) = i
      BY DEF InTurn
    <2>3. Cardinality(S) \in Nat
      BY DEF InTurn
    <2> QED BY <2>2, <2>3
  <1>2. nth(S, 1) \in S
    BY <1>1 DEF InTurn
  <1>3. ASSUME NEW i \in S PROVE nth(S, 1) <= i
    <2>1. PICK n \in 1..Cardinality(S) : nth(S, n) = i
      BY DEF InTurn
    <2>2. n = 1 \/ 1 < n
      BY <1>1, <2>1
    <2>3. 1 < n => nth(S, 1) < nth(S, n)
      BY <1>1, <2>1 DEF InTurn
    <2>4. nth(S, 1) \in Nat /\ i \in Nat
      BY <1>2
    <2> QED BY <2>1, <2>2, <2>3, <2>4
  <1> QED BY <1>1, <1>2, <1>3

LEMMA FirstNumbers ==
  ASSUME NEW size \in Nat
  PROVE  IsFiniteSet(1..size) /\ Cardinality(1..size) = size
  <1>1. 1 \in Int /\ size \in Int
    OBVIOUS
  <1>2. IsFiniteSet(1..size) /\ Cardinality(1..size) = IF 1 > size THEN 0 ELSE size - 1 + 1
    BY <1>1, FS_Interval
  <1> QED BY <1>2

LEMMA AllInTurn ==
  ASSUME NEW size \in Nat
  PROVE  Cardinality(1..size) = size /\ \A n \in 1..size : nth(1..size, n) = n
  <1>1. IsFiniteSet(1..size) /\ Cardinality(1..size) = size
    BY FirstNumbers
  <1>2. InTurn(1..size)
    BY <1>1, PlacesInTurn
  <1>3. ASSUME NEW n \in 1..size PROVE nth(1..size, n) = n
    <2>1. PICK i \in 1..size : i = nth(1..size, n)
      BY <1>1, <1>2 DEF InTurn
    <2>2. Cardinality({j \in 1..size : j <= i}) = n
      BY <1>1, <1>2, <2>1 DEF InTurn
    <2>3. {j \in 1..size : j <= i} = 1..i
      OBVIOUS
    <2>4. Cardinality(1..i) = i
      BY FirstNumbers
    <2> QED BY <2>1, <2>2, <2>3, <2>4
  <1> QED BY <1>1, <1>3

LEMMA LengthIs ==
  ASSUME NEW s, NEW size \in Nat, s = [i \in 1..size |-> s[i]]
  PROVE  Len(s) = size
  OBVIOUS

\* A total order on the first numbers: whatever has n - 1 before it is the n-th.
LinearOrder(prior, size) ==
  /\ \A i \in 1..size : <<i, i>> \notin prior
  /\ \A i, j \in 1..size : i # j => <<i, j>> \in prior \/ <<j, i>> \in prior
  /\ \A i, j, k \in 1..size : <<i, j>> \in prior /\ <<j, k>> \in prior => <<i, k>> \in prior

Preceding(prior, size, i) == {j \in 1..size : <<j, i>> \in prior}

Arranged(order, prior, size) ==
  /\ \A n \in 1..size : order[n] \in 1..size /\ Cardinality(Preceding(prior, size, order[n])) = n - 1
  /\ \A m, n \in 1..size : m < n => <<order[m], order[n]>> \in prior
  /\ \A i \in 1..size : \E n \in 1..size : order[n] = i

LEMMA RankedInOrder ==
  ASSUME NEW size \in Nat, NEW prior, LinearOrder(prior, size), NEW order,
         \A n \in 1..size : order[n] = CHOOSE i \in 1..size : Cardinality(Preceding(prior, size, i)) = n - 1
  PROVE  Arranged(order, prior, size)
  <1> DEFINE D == 1..size
             ahead(i) == Preceding(prior, size, i)
             upTo == [i \in D |-> ahead(i) \cup {i}]
  <1>1. IsFiniteSet(D) /\ Cardinality(D) = size
    BY FirstNumbers
  <1>2. \A i \in D : i \notin ahead(i) /\ ahead(i) \subseteq D
    BY DEF LinearOrder, Preceding
  <1>3. ASSUME NEW i \in D, NEW j \in D, <<i, j>> \in prior
        PROVE  upTo[i] \subseteq upTo[j] /\ j \notin upTo[i]
    <2>1. \A k \in ahead(i) : k \in ahead(j)
      BY <1>3 DEF LinearOrder, Preceding
    <2>2. i \in ahead(j) /\ j \notin ahead(i) /\ i # j
      BY <1>3 DEF LinearOrder, Preceding
    <2> HIDE DEF ahead
    <2> QED BY <2>1, <2>2
  <1>4. Nested(upTo, D)
    <2>1. \A i \in D : i \in upTo[i] /\ upTo[i] \subseteq D
      BY <1>2
    <2> HIDE DEF upTo
    <2> QED BY <1>3, <2>1 DEF Nested, LinearOrder
  <1>5. Ranked(upTo, D)
    <2> HIDE DEF upTo, D
    <2> QED BY <1>1, <1>4, Ranks
  <1>6. \A i \in D : IsFiniteSet(ahead(i)) /\ Cardinality(ahead(i)) \in Nat
    <2> SUFFICES ASSUME NEW i \in D PROVE IsFiniteSet(ahead(i)) /\ Cardinality(ahead(i)) \in Nat
      OBVIOUS
    <2>1. ahead(i) \in SUBSET D
      BY <1>2
    <2> QED BY <1>1, <2>1, FS_Subset, FS_CardinalityType
  <1>7. \A i \in D : Cardinality(upTo[i]) = Cardinality(ahead(i)) + 1
    <2> SUFFICES ASSUME NEW i \in D PROVE Cardinality(ahead(i) \cup {i}) = Cardinality(ahead(i)) + 1
      OBVIOUS
    <2> HIDE DEF ahead
    <2> QED BY <1>2, <1>6, FS_AddElement
  <1>8. \A n \in D : order[n] = CHOOSE i \in D : Cardinality(ahead(i)) = n - 1
    OBVIOUS
  <1> HIDE DEF upTo, ahead
  <1>9. \A n \in D : order[n] \in D /\ Cardinality(ahead(order[n])) = n - 1
    <2> SUFFICES ASSUME NEW n \in D PROVE \E i \in D : Cardinality(ahead(i)) = n - 1
      BY <1>8
    <2>1. PICK i \in D : Cardinality(upTo[i]) = n
      BY <1>1, <1>5 DEF Ranked
    <2>2. Cardinality(ahead(i)) = n - 1
      BY <1>6, <1>7, <2>1
    <2> QED BY <2>2
  <1>10. ASSUME NEW m \in D, NEW n \in D, m < n
         PROVE  <<order[m], order[n]>> \in prior
    <2> DEFINE i == order[m]
               j == order[n]
    <2>1. i \in D /\ j \in D /\ Cardinality(upTo[i]) = m /\ Cardinality(upTo[j]) = n
      BY <1>7, <1>9
    <2> HIDE DEF i, j
    <2> SUFFICES ASSUME <<i, j>> \notin prior PROVE FALSE
      BY DEF i, j
    <2>2. i # j
      BY <1>10, <2>1
    <2>3. <<j, i>> \in prior
      BY <2>1, <2>2 DEF LinearOrder
    <2>4. upTo[j] \in SUBSET upTo[i] /\ upTo[i] \in SUBSET D
      BY <1>3, <1>4, <2>1, <2>3 DEF Nested
    <2>5. Cardinality(upTo[j]) <= Cardinality(upTo[i])
      BY <1>1, <2>4, FS_Subset
    <2> QED BY <1>10, <2>1, <2>5
  <1>11. ASSUME NEW i \in D
         PROVE  \E n \in D : order[n] = i
    <2>1. PICK n \in D : n = Cardinality(upTo[i])
      BY <1>1, <1>5 DEF Ranked
    <2>2. Cardinality(upTo[order[n]]) = n /\ order[n] \in D
      BY <1>7, <1>9
    <2> QED BY <1>5, <2>1, <2>2 DEF Ranked
  <1> QED BY <1>9, <1>10, <1>11 DEF Arranged, ahead

\* A paste: a list of pairs with a total each.
IsPaste(ps) ==
  /\ Len(ps) \in Nat /\ ps = [i \in 1..Len(ps) |-> ps[i]]
  /\ \A i \in 1..Len(ps) : ps[i].totalPoints \in Nat

\* The order of strength: a place for each pair, and stronger ones before.
Strong(ps) ==
  LET order == byStrength(ps) IN
  /\ Len(ps) \in Nat /\ DOMAIN order = 1..Len(ps) /\ DOMAIN ps = 1..Len(ps)
  /\ \A n \in 1..Len(ps) : /\ order[n] \in 1..Len(ps)
                           /\ Cardinality({j \in DOMAIN ps : stronger(ps, j, order[n])}) = n - 1
  /\ \A m, n \in 1..Len(ps) : m < n => stronger(ps, order[m], order[n])
  /\ \A i \in 1..Len(ps) : \E n \in 1..Len(ps) : order[n] = i

LEMMA StrongerIsOrder ==
  ASSUME NEW ps, IsPaste(ps)
  PROVE  /\ Len(ps) \in Nat /\ DOMAIN ps = 1..Len(ps) /\ IsFiniteSet(DOMAIN ps)
         /\ Cardinality(DOMAIN ps) = Len(ps)
         /\ \A i \in DOMAIN ps : ps[i].totalPoints \in Nat /\ ~stronger(ps, i, i)
         /\ \A i, j \in DOMAIN ps : i # j => stronger(ps, i, j) \/ stronger(ps, j, i)
         /\ \A i, j, k \in DOMAIN ps : stronger(ps, i, j) /\ stronger(ps, j, k) => stronger(ps, i, k)
  <1>1. Len(ps) \in Nat /\ DOMAIN ps = 1..Len(ps)
    BY DEF IsPaste
  <1>2. \A i \in DOMAIN ps : ps[i].totalPoints \in Nat
    BY LineupConstants DEF IsPaste
  <1>3. IsFiniteSet(DOMAIN ps) /\ Cardinality(DOMAIN ps) = Len(ps)
    <2>1. Cardinality(1..Len(ps)) = Len(ps)
      BY <1>1, AllInTurn
    <2>2. IsFiniteSet(1..Len(ps))
      BY <1>1, FirstNumbers
    <2> QED BY <1>1, <2>1, <2>2
  <1> QED BY <1>1, <1>2, <1>3 DEF stronger

LEMMA StrengthOrder ==
  ASSUME NEW ps, IsPaste(ps)
  PROVE  Strong(ps)
  <1> DEFINE size == Len(ps)
             prior == {x \in (1..size) \X (1..size) : stronger(ps, x[1], x[2])}
             order == byStrength(ps)
  <1>1. size \in Nat /\ DOMAIN ps = 1..size
    BY StrongerIsOrder
  <1>2. \A i, j \in 1..size : <<i, j>> \in prior <=> stronger(ps, i, j)
    OBVIOUS
  <1> HIDE DEF prior
  <1>3. LinearOrder(prior, size)
    BY <1>1, <1>2, StrongerIsOrder DEF LinearOrder
  <1>4. \A i \in 1..size : Preceding(prior, size, i) = {j \in DOMAIN ps : stronger(ps, j, i)}
    BY <1>1, <1>2 DEF Preceding
  <1>5. DOMAIN order = 1..size
        /\ \A n \in 1..size : order[n] = CHOOSE i \in 1..size :
                                  Cardinality({j \in DOMAIN ps : stronger(ps, j, i)}) = n - 1
    BY <1>1 DEF byStrength
  <1> HIDE DEF order, size
  <1>6. \A n \in 1..size :
          order[n] = CHOOSE i \in 1..size : Cardinality(Preceding(prior, size, i)) = n - 1
    BY <1>4, <1>5
  <1>7. Arranged(order, prior, size)
    BY <1>1, <1>3, <1>6, RankedInOrder
  <1>8. \A n \in 1..size : order[n] \in 1..size
        /\ Cardinality({j \in DOMAIN ps : stronger(ps, j, order[n])}) = n - 1
    BY <1>4, <1>7 DEF Arranged
  <1>9. \A m, n \in 1..size : m < n => stronger(ps, order[m], order[n])
    BY <1>2, <1>7, <1>8 DEF Arranged
  <1> QED BY <1>1, <1>5, <1>7, <1>8, <1>9 DEF Strong, Arranged, order, size

-------------------------------------------------------------------------------
(***************************************************************************)
(* The names of a paste, and who they are.                                 *)
(***************************************************************************)
Flat(i, slot) == 2 * i - 2 + slot

NamesIn(ps) ==
  /\ DOMAIN namesOf(ps) = 1..(2 * Len(ps))
  /\ \A i \in 1..Len(ps), slot \in {1, 2} :
       /\ Flat(i, slot) \in 1..(2 * Len(ps))
       /\ namesOf(ps)[Flat(i, slot)] = ps[i].players[slot].name
  /\ \A k \in 1..(2 * Len(ps)) : \E i \in 1..Len(ps), slot \in {1, 2} : k = Flat(i, slot)
  /\ \A i, j \in 1..Len(ps), m, n \in {1, 2} : Flat(i, m) = Flat(j, n) => i = j /\ m = n

LEMMA NamesInOrder ==
  ASSUME NEW ps, Len(ps) \in Nat
  PROVE  NamesIn(ps)
  <1>1. /\ DOMAIN namesOf(ps) = 1..(2 * Len(ps))
        /\ \A k \in 1..(2 * Len(ps)) :
             namesOf(ps)[k] = ps[(k + 1) \div 2].players[2 - (k % 2)].name
    BY DEF namesOf
  <1>2. \A i \in 1..Len(ps), slot \in {1, 2} :
          /\ Flat(i, slot) \in 1..(2 * Len(ps))
          /\ (Flat(i, slot) + 1) \div 2 = i /\ 2 - (Flat(i, slot) % 2) = slot
    BY DEF Flat
  <1>3. \A k \in 1..(2 * Len(ps)) :
          /\ (k + 1) \div 2 \in 1..Len(ps) /\ 2 - (k % 2) \in {1, 2}
          /\ k = Flat((k + 1) \div 2, 2 - (k % 2))
    BY DEF Flat
  <1>4. \A i, j \in 1..Len(ps), m, n \in {1, 2} : Flat(i, m) = Flat(j, n) => i = j /\ m = n
    BY DEF Flat
  <1>5. \A i \in 1..Len(ps), slot \in {1, 2} : namesOf(ps)[Flat(i, slot)] = ps[i].players[slot].name
    BY <1>1, <1>2
  <1> QED BY <1>1, <1>2, <1>3, <1>4, <1>5 DEF NamesIn

OneOfAName(players) == \A p, q \in players : p.key = q.key => p = q

LEMMA Unambiguous ==
  ASSUME NEW players, IsFiniteSet(players)
  PROVE  ambiguous(players) = {} <=> OneOfAName(players)
  <1> DEFINE same(k) == {x \in players : x.key = k}
  <1>1. \A k : IsFiniteSet(same(k)) /\ Cardinality(same(k)) \in Nat
    <2> SUFFICES ASSUME NEW k PROVE IsFiniteSet(same(k)) /\ Cardinality(same(k)) \in Nat
      OBVIOUS
    <2>1. same(k) \in SUBSET players
      OBVIOUS
    <2> QED BY <2>1, FS_Subset, FS_CardinalityType
  <1>2. ambiguous(players) = {k \in Keys(players) : Cardinality(same(k)) > 1}
    BY DEF ambiguous
  <1>3. ASSUME OneOfAName(players), NEW k \in Keys(players)
        PROVE  ~(Cardinality(same(k)) > 1)
    <2>1. PICK x \in players : x.key = k
      BY DEF Keys
    <2>2. same(k) = {x}
      BY <1>3, <2>1 DEF OneOfAName
    <2>3. Cardinality(same(k)) = 1
      BY <2>2, FS_Singleton
    <2> QED BY <2>3
  <1>4. ASSUME NEW p \in players, NEW q \in players, p.key = q.key, p # q
        PROVE  p.key \in Keys(players) /\ Cardinality(same(p.key)) > 1
    <2>1. p.key \in Keys(players)
      BY DEF Keys
    <2>2. p \in same(p.key) /\ q \in same(p.key)
      BY <1>4
    <2> HIDE DEF same
    <2>3. Cardinality(same(p.key)) # 0
      BY <1>1, <2>2, FS_EmptySet
    <2>4. Cardinality(same(p.key)) # 1
      <3> SUFFICES ASSUME Cardinality(same(p.key)) = 1 PROVE FALSE
        OBVIOUS
      <3>1. PICK x : same(p.key) = {x}
        BY <1>1, FS_Singleton
      <3> QED BY <1>4, <2>2, <3>1
    <2> QED BY <1>1, <2>1, <2>3, <2>4
  <1> HIDE DEF same
  <1> QED BY <1>2, <1>3, <1>4 DEF OneOfAName

NamesKnown(ps, players) == \A k \in 1..(2 * Len(ps)) : MatchKey[namesOf(ps)[k]] \in Keys(players)

NamesApart(ps, players) ==
  \A j, k \in 1..(2 * Len(ps)) : IdFor(namesOf(ps)[j], players) = IdFor(namesOf(ps)[k], players) => j = k

LEMMA NameIssuesAre ==
  ASSUME NEW ps, Len(ps) \in Nat, NEW players
  PROVE  NameIssues(ps, players) = {} <=> NamesKnown(ps, players)
  <1>1. DOMAIN namesOf(ps) = 1..(2 * Len(ps))
    BY NamesInOrder DEF NamesIn
  <1>2. unresolved(ps, players) = {} <=> NamesKnown(ps, players)
    BY <1>1 DEF unresolved, NamesKnown
  <1>3. NameIssues(ps, players) = {} <=> unresolved(ps, players) = {}
    BY DEF NameIssues
  <1> QED BY <1>2, <1>3

LEMMA AllResolved ==
  ASSUME NEW ps, Len(ps) \in Nat, NEW players, NamesKnown(ps, players)
  PROVE  /\ DOMAIN resolved(ps, players) = 1..(2 * Len(ps))
         /\ \A k \in 1..(2 * Len(ps)) :
              resolved(ps, players)[k] = IdFor(namesOf(ps)[k], players)
  <1> DEFINE all == 1..(2 * Len(ps))
             places == DOMAIN namesOf(ps) \ unresolved(ps, players)
             found == pick(namesOf(ps), places)
  <1>1. places = all
    BY NamesInOrder DEF NamesIn, unresolved, NamesKnown
  <1>2. Cardinality(all) = 2 * Len(ps) /\ \A n \in all : nth(all, n) = n
    BY AllInTurn
  <1>3. DOMAIN found = all /\ \A n \in all : found[n] = namesOf(ps)[n]
    <2> HIDE DEF places
    <2> QED BY <1>1, <1>2 DEF pick
  <1> HIDE DEF places
  <1>4. resolved(ps, players) = [i \in DOMAIN found |-> IdFor(found[i], players)]
    BY DEF resolved, places
  <1> HIDE DEF found
  <1> QED BY <1>3, <1>4

LEMMA DuplicateIssuesAre ==
  ASSUME NEW ps, Len(ps) \in Nat, NEW players, NamesKnown(ps, players)
  PROVE  DuplicateIssues(ps, players) = {} <=> NamesApart(ps, players)
  <1> DEFINE ids == resolved(ps, players)
             again == {j \in DOMAIN ids : \E k \in 1..(j - 1) : ids[k] = ids[j]}
  <1>1. DOMAIN ids = 1..(2 * Len(ps))
        /\ \A k \in 1..(2 * Len(ps)) : ids[k] = IdFor(namesOf(ps)[k], players)
    BY AllResolved
  <1>2. DuplicateIssues(ps, players) = {At("DUPLICATE_PLAYER", i) : i \in again}
    BY DEF DuplicateIssues
  <1> HIDE DEF ids
  <1>3. again = {} <=> NamesApart(ps, players)
    <2>1. ASSUME NamesApart(ps, players), NEW j \in DOMAIN ids, NEW k \in 1..(j - 1), ids[k] = ids[j]
          PROVE  FALSE
      <3>1. k \in 1..(2 * Len(ps)) /\ k # j
        BY <1>1
      <3> QED BY <1>1, <2>1, <3>1 DEF NamesApart
    <2>2. ASSUME again = {}, NEW j \in 1..(2 * Len(ps)), NEW k \in 1..(2 * Len(ps)),
                 IdFor(namesOf(ps)[j], players) = IdFor(namesOf(ps)[k], players), j # k
          PROVE  FALSE
      <3>1. ids[j] = ids[k]
        BY <1>1, <2>2
      <3>2. j < k \/ k < j
        BY <2>2
      <3>3. (j < k => j \in 1..(k - 1)) /\ (k < j => k \in 1..(j - 1))
        OBVIOUS
      <3> QED BY <1>1, <2>2, <3>1, <3>2, <3>3
    <2> QED BY <2>1, <2>2 DEF NamesApart
  <1> HIDE DEF again
  <1> QED BY <1>2, <1>3

-------------------------------------------------------------------------------
(***************************************************************************)
(* What is wrong with a paste, and the code that says it.                  *)
(***************************************************************************)
PointsRight(ps) ==
  \A i \in DOMAIN ps : ps[i].totalPoints = ps[i].players[1].points + ps[i].players[2].points

SizesRight(ps) ==
  \A g \in DOMAIN grouped(ps) : Len(grouped(ps)[g].members) \in MIN_GROUP_SIZE..MAX_GROUP_SIZE

\* Whether some issue is of a rule.
Reports(found, rule) == \E x \in found : x.rule = rule

LEMMA IssuesAre ==
  ASSUME NEW ps, NEW s, NEW t, NEW players
  PROVE  /\ \A x \in issues(ps, s, players) :
              \E k \in 1..5 : x.rule = ByActionability[k]
         /\ Reports(issues(ps, s, players), "UNRESOLVED_PLAYERS") <=> NameIssues(ps, players) # {}
         /\ Reports(issues(ps, s, players), "DUPLICATE_PLAYER") <=> DuplicateIssues(ps, players) # {}
         /\ Reports(issues(ps, s, players), "POINTS_MISMATCH") <=> ~PointsRight(ps)
         /\ Reports(issues(ps, s, players), "START_NOT_IN_FUTURE") <=> s = "past"
         /\ Reports(issues(ps, s, players), "INVALID_GROUP_SIZE") <=> ~SizesRight(ps)
  <1>1. /\ \A x \in NameIssues(ps, players) : x.rule = "UNRESOLVED_PLAYERS"
        /\ \A x \in DuplicateIssues(ps, players) : x.rule = "DUPLICATE_PLAYER"
        /\ \A x \in PointsIssues(ps) : x.rule = "POINTS_MISMATCH"
        /\ \A x \in StartIssues(s) : x.rule = "START_NOT_IN_FUTURE"
        /\ \A x \in SizeIssues(ps) : x.rule = "INVALID_GROUP_SIZE"
    BY DEF NameIssues, DuplicateIssues, PointsIssues, StartIssues, SizeIssues, At, Issue
  <1>2. PointsIssues(ps) # {} <=> ~PointsRight(ps)
    BY DEF PointsIssues, PointsRight
  <1>3. StartIssues(s) # {} <=> s = "past"
    BY DEF StartIssues
  <1>4. SizeIssues(ps) # {} <=> ~SizesRight(ps)
    BY DEF SizeIssues, SizesRight
  <1>5. \A x : x \in issues(ps, s, players) <=>
          \/ x \in StartIssues(s) \/ x \in PointsIssues(ps) \/ x \in NameIssues(ps, players)
          \/ x \in DuplicateIssues(ps, players) \/ x \in SizeIssues(ps)
    BY DEF issues
  <1>6. \A x \in issues(ps, s, players) : \E k \in 1..5 : x.rule = ByActionability[k]
    BY <1>1, <1>5 DEF ByActionability
  <1> QED BY <1>1, <1>2, <1>3, <1>4, <1>5, <1>6 DEF Reports

\* The code is of the first rule, by actionability, that some issue is of.
LEMMA DominantIs ==
  ASSUME NEW found, found # {}, \A x \in found : \E k \in 1..5 : x.rule = ByActionability[k]
  PROVE  \E n \in 1..5 : /\ dominantCode(found) = ByActionability[n]
                         /\ Reports(found, ByActionability[n])
                         /\ \A m \in 1..(n - 1) : ~Reports(found, ByActionability[m])
  <1> DEFINE K == {k \in 1..5 : Reports(found, ByActionability[k])}
             Least(k) == /\ \E x \in found : x.rule = ByActionability[k]
                         /\ \A m \in 1..(k - 1) : \A x \in found : x.rule # ByActionability[m]
  <1>0. DOMAIN ByActionability = 1..5
    BY DEF ByActionability
  <1>1. K # {}
    BY DEF Reports
  <1>2. PICK k \in K : \A j \in K : k <= j
    <2>1. \A j \in K : j \in 1..5
      OBVIOUS
    <2> HIDE DEF K
    <2> QED BY <1>1, <2>1
  <1>3. k \in 1..5 /\ Least(k)
    BY <1>2 DEF Reports
  <1>4. PICK n \in 1..5 : n = (CHOOSE j \in DOMAIN ByActionability : Least(j)) /\ Least(n)
    <2> HIDE DEF Least
    <2> QED BY <1>0, <1>3
  <1>5. dominantCode(found) = ByActionability[n]
    BY <1>4 DEF dominantCode
  <1> QED BY <1>4, <1>5 DEF Reports

\* The code of a derivation: the first of these that is so.
CodeOf(ps, s, t, players) ==
  IF Malformed(ps, s, t) THEN "MALFORMED_PAYLOAD"
  ELSE IF ambiguous(players) # {} THEN "DUPLICATE_MATCH_KEY"
  ELSE IF ~NamesKnown(ps, players) THEN "UNRESOLVED_PLAYERS"
  ELSE IF ~NamesApart(ps, players) THEN "DUPLICATE_PLAYER"
  ELSE IF ~PointsRight(ps) THEN "POINTS_MISMATCH"
  ELSE IF s = "past" THEN "START_NOT_IN_FUTURE"
  ELSE IF ~SizesRight(ps) THEN "INVALID_GROUP_SIZE"
  ELSE "OK"

LEMMA CodeIs ==
  ASSUME NEW ps, Len(ps) \in Nat, NEW s, NEW t, NEW players
  PROVE  /\ deriveLineup(ps, s, t, players).code = CodeOf(ps, s, t, players)
         /\ deriveLineup(ps, s, t, players).groups =
              IF CodeOf(ps, s, t, players) = "OK" THEN groupsOf(ps, players) ELSE <<>>
  <1> DEFINE found == issues(ps, s, players)
  <1>1. /\ Reports(found, "UNRESOLVED_PLAYERS") <=> ~NamesKnown(ps, players)
        /\ NamesKnown(ps, players) =>
             (Reports(found, "DUPLICATE_PLAYER") <=> ~NamesApart(ps, players))
        /\ Reports(found, "POINTS_MISMATCH") <=> ~PointsRight(ps)
        /\ Reports(found, "START_NOT_IN_FUTURE") <=> s = "past"
        /\ Reports(found, "INVALID_GROUP_SIZE") <=> ~SizesRight(ps)
    BY IssuesAre, NameIssuesAre, DuplicateIssuesAre
  <1>2. found # {} => \E n \in 1..5 : /\ dominantCode(found) = ByActionability[n]
                                      /\ Reports(found, ByActionability[n])
                                      /\ \A m \in 1..(n - 1) : ~Reports(found, ByActionability[m])
    BY IssuesAre, DominantIs
  <1>3. found = {} <=> \A k \in 1..5 : ~Reports(found, ByActionability[k])
    BY IssuesAre DEF Reports
  <1>4. /\ deriveLineup(ps, s, t, players).code =
             IF Malformed(ps, s, t) THEN "MALFORMED_PAYLOAD"
             ELSE IF ambiguous(players) # {} THEN "DUPLICATE_MATCH_KEY"
             ELSE IF found # {} THEN dominantCode(found) ELSE "OK"
        /\ deriveLineup(ps, s, t, players).groups =
             IF Malformed(ps, s, t) \/ ambiguous(players) # {} \/ found # {} THEN <<>>
             ELSE groupsOf(ps, players)
    BY DEF deriveLineup
  <1> HIDE DEF found
  <1> DEFINE R(k) == Reports(found, ByActionability[k])
  <1>5. /\ R(1) <=> ~NamesKnown(ps, players)
        /\ NamesKnown(ps, players) => (R(2) <=> ~NamesApart(ps, players))
        /\ R(3) <=> ~PointsRight(ps)
        /\ R(4) <=> s = "past"
        /\ R(5) <=> ~SizesRight(ps)
    BY <1>1 DEF ByActionability
  <1>6. found = {} => ~R(1) /\ ~R(2) /\ ~R(3) /\ ~R(4) /\ ~R(5)
    BY <1>3
  <1>7. ASSUME found # {}
        PROVE  \/ R(1) /\ dominantCode(found) = "UNRESOLVED_PLAYERS"
               \/ ~R(1) /\ R(2) /\ dominantCode(found) = "DUPLICATE_PLAYER"
               \/ ~R(1) /\ ~R(2) /\ R(3) /\ dominantCode(found) = "POINTS_MISMATCH"
               \/ ~R(1) /\ ~R(2) /\ ~R(3) /\ R(4) /\ dominantCode(found) = "START_NOT_IN_FUTURE"
               \/ /\ ~R(1) /\ ~R(2) /\ ~R(3) /\ ~R(4) /\ R(5)
                  /\ dominantCode(found) = "INVALID_GROUP_SIZE"
    <2>1. PICK n \in 1..5 : /\ dominantCode(found) = ByActionability[n] /\ R(n)
                            /\ \A m \in 1..(n - 1) : ~R(m)
      BY <1>2, <1>7
    <2> HIDE DEF R
    <2>2. n = 1 \/ n = 2 \/ n = 3 \/ n = 4 \/ n = 5
      BY <2>1
    <2> QED BY <2>1, <2>2 DEF ByActionability
  <1> HIDE DEF R
  <1>8. found # {} => /\ dominantCode(found) # "OK"
                      /\ \/ Malformed(ps, s, t) \/ ambiguous(players) # {}
                         \/ CodeOf(ps, s, t, players) = dominantCode(found)
    BY <1>5, <1>7 DEF CodeOf
  <1>9. found = {} => \/ Malformed(ps, s, t) \/ ambiguous(players) # {}
                      \/ CodeOf(ps, s, t, players) = "OK"
    BY <1>5, <1>6 DEF CodeOf
  <1>10. /\ Malformed(ps, s, t) => CodeOf(ps, s, t, players) = "MALFORMED_PAYLOAD"
         /\ ~Malformed(ps, s, t) /\ ambiguous(players) # {} =>
              CodeOf(ps, s, t, players) = "DUPLICATE_MATCH_KEY"
    BY DEF CodeOf
  <1> QED BY <1>4, <1>8, <1>9, <1>10

-------------------------------------------------------------------------------
(***************************************************************************)
(* The groups: a place for every pair.                                     *)
(***************************************************************************)
LEMMA Times ==
  ASSUME NEW a \in Int, NEW b \in Int, NEW size \in Nat, a < b
  PROVE  a * size + size <= b * size
  <1>1. PICK d \in Nat : b = a + 1 + d
    <2>1. b - a - 1 \in Nat /\ b = a + 1 + (b - a - 1)
      OBVIOUS
    <2> QED BY <2>1
  <1>2. b * size = a * size + size + d * size
    BY <1>1
  <1>3. d * size \in Nat /\ a * size \in Int
    OBVIOUS
  <1> QED BY <1>2, <1>3

\* How many chunks there are, and how long they are.
Chunked(total, size, k) ==
  /\ k \in Nat \ {0} /\ (k - 1) * size < total /\ total <= k * size
  /\ \A n \in 1..k : (n - 1) * size \in Nat /\ (n - 1) * size < total /\ n * size = (n - 1) * size + size
  /\ \A n \in 1..(k - 1) : n * size < total
  /\ total % size = IF total = k * size THEN 0 ELSE total - (k - 1) * size

LEMMA ChunksCounted ==
  ASSUME NEW total \in Nat \ {0}, NEW size \in Nat \ {0}
  PROVE  Chunked(total, size, (total + size - 1) \div size)
  <1> DEFINE k == (total + size - 1) \div size
             r == (total + size - 1) % size
  <1>1. k \in Int /\ r \in 0..(size - 1) /\ total + size - 1 = size * k + r
    OBVIOUS
  <1> HIDE DEF k, r
  <1>2. size * k = k * size /\ k * size \in Int /\ k * size = (k - 1) * size + size
    BY <1>1
  <1>3. (k - 1) * size < total /\ total <= k * size
    BY <1>1, <1>2
  <1>4. k > 0
    <2> SUFFICES ASSUME k <= 0 PROVE FALSE
      BY <1>1
    <2>1. k * size <= 0
      <3>1. k = 0 \/ k < 0
        BY <1>1
      <3>2. k < 0 => k * size + size <= 0 * size
        BY <1>1, Times
      <3> QED BY <1>2, <3>1, <3>2
    <2> QED BY <1>2, <1>3, <2>1
  <1>5. ASSUME NEW n \in 1..k
        PROVE  /\ (n - 1) * size \in Nat /\ (n - 1) * size < total
               /\ n * size = (n - 1) * size + size
    <2>1. n * size = (n - 1) * size + size /\ (n - 1) * size \in Nat
      OBVIOUS
    <2>2. n = k \/ (n - 1) * size + size <= (k - 1) * size
      <3>1. n = k \/ n - 1 < k - 1
        BY <1>1
      <3>2. n - 1 \in Int /\ k - 1 \in Int
        BY <1>1
      <3> QED BY <3>1, <3>2, Times
    <2>3. PICK a \in Nat : a = (n - 1) * size
      BY <2>1
    <2>4. PICK b \in Int : b = (k - 1) * size
      BY <1>1
    <2>5. n = k => a = b
      BY <2>3, <2>4
    <2>6. a < total
      BY <1>3, <2>2, <2>3, <2>4, <2>5
    <2> QED BY <2>1, <2>3, <2>6
  <1>6. ASSUME NEW n \in 1..(k - 1)
        PROVE  n * size < total
    <2>1. n + 1 \in 1..k /\ (n + 1) - 1 = n
      BY <1>1
    <2> QED BY <1>5, <2>1
  <1>7. total % size = IF total = k * size THEN 0 ELSE total - (k - 1) * size
    <2> DEFINE q == total \div size
               s == total % size
    <2>1. q \in Int /\ s \in 0..(size - 1) /\ total = size * q + s
      OBVIOUS
    <2> HIDE DEF q, s
    <2>2. size * q = q * size /\ q * size \in Int
      BY <2>1
    <2>3. q < k => q * size + size <= k * size
      BY <1>1, <2>1, Times
    <2>4. q > k => k * size + size <= q * size
      BY <1>1, <2>1, Times
    <2>5. q < k - 1 => q * size + size <= (k - 1) * size
      <3>1. k - 1 \in Int
        BY <1>1
      <3> QED BY <2>1, <3>1, Times
    <2>6. q = k \/ q = k - 1
      BY <1>1, <1>2, <1>3, <2>1, <2>2, <2>4, <2>5
    <2>7. CASE q = k
      BY <1>2, <1>3, <2>1, <2>2, <2>7 DEF s
    <2>8. CASE q = k - 1
      BY <1>2, <1>3, <2>1, <2>2, <2>8 DEF s
    <2> QED BY <2>6, <2>7, <2>8
  <1> QED BY <1>1, <1>3, <1>4, <1>5, <1>6, <1>7 DEF Chunked, k

\* The place in the order of strength of a member of a group.
LabelAt(ps, n) == ps[byStrength(ps)[n]].group

Heads(ps) == {n \in 1..Len(ps) : \A m \in 1..(n - 1) : LabelAt(ps, m) # LabelAt(ps, n)}

PlacesOf(ps, l) == {n \in 1..Len(ps) : LabelAt(ps, n) = l}

HeadLabel(ps, g) == LabelAt(ps, nth(Heads(ps), g))

Place(ps, g, m) ==
  IF labelled(ps) = DOMAIN ps THEN nth(PlacesOf(ps, HeadLabel(ps, g)), m)
  ELSE (g - 1) * MAX_GROUP_SIZE + m

Members(ps, g) == grouped(ps)[g].members

\* Every place is that of one member of one group; within a group they are in order, and
\* the first of a group is before all of the next.
Filled(ps) ==
  /\ \E k \in Nat : DOMAIN grouped(ps) = 1..k
  /\ \A g \in DOMAIN grouped(ps) :
       /\ Len(Members(ps, g)) \in Nat \ {0} /\ DOMAIN Members(ps, g) = 1..Len(Members(ps, g))
       /\ \A m \in DOMAIN Members(ps, g) :
            Place(ps, g, m) \in 1..Len(ps) /\ Members(ps, g)[m] = byStrength(ps)[Place(ps, g, m)]
       /\ \A m, n \in DOMAIN Members(ps, g) : m < n => Place(ps, g, m) < Place(ps, g, n)
  /\ \A p \in 1..Len(ps) : \E g \in DOMAIN grouped(ps) : \E m \in DOMAIN Members(ps, g) :
       Place(ps, g, m) = p
  /\ \A g, h \in DOMAIN grouped(ps) : g < h =>
       \A m \in DOMAIN Members(ps, g), n \in DOMAIN Members(ps, h) :
         /\ Place(ps, g, m) # Place(ps, h, n)
         /\ labelled(ps) # DOMAIN ps \/ m = 1 => Place(ps, g, m) < Place(ps, h, n)

LEMMA ChunkIs ==
  ASSUME NEW items \in Seq(Nat), NEW size \in Nat \ {0}, Len(items) > 0,
         NEW g \in 1..((Len(items) + size - 1) \div size)
  PROVE  LET c    == chunk(items, size)[g]
             from == (g - 1) * size
         IN  /\ Len(c) \in 1..size /\ DOMAIN c = 1..Len(c)
             /\ Len(c) = IF g * size < Len(items) THEN size ELSE Len(items) - from
             /\ \A m \in 1..Len(c) : from + m \in 1..Len(items) /\ c[m] = items[from + m]
  <1> DEFINE total == Len(items)
             k     == (total + size - 1) \div size
             from  == (g - 1) * size
             to    == IF g * size < total THEN g * size ELSE total
             c     == chunk(items, size)[g]
  <1>1. Chunked(total, size, k)
    BY ChunksCounted
  <1>2. c = SubSeq(items, from + 1, to)
    BY DEF chunk
  <1>3. from \in Nat /\ from < total /\ g * size = from + size /\ total \in Nat
    BY <1>1 DEF Chunked
  <1>4. to \in Nat /\ to > from /\ to <= total /\ to - from \in 1..size
        /\ to - from = IF g * size < total THEN size ELSE total - from
    <2> HIDE DEF from, total
    <2> QED BY <1>3
  <1> HIDE DEF to, from, c, total
  <1>5. Len(c) = to - from /\ DOMAIN c = 1..(to - from)
        /\ \A m \in 1..(to - from) : c[m] = items[from + m]
    <2>1. /\ Len(c) = IF from + 1 <= to THEN to - (from + 1) + 1 ELSE 0
          /\ DOMAIN c = 1..Len(c) /\ \A m \in 1..Len(c) : c[m] = items[from + 1 + m - 1]
      BY <1>2, <1>3, <1>4 DEF total
    <2> QED BY <1>3, <1>4, <2>1
  <1>6. \A m \in 1..(to - from) : from + m \in 1..total
    BY <1>3, <1>4
  <1>7. /\ Len(c) \in 1..size /\ DOMAIN c = 1..Len(c)
        /\ Len(c) = IF g * size < total THEN size ELSE total - from
        /\ \A m \in 1..Len(c) : from + m \in 1..total /\ c[m] = items[from + m]
    BY <1>4, <1>5, <1>6
  <1> QED BY <1>7 DEF c, from, total

\* What Chunked and ChunkIs say of the groups of a paste that names none.
LEMMA ByChunks ==
  ASSUME NEW ps, IsPaste(ps), labelled(ps) # DOMAIN ps
  PROVE  \E k \in Nat :
           /\ k = (Len(ps) + MAX_GROUP_SIZE - 1) \div MAX_GROUP_SIZE
           /\ Chunked(Len(ps), MAX_GROUP_SIZE, k) /\ DOMAIN grouped(ps) = 1..k
           /\ \A g \in 1..k :
                /\ grouped(ps)[g].label = g /\ DOMAIN Members(ps, g) = 1..Len(Members(ps, g))
                /\ Len(Members(ps, g)) \in 1..MAX_GROUP_SIZE
                /\ Len(Members(ps, g)) = IF g * MAX_GROUP_SIZE < Len(ps) THEN MAX_GROUP_SIZE
                                         ELSE Len(ps) - (g - 1) * MAX_GROUP_SIZE
                /\ \A m \in 1..Len(Members(ps, g)) :
                     /\ Place(ps, g, m) = (g - 1) * MAX_GROUP_SIZE + m
                     /\ Place(ps, g, m) \in 1..Len(ps)
                     /\ Members(ps, g)[m] = byStrength(ps)[Place(ps, g, m)]
  <1> DEFINE order == byStrength(ps)
             k == (Len(ps) + MAX_GROUP_SIZE - 1) \div MAX_GROUP_SIZE
  <1>1. Strong(ps)
    BY StrengthOrder
  <1>2. Len(ps) \in Nat \ {0}
    BY <1>1 DEF Strong, labelled
  <1>3. order \in Seq(Nat) /\ Len(order) = Len(ps)
    <2>1. order = [n \in 1..Len(ps) |-> order[n]]
      BY <1>1 DEF byStrength, Strong
    <2>2. \A n \in 1..Len(ps) : order[n] \in Nat
      <3>1. \A n \in 1..Len(ps) : order[n] \in 1..Len(ps)
        BY <1>1 DEF Strong
      <3> HIDE DEF order
      <3> QED BY <1>2, <3>1
    <2> HIDE DEF order
    <2> QED BY <1>2, <2>1, <2>2
  <1>4. MAX_GROUP_SIZE \in Nat \ {0}
    BY LineupConstants
  <1>5. Chunked(Len(ps), MAX_GROUP_SIZE, k)
    BY <1>2, <1>4, ChunksCounted
  <1>6. k \in Nat
    BY <1>5 DEF Chunked
  <1>7. DOMAIN grouped(ps) = 1..k
        /\ \A g \in 1..k : grouped(ps)[g] = [label |-> g, members |-> chunk(order, MAX_GROUP_SIZE)[g]]
    <2>1. DOMAIN chunk(order, MAX_GROUP_SIZE) = 1..k
      BY <1>3 DEF chunk
    <2> HIDE DEF k
    <2> QED BY <2>1 DEF grouped
  <1>8. ASSUME NEW g \in 1..k
        PROVE  LET c == chunk(order, MAX_GROUP_SIZE)[g]
                   from == (g - 1) * MAX_GROUP_SIZE
               IN  /\ Len(c) \in 1..MAX_GROUP_SIZE /\ DOMAIN c = 1..Len(c)
                   /\ Len(c) = IF g * MAX_GROUP_SIZE < Len(ps) THEN MAX_GROUP_SIZE ELSE Len(ps) - from
                   /\ \A m \in 1..Len(c) : from + m \in 1..Len(ps) /\ c[m] = order[from + m]
    <2> HIDE DEF order
    <2>1. g \in 1..((Len(order) + MAX_GROUP_SIZE - 1) \div MAX_GROUP_SIZE) /\ Len(order) > 0
      BY <1>2, <1>3, <1>8
    <2>2. LET c    == chunk(order, MAX_GROUP_SIZE)[g]
              from == (g - 1) * MAX_GROUP_SIZE
          IN  /\ Len(c) \in 1..MAX_GROUP_SIZE /\ DOMAIN c = 1..Len(c)
              /\ Len(c) = IF g * MAX_GROUP_SIZE < Len(order) THEN MAX_GROUP_SIZE ELSE Len(order) - from
              /\ \A m \in 1..Len(c) : from + m \in 1..Len(order) /\ c[m] = order[from + m]
      BY <1>3, <1>4, <2>1, ChunkIs
    <2> QED BY <1>3, <2>2
  <1> HIDE DEF k
  <1>9. \A g, m : Place(ps, g, m) = (g - 1) * MAX_GROUP_SIZE + m
    BY DEF Place
  <1>10. ASSUME NEW g \in 1..k
         PROVE  grouped(ps)[g].label = g /\ Members(ps, g) = chunk(order, MAX_GROUP_SIZE)[g]
    BY <1>7 DEF Members
  <1> HIDE DEF order
  <1>11. ASSUME NEW g \in 1..k
         PROVE  /\ DOMAIN Members(ps, g) = 1..Len(Members(ps, g))
                /\ Len(Members(ps, g)) \in 1..MAX_GROUP_SIZE
                /\ Len(Members(ps, g)) = IF g * MAX_GROUP_SIZE < Len(ps) THEN MAX_GROUP_SIZE
                                         ELSE Len(ps) - (g - 1) * MAX_GROUP_SIZE
                /\ \A m \in 1..Len(Members(ps, g)) :
                     /\ (g - 1) * MAX_GROUP_SIZE + m \in 1..Len(ps)
                     /\ Members(ps, g)[m] = order[(g - 1) * MAX_GROUP_SIZE + m]
    BY <1>8, <1>10
  <1>12. ASSUME NEW g \in 1..k, NEW m \in 1..Len(Members(ps, g))
         PROVE  /\ Place(ps, g, m) \in 1..Len(ps)
                /\ Members(ps, g)[m] = byStrength(ps)[Place(ps, g, m)]
    BY <1>9, <1>11 DEF order
  <1> WITNESS k \in Nat
  <1> QED BY <1>5, <1>7, <1>9, <1>10, <1>11, <1>12 DEF k

LEMMA FilledByChunks ==
  ASSUME NEW ps, IsPaste(ps), labelled(ps) # DOMAIN ps
  PROVE  Filled(ps)
  <1> DEFINE size == MAX_GROUP_SIZE
             total == Len(ps)
             len(g) == Len(Members(ps, g))
  <1>0. size \in Nat \ {0} /\ total \in Nat
    BY LineupConstants DEF IsPaste
  <1>1. PICK k \in Nat :
           /\ Chunked(total, size, k) /\ DOMAIN grouped(ps) = 1..k
           /\ \A g \in 1..k :
                /\ grouped(ps)[g].label = g /\ DOMAIN Members(ps, g) = 1..len(g)
                /\ len(g) \in 1..size
                /\ len(g) = IF g * size < total THEN size ELSE total - (g - 1) * size
                /\ \A m \in 1..len(g) :
                     /\ Place(ps, g, m) = (g - 1) * size + m
                     /\ Place(ps, g, m) \in 1..total
                     /\ Members(ps, g)[m] = byStrength(ps)[Place(ps, g, m)]
    BY ByChunks
  <1> HIDE DEF size, total, len
  <1>2. \A g \in 1..k : len(g) \in Nat \ {0} /\ len(g) <= size /\ (g - 1) * size \in Nat
    <2>1. \A g \in 1..k : (g - 1) * size \in Nat
      BY <1>1 DEF Chunked
    <2>2. \A g \in 1..k : len(g) \in 1..size
      BY <1>1
    <2> QED BY <1>0, <2>1, <2>2
  <1>3. ASSUME NEW g \in 1..k, NEW m \in 1..len(g), NEW n \in 1..len(g), m < n
        PROVE  Place(ps, g, m) < Place(ps, g, n)
    <2>1. PICK from \in Nat : from = (g - 1) * size
      BY <1>2
    <2>2. Place(ps, g, m) = from + m /\ Place(ps, g, n) = from + n
      BY <1>1, <2>1
    <2> QED BY <1>2, <1>3, <2>2
  <1>4. ASSUME NEW p \in 1..total
        PROVE  \E g \in 1..k : \E m \in 1..len(g) : Place(ps, g, m) = p
    <2> DEFINE a == (p - 1) \div size
               b == (p - 1) % size
    <2>1. a \in Int /\ b \in 0..(size - 1) /\ p - 1 = size * a + b
      BY <1>0
    <2> HIDE DEF a, b
    <2>2. size * a = a * size
      BY <1>0, <2>1
    <2>3. PICK from \in Int : from = a * size /\ p - 1 = from + b
      BY <1>0, <2>1, <2>2
    <2>4. from > -size /\ from < total
      BY <1>0, <2>1, <2>3
    <2>5. a >= 0
      <3> SUFFICES ASSUME a < 0 PROVE FALSE
        BY <2>1
      <3>1. a * size + size <= 0 * size
        BY <1>0, <2>1, Times
      <3> QED BY <1>0, <2>3, <2>4, <3>1
    <2>6. a < k
      <3> SUFFICES ASSUME k <= a PROVE FALSE
        BY <2>1
      <3>1. PICK all \in Nat : all = k * size /\ total <= all
        BY <1>0, <1>1 DEF Chunked
      <3>2. k = a => all = from
        BY <2>3, <3>1
      <3>3. k < a => all + size <= from
        BY <1>0, <2>1, <2>3, <3>1, Times
      <3> QED BY <1>0, <2>1, <2>4, <3>1, <3>2, <3>3
    <2>7. PICK g \in 1..k : g = a + 1
      BY <2>1, <2>5, <2>6
    <2>8. g - 1 = a
      BY <2>1, <2>7
    <2>9. g * size = from + size
      BY <1>0, <1>1, <2>3, <2>8 DEF Chunked
    <2>10. len(g) = IF from + size < total THEN size ELSE total - from
      BY <1>1, <2>3, <2>8, <2>9
    <2>11. b + 1 \in 1..len(g)
      BY <1>0, <2>1, <2>3, <2>10
    <2>12. Place(ps, g, b + 1) = from + (b + 1)
      BY <1>1, <2>3, <2>8, <2>11
    <2>13. from + (b + 1) = p
      BY <1>0, <2>1, <2>3
    <2> QED BY <2>11, <2>12, <2>13
  <1>5. ASSUME NEW g \in 1..k, NEW h \in 1..k, g < h,
               NEW m \in 1..len(g), NEW n \in 1..len(h)
        PROVE  Place(ps, g, m) < Place(ps, h, n)
    <2>1. PICK from \in Nat : from = (g - 1) * size
      BY <1>2
    <2>2. PICK to \in Nat : to = (h - 1) * size
      BY <1>2
    <2>3. from + size <= to
      <3>1. g - 1 \in Int /\ h - 1 \in Int /\ g - 1 < h - 1
        BY <1>5
      <3> QED BY <1>0, <2>1, <2>2, <3>1, Times
    <2>4. Place(ps, g, m) = from + m /\ Place(ps, h, n) = to + n
      BY <1>1, <2>1, <2>2
    <2>5. m <= size /\ m \in Nat /\ n \in Nat \ {0}
      <3>1. len(g) \in Nat /\ len(g) <= size /\ len(h) \in Nat
        BY <1>2
      <3> QED BY <1>0, <3>1
    <2> QED BY <1>0, <2>3, <2>4, <2>5
  <1>6. ASSUME NEW g \in 1..k, NEW h \in 1..k, g < h,
               NEW m \in 1..len(g), NEW n \in 1..len(h)
        PROVE  Place(ps, g, m) # Place(ps, h, n)
    <2>1. Place(ps, g, m) \in 1..total
      BY <1>1, <1>6
    <2>2. Place(ps, h, n) \in 1..total
      BY <1>1, <1>6
    <2>3. Place(ps, g, m) < Place(ps, h, n)
      BY <1>5, <1>6
    <2> HIDE DEF total
    <2> QED BY <2>1, <2>2, <2>3
  <1>7. DOMAIN grouped(ps) = 1..k /\ \A g \in 1..k : DOMAIN Members(ps, g) = 1..len(g)
    BY <1>1
  <1>8. ASSUME NEW g \in 1..k, NEW m \in 1..len(g)
        PROVE  Place(ps, g, m) \in 1..total /\ Members(ps, g)[m] = byStrength(ps)[Place(ps, g, m)]
    BY <1>1
  <1>9. \A g \in DOMAIN grouped(ps) :
          /\ len(g) \in Nat \ {0} /\ DOMAIN Members(ps, g) = 1..len(g)
          /\ \A m \in DOMAIN Members(ps, g) :
               Place(ps, g, m) \in 1..total /\ Members(ps, g)[m] = byStrength(ps)[Place(ps, g, m)]
          /\ \A m, n \in DOMAIN Members(ps, g) : m < n => Place(ps, g, m) < Place(ps, g, n)
    BY <1>2, <1>3, <1>7, <1>8
  <1>10. \A p \in 1..total : \E g \in DOMAIN grouped(ps) : \E m \in DOMAIN Members(ps, g) :
           Place(ps, g, m) = p
    BY <1>4, <1>7
  <1>11. \A g, h \in DOMAIN grouped(ps) : g < h =>
           \A m \in DOMAIN Members(ps, g), n \in DOMAIN Members(ps, h) :
             Place(ps, g, m) # Place(ps, h, n) /\ Place(ps, g, m) < Place(ps, h, n)
    BY <1>5, <1>6, <1>7
  <1> QED BY <1>7, <1>9, <1>10, <1>11 DEF Filled, len, total

LEMMA ByLabels ==
  ASSUME NEW ps, IsPaste(ps), labelled(ps) = DOMAIN ps
  PROVE  /\ InTurn(Heads(ps)) /\ \A l : InTurn(PlacesOf(ps, l))
         /\ DOMAIN grouped(ps) = 1..Cardinality(Heads(ps))
         /\ \A g \in 1..Cardinality(Heads(ps)) :
              LET places == PlacesOf(ps, HeadLabel(ps, g)) IN
              /\ grouped(ps)[g].label = HeadLabel(ps, g)
              /\ DOMAIN Members(ps, g) = 1..Cardinality(places)
              /\ Len(Members(ps, g)) = Cardinality(places)
              /\ \A m \in 1..Cardinality(places) :
                   Place(ps, g, m) = nth(places, m)
                   /\ Members(ps, g)[m] = byStrength(ps)[nth(places, m)]
  <1> DEFINE order == byStrength(ps)
             labels == [n \in DOMAIN order |-> ps[order[n]].group]
             heads == {n \in DOMAIN order : \A m \in 1..(n - 1) : labels[m] # labels[n]}
             first == pick(labels, heads)
             at(l) == {n \in DOMAIN order : labels[n] = l}
  <1>1. Len(ps) \in Nat /\ DOMAIN order = 1..Len(ps)
    BY StrengthOrder DEF Strong
  <1>2. \A n \in 1..Len(ps) : labels[n] = LabelAt(ps, n)
    BY <1>1 DEF LabelAt
  <1>3. grouped(ps) = [g \in DOMAIN first |->
                        [label |-> first[g], members |-> pick(order, at(first[g]))]]
    BY DEF grouped, groupByExplicitLabel
  <1> HIDE DEF order, labels
  <1>4. \A l : at(l) = PlacesOf(ps, l)
    BY <1>1, <1>2 DEF PlacesOf
  <1>5. heads = Heads(ps)
    <2>1. \A n \in 1..Len(ps) : \A m \in 1..(n - 1) : m \in 1..Len(ps)
      BY <1>1
    <2>2. \A n \in 1..Len(ps) : (\A m \in 1..(n - 1) : labels[m] # labels[n])
                                <=> (\A m \in 1..(n - 1) : LabelAt(ps, m) # LabelAt(ps, n))
      BY <1>2, <2>1
    <2> QED BY <1>1, <2>2 DEF Heads
  <1>6. InTurn(Heads(ps)) /\ \A l : InTurn(PlacesOf(ps, l))
    <2>1. IsFiniteSet(1..Len(ps)) /\ 1..Len(ps) \subseteq Nat
      BY <1>1, FirstNumbers
    <2>2. Heads(ps) \subseteq 1..Len(ps) /\ \A l : PlacesOf(ps, l) \subseteq 1..Len(ps)
      BY DEF Heads, PlacesOf
    <2>3. IsFiniteSet(Heads(ps)) /\ \A l : IsFiniteSet(PlacesOf(ps, l))
      <3>1. \A T \in SUBSET (1..Len(ps)) : IsFiniteSet(T)
        BY <2>1, FS_Subset
      <3> QED BY <2>2, <3>1
    <2> QED BY <2>1, <2>2, <2>3, PlacesInTurn
  <1> HIDE DEF heads, at
  <1>7. DOMAIN first = 1..Cardinality(Heads(ps))
        /\ \A g \in 1..Cardinality(Heads(ps)) : first[g] = HeadLabel(ps, g)
    <2>1. first = [n \in 1..Cardinality(Heads(ps)) |-> labels[nth(Heads(ps), n)]]
      BY <1>5 DEF pick
    <2>2. \A g \in 1..Cardinality(Heads(ps)) : nth(Heads(ps), g) \in 1..Len(ps)
      BY <1>6 DEF InTurn, Heads
    <2> HIDE DEF first
    <2> QED BY <1>2, <2>1, <2>2 DEF HeadLabel
  <1> HIDE DEF first
  <1>8. ASSUME NEW g \in 1..Cardinality(Heads(ps))
        PROVE  LET places == PlacesOf(ps, HeadLabel(ps, g)) IN
               /\ grouped(ps)[g].label = HeadLabel(ps, g)
               /\ DOMAIN Members(ps, g) = 1..Cardinality(places)
               /\ Len(Members(ps, g)) = Cardinality(places)
               /\ \A m \in 1..Cardinality(places) :
                    Place(ps, g, m) = nth(places, m) /\ Members(ps, g)[m] = order[nth(places, m)]
    <2> DEFINE places == PlacesOf(ps, HeadLabel(ps, g))
    <2>1. grouped(ps)[g] = [label |-> HeadLabel(ps, g), members |-> pick(order, places)]
      BY <1>3, <1>4, <1>7
    <2>2. Cardinality(places) \in Nat
      BY <1>6 DEF InTurn
    <2>3. \A m : Place(ps, g, m) = nth(places, m)
      BY DEF Place
    <2> HIDE DEF places
    <2>4. Members(ps, g) = [n \in 1..Cardinality(places) |-> order[nth(places, n)]]
      BY <2>1 DEF Members, pick
    <2>5. Len(Members(ps, g)) = Cardinality(places)
      BY <2>2, <2>4
    <2>6. /\ grouped(ps)[g].label = HeadLabel(ps, g)
          /\ DOMAIN Members(ps, g) = 1..Cardinality(places)
      BY <2>1, <2>4
    <2>7. \A m \in 1..Cardinality(places) : Members(ps, g)[m] = order[nth(places, m)]
      BY <2>4
    <2> QED BY <2>3, <2>5, <2>6, <2>7 DEF places
  <1> QED BY <1>3, <1>6, <1>7, <1>8 DEF order

LEMMA FilledByLabels ==
  ASSUME NEW ps, IsPaste(ps), labelled(ps) = DOMAIN ps
  PROVE  Filled(ps)
  <1> DEFINE heads == Heads(ps)
             at(g) == PlacesOf(ps, HeadLabel(ps, g))
             G == DOMAIN grouped(ps)
  <1>1. /\ InTurn(heads) /\ \A g : InTurn(at(g)) /\ G = 1..Cardinality(heads)
        /\ \A g \in G :
             /\ DOMAIN Members(ps, g) = 1..Cardinality(at(g))
             /\ Len(Members(ps, g)) = Cardinality(at(g))
             /\ \A m \in 1..Cardinality(at(g)) :
                  Place(ps, g, m) = nth(at(g), m)
                  /\ Members(ps, g)[m] = byStrength(ps)[nth(at(g), m)]
    BY ByLabels
  <1>2. Cardinality(heads) \in Nat /\ \A g : Cardinality(at(g)) \in Nat
    BY <1>1 DEF InTurn
  <1>3. \A g \in G : nth(heads, g) \in heads /\ nth(heads, g) \in at(g)
    BY <1>1 DEF InTurn, PlacesOf, HeadLabel, Heads
  <1>4. /\ heads \subseteq 1..Len(ps) /\ \A g : at(g) \subseteq 1..Len(ps)
        /\ \A g : \A n \in at(g) : LabelAt(ps, n) = HeadLabel(ps, g)
        /\ \A n \in heads : \A m \in 1..(n - 1) : LabelAt(ps, m) # LabelAt(ps, n)
        /\ \A n \in 1..Len(ps) : (\A m \in 1..(n - 1) : LabelAt(ps, m) # LabelAt(ps, n)) => n \in heads
        /\ \A l : \A n \in 1..Len(ps) : LabelAt(ps, n) = l => n \in PlacesOf(ps, l)
    BY DEF Heads, PlacesOf
  <1>5. Len(ps) \in Nat
    BY DEF IsPaste
  <1> HIDE DEF heads, G
  <1>6. \A g : /\ \A n \in 1..Cardinality(at(g)) : nth(at(g), n) \in at(g)
               /\ \A m, n \in 1..Cardinality(at(g)) : m < n => nth(at(g), m) < nth(at(g), n)
               /\ \A i \in at(g) : \E n \in 1..Cardinality(at(g)) : nth(at(g), n) = i
    BY <1>1 DEF InTurn
  <1> HIDE DEF at
  <1>7. ASSUME NEW g \in G
        PROVE  /\ 1 \in 1..Cardinality(at(g))
               /\ \A i \in at(g) : nth(at(g), 1) <= i /\ nth(heads, g) <= i
    <2>0. at(g) \subseteq Nat /\ at(g) # {}
      BY <1>3, <1>4, <1>5
    <2>1. 1 \in 1..Cardinality(at(g)) /\ \A i \in at(g) : nth(at(g), 1) <= i
      BY <1>1, <2>0, LeastPlace
    <2>3. ASSUME NEW i \in at(g), i < nth(heads, g) PROVE FALSE
      <3>1. PICK j \in 1..Len(ps) : j = nth(heads, g)
        BY <1>3, <1>4
      <3>2. i \in 1..(j - 1)
        BY <1>4, <1>5, <2>3, <3>1
      <3> QED BY <1>3, <1>4, <3>1, <3>2
    <2>4. nth(heads, g) \in 1..Len(ps) /\ at(g) \subseteq 1..Len(ps)
      BY <1>3, <1>4
    <2>5. \A i \in at(g) : nth(heads, g) <= i
      BY <1>5, <2>3, <2>4
    <2> QED BY <2>1, <2>5
  <1>8. ASSUME NEW p \in 1..Len(ps)
        PROVE  \E g \in G : p \in at(g)
    <2> DEFINE l == LabelAt(ps, p)
               first == PlacesOf(ps, l)
    <2>0. p \in first /\ first \subseteq 1..Len(ps)
          /\ \A n \in 1..Len(ps) : n \in first <=> LabelAt(ps, n) = l
      BY DEF PlacesOf
    <2> HIDE DEF first
    <2>1. PICK q \in first : \A n \in first : q <= n
      <3>1. InTurn(first) /\ first \subseteq Nat
        BY <1>5, <2>0, ByLabels DEF first
      <3> QED BY <2>0, <3>1, LeastPlace
    <2>2. q \in heads
      <3>1. ASSUME NEW m \in 1..(q - 1), LabelAt(ps, m) = LabelAt(ps, q) PROVE FALSE
        <4>1. q \in 1..Len(ps) /\ LabelAt(ps, q) = l
          BY <2>0
        <4>2. m \in 1..Len(ps) /\ m < q
          BY <1>5, <4>1
        <4>3. m \in first
          BY <2>0, <3>1, <4>1, <4>2
        <4> QED BY <2>1, <4>2, <4>1, <4>3
      <3> QED BY <1>4, <2>0, <3>1
    <2>3. PICK g \in G : nth(heads, g) = q
      BY <1>1, <2>2 DEF InTurn
    <2>4. HeadLabel(ps, g) = l
      BY <2>0, <2>3 DEF HeadLabel, heads
    <2>5. p \in at(g)
      BY <1>4, <2>4 DEF at
    <2> QED BY <2>5
  <1>9. ASSUME NEW g \in G, NEW h \in G, g < h
        PROVE  at(g) \cap at(h) = {} /\ nth(heads, g) < nth(heads, h)
    <2>1. nth(heads, g) < nth(heads, h)
      BY <1>1, <1>9 DEF InTurn
    <2>2. PICK i \in 1..Len(ps) : i = nth(heads, g)
      BY <1>3, <1>4
    <2>3. PICK j \in 1..Len(ps) : j = nth(heads, h)
      BY <1>3, <1>4
    <2>4. i \in 1..(j - 1) /\ j \in heads /\ i \in at(g) /\ j \in at(h)
      BY <1>3, <1>5, <2>1, <2>2, <2>3
    <2>5. LabelAt(ps, i) # LabelAt(ps, j)
      BY <1>4, <2>4
    <2>6. HeadLabel(ps, g) # HeadLabel(ps, h)
      BY <1>4, <2>4, <2>5
    <2> QED BY <1>4, <2>1, <2>6
  <1>10. \E k \in Nat : G = 1..k
    BY <1>1, <1>2
  <1>11. ASSUME NEW g \in G
         PROVE  /\ Len(Members(ps, g)) \in Nat \ {0}
                /\ DOMAIN Members(ps, g) = 1..Len(Members(ps, g))
                /\ \A m \in DOMAIN Members(ps, g) :
                     Place(ps, g, m) \in 1..Len(ps)
                     /\ Members(ps, g)[m] = byStrength(ps)[Place(ps, g, m)]
                /\ \A m, n \in DOMAIN Members(ps, g) : m < n => Place(ps, g, m) < Place(ps, g, n)
    <2>1. /\ DOMAIN Members(ps, g) = 1..Cardinality(at(g)) /\ Len(Members(ps, g)) = Cardinality(at(g))
          /\ \A m \in 1..Cardinality(at(g)) :
               Place(ps, g, m) = nth(at(g), m)
               /\ Members(ps, g)[m] = byStrength(ps)[nth(at(g), m)]
      BY <1>1
    <2>2. Cardinality(at(g)) \in Nat \ {0}
      BY <1>2, <1>7
    <2>3. \A m \in 1..Cardinality(at(g)) : nth(at(g), m) \in 1..Len(ps)
      BY <1>4, <1>6
    <2> QED BY <1>6, <2>1, <2>2, <2>3
  <1>12. ASSUME NEW p \in 1..Len(ps)
         PROVE  \E g \in G : \E m \in DOMAIN Members(ps, g) : Place(ps, g, m) = p
    <2>1. PICK g \in G : p \in at(g)
      BY <1>8
    <2>2. PICK m \in 1..Cardinality(at(g)) : nth(at(g), m) = p
      BY <1>6, <2>1
    <2>3. m \in DOMAIN Members(ps, g) /\ Place(ps, g, m) = p
      BY <1>1, <2>2
    <2> QED BY <2>3
  <1>13. ASSUME NEW g \in G, NEW h \in G, g < h,
                NEW m \in DOMAIN Members(ps, g), NEW n \in DOMAIN Members(ps, h)
         PROVE  /\ Place(ps, g, m) # Place(ps, h, n)
                /\ m = 1 => Place(ps, g, m) < Place(ps, h, n)
    <2>1. m \in 1..Cardinality(at(g)) /\ n \in 1..Cardinality(at(h))
          /\ Place(ps, g, m) = nth(at(g), m) /\ Place(ps, h, n) = nth(at(h), n)
      BY <1>1
    <2>2. Place(ps, g, m) \in at(g) /\ Place(ps, h, n) \in at(h)
      BY <1>6, <2>1
    <2>3. Place(ps, g, m) # Place(ps, h, n)
      BY <1>9, <1>13, <2>2
    <2>4. ASSUME m = 1 PROVE Place(ps, g, m) < Place(ps, h, n)
      <3>1. Place(ps, g, m) <= nth(heads, g) /\ nth(heads, h) <= Place(ps, h, n)
        BY <1>3, <1>7, <2>1, <2>2, <2>4
      <3>2. /\ Place(ps, g, m) \in 1..Len(ps) /\ Place(ps, h, n) \in 1..Len(ps)
            /\ nth(heads, g) \in 1..Len(ps) /\ nth(heads, h) \in 1..Len(ps)
        BY <1>3, <1>4, <2>2
      <3>3. nth(heads, g) < nth(heads, h)
        BY <1>9, <1>13
      <3> QED BY <1>5, <3>1, <3>2, <3>3
    <2> QED BY <2>3, <2>4
  <1> QED BY <1>10, <1>11, <1>12, <1>13 DEF Filled, G

LEMMA AllFilled == \A ps : IsPaste(ps) => Filled(ps)
  BY FilledByChunks, FilledByLabels

-------------------------------------------------------------------------------
(***************************************************************************)
(* When a paste is accepted, in the words of its organiser.                *)
(***************************************************************************)
LEMMA OneForOne ==
  ASSUME NEW S, IsFiniteSet(S), NEW T, NEW f \in [S -> T],
         \A a, b \in S : f[a] = f[b] => a = b, \A t \in T : \E a \in S : f[a] = t
  PROVE  IsFiniteSet(T) /\ Cardinality(T) = Cardinality(S)
  <1>1. f \in Bijection(S, T)
    BY DEF Bijection, Injection, IsInjective, Surjection
  <1>2. ExistsBijection(S, T)
    BY <1>1 DEF ExistsBijection
  <1> QED BY <1>2, FS_Bijection

LEMMA OnePlaceEach ==
  ASSUME NEW ps, IsPaste(ps), NEW m \in 1..Len(ps), NEW n \in 1..Len(ps),
         byStrength(ps)[m] = byStrength(ps)[n]
  PROVE  m = n
  <1>1. m < n \/ n < m \/ m = n
    OBVIOUS
  <1>2. byStrength(ps)[m] \in DOMAIN ps
    BY StrengthOrder DEF Strong
  <1>3. m # n => stronger(ps, byStrength(ps)[m], byStrength(ps)[m])
    BY <1>1, StrengthOrder DEF Strong
  <1> QED BY <1>2, <1>3, StrongerIsOrder

LEMMA LabelOfPlace ==
  ASSUME NEW ps, IsPaste(ps), labelled(ps) = DOMAIN ps,
         NEW g \in DOMAIN grouped(ps), NEW m \in DOMAIN Members(ps, g)
  PROVE  LabelAt(ps, Place(ps, g, m)) = HeadLabel(ps, g)
  <1>1. InTurn(PlacesOf(ps, HeadLabel(ps, g)))
        /\ m \in 1..Cardinality(PlacesOf(ps, HeadLabel(ps, g)))
        /\ Place(ps, g, m) = nth(PlacesOf(ps, HeadLabel(ps, g)), m)
    BY ByLabels
  <1>2. Place(ps, g, m) \in PlacesOf(ps, HeadLabel(ps, g))
    BY <1>1 DEF InTurn
  <1> QED BY <1>2 DEF PlacesOf

PairsOf(ps, l) == {i \in DOMAIN ps : ps[i].group = l}

LEMMA LabelCounted ==
  ASSUME NEW ps, IsPaste(ps), NEW l
  PROVE  Cardinality(PlacesOf(ps, l)) = Cardinality(PairsOf(ps, l))
  <1> DEFINE f == [n \in PlacesOf(ps, l) |-> byStrength(ps)[n]]
  <1>1. Strong(ps)
    BY StrengthOrder
  <1>2. PlacesOf(ps, l) \subseteq 1..Len(ps) /\ Len(ps) \in Nat
    BY DEF PlacesOf, IsPaste
  <1>3. IsFiniteSet(PlacesOf(ps, l))
    <2>1. IsFiniteSet(1..Len(ps)) /\ PlacesOf(ps, l) \in SUBSET (1..Len(ps))
      BY <1>2, FirstNumbers
    <2> QED BY <2>1, FS_Subset
  <1>4. \A n \in PlacesOf(ps, l) : byStrength(ps)[n] \in PairsOf(ps, l)
    BY <1>1 DEF Strong, PlacesOf, PairsOf, LabelAt
  <1>5. \A i \in PairsOf(ps, l) : \E n \in PlacesOf(ps, l) : byStrength(ps)[n] = i
    BY <1>1 DEF Strong, PlacesOf, PairsOf, LabelAt
  <1>6. \A m, n \in PlacesOf(ps, l) : byStrength(ps)[m] = byStrength(ps)[n] => m = n
    BY <1>2, <1>1, OnePlaceEach
  <1>7. /\ f \in [PlacesOf(ps, l) -> PairsOf(ps, l)]
        /\ \A a, b \in PlacesOf(ps, l) : f[a] = f[b] => a = b
        /\ \A t \in PairsOf(ps, l) : \E a \in PlacesOf(ps, l) : f[a] = t
    BY <1>4, <1>5, <1>6
  <1> HIDE DEF f
  <1> QED BY <1>3, <1>7, OneForOne

\* CanBeGrouped, of any paste.
Groupable(ps) ==
  IF {ps[i].group : i \in DOMAIN ps} = {None}
  THEN Len(ps) % MAX_GROUP_SIZE = 0 \/ Len(ps) % MAX_GROUP_SIZE >= MIN_GROUP_SIZE
  ELSE /\ None \notin {ps[i].group : i \in DOMAIN ps}
       /\ \A l \in {ps[i].group : i \in DOMAIN ps} :
            Cardinality(PairsOf(ps, l)) \in MIN_GROUP_SIZE..MAX_GROUP_SIZE

LEMMA ChunksFit ==
  ASSUME NEW ps, IsPaste(ps), labelled(ps) # DOMAIN ps
  PROVE  SizesRight(ps) <=> \/ Len(ps) % MAX_GROUP_SIZE = 0
                            \/ Len(ps) % MAX_GROUP_SIZE >= MIN_GROUP_SIZE
  <1> DEFINE size == MAX_GROUP_SIZE
             total == Len(ps)
             len(g) == Len(Members(ps, g))
  <1>0. size \in Nat \ {0} /\ MIN_GROUP_SIZE \in Nat \ {0} /\ MIN_GROUP_SIZE <= size /\ total \in Nat
    BY LineupConstants DEF IsPaste
  <1>1. PICK k \in Nat :
          /\ Chunked(total, size, k) /\ DOMAIN grouped(ps) = 1..k
          /\ \A g \in 1..k :
               len(g) = IF g * size < total THEN size ELSE total - (g - 1) * size
    BY ByChunks
  <1>2. SizesRight(ps) <=> \A g \in 1..k : len(g) \in MIN_GROUP_SIZE..size
    BY <1>1 DEF SizesRight, Members
  <1> HIDE DEF size, total, len
  <1>3. \A g \in 1..(k - 1) : len(g) = size
    <2>1. \A g \in 1..(k - 1) : g \in 1..k /\ g * size < total
      BY <1>1 DEF Chunked
    <2> QED BY <1>1, <2>1
  <1>4. k \in 1..k
    BY <1>1 DEF Chunked
  <1>5. PICK all \in Nat : all = k * size
    BY <1>0, <1>1
  <1>6. PICK from \in Nat : from = (k - 1) * size
    BY <1>1, <1>4 DEF Chunked
  <1>7. all = from + size /\ from < total /\ total <= all
        /\ total % size = IF total = all THEN 0 ELSE total - from
    BY <1>1, <1>4, <1>5, <1>6 DEF Chunked
  <1>8. len(k) = IF all < total THEN size ELSE total - from
    BY <1>1, <1>4, <1>5, <1>6
  <1>9. len(k) = total - from
    BY <1>0, <1>7, <1>8
  <1>10. SizesRight(ps) <=> len(k) \in MIN_GROUP_SIZE..size
    <2>1. \A g \in 1..k : g \in 1..(k - 1) \/ g = k
      OBVIOUS
    <2>2. size \in MIN_GROUP_SIZE..size
      BY <1>0
    <2> QED BY <1>2, <1>3, <1>4, <2>1, <2>2
  <1> QED BY <1>0, <1>7, <1>9, <1>10 DEF size, total

LEMMA LabelsFit ==
  ASSUME NEW ps, IsPaste(ps), labelled(ps) = DOMAIN ps
  PROVE  SizesRight(ps) <=> \A l \in {ps[i].group : i \in DOMAIN ps} :
                              Cardinality(PairsOf(ps, l)) \in MIN_GROUP_SIZE..MAX_GROUP_SIZE
  <1> DEFINE fits(n) == n \in MIN_GROUP_SIZE..MAX_GROUP_SIZE
  <1>1. /\ InTurn(Heads(ps)) /\ DOMAIN grouped(ps) = 1..Cardinality(Heads(ps))
        /\ \A g \in 1..Cardinality(Heads(ps)) :
             Len(Members(ps, g)) = Cardinality(PlacesOf(ps, HeadLabel(ps, g)))
    BY ByLabels
  <1>2. SizesRight(ps) <=> \A g \in DOMAIN grouped(ps) :
                             fits(Cardinality(PairsOf(ps, HeadLabel(ps, g))))
    BY <1>1, LabelCounted DEF SizesRight, Members
  <1>3. \A g \in DOMAIN grouped(ps) : \E i \in DOMAIN ps : HeadLabel(ps, g) = ps[i].group
    <2> SUFFICES ASSUME NEW g \in DOMAIN grouped(ps)
                 PROVE  \E i \in DOMAIN ps : HeadLabel(ps, g) = ps[i].group
      OBVIOUS
    <2>1. nth(Heads(ps), g) \in 1..Len(ps)
      BY <1>1 DEF InTurn, Heads
    <2>2. byStrength(ps)[nth(Heads(ps), g)] \in DOMAIN ps
      BY <2>1, StrengthOrder DEF Strong
    <2> QED BY <2>2 DEF HeadLabel, LabelAt
  <1>4. \A i \in DOMAIN ps : \E g \in DOMAIN grouped(ps) : HeadLabel(ps, g) = ps[i].group
    <2> SUFFICES ASSUME NEW i \in DOMAIN ps
                 PROVE  \E g \in DOMAIN grouped(ps) : HeadLabel(ps, g) = ps[i].group
      OBVIOUS
    <2>1. PICK p \in 1..Len(ps) : byStrength(ps)[p] = i
      BY StrengthOrder DEF Strong
    <2>2. PICK g \in DOMAIN grouped(ps) : \E m \in DOMAIN Members(ps, g) : Place(ps, g, m) = p
      BY AllFilled DEF Filled
    <2> QED BY <2>1, <2>2, LabelOfPlace DEF LabelAt
  <1> HIDE DEF fits
  <1>5. SizesRight(ps) <=> \A i \in DOMAIN ps : fits(Cardinality(PairsOf(ps, ps[i].group)))
    BY <1>2, <1>3, <1>4
  <1> QED BY <1>5 DEF fits

LEMMA SizesMet ==
  ASSUME NEW ps, IsPaste(ps), Len(ps) > 0
  PROVE  labelled(ps) \in {{}, DOMAIN ps} /\ SizesRight(ps) <=> Groupable(ps)
  <1> DEFINE labels == {ps[i].group : i \in DOMAIN ps}
  <1>1. DOMAIN ps # {}
    <2>1. DOMAIN ps = 1..Len(ps) /\ Len(ps) \in Nat
      BY DEF IsPaste
    <2> QED BY <2>1
  <1>2. labels = {None} <=> labelled(ps) = {}
    BY <1>1 DEF labelled
  <1>3. None \notin labels <=> labelled(ps) = DOMAIN ps
    BY DEF labelled
  <1>4. labelled(ps) = {} => labelled(ps) # DOMAIN ps
    BY <1>1
  <1> QED BY <1>2, <1>3, <1>4, ChunksFit, LabelsFit DEF Groupable

-------------------------------------------------------------------------------
PasteInv ==
  /\ pairs \in Seq(Offers) /\ IsPaste(pairs) /\ known \in Rankings
  /\ start \in {"past", "future", "unreadable"} /\ title \in Titles

LEMMA OfferedIsPaste ==
  ASSUME NEW ps \in Seq(Offers)
  PROVE  IsPaste(ps)
  <1>1. Len(ps) \in Nat /\ ps = [i \in 1..Len(ps) |-> ps[i]] /\ \A i \in 1..Len(ps) : ps[i] \in Offers
    OBVIOUS
  <1> QED BY <1>1, LineupConstants DEF IsPaste

LEMMA PasteInvHolds == PasteSpec => []PasteInv
  <1>1. PasteInit => PasteInv
    BY DEF PasteInit, PasteInv, IsPaste
  <1>2. PasteInv /\ [PasteNext]_paste => PasteInv'
    <2> SUFFICES ASSUME PasteInv, [PasteNext]_paste PROVE PasteInv'
      OBVIOUS
    <2>1. CASE AddPair
      <3>1. pairs' \in Seq(Offers) /\ UNCHANGED <<start, title, known>>
        BY <2>1 DEF AddPair, PasteInv
      <3> QED BY <3>1, OfferedIsPaste DEF PasteInv
    <2>2. CASE UNCHANGED paste
      BY <2>2 DEF PasteInv, IsPaste, paste
    <2> QED BY <2>1, <2>2 DEF PasteNext
  <1> QED BY <1>1, <1>2, PTL DEF PasteSpec

\* The players the paste is matched against.
Candidates == findByMatchKeys(matchKeys(pairs), known)

LEMMA SlotsAre ==
  ASSUME IsPaste(pairs)
  PROVE  /\ \A i \in 1..Len(pairs), slot \in {1, 2} :
              <<i, slot>> \in Slots /\ NameAt(<<i, slot>>) = namesOf(pairs)[Flat(i, slot)]
         /\ \A x \in Slots : \E i \in 1..Len(pairs), slot \in {1, 2} :
              x = <<i, slot>> /\ NameAt(x) = namesOf(pairs)[Flat(i, slot)]
  <1>1. DOMAIN pairs = 1..Len(pairs) /\ Len(pairs) \in Nat
    BY DEF IsPaste
  <1>2. NamesIn(pairs)
    BY <1>1, NamesInOrder
  <1>3. \A i \in 1..Len(pairs), slot \in {1, 2} :
          <<i, slot>> \in Slots /\ NameAt(<<i, slot>>) = namesOf(pairs)[Flat(i, slot)]
    BY <1>1, <1>2 DEF Slots, NameAt, NamesIn
  <1>4. \A x \in Slots : \E i \in 1..Len(pairs), slot \in {1, 2} : x = <<i, slot>>
    BY <1>1 DEF Slots
  <1>5. ASSUME NEW x \in Slots
        PROVE  \E i \in 1..Len(pairs), slot \in {1, 2} :
                 x = <<i, slot>> /\ NameAt(x) = namesOf(pairs)[Flat(i, slot)]
    <2>1. PICK i \in 1..Len(pairs), slot \in {1, 2} : x = <<i, slot>>
      BY <1>4
    <2> QED BY <1>3, <2>1
  <1> QED BY <1>3, <1>5

LEMMA SlotsAreNames ==
  ASSUME IsPaste(pairs)
  PROVE  /\ DOMAIN namesOf(pairs) = 1..(2 * Len(pairs))
         /\ \A x \in Slots : \E k \in 1..(2 * Len(pairs)) : NameAt(x) = namesOf(pairs)[k]
         /\ \A k \in 1..(2 * Len(pairs)) : \E x \in Slots : NameAt(x) = namesOf(pairs)[k]
  <1>1. NamesIn(pairs)
    BY NamesInOrder DEF IsPaste
  <1>2. \A x \in Slots : \E k \in 1..(2 * Len(pairs)) : NameAt(x) = namesOf(pairs)[k]
    BY <1>1, SlotsAre DEF NamesIn
  <1>3. ASSUME NEW k \in 1..(2 * Len(pairs)) PROVE \E x \in Slots : NameAt(x) = namesOf(pairs)[k]
    <2>1. PICK i \in 1..Len(pairs), slot \in {1, 2} : k = Flat(i, slot)
      BY <1>1 DEF NamesIn
    <2>2. <<i, slot>> \in Slots /\ NameAt(<<i, slot>>) = namesOf(pairs)[k]
      BY <2>1, SlotsAre
    <2> QED BY <2>2
  <1> QED BY <1>1, <1>2, <1>3 DEF NamesIn

\* They are the players with the name of some slot.
LEMMA CandidatesNamed ==
  ASSUME PasteInv
  PROVE  /\ IsFiniteSet(Candidates) /\ \A x \in Slots : IsFiniteSet(Named(x))
         /\ \A x \in Slots : \A q : q \in Named(x) <=> q \in Candidates /\ q.key = MatchKey[NameAt(x)]
         /\ \A q \in Candidates : \E x \in Slots : q \in Named(x)
  <1>1. IsFiniteSet(known) /\ (\A q \in known : q.key # "") /\ IsPaste(pairs)
    BY LineupConstants, NotBlank DEF PasteInv
  <1>2. Candidates \in SUBSET known /\ \A x : Named(x) \in SUBSET known
    BY DEF Candidates, findByMatchKeys, Named
  <1>3. IsFiniteSet(Candidates) /\ \A x \in Slots : IsFiniteSet(Named(x))
    BY <1>1, <1>2, FS_Subset
  <1>4. ASSUME NEW x \in Slots, NEW q, q \in Named(x) PROVE q \in Candidates
    <2>1. q \in known /\ q.key = MatchKey[NameAt(x)] /\ q.key # ""
      BY <1>1, <1>4 DEF Named
    <2>2. PICK k \in DOMAIN namesOf(pairs) : NameAt(x) = namesOf(pairs)[k]
      BY <1>1, SlotsAreNames
    <2>3. q.key \in matchKeys(pairs)
      BY <2>1, <2>2 DEF matchKeys
    <2> QED BY <2>1, <2>3 DEF Candidates, findByMatchKeys
  <1>5. ASSUME NEW q \in Candidates PROVE \E x \in Slots : q \in Named(x)
    <2>1. q \in known /\ q.key \in matchKeys(pairs)
      BY DEF Candidates, findByMatchKeys
    <2>2. PICK k \in DOMAIN namesOf(pairs) : q.key = MatchKey[namesOf(pairs)[k]]
      BY <2>1 DEF matchKeys
    <2>3. PICK x \in Slots : NameAt(x) = namesOf(pairs)[k]
      BY <1>1, <2>2, SlotsAreNames
    <2> QED BY <2>1, <2>2, <2>3 DEF Named
  <1>6. \A x \in Slots : \A q : q \in Candidates /\ q.key = MatchKey[NameAt(x)] => q \in Named(x)
    BY <1>2 DEF Named
  <1>7. \A x \in Slots : \A q : q \in Named(x) => q.key = MatchKey[NameAt(x)]
    BY DEF Named
  <1> QED BY <1>3, <1>4, <1>5, <1>6, <1>7

\* No two of them have one name, and each name is that of one: each name is one person's.
LEMMA NamedOnce ==
  ASSUME PasteInv
  PROVE  OneOfAName(Candidates) /\ NamesKnown(pairs, Candidates) <=> \A x \in Slots : Cardinality(Named(x)) = 1
  <1>0. IsPaste(pairs)
    BY DEF PasteInv
  <1>1. NamesKnown(pairs, Candidates) <=> \A x \in Slots : MatchKey[NameAt(x)] \in Keys(Candidates)
    BY <1>0, SlotsAreNames DEF NamesKnown
  <1>2. ASSUME OneOfAName(Candidates), NamesKnown(pairs, Candidates), NEW x \in Slots
        PROVE  Cardinality(Named(x)) = 1
    <2>1. PICK q \in Candidates : q.key = MatchKey[NameAt(x)]
      BY <1>1, <1>2 DEF Keys
    <2>2. Named(x) = {q}
      BY <1>2, <2>1, CandidatesNamed DEF OneOfAName
    <2> QED BY <2>2, FS_Singleton
  <1>3. ASSUME \A x \in Slots : Cardinality(Named(x)) = 1
        PROVE  OneOfAName(Candidates) /\ NamesKnown(pairs, Candidates)
    <2>1. \A x \in Slots : \E q : Named(x) = {q}
      BY <1>3, CandidatesNamed, FS_Singleton
    <2>2. ASSUME NEW p \in Candidates, NEW q \in Candidates, p.key = q.key PROVE p = q
      <3>1. PICK x \in Slots : p \in Named(x)
        BY CandidatesNamed
      <3>2. q \in Named(x)
        BY <2>2, <3>1, CandidatesNamed
      <3> QED BY <2>1, <3>1, <3>2
    <2>3. ASSUME NEW x \in Slots PROVE MatchKey[NameAt(x)] \in Keys(Candidates)
      <3>1. PICK q : q \in Named(x)
        BY <2>1
      <3> QED BY <3>1, CandidatesNamed DEF Keys
    <2> QED BY <1>1, <2>2, <2>3 DEF OneOfAName
  <1> QED BY <1>2, <1>3

\* Whom a name stands for.
LEMMA NameStandsFor ==
  ASSUME PasteInv, OneOfAName(Candidates), NamesKnown(pairs, Candidates), NEW x \in Slots
  PROVE  People(x) = {IdFor(NameAt(x), Candidates)}
  <1>1. PICK q : Named(x) = {q}
    BY NamedOnce, CandidatesNamed, FS_Singleton
  <1>2. q \in Candidates /\ q.key = MatchKey[NameAt(x)]
    BY <1>1, CandidatesNamed
  <1>3. \A p \in Candidates : p.key = MatchKey[NameAt(x)] => p = q
    BY <1>1, CandidatesNamed
  <1>4. (CHOOSE p \in Candidates : p.key = MatchKey[NameAt(x)]) = q
    BY <1>2, <1>3
  <1>5. IdFor(NameAt(x), Candidates) = q.id
    BY <1>4 DEF IdFor
  <1>6. People(x) = {q.id}
    BY <1>1 DEF People
  <1> QED BY <1>5, <1>6

LEMMA NamesRight ==
  ASSUME PasteInv, OneOfAName(Candidates), NamesKnown(pairs, Candidates)
  PROVE  NamesApart(pairs, Candidates) <=> \A x, y \in Slots : x # y => People(x) \cap People(y) = {}
  <1> DEFINE names == namesOf(pairs)
             all == 1..(2 * Len(pairs))
  <1>0. IsPaste(pairs) /\ Len(pairs) \in Nat
    BY DEF PasteInv, IsPaste
  <1>1. /\ \A i \in 1..Len(pairs), slot \in {1, 2} : Flat(i, slot) \in all
        /\ \A k \in all : \E i \in 1..Len(pairs), slot \in {1, 2} : k = Flat(i, slot)
        /\ \A i, j \in 1..Len(pairs), m, n \in {1, 2} : Flat(i, m) = Flat(j, n) => i = j /\ m = n
    BY <1>0, NamesInOrder DEF NamesIn
  <1> HIDE DEF names, all
  <1>2. ASSUME NamesApart(pairs, Candidates), NEW x \in Slots, NEW y \in Slots, x # y
        PROVE  People(x) \cap People(y) = {}
    <2>1. PICK i \in 1..Len(pairs), m \in {1, 2} : x = <<i, m>> /\ NameAt(x) = names[Flat(i, m)]
      BY <1>0, SlotsAre DEF names
    <2>2. PICK j \in 1..Len(pairs), n \in {1, 2} : y = <<j, n>> /\ NameAt(y) = names[Flat(j, n)]
      BY <1>0, SlotsAre DEF names
    <2>3. IdFor(NameAt(x), Candidates) # IdFor(NameAt(y), Candidates)
      BY <1>1, <1>2, <2>1, <2>2 DEF NamesApart, names, all
    <2>4. People(x) = {IdFor(NameAt(x), Candidates)} /\ People(y) = {IdFor(NameAt(y), Candidates)}
      BY NameStandsFor
    <2> QED BY <2>3, <2>4
  <1>3. ASSUME \A x, y \in Slots : x # y => People(x) \cap People(y) = {},
               NEW j \in all, NEW k \in all, IdFor(names[j], Candidates) = IdFor(names[k], Candidates)
        PROVE  j = k
    <2>1. PICK i \in 1..Len(pairs), m \in {1, 2} : j = Flat(i, m)
      BY <1>1
    <2>2. PICK h \in 1..Len(pairs), n \in {1, 2} : k = Flat(h, n)
      BY <1>1
    <2>3. <<i, m>> \in Slots /\ NameAt(<<i, m>>) = names[j] /\ <<h, n>> \in Slots
          /\ NameAt(<<h, n>>) = names[k]
      BY <1>0, <2>1, <2>2, SlotsAre DEF names
    <2>4. People(<<i, m>>) = {IdFor(names[j], Candidates)} /\ People(<<h, n>>) = {IdFor(names[k], Candidates)}
      BY <2>3, NameStandsFor
    <2>5. <<i, m>> = <<h, n>>
      BY <1>3, <2>3, <2>4
    <2> QED BY <2>1, <2>2, <2>5
  <1> QED BY <1>2, <1>3 DEF NamesApart, names, all

(***************************************************************************)
(* A lineup is published exactly when nothing is wrong with it: its start, *)
(* its address, its people, its totals and its sizes; and nothing is asked *)
(* of the players who are not in it.                                       *)
(***************************************************************************)
THEOREM SoundAccepted == PasteSpec => []AcceptedIffSound
  <1>1. PasteInv => AcceptedIffSound
    <2> SUFFICES ASSUME PasteInv, Payload PROVE AcceptedIffSound
      BY DEF AcceptedIffSound
    <2>1. IsPaste(pairs) /\ Len(pairs) \in Nat /\ Len(pairs) > 0
      BY LineupConstants DEF PasteInv, Payload, IsPaste
    <2>2. Derived.code = "OK" <=>
            /\ ~Malformed(pairs, start, title) /\ ambiguous(Candidates) = {} /\ start # "past"
            /\ NamesKnown(pairs, Candidates) /\ NamesApart(pairs, Candidates)
            /\ PointsRight(pairs) /\ SizesRight(pairs)
      BY <2>1, CodeIs DEF Derived, deriveFromPayload, Candidates, CodeOf
    <2>3. ambiguous(Candidates) = {} <=> OneOfAName(Candidates)
      BY CandidatesNamed, Unambiguous
    <2>4. ~Malformed(pairs, start, title) /\ start # "past" <=>
            /\ start = "future" /\ labelled(pairs) \in {{}, DOMAIN pairs}
            /\ title.slug # None \/ Slugify[title.name] # ""
      BY NotBlank DEF Malformed, slugOf, PasteInv
    <2>5. labelled(pairs) \in {{}, DOMAIN pairs} /\ SizesRight(pairs) <=> CanBeGrouped
      BY <2>1, SizesMet DEF Groupable, CanBeGrouped, PairsOf
    <2>6. /\ OneOfAName(Candidates) /\ NamesKnown(pairs, Candidates)
               <=> \A x \in Slots : Cardinality(Named(x)) = 1
          /\ OneOfAName(Candidates) /\ NamesKnown(pairs, Candidates) =>
               (NamesApart(pairs, Candidates)
                 <=> \A x, y \in Slots : x # y => People(x) \cap People(y) = {})
      BY NamedOnce, NamesRight
    <2> QED BY <2>2, <2>3, <2>4, <2>5, <2>6 DEF AcceptedIffSound, PointsRight
  <1> QED BY <1>1, PasteInvHolds, PTL

\* The groups of an accepted paste, member by member.
GroupsAre(ps, players) ==
  /\ DOMAIN groupsOf(ps, players) = DOMAIN grouped(ps)
  /\ \A g \in DOMAIN grouped(ps) :
       /\ groupsOf(ps, players)[g].label = grouped(ps)[g].label
       /\ DOMAIN groupsOf(ps, players)[g].pairs = DOMAIN Members(ps, g)
       /\ \A n \in DOMAIN Members(ps, g) :
            groupsOf(ps, players)[g].pairs[n] = placed(ps, players, byStrength(ps)[Place(ps, g, n)])

LEMMA GroupsDerived ==
  ASSUME NEW ps, IsPaste(ps), NEW players
  PROVE  GroupsAre(ps, players)
  <1>1. \A g \in DOMAIN grouped(ps) : \A n \in DOMAIN Members(ps, g) :
          Members(ps, g)[n] = byStrength(ps)[Place(ps, g, n)]
    BY AllFilled DEF Filled
  <1>2. /\ DOMAIN groupsOf(ps, players) = DOMAIN grouped(ps)
        /\ \A g \in DOMAIN grouped(ps) :
             /\ groupsOf(ps, players)[g].label = grouped(ps)[g].label
             /\ DOMAIN groupsOf(ps, players)[g].pairs = DOMAIN Members(ps, g)
             /\ \A n \in DOMAIN Members(ps, g) :
                  groupsOf(ps, players)[g].pairs[n] = placed(ps, players, Members(ps, g)[n])
    BY DEF groupsOf, Members
  <1> QED BY <1>1, <1>2 DEF GroupsAre

LEMMA OnePlaceInGroups ==
  ASSUME NEW ps, IsPaste(ps),
         NEW g \in DOMAIN grouped(ps), NEW m \in DOMAIN Members(ps, g),
         NEW h \in DOMAIN grouped(ps), NEW n \in DOMAIN Members(ps, h),
         Place(ps, g, m) = Place(ps, h, n)
  PROVE  g = h /\ m = n
  <1>1. PICK k \in Nat : DOMAIN grouped(ps) = 1..k
    BY AllFilled DEF Filled
  <1>2. ~(g < h) /\ ~(h < g)
    BY AllFilled DEF Filled
  <1>3. g = h
    BY <1>1, <1>2
  <1>4. /\ DOMAIN Members(ps, g) = 1..Len(Members(ps, g)) /\ Len(Members(ps, g)) \in Nat
        /\ Place(ps, g, m) \in 1..Len(ps)
        /\ m < n => Place(ps, g, m) < Place(ps, g, n)
        /\ n < m => Place(ps, g, n) < Place(ps, g, m)
    BY <1>3, AllFilled DEF Filled
  <1>5. ~(Place(ps, g, m) < Place(ps, g, n)) /\ ~(Place(ps, g, n) < Place(ps, g, m))
    BY <1>3, <1>4
  <1>6. m = n
    <2>1. m \in 1..Len(Members(ps, g)) /\ n \in 1..Len(Members(ps, g))
      BY <1>3, <1>4
    <2> QED BY <1>4, <1>5, <2>1
  <1> QED BY <1>3, <1>6

\* The players of an entry, in a paste whose names are known.
LEMMA PlayersOfEntry ==
  ASSUME PasteInv, OneOfAName(Candidates), NamesKnown(pairs, Candidates),
         NEW i \in 1..Len(pairs), NEW slot \in {1, 2}
  PROVE  /\ placed(pairs, Candidates, i).entry = i
         /\ {placed(pairs, Candidates, i).members[slot]} = People(<<i, slot>>)
  <1>1. <<i, slot>> \in Slots /\ NameAt(<<i, slot>>) = namesOf(pairs)[Flat(i, slot)]
    BY SlotsAre DEF PasteInv
  <1>2. Flat(i, slot) \in 1..(2 * Len(pairs)) /\ Len(pairs) \in Nat
    BY NamesInOrder DEF NamesIn, PasteInv, IsPaste
  <1>3. People(<<i, slot>>) = {IdFor(namesOf(pairs)[Flat(i, slot)], Candidates)}
    BY <1>1, NameStandsFor
  <1>4. resolved(pairs, Candidates)[Flat(i, slot)] = IdFor(namesOf(pairs)[Flat(i, slot)], Candidates)
    BY <1>2, AllResolved
  <1>5. Flat(i, 1) = 2 * i - 1 /\ Flat(i, 2) = 2 * i
    BY DEF Flat
  <1>6. /\ placed(pairs, Candidates, i).entry = i
        /\ placed(pairs, Candidates, i).members[slot] = resolved(pairs, Candidates)[Flat(i, slot)]
    BY <1>5 DEF placed
  <1> QED BY <1>3, <1>4, <1>6

(***************************************************************************)
(* Every pair of an accepted lineup is in one group, once, and with the    *)
(* two people its own names stand for.                                     *)
(***************************************************************************)
THEOREM PlayersKept == PasteSpec => []PairsKeepTheirPlayers
  <1>1. PasteInv => PairsKeepTheirPlayers
    <2> DEFINE groups == Derived.groups
               places == UNION {{<<g, n>> : n \in DOMAIN groups[g].pairs} : g \in DOMAIN groups}
               PairAt(x) == groups[x[1]].pairs[x[2]]
               holding(i) == {x \in places : PairAt(x).entry = i}
    <2> SUFFICES ASSUME PasteInv, Derived.code = "OK"
                 PROVE  /\ \A i \in DOMAIN pairs : Cardinality(holding(i)) = 1
                        /\ \A x \in places, slot \in {1, 2} :
                             {PairAt(x).members[slot]} = People(<<PairAt(x).entry, slot>>)
      BY DEF PairsKeepTheirPlayers
    <2>1. IsPaste(pairs) /\ Len(pairs) \in Nat /\ DOMAIN pairs = 1..Len(pairs) /\ IsFiniteSet(Candidates)
      BY CandidatesNamed DEF PasteInv, IsPaste
    <2>2. NamesKnown(pairs, Candidates) /\ OneOfAName(Candidates)
      BY <2>1, CodeIs, Unambiguous DEF Derived, deriveFromPayload, Candidates, CodeOf
    <2>3. groups = groupsOf(pairs, Candidates)
      BY <2>1, CodeIs DEF Derived, deriveFromPayload, Candidates
    <2>4. /\ \A x \in places : \E g \in DOMAIN groups : \E n \in DOMAIN groups[g].pairs : x = <<g, n>>
          /\ \A g \in DOMAIN groups : \A n \in DOMAIN groups[g].pairs : <<g, n>> \in places
      OBVIOUS
    <2> HIDE DEF groups, places
    <2>5. ASSUME NEW x \in places
          PROVE  \E g \in DOMAIN grouped(pairs) : \E n \in DOMAIN Members(pairs, g) :
                   /\ x = <<g, n>> /\ Place(pairs, g, n) \in 1..Len(pairs)
                   /\ PairAt(x) = placed(pairs, Candidates, byStrength(pairs)[Place(pairs, g, n)])
      <3>1. PICK g \in DOMAIN groups : \E n \in DOMAIN groups[g].pairs : x = <<g, n>>
        BY <2>4
      <3>2. PICK n \in DOMAIN groups[g].pairs : x = <<g, n>>
        BY <3>1
      <3>3. g \in DOMAIN grouped(pairs) /\ n \in DOMAIN Members(pairs, g)
        BY <2>1, <2>3, GroupsDerived DEF GroupsAre
      <3>4. groups[g].pairs[n] = placed(pairs, Candidates, byStrength(pairs)[Place(pairs, g, n)])
        BY <2>1, <2>3, <3>3, GroupsDerived DEF GroupsAre
      <3>5. Place(pairs, g, n) \in 1..Len(pairs)
        BY <2>1, <3>3, AllFilled DEF Filled
      <3> QED BY <3>2, <3>3, <3>4, <3>5
    <2>6. ASSUME NEW g \in DOMAIN grouped(pairs), NEW n \in DOMAIN Members(pairs, g)
          PROVE  <<g, n>> \in places
                 /\ PairAt(<<g, n>>) = placed(pairs, Candidates, byStrength(pairs)[Place(pairs, g, n)])
      <3>1. g \in DOMAIN groups /\ n \in DOMAIN groups[g].pairs
            /\ groups[g].pairs[n] = placed(pairs, Candidates, byStrength(pairs)[Place(pairs, g, n)])
        BY <2>1, <2>3, GroupsDerived DEF GroupsAre
      <3> QED BY <2>4, <3>1
    <2>7. \A p \in 1..Len(pairs) : byStrength(pairs)[p] \in 1..Len(pairs)
      BY <2>1, StrengthOrder DEF Strong
    <2>8. \A i \in 1..Len(pairs) : placed(pairs, Candidates, i).entry = i
      BY DEF placed
    <2> HIDE DEF PairAt
    <2>9. ASSUME NEW i \in 1..Len(pairs)
          PROVE  Cardinality(holding(i)) = 1
      <3>1. PICK p \in 1..Len(pairs) : byStrength(pairs)[p] = i
        BY <2>1, StrengthOrder DEF Strong
      <3>2. PICK g \in DOMAIN grouped(pairs) : \E m \in DOMAIN Members(pairs, g) : Place(pairs, g, m) = p
        BY <2>1, AllFilled DEF Filled
      <3>3. PICK m \in DOMAIN Members(pairs, g) : Place(pairs, g, m) = p
        BY <3>2
      <3>4. <<g, m>> \in holding(i)
        BY <2>6, <2>8, <3>1, <3>3
      <3>5. ASSUME NEW x \in holding(i) PROVE x = <<g, m>>
        <4>1. PICK h \in DOMAIN grouped(pairs) : \E n \in DOMAIN Members(pairs, h) :
                   /\ x = <<h, n>> /\ Place(pairs, h, n) \in 1..Len(pairs)
                   /\ PairAt(x) = placed(pairs, Candidates, byStrength(pairs)[Place(pairs, h, n)])
          BY <2>5
        <4>2. PICK n \in DOMAIN Members(pairs, h) :
                   /\ x = <<h, n>> /\ Place(pairs, h, n) \in 1..Len(pairs)
                   /\ PairAt(x) = placed(pairs, Candidates, byStrength(pairs)[Place(pairs, h, n)])
          BY <4>1
        <4>3. byStrength(pairs)[Place(pairs, h, n)] = i
          BY <2>7, <2>8, <4>2
        <4>4. Place(pairs, h, n) = p
          BY <2>1, <3>1, <4>2, <4>3, OnePlaceEach
        <4> QED BY <2>1, <3>3, <4>2, <4>4, OnePlaceInGroups
      <3> HIDE DEF holding
      <3>6. holding(i) = {<<g, m>>}
        BY <3>4, <3>5
      <3> QED BY <3>6, FS_Singleton
    <2>10. ASSUME NEW x \in places, NEW slot \in {1, 2}
           PROVE  {PairAt(x).members[slot]} = People(<<PairAt(x).entry, slot>>)
      <3>1. PICK i \in 1..Len(pairs) : PairAt(x) = placed(pairs, Candidates, i)
        BY <2>5, <2>7
      <3>2. /\ placed(pairs, Candidates, i).entry = i
            /\ {placed(pairs, Candidates, i).members[slot]} = People(<<i, slot>>)
        BY <2>1, <2>2, PlayersOfEntry
      <3>3. PairAt(x).entry = i
        BY <3>1, <3>2
      <3>4. {PairAt(x).members[slot]} = People(<<i, slot>>)
        BY <3>1, <3>2
      <3> QED BY <3>3, <3>4
    <2> QED BY <2>1, <2>9, <2>10
  <1> QED BY <1>1, PasteInvHolds, PTL

LEMMA PlacesByStrength ==
  ASSUME NEW ps, IsPaste(ps), NEW p \in 1..Len(ps), NEW q \in 1..Len(ps), p < q
  PROVE  ps[byStrength(ps)[p]].totalPoints >= ps[byStrength(ps)[q]].totalPoints
  <1>1. byStrength(ps)[p] \in DOMAIN ps /\ byStrength(ps)[q] \in DOMAIN ps
        /\ stronger(ps, byStrength(ps)[p], byStrength(ps)[q])
    BY StrengthOrder DEF Strong
  <1> QED BY <1>1, StrongerIsOrder DEF stronger

LEMMA AcceptedStrongestFirst == PasteInv => StrongestFirst
  <1> DEFINE groups == Derived.groups
             tp(g, m) == Total(groups[g].pairs[m])
  <1> SUFFICES ASSUME PasteInv, Payload, Derived.code = "OK",
                      NEW g \in DOMAIN groups, NEW h \in DOMAIN groups,
                      NEW m \in DOMAIN groups[g].pairs, NEW n \in DOMAIN groups[h].pairs
               PROVE  /\ g = h /\ m < n => tp(g, m) >= tp(h, n)
                      /\ g < h /\ (labelled(pairs) = {} \/ m = 1) => tp(g, m) >= tp(h, n)
    BY DEF StrongestFirst
  <1>1. IsPaste(pairs) /\ Len(pairs) \in Nat /\ Len(pairs) > 0 /\ DOMAIN pairs = 1..Len(pairs)
    BY LineupConstants DEF PasteInv, Payload, IsPaste
  <1>2. groups = groupsOf(pairs, Candidates)
    BY <1>1, CodeIs DEF Derived, deriveFromPayload, Candidates
  <1> HIDE DEF groups
  <1>3. /\ g \in DOMAIN grouped(pairs) /\ h \in DOMAIN grouped(pairs)
        /\ m \in DOMAIN Members(pairs, g) /\ n \in DOMAIN Members(pairs, h)
        /\ groups[g].pairs[m] = placed(pairs, Candidates, byStrength(pairs)[Place(pairs, g, m)])
        /\ groups[h].pairs[n] = placed(pairs, Candidates, byStrength(pairs)[Place(pairs, h, n)])
    BY <1>1, <1>2, GroupsDerived DEF GroupsAre
  <1>4. /\ tp(g, m) = pairs[byStrength(pairs)[Place(pairs, g, m)]].totalPoints
        /\ tp(h, n) = pairs[byStrength(pairs)[Place(pairs, h, n)]].totalPoints
    BY <1>3 DEF Total, placed
  <1>5. Place(pairs, g, m) \in 1..Len(pairs) /\ Place(pairs, h, n) \in 1..Len(pairs)
    BY <1>1, <1>3, AllFilled DEF Filled
  <1>6. g = h /\ m < n => Place(pairs, g, m) < Place(pairs, h, n)
    BY <1>1, <1>3, AllFilled DEF Filled
  <1>7. g < h /\ (labelled(pairs) = {} \/ m = 1) => Place(pairs, g, m) < Place(pairs, h, n)
    <2>1. 1 \in DOMAIN pairs
      BY <1>1
    <2>2. labelled(pairs) = {} => labelled(pairs) # DOMAIN pairs
      BY <2>1
    <2> QED BY <1>1, <1>3, <2>2, AllFilled DEF Filled
  <1> HIDE DEF tp
  <1> QED BY <1>1, <1>4, <1>5, <1>6, <1>7, PlacesByStrength

-------------------------------------------------------------------------------
(***************************************************************************)
(* The same pairs in another order.                                        *)
(***************************************************************************)
Apart(ps) == \A i, j \in DOMAIN ps : i # j => ps[i].totalPoints # ps[j].totalPoints

\* to[i] is where qs has the pair that ps has at i.
Reordered(ps, qs, to) ==
  /\ IsPaste(ps) /\ IsPaste(qs) /\ Len(qs) = Len(ps)
  /\ to \in [1..Len(ps) -> 1..Len(ps)]
  /\ \A i, j \in 1..Len(ps) : to[i] = to[j] => i = j
  /\ \A k \in 1..Len(ps) : \E i \in 1..Len(ps) : to[i] = k
  /\ \A i \in 1..Len(ps) : qs[to[i]] = ps[i]

LEMMA SameStrength ==
  ASSUME NEW ps, NEW qs, NEW to, Reordered(ps, qs, to), Apart(ps)
  PROVE  \A n \in 1..Len(ps) : byStrength(qs)[n] = to[byStrength(ps)[n]]
  <1> DEFINE L == Len(ps)
             ahead(s, i) == {j \in DOMAIN s : stronger(s, j, i)}
  <1>1. /\ L \in Nat /\ DOMAIN ps = 1..L /\ DOMAIN qs = 1..L /\ Len(qs) = L
        /\ to \in [1..L -> 1..L]
        /\ \A i, j \in 1..L : to[i] = to[j] => i = j
        /\ \A k \in 1..L : \E i \in 1..L : to[i] = k
        /\ \A i \in 1..L : qs[to[i]] = ps[i]
        /\ \A i \in 1..L : ps[i].totalPoints \in Nat
    BY StrongerIsOrder DEF Reordered, IsPaste
  <1>2. \A i, j \in 1..L : stronger(qs, to[i], to[j]) <=> stronger(ps, i, j)
    <2> SUFFICES ASSUME NEW i \in 1..L, NEW j \in 1..L
                 PROVE  stronger(qs, to[i], to[j]) <=> stronger(ps, i, j)
      OBVIOUS
    <2>1. CASE i = j
      BY <1>1, <2>1 DEF stronger
    <2>2. CASE i # j
      <3>1. ps[i].totalPoints # ps[j].totalPoints
        BY <1>1, <2>2 DEF Apart
      <3>2. qs[to[i]].totalPoints = ps[i].totalPoints /\ qs[to[j]].totalPoints = ps[j].totalPoints
        BY <1>1
      <3> QED BY <3>1, <3>2 DEF stronger
    <2> QED BY <2>1, <2>2
  <1>3. ASSUME NEW i \in 1..L
        PROVE  Cardinality(ahead(qs, to[i])) = Cardinality(ahead(ps, i))
    <2> DEFINE A == ahead(ps, i)
               B == ahead(qs, to[i])
               f == [j \in A |-> to[j]]
    <2>0. IsFiniteSet(1..L)
      <3>1. L \in Nat
        BY <1>1
      <3> HIDE DEF L
      <3> QED BY <3>1, FirstNumbers
    <2>1. A \in SUBSET (1..L) /\ IsFiniteSet(1..L)
      BY <1>1, <2>0
    <2>2. IsFiniteSet(A)
      BY <2>1, FS_Subset
    <2>3. \A j \in A : to[j] \in B
      BY <1>1, <1>2, <1>3
    <2>4. ASSUME NEW k \in B PROVE \E j \in A : to[j] = k
      <3>1. k \in 1..L /\ stronger(qs, k, to[i])
        BY <1>1
      <3>2. PICK j \in 1..L : to[j] = k
        BY <1>1, <3>1
      <3>3. stronger(ps, j, i)
        BY <1>2, <3>1, <3>2
      <3> QED BY <1>1, <3>2, <3>3
    <2>5. \A j, k \in A : to[j] = to[k] => j = k
      BY <1>1, <2>1
    <2> HIDE DEF A, B
    <2>6. /\ f \in [A -> B] /\ \A j, k \in A : f[j] = f[k] => j = k
          /\ \A k \in B : \E j \in A : f[j] = k
      BY <2>3, <2>4, <2>5
    <2> HIDE DEF f
    <2> QED BY <2>2, <2>6, OneForOne DEF A, B
  <1>4. /\ \A n \in 1..L : byStrength(ps)[n] \in 1..L /\ Cardinality(ahead(ps, byStrength(ps)[n])) = n - 1
        /\ \A n \in 1..L : byStrength(qs)[n] \in 1..L /\ Cardinality(ahead(qs, byStrength(qs)[n])) = n - 1
        /\ \A i \in 1..L : \E n \in 1..L : byStrength(ps)[n] = i
    <2>1. Strong(ps) /\ Strong(qs)
      BY StrengthOrder DEF Reordered
    <2>2. \A n \in 1..L : byStrength(ps)[n] \in 1..L /\ Cardinality(ahead(ps, byStrength(ps)[n])) = n - 1
      BY <2>1 DEF Strong
    <2>3. \A n \in 1..L : byStrength(qs)[n] \in 1..L /\ Cardinality(ahead(qs, byStrength(qs)[n])) = n - 1
      BY <1>1, <2>1 DEF Strong
    <2>4. \A i \in 1..L : \E n \in 1..L : byStrength(ps)[n] = i
      BY <2>1 DEF Strong
    <2> QED BY <2>2, <2>3, <2>4
  <1> HIDE DEF ahead
  <1>5. ASSUME NEW n \in 1..L
        PROVE  byStrength(qs)[n] = to[byStrength(ps)[n]]
    <2>1. PICK i \in 1..L : to[i] = byStrength(qs)[n]
      BY <1>1, <1>4
    <2>2. PICK m \in 1..L : byStrength(ps)[m] = i
      BY <1>4
    <2>3. Cardinality(ahead(ps, i)) = n - 1 /\ Cardinality(ahead(ps, i)) = m - 1
      BY <1>3, <1>4, <2>1, <2>2
    <2>4. m = n
      BY <1>1, <2>3
    <2> QED BY <2>1, <2>2, <2>4
  <1> QED BY <1>5

\* Where a pair is grouped does not depend on the order of the paste.
LEMMA SameGroups ==
  ASSUME NEW ps, NEW qs, NEW to, Reordered(ps, qs, to), Apart(ps)
  PROVE  /\ labelled(qs) = DOMAIN qs <=> labelled(ps) = DOMAIN ps
         /\ labelled(qs) = {} <=> labelled(ps) = {}
         /\ DOMAIN grouped(qs) = DOMAIN grouped(ps)
         /\ \A g \in DOMAIN grouped(ps) :
              /\ grouped(qs)[g].label = grouped(ps)[g].label
              /\ Len(Members(qs, g)) = Len(Members(ps, g))
              /\ DOMAIN Members(qs, g) = DOMAIN Members(ps, g)
              /\ \A m \in DOMAIN Members(ps, g) : Place(qs, g, m) = Place(ps, g, m)
  <1> DEFINE L == Len(ps)
  <1>1. /\ L \in Nat /\ DOMAIN ps = 1..L /\ DOMAIN qs = 1..L /\ Len(qs) = L
        /\ IsPaste(ps) /\ IsPaste(qs)
        /\ \A i \in 1..L : to[i] \in 1..L /\ qs[to[i]] = ps[i]
        /\ \A k \in 1..L : \E i \in 1..L : to[i] = k
    <2>1. IsPaste(ps) /\ IsPaste(qs) /\ Len(qs) = L
      BY DEF Reordered
    <2>2. L \in Nat /\ DOMAIN ps = 1..L /\ DOMAIN qs = 1..L
      BY <2>1 DEF IsPaste
    <2>3. \A i \in 1..L : to[i] \in 1..L /\ qs[to[i]] = ps[i]
      BY DEF Reordered
    <2>4. \A k \in 1..L : \E i \in 1..L : to[i] = k
      BY DEF Reordered
    <2> QED BY <2>1, <2>2, <2>3, <2>4
  <1>2. (labelled(qs) = DOMAIN qs <=> labelled(ps) = DOMAIN ps) /\ (labelled(qs) = {} <=> labelled(ps) = {})
    <2>1. \A i \in 1..L : to[i] \in labelled(qs) <=> i \in labelled(ps)
      BY <1>1 DEF labelled
    <2>2. labelled(ps) \subseteq 1..L /\ labelled(qs) \subseteq 1..L
      BY <1>1 DEF labelled
    <2> QED BY <1>1, <2>1, <2>2
  <1>3. \A n \in 1..L : LabelAt(qs, n) = LabelAt(ps, n)
    <2>1. \A n \in 1..L : byStrength(ps)[n] \in 1..L
      BY <1>1, StrengthOrder DEF Strong
    <2>2. \A n \in 1..L : byStrength(qs)[n] = to[byStrength(ps)[n]]
      BY SameStrength
    <2>3. \A n \in 1..L : qs[byStrength(qs)[n]] = ps[byStrength(ps)[n]]
      BY <1>1, <2>1, <2>2
    <2> QED BY <2>3 DEF LabelAt
  <1>4. CASE labelled(ps) = DOMAIN ps
    <2>1. Heads(qs) = Heads(ps)
      <3>1. \A n \in 1..L : \A m \in 1..(n - 1) : m \in 1..L
        BY <1>1
      <3>2. \A n \in 1..L : (\A m \in 1..(n - 1) : LabelAt(qs, m) # LabelAt(qs, n))
                             <=> (\A m \in 1..(n - 1) : LabelAt(ps, m) # LabelAt(ps, n))
        BY <1>3, <3>1
      <3> QED BY <1>1, <3>2 DEF Heads
    <2>2. \A l : PlacesOf(qs, l) = PlacesOf(ps, l)
      BY <1>1, <1>3 DEF PlacesOf
    <2>3. InTurn(Heads(ps)) /\ DOMAIN grouped(ps) = 1..Cardinality(Heads(ps))
          /\ DOMAIN grouped(qs) = 1..Cardinality(Heads(ps))
      BY <1>1, <1>2, <1>4, <2>1, ByLabels
    <2>4. ASSUME NEW g \in DOMAIN grouped(ps)
          PROVE  /\ grouped(qs)[g].label = grouped(ps)[g].label
                 /\ Len(Members(qs, g)) = Len(Members(ps, g))
                 /\ DOMAIN Members(qs, g) = DOMAIN Members(ps, g)
                 /\ \A m \in DOMAIN Members(ps, g) : Place(qs, g, m) = Place(ps, g, m)
      <3>1. PICK l : l = HeadLabel(ps, g)
        OBVIOUS
      <3>2. HeadLabel(qs, g) = l
        <4>1. nth(Heads(ps), g) \in 1..L
          BY <2>3 DEF InTurn, Heads
        <4> QED BY <1>3, <2>1, <3>1, <4>1 DEF HeadLabel
      <3>3. PICK S : S = PlacesOf(ps, l)
        OBVIOUS
      <3>4. /\ grouped(ps)[g].label = l /\ Len(Members(ps, g)) = Cardinality(S)
            /\ DOMAIN Members(ps, g) = 1..Cardinality(S)
            /\ \A m \in 1..Cardinality(S) : Place(ps, g, m) = nth(S, m)
        BY <1>1, <1>4, <2>3, <3>1, <3>3, ByLabels
      <3>5. g \in 1..Cardinality(Heads(qs)) /\ S = PlacesOf(qs, HeadLabel(qs, g))
        BY <2>1, <2>2, <2>3, <3>2, <3>3
      <3>6. /\ grouped(qs)[g].label = l /\ Len(Members(qs, g)) = Cardinality(S)
            /\ DOMAIN Members(qs, g) = 1..Cardinality(S)
            /\ \A m \in 1..Cardinality(S) : Place(qs, g, m) = nth(S, m)
        BY <1>1, <1>2, <1>4, <3>2, <3>5, ByLabels
      <3> QED BY <3>4, <3>6
    <2> QED BY <1>2, <2>3, <2>4
  <1>5. CASE labelled(ps) # DOMAIN ps
    <2> DEFINE k == (L + MAX_GROUP_SIZE - 1) \div MAX_GROUP_SIZE
    <2>0. labelled(qs) # DOMAIN qs
      BY <1>2, <1>5
    <2>1. DOMAIN grouped(ps) = 1..k
          /\ \A g \in 1..k :
               /\ grouped(ps)[g].label = g /\ DOMAIN Members(ps, g) = 1..Len(Members(ps, g))
               /\ Len(Members(ps, g)) = IF g * MAX_GROUP_SIZE < L THEN MAX_GROUP_SIZE
                                        ELSE L - (g - 1) * MAX_GROUP_SIZE
      BY <1>1, <1>5, ByChunks
    <2>2. DOMAIN grouped(qs) = 1..k
          /\ \A g \in 1..k :
               /\ grouped(qs)[g].label = g /\ DOMAIN Members(qs, g) = 1..Len(Members(qs, g))
               /\ Len(Members(qs, g)) = IF g * MAX_GROUP_SIZE < L THEN MAX_GROUP_SIZE
                                        ELSE L - (g - 1) * MAX_GROUP_SIZE
      <3> HIDE DEF L
      <3>1. Len(qs) = L /\ IsPaste(qs) /\ labelled(qs) # DOMAIN qs
        BY <1>1, <2>0
      <3> QED BY <3>1, ByChunks
    <2>3. \A g, m : Place(qs, g, m) = Place(ps, g, m)
      BY <1>2, <1>5 DEF Place
    <2> HIDE DEF k
    <2> QED BY <1>2, <2>1, <2>2, <2>3
  <1> QED BY <1>4, <1>5

\* Each name is where its pair went.
LEMMA NameFollows ==
  ASSUME NEW ps, NEW qs, NEW to, Reordered(ps, qs, to), NEW i \in 1..Len(ps), NEW slot \in {1, 2}
  PROVE  /\ Flat(i, slot) \in 1..(2 * Len(ps)) /\ Flat(to[i], slot) \in 1..(2 * Len(ps))
         /\ namesOf(qs)[Flat(to[i], slot)] = namesOf(ps)[Flat(i, slot)]
  <1>1. Len(ps) \in Nat /\ Len(qs) = Len(ps)
    BY DEF Reordered, IsPaste
  <1>2. NamesIn(ps) /\ NamesIn(qs)
    BY <1>1, NamesInOrder
  <1>3. PICK j \in 1..Len(ps) : j = to[i] /\ qs[j] = ps[i]
    BY DEF Reordered
  <1>4. Flat(i, slot) \in 1..(2 * Len(ps)) /\ namesOf(ps)[Flat(i, slot)] = ps[i].players[slot].name
    BY <1>2 DEF NamesIn
  <1>5. Flat(j, slot) \in 1..(2 * Len(ps)) /\ namesOf(qs)[Flat(j, slot)] = qs[j].players[slot].name
    BY <1>1, <1>2 DEF NamesIn
  <1> QED BY <1>3, <1>4, <1>5

LEMMA NameComesFrom ==
  ASSUME NEW ps, NEW qs, NEW to, Reordered(ps, qs, to), NEW k \in 1..(2 * Len(ps))
  PROVE  /\ \E i \in 1..Len(ps) : \E slot \in {1, 2} : k = Flat(i, slot)
         /\ \E i \in 1..Len(ps) : \E slot \in {1, 2} : k = Flat(to[i], slot)
  <1>1. Len(ps) \in Nat
    BY DEF Reordered, IsPaste
  <1>2. PICK j \in 1..Len(ps), slot \in {1, 2} : k = Flat(j, slot)
    BY <1>1, NamesInOrder DEF NamesIn
  <1>3. PICK i \in 1..Len(ps) : to[i] = j
    BY DEF Reordered
  <1> QED BY <1>2, <1>3

LEMMA SameKeys ==
  ASSUME NEW ps, NEW qs, NEW to, Reordered(ps, qs, to)
  PROVE  matchKeys(qs) = matchKeys(ps)
  <1> DEFINE all == 1..(2 * Len(ps))
             names(s) == namesOf(s)
  <1>1. Len(ps) \in Nat /\ Len(qs) = Len(ps)
    BY DEF Reordered, IsPaste
  <1>2. DOMAIN names(ps) = all /\ DOMAIN names(qs) = all
    BY <1>1, NamesInOrder DEF NamesIn
  <1>3. ASSUME NEW k \in all PROVE \E m \in all : names(ps)[m] = names(qs)[k]
    <2>1. PICK i \in 1..Len(ps) : \E slot \in {1, 2} : k = Flat(to[i], slot)
      BY NameComesFrom
    <2>2. PICK slot \in {1, 2} : k = Flat(to[i], slot)
      BY <2>1
    <2>3. Flat(i, slot) \in all /\ names(qs)[Flat(to[i], slot)] = names(ps)[Flat(i, slot)]
      BY NameFollows
    <2> HIDE DEF all, names
    <2> QED BY <2>2, <2>3
  <1>4. ASSUME NEW k \in all PROVE \E m \in all : names(qs)[m] = names(ps)[k]
    <2>1. PICK i \in 1..Len(ps) : \E slot \in {1, 2} : k = Flat(i, slot)
      BY NameComesFrom
    <2>2. PICK slot \in {1, 2} : k = Flat(i, slot)
      BY <2>1
    <2>3. Flat(to[i], slot) \in all /\ names(qs)[Flat(to[i], slot)] = names(ps)[Flat(i, slot)]
      BY NameFollows
    <2> HIDE DEF all, names
    <2> QED BY <2>2, <2>3
  <1>5. \A s : matchKeys(s) = {MatchKey[names(s)[i]] : i \in DOMAIN names(s)} \ {""}
    BY DEF matchKeys
  <1> HIDE DEF all, names
  <1>6. {MatchKey[names(qs)[i]] : i \in all} = {MatchKey[names(ps)[i]] : i \in all}
    BY <1>3, <1>4
  <1> QED BY <1>2, <1>5, <1>6

LEMMA NamesDiffer ==
  ASSUME NEW ps, NEW qs, NEW to, Reordered(ps, qs, to),
         NEW i \in 1..Len(ps), NEW j \in 1..Len(ps), NEW m \in {1, 2}, NEW n \in {1, 2}
  PROVE  Flat(i, m) = Flat(j, n) <=> Flat(to[i], m) = Flat(to[j], n)
  <1>1. Len(ps) \in Nat
    BY DEF Reordered, IsPaste
  <1>2. PICK a \in 1..Len(ps) : a = to[i]
    BY DEF Reordered
  <1>3. PICK b \in 1..Len(ps) : b = to[j]
    BY DEF Reordered
  <1>4. to[i] = to[j] <=> i = j
    BY DEF Reordered
  <1>5. (Flat(i, m) = Flat(j, n) <=> i = j /\ m = n) /\ (Flat(a, m) = Flat(b, n) <=> a = b /\ m = n)
    BY <1>1 DEF Flat
  <1> QED BY <1>2, <1>3, <1>4, <1>5

LEMMA SameCode ==
  ASSUME NEW ps, NEW qs, NEW to, Reordered(ps, qs, to), Apart(ps), NEW s, NEW t, NEW players
  PROVE  /\ CodeOf(qs, s, t, players) = CodeOf(ps, s, t, players)
         /\ NamesKnown(qs, players) <=> NamesKnown(ps, players)
  <1> DEFINE L == Len(ps)
             id(name) == IdFor(name, players)
             is(name) == MatchKey[name] \in Keys(players)
  <1>1. /\ L \in Nat /\ DOMAIN ps = 1..L /\ DOMAIN qs = 1..L /\ Len(qs) = L
        /\ IsPaste(ps) /\ IsPaste(qs)
    BY DEF Reordered, IsPaste
  <1>2. /\ \A i \in 1..L : to[i] \in 1..L /\ qs[to[i]] = ps[i]
        /\ \A k \in 1..L : \E i \in 1..L : to[i] = k
    BY DEF Reordered
  <1>3. NamesKnown(qs, players) <=> NamesKnown(ps, players)
    <2>1. /\ NamesKnown(qs, players) <=> \A k \in 1..(2 * L) : is(namesOf(qs)[k])
          /\ NamesKnown(ps, players) <=> \A k \in 1..(2 * L) : is(namesOf(ps)[k])
      BY <1>1 DEF NamesKnown
    <2> HIDE DEF is
    <2>2. ASSUME \A k \in 1..(2 * L) : is(namesOf(qs)[k]), NEW k \in 1..(2 * L)
          PROVE  is(namesOf(ps)[k])
      <3>0. PICK i \in 1..L : \E slot \in {1, 2} : k = Flat(i, slot)
        BY NameComesFrom
      <3>1. PICK slot \in {1, 2} : k = Flat(i, slot)
        BY <3>0
      <3>2. Flat(to[i], slot) \in 1..(2 * L)
            /\ namesOf(qs)[Flat(to[i], slot)] = namesOf(ps)[Flat(i, slot)]
        BY NameFollows
      <3> QED BY <2>2, <3>1, <3>2
    <2>3. ASSUME \A k \in 1..(2 * L) : is(namesOf(ps)[k]), NEW k \in 1..(2 * L)
          PROVE  is(namesOf(qs)[k])
      <3>0. PICK i \in 1..L : \E slot \in {1, 2} : k = Flat(to[i], slot)
        BY NameComesFrom
      <3>1. PICK slot \in {1, 2} : k = Flat(to[i], slot)
        BY <3>0
      <3>2. Flat(i, slot) \in 1..(2 * L)
            /\ namesOf(qs)[Flat(to[i], slot)] = namesOf(ps)[Flat(i, slot)]
        BY NameFollows
      <3> QED BY <2>3, <3>1, <3>2
    <2> QED BY <2>1, <2>2, <2>3
  <1>4. NamesApart(qs, players) <=> NamesApart(ps, players)
    <2> DEFINE same(names, j, k) == id(names[j]) = id(names[k])
    <2>1. /\ NamesApart(qs, players) <=>
               \A j, k \in 1..(2 * L) : same(namesOf(qs), j, k) => j = k
          /\ NamesApart(ps, players) <=>
               \A j, k \in 1..(2 * L) : same(namesOf(ps), j, k) => j = k
      BY <1>1 DEF NamesApart
    <2>2. ASSUME NEW i \in 1..L, NEW j \in 1..L, NEW m \in {1, 2}, NEW n \in {1, 2}
          PROVE  /\ Flat(i, m) \in 1..(2 * L) /\ Flat(to[i], m) \in 1..(2 * L)
                 /\ Flat(j, n) \in 1..(2 * L) /\ Flat(to[j], n) \in 1..(2 * L)
                 /\ same(namesOf(qs), Flat(to[i], m), Flat(to[j], n))
                      <=> same(namesOf(ps), Flat(i, m), Flat(j, n))
                 /\ Flat(i, m) = Flat(j, n) <=> Flat(to[i], m) = Flat(to[j], n)
      <3>1. /\ Flat(i, m) \in 1..(2 * L) /\ Flat(to[i], m) \in 1..(2 * L)
            /\ namesOf(qs)[Flat(to[i], m)] = namesOf(ps)[Flat(i, m)]
        BY NameFollows
      <3>2. /\ Flat(j, n) \in 1..(2 * L) /\ Flat(to[j], n) \in 1..(2 * L)
            /\ namesOf(qs)[Flat(to[j], n)] = namesOf(ps)[Flat(j, n)]
        BY NameFollows
      <3>3. Flat(i, m) = Flat(j, n) <=> Flat(to[i], m) = Flat(to[j], n)
        BY NamesDiffer
      <3> HIDE DEF id
      <3> QED BY <3>1, <3>2, <3>3
    <2> HIDE DEF same
    <2>3. ASSUME \A j, k \in 1..(2 * L) : same(namesOf(qs), j, k) => j = k,
                 NEW a \in 1..(2 * L), NEW b \in 1..(2 * L), same(namesOf(ps), a, b)
          PROVE  a = b
      <3>1. PICK i \in 1..L : \E m \in {1, 2} : a = Flat(i, m)
        BY NameComesFrom
      <3>2. PICK m \in {1, 2} : a = Flat(i, m)
        BY <3>1
      <3>3. PICK j \in 1..L : \E n \in {1, 2} : b = Flat(j, n)
        BY NameComesFrom
      <3>4. PICK n \in {1, 2} : b = Flat(j, n)
        BY <3>3
      <3> QED BY <2>2, <2>3, <3>2, <3>4
    <2>4. ASSUME \A j, k \in 1..(2 * L) : same(namesOf(ps), j, k) => j = k,
                 NEW a \in 1..(2 * L), NEW b \in 1..(2 * L), same(namesOf(qs), a, b)
          PROVE  a = b
      <3>1. PICK i \in 1..L : \E m \in {1, 2} : a = Flat(to[i], m)
        BY NameComesFrom
      <3>2. PICK m \in {1, 2} : a = Flat(to[i], m)
        BY <3>1
      <3>3. PICK j \in 1..L : \E n \in {1, 2} : b = Flat(to[j], n)
        BY NameComesFrom
      <3>4. PICK n \in {1, 2} : b = Flat(to[j], n)
        BY <3>3
      <3> QED BY <2>2, <2>4, <3>2, <3>4
    <2> QED BY <2>1, <2>3, <2>4
  <1>5. PointsRight(qs) <=> PointsRight(ps)
    <2> DEFINE right(p) == p.totalPoints = p.players[1].points + p.players[2].points
    <2>1. (PointsRight(qs) <=> \A k \in 1..L : right(qs[k])) /\ (PointsRight(ps) <=> \A i \in 1..L : right(ps[i]))
      BY <1>1 DEF PointsRight
    <2> HIDE DEF right
    <2> QED BY <1>2, <2>1
  <1>6. SizesRight(qs) <=> SizesRight(ps)
    BY SameGroups DEF SizesRight, Members
  <1>7. Malformed(qs, s, t) <=> Malformed(ps, s, t)
    BY SameGroups DEF Malformed
  <1> QED BY <1>3, <1>4, <1>5, <1>6, <1>7 DEF CodeOf

LEMMA SamePlayers ==
  ASSUME NEW ps, NEW qs, NEW to, Reordered(ps, qs, to), NEW players,
         NamesKnown(ps, players), NamesKnown(qs, players), NEW i \in 1..Len(ps)
  PROVE  placed(qs, players, to[i]).members = placed(ps, players, i).members
  <1>1. Len(ps) \in Nat /\ Len(qs) = Len(ps) /\ to[i] \in 1..Len(ps)
    <2>1. Len(ps) \in Nat /\ Len(qs) = Len(ps)
      BY DEF Reordered, IsPaste
    <2>2. to[i] \in 1..Len(ps)
      BY DEF Reordered
    <2> QED BY <2>1, <2>2
  <1>2. \A slot \in {1, 2} :
          resolved(qs, players)[Flat(to[i], slot)] = resolved(ps, players)[Flat(i, slot)]
    <2> SUFFICES ASSUME NEW slot \in {1, 2}
                 PROVE  resolved(qs, players)[Flat(to[i], slot)] = resolved(ps, players)[Flat(i, slot)]
      OBVIOUS
    <2>1. /\ Flat(i, slot) \in 1..(2 * Len(ps)) /\ Flat(to[i], slot) \in 1..(2 * Len(ps))
          /\ namesOf(qs)[Flat(to[i], slot)] = namesOf(ps)[Flat(i, slot)]
      BY NameFollows
    <2>2. resolved(ps, players)[Flat(i, slot)] = IdFor(namesOf(ps)[Flat(i, slot)], players)
      BY <1>1, <2>1, AllResolved
    <2>3. resolved(qs, players)[Flat(to[i], slot)] = IdFor(namesOf(qs)[Flat(to[i], slot)], players)
      BY <1>1, <2>1, AllResolved
    <2> QED BY <2>1, <2>2, <2>3
  <1>3. \A j \in 1..Len(ps) : Flat(j, 1) = 2 * j - 1 /\ Flat(j, 2) = 2 * j
    BY DEF Flat
  <1> QED BY <1>1, <1>2, <1>3 DEF placed

LEMMA SameContent ==
  ASSUME NEW ps, NEW qs, NEW to, Reordered(ps, qs, to), Apart(ps), NEW s, NEW t, NEW players
  PROVE  /\ deriveLineup(qs, s, t, players).code = deriveLineup(ps, s, t, players).code
         /\ Content(deriveLineup(qs, s, t, players)) = Content(deriveLineup(ps, s, t, players))
  <1> DEFINE P == deriveLineup(ps, s, t, players)
             Q == deriveLineup(qs, s, t, players)
  <1>1. IsPaste(ps) /\ IsPaste(qs) /\ Len(ps) \in Nat /\ Len(qs) = Len(ps)
    BY DEF Reordered, IsPaste
  <1>2. /\ P.code = CodeOf(ps, s, t, players) /\ Q.code = P.code
        /\ P.groups = IF P.code = "OK" THEN groupsOf(ps, players) ELSE <<>>
        /\ Q.groups = IF P.code = "OK" THEN groupsOf(qs, players) ELSE <<>>
    BY <1>1, CodeIs, SameCode
  <1> HIDE DEF P, Q
  <1>3. CASE P.code # "OK"
    <2>1. Q.groups = P.groups
      BY <1>2, <1>3
    <2>2. Content(Q) = Content(P)
      BY <2>1 DEF Content
    <2> QED BY <1>2, <2>2 DEF P, Q
  <1>4. CASE P.code = "OK"
    <2>1. NamesKnown(ps, players) /\ NamesKnown(qs, players)
      BY <1>2, <1>4, SameCode DEF CodeOf
    <2> DEFINE G == groupsOf(ps, players)
               H == groupsOf(qs, players)
    <2>2. P.groups = G /\ Q.groups = H
      BY <1>2, <1>4
    <2>3. GroupsAre(ps, players) /\ GroupsAre(qs, players)
      BY <1>1, GroupsDerived
    <2>4. DOMAIN H = DOMAIN G
      BY <2>3, SameGroups DEF GroupsAre
    <2>5. ASSUME NEW g \in DOMAIN G
          PROVE  /\ H[g].label = G[g].label /\ DOMAIN H[g].pairs = DOMAIN G[g].pairs
                 /\ \A n \in DOMAIN G[g].pairs : H[g].pairs[n].members = G[g].pairs[n].members
      <3>1. /\ g \in DOMAIN grouped(ps) /\ g \in DOMAIN grouped(qs)
            /\ grouped(qs)[g].label = grouped(ps)[g].label
            /\ DOMAIN Members(qs, g) = DOMAIN Members(ps, g)
            /\ \A n \in DOMAIN Members(ps, g) : Place(qs, g, n) = Place(ps, g, n)
        BY <2>3, SameGroups DEF GroupsAre
      <3>2. /\ G[g].label = grouped(ps)[g].label /\ DOMAIN G[g].pairs = DOMAIN Members(ps, g)
            /\ \A n \in DOMAIN Members(ps, g) :
                 G[g].pairs[n] = placed(ps, players, byStrength(ps)[Place(ps, g, n)])
        BY <2>3, <3>1 DEF GroupsAre
      <3>3. /\ H[g].label = grouped(qs)[g].label /\ DOMAIN H[g].pairs = DOMAIN Members(qs, g)
            /\ \A n \in DOMAIN Members(qs, g) :
                 H[g].pairs[n] = placed(qs, players, byStrength(qs)[Place(qs, g, n)])
        BY <2>3, <3>1 DEF GroupsAre
      <3> HIDE DEF G, H
      <3>4. ASSUME NEW n \in DOMAIN Members(ps, g)
            PROVE  H[g].pairs[n].members = G[g].pairs[n].members
        <4>1. PICK p \in 1..Len(ps) : p = Place(ps, g, n)
          BY <1>1, <3>1, AllFilled DEF Filled
        <4>2. PICK i \in 1..Len(ps) : i = byStrength(ps)[p]
          BY <1>1, StrengthOrder DEF Strong
        <4>3. byStrength(qs)[p] = to[i]
          BY <4>2, SameStrength
        <4>4. G[g].pairs[n] = placed(ps, players, i) /\ H[g].pairs[n] = placed(qs, players, to[i])
          BY <3>1, <3>2, <3>3, <4>1, <4>2, <4>3
        <4> QED BY <2>1, <4>4, SamePlayers
      <3> QED BY <3>1, <3>2, <3>3, <3>4
    <2> HIDE DEF G, H
    <2> DEFINE content(K) == [g \in DOMAIN K |->
                               [label |-> K[g].label,
                                pairs |-> [n \in DOMAIN K[g].pairs |-> K[g].pairs[n].members]]]
    <2>6. Content(P) = content(G) /\ Content(Q) = content(H)
      BY <2>2 DEF Content
    <2>7. \A g \in DOMAIN G : [n \in DOMAIN H[g].pairs |-> H[g].pairs[n].members]
                              = [n \in DOMAIN G[g].pairs |-> G[g].pairs[n].members]
      BY <2>5
    <2>8. content(H) = content(G)
      BY <2>4, <2>5, <2>7
    <2> HIDE DEF content
    <2> QED BY <1>2, <2>6, <2>8 DEF P, Q
  <1> QED BY <1>3, <1>4

LEMMA ReverseReorders ==
  ASSUME NEW ps, IsPaste(ps)
  PROVE  Reordered(ps, Reverse(ps), [i \in 1..Len(ps) |-> Len(ps) + 1 - i])
  <1> DEFINE L == Len(ps)
             to == [i \in 1..L |-> L + 1 - i]
  <1>1. L \in Nat /\ ps = [i \in 1..L |-> ps[i]] /\ \A i \in 1..L : ps[i].totalPoints \in Nat
    BY DEF IsPaste
  <1>2. Reverse(ps) = [i \in 1..L |-> ps[(L - i) + 1]]
    BY DEF Reverse
  <1>3. \A i \in 1..L : (L - i) + 1 \in 1..L /\ L + 1 - i \in 1..L
    BY <1>1
  <1>4. IsPaste(Reverse(ps)) /\ Len(Reverse(ps)) = L
    BY <1>1, <1>2, <1>3 DEF IsPaste
  <1>5. /\ to \in [1..L -> 1..L] /\ \A i, j \in 1..L : to[i] = to[j] => i = j
        /\ \A k \in 1..L : to[L + 1 - k] = k
    BY <1>1, <1>3
  <1>6. \A k \in 1..L : \E i \in 1..L : to[i] = k
    BY <1>3, <1>5
  <1>7. \A i \in 1..L : Reverse(ps)[to[i]] = ps[i]
    <2> SUFFICES ASSUME NEW i \in 1..L PROVE Reverse(ps)[L + 1 - i] = ps[i]
      OBVIOUS
    <2>1. (L - (L + 1 - i)) + 1 = i
      BY <1>1
    <2> QED BY <1>2, <1>3, <2>1
  <1> QED BY <1>4, <1>5, <1>6, <1>7 DEF Reordered

LEMMA RotationReorders ==
  ASSUME NEW ps, IsPaste(ps), Len(ps) > 0
  PROVE  Reordered(ps, Append(Tail(ps), Head(ps)),
                   [i \in 1..Len(ps) |-> IF i = 1 THEN Len(ps) ELSE i - 1])
  <1> DEFINE L == Len(ps)
             to == [i \in 1..L |-> IF i = 1 THEN L ELSE i - 1]
             qs == Append(Tail(ps), Head(ps))
             P == {ps[i] : i \in 1..L}
  <1>1. L \in Nat \ {0} /\ ps \in Seq(P) /\ ps # <<>> /\ \A p \in P : p.totalPoints \in Nat
    BY DEF IsPaste
  <1> HIDE DEF P
  <1>2. Tail(ps) \in Seq(P) /\ Head(ps) \in P /\ Len(Tail(ps)) = L - 1 /\ Head(ps) = ps[1]
        /\ \A i \in 1..(L - 1) : Tail(ps)[i] = ps[i + 1]
    BY <1>1
  <1>3. qs \in Seq(P) /\ Len(qs) = L /\ qs[L] = ps[1] /\ \A i \in 1..(L - 1) : qs[i] = ps[i + 1]
    BY <1>1, <1>2
  <1>8. IsPaste(qs)
    <2> HIDE DEF qs
    <2>1. Len(qs) \in Nat /\ qs = [i \in 1..Len(qs) |-> qs[i]] /\ \A i \in 1..Len(qs) : qs[i] \in P
      BY <1>3
    <2> QED BY <1>1, <2>1 DEF IsPaste
  <1> HIDE DEF qs
  <1>4. to \in [1..L -> 1..L] /\ \A i, j \in 1..L : to[i] = to[j] => i = j
    BY <1>1
  <1>5. ASSUME NEW k \in 1..L PROVE \E i \in 1..L : to[i] = k
    <2>1. CASE k = L
      BY <1>1, <2>1
    <2>2. CASE k # L
      <3>1. k + 1 \in 1..L /\ k + 1 # 1 /\ (k + 1) - 1 = k
        BY <1>1, <2>2
      <3> QED BY <3>1
    <2> QED BY <2>1, <2>2
  <1>6. ASSUME NEW i \in 1..L PROVE qs[to[i]] = ps[i]
    <2>1. CASE i = 1
      BY <1>3, <2>1
    <2>2. CASE i # 1
      <3>1. i - 1 \in 1..(L - 1) /\ (i - 1) + 1 = i /\ to[i] = i - 1
        BY <1>1, <2>2
      <3> QED BY <1>3, <3>1
    <2> QED BY <2>1, <2>2
  <1> HIDE DEF to
  <1>7. Reordered(ps, qs, to)
    BY <1>3, <1>4, <1>5, <1>6, <1>8 DEF Reordered
  <1> QED BY <1>7 DEF qs, to

(***************************************************************************)
(* The groups are read from the top, and the order of the paste is of no   *)
(* account: reversed or rotated, it is refused alike or makes the same     *)
(* groups of the same players.                                             *)
(***************************************************************************)
THEOREM StrengthDecides == PasteSpec => []GroupedByStrength
  <1>1. PasteInv => OrderOfPasteIrrelevant
    <2> SUFFICES ASSUME PasteInv, Payload, Apart(pairs)
                 PROVE  OrderOfPasteIrrelevant
      BY DEF OrderOfPasteIrrelevant, Apart
    <2>1. IsPaste(pairs) /\ Len(pairs) > 0
      BY LineupConstants DEF PasteInv, Payload, IsPaste
    <2>2. ASSUME NEW qs, NEW to, Reordered(pairs, qs, to)
          PROVE  /\ deriveFromPayload(qs, start, title, known).code = Derived.code
                 /\ Content(deriveFromPayload(qs, start, title, known)) = Content(Derived)
      BY <2>2, SameContent, SameKeys DEF Derived, deriveFromPayload
    <2>3. /\ deriveFromPayload(Reverse(pairs), start, title, known).code = Derived.code
          /\ Content(deriveFromPayload(Reverse(pairs), start, title, known)) = Content(Derived)
      BY <2>1, <2>2, ReverseReorders
    <2>4. LET rotated == deriveFromPayload(Append(Tail(pairs), Head(pairs)), start, title, known)
          IN  rotated.code = Derived.code /\ Content(rotated) = Content(Derived)
      BY <2>1, <2>2, RotationReorders
    <2> QED BY <2>3, <2>4 DEF OrderOfPasteIrrelevant
  <1>2. PasteInv => GroupedByStrength
    BY <1>1, AcceptedStrongestFirst DEF GroupedByStrength
  <1> QED BY <1>2, PasteInvHolds, PTL
-------------------------------------------------------------------------------
(***************************************************************************)
(* The organiser's page: what is published is what was previewed, and the  *)
(* payload is the draft.                                                   *)
(***************************************************************************)
Fields == {"signedIn", "mode", "target", "open", "payload", "draft", "preview", "busy",
           "request", "uploading", "loads", "late", "typed"}

\* The page is a record of its fields, whatever they hold.
Shape == page = [f \in Fields |-> page[f]]

\* A preview, or the request of one, is still of what is on the page: the payload may have
\* been discarded since, by the answer to an image, and the tournament may have closed.
Matches(s) ==
  /\ page.late \/ page.payload \in {s.payload, Null}
  /\ s.mode = page.mode
  /\ page.mode = "replace" => page.target \in {s.slug, Null}

\* The preview on display while the next one is on its way may be of another payload.
PageInv ==
  /\ Shape
  /\ page.preview # Null /\ page.busy # "preview" => Matches(page.preview)
  /\ page.busy = "preview" => Matches(page.request)
  /\ ConfirmedWasPreviewed

-------------------------------------------------------------------------------
LEMMA PageInitInv ==
  ASSUME AdminInit
  PROVE  PageInv
  BY DEF AdminInit, FreshPage, PageInv, Shape, Fields, ConfirmedWasPreviewed, Publishing

\* What changes neither the payload, the choices nor a request leaves PageInv alone.
LEMMA QuietPageInv ==
  ASSUME PageInv, Shape',
         UNCHANGED <<page.mode, page.payload, page.request, page.late>>,
         page'.target \in {page.target, Null},
         page'.preview \in {page.preview, Null},
         \/ page'.busy = page.busy
         \/ page.busy # "preview" /\ page'.busy \notin {"preview", "publish"}
  PROVE  PageInv'
  BY DEF PageInv, Matches, ConfirmedWasPreviewed, Publishing, AsShown

LEMMA SessionInv ==
  ASSUME PageInv, SignIn \/ SignInAnswered \/ Leave
  PROVE  PageInv'
  <1>1. CASE Leave
    BY <1>1 DEF Leave, FreshPage, PageInv, Shape, Fields, ConfirmedWasPreviewed, Publishing
  <1>2. CASE SignIn
    <2>1. Shape'
      BY <1>2 DEF SignIn, PageInv, Shape, Fields
    <2> QED BY <1>2, <2>1, QuietPageInv DEF SignIn, PageInv, Shape, Fields
  <1>3. CASE SignInAnswered
    <2>1. Shape'
      BY <1>3 DEF SignInAnswered, PageInv, Shape, Fields
    <2> QED BY <1>3, <2>1, QuietPageInv DEF SignInAnswered, PageInv, Shape, Fields
  <1> QED BY <1>1, <1>2, <1>3

\* Whatever changes the payload retracts the preview on display, and a text typed while
\* one is asked for is remembered as late.
LEMMA PayloadInv ==
  ASSUME PageInv, Shape',
         UNCHANGED <<page.mode, page.target, page.request, page.busy>>,
         page'.preview = Null,
         \/ page'.late = page.late /\ (page.busy = "preview" => page'.payload = Null)
         \/ page'.late = (page.late \/ page.busy = "preview")
  PROVE  PageInv'
  BY DEF PageInv, Matches, ConfirmedWasPreviewed, Publishing, AsShown

LEMMA EditInv ==
  ASSUME PageInv,
         \/ \E text \in Typed \cup {Garbled, Null} : EditPayload(text)
         \/ ChooseImage \/ ImageAnswered \/ EditFields \/ EditTable
  PROVE  PageInv'
  <1> USE DEF Shape, Fields
  <1>1. ASSUME NEW text, EditPayload(text) PROVE PageInv'
    <2>1. Shape'
      BY <1>1 DEF EditPayload, PageInv
    <2> QED BY <1>1, <2>1, PayloadInv DEF EditPayload, PageInv
  <1>2. CASE ChooseImage
    <2>1. Shape'
      BY <1>2 DEF ChooseImage, PageInv
    <2> QED BY <1>2, <2>1, QuietPageInv DEF ChooseImage, PageInv
  <1>3. CASE ImageAnswered
    <2>1. PICK reply \in Replies :
            page' = [(IF Readable(reply) THEN acceptExtraction(page, reply.rows) ELSE page)
                     EXCEPT !.uploading = FALSE]
      BY <1>3 DEF ImageAnswered
    <2>2. CASE Readable(reply)
      <3>1. Shape'
        BY <2>1, <2>2 DEF acceptExtraction, PageInv
      <3> QED BY <2>1, <2>2, <3>1, PayloadInv DEF acceptExtraction, PageInv
    <2>3. CASE ~Readable(reply)
      <3>1. Shape'
        BY <2>1, <2>3 DEF PageInv
      <3> QED BY <2>1, <2>3, <3>1, QuietPageInv DEF PageInv
    <2> QED BY <2>2, <2>3
  <1>4. ASSUME NEW next, Enabled, page' = editDraft(page, next) PROVE PageInv'
    <2>1. Shape'
      BY <1>4 DEF editDraft, PageInv
    <2>2. page.busy = "none"
      BY <1>4 DEF Enabled
    <2> QED BY <1>4, <2>1, <2>2, PayloadInv DEF editDraft, PageInv
  <1>5. CASE EditFields
    BY <1>5, <1>4 DEF EditFields
  <1>6. CASE EditTable
    BY <1>6, <1>4 DEF EditTable
  <1> QED BY <1>1, <1>2, <1>3, <1>5, <1>6

\* A mode or a tournament that is chosen retracts the preview; one that closed is dropped.
LEMMA ChoiceInv ==
  ASSUME PageInv,
         \/ \E mode \in {"publish", "replace"} : ChooseMode(mode)
         \/ OpenTournamentsAnswered
         \/ \E slug \in Slug \cup {Null} : ChooseTarget(slug)
  PROVE  PageInv'
  <1> USE DEF Shape, Fields
  <1>1. ASSUME NEW mode, ChooseMode(mode) PROVE PageInv'
    <2>1. Shape'
      BY <1>1 DEF ChooseMode, PageInv
    <2> QED BY <1>1, <2>1 DEF ChooseMode, Enabled, PageInv, ConfirmedWasPreviewed, Publishing
  <1>2. ASSUME NEW slug, ChooseTarget(slug) PROVE PageInv'
    <2>1. Shape'
      BY <1>2 DEF ChooseTarget, PageInv
    <2> QED BY <1>2, <2>1 DEF ChooseTarget, Enabled, PageInv, ConfirmedWasPreviewed, Publishing
  <1>3. CASE OpenTournamentsAnswered
    <2>1. CASE page' = [page EXCEPT !.loads = @ - 1]
      <3>1. Shape'
        BY <2>1 DEF PageInv
      <3> QED BY <2>1, <3>1, QuietPageInv DEF PageInv
    <2>2. ASSUME NEW tournaments,
                 page' = [page EXCEPT !.loads = @ - 1, !.open = tournaments,
                            !.target = IF @ \in tournaments THEN @ ELSE Null]
          PROVE  PageInv'
      <3>1. Shape'
        BY <2>2 DEF PageInv
      <3> QED BY <2>2, <3>1, QuietPageInv DEF PageInv
    <2> QED BY <1>3, <2>1, <2>2 DEF OpenTournamentsAnswered
  <1> QED BY <1>1, <1>2, <1>3

\* A preview is of the page as it was when it was asked for; what is published is the page
\* as it is, and a payload that was discarded is not published.
LEMMA RequestInv ==
  ASSUME PageInv,
         \/ RunPreview \/ PreviewAnswered \/ Publish \/ PublishAnswered
         \/ SyncRankings \/ SyncAnswered
  PROVE  PageInv'
  <1> USE DEF Shape, Fields
  <1>1. CASE RunPreview
    <2>1. Shape'
      BY <1>1 DEF RunPreview, PageInv
    <2> QED BY <1>1, <2>1 DEF RunPreview, Asked, PageInv, Matches, ConfirmedWasPreviewed, Publishing
  <1>2. CASE PreviewAnswered
    <2>1. Shape'
      BY <1>2 DEF PreviewAnswered, PageInv
    <2> QED BY <1>2, <2>1 DEF PreviewAnswered, PageInv, Matches, ConfirmedWasPreviewed, Publishing
  <1>3. CASE Publish
    <2>1. Shape' /\ Matches(page.preview) /\ page.payload # Null
      BY <1>3 DEF Publish, Enabled, PageInv
    <2> QED BY <1>3, <2>1
            DEF Publish, Enabled, Asked, PageInv, Matches, ConfirmedWasPreviewed, Publishing, AsShown
  <1>4. CASE PublishAnswered
    <2>1. Shape' /\ page'.busy = "none"
      BY <1>4 DEF PublishAnswered, PageInv
    <2>2. \/ page'.preview = Null
          \/ /\ page.preview # Null /\ page'.preview = page.preview /\ page.busy = "publish"
             /\ UNCHANGED <<page.mode, page.payload, page.target, page.late>>
      BY <1>4 DEF PublishAnswered, PageInv
    <2> QED BY <2>1, <2>2 DEF PageInv, Matches, ConfirmedWasPreviewed, Publishing
  <1>5. CASE SyncRankings
    <2>1. Shape'
      BY <1>5 DEF SyncRankings, PageInv
    <2> QED BY <1>5, <2>1, QuietPageInv DEF SyncRankings, Enabled, PageInv
  <1>6. CASE SyncAnswered
    <2>1. Shape'
      BY <1>6 DEF SyncAnswered, PageInv
    <2> QED BY <1>6, <2>1, QuietPageInv DEF SyncAnswered, PageInv
  <1> QED BY <1>1, <1>2, <1>3, <1>4, <1>5, <1>6

-------------------------------------------------------------------------------
\* Whatever is clicked, typed and answered, in whatever order, PageInv holds.
THEOREM PageInvariance == AdminSpec => []PageInv
  <1>1. AdminInit => PageInv
    BY PageInitInv
  <1>2. PageInv /\ [AdminNext]_page => PageInv'
    <2> SUFFICES ASSUME PageInv, [AdminNext]_page PROVE PageInv'
      OBVIOUS
    <2>1. CASE UNCHANGED page
      BY <2>1 DEF PageInv, Shape, Matches, ConfirmedWasPreviewed, Publishing, AsShown
    <2> QED BY <2>1, SessionInv, EditInv, ChoiceInv, RequestInv DEF AdminNext
  <1> QED BY <1>1, <1>2, PTL DEF AdminSpec

\* What the organiser publishes or replaces is what he was shown (page.tsx, FR-002 and
\* FR-111), apart from a key typed while the preview was on its way.
THEOREM PublishedAsPreviewed == AdminSpec => []ConfirmedWasPreviewed
  <1>1. PageInv => ConfirmedWasPreviewed
    BY DEF PageInv
  <1> QED BY <1>1, PageInvariance, PTL

-------------------------------------------------------------------------------
(***************************************************************************)
(* The draft and the payload.                                              *)
(***************************************************************************)

\* null is neither a draft nor a payload.
NullIsNoRecord ==
  /\ \A n, l, r : Null # [name |-> n, startsAtLocal |-> l, rows |-> r]
  /\ \A n, s, p : Null # [name |-> n, startsAt |-> s, pairs |-> p]

IsDraft(d) ==
  /\ d = [name |-> d.name, startsAtLocal |-> d.startsAtLocal, rows |-> d.rows]
  /\ d.startsAtLocal \in Int \cup {Null}

\* Unless it has been typed over, the payload is made of the draft as it is now.
DraftInv ==
  /\ page.draft # Null => IsDraft(page.draft)
  /\ ~page.typed =>
       /\ page.payload # Null <=> page.draft # Null /\ isLineupDraftComplete(page.draft)
       /\ page.payload # Null => page.payload = toLineupPayload(page.draft)

\* A clock in Lisbon shows the start as it was typed, or an hour later where it skips that.
LEMMA ShownAsTyped ==
  ASSUME NEW local \in Int
  PROVE  formatStartsAt(lisbonLocalToUtc(local)) = IF Exists(local) THEN local ELSE local + Hour
  <1>1. Hour \in Nat /\ SummerFrom \in Int /\ SummerTo \in Int
    BY LineupDraftConstants
  <1>2. Exists(local) <=> formatStartsAt(local) = local \/ formatStartsAt(local - Hour) = local
    BY DEF Exists
  <1> QED BY <1>1, <1>2 DEF formatStartsAt, lisbonLocalToUtc, lisbonOffset

\* Each edit of the draft gives a draft, and the payload with it.
LEMMA EditedDraft ==
  ASSUME NullIsNoRecord, PageInv, NEW next, IsDraft(next), page' = editDraft(page, next)
  PROVE  DraftInv'
  <1>1. page'.draft = next /\ ~page'.typed
        /\ page'.payload = IF isLineupDraftComplete(next) THEN toLineupPayload(next) ELSE Null
    BY DEF editDraft, PageInv, Shape, Fields
  <1>2. next # Null
    BY DEF IsDraft, NullIsNoRecord
  <1>3. toLineupPayload(next) # Null
    BY DEF toLineupPayload, NullIsNoRecord
  <1> QED BY <1>1, <1>2, <1>3 DEF DraftInv

LEMMA EditDraftInv ==
  ASSUME NullIsNoRecord, PageInv, DraftInv, EditFields \/ EditTable
  PROVE  DraftInv'
  <1> DEFINE d == page.draft
  <1>1. IsDraft(d)
    BY DEF EditFields, EditTable, DraftInv
  <1> HIDE DEF d
  <1>2. CASE EditFields
    <2>1. PICK next : page' = editDraft(page, next) /\ IsDraft(next)
      <3>1. ASSUME NEW name PROVE IsDraft([d EXCEPT !.name = name])
        BY <1>1 DEF IsDraft
      <3>2. ASSUME NEW local \in StartsLocal PROVE IsDraft([d EXCEPT !.startsAtLocal = local])
        BY <1>1, StartsAreTimes DEF IsDraft
      <3> QED BY <1>2, <3>1, <3>2 DEF EditFields, d
    <2> QED BY <2>1, EditedDraft
  <1>3. CASE EditTable
    <2>1. ASSUME NEW rows PROVE IsDraft([d EXCEPT !.rows = rows])
      BY <1>1 DEF IsDraft
    <2>2. \A s, cell, value : IsDraft(editCell(d, s, cell, value))
      BY <2>1 DEF editCell
    <2>3. IsDraft(addRow(d))
      BY <2>1 DEF addRow
    <2>4. \A s : IsDraft(removeRow(d, s))
      BY <2>1, Zenon DEF removeRow
    <2>5. PICK next : page' = editDraft(page, next) /\ IsDraft(next)
      BY <1>3, <2>2, <2>3, <2>4 DEF EditTable, d
    <2> QED BY <2>5, EditedDraft
  <1> QED BY <1>2, <1>3

\* The rest of the steps discard both, start a draft without a name, type a payload, or
\* leave both alone.
LEMMA OtherDraftInv ==
  ASSUME NullIsNoRecord, PageInv, DraftInv, [AdminNext]_page, ~EditFields, ~EditTable
  PROVE  DraftInv'
  <1> USE DEF Shape, Fields
  <1>1. ASSUME UNCHANGED <<page.draft, page.payload, page.typed>> PROVE DraftInv'
    BY <1>1 DEF DraftInv
  <1>2. ASSUME page'.draft = Null, page'.payload = Null PROVE DraftInv'
    BY <1>2 DEF DraftInv
  <1>3. ASSUME page'.draft = page.draft, page'.typed PROVE DraftInv'
    BY <1>3 DEF DraftInv
  <1>4. CASE SignIn \/ SignInAnswered \/ ChooseImage \/ UNCHANGED page
    BY <1>1, <1>4 DEF SignIn, SignInAnswered, ChooseImage, PageInv
  <1>5. CASE Leave
    BY <1>2, <1>5 DEF Leave, FreshPage
  <1>6. ASSUME NEW text, EditPayload(text) PROVE DraftInv'
    BY <1>3, <1>6 DEF EditPayload, PageInv
  <1>7. CASE ImageAnswered
    <2>1. PICK reply \in Replies :
            page' = [(IF Readable(reply) THEN acceptExtraction(page, reply.rows) ELSE page)
                     EXCEPT !.uploading = FALSE]
      BY <1>7 DEF ImageAnswered
    <2>2. CASE Readable(reply)
      <3>1. PICK rows : acceptExtraction(page, reply.rows)
              = [page EXCEPT !.draft = createLineupDraft(rows), !.payload = Null,
                             !.preview = Null, !.typed = FALSE]
        BY DEF acceptExtraction
      <3>2. page'.draft = createLineupDraft(rows) /\ page'.payload = Null
        BY <2>1, <2>2, <3>1 DEF PageInv
      <3>3. createLineupDraft(rows).name = Null /\ IsDraft(createLineupDraft(rows))
        BY DEF createLineupDraft, IsDraft
      <3>4. ~isLineupDraftComplete(createLineupDraft(rows))
        BY <3>3 DEF isLineupDraftComplete
      <3> QED BY <3>2, <3>3, <3>4 DEF DraftInv
    <2>3. CASE ~Readable(reply)
      BY <1>1, <2>1, <2>3 DEF PageInv
    <2> QED BY <2>2, <2>3
  <1>8. ASSUME NEW mode, ChooseMode(mode) PROVE DraftInv'
    BY <1>1, <1>8 DEF ChooseMode, PageInv
  <1>9. CASE OpenTournamentsAnswered
    BY <1>1, <1>9 DEF OpenTournamentsAnswered, PageInv
  <1>10. ASSUME NEW slug, ChooseTarget(slug) PROVE DraftInv'
    BY <1>1, <1>10 DEF ChooseTarget, PageInv
  <1>11. CASE RunPreview \/ PreviewAnswered \/ Publish \/ SyncRankings \/ SyncAnswered
    BY <1>1, <1>11 DEF RunPreview, PreviewAnswered, Publish, SyncRankings, SyncAnswered, PageInv
  <1>12. CASE PublishAnswered
    BY <1>1, <1>2, <1>12 DEF PublishAnswered, PageInv
  <1> QED BY <1>4, <1>5, <1>6, <1>7, <1>8, <1>9, <1>10, <1>11, <1>12 DEF AdminNext

LEMMA DraftInvHolds ==
  ASSUME NullIsNoRecord
  PROVE  AdminSpec => []DraftInv
  <1>1. AdminInit => DraftInv
    BY DEF AdminInit, FreshPage, DraftInv
  <1>2. PageInv /\ DraftInv /\ [AdminNext]_page => DraftInv'
    BY EditDraftInv, OtherDraftInv
  <1> QED BY <1>1, <1>2, PageInvariance, PTL DEF AdminSpec

\* The draft is no second source of truth (page.tsx:145-170), whatever is read, edited and
\* answered in whatever order: what can be published without typing is the table as it is
\* displayed, and nothing while a cell of it is unknown.
THEOREM PayloadIsDraft ==
  ASSUME NullIsNoRecord
  PROVE  AdminSpec => []DraftIsPayload
  <1>1. DraftInv => DraftIsPayload
    <2> SUFFICES ASSUME DraftInv, ~page.typed PROVE DraftIsPayload
      BY DEF DraftIsPayload
    <2> DEFINE d == page.draft
               p == page.payload
    <2>1. p # Null <=> d # Null /\ Known(d)
      BY DEF DraftInv, isLineupDraftComplete, rowIsComplete, Known, Cells
    <2>2. ASSUME p # Null
          PROVE  /\ p.name = d.name /\ DOMAIN p.pairs = DOMAIN d.rows
                 /\ \A i \in DOMAIN d.rows, k \in {1, 2} :
                      /\ p.pairs[i].players[k] = [name |-> d.rows[i].names[k], points |-> d.rows[i].points[k]]
                      /\ p.pairs[i].totalPoints = d.rows[i].totalPoints
                 /\ formatStartsAt(p.startsAt) =
                      IF Exists(d.startsAtLocal) THEN d.startsAtLocal ELSE d.startsAtLocal + Hour
      <3>1. p = toLineupPayload(d) /\ d.startsAtLocal \in Int
        BY <2>1, <2>2 DEF DraftInv, IsDraft, Known
      <3>2. p.startsAt = lisbonLocalToUtc(d.startsAtLocal)
        BY <3>1 DEF toLineupPayload
      <3>3. formatStartsAt(p.startsAt) =
              IF Exists(d.startsAtLocal) THEN d.startsAtLocal ELSE d.startsAtLocal + Hour
        BY <3>1, <3>2, ShownAsTyped
      <3>4. /\ p.name = d.name /\ DOMAIN p.pairs = DOMAIN d.rows
            /\ \A i \in DOMAIN d.rows, k \in {1, 2} :
                 /\ p.pairs[i].players[k] = [name |-> d.rows[i].names[k], points |-> d.rows[i].points[k]]
                 /\ p.pairs[i].totalPoints = d.rows[i].totalPoints
        <4>1. p.name = d.name
          BY <3>1 DEF toLineupPayload
        <4>2. p.pairs = [i \in DOMAIN d.rows |->
                           [players     |-> [k \in {1, 2} |-> [name   |-> d.rows[i].names[k],
                                                               points |-> d.rows[i].points[k]]],
                            totalPoints |-> d.rows[i].totalPoints,
                            club        |-> d.rows[i].club,
                            group       |-> Null]]
          BY <3>1 DEF toLineupPayload
        <4> HIDE DEF p
        <4>3. ASSUME NEW i \in DOMAIN d.rows
              PROVE  /\ p.pairs[i].players = [k \in {1, 2} |-> [name   |-> d.rows[i].names[k],
                                                                points |-> d.rows[i].points[k]]]
                     /\ p.pairs[i].totalPoints = d.rows[i].totalPoints
          BY <4>2
        <4> QED BY <4>1, <4>2, <4>3
      <3> QED BY <3>3, <3>4
    <2> QED BY <2>1, <2>2 DEF DraftIsPayload
  <1> QED BY <1>1, DraftInvHolds, PTL

-------------------------------------------------------------------------------
(***************************************************************************)
(* The order that is reviewed is the order that is grouped.                *)
(***************************************************************************)

\* The rows of a draft: each with a total or none, and told from the others by its index.
IsTable(rows) ==
  /\ Len(rows) \in Nat /\ rows = [i \in 1..Len(rows) |-> rows[i]]
  /\ \A i \in 1..Len(rows) :
       /\ "sourceIndex" \in DOMAIN rows[i] /\ rows[i].sourceIndex \in Nat
       /\ "totalPoints" \in DOMAIN rows[i] /\ rows[i].totalPoints \in Nat \cup {Null}
  /\ \A i, j \in 1..Len(rows) : i # j => rows[i].sourceIndex # rows[j].sourceIndex

\* No row goes before one above it.
InOrder(rows) == \A i, j \in 1..Len(rows) : i < j => ~byTotalDescending(rows, j, i)

TableInv == page.draft # Null => IsTable(page.draft.rows) /\ InOrder(page.draft.rows)

\* Rows taken from a table, each from a place of its own.
Taken(taken, rows, from, size) ==
  /\ size \in Nat /\ taken = [n \in 1..size |-> taken[n]]
  /\ \A n \in 1..size : from[n] \in 1..Len(rows) /\ taken[n] = rows[from[n]]
  /\ \A m, n \in 1..size : m # n => from[m] # from[n]

LEMMA TakenIsTable ==
  ASSUME NEW rows, IsTable(rows), NEW taken, NEW from, NEW size, Taken(taken, rows, from, size)
  PROVE  IsTable(taken) /\ Len(taken) = size
  <1> USE DEF Taken
  <1>1. Len(taken) = size /\ taken = [n \in 1..Len(taken) |-> taken[n]]
        /\ \A n \in 1..size : taken[n] = rows[from[n]]
    OBVIOUS
  <1>2. \A n \in 1..size :
          /\ "sourceIndex" \in DOMAIN taken[n] /\ taken[n].sourceIndex \in Nat
          /\ "totalPoints" \in DOMAIN taken[n] /\ taken[n].totalPoints \in Nat \cup {Null}
    BY <1>1 DEF IsTable
  <1>3. \A m, n \in 1..size : m # n => taken[m].sourceIndex # taken[n].sourceIndex
    BY <1>1 DEF IsTable
  <1> HIDE DEF IsTable
  <1>4. Len(taken) \in Nat /\ 1..Len(taken) = 1..size
    BY <1>1
  <1> QED BY <1>1, <1>2, <1>3, <1>4 DEF IsTable

\* The sort of the page, wherever it is used.
LEMMA SortedInOrder ==
  ASSUME NEW rows, IsTable(rows)
  PROVE  IsTable(Sorted(rows)) /\ InOrder(Sorted(rows))
  <1> DEFINE size == Len(rows)
             prior == {x \in (1..size) \X (1..size) : goesBefore(rows, x[1], x[2])}
             order == [n \in 1..size |->
                         CHOOSE i \in 1..size : Cardinality(Preceding(prior, size, i)) = n - 1]
  <1>1. size \in Nat /\ DOMAIN rows = 1..size
        /\ \A i \in 1..size : rows[i].totalPoints \in Nat \cup {Null}
    BY DEF IsTable
  <1>2. \A i, j \in 1..size : <<i, j>> \in prior <=> goesBefore(rows, i, j)
    OBVIOUS
  <1> HIDE DEF prior
  <1>3. LinearOrder(prior, size)
    <2>1. Null \notin Int
      BY OneNull
    <2>2. \A i, j \in 1..size : goesBefore(rows, i, j) <=>
            LET a == rows[i].totalPoints
                b == rows[j].totalPoints
            IN  \/ a # Null /\ b # Null /\ (a > b \/ (a = b /\ i < j))
                \/ a # Null /\ b = Null
                \/ a = Null /\ b = Null /\ i < j
      BY <1>1, <2>1 DEF goesBefore, byTotalDescending
    <2>3. \A i \in 1..size : ~goesBefore(rows, i, i)
      BY <1>1, <2>1, <2>2
    <2>4. \A i, j \in 1..size : i # j => goesBefore(rows, i, j) \/ goesBefore(rows, j, i)
      BY <1>1, <2>1, <2>2
    <2>5. \A i, j, k \in 1..size : goesBefore(rows, i, j) /\ goesBefore(rows, j, k) => goesBefore(rows, i, k)
      BY <1>1, <2>1, <2>2
    <2> QED BY <1>2, <2>3, <2>4, <2>5 DEF LinearOrder
  <1>4. \A i \in 1..size : Preceding(prior, size, i) = {j \in DOMAIN rows : goesBefore(rows, j, i)}
    BY <1>1, <1>2 DEF Preceding
  <1>5. \A n \in 1..size : order[n] = CHOOSE i \in 1..size : Cardinality(Preceding(prior, size, i)) = n - 1
    OBVIOUS
  <1>6. \A n \in 1..size : order[n] = CHOOSE i \in DOMAIN rows :
                             Cardinality({j \in DOMAIN rows : goesBefore(rows, j, i)}) = n - 1
    BY <1>1, <1>4
  <1> HIDE DEF order
  <1>7. Sorted(rows) = [n \in 1..size |-> rows[order[n]]]
    <2> DEFINE nthOf(n) == CHOOSE i \in DOMAIN rows :
                             Cardinality({j \in DOMAIN rows : goesBefore(rows, j, i)}) = n - 1
    <2>1. Sorted(rows) = [n \in DOMAIN rows |-> rows[nthOf(n)]]
      BY DEF Sorted
    <2>2. \A n \in 1..size : order[n] = nthOf(n)
      BY <1>6
    <2> HIDE DEF nthOf
    <2> QED BY <1>1, <2>1, <2>2
  <1> HIDE DEF size
  <1>8. Arranged(order, prior, size)
    BY <1>1, <1>3, <1>5, RankedInOrder
  <1>9. \A n \in 1..size : order[n] \in 1..size
    BY <1>8 DEF Arranged
  <1>10. \A m, n \in 1..size : m < n => goesBefore(rows, order[m], order[n]) /\ order[m] # order[n]
    BY <1>2, <1>3, <1>8, <1>9 DEF Arranged, LinearOrder
  <1>11. \A m, n \in 1..size : m # n => order[m] # order[n]
    BY <1>1, <1>10
  <1>12. /\ IsTable(Sorted(rows)) /\ Len(Sorted(rows)) = size
         /\ \A n \in 1..size : Sorted(rows)[n] = rows[order[n]]
    <2>1. \A n \in 1..size : order[n] \in 1..Len(rows)
      BY <1>9 DEF size
    <2>2. /\ Sorted(rows) = [n \in 1..size |-> Sorted(rows)[n]]
          /\ \A n \in 1..size : Sorted(rows)[n] = rows[order[n]]
      BY <1>7
    <2>3. Taken(Sorted(rows), rows, order, size)
      BY <1>1, <1>11, <2>1, <2>2 DEF Taken
    <2> QED BY <2>2, <2>3, TakenIsTable
  <1>13. ASSUME NEW m \in 1..size, NEW n \in 1..size, m < n
         PROVE  ~byTotalDescending(Sorted(rows), n, m)
    <2>1. goesBefore(rows, order[m], order[n])
      BY <1>10, <1>13
    <2>2. ~byTotalDescending(rows, order[n], order[m])
      <3>1. Null \notin Int /\ order[m] \in 1..size /\ order[n] \in 1..size
        BY <1>9, OneNull
      <3> QED BY <1>1, <2>1, <3>1 DEF goesBefore, byTotalDescending
    <2> QED BY <1>12, <2>2 DEF byTotalDescending
  <1> QED BY <1>12, <1>13 DEF InOrder

\* What the reader's handler makes of a transcription.
LEMMA ReadIsTable ==
  ASSUME NEW reply \in Replies, Readable(reply)
  PROVE  LET rows == normalizeExtraction(reply.rows) IN IsTable(rows) /\ InOrder(rows)
  <1> DEFINE raw == reply.rows
             size == Len(raw)
             row(i) == [sourceIndex |-> i - 1,
                        names       |-> raw[i].names,
                        points      |-> [k \in {1, 2} |-> normalizePoints(raw[i].points[k])],
                        totalPoints |-> normalizePoints(raw[i].totalPoints),
                        club        |-> raw[i].club]
             rows == [i \in DOMAIN raw |-> row(i)]
  <1>1. DOMAIN raw = 1..size
    BY RepliesAreRows
  <1>2. size \in Nat
    BY RepliesAreRows
  <1>3. ASSUME NEW i \in 1..size
        PROVE  /\ "sourceIndex" \in DOMAIN row(i) /\ row(i).sourceIndex = i - 1
               /\ "totalPoints" \in DOMAIN row(i) /\ row(i).totalPoints \in Nat \cup {Null}
    BY DEF normalizePoints
  <1> HIDE DEF row
  <1>4. rows = [i \in 1..size |-> row(i)]
    BY <1>1
  <1> HIDE DEF rows, size
  <1>5. Len(rows) = size /\ rows = [i \in 1..Len(rows) |-> rows[i]] /\ \A i \in 1..size : rows[i] = row(i)
    BY <1>2, <1>4
  <1>6. IsTable(rows)
    <2>1. \A i \in 1..size : rows[i].sourceIndex = i - 1
      BY <1>2, <1>3, <1>5
    <2>2. \A i, j \in 1..size : i # j => rows[i].sourceIndex # rows[j].sourceIndex
      BY <1>2, <2>1
    <2>3. \A i \in 1..size :
            /\ "sourceIndex" \in DOMAIN rows[i] /\ rows[i].sourceIndex \in Nat
            /\ "totalPoints" \in DOMAIN rows[i] /\ rows[i].totalPoints \in Nat \cup {Null}
      BY <1>2, <1>3, <1>5, <2>1
    <2> QED BY <1>2, <1>5, <2>2, <2>3 DEF IsTable
  <1>7. normalizeExtraction(raw) = Sorted(rows)
    BY DEF normalizeExtraction, rows, row
  <1> QED BY <1>6, <1>7, SortedInOrder

\* A cell that is edited leaves the row the index that tells it from the others.
LEMMA EditedIsTable ==
  ASSUME NEW d, IsTable(d.rows), NEW s, NEW e \in CellEdits
  PROVE  LET rows == Sorted(Edited(d, s, e.cell, e.value)) IN IsTable(rows) /\ InOrder(rows)
  <1> DEFINE size == Len(d.rows)
             rows == Edited(d, s, e.cell, e.value)
  <1>1. size \in Nat /\ DOMAIN d.rows = 1..size
    BY DEF IsTable
  <1>2. ASSUME NEW row, "sourceIndex" \in DOMAIN row, "totalPoints" \in DOMAIN row,
               row.totalPoints \in Nat \cup {Null}
        PROVE  LET to == applyCell(row, e.cell, e.value) IN
               /\ "sourceIndex" \in DOMAIN to /\ to.sourceIndex = row.sourceIndex
               /\ "totalPoints" \in DOMAIN to /\ to.totalPoints \in Nat \cup {Null}
    <2>1. CASE e.cell.kind = "playerName"
      <3>1. applyCell(row, e.cell, e.value) = [row EXCEPT !.names[e.cell.player] = e.value]
        BY <2>1 DEF applyCell
      <3> QED BY <1>2, <3>1
    <2>2. CASE e.cell.kind = "playerPoints"
      <3>1. applyCell(row, e.cell, e.value)
              = [row EXCEPT !.points[e.cell.player] = normalizePoints(e.value)]
        BY <2>2 DEF applyCell
      <3> QED BY <1>2, <3>1
    <2>3. CASE e.cell.kind = "totalPoints"
      <3>1. applyCell(row, e.cell, e.value) = [row EXCEPT !.totalPoints = normalizePoints(e.value)]
        BY <2>3 DEF applyCell
      <3> QED BY <1>2, <3>1 DEF normalizePoints
    <2>4. CASE e.cell.kind = "club"
      <3>1. applyCell(row, e.cell, e.value) = [row EXCEPT !.club = e.value]
        BY <2>4 DEF applyCell
      <3> QED BY <1>2, <3>1
    <2> QED BY <2>1, <2>2, <2>3, <2>4, EditsAreOfCells
  <1>3. Len(rows) = size /\ rows = [i \in 1..Len(rows) |-> rows[i]]
        /\ \A i \in 1..size :
             rows[i] = IF d.rows[i].sourceIndex = s THEN applyCell(d.rows[i], e.cell, e.value)
                       ELSE d.rows[i]
    BY <1>1 DEF Edited
  <1> HIDE DEF rows
  <1>4. \A i \in 1..size :
          /\ "sourceIndex" \in DOMAIN rows[i] /\ rows[i].sourceIndex = d.rows[i].sourceIndex
          /\ "totalPoints" \in DOMAIN rows[i] /\ rows[i].totalPoints \in Nat \cup {Null}
    BY <1>2, <1>3 DEF IsTable
  <1>5. IsTable(rows)
    <2>1. \A i, j \in 1..size : i # j => rows[i].sourceIndex # rows[j].sourceIndex
      BY <1>4 DEF IsTable
    <2>2. \A i \in 1..size : rows[i].sourceIndex \in Nat
      BY <1>4 DEF IsTable
    <2> QED BY <1>1, <1>3, <1>4, <2>1, <2>2 DEF IsTable
  <1> QED BY <1>5, SortedInOrder DEF rows

\* There are as many indexes as rows.
LEMMA RowsToldApart ==
  ASSUME NEW d, IsTable(d.rows)
  PROVE  IsFiniteSet(SourceIndexes(d)) /\ Cardinality(SourceIndexes(d)) = Len(d.rows)
  <1> DEFINE size == Len(d.rows)
             S == SourceIndexes(d)
             f == [i \in 1..size |-> d.rows[i].sourceIndex]
  <1>1. size \in Nat /\ DOMAIN d.rows = 1..size
    BY DEF IsTable
  <1>2. \A i, j \in 1..size : f[i] = f[j] => i = j
    BY DEF IsTable
  <1>3. f \in [1..size -> S] /\ \A s \in S : \E i \in 1..size : f[i] = s
    BY <1>1 DEF SourceIndexes
  <1> HIDE DEF S, f, size
  <1>4. IsFiniteSet(1..size) /\ Cardinality(1..size) = size
    BY <1>1, FirstNumbers
  <1>5. IsFiniteSet(S) /\ Cardinality(S) = Cardinality(1..size)
    BY <1>2, <1>3, <1>4, OneForOne
  <1> QED BY <1>4, <1>5 DEF S, size

\* The index of a row that is added is the first above all others.
LEMMA NextIndexIsNew ==
  ASSUME NEW d, IsTable(d.rows)
  PROVE  nextIndex(d) \in Nat /\ \A i \in 1..Len(d.rows) : d.rows[i].sourceIndex < nextIndex(d)
  <1> DEFINE S == SourceIndexes(d)
             above(n) == \A s \in S : s < n
  <1>0. \A i \in 1..Len(d.rows) : d.rows[i].sourceIndex \in S
    BY DEF IsTable, SourceIndexes
  <1>1. S \subseteq Nat
    BY DEF IsTable, SourceIndexes
  <1>2. InTurn(S)
    <2>1. IsFiniteSet(S)
      BY RowsToldApart
    <2> HIDE DEF S
    <2> QED BY <1>1, <2>1, PlacesInTurn
  <1>3. nextIndex(d) = CHOOSE n \in {0} \cup {s + 1 : s \in S} : above(n)
    BY DEF nextIndex
  <1> HIDE DEF S
  <1>4. \E n \in {0} \cup {s + 1 : s \in S} : above(n)
    <2>1. CASE S = {}
      BY <2>1
    <2>2. CASE S # {}
      <3> DEFINE last == Cardinality(S)
      <3>1. last \in Nat /\ last \in 1..last
        BY <1>2, <2>2 DEF InTurn
      <3> HIDE DEF last
      <3>2. nth(S, last) \in S
        BY <1>2, <3>1 DEF InTurn, last
      <3>3. ASSUME NEW s \in S PROVE s <= nth(S, last)
        <4>1. PICK n \in 1..last : nth(S, n) = s
          BY <1>2 DEF InTurn, last
        <4>2. n < last => nth(S, n) < nth(S, last)
          BY <1>2, <3>1 DEF InTurn, last
        <4>3. s \in Nat /\ nth(S, last) \in Nat
          BY <1>1, <3>2
        <4> QED BY <3>1, <4>1, <4>2, <4>3
      <3>4. \A s \in S : s < nth(S, last) + 1
        <4> SUFFICES ASSUME NEW s \in S PROVE s < nth(S, last) + 1
          OBVIOUS
        <4>1. s \in Nat /\ nth(S, last) \in Nat /\ s <= nth(S, last)
          BY <1>1, <3>2, <3>3
        <4> QED BY <4>1
      <3> QED BY <3>2, <3>4
    <2> QED BY <2>1, <2>2
  <1>5. nextIndex(d) \in {0} \cup {s + 1 : s \in S} /\ above(nextIndex(d))
    <2> HIDE DEF above
    <2> QED BY <1>3, <1>4
  <1>6. nextIndex(d) \in Nat
    BY <1>1, <1>5
  <1> QED BY <1>0, <1>5, <1>6

LEMMA AddedIsTable ==
  ASSUME NEW d, d = [name |-> d.name, startsAtLocal |-> d.startsAtLocal, rows |-> d.rows],
         IsTable(d.rows), InOrder(d.rows)
  PROVE  IsTable(addRow(d).rows) /\ InOrder(addRow(d).rows)
  <1> DEFINE size == Len(d.rows)
             new == [sourceIndex |-> nextIndex(d), names |-> <<Null, Null>>,
                     points |-> <<Null, Null>>, totalPoints |-> Null, club |-> Null]
             rows == Append(d.rows, new)
  <1>1. size \in Nat /\ d.rows = [i \in 1..size |-> d.rows[i]]
    BY DEF IsTable
  <1>2. addRow(d).rows = rows
    BY DEF addRow
  <1>3. new.sourceIndex = nextIndex(d) /\ new.totalPoints = Null
        /\ "sourceIndex" \in DOMAIN new /\ "totalPoints" \in DOMAIN new
    OBVIOUS
  <1> HIDE DEF new
  <1>4. Len(rows) = size + 1 /\ rows = [i \in 1..Len(rows) |-> rows[i]]
        /\ rows[size + 1] = new /\ \A i \in 1..size : rows[i] = d.rows[i]
    BY <1>1
  <1> HIDE DEF rows
  <1>5. nextIndex(d) \in Nat /\ \A i \in 1..size : rows[i].sourceIndex < nextIndex(d)
    BY <1>4, NextIndexIsNew
  <1>6. \A i \in 1..(size + 1) : i \in 1..size \/ i = size + 1
    BY <1>1
  <1> HIDE DEF size
  <1>7. IsTable(rows)
    <2>1. \A i \in 1..(size + 1) :
            /\ "sourceIndex" \in DOMAIN rows[i] /\ rows[i].sourceIndex \in Nat
            /\ "totalPoints" \in DOMAIN rows[i] /\ rows[i].totalPoints \in Nat \cup {Null}
      BY <1>3, <1>4, <1>5, <1>6 DEF IsTable, size
    <2>2. \A i, j \in 1..(size + 1) : i # j => rows[i].sourceIndex # rows[j].sourceIndex
      <3>1. \A i, j \in 1..size : i # j => rows[i].sourceIndex # rows[j].sourceIndex
        BY <1>4 DEF IsTable, size
      <3>2. \A i \in 1..size : rows[i].sourceIndex # rows[size + 1].sourceIndex
        BY <1>3, <1>4, <1>5, <1>6, <2>1
      <3> QED BY <1>6, <3>1, <3>2
    <2> QED BY <1>1, <1>4, <2>1, <2>2 DEF IsTable
  <1>8. ASSUME NEW i \in 1..(size + 1), NEW j \in 1..(size + 1), i < j
        PROVE  ~byTotalDescending(rows, j, i)
    <2>1. CASE j = size + 1
      BY <1>3, <1>4, <2>1 DEF byTotalDescending
    <2>2. CASE j \in 1..size
      <3>1. i \in 1..size
        BY <1>1, <1>8, <2>2
      <3>2. ~byTotalDescending(d.rows, j, i)
        BY <1>8, <2>2, <3>1 DEF InOrder, size
      <3> QED BY <1>4, <2>2, <3>1, <3>2 DEF byTotalDescending
    <2> QED BY <1>6, <2>1, <2>2
  <1> QED BY <1>2, <1>4, <1>7, <1>8 DEF InOrder

\* What is left when a row is removed is in the order it was in.
LEMMA RemovedIsTable ==
  ASSUME NEW d, d = [name |-> d.name, startsAtLocal |-> d.startsAtLocal, rows |-> d.rows],
         IsTable(d.rows), InOrder(d.rows), NEW s
  PROVE  IsTable(removeRow(d, s).rows) /\ InOrder(removeRow(d, s).rows)
  <1> DEFINE S == {i \in DOMAIN d.rows : d.rows[i].sourceIndex # s}
             size == Cardinality(S)
             from == [n \in 1..size |-> nth(S, n)]
             rows == pick(d.rows, S)
  <1>1. Len(d.rows) \in Nat /\ DOMAIN d.rows = 1..Len(d.rows)
    BY DEF IsTable
  <1>2. removeRow(d, s).rows = rows
    BY DEF removeRow
  <1>3. S \in SUBSET (1..Len(d.rows)) /\ S \subseteq Nat
    BY <1>1
  <1> HIDE DEF S
  <1>4. InTurn(S)
    <2>1. IsFiniteSet(S)
      BY <1>1, <1>3, FirstNumbers, FS_Subset
    <2> QED BY <1>3, <2>1, PlacesInTurn
  <1>5. size \in Nat /\ \A n \in 1..size : from[n] \in S
        /\ \A m \in 1..size : m < n => from[m] < from[n]
    BY <1>4 DEF InTurn
  <1>6. rows = [n \in 1..size |-> rows[n]] /\ \A n \in 1..size : rows[n] = d.rows[from[n]]
    BY DEF pick
  <1> HIDE DEF rows, from, size
  <1>7. \A n \in 1..size : from[n] \in 1..Len(d.rows)
    BY <1>3, <1>5
  <1>8. \A m, n \in 1..size : m # n => from[m] # from[n]
    BY <1>1, <1>5, <1>7
  <1>9. Taken(rows, d.rows, from, size)
    BY <1>5, <1>6, <1>7, <1>8 DEF Taken
  <1>10. IsTable(rows) /\ Len(rows) = size
    BY <1>9, TakenIsTable
  <1>11. ASSUME NEW m \in 1..size, NEW n \in 1..size, m < n
         PROVE  ~byTotalDescending(rows, n, m)
    <2>1. from[m] < from[n] /\ from[m] \in 1..Len(d.rows) /\ from[n] \in 1..Len(d.rows)
      BY <1>5, <1>7, <1>11
    <2>2. ~byTotalDescending(d.rows, from[n], from[m])
      BY <2>1 DEF InOrder
    <2> QED BY <1>6, <2>2 DEF byTotalDescending
  <1> QED BY <1>2, <1>10, <1>11 DEF InOrder

-------------------------------------------------------------------------------
LEMMA TableInvHolds ==
  ASSUME NullIsNoRecord
  PROVE  AdminSpec => []TableInv
  <1>1. AdminInit => TableInv
    BY DEF AdminInit, FreshPage, TableInv
  <1>2. PageInv /\ DraftInv /\ TableInv /\ [AdminNext]_page => TableInv'
    <2> SUFFICES ASSUME PageInv, DraftInv, TableInv, [AdminNext]_page PROVE TableInv'
      OBVIOUS
    <2>1. ASSUME page'.draft \in {page.draft, Null} PROVE TableInv'
      BY <2>1 DEF TableInv
    <2>2. ASSUME NEW next, page' = editDraft(page, next), IsTable(next.rows), InOrder(next.rows)
          PROVE  TableInv'
      <3>1. page'.draft = next
        BY <2>2 DEF editDraft, PageInv, Shape, Fields
      <3> QED BY <2>2, <3>1 DEF TableInv
    <2>3. CASE EditFields
      <3>1. IsDraft(page.draft) /\ IsTable(page.draft.rows) /\ InOrder(page.draft.rows)
        BY <2>3 DEF EditFields, DraftInv, TableInv
      <3>2. \A name : [page.draft EXCEPT !.name = name].rows = page.draft.rows
        BY <3>1 DEF IsDraft
      <3>3. \A local : [page.draft EXCEPT !.startsAtLocal = local].rows = page.draft.rows
        BY <3>1 DEF IsDraft
      <3>4. PICK next : page' = editDraft(page, next) /\ next.rows = page.draft.rows
        BY <2>3, <3>2, <3>3 DEF EditFields
      <3> QED BY <2>2, <3>1, <3>4
    <2>4. CASE EditTable
      <3> DEFINE d == page.draft
      <3>1. IsTable(d.rows) /\ InOrder(d.rows)
            /\ d = [name |-> d.name, startsAtLocal |-> d.startsAtLocal, rows |-> d.rows]
        BY <2>4 DEF EditTable, DraftInv, TableInv, IsDraft
      <3>2. \/ \E s \in SourceIndexes(d), e \in CellEdits :
                 page' = editDraft(page, editCell(d, s, e.cell, e.value))
            \/ page' = editDraft(page, addRow(d))
            \/ \E s \in SourceIndexes(d) : page' = editDraft(page, removeRow(d, s))
        BY <2>4 DEF EditTable
      <3> HIDE DEF d
      <3>3. ASSUME NEW s, NEW e \in CellEdits
            PROVE  LET rows == editCell(d, s, e.cell, e.value).rows IN IsTable(rows) /\ InOrder(rows)
        <4>1. editCell(d, s, e.cell, e.value).rows = Sorted(Edited(d, s, e.cell, e.value))
          BY <3>1 DEF editCell
        <4> QED BY <3>1, <4>1, EditedIsTable
      <3>4. IsTable(addRow(d).rows) /\ InOrder(addRow(d).rows)
        BY <3>1, AddedIsTable
      <3>5. \A s : IsTable(removeRow(d, s).rows) /\ InOrder(removeRow(d, s).rows)
        BY <3>1, RemovedIsTable
      <3> QED BY <2>2, <3>2, <3>3, <3>4, <3>5
    <2>5. CASE ImageAnswered
      <3>1. PICK reply \in Replies :
              page' = [(IF Readable(reply) THEN acceptExtraction(page, reply.rows) ELSE page)
                       EXCEPT !.uploading = FALSE]
        BY <2>5 DEF ImageAnswered
      <3>2. CASE Readable(reply)
        <4> DEFINE rows == normalizeExtraction(reply.rows)
        <4>1. IsTable(rows) /\ InOrder(rows)
          BY <3>2, ReadIsTable
        <4>2. acceptExtraction(page, reply.rows)
                = [page EXCEPT !.draft = createLineupDraft(rows), !.payload = Null,
                               !.preview = Null, !.typed = FALSE]
          BY DEF acceptExtraction
        <4> HIDE DEF rows
        <4>3. page'.draft = createLineupDraft(rows)
          BY <3>1, <3>2, <4>2 DEF PageInv, Shape, Fields
        <4> QED BY <4>1, <4>3 DEF TableInv, createLineupDraft
      <3>3. CASE ~Readable(reply)
        BY <2>1, <3>1, <3>3 DEF PageInv, Shape, Fields
      <3> QED BY <3>2, <3>3
    <2>6. CASE Leave \/ UNCHANGED page
      BY <2>1, <2>6 DEF Leave, FreshPage
    <2>7. ASSUME NEW text, EditPayload(text) PROVE TableInv'
      BY <2>1, <2>7 DEF EditPayload, PageInv, Shape, Fields
    <2>8. ASSUME NEW mode, ChooseMode(mode) PROVE TableInv'
      BY <2>1, <2>8 DEF ChooseMode, PageInv, Shape, Fields
    <2>9. ASSUME NEW slug, ChooseTarget(slug) PROVE TableInv'
      BY <2>1, <2>9 DEF ChooseTarget, PageInv, Shape, Fields
    <2>10. CASE SignIn \/ SignInAnswered \/ ChooseImage \/ OpenTournamentsAnswered
      BY <2>1, <2>10 DEF SignIn, SignInAnswered, ChooseImage, OpenTournamentsAnswered,
                         PageInv, Shape, Fields
    <2>11. CASE RunPreview \/ PreviewAnswered \/ Publish \/ SyncRankings \/ SyncAnswered
      BY <2>1, <2>11 DEF RunPreview, PreviewAnswered, Publish, SyncRankings, SyncAnswered,
                         PageInv, Shape, Fields
    <2>12. CASE PublishAnswered
      BY <2>1, <2>12 DEF PublishAnswered, PageInv, Shape, Fields
    <2> QED BY <2>3, <2>4, <2>5, <2>6, <2>7, <2>8, <2>9, <2>10, <2>11, <2>12 DEF AdminNext
  <1> QED BY <1>1, <1>2, PageInvariance, DraftInvHolds, PTL DEF AdminSpec

\* The server ranks the pairs of a table as they stand.
LEMMA TableByStrength ==
  ASSUME NEW ps, IsPaste(ps), \A i, j \in 1..Len(ps) : i < j => ps[i].totalPoints >= ps[j].totalPoints
  PROVE  \A n \in 1..Len(ps) : byStrength(ps)[n] = n
  <1> SUFFICES ASSUME NEW n \in 1..Len(ps) PROVE byStrength(ps)[n] = n
    OBVIOUS
  <1> DEFINE i == byStrength(ps)[n]
  <1>1. Len(ps) \in Nat /\ DOMAIN ps = 1..Len(ps) /\ \A j \in 1..Len(ps) : ps[j].totalPoints \in Nat
    BY DEF IsPaste
  <1>2. i \in 1..Len(ps) /\ Cardinality({j \in DOMAIN ps : stronger(ps, j, i)}) = n - 1
    BY StrengthOrder DEF Strong
  <1> HIDE DEF i
  <1>3. \A j \in 1..Len(ps) : stronger(ps, j, i) <=> j < i
    BY <1>1, <1>2 DEF stronger
  <1>4. {j \in DOMAIN ps : stronger(ps, j, i)} = 1..(i - 1)
    <2>1. {j \in DOMAIN ps : stronger(ps, j, i)} = {j \in 1..Len(ps) : j < i}
      BY <1>1, <1>3
    <2>2. {j \in 1..Len(ps) : j < i} = 1..(i - 1)
      BY <1>1, <1>2
    <2> QED BY <2>1, <2>2
  <1>5. i - 1 \in Nat /\ Cardinality(1..(i - 1)) = i - 1
    BY <1>1, <1>2, FirstNumbers
  <1>6. i - 1 = n - 1
    BY <1>2, <1>4, <1>5
  <1>7. i = n
    BY <1>1, <1>2, <1>6
  <1> QED BY <1>7 DEF i

\* A complete draft is a paste without labels, with its pairs from the strongest down.
LEMMA DraftIsPaste ==
  ASSUME NEW d, IsTable(d.rows), InOrder(d.rows), isLineupDraftComplete(d)
  PROVE  LET ps == toLineupPayload(d).pairs IN
         /\ IsPaste(ps) /\ labelled(ps) # DOMAIN ps
         /\ \A i, j \in 1..Len(ps) : i < j => ps[i].totalPoints >= ps[j].totalPoints
  <1> DEFINE size == Len(d.rows)
             ps == toLineupPayload(d).pairs
  <1>1. size \in Nat /\ DOMAIN d.rows = 1..size /\ d.rows = [i \in 1..size |-> d.rows[i]]
    BY DEF IsTable
  <1>2. size # 0
    <2>1. d.rows # <<>>
      BY DEF isLineupDraftComplete
    <2> SUFFICES ASSUME size = 0 PROVE FALSE
      OBVIOUS
    <2>2. DOMAIN d.rows = {}
      BY <1>1
    <2>3. d.rows = <<>>
      BY <1>1, <2>2
    <2> QED BY <2>1, <2>3
  <1>3. \A i \in 1..size : d.rows[i].totalPoints \in Nat /\ d.rows[i].totalPoints # Null
    BY <1>1 DEF isLineupDraftComplete, rowIsComplete, IsTable
  <1>4. DOMAIN ps = 1..size /\ ps = [i \in 1..size |-> ps[i]]
        /\ \A i \in 1..size : ps[i].totalPoints = d.rows[i].totalPoints /\ ps[i].group = Null
    BY <1>1 DEF toLineupPayload
  <1> HIDE DEF ps
  <1>5. Len(ps) = size
    BY <1>1, <1>4
  <1>6. IsPaste(ps)
    BY <1>1, <1>3, <1>4, <1>5 DEF IsPaste
  <1>7. 1 \in DOMAIN ps /\ 1 \notin labelled(ps)
    <2>1. 1 \in 1..size
      BY <1>1, <1>2
    <2>2. 1 \in DOMAIN ps /\ ps[1].group = None
      BY <1>4, <2>1, OneNull
    <2> QED BY <2>2 DEF labelled
  <1>8. ASSUME NEW i \in 1..size, NEW j \in 1..size, i < j
        PROVE  ps[i].totalPoints >= ps[j].totalPoints
    <2>1. ~byTotalDescending(d.rows, j, i)
      BY <1>8 DEF InOrder
    <2>2. PICK a \in Nat : a = d.rows[i].totalPoints /\ a # Null
      BY <1>3
    <2>3. PICK b \in Nat : b = d.rows[j].totalPoints /\ b # Null
      BY <1>3
    <2>4. ~(b > a)
      BY <2>1, <2>2, <2>3 DEF byTotalDescending
    <2>5. a >= b
      BY <2>2, <2>3, <2>4
    <2> QED BY <1>4, <2>2, <2>3, <2>5
  <1> QED BY <1>5, <1>6, <1>7, <1>8 DEF ps

\* The table that is reviewed is the order the groups are made in (core/lineup-extraction,
\* header; FR-113), however its rows were read, edited, added and removed.
THEOREM ReviewedInOrder ==
  ASSUME NullIsNoRecord
  PROVE  AdminSpec => []ReviewedOrderIsGrouped
  <1>1. DraftInv /\ TableInv => ReviewedOrderIsGrouped
    <2> SUFFICES ASSUME DraftInv, TableInv PROVE ReviewedOrderIsGrouped
      OBVIOUS
    <2> DEFINE d == page.draft
               ps == page.payload.pairs
               groups == grouped(ps)
               places == UNION {{<<g, m>> : m \in DOMAIN groups[g].members} : g \in DOMAIN groups}
               RowAt(x) == groups[x[1]].members[x[2]]
    <2>1. d # Null => Cardinality(SourceIndexes(d)) = Len(d.rows)
      BY RowsToldApart DEF TableInv
    <2>2. ASSUME ~page.typed, page.payload # Null
          PROVE  /\ {RowAt(x) : x \in places} = DOMAIN ps
                 /\ \A x, y \in places :
                      x[1] < y[1] \/ (x[1] = y[1] /\ x[2] < y[2]) => RowAt(x) < RowAt(y)
      <3>1. d # Null /\ isLineupDraftComplete(d) /\ page.payload = toLineupPayload(d)
        BY <2>2 DEF DraftInv
      <3>2. IsTable(d.rows) /\ InOrder(d.rows)
        BY <3>1 DEF TableInv
      <3>3. /\ IsPaste(ps) /\ labelled(ps) # DOMAIN ps
            /\ \A i, j \in 1..Len(ps) : i < j => ps[i].totalPoints >= ps[j].totalPoints
        BY <3>1, <3>2, DraftIsPaste
      <3> HIDE DEF d, ps
      <3>4. DOMAIN ps = 1..Len(ps) /\ Len(ps) \in Nat
        BY <3>3 DEF IsPaste
      <3>5. Filled(ps) /\ \A n \in 1..Len(ps) : byStrength(ps)[n] = n
        BY <3>3, FilledByChunks, TableByStrength
      <3>6. \A x : x \in places <=>
              \E g \in DOMAIN groups : \E m \in DOMAIN Members(ps, g) : x = <<g, m>>
        BY DEF Members
      <3>7. \A g \in DOMAIN groups : \A m \in DOMAIN Members(ps, g) :
              /\ RowAt(<<g, m>>) = Members(ps, g)[m]
              /\ Members(ps, g)[m] = Place(ps, g, m) /\ Place(ps, g, m) \in 1..Len(ps)
        BY <3>5 DEF Filled, Members
      <3> HIDE DEF places, RowAt
      <3>8. ASSUME NEW i \in 1..Len(ps) PROVE \E x \in places : RowAt(x) = i
        <4>1. PICK g \in DOMAIN groups : \E m \in DOMAIN Members(ps, g) : Place(ps, g, m) = i
          BY <3>5 DEF Filled
        <4>2. PICK m \in DOMAIN Members(ps, g) : Place(ps, g, m) = i
          BY <4>1
        <4>3. <<g, m>> \in places /\ RowAt(<<g, m>>) = i
          BY <3>6, <3>7, <4>2
        <4> QED BY <4>3
      <3>9. ASSUME NEW x \in places, NEW y \in places, x[1] < y[1] \/ (x[1] = y[1] /\ x[2] < y[2])
            PROVE  RowAt(x) < RowAt(y)
        <4>1. PICK g \in DOMAIN groups : \E m \in DOMAIN Members(ps, g) : x = <<g, m>>
          BY <3>6
        <4>2. PICK m \in DOMAIN Members(ps, g) : x = <<g, m>>
          BY <4>1
        <4>3. PICK h \in DOMAIN groups : \E n \in DOMAIN Members(ps, h) : y = <<h, n>>
          BY <3>6
        <4>4. PICK n \in DOMAIN Members(ps, h) : y = <<h, n>>
          BY <4>3
        <4>5. g < h \/ (g = h /\ m < n)
          BY <3>9, <4>2, <4>4
        <4>6. Place(ps, g, m) < Place(ps, h, n)
          BY <3>3, <3>5, <4>5 DEF Filled
        <4> QED BY <3>7, <4>2, <4>4, <4>6
      <3>10. \A x \in places : RowAt(x) \in 1..Len(ps)
        BY <3>6, <3>7
      <3> QED BY <3>4, <3>8, <3>9, <3>10
    <2> QED BY <2>1, <2>2 DEF ReviewedOrderIsGrouped
  <1> QED BY <1>1, DraftInvHolds, TableInvHolds, PTL

===============================================================================
