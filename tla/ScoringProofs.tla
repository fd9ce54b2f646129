----------------------------- MODULE ScoringProofs -----------------------------
(***************************************************************************)
(* What scoreGroup computes, for any number of ballots and of pairs: each  *)
(* share counts the ballots that put the pair there, and the standings are *)
(* the pairs in the order of the comparator.                               *)
(***************************************************************************)
EXTENDS Scoring, FiniteSetTheorems, WellFoundedInduction, TLAPS

-------------------------------------------------------------------------------
(***************************************************************************)
(* Sums over finite sets.                                                  *)
(***************************************************************************)

\* Of the subsets of a finite set that are bad, one is not so with any element less.
LEMMA SmallestSet ==
  ASSUME NEW S, IsFiniteSet(S), NEW Bad, Bad \subseteq SUBSET S, Bad # {}
  PROVE  \E s \in Bad : \A x \in s : s \ {x} \notin Bad
  <1>1. Bad \subseteq FiniteSubsetsOf(S)
    BY FS_Subset DEF FiniteSubsetsOf
  <1>2. PICK s \in Bad : \A t \in Bad : ~(<<t, s>> \in StrictSubsetOrdering(S))
    BY <1>1, FS_StrictSubsetOrderingWellFounded, WFMin
  <1>3. ASSUME NEW x \in s, s \ {x} \in Bad PROVE FALSE
    <2>1. <<s \ {x}, s>> \in StrictSubsetOrdering(S)
      BY <1>2, <1>3 DEF StrictSubsetOrdering
    <2> QED BY <1>2, <1>3, <2>1
  <1> QED BY <1>2, <1>3

\* The recursion of MapThenSumSet, with what is summed as a function.
First(s) == CHOOSE x \in s : TRUE

Less(s) == s \ {First(s)}

SumsUp(it, f, S) ==
  it = [s \in SUBSET S |-> IF s = {} THEN 0 ELSE f[First(s)] + it[s \ {First(s)}]]

SumOf(f, S) == (CHOOSE it : SumsUp(it, f, S))[S]

LEMMA FirstIn ==
  /\ \A s : s # {} => First(s) \in s
  /\ \A x : First({x}) = x
  BY DEF First

LEMMA SumStepOf ==
  ASSUME NEW S, NEW f, NEW it, SumsUp(it, f, S), NEW s \in SUBSET S
  PROVE  it[s] = IF s = {} THEN 0 ELSE f[First(s)] + it[Less(s)]
  BY DEF SumsUp, Less

\* Two solutions agree where both are defined.
LEMMA SumsAgree ==
  ASSUME NEW f, NEW A, NEW B, NEW a, NEW b, SumsUp(a, f, A), SumsUp(b, f, B),
         NEW S, IsFiniteSet(S), S \subseteq A, S \subseteq B
  PROVE  a[S] = b[S]
  <1> DEFINE Bad == {s \in SUBSET S : a[s] # b[s]}
  <1> SUFFICES ASSUME Bad # {} PROVE FALSE
    OBVIOUS
  <1>1. PICK s \in Bad : \A x \in s : s \ {x} \notin Bad
    <2>1. Bad \subseteq SUBSET S
      OBVIOUS
    <2> HIDE DEF Bad
    <2> QED BY <2>1, SmallestSet
  <1>2. s \in SUBSET A /\ s \in SUBSET B /\ Less(s) \in SUBSET S
    BY DEF Less
  <1>3. /\ a[s] = IF s = {} THEN 0 ELSE f[First(s)] + a[Less(s)]
        /\ b[s] = IF s = {} THEN 0 ELSE f[First(s)] + b[Less(s)]
    BY <1>2, SumStepOf
  <1>4. s # {} => Less(s) \notin Bad
    BY <1>1, FirstIn DEF Less
  <1>5. s # {} => a[Less(s)] = b[Less(s)]
    BY <1>2, <1>4
  <1>6. a[s] = b[s]
    BY <1>3, <1>5
  <1> QED BY <1>1, <1>6

LEMMA SumExists ==
  ASSUME NEW S, IsFiniteSet(S), NEW f
  PROVE  \E it : SumsUp(it, f, S)
  <1> DEFINE Bad == {s \in SUBSET S : ~\E it : SumsUp(it, f, s)}
  <1> SUFFICES ASSUME Bad # {} PROVE FALSE
    OBVIOUS
  <1>1. PICK t \in Bad : \A x \in t : t \ {x} \notin Bad
    <2>1. Bad \subseteq SUBSET S
      OBVIOUS
    <2> HIDE DEF Bad
    <2> QED BY <2>1, SmallestSet
  <1>2. \A x \in t : \E it : SumsUp(it, f, t \ {x})
    BY <1>1
  <1> DEFINE Sol(x) == CHOOSE it : SumsUp(it, f, t \ {x})
             top == IF t = {} THEN 0 ELSE f[First(t)] + Sol(First(t))[Less(t)]
             e == [s \in SUBSET t |-> IF s = t THEN top ELSE Sol(First(t \ s))[s]]
  <1>3. \A x \in t : SumsUp(Sol(x), f, t \ {x})
    BY <1>2
  <1>4. /\ e[t] = top
        /\ \A s \in SUBSET t : s # t => e[s] = Sol(First(t \ s))[s]
    OBVIOUS
  <1>5. \A s \in SUBSET t : IsFiniteSet(s)
    BY <1>1, FS_Subset
  <1> HIDE DEF Sol, top, e
  <1>6. ASSUME NEW s \in SUBSET t
        PROVE  e[s] = IF s = {} THEN 0 ELSE f[First(s)] + e[Less(s)]
    <2>1. CASE s = t /\ s # {}
      <3>1. First(t) \in t /\ Less(t) # t /\ t \ Less(t) = {First(t)} /\ Less(t) \in SUBSET t
        BY <2>1, FirstIn DEF Less
      <3>2. e[Less(t)] = Sol(First(t))[Less(t)]
        BY <1>4, <3>1, FirstIn
      <3> QED BY <1>4, <2>1, <3>2 DEF top
    <2>2. CASE s = t /\ s = {}
      BY <1>4, <2>2 DEF top
    <2>3. CASE s # t
      <3> DEFINE x == First(t \ s)
                 y == First(t \ Less(s))
      <3>1. x \in t /\ s \in SUBSET (t \ {x})
        BY <2>3, FirstIn
      <3>2. SumsUp(Sol(x), f, t \ {x}) /\ e[s] = Sol(x)[s]
        BY <1>3, <1>4, <2>3, <3>1
      <3> HIDE DEF x, y
      <3>3. e[s] = IF s = {} THEN 0 ELSE f[First(s)] + Sol(x)[Less(s)]
        BY <3>1, <3>2, SumStepOf
      <3>4. CASE s = {}
        BY <3>3, <3>4
      <3>5. CASE s # {}
        <4>1. Less(s) \in SUBSET t /\ Less(s) # t /\ Less(s) \subseteq t \ {x}
          BY <2>3, <3>1 DEF Less
        <4>2. y \in t /\ Less(s) \subseteq t \ {y}
          BY <4>1, FirstIn DEF y
        <4>3. SumsUp(Sol(y), f, t \ {y}) /\ e[Less(s)] = Sol(y)[Less(s)]
          BY <1>3, <1>4, <4>1, <4>2 DEF y
        <4>4. Sol(x)[Less(s)] = Sol(y)[Less(s)]
          BY <1>5, <3>2, <4>1, <4>2, <4>3, SumsAgree
        <4> QED BY <3>3, <3>5, <4>3, <4>4
      <3> QED BY <3>4, <3>5
    <2> QED BY <2>1, <2>2, <2>3
  <1>7. SumsUp(e, f, t)
    <2>1. e = [s \in SUBSET t |-> e[s]]
      BY DEF e
    <2>2. e = [s \in SUBSET t |-> IF s = {} THEN 0 ELSE f[First(s)] + e[s \ {First(s)}]]
      BY <1>6, <2>1 DEF Less
    <2> QED BY <2>2 DEF SumsUp
  <1> QED BY <1>1, <1>7

\* What a sum is: nothing, or the chosen element and the sum of the others.
LEMMA SumStep ==
  ASSUME NEW S, IsFiniteSet(S), NEW f
  PROVE  SumOf(f, S) = IF S = {} THEN 0 ELSE f[First(S)] + SumOf(f, Less(S))
  <1> DEFINE all == CHOOSE it : SumsUp(it, f, S)
             sub == CHOOSE it : SumsUp(it, f, Less(S))
  <1>1. IsFiniteSet(Less(S)) /\ Less(S) \in SUBSET S
    BY FS_Subset DEF Less
  <1>2. SumsUp(all, f, S) /\ SumsUp(sub, f, Less(S))
    BY <1>1, SumExists
  <1>3. SumOf(f, S) = all[S] /\ SumOf(f, Less(S)) = sub[Less(S)]
    BY DEF SumOf
  <1> HIDE DEF all, sub
  <1>4. all[Less(S)] = sub[Less(S)]
    BY <1>1, <1>2, SumsAgree
  <1> QED BY <1>2, <1>3, <1>4, SumStepOf

LEMMA SumEmpty == \A f : SumOf(f, {}) = 0
  BY SumStep, FS_EmptySet

\* Sums of integers, in any order.
Summable(f, S) == \A x \in S : f[x] \in Int

LEMMA SumType ==
  ASSUME NEW S, IsFiniteSet(S), NEW f, Summable(f, S)
  PROVE  SumOf(f, S) \in Int
  <1> DEFINE Bad == {s \in SUBSET S : SumOf(f, s) \notin Int}
  <1> SUFFICES ASSUME Bad # {} PROVE FALSE
    OBVIOUS
  <1>1. PICK s \in Bad : \A x \in s : s \ {x} \notin Bad
    <2>1. Bad \subseteq SUBSET S
      OBVIOUS
    <2> HIDE DEF Bad
    <2> QED BY <2>1, SmallestSet
  <1>2. IsFiniteSet(s) /\ s \in SUBSET S
    BY <1>1, FS_Subset
  <1>3. s # {} => /\ First(s) \in S /\ Less(s) \in SUBSET S
                  /\ Less(s) \notin Bad
    BY <1>1, <1>2, FirstIn DEF Less
  <1>4. s # {} => SumOf(f, Less(s)) \in Int /\ f[First(s)] \in Int
    BY <1>3 DEF Summable
  <1>5. SumOf(f, s) \in Int
    BY <1>2, <1>4, SumStep
  <1> QED BY <1>1, <1>5

LEMMA SumAdds ==
  ASSUME NEW S, IsFiniteSet(S), NEW f, Summable(f, S), NEW x \in S
  PROVE  SumOf(f, S) = f[x] + SumOf(f, S \ {x})
  <1> DEFINE Bad == {s \in SUBSET S : \E y \in s : SumOf(f, s) # f[y] + SumOf(f, s \ {y})}
  <1> SUFFICES ASSUME Bad # {} PROVE FALSE
    OBVIOUS
  <1>1. PICK s \in Bad : \A y \in s : s \ {y} \notin Bad
    <2>1. Bad \subseteq SUBSET S
      OBVIOUS
    <2> HIDE DEF Bad
    <2> QED BY <2>1, SmallestSet
  <1>2. PICK y \in s : SumOf(f, s) # f[y] + SumOf(f, s \ {y})
    BY <1>1
  <1> DEFINE z == First(s)
  <1>3. s \in SUBSET S /\ IsFiniteSet(s) /\ z \in s /\ Less(s) = s \ {z}
    BY <1>1, <1>2, FS_Subset, FirstIn DEF Less
  <1>4. SumOf(f, s) = f[z] + SumOf(f, s \ {z})
    BY <1>3, SumStep
  <1>5. y # z
    BY <1>2, <1>4
  <1> HIDE DEF z
  <1>6. (s \ {y}) \ {z} = (s \ {z}) \ {y}
    OBVIOUS
  <1>7. SumOf(f, s \ {y}) = f[z] + SumOf(f, (s \ {y}) \ {z})
    <2>1. s \ {y} \in SUBSET S /\ z \in s \ {y}
      BY <1>3, <1>5
    <2> QED BY <1>1, <1>2, <2>1
  <1>8. SumOf(f, s \ {z}) = f[y] + SumOf(f, (s \ {z}) \ {y})
    <2>1. s \ {z} \in SUBSET S /\ y \in s \ {z}
      BY <1>2, <1>3, <1>5
    <2> QED BY <1>1, <1>3, <2>1
  <1>9. /\ f[y] \in Int /\ f[z] \in Int /\ SumOf(f, (s \ {z}) \ {y}) \in Int
    <2>1. (s \ {z}) \ {y} \in SUBSET S /\ IsFiniteSet((s \ {z}) \ {y})
      BY <1>3, FS_Subset
    <2>2. Summable(f, (s \ {z}) \ {y})
      BY <2>1 DEF Summable
    <2> QED BY <1>2, <1>3, <2>1, <2>2, SumType DEF Summable
  <1> DEFINE r == SumOf(f, (s \ {z}) \ {y})
  <1>10. /\ SumOf(f, s) = f[z] + (f[y] + r)
         /\ SumOf(f, s \ {y}) = f[z] + r
    BY <1>4, <1>6, <1>7, <1>8
  <1> HIDE DEF r
  <1>11. f[z] + (f[y] + r) = f[y] + (f[z] + r)
    BY <1>9 DEF r
  <1> QED BY <1>2, <1>10, <1>11

LEMMA SumSingle ==
  ASSUME NEW x, NEW f, f[x] \in Int
  PROVE  SumOf(f, {x}) = f[x]
  <1>1. IsFiniteSet({x}) /\ First({x}) = x /\ Less({x}) = {}
    BY FS_Singleton, FirstIn DEF Less
  <1>2. SumOf(f, {x}) = f[First({x})] + SumOf(f, Less({x}))
    BY <1>1, SumStep
  <1>3. SumOf(f, {x}) = f[x] + 0
    BY <1>1, <1>2, SumEmpty
  <1> QED BY <1>3

\* Equal terms, equal sums.
LEMMA SumSame ==
  ASSUME NEW S, IsFiniteSet(S), NEW f, NEW g, \A x \in S : f[x] = g[x]
  PROVE  SumOf(f, S) = SumOf(g, S)
  <1> DEFINE Bad == {s \in SUBSET S : SumOf(f, s) # SumOf(g, s)}
  <1> SUFFICES ASSUME Bad # {} PROVE FALSE
    OBVIOUS
  <1>1. PICK s \in Bad : \A y \in s : s \ {y} \notin Bad
    <2>1. Bad \subseteq SUBSET S
      OBVIOUS
    <2> HIDE DEF Bad
    <2> QED BY <2>1, SmallestSet
  <1>2. s \in SUBSET S /\ IsFiniteSet(s)
    BY <1>1, FS_Subset
  <1>3. s # {} => First(s) \in S /\ Less(s) \in SUBSET S /\ Less(s) \notin Bad
    BY <1>1, <1>2, FirstIn DEF Less
  <1>4. SumOf(f, s) = SumOf(g, s)
    BY <1>2, <1>3, SumStep
  <1> QED BY <1>1, <1>4

LEMMA SumOfZeros ==
  ASSUME NEW S, IsFiniteSet(S), NEW f, \A x \in S : f[x] = 0
  PROVE  SumOf(f, S) = 0
  <1> DEFINE Bad == {s \in SUBSET S : SumOf(f, s) # 0}
  <1> SUFFICES ASSUME Bad # {} PROVE FALSE
    OBVIOUS
  <1>1. PICK s \in Bad : \A y \in s : s \ {y} \notin Bad
    <2>1. Bad \subseteq SUBSET S
      OBVIOUS
    <2> HIDE DEF Bad
    <2> QED BY <2>1, SmallestSet
  <1>2. s \in SUBSET S /\ IsFiniteSet(s)
    BY <1>1, FS_Subset
  <1>3. s # {} => First(s) \in S /\ Less(s) \in SUBSET S /\ Less(s) \notin Bad
    BY <1>1, <1>2, FirstIn DEF Less
  <1>4. SumOf(f, s) = 0
    BY <1>2, <1>3, SumStep
  <1> QED BY <1>1, <1>4

\* One term that grows by an amount, and the sum grows by it.
LEMMA SumGrows ==
  ASSUME NEW S, IsFiniteSet(S), NEW f, NEW g, Summable(f, S), NEW x \in S, NEW d \in Int,
         g[x] = f[x] + d, \A y \in S : y # x => g[y] = f[y]
  PROVE  SumOf(g, S) = SumOf(f, S) + d
  <1>1. Summable(g, S)
    BY DEF Summable
  <1>2. IsFiniteSet(S \ {x}) /\ S \ {x} \in SUBSET S
    BY FS_Subset
  <1>3. SumOf(g, S \ {x}) = SumOf(f, S \ {x}) /\ SumOf(f, S \ {x}) \in Int
    <2>1. Summable(f, S \ {x})
      BY DEF Summable
    <2>2. \A y \in S \ {x} : g[y] = f[y]
      OBVIOUS
    <2>3. SumOf(g, S \ {x}) = SumOf(f, S \ {x})
      BY <1>2, <2>2, SumSame
    <2> QED BY <1>2, <2>1, <2>3, SumType
  <1>4. /\ SumOf(g, S) = g[x] + SumOf(g, S \ {x})
        /\ SumOf(f, S) = f[x] + SumOf(f, S \ {x})
    BY <1>1, SumAdds
  <1>5. f[x] \in Int
    BY DEF Summable
  <1> QED BY <1>3, <1>4, <1>5

-------------------------------------------------------------------------------
(***************************************************************************)
(* The positions on the ballots, added up one by one or by how many        *)
(* ballots have each position.                                             *)
(***************************************************************************)
Having(b, V, p) == {v \in V : b[v] = p}

Weights(b, V, size) == [p \in 1..size |-> p * Cardinality(Having(b, V, p))]

LEMMA CountedEitherWay ==
  ASSUME NEW V, IsFiniteSet(V), NEW size \in Nat, NEW b, \A v \in V : b[v] \in 1..size
  PROVE  SumOf(b, V) = SumOf(Weights(b, V, size), 1..size)
  <1> DEFINE Bad == {s \in SUBSET V : SumOf(b, s) # SumOf(Weights(b, s, size), 1..size)}
  <1> SUFFICES ASSUME Bad # {} PROVE FALSE
    OBVIOUS
  <1>1. PICK s \in Bad : \A v \in s : s \ {v} \notin Bad
    <2>1. Bad \subseteq SUBSET V
      OBVIOUS
    <2> HIDE DEF Bad
    <2> QED BY <2>1, SmallestSet
  <1>2. s \in SUBSET V /\ IsFiniteSet(s)
    BY <1>1, FS_Subset
  <1>3. IsFiniteSet(1..size)
    BY FS_Interval
  <1>4. \A t \in SUBSET s, p \in 1..size :
          IsFiniteSet(Having(b, t, p)) /\ Cardinality(Having(b, t, p)) \in Nat
    <2>1. \A t \in SUBSET s, p \in 1..size : Having(b, t, p) \in SUBSET s
      BY DEF Having
    <2>2. \A t \in SUBSET s, p \in 1..size : IsFiniteSet(Having(b, t, p))
      BY <1>2, <2>1, FS_Subset
    <2> QED BY <2>2, FS_CardinalityType
  <1>5. \A t \in SUBSET s : Summable(Weights(b, t, size), 1..size)
    <2>1. ASSUME NEW t \in SUBSET s, NEW p \in 1..size
          PROVE  Weights(b, t, size)[p] \in Int
      <3>1. Cardinality(Having(b, t, p)) \in Int /\ p \in Int
        BY <1>4
      <3>2. p * Cardinality(Having(b, t, p)) \in Int
        BY <3>1
      <3> QED BY <3>2 DEF Weights
    <2> QED BY <2>1 DEF Summable
  <1>6. CASE s = {}
    <2>1. \A p \in 1..size : Having(b, s, p) = {}
      BY <1>6 DEF Having
    <2>2. ASSUME NEW p \in 1..size
          PROVE  Weights(b, s, size)[p] = 0
      <3>1. Cardinality(Having(b, s, p)) = 0
        BY <2>1, FS_EmptySet
      <3>2. p \in Int
        OBVIOUS
      <3>3. p * 0 = 0
        BY <3>2
      <3> QED BY <3>1, <3>3 DEF Weights
    <2>3. SumOf(Weights(b, s, size), 1..size) = 0
      BY <1>3, <2>2, SumOfZeros
    <2> QED BY <1>1, <1>6, <2>3, SumEmpty
  <1>7. CASE s # {}
    <2>1. PICK v \in s : TRUE
      BY <1>7
    <2> DEFINE t == s \ {v}
               k == b[v]
               f == Weights(b, t, size)
               g == Weights(b, s, size)
    <2>2. t \in SUBSET V /\ t \in SUBSET s /\ k \in 1..size /\ t \notin Bad
      BY <1>1, <1>2
    <2>3. SumOf(b, t) = SumOf(f, 1..size)
      BY <2>2
    <2>4. SumOf(b, s) = k + SumOf(b, t)
      <3>1. Summable(b, s)
        BY <1>2 DEF Summable
      <3> QED BY <1>2, <3>1, SumAdds
    <2>5. g[k] = f[k] + k
      <3>1. Having(b, s, k) = Having(b, t, k) \cup {v} /\ v \notin Having(b, t, k)
        BY DEF Having
      <3>2. Cardinality(Having(b, s, k)) = Cardinality(Having(b, t, k)) + 1
        BY <1>4, <2>2, <3>1, FS_AddElement
      <3>3. Cardinality(Having(b, t, k)) \in Nat
        BY <1>4, <2>2
      <3> HIDE DEF t, k
      <3>4. k \in Int /\ k \in 1..size
        BY <2>2
      <3>5. k * (Cardinality(Having(b, t, k)) + 1) = k * Cardinality(Having(b, t, k)) + k
        BY <3>3, <3>4
      <3> QED BY <3>2, <3>4, <3>5 DEF Weights
    <2>6. \A p \in 1..size : p # k => g[p] = f[p]
      <3>1. \A p \in 1..size : p # k => Having(b, s, p) = Having(b, t, p)
        BY DEF Having
      <3> HIDE DEF t, k
      <3> QED BY <3>1 DEF Weights
    <2>7. SumOf(g, 1..size) = SumOf(f, 1..size) + k
      <3>1. Summable(f, 1..size)
        BY <1>5, <2>2
      <3> HIDE DEF t, k, f, g
      <3> QED BY <1>3, <2>2, <2>5, <2>6, <3>1, SumGrows
    <2>8. SumOf(f, 1..size) \in Int
      BY <1>3, <1>5, <2>2, SumType
    <2> HIDE DEF t, k, f
    <2>9. SumOf(b, s) = SumOf(g, 1..size)
      BY <2>2, <2>3, <2>4, <2>7, <2>8
    <2> QED BY <1>1, <2>9
  <1> QED BY <1>6, <1>7

-------------------------------------------------------------------------------
(***************************************************************************)
(* The views: each share is the ballots that put the pair there.           *)
(***************************************************************************)

\* The ballots of a group: finitely many, each with a position for every pair.
Ballots(b, ids, size) ==
  /\ IsFiniteSet(DOMAIN b)
  /\ \A v \in DOMAIN b : DOMAIN b[v] = ids /\ \A id \in ids : b[v][id] \in 1..size

Supporters(b, id, position) == {v \in DOMAIN b : b[v][id] = position}

CountRow(b, id, position) ==
  [pair |-> id, position |-> position, votes |-> Cardinality(Supporters(b, id, position))]

CountsAt(counts, id, position) == {c \in counts : c.pair = id /\ c.position = position}

LEMMA RowsOfView ==
  ASSUME NEW b, NEW ids, NEW size, Ballots(b, ids, size), NEW id \in ids, NEW position
  PROVE  CountsAt(positionCounts(b), id, position) =
           IF Supporters(b, id, position) = {} THEN {} ELSE {CountRow(b, id, position)}
  <1> DEFINE placed == UNION {{<<p, b[v][p]>> : p \in DOMAIN b[v]} : v \in DOMAIN b}
             rows == positionCounts(b)
  <1>1. \A c : c \in rows <=> \E x \in placed : c = CountRow(b, x[1], x[2])
    BY DEF positionCounts, CountRow, Supporters
  <1>2. \A x : x \in placed <=> \E v \in DOMAIN b, p \in ids : x = <<p, b[v][p]>>
    BY DEF Ballots
  <1>3. \A c \in rows : \E v \in DOMAIN b, p \in ids : c = CountRow(b, p, b[v][p])
    BY <1>1, <1>2
  <1>4. \A v \in DOMAIN b, p \in ids : CountRow(b, p, b[v][p]) \in rows
    <2> SUFFICES ASSUME NEW v \in DOMAIN b, NEW p \in ids
                 PROVE  CountRow(b, p, b[v][p]) \in rows
      OBVIOUS
    <2>1. <<p, b[v][p]>> \in placed
      BY <1>2
    <2>2. <<p, b[v][p]>>[1] = p /\ <<p, b[v][p]>>[2] = b[v][p]
      OBVIOUS
    <2> QED BY <1>1, <2>1, <2>2
  <1> HIDE DEF rows, placed
  <1>5. \A c \in CountsAt(rows, id, position) :
          Supporters(b, id, position) # {} /\ c = CountRow(b, id, position)
    <2> SUFFICES ASSUME NEW c \in CountsAt(rows, id, position)
                 PROVE  Supporters(b, id, position) # {} /\ c = CountRow(b, id, position)
      OBVIOUS
    <2>1. c \in rows /\ c.pair = id /\ c.position = position
      BY DEF CountsAt
    <2>2. PICK v \in DOMAIN b, p \in ids : c = CountRow(b, p, b[v][p])
      BY <1>3, <2>1
    <2>3. p = id /\ b[v][p] = position
      BY <2>1, <2>2 DEF CountRow
    <2> QED BY <2>2, <2>3 DEF Supporters
  <1>6. CASE Supporters(b, id, position) = {}
    BY <1>5, <1>6 DEF rows
  <1>7. CASE Supporters(b, id, position) # {}
    <2>1. PICK v \in DOMAIN b : b[v][id] = position
      BY <1>7 DEF Supporters
    <2>2. CountRow(b, id, position) \in CountsAt(rows, id, position)
      BY <1>4, <2>1 DEF CountsAt, CountRow
    <2> QED BY <1>5, <1>7, <2>2 DEF rows
  <1> QED BY <1>6, <1>7

LEMMA VotesCounted ==
  ASSUME NEW b, NEW ids, NEW size, Ballots(b, ids, size), NEW id \in ids, NEW position
  PROVE  votesFor(positionCounts(b), id, position) = Cardinality(Supporters(b, id, position))
  <1> DEFINE S == CountsAt(positionCounts(b), id, position)
             f == [c \in S |-> c.votes]
             row == CountRow(b, id, position)
  <1>1. votesFor(positionCounts(b), id, position) = SumOf(f, S)
    BY Zenon DEF MapThenSumSet, MapThenFoldSet, votesFor, CountsAt, SumOf, SumsUp, First
  <1>2. S = IF Supporters(b, id, position) = {} THEN {} ELSE {row}
    BY RowsOfView
  <1>3. IsFiniteSet(Supporters(b, id, position))
        /\ Cardinality(Supporters(b, id, position)) \in Nat
    BY FS_Subset, FS_CardinalityType DEF Ballots, Supporters
  <1>4. row.votes = Cardinality(Supporters(b, id, position))
    BY DEF CountRow
  <1>5. row \in S => f[row] = row.votes
    OBVIOUS
  <1> HIDE DEF S, f, row
  <1>6. CASE Supporters(b, id, position) = {}
    BY <1>1, <1>2, <1>6, SumEmpty, FS_EmptySet
  <1>7. CASE Supporters(b, id, position) # {}
    <2>1. S = {row} /\ f[row] = Cardinality(Supporters(b, id, position))
      BY <1>2, <1>4, <1>5, <1>7
    <2>2. SumOf(f, {row}) = f[row]
      BY <1>3, <2>1, SumSingle
    <2> QED BY <1>1, <2>1, <2>2
  <1> QED BY <1>6, <1>7

\* The weighted sum that the comparator goes by is the sum of the positions on the ballots.
OnBallots(b, id) == [v \in DOMAIN b |-> b[v][id]]

LEMMA WeightIsSum ==
  ASSUME NEW b, NEW ids, NEW size \in Nat, Ballots(b, ids, size), NEW id \in ids
  PROVE  weightedVotes(positionCounts(b), id, size) = SumOf(OnBallots(b, id), DOMAIN b)
  <1> DEFINE counts == positionCounts(b)
             w == [p \in 1..size |-> p * votesFor(counts, id, p)]
             V == DOMAIN b
  <1>1. weightedVotes(counts, id, size) = SumOf(w, 1..size)
    BY Zenon DEF MapThenSumSet, MapThenFoldSet, weightedVotes, SumOf, SumsUp, First
  <1>2. \A p \in 1..size : Having(OnBallots(b, id), V, p) = Supporters(b, id, p)
    BY DEF Having, OnBallots, Supporters
  <1>3. \A p \in 1..size : w[p] = Weights(OnBallots(b, id), V, size)[p]
    BY <1>2, VotesCounted DEF Weights
  <1>4. SumOf(w, 1..size) = SumOf(Weights(OnBallots(b, id), V, size), 1..size)
    <2>1. IsFiniteSet(1..size)
      BY FS_Interval
    <2> HIDE DEF w
    <2> QED BY <1>3, <2>1, SumSame
  <1>5. SumOf(OnBallots(b, id), V) = SumOf(Weights(OnBallots(b, id), V, size), 1..size)
    <2>1. IsFiniteSet(V) /\ \A v \in V : OnBallots(b, id)[v] \in 1..size
      BY DEF Ballots, OnBallots
    <2> HIDE DEF V
    <2> QED BY <2>1, CountedEitherWay
  <1> QED BY <1>1, <1>4, <1>5

-------------------------------------------------------------------------------
(***************************************************************************)
(* Ranks.                                                                  *)
(***************************************************************************)

\* Where the elements of a finite set each come with the set of those up to them, and these
\* sets are one inside the other, their sizes are the ranks from the first to the last.
Nested(upTo, S) ==
  /\ \A t \in S : t \in upTo[t] /\ upTo[t] \subseteq S
  /\ \A t, u \in S : t # u => \/ upTo[t] \subseteq upTo[u] /\ u \notin upTo[t]
                              \/ upTo[u] \subseteq upTo[t] /\ t \notin upTo[u]

Ranked(upTo, S) ==
  /\ \A t \in S : Cardinality(upTo[t]) \in 1..Cardinality(S)
  /\ \A t, u \in S : Cardinality(upTo[t]) = Cardinality(upTo[u]) => t = u
  /\ \A n \in 1..Cardinality(S) : \E t \in S : Cardinality(upTo[t]) = n

LEMMA Ranks ==
  ASSUME NEW S, IsFiniteSet(S), NEW upTo, Nested(upTo, S)
  PROVE  Ranked(upTo, S)
  <1>1. Cardinality(S) \in Nat
    BY FS_CardinalityType
  <1>2. ASSUME NEW t \in S
        PROVE  IsFiniteSet(upTo[t]) /\ Cardinality(upTo[t]) \in 1..Cardinality(S)
    <2>1. /\ upTo[t] \in SUBSET S /\ IsFiniteSet(upTo[t])
          /\ Cardinality(upTo[t]) <= Cardinality(S)
      BY FS_Subset DEF Nested
    <2>2. Cardinality(upTo[t]) \in Nat /\ Cardinality(upTo[t]) # 0
      BY <2>1, FS_CardinalityType, FS_EmptySet DEF Nested
    <2> QED BY <1>1, <2>1, <2>2
  <1>3. ASSUME NEW t \in S, NEW u \in S, t # u, upTo[t] \subseteq upTo[u], u \notin upTo[t]
        PROVE  Cardinality(upTo[t]) # Cardinality(upTo[u])
    <2>1. upTo[t] \in SUBSET upTo[u] /\ upTo[u] # upTo[t]
      BY <1>3 DEF Nested
    <2> QED BY <1>2, <2>1, FS_Subset
  <1>4. \A t, u \in S : Cardinality(upTo[t]) = Cardinality(upTo[u]) => t = u
    BY <1>3 DEF Nested
  <1> DEFINE rank == [t \in S |-> Cardinality(upTo[t])]
  <1>5. rank \in Injection(S, 1..Cardinality(S))
    BY <1>2, <1>4 DEF Injection, IsInjective
  <1>6. /\ IsFiniteSet(1..Cardinality(S))
        /\ Cardinality(1..Cardinality(S)) = Cardinality(S)
    BY <1>1, FS_Interval
  <1>7. rank \in Surjection(S, 1..Cardinality(S))
    <2> HIDE DEF rank
    <2> QED BY <1>5, <1>6, FS_Injection
  <1>8. \A n \in 1..Cardinality(S) : \E t \in S : rank[t] = n
    <2> HIDE DEF rank
    <2> QED BY <1>7 DEF Surjection
  <1> QED BY <1>2, <1>4, <1>8 DEF Ranked

-------------------------------------------------------------------------------
(***************************************************************************)
(* The sort: a total order, and where it puts each pair.                   *)
(***************************************************************************)
Comparable(a) == /\ a.weighted \in Int /\ a.firstPlaceVotes \in Int
                 /\ a.totalPoints \in Int /\ a.id \in Int

LEMMA BeforeIsOrder ==
  ASSUME NEW a, NEW b, NEW c, Comparable(a), Comparable(b), Comparable(c)
  PROVE  /\ ~before(a, a)
         /\ before(a, b) => ~before(b, a)
         /\ a.id # b.id => before(a, b) \/ before(b, a)
         /\ before(a, b) /\ before(b, c) => before(a, c)
  BY DEF before, Comparable

\* Scored pairs as they are sorted: each with its index, with ids of their own.
Sortable(scored) ==
  /\ IsFiniteSet(scored)
  /\ \A x \in scored : x[1] \in Int /\ Comparable(x[2])
  /\ \A x, y \in scored : x # y => x[2].id # y[2].id

WellSorted(scored) ==
  /\ \A x \in scored : sortedPlace(scored, x) \in 1..Cardinality(scored)
  /\ \A n \in 1..Cardinality(scored) : \E x \in scored : sortedPlace(scored, x) = n
  /\ \A x, y \in scored : sortedPlace(scored, x) = sortedPlace(scored, y) => x = y
  /\ \A x, y \in scored : before(x[2], y[2]) <=> sortedPlace(scored, x) < sortedPlace(scored, y)

LEMMA SortSorts ==
  ASSUME NEW scored, Sortable(scored)
  PROVE  WellSorted(scored)
  <1> DEFINE ahead(x) == {y \in scored : before(y[2], x[2])}
             upTo == [x \in scored |-> ahead(x) \cup {x}]
  <1>1. \A x, y \in scored : /\ ~before(x[2], x[2])
                             /\ before(x[2], y[2]) => ~before(y[2], x[2])
                             /\ x # y => before(x[2], y[2]) \/ before(y[2], x[2])
    BY BeforeIsOrder DEF Sortable
  <1>2. \A x, y, z \in scored : before(x[2], y[2]) /\ before(y[2], z[2]) => before(x[2], z[2])
    BY BeforeIsOrder DEF Sortable
  <1>3. Nested(upTo, scored)
    <2>1. \A x \in scored : x \in upTo[x] /\ upTo[x] \subseteq scored
      OBVIOUS
    <2>2. ASSUME NEW x \in scored, NEW y \in scored, before(x[2], y[2])
          PROVE  upTo[x] \subseteq upTo[y] /\ y \notin upTo[x]
      BY <1>1, <1>2, <2>2
    <2> HIDE DEF upTo
    <2> QED BY <1>1, <2>1, <2>2 DEF Nested
  <1>4. Ranked(upTo, scored)
    <2> HIDE DEF upTo
    <2> QED BY <1>3, Ranks DEF Sortable
  <1>5. ASSUME NEW x \in scored
        PROVE  sortedPlace(scored, x) = Cardinality(upTo[x])
    <2>1. {y \in scored : \/ before(y[2], x[2])
                          \/ y[1] < x[1] /\ ~before(x[2], y[2])} = ahead(x)
      <3>1. ASSUME NEW y \in scored, y[1] < x[1], ~before(x[2], y[2])
            PROVE  before(y[2], x[2])
        <4>1. x # y
          BY <3>1 DEF Sortable
        <4> QED BY <1>1, <3>1, <4>1
      <3> QED BY <3>1
    <2>2. IsFiniteSet(ahead(x)) /\ x \notin ahead(x) /\ Cardinality(ahead(x)) \in Nat
      <3>1. ahead(x) \in SUBSET scored
        OBVIOUS
      <3>2. IsFiniteSet(ahead(x))
        BY <3>1, FS_Subset DEF Sortable
      <3> QED BY <1>1, <3>2, FS_CardinalityType
    <2>3. upTo[x] = ahead(x) \cup {x}
      OBVIOUS
    <2>4. sortedPlace(scored, x) = 1 + Cardinality(ahead(x))
      BY <2>1 DEF sortedPlace
    <2>5. Cardinality(ahead(x) \cup {x}) = Cardinality(ahead(x)) + 1
      BY <2>2, FS_AddElement
    <2>6. 1 + Cardinality(ahead(x)) = Cardinality(ahead(x)) + 1
      BY <2>2
    <2> HIDE DEF ahead, upTo
    <2> QED BY <2>3, <2>4, <2>5, <2>6
  <1>6. ASSUME NEW x \in scored, NEW y \in scored, before(x[2], y[2])
        PROVE  Cardinality(upTo[x]) < Cardinality(upTo[y])
    <2>1. upTo[x] \in SUBSET upTo[y] /\ upTo[x] # upTo[y] /\ upTo[y] \in SUBSET scored
      BY <1>1, <1>2, <1>6
    <2> HIDE DEF upTo
    <2>2. IsFiniteSet(upTo[y]) /\ IsFiniteSet(upTo[x])
      BY <2>1, FS_Subset DEF Sortable
    <2>3. Cardinality(upTo[x]) <= Cardinality(upTo[y])
          /\ Cardinality(upTo[y]) # Cardinality(upTo[x])
      BY <2>1, <2>2, FS_Subset
    <2> QED BY <2>2, <2>3, FS_CardinalityType
  <1>7. \A x, y \in scored :
          before(x[2], y[2]) <=> Cardinality(upTo[x]) < Cardinality(upTo[y])
    <2> HIDE DEF upTo
    <2>1. \A x \in scored : Cardinality(upTo[x]) \in Int
      BY <1>4 DEF Ranked
    <2> QED BY <1>1, <1>6, <2>1
  <1> HIDE DEF upTo
  <1> QED BY <1>4, <1>5, <1>7 DEF WellSorted, Ranked

-------------------------------------------------------------------------------
(***************************************************************************)
(* scoreGroup.                                                             *)
(***************************************************************************)
PairList(pairs) ==
  /\ Len(pairs) \in Nat /\ DOMAIN pairs = 1..Len(pairs)
  /\ \A i \in DOMAIN pairs : pairs[i].id \in Int /\ pairs[i].totalPoints \in Int
  /\ \A i, j \in DOMAIN pairs : pairs[i].id = pairs[j].id => i = j

IdsOf(pairs) == {pairs[i].id : i \in DOMAIN pairs}

ScoreOf(b, pairs, i) == scoredPair(positionCounts(b), pairs[i], Len(pairs))

\* What a score says of the ballots.
LEMMA ScoreIsCount ==
  ASSUME NEW pairs, PairList(pairs), NEW b, Ballots(b, IdsOf(pairs), Len(pairs)),
         NEW i \in DOMAIN pairs
  PROVE  /\ ScoreOf(b, pairs, i).id = pairs[i].id
         /\ ScoreOf(b, pairs, i).totalPoints = pairs[i].totalPoints
         /\ ScoreOf(b, pairs, i).weighted = SumOf(OnBallots(b, pairs[i].id), DOMAIN b)
         /\ ScoreOf(b, pairs, i).firstPlaceVotes = Cardinality(Supporters(b, pairs[i].id, 1))
         /\ \A position \in DOMAIN pairs :
              ScoreOf(b, pairs, i).votes[position] = Cardinality(Supporters(b, pairs[i].id, position))
         /\ Comparable(ScoreOf(b, pairs, i))
  <1> DEFINE id == pairs[i].id
  <1>1. id \in IdsOf(pairs) /\ Len(pairs) \in Nat
    BY DEF IdsOf, PairList
  <1>2. weightedVotes(positionCounts(b), id, Len(pairs)) = SumOf(OnBallots(b, id), DOMAIN b)
    BY <1>1, WeightIsSum
  <1>3. \A position : votesFor(positionCounts(b), id, position)
                        = Cardinality(Supporters(b, id, position))
    BY <1>1, VotesCounted
  <1>4. SumOf(OnBallots(b, id), DOMAIN b) \in Int
    <2>1. Summable(OnBallots(b, id), DOMAIN b)
      BY <1>1 DEF Summable, OnBallots, Ballots
    <2>2. IsFiniteSet(DOMAIN b)
      BY DEF Ballots
    <2> QED BY <2>1, <2>2, SumType
  <1>5. Cardinality(Supporters(b, id, 1)) \in Int
    <2>1. Supporters(b, id, 1) \in SUBSET DOMAIN b /\ IsFiniteSet(DOMAIN b)
      BY DEF Supporters, Ballots
    <2> QED BY <2>1, FS_Subset, FS_CardinalityType
  <1> QED BY <1>2, <1>3, <1>4, <1>5 DEF ScoreOf, scoredPair, PairList, Comparable

Scored(b, pairs) == {<<i, ScoreOf(b, pairs, i)>> : i \in DOMAIN pairs}

Places(results, b, pairs) ==
  /\ DOMAIN results.standings = DOMAIN pairs
  /\ \A n \in DOMAIN pairs : \E i \in DOMAIN pairs : results.standings[n] = ScoreOf(b, pairs, i)
  /\ \A i \in DOMAIN pairs : predictedPosition(results, pairs[i].id) \in DOMAIN pairs
  /\ \A i, j \in DOMAIN pairs :
       before(ScoreOf(b, pairs, i), ScoreOf(b, pairs, j)) <=>
         predictedPosition(results, pairs[i].id) < predictedPosition(results, pairs[j].id)

LEMMA ResultsInOrder ==
  ASSUME NEW pairs, PairList(pairs), NEW b, Ballots(b, IdsOf(pairs), Len(pairs)),
         NEW count \in Nat \ {0}
  PROVE  /\ scoreGroup(pairs, count, positionCounts(b)).ballotCount = count
         /\ Places(scoreGroup(pairs, count, positionCounts(b)), b, pairs)
  <1> DEFINE results == scoreGroup(pairs, count, positionCounts(b))
             scored == Scored(b, pairs)
             place(i) == sortedPlace(scored, <<i, ScoreOf(b, pairs, i)>>)
             at(n) == CHOOSE x \in scored : sortedPlace(scored, x) = n
  <1>1. \A i \in DOMAIN pairs : i \in Int /\ Comparable(ScoreOf(b, pairs, i))
                                /\ ScoreOf(b, pairs, i).id = pairs[i].id
    <2>1. \A i \in DOMAIN pairs : i \in Int
      BY DEF PairList
    <2>2. \A i \in DOMAIN pairs : Comparable(ScoreOf(b, pairs, i)) /\ ScoreOf(b, pairs, i).id = pairs[i].id
      BY ScoreIsCount
    <2> QED BY <2>1, <2>2
  <1>2. IsFiniteSet(scored) /\ Cardinality(scored) = Len(pairs)
    <2> DEFINE f == [i \in DOMAIN pairs |-> <<i, ScoreOf(b, pairs, i)>>]
    <2>1. f \in Bijection(DOMAIN pairs, scored)
      BY DEF Bijection, Injection, Surjection, IsInjective, Scored
    <2>2. IsFiniteSet(DOMAIN pairs) /\ Cardinality(DOMAIN pairs) = Len(pairs)
      <3>1. PICK size \in Nat : size = Len(pairs) /\ DOMAIN pairs = 1..size
        BY DEF PairList
      <3>2. IsFiniteSet(1..size) /\ Cardinality(1..size) = size
        BY FS_Interval
      <3> QED BY <3>1, <3>2
    <2>3. ExistsBijection(DOMAIN pairs, scored)
      BY <2>1 DEF ExistsBijection
    <2> QED BY <2>2, <2>3, FS_Bijection
  <1>3. Sortable(scored)
    BY <1>1, <1>2 DEF Sortable, Scored, PairList
  <1>4. WellSorted(scored)
    <2> HIDE DEF scored
    <2> QED BY <1>3, SortSorts
  <1>5. \A i \in DOMAIN pairs : <<i, ScoreOf(b, pairs, i)>> \in scored
    BY DEF Scored
  <1>6. \A x \in scored : \E i \in DOMAIN pairs : x = <<i, ScoreOf(b, pairs, i)>>
    BY DEF Scored
  <1>7. /\ results.ballotCount = count
        /\ results.standings = [n \in DOMAIN pairs |-> at(n)[2]]
    BY DEF scoreGroup, Scored, ScoreOf
  <1> HIDE DEF scored, results
  <1>8. DOMAIN pairs = 1..Cardinality(scored)
    BY <1>2 DEF PairList
  <1>9. \A n \in DOMAIN pairs : at(n) \in scored /\ sortedPlace(scored, at(n)) = n
    BY <1>4, <1>8 DEF WellSorted
  <1>10. DOMAIN results.standings = DOMAIN pairs
         /\ \A n \in DOMAIN pairs : results.standings[n] = at(n)[2]
    BY <1>7
  <1> HIDE DEF at
  <1>11. ASSUME NEW n \in DOMAIN pairs
         PROVE  \E i \in DOMAIN pairs : results.standings[n] = ScoreOf(b, pairs, i)
    BY <1>6, <1>9, <1>10
  <1>12. ASSUME NEW i \in DOMAIN pairs
         PROVE  predictedPosition(results, pairs[i].id) = place(i) /\ place(i) \in DOMAIN pairs
    <2>1. place(i) \in DOMAIN pairs
      BY <1>4, <1>5, <1>8 DEF WellSorted
    <2> HIDE DEF place
    <2>2. at(place(i)) = <<i, ScoreOf(b, pairs, i)>>
      BY <1>4, <1>5, <1>9, <2>1 DEF WellSorted, place
    <2>3. results.standings[place(i)].id = pairs[i].id
      BY <1>1, <1>10, <2>1, <2>2
    <2>4. ASSUME NEW n \in DOMAIN pairs, results.standings[n].id = pairs[i].id
          PROVE  n = place(i)
      <3>1. PICK j \in DOMAIN pairs : at(n) = <<j, ScoreOf(b, pairs, j)>>
        BY <1>6, <1>9
      <3>2. pairs[j].id = pairs[i].id
        BY <1>1, <1>10, <2>4, <3>1
      <3>3. j = i
        BY <3>2 DEF PairList
      <3> QED BY <1>9, <3>1, <3>3 DEF place
    <2>5. predictedPosition(results, pairs[i].id) = place(i)
      BY <1>10, <2>1, <2>3, <2>4 DEF predictedPosition
    <2> QED BY <2>1, <2>5
  <1>13. ASSUME NEW i \in DOMAIN pairs, NEW j \in DOMAIN pairs
         PROVE  before(ScoreOf(b, pairs, i), ScoreOf(b, pairs, j)) <=> place(i) < place(j)
    <2>1. <<i, ScoreOf(b, pairs, i)>>[2] = ScoreOf(b, pairs, i)
          /\ <<j, ScoreOf(b, pairs, j)>>[2] = ScoreOf(b, pairs, j)
      OBVIOUS
    <2> QED BY <1>4, <1>5, <2>1 DEF WellSorted
  <1> HIDE DEF place
  <1>14. Places(results, b, pairs)
    BY <1>10, <1>11, <1>12, <1>13 DEF Places
  <1> QED BY <1>7, <1>14 DEF results
================================================================================
