------------------------------ MODULE RulesProofs ------------------------------
(***************************************************************************)
(* What is proved of the parts that run by themselves: the limit on        *)
(* ballots per client, the ordering a voter drafts, the walk through the   *)
(* list of tournaments, a count by hand and a player's page.               *)
(***************************************************************************)
EXTENDS Poll, RateLimit, BallotDraft, PlayerHistory, ScoringProofs, SequenceTheorems

-------------------------------------------------------------------------------
(***************************************************************************)
(* The limit: attempts allowed are counted by stretches of time.           *)
(***************************************************************************)

Between(G, a, b) == {x \in G : a <= x[1] /\ x[1] <= b}

\* Attempts that were allowed: finitely many, each with its instant and its number.
Grants(G) == IsFiniteSet(G) /\ \A x \in G : x[1] \in Int /\ x[2] \in Int

\* How many there are in a stretch grows with the stretch, and is no more than in two
\* stretches that cover it.
LEMMA Stretches ==
  ASSUME NEW G, Grants(G)
  PROVE  /\ \A a, b \in Int : Cardinality(Between(G, a, b)) \in Nat
         /\ \A a, b, c, d \in Int : c <= a /\ b <= d =>
              Cardinality(Between(G, a, b)) <= Cardinality(Between(G, c, d))
         /\ \A a, m, b \in Int :
              Cardinality(Between(G, a, b))
                <= Cardinality(Between(G, a, m - 1)) + Cardinality(Between(G, m, b))
  <1>1. \A a, b \in Int : /\ IsFiniteSet(Between(G, a, b))
                          /\ Cardinality(Between(G, a, b)) \in Nat
    <2> SUFFICES ASSUME NEW a \in Int, NEW b \in Int
                 PROVE  IsFiniteSet(Between(G, a, b)) /\ Cardinality(Between(G, a, b)) \in Nat
      OBVIOUS
    <2>1. Between(G, a, b) \in SUBSET G
      BY DEF Between
    <2>2. IsFiniteSet(Between(G, a, b))
      BY <2>1, FS_Subset DEF Grants
    <2> QED BY <2>2, FS_CardinalityType
  <1>2. ASSUME NEW a \in Int, NEW b \in Int, NEW c \in Int, NEW d \in Int, c <= a, b <= d
        PROVE  Cardinality(Between(G, a, b)) <= Cardinality(Between(G, c, d))
    <2>1. Between(G, a, b) \in SUBSET Between(G, c, d)
      BY <1>2 DEF Between, Grants
    <2> QED BY <1>1, <2>1, FS_Subset
  <1>3. ASSUME NEW a \in Int, NEW m \in Int, NEW b \in Int
        PROVE  Cardinality(Between(G, a, b))
                 <= Cardinality(Between(G, a, m - 1)) + Cardinality(Between(G, m, b))
    <2> DEFINE A == Between(G, a, m - 1)
               B == Between(G, m, b)
    <2>1. Between(G, a, b) \in SUBSET (A \cup B)
      BY DEF Between, Grants
    <2>2. IsFiniteSet(A) /\ IsFiniteSet(B) /\ Cardinality(A) \in Nat /\ Cardinality(B) \in Nat
      BY <1>1
    <2> HIDE DEF A, B
    <2>3. /\ IsFiniteSet(A \cup B)
          /\ Cardinality(A \cup B) = Cardinality(A) + Cardinality(B) - Cardinality(A \cap B)
      BY <2>2, FS_Union
    <2>4. Cardinality(A \cap B) \in Nat
      BY <2>2, FS_Intersection, FS_CardinalityType
    <2>5. Cardinality(Between(G, a, b)) <= Cardinality(A \cup B)
      BY <2>1, <2>3, FS_Subset
    <2>6. Cardinality(Between(G, a, b)) \in Nat /\ Cardinality(A \cup B) \in Nat
      BY <1>1, <2>3, FS_CardinalityType
    <2>7. Cardinality(Between(G, a, b)) <= Cardinality(A) + Cardinality(B)
      BY <2>2, <2>3, <2>4, <2>5, <2>6
    <2> QED BY <2>7 DEF A, B
  <1> QED BY <1>1, <1>2, <1>3

\* A stretch that leaves out an instant with an attempt has fewer.
LEMMA OneLess ==
  ASSUME NEW G, Grants(G), NEW a \in Int, NEW b \in Int, a <= b, \E x \in G : x[1] = a
  PROVE  Cardinality(Between(G, a + 1, b)) < Cardinality(Between(G, a, b))
  <1>1. PICK x \in G : x[1] = a
    OBVIOUS
  <1>2. x \in Between(G, a, b) /\ x \notin Between(G, a + 1, b)
    BY <1>1 DEF Between
  <1>3. Between(G, a + 1, b) \in SUBSET Between(G, a, b)
    BY DEF Between, Grants
  <1>4. IsFiniteSet(Between(G, a, b))
    <2>1. Between(G, a, b) \in SUBSET G
      BY DEF Between
    <2> QED BY <2>1, FS_Subset DEF Grants
  <1>5. /\ Cardinality(Between(G, a + 1, b)) <= Cardinality(Between(G, a, b))
        /\ Cardinality(Between(G, a + 1, b)) # Cardinality(Between(G, a, b))
    BY <1>2, <1>3, <1>4, FS_Subset
  <1>6. Cardinality(Between(G, a + 1, b)) \in Nat /\ Cardinality(Between(G, a, b)) \in Nat
    BY Stretches
  <1> QED BY <1>5, <1>6

\* One attempt more, and how it is counted in the stretches it is in.
Joined(G, c, n) == G \cup {<<c, n>>}

Grown(H, G, c) ==
  \A a, b \in Int :
    /\ a <= c /\ c <= b => Cardinality(Between(H, a, b)) = Cardinality(Between(G, a, b)) + 1
    /\ ~(a <= c /\ c <= b) => Cardinality(Between(H, a, b)) = Cardinality(Between(G, a, b))

LEMMA OneMore ==
  ASSUME NEW G, Grants(G), NEW c \in Int, NEW n \in Int, <<c, n>> \notin G
  PROVE  Grants(Joined(G, c, n)) /\ Grown(Joined(G, c, n), G, c)
  <1> DEFINE x == <<c, n>>
             H == Joined(G, c, n)
  <1>0. x[1] = c /\ x[2] = n /\ x \notin G /\ H = G \cup {x}
    BY DEF Joined
  <1> HIDE DEF x, H
  <1>1. Grants(H)
    BY <1>0, FS_AddElement DEF Grants
  <1>2. ASSUME NEW a \in Int, NEW b \in Int
        PROVE  /\ a <= c /\ c <= b => Cardinality(Between(H, a, b)) = Cardinality(Between(G, a, b)) + 1
               /\ ~(a <= c /\ c <= b) => Cardinality(Between(H, a, b)) = Cardinality(Between(G, a, b))
    <2>1. IsFiniteSet(Between(G, a, b)) /\ x \notin Between(G, a, b)
      <3>1. Between(G, a, b) \in SUBSET G
        BY DEF Between
      <3> QED BY <1>0, <3>1, FS_Subset DEF Grants
    <2>3. CASE a <= c /\ c <= b
      <3>1. Between(H, a, b) = Between(G, a, b) \cup {x}
        BY <1>0, <2>3 DEF Between
      <3>2. Cardinality(Between(G, a, b) \cup {x}) = Cardinality(Between(G, a, b)) + 1
        BY <2>1, FS_AddElement
      <3> QED BY <2>3, <3>1, <3>2
    <2>4. CASE ~(a <= c /\ c <= b)
      <3>1. Between(H, a, b) = Between(G, a, b)
        BY <1>0, <2>4 DEF Between
      <3> QED BY <2>4, <3>1
    <2> QED BY <2>3, <2>4
  <1> QED BY <1>1, <1>2 DEF Grown, H

-------------------------------------------------------------------------------
\* The window of a client that is open, and what was allowed in it: as many attempts as it
\* has counted, up to the limit, the first of them when it opened; and less than the limit
\* in the stretch before.
WindowKnown(k) ==
  LET count  == buckets[k].count
      opened == buckets[k].resetAt - WINDOW
  IN  /\ opened \in 0..clock /\ count \in Nat \ {0}
      /\ GrantedIn(k, opened, clock) = IF count <= LIMIT THEN count ELSE LIMIT
      /\ \E x \in granted[k] : x[1] = opened
      /\ GrantedIn(k, opened - WINDOW + 1, opened - 1) < LIMIT

\* What a client without a window has left of the last one, which the sweep may have
\* forgotten: less than the limit, and nothing at this instant.
WindowOver(k) ==
  /\ GrantedIn(k, clock - WINDOW + 1, clock) < LIMIT
  /\ \A x \in granted[k] : x[1] < clock

Justified(d) == GrantedIn(d.key, clock - WINDOW + 1, clock) >= LIMIT

\* The counts of one client.
ClientInv(k) ==
  /\ attempts[k] \in Nat
  /\ Grants(granted[k])
  /\ \A x \in granted[k] : x[1] <= clock /\ (x[1] = clock => x[2] < attempts[k])
  /\ IF Live(k) THEN WindowKnown(k) ELSE WindowOver(k)
  /\ \A i \in Instant : GrantedIn(k, i, i + WINDOW - 1) < 2 * LIMIT

LimitInv ==
  /\ clock \in Nat
  /\ DOMAIN buckets \subseteq Key
  /\ \A k \in DOMAIN buckets : buckets[k] = [count |-> buckets[k].count, resetAt |-> buckets[k].resetAt]
                               /\ buckets[k].resetAt \in Nat
  /\ DOMAIN granted = Key /\ attempts = [k \in Key |-> attempts[k]]
  /\ \A k \in Key : ClientInv(k)
  /\ ~decision.allowed /\ (\E k \in Key : attempts[k] # 0) => Justified(decision)

\* Counting in a client's history is counting in a stretch of it.
LEMMA Counted ==
  ASSUME NEW k
  PROVE  \A a, b : GrantedIn(k, a, b) = Cardinality(Between(granted[k], a, b))
  BY DEF GrantedIn, Between

\* A step that leaves a client's attempts and the window it has open alone.
LEMMA ClientFrame ==
  ASSUME NEW k, ClientInv(k), clock' = clock,
         granted'[k] = granted[k], attempts'[k] = attempts[k],
         Live(k)' <=> Live(k), Live(k) => buckets'[k] = buckets[k]
  PROVE  ClientInv(k)'
  <1>1. \A a, b : GrantedIn(k, a, b)' = GrantedIn(k, a, b)
    BY DEF GrantedIn
  <1> QED BY <1>1 DEF ClientInv, WindowKnown, WindowOver, Live

LEMMA LimitTypes ==
  ASSUME LimitInv
  PROVE  /\ LIMIT \in Nat /\ LIMIT > 0 /\ WINDOW \in Nat /\ WINDOW > 0
         /\ clock \in Int /\ clock \in Nat /\ \A i \in Instant : i \in Int
  BY RateLimitConstants DEF LimitInv, Instant

\* Time passes: a window that ends now held less than the limit after its first instant.
LEMMA TickInv ==
  ASSUME LimitInv, Tick
  PROVE  LimitInv'
  <1>1. /\ clock' = clock + 1 /\ clock' \in Nat /\ clock \in Int
        /\ UNCHANGED <<buckets, decision, granted>>
        /\ attempts' = [k \in Key |-> 0]
    BY LimitTypes DEF Tick
  <1>2. ASSUME NEW k \in Key PROVE ClientInv(k)'
    <2> DEFINE G == granted[k]
               N(a, b) == Cardinality(Between(G, a, b))
    <2>0. /\ LIMIT \in Nat /\ LIMIT > 0 /\ WINDOW \in Nat /\ WINDOW > 0 /\ clock \in Nat
          /\ \A i \in Instant : i \in Int
      BY LimitTypes
    <2>1. /\ ClientInv(k) /\ Grants(G) /\ \A x \in G : x[1] \in Int /\ x[1] <= clock
      BY DEF LimitInv, ClientInv, Grants
    <2>2. \A a, b : GrantedIn(k, a, b) = N(a, b) /\ GrantedIn(k, a, b)' = N(a, b)
      BY <1>1 DEF GrantedIn, Between
    <2>3. \A a \in Int : N(a, clock + 1) = N(a, clock) /\ N(a, clock) \in Nat
      <3> SUFFICES ASSUME NEW a \in Int
                   PROVE  N(a, clock + 1) = N(a, clock) /\ N(a, clock) \in Nat
        OBVIOUS
      <3>1. Between(G, a, clock + 1) = Between(G, a, clock)
        BY <2>0, <2>1 DEF Between
      <3>2. N(a, clock) \in Nat
        <4> HIDE DEF G
        <4> QED BY <1>1, <2>1, Stretches
      <3> QED BY <3>1, <3>2
    <2> HIDE DEF G
    <2>4. \A a, b, c, d \in Int : c <= a /\ b <= d => N(a, b) <= N(c, d)
      BY <2>1, Stretches
    <2>5. CASE Live(k) /\ buckets[k].resetAt > clock + 1
      <3>1. WindowKnown(k) /\ Live(k)'
        BY <1>1, <2>1, <2>5 DEF ClientInv, Live
      <3> DEFINE opened == buckets[k].resetAt - WINDOW
      <3>2. /\ opened \in 0..clock /\ buckets[k].count \in Nat \ {0}
            /\ N(opened, clock) = IF buckets[k].count <= LIMIT THEN buckets[k].count ELSE LIMIT
            /\ \E x \in granted[k] : x[1] = opened
            /\ N(opened - WINDOW + 1, opened - 1) < LIMIT
        <4> HIDE DEF N
        <4> QED BY <2>2, <3>1 DEF WindowKnown
      <3>3. N(opened, clock + 1) = N(opened, clock)
        <4> HIDE DEF N
        <4> QED BY <2>3, <3>2
      <3>4. WindowKnown(k)'
        <4>1. opened \in 0..(clock + 1)
          BY <2>0, <3>2
        <4> HIDE DEF N
        <4> QED BY <1>1, <2>2, <3>2, <3>3, <4>1 DEF WindowKnown
      <3> HIDE DEF N
      <3> QED BY <1>1, <2>0, <2>1, <2>2, <3>1, <3>4 DEF ClientInv, G
    <2>6. CASE ~(Live(k) /\ buckets[k].resetAt > clock + 1)
      <3>1. ~Live(k)'
        BY <1>1, <2>0, <2>6 DEF Live, LimitInv
      <3>2. N((clock + 1) - WINDOW + 1, clock + 1) < LIMIT
        <4>1. CASE ~Live(k)
          <5>1. N(clock - WINDOW + 1, clock) < LIMIT
            <6> HIDE DEF N
            <6> QED BY <2>1, <2>2, <4>1 DEF ClientInv, WindowOver
          <5>2. N((clock + 1) - WINDOW + 1, clock) <= N(clock - WINDOW + 1, clock)
            <6> HIDE DEF N
            <6> QED BY <2>0, <2>4
          <5>3. /\ N((clock + 1) - WINDOW + 1, clock + 1) = N((clock + 1) - WINDOW + 1, clock)
                /\ N((clock + 1) - WINDOW + 1, clock) \in Nat
                /\ N(clock - WINDOW + 1, clock) \in Nat
            <6> HIDE DEF N
            <6> QED BY <2>0, <2>3
          <5> HIDE DEF N
          <5> QED BY <2>0, <5>1, <5>2, <5>3
        <4>2. CASE Live(k)
          <5> DEFINE opened == (clock + 1) - WINDOW
          <5>1. buckets[k].resetAt - WINDOW = opened /\ opened \in Int /\ WindowKnown(k)
            BY <2>0, <2>1, <2>6, <4>2 DEF ClientInv, Live, LimitInv
          <5>2. N(opened, clock) <= LIMIT /\ (\E x \in G : x[1] = opened) /\ opened <= clock
            <6> HIDE DEF N
            <6> QED BY <2>0, <2>2, <5>1 DEF WindowKnown, G
          <5>3. N(opened + 1, clock + 1) < N(opened, clock + 1)
            <6>1. clock + 1 \in Int /\ opened <= clock + 1
              BY <2>0, <5>2
            <6> QED BY <2>1, <5>1, <5>2, <6>1, OneLess
          <5>4. /\ N(opened, clock + 1) = N(opened, clock) /\ N(opened, clock) \in Nat
                /\ N(opened + 1, clock + 1) \in Nat
            <6>1. opened + 1 \in Int
              BY <5>1
            <6> HIDE DEF N
            <6> QED BY <2>3, <5>1, <6>1
          <5> HIDE DEF N
          <5> QED BY <2>0, <5>2, <5>3, <5>4
        <4> QED BY <4>1, <4>2
      <3>3. \A x \in G : x[1] < clock + 1
        BY <2>0, <2>1
      <3>4. WindowOver(k)'
        <4> HIDE DEF N
        <4> QED BY <1>1, <2>2, <3>2, <3>3 DEF WindowOver, G
      <3> HIDE DEF N
      <3> QED BY <1>1, <2>0, <2>1, <2>2, <3>1, <3>3, <3>4 DEF ClientInv, G
    <2> QED BY <2>5, <2>6
  <1>3. \A k \in Key : ~(attempts'[k] # 0)
    BY <1>1
  <1> QED BY <1>1, <1>2, <1>3 DEF LimitInv

\* An allowed attempt more, at the present instant, keeps any stretch of a window's length
\* below twice the limit, if the last one held less than twice that before.
LEMMA AllowedOnce ==
  ASSUME LimitInv, NEW k \in Key, NEW H, H = Joined(granted[k], clock, attempts[k]),
         GrantedIn(k, clock - WINDOW + 1, clock) < 2 * LIMIT - 1
  PROVE  /\ Grants(H) /\ Grown(H, granted[k], clock)
         /\ \A i \in Instant : Cardinality(Between(H, i, i + WINDOW - 1)) < 2 * LIMIT
  <1> DEFINE G == granted[k]
             N(a, b) == Cardinality(Between(G, a, b))
  <1>0. /\ LIMIT \in Nat /\ LIMIT > 0 /\ WINDOW \in Nat /\ WINDOW > 0 /\ clock \in Int
        /\ \A i \in Instant : i \in Int
    BY LimitTypes
  <1>1. /\ ClientInv(k) /\ Grants(G) /\ \A x \in G : x[1] \in Int /\ x[1] <= clock
        /\ \A x \in G : x[1] = clock => x[2] < attempts[k]
        /\ attempts[k] \in Nat
    BY DEF LimitInv, ClientInv, Grants
  <1>2. \A a, b : GrantedIn(k, a, b) = N(a, b)
    BY Counted
  <1>3. <<clock, attempts[k]>> \notin G
    <2> SUFFICES ASSUME <<clock, attempts[k]>> \in G PROVE FALSE
      OBVIOUS
    <2>1. attempts[k] < attempts[k]
      BY <1>1
    <2> QED BY <1>1, <2>1
  <1> HIDE DEF G
  <1>4. Grants(H) /\ Grown(H, G, clock)
    <2>1. Grants(Joined(G, clock, attempts[k])) /\ Grown(Joined(G, clock, attempts[k]), G, clock)
      BY <1>0, <1>1, <1>3, OneMore
    <2> QED BY <2>1 DEF G
  <1>5. \A a, b \in Int : N(a, b) \in Nat
    BY <1>1, Stretches
  <1>6. ASSUME NEW i \in Instant
        PROVE  Cardinality(Between(H, i, i + WINDOW - 1)) < 2 * LIMIT
    <2>1. i \in Int /\ i + WINDOW - 1 \in Int /\ clock - WINDOW + 1 \in Int
      BY <1>0
    <2>2. N(i, i + WINDOW - 1) < 2 * LIMIT
      <3> HIDE DEF N
      <3> QED BY <1>1, <1>2 DEF ClientInv
    <2>3. CASE ~(i <= clock /\ clock <= i + WINDOW - 1)
      <3> HIDE DEF N
      <3>1. Cardinality(Between(H, i, i + WINDOW - 1)) = N(i, i + WINDOW - 1)
        BY <1>4, <2>1, <2>3 DEF Grown, N
      <3> QED BY <2>2, <3>1
    <2>4. CASE i <= clock /\ clock <= i + WINDOW - 1
      <3>1. Between(G, i, i + WINDOW - 1) = Between(G, i, clock)
        BY <1>0, <1>1, <2>1, <2>4 DEF Between
      <3>2. clock - WINDOW + 1 <= i /\ clock <= clock
        BY <1>0, <2>1, <2>4
      <3>3. N(i, clock) <= N(clock - WINDOW + 1, clock)
        BY <1>0, <1>1, <2>1, <3>2, Stretches
      <3>4. N(i, i + WINDOW - 1) = N(i, clock)
        BY <3>1
      <3> HIDE DEF N
      <3>5. N(i, clock) \in Nat /\ N(clock - WINDOW + 1, clock) \in Nat
        BY <1>0, <1>5, <2>1
      <3>6. Cardinality(Between(H, i, i + WINDOW - 1)) = N(i, i + WINDOW - 1) + 1
        BY <1>4, <2>1, <2>4 DEF Grown, N
      <3>7. N(clock - WINDOW + 1, clock) < 2 * LIMIT - 1
        BY <1>2
      <3> QED BY <1>0, <3>3, <3>4, <3>5, <3>6, <3>7
    <2> QED BY <2>3, <2>4
  <1> QED BY <1>4, <1>6 DEF G

\* A window opens: it holds the one attempt, and the stretch before it less than the limit.
LEMMA OpenWindowInv ==
  ASSUME LimitInv, NEW k \in Key, OpenWindow(k)
  PROVE  LimitInv'
  <1>0. /\ LIMIT \in Nat /\ LIMIT > 0 /\ WINDOW \in Nat /\ WINDOW > 0 /\ clock \in Nat
        /\ \A i \in Instant : i \in Int
    BY LimitTypes
  <1>1. /\ ~Live(k) /\ ClientInv(k) /\ WindowOver(k)
        /\ clock' = clock
        /\ granted' = [granted EXCEPT ![k] = @ \cup {<<clock, attempts[k]>>}]
        /\ attempts' = [attempts EXCEPT ![k] = @ + 1]
        /\ buckets' = [q \in DOMAIN buckets \cup {k} |->
                         IF q = k THEN [count |-> 1, resetAt |-> clock + WINDOW] ELSE buckets[q]]
        /\ decision'.allowed
    BY DEF OpenWindow, Record, LimitInv, ClientInv
  <1>2. /\ DOMAIN granted = Key /\ DOMAIN attempts = Key /\ DOMAIN buckets \subseteq Key
        /\ \A q \in DOMAIN buckets : buckets[q].resetAt \in Nat
    BY DEF LimitInv
  <1>3. ASSUME NEW q \in Key, q # k PROVE ClientInv(q)'
    <2>1. ClientInv(q) /\ granted'[q] = granted[q] /\ attempts'[q] = attempts[q]
      BY <1>1, <1>2, <1>3 DEF LimitInv
    <2>2. (Live(q)' <=> Live(q)) /\ (Live(q) => buckets'[q] = buckets[q])
      BY <1>1, <1>3 DEF Live
    <2> QED BY <1>1, <2>1, <2>2, ClientFrame
  <1>4. ClientInv(k)'
    <2>1. PICK H : H = Joined(granted[k], clock, attempts[k])
      OBVIOUS
    <2>2. granted'[k] = H /\ attempts'[k] = attempts[k] + 1
      BY <1>1, <1>2, <2>1 DEF Joined
    <2>3. GrantedIn(k, clock - WINDOW + 1, clock) < LIMIT
      BY <1>1 DEF WindowOver
    <2>4. GrantedIn(k, clock - WINDOW + 1, clock) \in Nat
      <3>1. Grants(granted[k]) /\ clock - WINDOW + 1 \in Int /\ clock \in Int
        BY <1>0, <1>1 DEF ClientInv
      <3> QED BY <3>1, Stretches, Counted
    <2>5. GrantedIn(k, clock - WINDOW + 1, clock) < 2 * LIMIT - 1
      BY <1>0, <2>3, <2>4
    <2>6. /\ Grants(H) /\ Grown(H, granted[k], clock)
          /\ \A i \in Instant : Cardinality(Between(H, i, i + WINDOW - 1)) < 2 * LIMIT
      BY <2>1, <2>5, AllowedOnce
    <2>7. \A a, b : GrantedIn(k, a, b)' = Cardinality(Between(H, a, b))
      BY <2>2 DEF GrantedIn, Between
    <2>8. /\ Live(k)' /\ buckets'[k].count = 1 /\ buckets'[k].resetAt = clock + WINDOW
      BY <1>0, <1>1 DEF Live
    <2>9. Cardinality(Between(granted[k], clock, clock)) = 0
      <3>1. Between(granted[k], clock, clock) = {}
        BY <1>0, <1>1 DEF Between, WindowOver, ClientInv, Grants
      <3> QED BY <3>1, FS_EmptySet
    <2>10. Cardinality(Between(granted[k], clock - WINDOW + 1, clock - 1)) < LIMIT
      <3>1. /\ Grants(granted[k]) /\ clock - WINDOW + 1 \in Int /\ clock \in Int /\ clock - 1 \in Int
            /\ clock - WINDOW + 1 <= clock - WINDOW + 1 /\ clock - 1 <= clock
        BY <1>0, <1>1 DEF ClientInv
      <3>2. /\ Cardinality(Between(granted[k], clock - WINDOW + 1, clock - 1))
                 <= Cardinality(Between(granted[k], clock - WINDOW + 1, clock))
            /\ Cardinality(Between(granted[k], clock - WINDOW + 1, clock - 1)) \in Nat
            /\ Cardinality(Between(granted[k], clock - WINDOW + 1, clock)) \in Nat
        BY <3>1, Stretches
      <3>3. Cardinality(Between(granted[k], clock - WINDOW + 1, clock)) < LIMIT
        BY <2>3, Counted
      <3> QED BY <1>0, <3>2, <3>3
    <2>11. WindowKnown(k)'
      <3>1. /\ (clock + WINDOW) - WINDOW = clock /\ clock \in 0..clock /\ clock \in Int
            /\ clock <= clock /\ clock - WINDOW + 1 \in Int /\ clock - 1 \in Int
            /\ ~(clock <= clock - 1)
        BY <1>0
      <3>2. Cardinality(Between(H, clock, clock)) = 1
        BY <2>6, <2>9, <3>1 DEF Grown
      <3>3. Cardinality(Between(H, clock - WINDOW + 1, clock - 1)) < LIMIT
        BY <2>6, <2>10, <3>1 DEF Grown
      <3>4. \E x \in H : x[1] = clock
        <4>1. <<clock, attempts[k]>> \in H /\ <<clock, attempts[k]>>[1] = clock
          BY <2>1 DEF Joined
        <4> QED BY <4>1
      <3>5. 1 <= LIMIT /\ 1 \in Nat \ {0}
        BY <1>0
      <3> QED BY <1>1, <2>2, <2>7, <2>8, <3>1, <3>2, <3>3, <3>4, <3>5 DEF WindowKnown
    <2>12. \A x \in H : x[1] <= clock /\ (x[1] = clock => x[2] < attempts[k] + 1)
      BY <1>0, <1>1, <2>1 DEF ClientInv, WindowOver, Joined
    <2>13. attempts[k] + 1 \in Nat
      BY <1>1 DEF ClientInv
    <2>14. \A i \in Instant : GrantedIn(k, i, i + WINDOW - 1)' < 2 * LIMIT
      BY <2>6, <2>7
    <2> QED BY <1>1, <2>2, <2>6, <2>8, <2>11, <2>12, <2>13, <2>14 DEF ClientInv
  <1>5. /\ clock' \in Nat /\ DOMAIN buckets' \subseteq Key
        /\ DOMAIN granted' = Key /\ attempts' = [q \in Key |-> attempts'[q]]
    BY <1>0, <1>1, <1>2
  <1>6. \A q \in DOMAIN buckets' :
          /\ buckets'[q] = [count |-> buckets'[q].count, resetAt |-> buckets'[q].resetAt]
          /\ buckets'[q].resetAt \in Nat
    BY <1>0, <1>1 DEF LimitInv
  <1> QED BY <1>1, <1>3, <1>4, <1>5, <1>6 DEF LimitInv

\* What is known of a client whose window is open, in stretches: what it holds, what the
\* stretch before it held, and so what the last stretch of a window's length can hold.
LEMMA WindowHolds ==
  ASSUME LimitInv, NEW k \in Key, Live(k)
  PROVE  LET G == granted[k]
             C == buckets[k].count
             o == buckets[k].resetAt - WINDOW
         IN  /\ Grants(G) /\ o \in 0..clock /\ C \in Nat /\ C > 0 /\ buckets[k].resetAt \in Nat
             /\ clock < buckets[k].resetAt
             /\ Cardinality(Between(G, o, clock)) = IF C <= LIMIT THEN C ELSE LIMIT
             /\ \E x \in G : x[1] = o
             /\ Cardinality(Between(G, o - WINDOW + 1, o - 1)) < LIMIT
             /\ C < LIMIT => Cardinality(Between(G, clock - WINDOW + 1, clock)) < 2 * LIMIT - 1
             /\ C >= LIMIT => Cardinality(Between(G, clock - WINDOW + 1, clock)) >= LIMIT
  <1> DEFINE G == granted[k]
             C == buckets[k].count
             o == buckets[k].resetAt - WINDOW
             N(a, b) == Cardinality(Between(G, a, b))
  <1>0. /\ LIMIT \in Nat /\ LIMIT > 0 /\ WINDOW \in Nat /\ WINDOW > 0 /\ clock \in Nat
    BY LimitTypes
  <1>1. ClientInv(k) /\ WindowKnown(k) /\ Grants(G)
    BY DEF LimitInv, ClientInv
  <1>2. \A a, b : GrantedIn(k, a, b) = N(a, b)
    BY Counted
  <1>3. /\ o \in 0..clock /\ C \in Nat /\ C > 0 /\ clock < buckets[k].resetAt
        /\ buckets[k].resetAt \in Nat
    BY <1>0, <1>1 DEF WindowKnown, Live, LimitInv
  <1>4. /\ N(o, clock) = IF C <= LIMIT THEN C ELSE LIMIT
        /\ \E x \in G : x[1] = o
        /\ N(o - WINDOW + 1, o - 1) < LIMIT
    <2> HIDE DEF N
    <2> QED BY <1>1, <1>2 DEF WindowKnown
  <1> HIDE DEF G, o
  <1>5. /\ o \in Int /\ clock \in Int /\ o - 1 \in Int /\ o - WINDOW + 1 \in Int
        /\ clock - WINDOW + 1 \in Int /\ o - WINDOW + 1 <= clock - WINDOW + 1
        /\ o - 1 <= o - 1 /\ clock - WINDOW + 1 <= o /\ clock <= clock
    BY <1>0, <1>3 DEF o
  <1>6. /\ N(clock - WINDOW + 1, clock) <= N(clock - WINDOW + 1, o - 1) + N(o, clock)
        /\ N(clock - WINDOW + 1, o - 1) <= N(o - WINDOW + 1, o - 1)
        /\ N(o, clock) <= N(clock - WINDOW + 1, clock)
        /\ N(clock - WINDOW + 1, clock) \in Nat /\ N(clock - WINDOW + 1, o - 1) \in Nat
        /\ N(o, clock) \in Nat /\ N(o - WINDOW + 1, o - 1) \in Nat
    BY <1>1, <1>5, Stretches
  <1> HIDE DEF N
  <1>7. C < LIMIT => N(clock - WINDOW + 1, clock) < 2 * LIMIT - 1
    BY <1>0, <1>3, <1>4, <1>6
  <1>8. C >= LIMIT => N(clock - WINDOW + 1, clock) >= LIMIT
    BY <1>0, <1>3, <1>4, <1>6
  <1> QED BY <1>1, <1>3, <1>4, <1>7, <1>8 DEF G, o, N

\* An attempt in a window that is open is allowed while the window holds less than the
\* limit; otherwise it is refused, and the refusal is justified.
LEMMA CountAttemptInv ==
  ASSUME LimitInv, NEW k \in Key, CountAttempt(k)
  PROVE  LimitInv'
  <1> DEFINE G == granted[k]
             C == buckets[k].count
             r == buckets[k].resetAt
             o == buckets[k].resetAt - WINDOW
  <1>0. /\ LIMIT \in Nat /\ LIMIT > 0 /\ WINDOW \in Nat /\ WINDOW > 0 /\ clock \in Nat
        /\ \A i \in Instant : i \in Int
    BY LimitTypes
  <1>1. /\ DOMAIN granted = Key /\ DOMAIN attempts = Key /\ DOMAIN buckets \subseteq Key
        /\ \A q \in DOMAIN buckets :
             /\ buckets[q] = [count |-> buckets[q].count, resetAt |-> buckets[q].resetAt]
             /\ buckets[q].resetAt \in Nat
        /\ ClientInv(k)
    BY DEF LimitInv
  <1>2. /\ Live(k) /\ clock' = clock /\ k \in DOMAIN buckets
        /\ buckets' = [q \in Swept(DOMAIN buckets) |->
                         IF q = k THEN [buckets[k] EXCEPT !.count = @ + 1] ELSE buckets[q]]
        /\ attempts' = [attempts EXCEPT ![k] = @ + 1]
    BY DEF CountAttempt, Record, Live
  <1>3. [buckets[k] EXCEPT !.count = @ + 1] = [count |-> C + 1, resetAt |-> r]
    BY <1>1, <1>2
  <1>4. /\ decision' = [key |-> k, allowed |-> C + 1 <= LIMIT]
        /\ granted' = IF C + 1 <= LIMIT
                      THEN [granted EXCEPT ![k] = @ \cup {<<clock, attempts[k]>>}] ELSE granted
    BY <1>3 DEF CountAttempt, Record
  <1>5. /\ Swept(DOMAIN buckets) \subseteq DOMAIN buckets
        /\ \A q \in DOMAIN buckets : buckets[q].resetAt > clock => q \in Swept(DOMAIN buckets)
    BY DEF Swept
  <1>6. ASSUME NEW q \in Key, q # k PROVE ClientInv(q)'
    <2>1. ClientInv(q) /\ granted'[q] = granted[q] /\ attempts'[q] = attempts[q]
      BY <1>1, <1>2, <1>4, <1>6 DEF LimitInv
    <2>2. (Live(q)' <=> Live(q)) /\ (Live(q) => buckets'[q] = buckets[q])
      BY <1>2, <1>5, <1>6 DEF Live
    <2> QED BY <1>2, <2>1, <2>2, ClientFrame
  <1>7. /\ Live(k)' /\ buckets'[k].count = C + 1 /\ buckets'[k].resetAt = r
    BY <1>2, <1>3, <1>5 DEF Live
  <1>8. /\ Grants(G) /\ o \in 0..clock /\ C \in Nat /\ C > 0 /\ r \in Nat /\ clock < r
        /\ Cardinality(Between(G, o, clock)) = IF C <= LIMIT THEN C ELSE LIMIT
        /\ \E x \in G : x[1] = o
        /\ Cardinality(Between(G, o - WINDOW + 1, o - 1)) < LIMIT
        /\ C < LIMIT => Cardinality(Between(G, clock - WINDOW + 1, clock)) < 2 * LIMIT - 1
        /\ C >= LIMIT => Cardinality(Between(G, clock - WINDOW + 1, clock)) >= LIMIT
    BY <1>2, WindowHolds
  <1>9. attempts[k] \in Nat /\ attempts'[k] = attempts[k] + 1
    BY <1>1, <1>2 DEF ClientInv
  <1>10. /\ clock' \in Nat /\ DOMAIN buckets' \subseteq Key
         /\ DOMAIN granted' = Key /\ attempts' = [q \in Key |-> attempts'[q]]
    BY <1>0, <1>1, <1>2, <1>4, <1>5
  <1>11. \A q \in DOMAIN buckets' :
           /\ buckets'[q] = [count |-> buckets'[q].count, resetAt |-> buckets'[q].resetAt]
           /\ buckets'[q].resetAt \in Nat
    BY <1>1, <1>2, <1>3, <1>5, <1>8
  <1>12. CASE C + 1 <= LIMIT
    <2>1. ClientInv(k)'
      <3>1. PICK H : H = Joined(G, clock, attempts[k])
        OBVIOUS
      <3>2. granted'[k] = H
        BY <1>1, <1>4, <1>12, <3>1 DEF Joined
      <3>3. GrantedIn(k, clock - WINDOW + 1, clock) < 2 * LIMIT - 1
        BY <1>0, <1>8, <1>12, Counted
      <3>4. /\ Grants(H) /\ Grown(H, G, clock)
            /\ \A i \in Instant : Cardinality(Between(H, i, i + WINDOW - 1)) < 2 * LIMIT
        BY <3>1, <3>3, AllowedOnce
      <3>5. \A a, b : GrantedIn(k, a, b)' = Cardinality(Between(H, a, b))
        BY <3>2 DEF GrantedIn, Between
      <3>6. /\ Cardinality(Between(H, o, clock)) = C + 1
            /\ Cardinality(Between(H, o - WINDOW + 1, o - 1)) < LIMIT
        <4>1. /\ o \in Int /\ clock \in Int /\ o <= clock /\ clock <= clock
              /\ o - WINDOW + 1 \in Int /\ o - 1 \in Int /\ ~(clock <= o - 1)
          BY <1>0, <1>8
        <4>2. /\ Cardinality(Between(H, o, clock)) = Cardinality(Between(G, o, clock)) + 1
              /\ Cardinality(Between(H, o - WINDOW + 1, o - 1))
                   = Cardinality(Between(G, o - WINDOW + 1, o - 1))
          <5> HIDE DEF o, G
          <5> QED BY <3>4, <4>1 DEF Grown
        <4>3. C <= LIMIT
          BY <1>0, <1>8, <1>12
        <4> QED BY <1>8, <4>2, <4>3
      <3>7. \E x \in H : x[1] = o
        BY <1>8, <3>1 DEF Joined
      <3>8. WindowKnown(k)'
        <4>1. C + 1 \in Nat \ {0} /\ o \in 0..clock
          BY <1>8
        <4>2. buckets'[k].resetAt - WINDOW = o /\ buckets'[k].count = C + 1
          BY <1>7
        <4> HIDE DEF C, o, G
        <4>3. GrantedIn(k, buckets[k].resetAt - WINDOW, clock)' = C + 1
          BY <1>2, <3>5, <3>6, <4>2
        <4>4. GrantedIn(k, buckets[k].resetAt - WINDOW - WINDOW + 1,
                           buckets[k].resetAt - WINDOW - 1)' < LIMIT
          BY <3>5, <3>6, <4>2
        <4>5. \E x \in granted'[k] : x[1] = buckets'[k].resetAt - WINDOW
          BY <3>2, <3>7, <4>2
        <4> QED BY <1>2, <1>12, <4>1, <4>2, <4>3, <4>4, <4>5 DEF WindowKnown
      <3>9. \A x \in H : x[1] <= clock /\ (x[1] = clock => x[2] < attempts[k] + 1)
        <4>1. \A x \in G : x[1] <= clock /\ (x[1] = clock => x[2] < attempts[k])
          BY <1>1 DEF ClientInv
        <4>2. ASSUME NEW x \in G, x[1] = clock PROVE x[2] < attempts[k] + 1
          <5>1. x[2] < attempts[k] /\ x[2] \in Int
            BY <1>8, <4>1, <4>2 DEF Grants
          <5> QED BY <1>9, <5>1
        <4> QED BY <1>0, <1>9, <3>1, <4>1, <4>2 DEF Joined
      <3>10. \A i \in Instant : GrantedIn(k, i, i + WINDOW - 1)' < 2 * LIMIT
        BY <3>4, <3>5
      <3>11. attempts[k] + 1 \in Nat
        BY <1>9
      <3> QED BY <1>2, <1>7, <1>9, <3>2, <3>4, <3>8, <3>9, <3>10, <3>11 DEF ClientInv
    <2>2. decision'.allowed
      BY <1>4, <1>12
    <2> QED BY <1>6, <1>10, <1>11, <2>1, <2>2 DEF LimitInv
  <1>13. CASE ~(C + 1 <= LIMIT)
    <2>0. granted' = granted /\ C >= LIMIT
      BY <1>0, <1>4, <1>8, <1>13
    <2>1. \A a, b : GrantedIn(k, a, b)' = Cardinality(Between(G, a, b))
      BY <2>0 DEF GrantedIn, Between
    <2>2. ClientInv(k)'
      <3>1. WindowKnown(k)'
        <4>1. Cardinality(Between(G, o, clock)) = LIMIT /\ C + 1 \in Nat \ {0} /\ ~(C + 1 <= LIMIT)
          BY <1>0, <1>8, <1>13, <2>0
        <4> QED BY <1>2, <1>7, <1>8, <2>0, <2>1, <4>1 DEF WindowKnown
      <3>2. \A x \in G : x[1] <= clock /\ (x[1] = clock => x[2] < attempts[k] + 1)
        <4>1. \A x \in G : x[1] <= clock /\ (x[1] = clock => x[2] < attempts[k])
          BY <1>1 DEF ClientInv
        <4>2. ASSUME NEW x \in G, x[1] = clock PROVE x[2] < attempts[k] + 1
          <5>1. x[2] < attempts[k] /\ x[2] \in Int
            BY <1>8, <4>1, <4>2 DEF Grants
          <5> QED BY <1>9, <5>1
        <4> QED BY <4>1, <4>2
      <3>3. \A i \in Instant : GrantedIn(k, i, i + WINDOW - 1)' < 2 * LIMIT
        <4>1. \A i \in Instant : GrantedIn(k, i, i + WINDOW - 1) < 2 * LIMIT
          BY <1>1 DEF ClientInv
        <4> QED BY <2>1, <4>1, Counted
      <3>4. attempts[k] + 1 \in Nat
        BY <1>9
      <3> QED BY <1>2, <1>7, <1>8, <1>9, <2>0, <3>1, <3>2, <3>3, <3>4 DEF ClientInv
    <2>3. Justified(decision)'
      <3>1. decision'.key = k
        BY <1>4
      <3>2. Cardinality(Between(G, clock - WINDOW + 1, clock)) >= LIMIT
        BY <1>8, <2>0
      <3> QED BY <1>2, <2>1, <3>1, <3>2 DEF Justified
    <2> QED BY <1>6, <1>10, <1>11, <2>2, <2>3 DEF LimitInv
  <1> QED BY <1>12, <1>13

LEMMA LimitInitInv ==
  LimitInit => LimitInv
  <1> SUFFICES ASSUME LimitInit PROVE LimitInv
    OBVIOUS
  <1>1. /\ clock = 0 /\ DOMAIN buckets = {} /\ decision.allowed
        /\ granted = [k \in Key |-> {}] /\ attempts = [k \in Key |-> 0]
    BY DEF LimitInit, NoDecision
  <1>2. LIMIT \in Nat /\ LIMIT > 0
    BY RateLimitConstants
  <1>3. ASSUME NEW k \in Key PROVE ClientInv(k)
    <2>1. granted[k] = {} /\ attempts[k] = 0
      BY <1>1
    <2>2. \A a, b : GrantedIn(k, a, b) = 0
      <3>1. \A a, b : Between({}, a, b) = {}
        BY DEF Between
      <3> QED BY <2>1, <3>1, Counted, FS_EmptySet
    <2>3. ~Live(k)
      BY <1>1 DEF Live
    <2>4. Grants({})
      BY FS_EmptySet DEF Grants
    <2>5. WindowOver(k)
      BY <1>2, <2>1, <2>2 DEF WindowOver
    <2>6. \A i \in Instant : GrantedIn(k, i, i + WINDOW - 1) < 2 * LIMIT
      <3>1. 0 < 2 * LIMIT
        BY <1>2
      <3> QED BY <2>2, <3>1
    <2> QED BY <2>1, <2>3, <2>4, <2>5, <2>6 DEF ClientInv
  <1> QED BY <1>1, <1>3 DEF LimitInv

LEMMA LimitFrame ==
  ASSUME LimitInv, UNCHANGED limiter
  PROVE  LimitInv'
  <1>1. /\ clock' = clock /\ buckets' = buckets /\ decision' = decision
        /\ granted' = granted /\ attempts' = attempts
    BY DEF limiter
  <1>2. \A k \in Key : ClientInv(k)'
    <2> SUFFICES ASSUME NEW k \in Key PROVE ClientInv(k)'
      OBVIOUS
    <2> QED BY <1>1, ClientFrame DEF LimitInv, Live
  <1>3. Justified(decision)' <=> Justified(decision)
    BY <1>1 DEF Justified, GrantedIn
  <1> QED BY <1>1, <1>2, <1>3 DEF LimitInv

LEMMA LimitNextInv ==
  LimitInv /\ [LimitNext]_limiter => LimitInv'
  <1> SUFFICES ASSUME LimitInv, [LimitNext]_limiter PROVE LimitInv'
    OBVIOUS
  <1>1. CASE Tick
    BY <1>1, TickInv
  <1>2. ASSUME NEW k \in Key, OpenWindow(k) PROVE LimitInv'
    BY <1>2, OpenWindowInv
  <1>3. ASSUME NEW k \in Key, CountAttempt(k) PROVE LimitInv'
    BY <1>3, CountAttemptInv
  <1>4. CASE UNCHANGED limiter
    BY <1>4, LimitFrame
  <1> QED BY <1>1, <1>2, <1>3, <1>4 DEF LimitNext

\* Whatever the limit and the length of the window (rate-limit.ts:60-93): fewer than twice
\* the limit are allowed in any stretch as long as a window, whichever clients come when and
\* whenever the sweep forgets their windows.
THEOREM LimitHolds == LimitSpec => []LessThanTwice
  <1>1. LimitInv => LessThanTwice
    BY DEF LimitInv, ClientInv, LessThanTwice
  <1> QED BY <1>1, LimitInitInv, LimitNextInv, PTL DEF LimitSpec

\* And nobody is refused who was not allowed the whole limit within the last window, however
\* often he was refused in it (rate-limit.ts:8).
THEOREM RefusalsAreFair == LimitSpec => RefusedAtLimitOnly
  <1> DEFINE Fair ==
        ~decision'.allowed /\ attempts' # attempts =>
          GrantedIn(decision'.key, clock - WINDOW + 1, clock) >= LIMIT
  <1>1. LimitInv /\ [LimitNext]_limiter => [Fair]_limiter
    <2> SUFFICES ASSUME LimitInv, LimitNext, ~decision'.allowed, attempts' # attempts
                 PROVE  GrantedIn(decision'.key, clock - WINDOW + 1, clock) >= LIMIT
      OBVIOUS
    <2>1. CASE Tick
      <3>1. /\ decision' = decision /\ attempts' = [k \in Key |-> 0]
            /\ attempts = [k \in Key |-> attempts[k]]
        BY <2>1 DEF Tick, LimitInv
      <3>2. \E k \in Key : attempts[k] # 0
        <4> SUFFICES ASSUME \A k \in Key : attempts[k] = 0 PROVE attempts' = attempts
          OBVIOUS
        <4> QED BY <3>1
      <3>3. Justified(decision)
        BY <3>1, <3>2 DEF LimitInv
      <3> QED BY <3>1, <3>3 DEF Justified
    <2>2. ASSUME NEW k \in Key, OpenWindow(k) PROVE FALSE
      BY <2>2 DEF OpenWindow, Record
    <2>3. ASSUME NEW k \in Key, CountAttempt(k)
          PROVE  GrantedIn(decision'.key, clock - WINDOW + 1, clock) >= LIMIT
      <3>1. LimitInv' /\ granted' = granted /\ clock' = clock
        BY <2>3, CountAttemptInv DEF CountAttempt, Record
      <3>2. k \in Key /\ attempts'[k] # 0
        BY <2>3, LimitTypes DEF LimitInv, ClientInv, CountAttempt, Record
      <3>3. Justified(decision)'
        BY <3>1, <3>2 DEF LimitInv
      <3> QED BY <3>1, <3>3 DEF Justified, GrantedIn
    <2> QED BY <2>1, <2>2, <2>3 DEF LimitNext
  <1> QED BY <1>1, LimitInitInv, LimitNextInv, PTL DEF LimitSpec, RefusedAtLimitOnly

-------------------------------------------------------------------------------
\* The ranks of numbers.
LEMMA RanksOfNumbers ==
  ASSUME NEW S, S \subseteq Nat, IsFiniteSet(S)
  PROVE  /\ \A t \in S : Rank(t, S) \in 1..Cardinality(S)
         /\ \A t, u \in S : Rank(t, S) = Rank(u, S) => t = u
         /\ \A n \in 1..Cardinality(S) : \E t \in S : Rank(t, S) = n
  <1> DEFINE upTo == [t \in S |-> {y \in S : y <= t}]
  <1>1. Nested(upTo, S)
    <2>1. \A t \in S : t \in upTo[t] /\ upTo[t] \subseteq S
      OBVIOUS
    <2>2. ASSUME NEW t \in S, NEW u \in S, t < u
          PROVE  upTo[t] \subseteq upTo[u] /\ u \notin upTo[t]
      <3>1. t \in Nat /\ u \in Nat /\ ~(u <= t)
        BY <2>2
      <3>2. \A y \in S : y <= t => y <= u
        BY <2>2, <3>1
      <3> QED BY <3>1, <3>2
    <2>3. \A t, u \in S : t # u => t < u \/ u < t
      OBVIOUS
    <2> HIDE DEF upTo
    <2> QED BY <2>1, <2>2, <2>3 DEF Nested
  <1>2. \A t \in S : Rank(t, S) = Cardinality(upTo[t])
    BY DEF Rank
  <1> HIDE DEF upTo
  <1>3. Ranked(upTo, S)
    BY <1>1, Ranks
  <1> QED BY <1>2, <1>3 DEF Ranked

-------------------------------------------------------------------------------
(***************************************************************************)
(* The draft of a ballot: each pair at most once, at a position of its own.*)
(***************************************************************************)
OneEach(d) ==
  /\ d = [p \in DOMAIN d |-> d[p]] /\ DOMAIN d \subseteq PairId
  /\ \A p \in DOMAIN d : d[p] \in Position
  /\ \A p, q \in DOMAIN d : d[p] = d[q] => p = q

\* A pair that takes a position swaps with the pair that held it.
LEMMA AssignedOneEach ==
  ASSUME NEW d, OneEach(d), NEW p \in PairId, NEW position \in Position
  PROVE  OneEach(assign(d, p, position))
  <1> DEFINE displaced == {q \in DOMAIN d : d[q] = position /\ q # p}
  <1>1. CASE displaced = {}
    <2>1. assign(d, p, position) = With(d, p, position)
      BY <1>1 DEF assign
    <2>2. \A q \in DOMAIN d : q # p => d[q] # position
      BY <1>1
    <2> QED BY <2>1, <2>2 DEF OneEach, With
  <1>2. CASE displaced # {}
    <2>1. PICK q : q = CHOOSE x \in displaced : TRUE
      OBVIOUS
    <2>2. q \in DOMAIN d /\ d[q] = position /\ q # p
      BY <1>2, <2>1
    <2>3. \A x \in DOMAIN d : d[x] = position => x = q
      BY <2>2 DEF OneEach
    <2>4. CASE p \in DOMAIN d
      <3>1. assign(d, p, position) = With(With(d, q, d[p]), p, position)
        BY <1>2, <2>1, <2>4 DEF assign
      <3>2. With(With(d, q, d[p]), p, position)
              = [x \in DOMAIN d |-> IF x = p THEN position ELSE IF x = q THEN d[p] ELSE d[x]]
        BY <2>2, <2>4 DEF With
      <3> QED BY <2>2, <2>3, <2>4, <3>1, <3>2 DEF OneEach
    <2>5. CASE p \notin DOMAIN d
      <3>1. assign(d, p, position) = With(Without(d, q), p, position)
        BY <1>2, <2>1, <2>5 DEF assign
      <3>2. With(Without(d, q), p, position)
              = [x \in (DOMAIN d \ {q}) \cup {p} |-> IF x = p THEN position ELSE d[x]]
        BY <2>2, <2>5 DEF With, Without
      <3> QED BY <2>2, <2>3, <2>5, <3>1, <3>2 DEF OneEach
    <2> QED BY <2>4, <2>5
  <1> QED BY <1>1, <1>2

\* As many pairs are left as positions, and filling gives each pair one of them.
LEMMA FilledOneEach ==
  ASSUME NEW d, OneEach(d)
  PROVE  OneEach(fillRemaining(d)) /\ isComplete(fillRemaining(d))
  <1> DEFINE open == PairId \ DOMAIN d
             free == Position \ Taken(d)
  <1>1. /\ IsFiniteSet(PairId) /\ Cardinality(PairId) = Size /\ Size \in Nat
        /\ PairId = Position /\ PairId \subseteq Nat
    BY FS_Interval, SizeAssumption DEF PairId, Position
  <1>2. IsFiniteSet(DOMAIN d) /\ Cardinality(DOMAIN d) \in Nat
    <2>1. DOMAIN d \in SUBSET PairId
      BY DEF OneEach
    <2> QED BY <1>1, <2>1, FS_Subset, FS_CardinalityType
  <1>3. IsFiniteSet(Taken(d)) /\ Cardinality(Taken(d)) = Cardinality(DOMAIN d)
    <2>1. d \in Bijection(DOMAIN d, Taken(d))
      BY DEF OneEach, Taken, Bijection, Injection, Surjection, IsInjective
    <2>2. ExistsBijection(DOMAIN d, Taken(d))
      BY <2>1 DEF ExistsBijection
    <2> QED BY <1>2, <2>2, FS_Bijection
  <1>4. /\ IsFiniteSet(open) /\ IsFiniteSet(free)
        /\ Cardinality(open) = Cardinality(free)
    <2>1. PairId \cap DOMAIN d = DOMAIN d /\ Position \cap Taken(d) = Taken(d)
      BY DEF OneEach, Taken
    <2>2. /\ IsFiniteSet(PairId \ DOMAIN d)
          /\ Cardinality(PairId \ DOMAIN d) = Cardinality(PairId) - Cardinality(PairId \cap DOMAIN d)
      BY <1>1, FS_Difference
    <2>3. /\ IsFiniteSet(Position \ Taken(d))
          /\ Cardinality(Position \ Taken(d)) = Cardinality(Position) - Cardinality(Position \cap Taken(d))
      BY <1>1, FS_Difference
    <2> QED BY <1>1, <1>3, <2>1, <2>2, <2>3
  <1>5. open \subseteq Nat /\ free \subseteq Nat
    BY <1>1
  <1> DEFINE given(p) == CHOOSE position \in free : Rank(position, free) = Rank(p, open)
  <1> HIDE DEF open, free
  <1>6. ASSUME NEW p \in open
        PROVE  given(p) \in free /\ Rank(given(p), free) = Rank(p, open)
    <2>1. Rank(p, open) \in 1..Cardinality(free)
      BY <1>4, <1>5, RanksOfNumbers
    <2>2. \E position \in free : Rank(position, free) = Rank(p, open)
      BY <1>4, <1>5, <2>1, RanksOfNumbers
    <2> QED BY <2>2
  <1>7. ASSUME NEW p \in open, NEW q \in open, given(p) = given(q)
        PROVE  p = q
    <2>1. Rank(p, open) = Rank(q, open)
      BY <1>6, <1>7
    <2> QED BY <1>4, <1>5, <2>1, RanksOfNumbers
  <1> HIDE DEF given
  <1>8. fillRemaining(d) = [p \in PairId |-> IF p \in DOMAIN d THEN d[p] ELSE given(p)]
    BY DEF fillRemaining, given, open, free
  <1>9. \A p \in PairId : p \in DOMAIN d \/ p \in open
    BY DEF open
  <1>10. \A position \in free : position \in Position /\ \A q \in DOMAIN d : d[q] # position
    BY DEF free, Taken
  <1>11. \A p \in PairId : fillRemaining(d)[p] \in Position
    BY <1>6, <1>8, <1>9, <1>10 DEF OneEach
  <1>12. ASSUME NEW p \in PairId, NEW q \in PairId, fillRemaining(d)[p] = fillRemaining(d)[q]
         PROVE  p = q
    BY <1>6, <1>7, <1>8, <1>9, <1>10, <1>12 DEF OneEach
  <1>13. DOMAIN fillRemaining(d) = PairId
         /\ fillRemaining(d) = [p \in PairId |-> fillRemaining(d)[p]]
    BY <1>8
  <1> HIDE DEF open, free
  <1> QED BY <1>11, <1>12, <1>13 DEF OneEach, isComplete

\* A draft in which every pair is placed is sent, and what is sent is accepted.
LEMMA SentIsAccepted ==
  ASSUME NEW d, OneEach(d)
  PROVE  /\ toSubmission(d) # NoSubmission => validateBallot(Displayed, toSubmission(d))
         /\ DOMAIN d = PairId => toSubmission(d) # NoSubmission
  <1>1. Size \in Nat /\ Size > 0 /\ PairId = 1..Size /\ Position = 1..Size
    BY SizeAssumption DEF PairId, Position
  <1>2. Displayed \in Seq(Int) /\ Len(Displayed) = Size
    BY <1>1 DEF Displayed
  <1>3. DOMAIN d = PairId => isComplete(d)
    BY DEF OneEach, isComplete
  <1>4. ASSUME isComplete(d)
        PROVE  toSubmission(d) # NoSubmission /\ validateBallot(Displayed, toSubmission(d))
    <2>1. toSubmission(d) = [p \in 1..Size |-> d[p]] /\ DOMAIN d = 1..Size
      BY <1>1, <1>4 DEF toSubmission, isComplete
    <2>2. \A p \in 1..Size : d[p] \in 1..Size
      BY <1>1, <1>4, <2>1 DEF isComplete
    <2>3. /\ toSubmission(d) \in Seq(1..Size) /\ Len(toSubmission(d)) = Size
          /\ DOMAIN toSubmission(d) = 1..Size
      BY <1>1, <2>1, <2>2
    <2>4. toSubmission(d) # NoSubmission
      BY <1>1, <2>3 DEF NoSubmission
    <2>5. Injective(toSubmission(d))
      BY <1>1, <1>4, <2>1 DEF isComplete, Injective
    <2> QED BY <1>2, <2>1, <2>2, <2>3, <2>4, <2>5 DEF validateBallot
  <1>5. ~isComplete(d) => toSubmission(d) = NoSubmission
    BY DEF toSubmission
  <1> QED BY <1>3, <1>4, <1>5

\* For a group of any size, and whatever is tapped in whatever order (ballot.ts:58-178): the
\* form sends nothing that validateBallot refuses, sends any draft in which every pair is
\* placed, and "fill the rest" makes one of any draft.
THEOREM DraftAccepted == DraftSpec => []SubmitsWhatIsAccepted
  <1>1. DraftInit => OneEach(draft)
    BY DEF DraftInit, Empty, OneEach
  <1>2. OneEach(draft) /\ [DraftNext]_draft => OneEach(draft)'
    <2> SUFFICES ASSUME OneEach(draft), [DraftNext]_draft PROVE OneEach(draft')
      OBVIOUS
    <2>1. ASSUME NEW p \in PairId, NEW position \in Position, Assign(p, position)
          PROVE  OneEach(draft')
      BY <2>1, AssignedOneEach DEF Assign
    <2>2. ASSUME NEW p \in PairId, Clear(p) PROVE OneEach(draft')
      BY <2>2 DEF Clear, Without, OneEach
    <2>3. CASE FillRemaining
      BY <2>3, FilledOneEach DEF FillRemaining
    <2>4. CASE Reset
      BY <2>4 DEF Reset, Empty, OneEach
    <2>5. CASE UNCHANGED draft
      BY <2>5
    <2> QED BY <2>1, <2>2, <2>3, <2>4, <2>5 DEF DraftNext
  <1>3. OneEach(draft) => SubmitsWhatIsAccepted
    BY SentIsAccepted, FilledOneEach DEF SubmitsWhatIsAccepted
  <1> QED BY <1>1, <1>2, <1>3, PTL DEF DraftSpec

-------------------------------------------------------------------------------
(***************************************************************************)
(* The walk through the list: a page is the newest of the tournaments      *)
(* behind the cursor, and the cursor is the last one listed.               *)
(***************************************************************************)
SortKeys == [publishedAt : Nat, id : Nat]

LEMMA Ordered ==
  /\ \A a, b \in SortKeys : a = b \/ Precedes(a, b) \/ Precedes(b, a)
  /\ \A a, b, c \in SortKeys : Precedes(a, b) /\ Precedes(b, c) => Precedes(a, c)
  /\ \A a \in SortKeys : ~Precedes(a, a)
  <1>1. ASSUME NEW a \in SortKeys, NEW b \in SortKeys
        PROVE  a = b \/ Precedes(a, b) \/ Precedes(b, a)
    BY DEF Precedes, SortKeys
  <1>2. ASSUME NEW a \in SortKeys, NEW b \in SortKeys, NEW c \in SortKeys,
               Precedes(a, b), Precedes(b, c)
        PROVE  Precedes(a, c)
    BY <1>2 DEF Precedes, SortKeys
  <1>3. ASSUME NEW a \in SortKeys PROVE ~Precedes(a, a)
    BY DEF Precedes, SortKeys
  <1> QED BY <1>1, <1>2, <1>3

\* Tournaments with their instants, of which there are finitely many.
Dated(S) == IsFiniteSet(S) /\ S \subseteq Nat /\ \A t \in S : catalogue[t].publishedAt \in Nat

\* NewestFirst lists the newest of a set, each once and in order; those it leaves out are
\* behind all it lists.
Newest(rows, S, n) ==
  /\ rows \in Seq(S) /\ Len(rows) = IF Cardinality(S) < n THEN Cardinality(S) ELSE n
  /\ \A i, j \in 1..Len(rows) : i < j => Precedes(SortKey(rows[j]), SortKey(rows[i]))
  /\ \A t \in S : \/ \E i \in 1..Len(rows) : rows[i] = t
                  \/ /\ Len(rows) = n
                     /\ \A i \in 1..Len(rows) : Precedes(SortKey(t), SortKey(rows[i]))

LEMMA NewestFirstIsNewest ==
  ASSUME NEW S, Dated(S), NEW n \in Nat
  PROVE  Newest(NewestFirst(S, n), S, n)
  <1> DEFINE after(t) == {x \in S : \/ catalogue[x].publishedAt > catalogue[t].publishedAt
                                    \/ catalogue[x].publishedAt = catalogue[t].publishedAt /\ x > t}
             upTo == [t \in S |-> after(t) \cup {t}]
             rank == [t \in S |-> Cardinality(after(t)) + 1]
             size == IF Cardinality(S) < n THEN Cardinality(S) ELSE n
             rows == [i \in 1..size |-> CHOOSE t \in S : rank[t] = i]
  <1>0. \A t \in S : SortKey(t) \in SortKeys /\ SortKey(t).id = t
    BY DEF Dated, SortKey, SortKeys
  <1>1. ASSUME NEW t \in S, NEW x \in S
        PROVE  x \in after(t) <=> Precedes(SortKey(t), SortKey(x))
    BY DEF Dated, SortKey, Precedes
  <1>2. \A t \in S : after(t) \subseteq S
    OBVIOUS
  <1> HIDE DEF after
  <1>3. \A t \in S : t \notin after(t)
    BY <1>0, <1>1, Ordered
  <1>4. ASSUME NEW t \in S, NEW u \in S, Precedes(SortKey(u), SortKey(t))
        PROVE  upTo[t] \subseteq upTo[u] /\ u \notin upTo[t]
    <2>1. \A x \in after(t) : x \in after(u)
      BY <1>0, <1>1, <1>2, <1>4, Ordered
    <2>2. t \in after(u) /\ u # t
      BY <1>0, <1>1, <1>4, Ordered
    <2>3. u \notin after(t)
      BY <1>3, <2>1
    <2> QED BY <2>1, <2>2, <2>3
  <1>5. \A t, u \in S : t # u => Precedes(SortKey(u), SortKey(t)) \/ Precedes(SortKey(t), SortKey(u))
    BY <1>0, Ordered
  <1>6. Nested(upTo, S)
    <2>1. \A t \in S : t \in upTo[t] /\ upTo[t] \subseteq S
      BY <1>2
    <2> HIDE DEF upTo
    <2> QED BY <1>4, <1>5, <2>1 DEF Nested
  <1>7. Ranked(upTo, S)
    BY <1>6, Ranks DEF Dated
  <1>8. \A t \in S : rank[t] = Cardinality(upTo[t])
    <2> SUFFICES ASSUME NEW t \in S PROVE Cardinality(after(t) \cup {t}) = Cardinality(after(t)) + 1
      OBVIOUS
    <2>1. after(t) \in SUBSET S
      BY <1>2
    <2>2. IsFiniteSet(after(t))
      BY <2>1, FS_Subset DEF Dated
    <2> QED BY <1>3, <2>2, FS_AddElement
  <1> HIDE DEF rank
  <1>9. /\ \A t \in S : rank[t] \in 1..Cardinality(S)
        /\ \A t, u \in S : rank[t] = rank[u] => t = u
        /\ \A m \in 1..Cardinality(S) : \E t \in S : rank[t] = m
    <2> HIDE DEF upTo
    <2> QED BY <1>7, <1>8 DEF Ranked
  <1>10. ASSUME NEW t \in S, NEW u \in S, rank[t] < rank[u]
         PROVE  Precedes(SortKey(u), SortKey(t))
    <2> SUFFICES ASSUME Precedes(SortKey(t), SortKey(u)) PROVE FALSE
      BY <1>5, <1>9, <1>10
    <2>1. upTo[u] \in SUBSET upTo[t]
      BY <1>4
    <2>2. upTo[t] \in SUBSET S
      BY <1>2
    <2> HIDE DEF upTo
    <2>3. Cardinality(upTo[u]) <= Cardinality(upTo[t])
      BY <2>1, <2>2, FS_Subset DEF Dated
    <2> QED BY <1>8, <1>9, <1>10, <2>3
  <1>11. Cardinality(S) \in Nat /\ size \in Nat /\ size <= Cardinality(S) /\ size <= n
         /\ (size < Cardinality(S) => size = n)
    BY FS_CardinalityType DEF Dated
  <1> HIDE DEF size
  <1>12. \A i \in 1..size : rows[i] \in S /\ rank[rows[i]] = i
    <2> SUFFICES ASSUME NEW i \in 1..size PROVE rows[i] \in S /\ rank[rows[i]] = i
      OBVIOUS
    <2>1. i \in 1..Cardinality(S)
      BY <1>11
    <2>2. \E t \in S : rank[t] = i
      BY <1>9, <2>1
    <2> QED BY <2>2
  <1>13. rows \in Seq(S) /\ Len(rows) = size
    BY <1>11, <1>12
  <1> HIDE DEF rows
  <1>14. \A i, j \in 1..size : i < j => Precedes(SortKey(rows[j]), SortKey(rows[i]))
    BY <1>10, <1>12
  <1>15. ASSUME NEW t \in S
         PROVE  \/ \E i \in 1..size : rows[i] = t
                \/ size = n /\ \A i \in 1..size : Precedes(SortKey(t), SortKey(rows[i]))
    <2>1. CASE rank[t] \in 1..size
      BY <1>9, <1>12, <2>1
    <2>2. CASE rank[t] \notin 1..size
      <3>1. rank[t] \in 1..Cardinality(S)
        BY <1>9
      <3>2. size < rank[t] /\ size < Cardinality(S)
        BY <1>11, <2>2, <3>1
      <3>3. \A i \in 1..size : i < rank[t]
        BY <1>11, <3>1, <3>2
      <3> QED BY <1>10, <1>11, <1>12, <3>2, <3>3
    <2> QED BY <2>1, <2>2
  <1>16. NewestFirst(S, n) = rows
    BY DEF NewestFirst, rows, size, rank, after
  <1>17. Newest(rows, S, n)
    BY <1>13, <1>14, <1>15 DEF Newest, size
  <1> QED BY <1>16, <1>17

WalkFields == {"status", "includeInvalidated", "limit", "cursor", "listed", "steady", "ended"}

HasListed(t) == \E i \in DOMAIN walk.listed : walk.listed[i].id = t

CatalogueInv ==
  /\ IsFiniteSet(DOMAIN catalogue) /\ DOMAIN catalogue \subseteq TournamentId
  /\ \A t \in DOMAIN catalogue :
       /\ catalogue[t].publishedAt \in Days
       /\ catalogue[t] = [publishedAt |-> catalogue[t].publishedAt, startsAt |-> catalogue[t].startsAt,
                          invalidatedAt |-> catalogue[t].invalidatedAt]

\* What has been listed is in order; the cursor is the last of it, and any tournament that
\* each page could have listed is behind the cursor if it has not been listed.
WalkInv ==
  /\ walk = [f \in WalkFields |-> walk[f]] /\ walk.limit \in Nat \ {0}
  /\ walk.listed \in Seq(SortKeys)
  /\ \A i \in DOMAIN walk.listed :
       walk.listed[i].id \in DOMAIN catalogue /\ walk.listed[i] = SortKey(walk.listed[i].id)
  /\ \A i, j \in DOMAIN walk.listed : i < j => Precedes(walk.listed[j], walk.listed[i])
  /\ ~walk.ended => IF walk.cursor = Nothing THEN walk.listed = <<>>
                    ELSE walk.listed # <<>> /\ walk.cursor = walk.listed[Len(walk.listed)]
  /\ ~walk.ended /\ walk.cursor # Nothing =>
       \A t \in walk.steady : t \in DOMAIN catalogue /\ (BehindCursor(t) \/ HasListed(t))
  /\ walk.ended => \A t \in walk.steady : HasListed(t)

ListInv == today \in Nat /\ CatalogueInv /\ WalkInv

LEMMA ListInitInv ==
  ASSUME ListInit
  PROVE  ListInv
  <1>1. IsFiniteSet(DOMAIN catalogue) /\ DOMAIN catalogue = {} /\ today = 0
    BY FS_EmptySet DEF ListInit
  <1>2. PICK status \in {"open", "closed", "all"}, replacedToo \in BOOLEAN, limit \in Limits :
          walk = NewWalk(status, replacedToo, limit)
    BY DEF ListInit
  <1>3. WalkInv
    BY <1>2, TournamentListConstants DEF WalkInv, NewWalk, WalkFields
  <1> QED BY <1>1, <1>3 DEF ListInv, CatalogueInv

\* The catalogue only grows, and a tournament keeps its place in it.
LEMMA CatalogueGrows ==
  ASSUME CatalogueInv, WalkInv, walk' = walk, CatalogueInv',
         DOMAIN catalogue \subseteq DOMAIN catalogue',
         \A t \in DOMAIN catalogue : catalogue'[t].publishedAt = catalogue[t].publishedAt
  PROVE  WalkInv'
  <1>1. \A t \in DOMAIN catalogue : SortKey(t)' = SortKey(t)
    BY DEF SortKey
  <1>2. \A t \in DOMAIN catalogue : BehindCursor(t)' <=> BehindCursor(t)
    BY <1>1 DEF BehindCursor
  <1>3. \A t : HasListed(t)' <=> HasListed(t)
    BY DEF HasListed
  <1>4. \A i \in DOMAIN walk.listed :
          walk.listed[i].id \in DOMAIN catalogue' /\ walk.listed[i] = SortKey(walk.listed[i].id)'
    BY <1>1 DEF WalkInv
  <1> QED BY <1>1, <1>2, <1>3, <1>4 DEF WalkInv

\* A row is inserted, with an instant that was read, and another may be invalidated.
LEMMA CommitInv ==
  ASSUME ListInv, PublicationCommits \/ ReplacementCommits
  PROVE  ListInv'
  <1>1. PICK t \in TournamentId \ DOMAIN catalogue, at \in Recent :
          /\ DOMAIN catalogue' = DOMAIN catalogue \cup {t}
          /\ catalogue'[t].publishedAt = at
          /\ catalogue'[t] = [publishedAt |-> catalogue'[t].publishedAt, startsAt |-> catalogue'[t].startsAt,
                              invalidatedAt |-> catalogue'[t].invalidatedAt]
          /\ \A x \in DOMAIN catalogue :
               /\ catalogue'[x].publishedAt = catalogue[x].publishedAt
               /\ catalogue'[x] = [publishedAt |-> catalogue'[x].publishedAt,
                                   startsAt |-> catalogue'[x].startsAt,
                                   invalidatedAt |-> catalogue'[x].invalidatedAt]
    <2>1. CASE PublicationCommits
      <3>1. PICK t \in TournamentId \ DOMAIN catalogue, at \in Recent, start \in Days :
              catalogue' = [x \in DOMAIN catalogue \cup {t} |->
                IF x = t THEN [publishedAt |-> at, startsAt |-> start, invalidatedAt |-> Nothing]
                ELSE catalogue[x]]
        BY <2>1 DEF PublicationCommits
      <3>2. \A x \in DOMAIN catalogue : x # t /\ catalogue'[x] = catalogue[x]
        BY <3>1
      <3>3. catalogue'[t] = [publishedAt |-> at, startsAt |-> start, invalidatedAt |-> Nothing]
        BY <3>1
      <3> QED BY <3>1, <3>2, <3>3 DEF ListInv, CatalogueInv
    <2>2. CASE ReplacementCommits
      <3>1. PICK u \in DOMAIN catalogue, t \in TournamentId \ DOMAIN catalogue, at \in Recent,
                 start \in Days :
              catalogue' = [x \in DOMAIN catalogue \cup {t} |->
                IF x = t THEN [publishedAt |-> at, startsAt |-> start, invalidatedAt |-> Nothing]
                ELSE IF x = u THEN [catalogue[u] EXCEPT !.invalidatedAt = at]
                ELSE catalogue[x]]
        BY <2>2 DEF ReplacementCommits
      <3>2. \A x \in DOMAIN catalogue : x # t /\ (x # u => catalogue'[x] = catalogue[x])
        BY <3>1
      <3>3. catalogue'[t] = [publishedAt |-> at, startsAt |-> start, invalidatedAt |-> Nothing]
        BY <3>1
      <3>4. catalogue'[u] = [publishedAt |-> catalogue[u].publishedAt, startsAt |-> catalogue[u].startsAt,
                             invalidatedAt |-> at]
        BY <3>1 DEF ListInv, CatalogueInv
      <3> QED BY <3>1, <3>2, <3>3, <3>4 DEF ListInv, CatalogueInv
    <2> QED BY <2>1, <2>2
  <1>2. walk' = walk /\ today' = today
    BY DEF PublicationCommits, ReplacementCommits
  <1>3. CatalogueInv'
    <2>1. IsFiniteSet(DOMAIN catalogue \cup {t})
      BY FS_AddElement DEF ListInv, CatalogueInv
    <2>2. at \in Days
      BY DEF Recent
    <2> QED BY <1>1, <2>1, <2>2 DEF ListInv, CatalogueInv
  <1>4. WalkInv'
    BY <1>1, <1>2, <1>3, CatalogueGrows DEF ListInv
  <1> QED BY <1>2, <1>3, <1>4 DEF ListInv

\* What a page adds: tournaments behind the cursor, in order; and those it leaves out for
\* the next page are behind the last it lists.
PageOf(items, S, limit, hasMore) ==
  /\ items \in Seq(S) /\ (hasMore => Len(items) = limit)
  /\ \A i, j \in 1..Len(items) : i < j => Precedes(SortKey(items[j]), SortKey(items[i]))
  /\ \A t \in S : \/ \E i \in 1..Len(items) : items[i] = t
                  \/ hasMore /\ Precedes(SortKey(t), SortKey(items[Len(items)]))

LEMMA PageIsNewest ==
  ASSUME NEW S, Dated(S), NEW limit \in Nat \ {0}, NEW rows, Newest(rows, S, limit + 1)
  PROVE  PageOf(IF Len(rows) > limit THEN SubSeq(rows, 1, limit) ELSE rows, S, limit,
                Len(rows) > limit)
  <1> DEFINE items == IF Len(rows) > limit THEN SubSeq(rows, 1, limit) ELSE rows
  <1>1. /\ rows \in Seq(S) /\ Len(rows) \in Nat /\ Cardinality(S) \in Nat
        /\ Len(rows) <= limit + 1
    BY FS_CardinalityType DEF Newest, Dated
  <1>2. CASE Len(rows) > limit
    <2>1. /\ items \in Seq(S) /\ Len(items) = limit /\ Len(rows) = limit + 1
          /\ \A i \in 1..limit : items[i] = rows[i]
      BY <1>1, <1>2
    <2> HIDE DEF items
    <2>2. \A i, j \in 1..Len(items) : i < j => Precedes(SortKey(items[j]), SortKey(items[i]))
      BY <2>1 DEF Newest
    <2>3. ASSUME NEW t \in S
          PROVE  \/ \E i \in 1..Len(items) : items[i] = t
                 \/ Precedes(SortKey(t), SortKey(items[Len(items)]))
      <3>1. CASE \E i \in 1..limit : rows[i] = t
        BY <2>1, <3>1
      <3>2. CASE rows[limit + 1] = t
        <4>1. limit \in 1..Len(rows) /\ limit + 1 \in 1..Len(rows) /\ limit < limit + 1
          BY <2>1
        <4>2. Precedes(SortKey(rows[limit + 1]), SortKey(rows[limit]))
          BY <4>1 DEF Newest
        <4>3. limit \in 1..limit
          OBVIOUS
        <4> QED BY <2>1, <3>2, <4>2, <4>3
      <3>3. CASE ~\E i \in 1..(limit + 1) : rows[i] = t
        <4>1. limit \in 1..Len(rows) /\ limit \in 1..limit
          BY <2>1
        <4>2. Precedes(SortKey(t), SortKey(rows[limit]))
          BY <2>1, <3>3, <4>1 DEF Newest
        <4> QED BY <2>1, <4>1, <4>2
      <3>4. \A i \in 1..(limit + 1) : i \in 1..limit \/ i = limit + 1
        OBVIOUS
      <3> QED BY <3>1, <3>2, <3>3, <3>4
    <2>4. PageOf(items, S, limit, TRUE)
      BY <2>1, <2>2, <2>3 DEF PageOf
    <2> QED BY <1>2, <2>4 DEF items
  <1>3. CASE ~(Len(rows) > limit)
    <2>1. Len(rows) # limit + 1
      BY <1>1, <1>3
    <2>2. PageOf(rows, S, limit, FALSE)
      BY <2>1 DEF Newest, PageOf
    <2>3. items = rows /\ (Len(rows) > limit) = FALSE
      BY <1>3
    <2> HIDE DEF items
    <2>4. PageOf(items, S, limit, Len(rows) > limit)
      BY <2>2, <2>3
    <2> QED BY <2>4 DEF items
  <1> QED BY <1>2, <1>3

\* A page is read.
LEMMA ReadPageInv ==
  ASSUME ListInv, ReadPage
  PROVE  ListInv'
  <1>1. PICK S : S = {t \in Candidates : BehindCursor(t)}
    OBVIOUS
  <1>2. PICK rows : rows = NewestFirst(S, walk.limit + 1)
    OBVIOUS
  <1>3. PICK hasMore \in BOOLEAN : hasMore <=> Len(rows) > walk.limit
    OBVIOUS
  <1>4. PICK items : items = IF Len(rows) > walk.limit THEN SubSeq(rows, 1, walk.limit) ELSE rows
    OBVIOUS
  <1>5. PICK K : K = [i \in DOMAIN items |-> SortKey(items[i])]
    OBVIOUS
  <1> DEFINE L == walk.listed
             M == L \o K
  <1>6. /\ ~walk.ended
        /\ walk' = [walk EXCEPT !.listed = M,
                      !.cursor = IF hasMore THEN SortKey(items[Len(items)]) ELSE Nothing,
                      !.steady = @ \cap Candidates,
                      !.ended  = ~hasMore]
        /\ today' = today /\ catalogue' = catalogue
    BY <1>1, <1>2, <1>3, <1>4, <1>5 DEF ReadPage
  <1>7. /\ walk'.limit = walk.limit /\ walk'.listed = M
        /\ walk'.cursor = (IF hasMore THEN SortKey(items[Len(items)]) ELSE Nothing)
        /\ walk'.steady = walk.steady \cap Candidates /\ (walk'.ended <=> ~hasMore)
        /\ walk' = [f \in WalkFields |-> walk'[f]] /\ walk.limit \in Nat \ {0}
    BY <1>6 DEF ListInv, WalkInv, WalkFields
  <1>8. /\ L \in Seq(SortKeys)
        /\ \A i \in DOMAIN L : L[i].id \in DOMAIN catalogue /\ L[i] = SortKey(L[i].id)
        /\ \A i, j \in DOMAIN L : i < j => Precedes(L[j], L[i])
        /\ IF walk.cursor = Nothing THEN L = <<>>
           ELSE L # <<>> /\ walk.cursor = L[Len(L)]
        /\ walk.cursor # Nothing => \A t \in walk.steady : BehindCursor(t) \/ HasListed(t)
    BY <1>6 DEF ListInv, WalkInv
  <1>9. /\ S \subseteq DOMAIN catalogue /\ Dated(S)
        /\ \A t \in DOMAIN catalogue : SortKey(t) \in SortKeys /\ SortKey(t).id = t
                                       /\ SortKey(t) # Nothing
    <2>1. S \in SUBSET DOMAIN catalogue
      BY <1>1 DEF Candidates
    <2>2. IsFiniteSet(S)
      BY <2>1, FS_Subset DEF ListInv, CatalogueInv
    <2>3. ASSUME NEW t \in DOMAIN catalogue
          PROVE  catalogue[t].publishedAt \in Nat /\ t \in Nat /\ SortKey(t) # Nothing
      <3>1. catalogue[t].publishedAt \in 0..LastDay /\ t \in TournamentId
        BY DEF ListInv, CatalogueInv, Days
      <3>2. Nothing # [publishedAt |-> catalogue[t].publishedAt, id |-> t]
        BY <3>1, TournamentListConstants
      <3> QED BY <3>1, <3>2, TournamentListConstants DEF SortKey
    <2> QED BY <2>1, <2>2, <2>3 DEF Dated, SortKey, SortKeys
  <1>10. PageOf(items, S, walk.limit, hasMore)
    <2>1. walk.limit + 1 \in Nat
      BY <1>7
    <2>2. Newest(rows, S, walk.limit + 1)
      BY <1>2, <1>9, <2>1, NewestFirstIsNewest
    <2>3. PageOf(IF Len(rows) > walk.limit THEN SubSeq(rows, 1, walk.limit) ELSE rows, S,
                 walk.limit, Len(rows) > walk.limit)
      BY <1>7, <1>9, <2>2, PageIsNewest
    <2> QED BY <1>3, <1>4, <2>3
  <1>11. /\ items \in Seq(S) /\ K \in Seq(SortKeys) /\ Len(K) = Len(items)
         /\ \A i \in 1..Len(items) : items[i] \in DOMAIN catalogue /\ K[i] = SortKey(items[i])
    <2>1. items \in Seq(S)
      BY <1>10 DEF PageOf
    <2>2. \A i \in 1..Len(items) : items[i] \in S
      BY <2>1
    <2> QED BY <1>5, <1>9, <2>1, <2>2
  <1>12. /\ M \in Seq(SortKeys) /\ Len(M) = Len(L) + Len(K)
         /\ Len(L) \in Nat /\ Len(K) \in Nat /\ DOMAIN M = 1..Len(M) /\ DOMAIN L = 1..Len(L)
         /\ \A i \in 1..Len(L) : M[i] = L[i]
         /\ \A i \in 1..Len(K) : M[Len(L) + i] = K[i] /\ Len(L) + i \in DOMAIN M
    <2>1. L \in Seq(SortKeys) /\ K \in Seq(SortKeys)
      BY <1>8, <1>11
    <2> HIDE DEF L
    <2>2. /\ M \in Seq(SortKeys) /\ Len(M) = Len(L) + Len(K)
          /\ Len(L) \in Nat /\ Len(K) \in Nat /\ DOMAIN M = 1..Len(M) /\ DOMAIN L = 1..Len(L)
      BY <2>1
    <2>3. \A i \in 1..Len(L) : M[i] = L[i]
      BY <2>1
    <2>4. ASSUME NEW i \in 1..Len(K) PROVE M[Len(L) + i] = K[i] /\ Len(L) + i \in DOMAIN M
      BY <2>1, <2>2
    <2> QED BY <2>2, <2>3, <2>4
  <1> HIDE DEF L, M
  <1>13. \A i \in DOMAIN M : \/ i \in 1..Len(L) /\ M[i] = L[i]
                             \/ i - Len(L) \in 1..Len(K) /\ M[i] = K[i - Len(L)]
    BY <1>12
  <1>14. \A i \in DOMAIN M : M[i].id \in DOMAIN catalogue /\ M[i] = SortKey(M[i].id)
    <2> SUFFICES ASSUME NEW i \in DOMAIN M
                 PROVE  M[i].id \in DOMAIN catalogue /\ M[i] = SortKey(M[i].id)
      OBVIOUS
    <2>1. CASE i \in 1..Len(L) /\ M[i] = L[i]
      BY <1>8, <1>12, <2>1
    <2>2. CASE i - Len(L) \in 1..Len(K) /\ M[i] = K[i - Len(L)]
      <3>1. /\ M[i] = SortKey(items[i - Len(L)]) /\ items[i - Len(L)] \in DOMAIN catalogue
        BY <1>11, <2>2
      <3> QED BY <1>9, <3>1
    <2> QED BY <1>13, <2>1, <2>2
  <1>15. ASSUME NEW i \in DOMAIN M, NEW j \in DOMAIN M, i < j
         PROVE  Precedes(M[j], M[i])
    <2>1. CASE i \in 1..Len(L) /\ j \in 1..Len(L)
      BY <1>8, <1>12, <1>15, <2>1
    <2>2. CASE i - Len(L) \in 1..Len(K) /\ j - Len(L) \in 1..Len(K)
      <3>1. i - Len(L) < j - Len(L)
        BY <1>12, <1>15
      <3>2. Precedes(SortKey(items[j - Len(L)]), SortKey(items[i - Len(L)]))
        BY <1>10, <1>11, <2>2, <3>1 DEF PageOf
      <3>3. M[i] = K[i - Len(L)] /\ M[j] = K[j - Len(L)]
        BY <1>12, <1>13, <2>2
      <3> QED BY <1>11, <2>2, <3>2, <3>3
    <2>3. CASE i \in 1..Len(L) /\ j - Len(L) \in 1..Len(K)
      <3>1. M[i] = L[i] /\ M[j] = K[j - Len(L)] /\ K[j - Len(L)] = SortKey(items[j - Len(L)])
        BY <1>11, <1>12, <1>13, <2>3
      <3>2. items[j - Len(L)] \in S
        BY <1>11, <2>3
      <3>3. L # <<>> /\ walk.cursor # Nothing /\ walk.cursor = L[Len(L)]
        BY <1>8, <2>3
      <3>4. Precedes(M[j], L[Len(L)])
        BY <1>1, <3>1, <3>2, <3>3 DEF BehindCursor
      <3>5. i = Len(L) \/ Precedes(L[Len(L)], L[i])
        <4>1. Len(L) \in 1..Len(L) /\ (i = Len(L) \/ i < Len(L))
          BY <1>12, <2>3
        <4> QED BY <1>8, <1>12, <2>3, <4>1
      <3>6. M[j] \in SortKeys /\ L[i] \in SortKeys /\ L[Len(L)] \in SortKeys
        BY <1>8, <1>12, <2>3
      <3> QED BY <3>1, <3>4, <3>5, <3>6, Ordered
    <2>4. CASE i - Len(L) \in 1..Len(K) /\ j \in 1..Len(L)
      BY <1>12, <1>15, <2>4
    <2> QED BY <1>13, <2>1, <2>2, <2>3, <2>4
  <1>16. hasMore => /\ SortKey(items[Len(items)]) # Nothing /\ M # <<>>
                    /\ SortKey(items[Len(items)]) = M[Len(M)]
    <2> SUFFICES ASSUME hasMore
                 PROVE  /\ SortKey(items[Len(items)]) # Nothing /\ M # <<>>
                        /\ SortKey(items[Len(items)]) = M[Len(M)]
      OBVIOUS
    <2>1. Len(K) \in 1..Len(K) /\ Len(items) \in 1..Len(items) /\ Len(M) > 0
      BY <1>7, <1>10, <1>11, <1>12 DEF PageOf
    <2>2. /\ SortKey(items[Len(items)]) # Nothing
          /\ SortKey(items[Len(items)]) = K[Len(K)]
      BY <1>9, <1>11, <2>1
    <2>3. K[Len(K)] = M[Len(M)]
      BY <1>12, <2>1
    <2>4. M # <<>>
      BY <1>12, <2>1
    <2> QED BY <2>2, <2>3, <2>4
  <1>17. \A t : HasListed(t) => HasListed(t)'
    BY <1>7, <1>12 DEF HasListed, L
  <1>18. ASSUME NEW t \in walk.steady \cap Candidates
         PROVE  HasListed(t)' \/ (hasMore /\ Precedes(SortKey(t), SortKey(items[Len(items)])))
    <2>1. HasListed(t) \/ t \in S
      BY <1>1, <1>8 DEF BehindCursor
    <2>2. ASSUME t \in S
          PROVE  HasListed(t)' \/ (hasMore /\ Precedes(SortKey(t), SortKey(items[Len(items)])))
      <3>1. ASSUME NEW i \in 1..Len(items), items[i] = t PROVE HasListed(t)'
        <4>1. M[Len(L) + i].id = t /\ Len(L) + i \in DOMAIN M
          BY <1>9, <1>11, <1>12, <3>1
        <4> QED BY <1>7, <4>1 DEF HasListed
      <3> QED BY <1>10, <2>2, <3>1 DEF PageOf
    <2> QED BY <1>17, <2>1, <2>2
  <1>19. WalkInv'
    <2>1. \A t : SortKey(t)' = SortKey(t)
      BY <1>6 DEF SortKey
    <2>2. ~walk'.ended => IF walk'.cursor = Nothing THEN walk'.listed = <<>>
                          ELSE walk'.listed # <<>> /\ walk'.cursor = walk'.listed[Len(walk'.listed)]
      BY <1>7, <1>16
    <2>3. ~walk'.ended /\ walk'.cursor # Nothing =>
            \A t \in walk'.steady : t \in DOMAIN catalogue' /\ (BehindCursor(t)' \/ HasListed(t)')
      <3> SUFFICES ASSUME ~walk'.ended, NEW t \in walk'.steady
                   PROVE  t \in DOMAIN catalogue' /\ (BehindCursor(t)' \/ HasListed(t)')
        OBVIOUS
      <3>1. t \in walk.steady \cap Candidates /\ hasMore
        BY <1>7
      <3>2. t \in DOMAIN catalogue'
        BY <1>6, <3>1 DEF Candidates
      <3>3. Precedes(SortKey(t), SortKey(items[Len(items)])) => BehindCursor(t)'
        BY <1>7, <2>1, <3>1 DEF BehindCursor
      <3> QED BY <1>18, <3>1, <3>2, <3>3
    <2>4. walk'.ended => \A t \in walk'.steady : HasListed(t)'
      BY <1>7, <1>18
    <2> QED BY <1>6, <1>7, <1>12, <1>14, <1>15, <2>1, <2>2, <2>3, <2>4 DEF WalkInv
  <1> QED BY <1>6, <1>19 DEF ListInv, CatalogueInv

\* However many tournaments there are, whatever shares an instant, and whatever commits or
\* closes between the pages (tournament-list.ts:60-139): a walk lists the newest first and
\* nothing twice, and misses nothing that each of its pages could have listed.
THEOREM WalkExact == ListSpec => []WalkIsExact
  <1>1. ListInit => ListInv
    BY ListInitInv
  <1>2. ListInv /\ [ListNext]_listing => ListInv'
    <2> SUFFICES ASSUME ListInv, [ListNext]_listing PROVE ListInv'
      OBVIOUS
    <2>1. CASE PublicationCommits \/ ReplacementCommits
      BY <2>1, CommitInv
    <2>2. CASE ReadPage
      BY <2>2, ReadPageInv
    <2>3. CASE DayPasses \/ UNCHANGED listing
      <3>1. /\ catalogue' = catalogue /\ walk' = walk /\ today' \in Nat
        BY <2>3 DEF DayPasses, listing, ListInv
      <3>2. CatalogueInv'
        BY <3>1 DEF ListInv, CatalogueInv
      <3>3. WalkInv'
        BY <3>1, <3>2, CatalogueGrows DEF ListInv
      <3> QED BY <3>1, <3>2, <3>3 DEF ListInv
    <2> QED BY <2>1, <2>2, <2>3 DEF ListNext
  <1>3. ListInv => WalkIsExact
    BY DEF ListInv, WalkInv, WalkIsExact, HasListed
  <1> QED BY <1>1, <1>2, <1>3, PTL DEF ListSpec

-------------------------------------------------------------------------------
(***************************************************************************)
(* The poll: the results are those of a count by hand.                     *)
(***************************************************************************)
PollInv == ballots = [v \in DOMAIN ballots |-> ballots[v]]
           /\ Ballots(ballots, Ids, Len(Pairs))

LEMMA PollAccepts ==
  ASSUME PollInv, NEW v \in Voter, NEW ordering \in Ordering, Cast(v, ordering)
  PROVE  PollInv' /\ DOMAIN ballots' = DOMAIN ballots \cup {v} /\ v \notin DOMAIN ballots
         /\ \A u \in DOMAIN ballots : ballots'[u] = ballots[u]
  <1>1. /\ v \notin DOMAIN ballots /\ DOMAIN ballots' = DOMAIN ballots \cup {v}
        /\ ballots'[v] = ordering
        /\ \A u \in DOMAIN ballots : ballots'[u] = ballots[u]
        /\ ballots' = [u \in DOMAIN ballots' |-> ballots'[u]]
    BY DEF Cast
  <1>2. IsFiniteSet(DOMAIN ballots \cup {v})
    BY FS_AddElement DEF PollInv, Ballots
  <1>3. DOMAIN ordering = Ids /\ \A id \in Ids : ordering[id] \in 1..Len(Pairs)
    BY DEF Ordering
  <1>4. Ballots(ballots, Ids, Len(Pairs))'
    BY <1>1, <1>2, <1>3 DEF PollInv, Ballots
  <1> QED BY <1>1, <1>4 DEF PollInv

LEMMA PollKeeps == PollSpec => []PollInv
  <1>1. PollInit => PollInv
    BY FS_EmptySet DEF PollInit, PollInv, Ballots
  <1>2. PollInv /\ [PollNext]_ballots => PollInv'
    <2> SUFFICES ASSUME PollInv, [PollNext]_ballots PROVE PollInv'
      OBVIOUS
    <2>1. CASE PollNext
      BY <2>1, PollAccepts DEF PollNext
    <2>2. CASE UNCHANGED ballots
      BY <2>2 DEF PollInv, Ballots
    <2> QED BY <2>1, <2>2
  <1> QED BY <1>1, <1>2, PTL DEF PollSpec

\* The pairs in any order are the same pairs.
LEMMA LoadedPairs ==
  ASSUME NEW pairs \in Loaded
  PROVE  /\ PairList(pairs) /\ Len(pairs) = Len(Pairs) /\ DOMAIN pairs = DOMAIN Pairs
         /\ IdsOf(pairs) = Ids
         /\ \A i \in DOMAIN pairs : \E j \in DOMAIN Pairs : pairs[i] = Pairs[j]
  <1> DEFINE T == [id : Nat, totalPoints : Nat]
  <1>1. PICK f \in [DOMAIN Pairs -> DOMAIN Pairs] :
               IsInjective(f) /\ pairs = [i \in DOMAIN Pairs |-> Pairs[f[i]]]
    BY DEF Loaded
  <1>2. PICK size \in Nat : size = Len(Pairs) /\ DOMAIN Pairs = 1..size
                            /\ \A i \in 1..size : Pairs[i] \in T
    <2>1. Pairs \in Seq(T)
      BY PollConstants
    <2> HIDE DEF T
    <2> QED BY <2>1, LenProperties, ElementOfSeq
  <1>3. pairs \in [1..size -> T]
    BY <1>1, <1>2
  <1>4. pairs \in Seq(T)
    <2> HIDE DEF T
    <2> QED BY <1>3, SeqDef
  <1>5. Len(pairs) = size /\ DOMAIN pairs = 1..size
    <2> HIDE DEF T
    <2>1. DOMAIN pairs = 1..Len(pairs) /\ Len(pairs) \in Nat /\ DOMAIN pairs = 1..size
      BY <1>3, <1>4, LenProperties
    <2>2. size = Len(pairs)
      <3> DEFINE n == Len(pairs)
      <3>1. n \in Nat /\ 1..n = 1..size
        BY <2>1
      <3> HIDE DEF n
      <3>2. size <= n
        BY <3>1
      <3>3. n <= size
        BY <3>1
      <3> QED BY <3>1, <3>2, <3>3 DEF n
    <2> QED BY <2>1, <2>2
  <1>6. f \in Surjection(DOMAIN Pairs, DOMAIN Pairs)
    <2>1. f \in Injection(DOMAIN Pairs, DOMAIN Pairs)
      BY <1>1 DEF Injection, IsInjective
    <2>2. IsFiniteSet(DOMAIN Pairs)
      BY <1>2, FS_Interval
    <2> QED BY <2>1, <2>2, FS_Injection
  <1>7. \A i \in DOMAIN pairs : f[i] \in DOMAIN Pairs /\ pairs[i] = Pairs[f[i]]
    BY <1>1
  <1>8. \A j \in DOMAIN Pairs : \E i \in DOMAIN pairs : pairs[i] = Pairs[j]
    BY <1>1, <1>6, <1>7 DEF Surjection
  <1>9. PairList(pairs)
    <2>1. \A i \in DOMAIN pairs : pairs[i].id \in Int /\ pairs[i].totalPoints \in Int
      BY <1>3, <1>5
    <2>2. ASSUME NEW i \in DOMAIN pairs, NEW j \in DOMAIN pairs, pairs[i].id = pairs[j].id
          PROVE  i = j
      <3>1. f[i] = f[j]
        BY <1>7, <2>2, PollConstants
      <3> QED BY <1>1, <1>2, <1>5, <3>1 DEF IsInjective
    <2> QED BY <1>5, <2>1, <2>2 DEF PairList
  <1>10. IdsOf(pairs) = Ids
    BY <1>7, <1>8 DEF IdsOf, Ids
  <1> QED BY <1>2, <1>5, <1>7, <1>9, <1>10

LEMMA PairsLoaded == Pairs \in Loaded
  <1> DEFINE f == [i \in DOMAIN Pairs |-> i]
  <1>1. f \in [DOMAIN Pairs -> DOMAIN Pairs] /\ IsInjective(f)
    BY DEF IsInjective
  <1>2. Pairs = [i \in DOMAIN Pairs |-> Pairs[f[i]]]
    BY PollConstants
  <1> QED BY <1>1, <1>2 DEF Loaded

\* What the comparator goes by is what a count by hand goes by.
LEMMA HandCounts ==
  ASSUME PollInv, NEW pairs \in Loaded, NEW i \in DOMAIN pairs
  PROVE  LET s == ScoreOf(ballots, pairs, i) IN
         /\ HandCount(pairs[i].id) = <<s.weighted, -s.firstPlaceVotes, -s.totalPoints, s.id>>
         /\ Comparable(s)
  <1> DEFINE id == pairs[i].id
             s == ScoreOf(ballots, pairs, i)
             k == CHOOSE n \in DOMAIN Pairs : Pairs[n].id = id
  <1>1. Ballots(ballots, IdsOf(pairs), Len(pairs)) /\ PairList(pairs)
    BY LoadedPairs DEF PollInv
  <1>2. /\ s.id = id /\ s.totalPoints = pairs[i].totalPoints
        /\ s.weighted = SumOf(OnBallots(ballots, id), DOMAIN ballots)
        /\ s.firstPlaceVotes = Cardinality(Supporters(ballots, id, 1))
        /\ Comparable(s)
    BY <1>1, ScoreIsCount
  <1>3. Pairs[k].totalPoints = pairs[i].totalPoints
    <2>1. PICK j \in DOMAIN Pairs : pairs[i] = Pairs[j]
      BY LoadedPairs
    <2>2. k = j
      BY <2>1, PollConstants
    <2> QED BY <2>1, <2>2
  <1>4. MapThenSumSet(LAMBDA v : ballots[v][id], DOMAIN ballots)
          = SumOf(OnBallots(ballots, id), DOMAIN ballots)
    BY Zenon DEF MapThenSumSet, MapThenFoldSet, SumOf, SumsUp, First, OnBallots
  <1>5. HandCount(id) = <<MapThenSumSet(LAMBDA v : ballots[v][id], DOMAIN ballots),
                          -Cardinality(Supporters(ballots, id, 1)), -Pairs[k].totalPoints, id>>
    BY DEF HandCount, Supporters
  <1> HIDE DEF s, id, k
  <1>6. HandCount(id) = <<s.weighted, -s.firstPlaceVotes, -s.totalPoints, s.id>>
    BY <1>2, <1>3, <1>4, <1>5
  <1> QED BY <1>2, <1>6 DEF s, id

\* Compared as tuples, that is the comparator.
LEMMA EarlierIsBefore ==
  ASSUME NEW a, NEW b, Comparable(a), Comparable(b)
  PROVE  Earlier(<<a.weighted, -a.firstPlaceVotes, -a.totalPoints, a.id>>,
                 <<b.weighted, -b.firstPlaceVotes, -b.totalPoints, b.id>>) => before(a, b)
  <1> DEFINE s == <<a.weighted, -a.firstPlaceVotes, -a.totalPoints, a.id>>
             t == <<b.weighted, -b.firstPlaceVotes, -b.totalPoints, b.id>>
  <1>1. /\ DOMAIN s = 1..4
        /\ s[1] = a.weighted /\ s[2] = -a.firstPlaceVotes /\ s[3] = -a.totalPoints /\ s[4] = a.id
        /\ t[1] = b.weighted /\ t[2] = -b.firstPlaceVotes /\ t[3] = -b.totalPoints /\ t[4] = b.id
    OBVIOUS
  <1> HIDE DEF s, t
  <1> SUFFICES ASSUME Earlier(s, t) PROVE before(a, b)
    BY DEF s, t
  <1>2. PICK k \in 1..4 : s[k] < t[k] /\ \A m \in 1..(k - 1) : s[m] = t[m]
    BY <1>1 DEF Earlier
  <1>3. CASE k = 1
    BY <1>1, <1>2, <1>3 DEF before, Comparable
  <1>4. CASE k = 2
    <2>1. s[1] = t[1] /\ s[2] < t[2]
      BY <1>2, <1>4
    <2> QED BY <1>1, <2>1 DEF before, Comparable
  <1>5. CASE k = 3
    <2>1. s[1] = t[1] /\ s[2] = t[2] /\ s[3] < t[3]
      BY <1>2, <1>5
    <2> QED BY <1>1, <2>1 DEF before, Comparable
  <1>6. CASE k = 4
    <2>1. s[1] = t[1] /\ s[2] = t[2] /\ s[3] = t[3] /\ s[4] < t[4]
      BY <1>2, <1>6
    <2> QED BY <1>1, <2>1 DEF before, Comparable
  <1> QED BY <1>2, <1>3, <1>4, <1>5, <1>6

\* The results of a set of ballots for one who loaded the pairs in some order.
LEMMA PollResults ==
  ASSUME NEW cast, Ballots(cast, Ids, Len(Pairs)), DOMAIN cast # {}, NEW pairs \in Loaded
  PROVE  /\ ResultsOf(cast, pairs).ballotCount = Cardinality(DOMAIN cast)
         /\ Places(ResultsOf(cast, pairs), cast, pairs)
  <1>1. Cardinality(DOMAIN cast) \in Nat \ {0}
    <2>1. IsFiniteSet(DOMAIN cast)
      BY DEF Ballots
    <2> QED BY <2>1, FS_CardinalityType, FS_EmptySet
  <1>2. Ballots(cast, IdsOf(pairs), Len(pairs)) /\ PairList(pairs)
    BY LoadedPairs
  <1> QED BY <1>1, <1>2, ResultsInOrder DEF ResultsOf, ballotCount

(***************************************************************************)
(* The results of scoreGroup are those of a count by hand, for any voters, *)
(* any pairs in any order, and after any ballots.                          *)
(***************************************************************************)
THEOREM CountedByHand == PollSpec => []AsCountedByHand
  <1>1. PollInv => AsCountedByHand
    <2> SUFFICES ASSUME PollInv, ballots # <<>>, NEW pairs \in Loaded
                 PROVE  LET results == ResultsOf(ballots, pairs) IN
                        /\ results.ballotCount = Cardinality(DOMAIN ballots)
                        /\ \A n, position \in DOMAIN Pairs :
                             results.standings[n].votes[position] =
                               Cardinality({v \in DOMAIN ballots :
                                              ballots[v][results.standings[n].id] = position})
                        /\ \A p, q \in Ids :
                             Earlier(HandCount(p), HandCount(q)) =>
                               predictedPosition(results, p) < predictedPosition(results, q)
      BY DEF AsCountedByHand
    <2> DEFINE results == ResultsOf(ballots, pairs)
    <2>1. results.ballotCount = Cardinality(DOMAIN ballots) /\ Places(results, ballots, pairs)
      BY PollResults DEF PollInv
    <2> HIDE DEF results
    <2>2. ASSUME NEW n \in DOMAIN Pairs, NEW position \in DOMAIN Pairs
          PROVE  results.standings[n].votes[position] =
                   Cardinality({v \in DOMAIN ballots :
                                  ballots[v][results.standings[n].id] = position})
      <3>1. PICK i \in DOMAIN pairs : results.standings[n] = ScoreOf(ballots, pairs, i)
        BY <2>1, LoadedPairs DEF Places
      <3>2. Ballots(ballots, IdsOf(pairs), Len(pairs)) /\ PairList(pairs)
            /\ position \in DOMAIN pairs
        BY LoadedPairs DEF PollInv
      <3>3. /\ results.standings[n].id = pairs[i].id
            /\ results.standings[n].votes[position]
                 = Cardinality(Supporters(ballots, pairs[i].id, position))
        BY <3>1, <3>2, ScoreIsCount
      <3> QED BY <3>3 DEF Supporters
    <2>3. ASSUME NEW p \in Ids, NEW q \in Ids, Earlier(HandCount(p), HandCount(q))
          PROVE  predictedPosition(results, p) < predictedPosition(results, q)
      <3>1. PICK i \in DOMAIN pairs, j \in DOMAIN pairs : p = pairs[i].id /\ q = pairs[j].id
        BY LoadedPairs DEF IdsOf
      <3> DEFINE a == ScoreOf(ballots, pairs, i)
                 b == ScoreOf(ballots, pairs, j)
      <3>2. /\ HandCount(p) = <<a.weighted, -a.firstPlaceVotes, -a.totalPoints, a.id>>
            /\ HandCount(q) = <<b.weighted, -b.firstPlaceVotes, -b.totalPoints, b.id>>
            /\ Comparable(a) /\ Comparable(b)
        BY <3>1, HandCounts
      <3> HIDE DEF a, b
      <3>3. before(a, b)
        BY <2>3, <3>2, EarlierIsBefore
      <3> QED BY <2>1, <3>1, <3>3 DEF Places, a, b
    <2> QED BY <2>1, <2>2, <2>3 DEF results
  <1> QED BY <1>1, PollKeeps, PTL

\* One ballot more, and what each pair is ranked by.
LEMMA OneBallotMore ==
  ASSUME NEW b, NEW c, NEW ids, NEW size \in Nat, Ballots(b, ids, size), Ballots(c, ids, size),
         NEW v, v \notin DOMAIN b, DOMAIN c = DOMAIN b \cup {v},
         \A u \in DOMAIN b : c[u] = b[u], NEW id \in ids
  PROVE  SumOf(OnBallots(c, id), DOMAIN c) = c[v][id] + SumOf(OnBallots(b, id), DOMAIN b)
  <1>1. Summable(OnBallots(c, id), DOMAIN c) /\ IsFiniteSet(DOMAIN c) /\ IsFiniteSet(DOMAIN b)
    BY DEF Summable, OnBallots, Ballots
  <1>2. v \in DOMAIN c /\ DOMAIN c \ {v} = DOMAIN b /\ OnBallots(c, id)[v] = c[v][id]
    BY DEF OnBallots
  <1>3. SumOf(OnBallots(c, id), DOMAIN c) = c[v][id] + SumOf(OnBallots(c, id), DOMAIN b)
    BY <1>1, <1>2, SumAdds
  <1>4. \A u \in DOMAIN b : OnBallots(c, id)[u] = OnBallots(b, id)[u]
    BY DEF OnBallots
  <1> QED BY <1>1, <1>3, <1>4, SumSame

(***************************************************************************)
(* A pair that is ahead of another stays ahead when one more ballot places *)
(* it ahead.                                                               *)
(***************************************************************************)
THEOREM ChoiceCounts == PollSpec => BallotsCountForTheirChoice
  <1>1. PollInv /\ [PollNext]_ballots =>
          [\A p, q \in Ids, v \in Voter :
             /\ ballots # <<>>
             /\ v \in DOMAIN ballots' \ DOMAIN ballots
             /\ ballots'[v][p] < ballots'[v][q]
             /\ predictedPosition(Results, p) < predictedPosition(Results, q)
             => predictedPosition(Results', p) < predictedPosition(Results', q)]_ballots
    <2> SUFFICES ASSUME PollInv, PollNext, NEW p \in Ids, NEW q \in Ids, NEW v \in Voter,
                        ballots # <<>>, v \in DOMAIN ballots' \ DOMAIN ballots,
                        ballots'[v][p] < ballots'[v][q],
                        predictedPosition(Results, p) < predictedPosition(Results, q)
                 PROVE  predictedPosition(Results', p) < predictedPosition(Results', q)
      OBVIOUS
    <2>1. PICK w \in Voter, ordering \in Ordering : Cast(w, ordering)
      BY DEF PollNext
    <2>2. /\ PollInv' /\ DOMAIN ballots' = DOMAIN ballots \cup {w} /\ w \notin DOMAIN ballots
          /\ \A u \in DOMAIN ballots : ballots'[u] = ballots[u]
      BY <2>1, PollAccepts
    <2>3. w = v /\ DOMAIN ballots' # {} /\ v \in DOMAIN ballots'
      BY <2>2
    <2>4. /\ Places(Results, ballots, Pairs)
          /\ Places(Results', ballots', Pairs)
      <3>1. PICK new : new = ballots'
        OBVIOUS
      <3>2. Ballots(new, Ids, Len(Pairs)) /\ DOMAIN new # {} /\ DOMAIN ballots # {}
        BY <2>2, <2>3, <3>1 DEF PollInv
      <3>3. Places(ResultsOf(ballots, Pairs), ballots, Pairs)
        BY <3>2, PollResults, PairsLoaded DEF PollInv
      <3>4. Places(ResultsOf(new, Pairs), new, Pairs)
        BY <3>2, PollResults, PairsLoaded
      <3>5. Places(ResultsOf(ballots', Pairs), ballots', Pairs)
        BY <3>1, <3>4
      <3> QED BY <3>3, <3>5 DEF Results
    <2>5. PICK i \in DOMAIN Pairs, j \in DOMAIN Pairs : p = Pairs[i].id /\ q = Pairs[j].id
      BY DEF Ids
    <2>6. PICK old, new : old = ballots /\ new = ballots'
      OBVIOUS
    <2>7. /\ Ballots(old, Ids, Len(Pairs)) /\ Ballots(new, Ids, Len(Pairs))
          /\ IdsOf(Pairs) = Ids /\ PairList(Pairs) /\ Len(Pairs) \in Nat
      BY <2>2, <2>6, LoadedPairs, PairsLoaded DEF PollInv, PairList
    <2> DEFINE a == ScoreOf(old, Pairs, i)
               b == ScoreOf(old, Pairs, j)
               c == ScoreOf(new, Pairs, i)
               d == ScoreOf(new, Pairs, j)
    <2>8. /\ Comparable(a) /\ Comparable(b) /\ Comparable(c) /\ Comparable(d)
          /\ a.weighted = SumOf(OnBallots(old, p), DOMAIN old)
          /\ b.weighted = SumOf(OnBallots(old, q), DOMAIN old)
          /\ c.weighted = SumOf(OnBallots(new, p), DOMAIN new)
          /\ d.weighted = SumOf(OnBallots(new, q), DOMAIN new)
      BY <2>5, <2>7, ScoreIsCount
    <2>9. /\ SumOf(OnBallots(new, p), DOMAIN new) = new[v][p] + SumOf(OnBallots(old, p), DOMAIN old)
          /\ SumOf(OnBallots(new, q), DOMAIN new) = new[v][q] + SumOf(OnBallots(old, q), DOMAIN old)
      BY <2>2, <2>3, <2>6, <2>7, OneBallotMore
    <2>10. before(a, b)
      BY <2>4, <2>5, <2>6 DEF Places
    <2>11. new[v][p] \in Int /\ new[v][q] \in Int /\ new[v][p] < new[v][q]
      BY <2>3, <2>6, <2>7 DEF Ballots
    <2> HIDE DEF a, b, c, d
    <2>12. c.weighted = new[v][p] + a.weighted /\ d.weighted = new[v][q] + b.weighted
      BY <2>8, <2>9
    <2>13. before(c, d)
      BY <2>8, <2>10, <2>11, <2>12 DEF before, Comparable
    <2> QED BY <2>4, <2>5, <2>6, <2>13 DEF Places, c, d
  <1> QED BY <1>1, PollKeeps, PTL DEF PollSpec, BallotsCountForTheirChoice

-------------------------------------------------------------------------------
(***************************************************************************)
(* A player's page: the rows an import leaves.                             *)
(***************************************************************************)

\* A table of players: a row per person, of those that sheets name.
PeopleTable(table) ==
  /\ DOMAIN table \subseteq PlayerId
  /\ \A p \in DOMAIN table : table[p].matchKey \in PeopleOfSheets
  /\ \A p, q \in DOMAIN table : table[p].matchKey = table[q].matchKey => p = q

\* A row stays the row of its person.
RowsStay(old, new) ==
  \A p \in DOMAIN old : p \in DOMAIN new /\ new[p].matchKey = old[p].matchKey

LEMMA SmallestNumber ==
  ASSUME NEW S, S \subseteq Nat, S # {}
  PROVE  Min(S) \in S
  <1>1. PICK x \in S : \A y \in S : ~(<<y, x>> \in OpToRel(<, Nat))
    BY NatLessThanWellFounded, WFMin
  <1>2. \A y \in S : ~(y < x)
    BY <1>1 DEF OpToRel
  <1>3. \A y \in S : x <= y
    BY <1>2
  <1> QED BY <1>1, <1>3 DEF Min

\* There is an id for a person who is not on record.
LEMMA FreshId ==
  ASSUME NEW table, PeopleTable(table), NEW key \in PeopleOfSheets, HasKey(table, key) = {}
  PROVE  Min(PlayerId \ DOMAIN table) \in PlayerId \ DOMAIN table
  <1> DEFINE others == PeopleOfSheets \ {key}
             keyOf == [p \in DOMAIN table |-> table[p].matchKey]
  <1>1. \A p \in DOMAIN table : table[p].matchKey # key
    BY DEF HasKey
  <1>2. keyOf \in Injection(DOMAIN table, others)
    BY <1>1 DEF Injection, IsInjective, PeopleTable
  <1>3. IsFiniteSet(others) /\ Cardinality(others) = Cardinality(PeopleOfSheets) - 1
    BY PlayerHistoryConstants, FS_RemoveElement
  <1>4. Cardinality(DOMAIN table) <= Cardinality(others) /\ IsFiniteSet(DOMAIN table)
    <2> HIDE DEF others, keyOf
    <2> QED BY <1>2, <1>3, FS_Injection
  <1>5. /\ Cardinality(PeopleOfSheets) \in Nat /\ Cardinality(PlayerId) \in Nat
        /\ Cardinality(DOMAIN table) \in Nat
    BY <1>4, PlayerHistoryConstants, FS_CardinalityType
  <1>6. Cardinality(DOMAIN table) # Cardinality(PlayerId)
    BY <1>3, <1>4, <1>5, PlayerHistoryConstants
  <1>7. PlayerId \ DOMAIN table # {}
    BY <1>6 DEF PeopleTable
  <1> QED BY <1>7, PlayerHistoryConstants, SmallestNumber

LEMMA UpsertKeeps ==
  ASSUME NEW table, PeopleTable(table), NEW row, row.key \in PeopleOfSheets
  PROVE  PeopleTable(Upsert(table, row)) /\ RowsStay(table, Upsert(table, row))
  <1> DEFINE taken == Conflicting(table, row)
  <1>1. taken = {p \in DOMAIN table : table[p].matchKey = row.key}
    BY DEF Conflicting, HasKey
  <1>2. PICK id : id = IF taken = {} THEN Min(PlayerId \ DOMAIN table) ELSE CHOOSE p \in taken : TRUE
    OBVIOUS
  <1>3. Upsert(table, row) =
          [p \in DOMAIN table \cup {id} |->
             IF p = id THEN [matchKey |-> row.key, externalId |-> row.externalId] ELSE table[p]]
    BY <1>2 DEF Upsert
  <1>4. IF taken = {} THEN id \in PlayerId \ DOMAIN table ELSE id \in taken
    BY <1>2, FreshId DEF Conflicting
  <1>5. /\ DOMAIN Upsert(table, row) = DOMAIN table \cup {id}
        /\ Upsert(table, row)[id].matchKey = row.key
        /\ \A p \in DOMAIN table : p # id => Upsert(table, row)[p] = table[p]
    BY <1>3
  <1> HIDE DEF taken
  <1>6. id \in PlayerId /\ \A p \in DOMAIN table : table[p].matchKey = row.key => p = id
    BY <1>1, <1>4 DEF PeopleTable
  <1>7. id \in DOMAIN table => table[id].matchKey = row.key
    BY <1>1, <1>4
  <1> QED BY <1>5, <1>6, <1>7 DEF PeopleTable, RowsStay

\* The recursion of FoldLeft.
Folds(it, table, sheet, S) ==
  it = [s \in SUBSET S |-> IF s = {} THEN table ELSE Upsert(it[s \ {Max(s)}], sheet[Max(s)])]

LEMMA FoldIs ==
  ASSUME NEW table, NEW sheet
  PROVE  FoldLeft(Upsert, table, sheet) =
           (CHOOSE it : Folds(it, table, sheet, DOMAIN sheet))[DOMAIN sheet]
  BY Zenon DEF FoldLeft, MapThenFoldSet, Folds

LEMMA HighestIn ==
  ASSUME NEW S, IsFiniteSet(S), S \subseteq Nat
  PROVE  \A s \in SUBSET S : s # {} => Max(s) \in s
  <1> DEFINE Top(s) == \E x \in s : \A y \in s : x >= y
             Bad == {s \in SUBSET S : s # {} /\ ~Top(s)}
  <1>1. Bad = {}
    <2> SUFFICES ASSUME Bad # {} PROVE FALSE
      OBVIOUS
    <2>1. PICK s \in Bad : \A x \in s : s \ {x} \notin Bad
      <3>1. Bad \subseteq SUBSET S
        OBVIOUS
      <3> HIDE DEF Bad
      <3> QED BY <3>1, SmallestSet
    <2>2. PICK x \in s : TRUE
      BY <2>1
    <2>3. s \ {x} = {} \/ Top(s \ {x})
      BY <2>1
    <2>4. CASE s \ {x} = {}
      BY <2>1, <2>2, <2>4
    <2>5. CASE Top(s \ {x})
      <3>1. PICK m \in s \ {x} : \A y \in s \ {x} : m >= y
        BY <2>5
      <3>2. x \in Nat /\ m \in Nat /\ \A y \in s : y \in Nat
        BY <2>1, <2>2
      <3>3. IF x > m THEN \A y \in s : x >= y ELSE \A y \in s : m >= y
        BY <3>1, <3>2
      <3> QED BY <2>1, <2>2, <3>1, <3>3
    <2> QED BY <2>3, <2>4, <2>5
  <1>2. \A s \in SUBSET S : s # {} => Top(s)
    BY <1>1
  <1> QED BY <1>2 DEF Max

Lower(s) == s \ {Max(s)}

RowByRow(it, table, sheet, S) ==
  /\ it[{}] = table
  /\ \A s \in SUBSET S : s # {} => it[s] = Upsert(it[Lower(s)], sheet[Max(s)])

LEMMA FoldStepOf ==
  ASSUME NEW table, NEW sheet, NEW S, NEW it, Folds(it, table, sheet, S)
  PROVE  RowByRow(it, table, sheet, S)
  BY DEF Folds, Lower, RowByRow

LEMMA FoldsAgree ==
  ASSUME NEW table, NEW sheet, NEW A, NEW B, NEW a, NEW b,
         Folds(a, table, sheet, A), Folds(b, table, sheet, B),
         NEW S, IsFiniteSet(S), S \subseteq Nat, S \subseteq A, S \subseteq B
  PROVE  a[S] = b[S]
  <1>0. RowByRow(a, table, sheet, A) /\ RowByRow(b, table, sheet, B)
    BY FoldStepOf
  <1> DEFINE Bad == {s \in SUBSET S : a[s] # b[s]}
  <1> SUFFICES ASSUME Bad # {} PROVE FALSE
    OBVIOUS
  <1>1. PICK s \in Bad : \A x \in s : s \ {x} \notin Bad
    <2>1. Bad \subseteq SUBSET S
      OBVIOUS
    <2> HIDE DEF Bad
    <2> QED BY <2>1, SmallestSet
  <1>2. s \in SUBSET A /\ s \in SUBSET B /\ Lower(s) \in SUBSET S
    BY DEF Lower
  <1>3. /\ a[{}] = table /\ b[{}] = table
        /\ s # {} => a[s] = Upsert(a[Lower(s)], sheet[Max(s)])
        /\ s # {} => b[s] = Upsert(b[Lower(s)], sheet[Max(s)])
    BY <1>0, <1>2 DEF RowByRow
  <1>4. s # {} => Lower(s) \notin Bad
    BY <1>1, HighestIn DEF Lower
  <1>5. s # {} => a[Lower(s)] = b[Lower(s)]
    BY <1>2, <1>4
  <1>6. a[s] = b[s]
    BY <1>3, <1>5
  <1> QED BY <1>1, <1>6

LEMMA FoldExists ==
  ASSUME NEW S, IsFiniteSet(S), S \subseteq Nat, NEW table, NEW sheet
  PROVE  \E it : Folds(it, table, sheet, S)
  <1> DEFINE Bad == {s \in SUBSET S : ~\E it : Folds(it, table, sheet, s)}
  <1> SUFFICES ASSUME Bad # {} PROVE FALSE
    OBVIOUS
  <1>1. PICK t \in Bad : \A x \in t : t \ {x} \notin Bad
    <2>1. Bad \subseteq SUBSET S
      OBVIOUS
    <2> HIDE DEF Bad
    <2> QED BY <2>1, SmallestSet
  <1>2. \A x \in t : \E it : Folds(it, table, sheet, t \ {x})
    BY <1>1
  <1> DEFINE Sol(x) == CHOOSE it : Folds(it, table, sheet, t \ {x})
             top == IF t = {} THEN table ELSE Upsert(Sol(Max(t))[Lower(t)], sheet[Max(t)])
             e == [s \in SUBSET t |-> IF s = t THEN top ELSE Sol(Max(t \ s))[s]]
  <1>3. \A x \in t : Folds(Sol(x), table, sheet, t \ {x})
    BY <1>2
  <1>4. /\ e[t] = top
        /\ \A s \in SUBSET t : s # t => e[s] = Sol(Max(t \ s))[s]
    OBVIOUS
  <1>5. \A s \in SUBSET t : IsFiniteSet(s) /\ s \subseteq Nat /\ (s # {} => Max(s) \in s)
    BY <1>1, FS_Subset, HighestIn
  <1>6. \A x \in t : Max({x}) = x
    BY <1>5
  <1> HIDE DEF Sol, top, e
  <1>7. ASSUME NEW s \in SUBSET t
        PROVE  e[s] = IF s = {} THEN table ELSE Upsert(e[Lower(s)], sheet[Max(s)])
    <2>1. CASE s = t /\ s # {}
      <3>1. Max(t) \in t /\ Lower(t) # t /\ t \ Lower(t) = {Max(t)} /\ Lower(t) \in SUBSET t
        BY <1>5, <2>1 DEF Lower
      <3>2. e[Lower(t)] = Sol(Max(t))[Lower(t)]
        BY <1>4, <1>6, <3>1
      <3> QED BY <1>4, <2>1, <3>2 DEF top
    <2>2. CASE s = t /\ s = {}
      BY <1>4, <2>2 DEF top
    <2>3. CASE s # t
      <3> DEFINE x == Max(t \ s)
                 y == Max(t \ Lower(s))
      <3>1. x \in t /\ s \in SUBSET (t \ {x})
        <4>1. t \ s \in SUBSET t /\ t \ s # {}
          BY <2>3
        <4> QED BY <1>5, <4>1
      <3>2. Folds(Sol(x), table, sheet, t \ {x}) /\ e[s] = Sol(x)[s]
        BY <1>3, <1>4, <2>3, <3>1
      <3> HIDE DEF x, y
      <3>3. e[s] = IF s = {} THEN table ELSE Upsert(Sol(x)[Lower(s)], sheet[Max(s)])
        <4>1. PICK it : it = Sol(x)
          OBVIOUS
        <4>2. RowByRow(it, table, sheet, t \ {x})
          <5>1. Folds(it, table, sheet, t \ {x})
            BY <3>2, <4>1
          <5> QED BY <5>1, FoldStepOf
        <4> QED BY <3>1, <3>2, <4>1, <4>2 DEF RowByRow
      <3>4. CASE s = {}
        BY <3>3, <3>4
      <3>5. CASE s # {}
        <4>1. Lower(s) \in SUBSET t /\ Lower(s) # t /\ Lower(s) \subseteq t \ {x}
          BY <2>3, <3>1 DEF Lower
        <4>2. y \in t /\ Lower(s) \subseteq t \ {y}
          <5>1. t \ Lower(s) \in SUBSET t /\ t \ Lower(s) # {}
            BY <4>1
          <5> QED BY <1>5, <4>1, <5>1 DEF y
        <4>3. Folds(Sol(y), table, sheet, t \ {y}) /\ e[Lower(s)] = Sol(y)[Lower(s)]
          BY <1>3, <1>4, <4>1, <4>2 DEF y
        <4>4. Sol(x)[Lower(s)] = Sol(y)[Lower(s)]
          <5>1. IsFiniteSet(Lower(s)) /\ Lower(s) \subseteq Nat
            BY <1>5, <4>1
          <5>2. PICK i, j : i = Sol(x) /\ j = Sol(y)
            OBVIOUS
          <5>3. PICK r : r = Lower(s)
            OBVIOUS
          <5>4. Folds(i, table, sheet, t \ {x}) /\ Folds(j, table, sheet, t \ {y})
            BY <3>2, <4>3, <5>2
          <5>5. i[r] = j[r]
            BY <4>1, <4>2, <5>1, <5>3, <5>4, FoldsAgree
          <5> QED BY <5>2, <5>3, <5>5
        <4> QED BY <3>3, <3>5, <4>3, <4>4
      <3> QED BY <3>4, <3>5
    <2> QED BY <2>1, <2>2, <2>3
  <1>8. Folds(e, table, sheet, t)
    <2>1. e = [s \in SUBSET t |-> e[s]]
      BY DEF e
    <2>2. e = [s \in SUBSET t |-> IF s = {} THEN table ELSE Upsert(e[s \ {Max(s)}], sheet[Max(s)])]
      BY <1>7, <2>1 DEF Lower
    <2> QED BY <2>2 DEF Folds
  <1> QED BY <1>1, <1>8

\* An import keeps a row per person, whatever the sheet says of ranking ids.
LEMMA ImportKeeps ==
  ASSUME NEW table, PeopleTable(table), NEW sheet \in Imports
  PROVE  /\ PeopleTable(FoldLeft(Upsert, table, sheet))
         /\ RowsStay(table, FoldLeft(Upsert, table, sheet))
  <1> DEFINE S == DOMAIN sheet
             it == CHOOSE f : Folds(f, table, sheet, DOMAIN sheet)
  <1>1. IsFiniteSet(S) /\ S \subseteq Nat /\ \A i \in S : sheet[i].key \in PeopleOfSheets
    BY PlayerHistoryConstants DEF PeopleOfSheets
  <1>2. Folds(it, table, sheet, S)
    BY <1>1, FoldExists
  <1>3. FoldLeft(Upsert, table, sheet) = it[S]
    BY FoldIs
  <1> HIDE DEF S, it
  <1> DEFINE Good(s) == PeopleTable(it[s]) /\ RowsStay(table, it[s])
             Bad == {s \in SUBSET S : ~Good(s)}
  <1>4. Bad = {}
    <2> SUFFICES ASSUME Bad # {} PROVE FALSE
      OBVIOUS
    <2>1. PICK s \in Bad : \A x \in s : s \ {x} \notin Bad
      <3>1. Bad \subseteq SUBSET S
        OBVIOUS
      <3> HIDE DEF Bad
      <3> QED BY <1>1, <3>1, SmallestSet
    <2>2. it[s] = IF s = {} THEN table ELSE Upsert(it[Lower(s)], sheet[Max(s)])
      <3>1. RowByRow(it, table, sheet, S)
        BY <1>2, FoldStepOf
      <3> QED BY <2>1, <3>1 DEF RowByRow
    <2>3. CASE s = {}
      <3>1. RowsStay(table, table)
        BY DEF RowsStay
      <3> QED BY <2>1, <2>2, <2>3, <3>1
    <2>4. CASE s # {}
      <3>1. Max(s) \in s
        BY <1>1, <2>1, <2>4, HighestIn
      <3>2. Good(Lower(s))
        BY <2>1, <3>1 DEF Lower
      <3>3. sheet[Max(s)].key \in PeopleOfSheets
        BY <1>1, <2>1, <3>1
      <3>4. PeopleTable(it[s]) /\ RowsStay(it[Lower(s)], it[s])
        BY <2>2, <2>4, <3>2, <3>3, UpsertKeeps
      <3>5. RowsStay(table, it[s])
        BY <3>2, <3>4 DEF RowsStay
      <3> QED BY <2>1, <3>4, <3>5
    <2> QED BY <2>3, <2>4
  <1>5. Good(S)
    BY <1>4
  <1> QED BY <1>3, <1>5

-------------------------------------------------------------------------------
(***************************************************************************)
(* The appearances of a player, and their order.                           *)
(***************************************************************************)

\* Appearances in tournaments of their own.
Separate(S) ==
  /\ IsFiniteSet(S)
  /\ \A a \in S : SortKey(a.tournament) \in SortKeys
  /\ \A a, b \in S : a.tournament = b.tournament => a = b

NewestOnes(rows, S) ==
  /\ \A i \in DOMAIN rows : rows[i] \in S
  /\ \A i, j \in DOMAIN rows :
       i < j => Precedes(SortKey(rows[j].tournament), SortKey(rows[i].tournament))
  /\ \A a \in S : \E i \in DOMAIN rows : rows[i] = a

LEMMA AppearancesSorted ==
  ASSUME NEW S, Separate(S)
  PROVE  NewestOnes(newestFirst(S), S)
  <1> DEFINE key(a) == SortKey(a.tournament)
             after(a) == NewerThan(S, a)
             upTo == [a \in S |-> after(a) \cup {a}]
             rows == newestFirst(S)
  <1>1. \A a, b \in S : b \in after(a) <=> Precedes(key(a), key(b))
    BY DEF NewerThan
  <1>2. \A a \in S : after(a) \subseteq S
    BY DEF NewerThan
  <1>0. /\ \A a \in S : key(a) \in SortKeys
        /\ \A a, b \in S : key(a) = key(b) => a = b
    <2>1. \A a, b \in S : key(a) = key(b) => a.tournament = b.tournament
      BY DEF SortKey
    <2> QED BY <2>1 DEF Separate
  <1> HIDE DEF after, key
  <1>3. \A a \in S : a \notin after(a)
    BY <1>0, <1>1, Ordered
  <1>4. ASSUME NEW a \in S, NEW b \in S, Precedes(key(b), key(a))
        PROVE  upTo[a] \subseteq upTo[b] /\ b \notin upTo[a]
    <2>1. \A x \in after(a) : x \in after(b)
      BY <1>0, <1>1, <1>2, <1>4, Ordered
    <2>2. a \in after(b) /\ a # b
      BY <1>0, <1>1, <1>4, Ordered
    <2>3. b \notin after(a)
      BY <1>3, <2>1
    <2> QED BY <2>1, <2>2, <2>3
  <1>5. \A a, b \in S : a # b => Precedes(key(b), key(a)) \/ Precedes(key(a), key(b))
    BY <1>0, Ordered
  <1>6. Nested(upTo, S)
    <2>1. \A a \in S : a \in upTo[a] /\ upTo[a] \subseteq S
      BY <1>2
    <2> HIDE DEF upTo
    <2> QED BY <1>4, <1>5, <2>1 DEF Nested
  <1>7. Ranked(upTo, S)
    BY <1>6, Ranks DEF Separate
  <1>8. \A a \in S : IsFiniteSet(after(a)) /\ Cardinality(after(a)) \in Nat
    <2> SUFFICES ASSUME NEW a \in S PROVE IsFiniteSet(after(a)) /\ Cardinality(after(a)) \in Nat
      OBVIOUS
    <2>1. after(a) \in SUBSET S
      BY <1>2
    <2> QED BY <2>1, FS_Subset, FS_CardinalityType DEF Separate
  <1>a. \A a \in S : Cardinality(upTo[a]) = Cardinality(after(a)) + 1
    <2> SUFFICES ASSUME NEW a \in S PROVE Cardinality(after(a) \cup {a}) = Cardinality(after(a)) + 1
      OBVIOUS
    <2> QED BY <1>3, <1>8, FS_AddElement
  <1>9. ASSUME NEW a \in S, NEW b \in S, Cardinality(after(a)) < Cardinality(after(b))
        PROVE  Precedes(key(b), key(a))
    <2>0. a # b
      BY <1>8, <1>9
    <2> SUFFICES ASSUME Precedes(key(a), key(b)) PROVE FALSE
      BY <1>5, <2>0
    <2>1. upTo[b] \in SUBSET upTo[a]
      BY <1>4
    <2>2. upTo[a] \in SUBSET S
      BY <1>2
    <2> HIDE DEF upTo
    <2>3. Cardinality(upTo[b]) <= Cardinality(upTo[a])
      BY <2>1, <2>2, FS_Subset DEF Separate
    <2> QED BY <1>8, <1>9, <1>a, <2>3
  <1>10. Cardinality(S) \in Nat
    BY FS_CardinalityType DEF Separate
  <1>11. /\ \A a \in S : Cardinality(after(a)) + 1 \in 1..Cardinality(S)
         /\ \A i \in 1..Cardinality(S) : \E a \in S : Cardinality(after(a)) = i - 1
    <2> HIDE DEF upTo
    <2>1. \A a \in S : Cardinality(upTo[a]) \in 1..Cardinality(S)
      BY <1>7 DEF Ranked
    <2>2. ASSUME NEW i \in 1..Cardinality(S)
          PROVE  \E a \in S : Cardinality(after(a)) = i - 1
      <3>1. PICK a \in S : Cardinality(upTo[a]) = i
        BY <1>7 DEF Ranked
      <3>2. Cardinality(after(a)) = i - 1
        BY <1>8, <1>a, <3>1
      <3> QED BY <3>2
    <2> QED BY <1>8, <1>a, <2>1, <2>2
  <1>12. \A a, b \in S : Cardinality(after(a)) = Cardinality(after(b)) => a = b
    <2> HIDE DEF upTo
    <2> SUFFICES ASSUME NEW a \in S, NEW b \in S, Cardinality(after(a)) = Cardinality(after(b))
                 PROVE  a = b
      OBVIOUS
    <2>1. Cardinality(upTo[a]) = Cardinality(upTo[b])
      BY <1>a
    <2> QED BY <1>7, <2>1 DEF Ranked
  <1>13. /\ DOMAIN rows = 1..Cardinality(S)
         /\ \A i \in 1..Cardinality(S) : rows[i] = CHOOSE a \in S : Cardinality(after(a)) = i - 1
    BY DEF newestFirst, after
  <1> HIDE DEF rows
  <1>14. \A i \in 1..Cardinality(S) : rows[i] \in S /\ Cardinality(after(rows[i])) = i - 1
    BY <1>11, <1>13
  <1>15. \A i, j \in DOMAIN rows : i < j => Precedes(key(rows[j]), key(rows[i]))
    <2> SUFFICES ASSUME NEW i \in 1..Cardinality(S), NEW j \in 1..Cardinality(S), i < j
                 PROVE  Precedes(key(rows[j]), key(rows[i]))
      BY <1>13
    <2>1. Cardinality(after(rows[i])) < Cardinality(after(rows[j]))
      BY <1>10, <1>14
    <2> QED BY <1>9, <1>14, <2>1
  <1>16. ASSUME NEW a \in S
         PROVE  \E i \in DOMAIN rows : rows[i] = a
    <2>1. PICK i \in 1..Cardinality(S) : i = Cardinality(after(a)) + 1
      BY <1>11
    <2>2. Cardinality(after(a)) = i - 1
      BY <1>8, <2>1
    <2> QED BY <1>12, <1>13, <1>14, <2>2
  <1> QED BY <1>13, <1>14, <1>15, <1>16 DEF NewestOnes, key, rows

-------------------------------------------------------------------------------
(***************************************************************************)
(* What is on record, and what a request has read of it.                   *)
(***************************************************************************)

\* Points come from a sheet that gave them to that person.
Imported(key, n) ==
  \E i \in DOMAIN imports : \E k \in DOMAIN imports[i] :
    imports[i][k].key = key /\ imports[i][k].points = n

\* A pair of rows is the entry it was inserted for.
RowOf(pair, entry) ==
  /\ pair.points = entry.points
  /\ \A slot \in {1, 2} : /\ pair.players[slot] \in DOMAIN people
                          /\ people[pair.players[slot]].matchKey = entry.keys[slot]

RowsMatch(t) ==
  /\ \A pair \in pairRows[t] : \E i \in DOMAIN lineups[t] : RowOf(pair, lineups[t][i])
  /\ \A i \in DOMAIN lineups[t] : \E pair \in pairRows[t] : RowOf(pair, lineups[t][i])

SheetsKnown ==
  /\ PeopleTable(people)
  /\ imports \in Seq(Imports)
  /\ \A p \in DOMAIN latest : p \in DOMAIN people /\ Imported(people[p].matchKey, latest[p])

LineupsKnown ==
  /\ DOMAIN pairRows = DOMAIN catalogue /\ DOMAIN lineups = DOMAIN catalogue
  /\ DOMAIN events = DOMAIN catalogue
  /\ \A t \in DOMAIN catalogue :
       lineups[t] \in Entries /\ events[t] \in DOMAIN catalogue /\ RowsMatch(t)

\* Of the tournaments for one event, one stands.
OneStands == \A t, x \in Standing : events[t] = events[x] => t = x

AsEntered(a, key) ==
  [points |-> a.points, partner |-> people[a.partner].matchKey] \in EnteredAs(lineups[a.tournament], key)

\* The rows of a page, for the person it is about.
RowsTrue(rows, key) ==
  /\ \A i \in DOMAIN rows : /\ rows[i].tournament \in DOMAIN catalogue
                            /\ rows[i].partner \in DOMAIN people
                            /\ AsEntered(rows[i], key)
  /\ \A i, j \in DOMAIN rows :
       i < j => /\ Precedes(SortKey(rows[j].tournament), SortKey(rows[i].tournament))
                /\ events[rows[i].tournament] # events[rows[j].tournament]
  /\ \A t \in visit.standing \cap Standing :
       EnteredAs(lineups[t], key) # {} => \E i \in DOMAIN rows : rows[i].tournament = t

PointsTrue(points, key) == \A n \in points : Imported(key, n)

VisitFields == {"step", "player", "appearances", "points", "status", "standing"}

VisitInv ==
  /\ visit = [f \in VisitFields |-> visit[f]]
  /\ visit.step = "idle" => visit.appearances = Nothing /\ visit.points = Nothing
  /\ visit.step = "answered" => visit.appearances # Nothing /\ visit.points # Nothing
  /\ visit.step # "idle" =>
       /\ visit.player \in DOMAIN people /\ visit.standing \subseteq DOMAIN catalogue
       /\ visit.appearances # Nothing => RowsTrue(visit.appearances, people[visit.player].matchKey)
       /\ visit.points # Nothing => PointsTrue(visit.points, people[visit.player].matchKey)

HistoryInv == ListInv /\ SheetsKnown /\ LineupsKnown /\ OneStands /\ VisitInv

\* Nobody's row changes hands, and a tournament keeps its lineup, its event and its place.
RecordGrows ==
  /\ RowsStay(people, people')
  /\ \A t \in DOMAIN catalogue :
       /\ t \in DOMAIN catalogue' /\ catalogue'[t].publishedAt = catalogue[t].publishedAt
       /\ catalogue'[t].invalidatedAt = Nothing => catalogue[t].invalidatedAt = Nothing
       /\ lineups'[t] = lineups[t] /\ events'[t] = events[t]
  /\ \A i \in DOMAIN imports : i \in DOMAIN imports' /\ imports'[i] = imports[i]

LEMMA VisitFrame ==
  ASSUME VisitInv, RecordGrows, visit' = visit
  PROVE  VisitInv'
  <1>1. \A key, n : Imported(key, n) => Imported(key, n)'
    BY DEF Imported, RecordGrows
  <1>2. \A t \in DOMAIN catalogue : SortKey(t)' = SortKey(t)
    BY DEF SortKey, RecordGrows
  <1>3. \A key, a : a.partner \in DOMAIN people /\ a.tournament \in DOMAIN catalogue /\ AsEntered(a, key)
                      => AsEntered(a, key)'
    BY DEF AsEntered, RecordGrows, RowsStay
  <1>4. ASSUME NEW rows, NEW key, visit.standing \subseteq DOMAIN catalogue, RowsTrue(rows, key)
        PROVE  RowsTrue(rows, key)'
    <2>1. \A i \in DOMAIN rows : /\ rows[i].tournament \in DOMAIN catalogue'
                                 /\ rows[i].partner \in DOMAIN people'
                                 /\ AsEntered(rows[i], key)'
      BY <1>3, <1>4 DEF RowsTrue, RecordGrows, RowsStay
    <2>2. \A i, j \in DOMAIN rows :
            i < j => /\ Precedes(SortKey(rows[j].tournament)', SortKey(rows[i].tournament)')
                     /\ events'[rows[i].tournament] # events'[rows[j].tournament]
      BY <1>2, <1>4 DEF RowsTrue, RecordGrows
    <2>3. \A t \in visit.standing \cap Standing' :
            t \in visit.standing \cap Standing /\ lineups'[t] = lineups[t]
      BY <1>4 DEF Standing, RecordGrows
    <2>4. \A t \in visit.standing \cap Standing' :
            EnteredAs(lineups'[t], key) # {} => \E i \in DOMAIN rows : rows[i].tournament = t
      BY <1>4, <2>3 DEF RowsTrue
    <2> QED BY <2>1, <2>2, <2>4 DEF RowsTrue
  <1>5. visit.step # "idle" => /\ visit.player \in DOMAIN people'
                               /\ people'[visit.player].matchKey = people[visit.player].matchKey
                               /\ visit.standing \subseteq DOMAIN catalogue'
    BY DEF VisitInv, RecordGrows, RowsStay
  <1> QED BY <1>1, <1>4, <1>5 DEF VisitInv, PointsTrue

\* Pairs stay those of their entries.
LEMMA RowsFrame ==
  ASSUME RowsStay(people, people'), NEW t, pairRows'[t] = pairRows[t], lineups'[t] = lineups[t], RowsMatch(t)
  PROVE  RowsMatch(t)'
  <1>1. \A pair, entry : RowOf(pair, entry) => RowOf(pair, entry)'
    BY DEF RowOf, RowsStay
  <1> QED BY <1>1 DEF RowsMatch

LEMMA HistoryInitInv ==
  ASSUME ListInit, HistoryInit
  PROVE  HistoryInv
  <1>1. ListInv
    BY ListInitInv
  <1>2. DOMAIN people = {} /\ DOMAIN latest = {} /\ imports = <<>> /\ DOMAIN catalogue = {}
        /\ DOMAIN pairRows = {} /\ DOMAIN lineups = {} /\ DOMAIN events = {} /\ visit = NoVisit
    BY DEF ListInit, HistoryInit
  <1>3. imports \in Seq(Imports)
    BY <1>2
  <1> QED BY <1>1, <1>2, <1>3
        DEF HistoryInv, SheetsKnown, PeopleTable, LineupsKnown, OneStands, Standing, VisitInv,
            NoVisit, VisitFields

LEMMA ListStays ==
  ASSUME ListInv, UNCHANGED listing
  PROVE  ListInv'
  <1>1. today' = today /\ catalogue' = catalogue /\ walk' = walk
    BY DEF listing
  <1>2. CatalogueInv'
    BY <1>1 DEF ListInv, CatalogueInv
  <1> QED BY <1>1, <1>2, CatalogueGrows DEF ListInv

LEMMA UpsertManyInv ==
  ASSUME HistoryInv, upsertMany
  PROVE  HistoryInv'
  <1>1. PICK sheet \in Imports : /\ people' = FoldLeft(Upsert, people, sheet)
                                 /\ imports' = Append(imports, sheet)
    BY DEF upsertMany
  <1>2. /\ UNCHANGED listing /\ latest' = latest /\ pairRows' = pairRows /\ lineups' = lineups
        /\ events' = events /\ visit' = visit /\ catalogue' = catalogue
    BY DEF upsertMany, listing
  <1>3. PeopleTable(people') /\ RowsStay(people, people')
    <2>1. PICK table : table = people
      OBVIOUS
    <2>2. PeopleTable(table)
      BY <2>1 DEF HistoryInv, SheetsKnown
    <2>3. PICK new : new = FoldLeft(Upsert, table, sheet)
      OBVIOUS
    <2>4. PeopleTable(new) /\ RowsStay(table, new)
      BY <2>2, <2>3, ImportKeeps
    <2>5. new = people'
      BY <1>1, <2>1, <2>3
    <2> QED BY <2>1, <2>4, <2>5
  <1>4. imports' \in Seq(Imports) /\ \A i \in DOMAIN imports : i \in DOMAIN imports' /\ imports'[i] = imports[i]
    BY <1>1 DEF HistoryInv, SheetsKnown
  <1>5. RecordGrows
    BY <1>2, <1>3, <1>4 DEF RecordGrows
  <1>6. SheetsKnown'
    <2>1. \A key, n : Imported(key, n) => Imported(key, n)'
      BY <1>4 DEF Imported
    <2> QED BY <1>2, <1>3, <1>4, <2>1 DEF HistoryInv, SheetsKnown, RowsStay
  <1>7. LineupsKnown'
    <2>1. \A t \in DOMAIN catalogue : RowsMatch(t)'
      BY <1>2, <1>3, RowsFrame DEF HistoryInv, LineupsKnown
    <2> QED BY <1>2, <2>1 DEF HistoryInv, LineupsKnown
  <1>8. OneStands'
    BY <1>2 DEF HistoryInv, OneStands, Standing
  <1>9. VisitInv'
    BY <1>2, <1>5, VisitFrame DEF HistoryInv
  <1> QED BY <1>2, <1>6, <1>7, <1>8, <1>9, ListStays DEF HistoryInv

LEMMA UpsertSnapshotsInv ==
  ASSUME HistoryInv, upsertSnapshots
  PROVE  HistoryInv'
  <1> DEFINE sheet == Last(imports)
             rated == [p \in UNION {HasKey(people, sheet[i].key) : i \in DOMAIN sheet} |->
                         sheet[CHOOSE i \in DOMAIN sheet : sheet[i].key = people[p].matchKey].points]
  <1>1. /\ imports # <<>>
        /\ latest' = [p \in DOMAIN latest \cup DOMAIN rated |->
                        IF p \in DOMAIN rated THEN rated[p] ELSE latest[p]]
        /\ UNCHANGED listing /\ people' = people /\ imports' = imports /\ pairRows' = pairRows
        /\ lineups' = lineups /\ events' = events /\ visit' = visit /\ catalogue' = catalogue
    BY DEF upsertSnapshots, listing
  <1>2. Len(imports) \in DOMAIN imports /\ sheet = imports[Len(imports)]
    BY <1>1 DEF HistoryInv, SheetsKnown, Last
  <1>3. ASSUME NEW p \in DOMAIN rated
        PROVE  p \in DOMAIN people /\ Imported(people[p].matchKey, rated[p])
    <2>1. PICK i \in DOMAIN sheet : p \in HasKey(people, sheet[i].key)
      OBVIOUS
    <2>2. p \in DOMAIN people /\ sheet[i].key = people[p].matchKey
      BY <2>1 DEF HasKey
    <2>3. PICK k \in DOMAIN sheet : /\ sheet[k].key = people[p].matchKey
                                    /\ rated[p] = sheet[k].points
      <3>1. \E j \in DOMAIN sheet : sheet[j].key = people[p].matchKey
        BY <2>2
      <3>2. rated[p] = sheet[CHOOSE j \in DOMAIN sheet : sheet[j].key = people[p].matchKey].points
        OBVIOUS
      <3> HIDE DEF rated, sheet
      <3> QED BY <3>1, <3>2
    <2> HIDE DEF rated, sheet
    <2> QED BY <1>2, <2>2, <2>3 DEF Imported
  <1> HIDE DEF rated, sheet
  <1>4. SheetsKnown'
    <2>1. \A key, n : Imported(key, n) => Imported(key, n)'
      BY <1>1 DEF Imported
    <2>2. \A p \in DOMAIN latest' : p \in DOMAIN people /\ Imported(people[p].matchKey, latest'[p])
      BY <1>1, <1>3 DEF HistoryInv, SheetsKnown
    <2> QED BY <1>1, <2>1, <2>2 DEF HistoryInv, SheetsKnown
  <1>5. RowsStay(people, people')
    BY <1>1 DEF RowsStay
  <1>6. LineupsKnown'
    <2>1. \A t \in DOMAIN catalogue : RowsMatch(t)'
      BY <1>1, <1>5, RowsFrame DEF HistoryInv, LineupsKnown
    <2> QED BY <1>1, <2>1 DEF HistoryInv, LineupsKnown
  <1>7. OneStands'
    BY <1>1 DEF HistoryInv, OneStands, Standing
  <1>8. VisitInv'
    <2>1. RecordGrows
      BY <1>1, <1>5 DEF RecordGrows
    <2> QED BY <1>1, <2>1, VisitFrame DEF HistoryInv
  <1> QED BY <1>1, <1>4, <1>6, <1>7, <1>8, ListStays DEF HistoryInv

\* A lineup's pairs are those of the people it names.
LEMMA InsertedMatch ==
  ASSUME NEW lineup \in Entries, Resolves(lineup)
  PROVE  /\ \A pair \in InsertedPairs(lineup) : \E i \in DOMAIN lineup : RowOf(pair, lineup[i])
         /\ \A i \in DOMAIN lineup : \E pair \in InsertedPairs(lineup) : RowOf(pair, lineup[i])
  <1> DEFINE Pair(i) ==
        [players |-> [slot \in {1, 2} |-> CHOOSE p \in HasKey(people, lineup[i].keys[slot]) : TRUE],
         points  |-> lineup[i].points]
  <1>1. \A i \in DOMAIN lineup, slot \in {1, 2} :
          (CHOOSE p \in HasKey(people, lineup[i].keys[slot]) : TRUE)
             \in HasKey(people, lineup[i].keys[slot])
    <2> SUFFICES ASSUME NEW i \in DOMAIN lineup, NEW slot \in {1, 2}
                 PROVE  HasKey(people, lineup[i].keys[slot]) # {}
      OBVIOUS
    <2>1. Cardinality(HasKey(people, lineup[i].keys[slot])) = 1
      BY DEF Resolves
    <2> QED BY <2>1, FS_EmptySet
  <1>2. \A i \in DOMAIN lineup :
          /\ Pair(i).points = lineup[i].points
          /\ \A slot \in {1, 2} : Pair(i).players[slot] \in HasKey(people, lineup[i].keys[slot])
    BY <1>1
  <1>3. InsertedPairs(lineup) = {Pair(i) : i \in DOMAIN lineup}
    BY DEF InsertedPairs
  <1> HIDE DEF Pair
  <1>4. \A i \in DOMAIN lineup : RowOf(Pair(i), lineup[i])
    BY <1>2 DEF RowOf, HasKey
  <1> QED BY <1>3, <1>4

\* A commit inserts one tournament; what was on record stays.
Grew(t) ==
  /\ t \in TournamentId \ DOMAIN catalogue /\ DOMAIN catalogue' = DOMAIN catalogue \cup {t}
  /\ \A x \in DOMAIN catalogue :
       /\ catalogue'[x].publishedAt = catalogue[x].publishedAt
       /\ catalogue'[x].invalidatedAt = Nothing => catalogue[x].invalidatedAt = Nothing
  /\ UNCHANGED <<people, latest, imports, visit>>

LEMMA Inserted ==
  ASSUME HistoryInv, NEW t, Grew(t), NEW lineup \in Entries, Resolves(lineup),
         NEW event, event \in DOMAIN catalogue \/ event = Nothing, Insert(lineup, event)
  PROVE  /\ SheetsKnown' /\ LineupsKnown' /\ VisitInv'
         /\ events'[t] = IF event = Nothing THEN t ELSE event
         /\ \A x \in DOMAIN catalogue : events'[x] = events[x]
  <1>1. DOMAIN catalogue' \ DOMAIN catalogue = {t} /\ DOMAIN catalogue \subseteq DOMAIN catalogue'
    BY DEF Grew
  <1>2. /\ pairRows' = [x \in DOMAIN catalogue' |-> IF x = t THEN InsertedPairs(lineup) ELSE pairRows[x]]
        /\ lineups' = [x \in DOMAIN catalogue' |-> IF x = t THEN lineup ELSE lineups[x]]
        /\ events' = [x \in DOMAIN catalogue' |->
                        IF x # t THEN events[x] ELSE IF event = Nothing THEN t ELSE event]
    BY <1>1 DEF Insert
  <1>3. /\ DOMAIN pairRows' = DOMAIN catalogue' /\ DOMAIN lineups' = DOMAIN catalogue'
        /\ DOMAIN events' = DOMAIN catalogue'
        /\ pairRows'[t] = InsertedPairs(lineup) /\ lineups'[t] = lineup
        /\ events'[t] = IF event = Nothing THEN t ELSE event
        /\ \A x \in DOMAIN catalogue : /\ pairRows'[x] = pairRows[x] /\ lineups'[x] = lineups[x]
                                       /\ events'[x] = events[x]
    BY <1>1, <1>2
  <1>4. people' = people /\ latest' = latest /\ imports' = imports /\ visit' = visit
    BY DEF Grew
  <1>5. RowsStay(people, people')
    BY <1>4 DEF RowsStay
  <1>6. RowsMatch(t)'
    <2>1. \A pair, entry : RowOf(pair, entry) => RowOf(pair, entry)'
      BY <1>4 DEF RowOf
    <2>2. PICK pairs : pairs = InsertedPairs(lineup)
      OBVIOUS
    <2>3. /\ \A pair \in pairs : \E i \in DOMAIN lineup : RowOf(pair, lineup[i])'
          /\ \A i \in DOMAIN lineup : \E pair \in pairs : RowOf(pair, lineup[i])'
      BY <2>1, <2>2, InsertedMatch
    <2>4. pairRows'[t] = pairs /\ lineups'[t] = lineup
      BY <1>3, <2>2
    <2> QED BY <2>3, <2>4 DEF RowsMatch
  <1>7. \A x \in DOMAIN catalogue : RowsMatch(x)'
    BY <1>3, <1>5, RowsFrame DEF HistoryInv, LineupsKnown
  <1>8. LineupsKnown'
    <2>1. \A x \in DOMAIN catalogue' : x = t \/ x \in DOMAIN catalogue
      BY <1>1
    <2>2. \A x \in DOMAIN catalogue' : lineups'[x] \in Entries /\ events'[x] \in DOMAIN catalogue'
      BY <1>1, <1>3, <2>1 DEF HistoryInv, LineupsKnown
    <2> QED BY <1>3, <1>6, <1>7, <2>1, <2>2 DEF LineupsKnown
  <1>9. SheetsKnown'
    <2>1. \A key, n : Imported(key, n) => Imported(key, n)'
      BY <1>4 DEF Imported
    <2> QED BY <1>4, <2>1 DEF HistoryInv, SheetsKnown
  <1>10. RecordGrows
    BY <1>1, <1>3, <1>4, <1>5 DEF RecordGrows, Grew
  <1>11. VisitInv'
    BY <1>4, <1>10, VisitFrame DEF HistoryInv
  <1> QED BY <1>3, <1>8, <1>9, <1>11

LEMMA PublishPairsInv ==
  ASSUME HistoryInv, publishPairs
  PROVE  HistoryInv'
  <1>1. PICK t \in TournamentId \ DOMAIN catalogue, at \in Recent, start \in Days :
          catalogue' = [x \in DOMAIN catalogue \cup {t} |->
            IF x = t THEN [publishedAt |-> at, startsAt |-> start, invalidatedAt |-> Nothing]
            ELSE catalogue[x]]
    BY DEF publishPairs, PublicationCommits
  <1>2. /\ DOMAIN catalogue' = DOMAIN catalogue \cup {t}
        /\ \A x \in DOMAIN catalogue : catalogue'[x] = catalogue[x]
    BY <1>1
  <1>3. PICK lineup \in Entries : Resolves(lineup) /\ Insert(lineup, Nothing)
    BY DEF publishPairs
  <1>4. Grew(t)
    BY <1>2 DEF Grew, publishPairs
  <1>5. /\ SheetsKnown' /\ LineupsKnown' /\ VisitInv' /\ events'[t] = t
        /\ \A x \in DOMAIN catalogue : events'[x] = events[x]
    BY <1>3, <1>4, Inserted
  <1>6. \A x \in Standing' : x = t \/ x \in Standing
    BY <1>2 DEF Standing
  <1>7. \A x \in Standing : x \in DOMAIN catalogue /\ events[x] \in DOMAIN catalogue /\ x # t /\ events[x] # t
    BY DEF Standing, HistoryInv, LineupsKnown
  <1>8. OneStands'
    BY <1>5, <1>6, <1>7 DEF OneStands, HistoryInv
  <1>9. ListInv'
    BY CommitInv DEF publishPairs, HistoryInv
  <1> QED BY <1>5, <1>8, <1>9 DEF HistoryInv

LEMMA ReplacePairsInv ==
  ASSUME HistoryInv, replacePairs
  PROVE  HistoryInv'
  <1>1. PICK u \in DOMAIN catalogue, t \in TournamentId \ DOMAIN catalogue, at \in Recent,
             start \in Days :
          /\ catalogue[u].invalidatedAt = Nothing
          /\ catalogue' = [x \in DOMAIN catalogue \cup {t} |->
               IF x = t THEN [publishedAt |-> at, startsAt |-> start, invalidatedAt |-> Nothing]
               ELSE IF x = u THEN [catalogue[u] EXCEPT !.invalidatedAt = at]
               ELSE catalogue[x]]
    BY DEF replacePairs, ReplacementCommits
  <1>2. /\ DOMAIN catalogue' = DOMAIN catalogue \cup {t} /\ t # u
        /\ \A x \in DOMAIN catalogue : x # u => catalogue'[x] = catalogue[x]
        /\ catalogue'[u] = [catalogue[u] EXCEPT !.invalidatedAt = at]
    BY <1>1
  <1>3. /\ catalogue'[u].publishedAt = catalogue[u].publishedAt
        /\ catalogue'[u].invalidatedAt = at /\ at # Nothing
    <2>1. at \in Nat
      BY DEF Recent, Days
    <2>2. catalogue[u] = [publishedAt |-> catalogue[u].publishedAt, startsAt |-> catalogue[u].startsAt,
                          invalidatedAt |-> catalogue[u].invalidatedAt]
      BY DEF HistoryInv, ListInv, CatalogueInv
    <2> QED BY <1>2, <2>1, <2>2, PlayerHistoryConstants
  <1>4. PICK lineup \in Entries : Resolves(lineup) /\ Insert(lineup, events[u])
    <2>1. PICK lineup \in Entries, x \in DOMAIN catalogue :
            catalogue'[x] # catalogue[x] /\ Resolves(lineup) /\ Insert(lineup, events[x])
      BY DEF replacePairs
    <2>2. x = u
      BY <1>2, <2>1
    <2> QED BY <2>1, <2>2
  <1>5. Grew(t)
    BY <1>1, <1>2, <1>3 DEF Grew, replacePairs
  <1>6. \A x \in DOMAIN catalogue : events[x] \in DOMAIN catalogue /\ events[x] # Nothing
    BY PlayerHistoryConstants, TournamentListConstants
       DEF HistoryInv, LineupsKnown, ListInv, CatalogueInv
  <1>7. /\ SheetsKnown' /\ LineupsKnown' /\ VisitInv' /\ events'[t] = events[u]
        /\ \A x \in DOMAIN catalogue : events'[x] = events[x]
    BY <1>4, <1>5, <1>6, Inserted
  <1>8. \A x \in Standing' : x = t \/ (x \in Standing /\ x # u)
    BY <1>2, <1>3 DEF Standing
  <1>9. u \in Standing /\ \A x \in Standing : x \in DOMAIN catalogue
    BY <1>1 DEF Standing
  <1>10. OneStands'
    BY <1>7, <1>8, <1>9 DEF OneStands, HistoryInv
  <1>11. ListInv'
    BY CommitInv DEF replacePairs, HistoryInv
  <1> QED BY <1>7, <1>10, <1>11 DEF HistoryInv

\* A step of the request, or of the clock, leaves the record alone.
LEMMA RecordStays ==
  ASSUME HistoryInv, UNCHANGED <<catalogue, people, latest, imports, pairRows, lineups, events>>
  PROVE  SheetsKnown' /\ LineupsKnown' /\ OneStands' /\ RecordGrows
  <1>1. RowsStay(people, people')
    BY DEF RowsStay
  <1>2. SheetsKnown'
    <2>1. \A key, n : Imported(key, n) => Imported(key, n)'
      BY DEF Imported
    <2> QED BY <2>1 DEF HistoryInv, SheetsKnown
  <1>3. LineupsKnown'
    <2>1. \A t \in DOMAIN catalogue : RowsMatch(t)'
      BY <1>1, RowsFrame DEF HistoryInv, LineupsKnown
    <2> QED BY <2>1 DEF HistoryInv, LineupsKnown
  <1>4. OneStands'
    BY DEF HistoryInv, OneStands, Standing
  <1> QED BY <1>1, <1>2, <1>3, <1>4 DEF RecordGrows

LEMMA DayPassesInv ==
  ASSUME HistoryInv, DayPasses /\ UNCHANGED archive
  PROVE  HistoryInv'
  <1>1. /\ UNCHANGED <<catalogue, people, latest, imports, pairRows, lineups, events>>
        /\ visit' = visit /\ walk' = walk /\ today' \in Nat
    BY DEF DayPasses, archive, HistoryInv, ListInv
  <1>2. CatalogueInv'
    BY <1>1 DEF HistoryInv, ListInv, CatalogueInv
  <1>3. ListInv'
    BY <1>1, <1>2, CatalogueGrows DEF HistoryInv, ListInv
  <1>4. VisitInv'
    BY <1>1, RecordStays, VisitFrame DEF HistoryInv
  <1> QED BY <1>1, <1>3, <1>4, RecordStays DEF HistoryInv

\* A page is being read: what it has read of a person is that person's.
LEMMA RowsStayTrue ==
  ASSUME UNCHANGED <<catalogue, people, imports, lineups, events>>, visit'.standing = visit.standing
  PROVE  /\ \A rows, key : RowsTrue(rows, key) => RowsTrue(rows, key)'
         /\ \A points, key : PointsTrue(points, key) => PointsTrue(points, key)'
  <1>1. \A t : SortKey(t)' = SortKey(t)
    BY DEF SortKey
  <1>2. Standing' = Standing
    BY DEF Standing
  <1>3. \A a, key : AsEntered(a, key) => AsEntered(a, key)'
    BY DEF AsEntered
  <1>4. \A rows, key : RowsTrue(rows, key) => RowsTrue(rows, key)'
    BY <1>1, <1>2, <1>3 DEF RowsTrue
  <1>5. \A key, n : Imported(key, n) => Imported(key, n)'
    BY DEF Imported
  <1> QED BY <1>4, <1>5 DEF PointsTrue

LEMMA FindByIdInv ==
  ASSUME HistoryInv, findById
  PROVE  HistoryInv'
  <1>1. /\ UNCHANGED <<catalogue, people, latest, imports, pairRows, lineups, events>> /\ UNCHANGED listing
        /\ visit.step = "idle"
    BY DEF findById, listing
  <1>2. PICK p \in DOMAIN people :
          visit' = [visit EXCEPT !.step = "reading", !.player = p, !.standing = Standing]
    BY DEF findById
  <1>3. /\ visit' = [f \in VisitFields |-> visit'[f]]
        /\ visit'.step = "reading" /\ visit'.player = p /\ visit'.standing = Standing
        /\ visit'.appearances = Nothing /\ visit'.points = Nothing
    BY <1>1, <1>2 DEF HistoryInv, VisitInv, VisitFields
  <1>4. VisitInv'
    BY <1>1, <1>3 DEF VisitInv, Standing
  <1> QED BY <1>1, <1>4, RecordStays, ListStays DEF HistoryInv

LEMMA AnswerInv ==
  ASSUME HistoryInv, answerPlayer
  PROVE  HistoryInv'
  <1>1. /\ UNCHANGED <<catalogue, people, latest, imports, pairRows, lineups, events>> /\ UNCHANGED listing
        /\ visit.step = "reading" /\ visit.appearances # Nothing /\ visit.points # Nothing
    BY DEF answerPlayer, listing
  <1>2. PICK status : visit' = [visit EXCEPT !.step = "answered", !.status = status]
    BY DEF answerPlayer
  <1>3. /\ visit' = [f \in VisitFields |-> visit'[f]]
        /\ visit'.step = "answered" /\ visit'.player = visit.player
        /\ visit'.standing = visit.standing
        /\ visit'.appearances = visit.appearances /\ visit'.points = visit.points
    BY <1>2 DEF HistoryInv, VisitInv, VisitFields
  <1>4. VisitInv'
    BY <1>1, <1>3, RowsStayTrue DEF HistoryInv, VisitInv
  <1> QED BY <1>1, <1>4, RecordStays, ListStays DEF HistoryInv

LEMMA LatestPointsInv ==
  ASSUME HistoryInv, latestPointsFor
  PROVE  HistoryInv'
  <1>1. /\ UNCHANGED <<catalogue, people, latest, imports, pairRows, lineups, events>> /\ UNCHANGED listing
        /\ visit.step = "reading"
    BY DEF latestPointsFor, listing
  <1>2. PICK points : /\ points = IF visit.player \in DOMAIN latest THEN {latest[visit.player]} ELSE {}
                      /\ visit' = [visit EXCEPT !.points = points]
    BY DEF latestPointsFor
  <1>3. /\ visit' = [f \in VisitFields |-> visit'[f]]
        /\ visit'.step = "reading" /\ visit'.player = visit.player
        /\ visit'.standing = visit.standing
        /\ visit'.appearances = visit.appearances /\ visit'.points = points
    BY <1>1, <1>2 DEF HistoryInv, VisitInv, VisitFields
  <1>4. PointsTrue(points, people[visit.player].matchKey)
    BY <1>2 DEF PointsTrue, HistoryInv, SheetsKnown
  <1>5. VisitInv'
    BY <1>1, <1>3, <1>4, RowsStayTrue DEF HistoryInv, VisitInv
  <1> QED BY <1>1, <1>5, RecordStays, ListStays DEF HistoryInv

LEMMA EnteredIs ==
  ASSUME NEW lineup, NEW key
  PROVE  /\ \A i \in DOMAIN lineup, m \in {1, 2} : lineup[i].keys[m] = key =>
              [points |-> lineup[i].points[m], partner |-> lineup[i].keys[3 - m]] \in EnteredAs(lineup, key)
         /\ EnteredAs(lineup, key) # {} =>
              \E i \in DOMAIN lineup, m \in {1, 2} : lineup[i].keys[m] = key
  <1> DEFINE places == {y \in (DOMAIN lineup) \X {1, 2} : lineup[y[1]].keys[y[2]] = key}
             At(x) == [points |-> lineup[x[1]].points[x[2]], partner |-> lineup[x[1]].keys[3 - x[2]]]
  <1>1. EnteredAs(lineup, key) = {At(x) : x \in places}
    BY DEF EnteredAs
  <1>2. ASSUME NEW i \in DOMAIN lineup, NEW m \in {1, 2}, lineup[i].keys[m] = key
        PROVE  [points |-> lineup[i].points[m], partner |-> lineup[i].keys[3 - m]] \in EnteredAs(lineup, key)
    <2>1. PICK x : x = <<i, m>>
      OBVIOUS
    <2>2. x \in places /\ At(x) = [points |-> lineup[i].points[m], partner |-> lineup[i].keys[3 - m]]
      BY <1>2, <2>1
    <2> HIDE DEF places, At
    <2> QED BY <1>1, <2>2
  <1>3. ASSUME EnteredAs(lineup, key) # {}
        PROVE  \E i \in DOMAIN lineup, m \in {1, 2} : lineup[i].keys[m] = key
    <2>1. PICK x : x \in places
      <3> HIDE DEF places, At
      <3> QED BY <1>1, <1>3
    <2> QED BY <2>1
  <1> QED BY <1>2, <1>3

\* An appearance stands for the place of a lineup where the player was entered.
EnteredAt(a, i, m) ==
  LET lineup == lineups[a.tournament] IN
  /\ a = [tournament |-> a.tournament, partner |-> a.partner, points |-> a.points]
  /\ a.tournament \in Standing /\ i \in DOMAIN lineup /\ m \in {1, 2}
  /\ a.points = lineup[i].points[m]
  /\ a.partner \in DOMAIN people /\ people[a.partner].matchKey = lineup[i].keys[3 - m]

LEMMA AppearancesEntered ==
  ASSUME HistoryInv, NEW p \in DOMAIN people, NEW a \in AppearancesOf(p)
  PROVE  \E i, m : EnteredAt(a, i, m) /\ lineups[a.tournament][i].keys[m] = people[p].matchKey
  <1>0. PICK t \in DOMAIN catalogue :
          Listable(t) /\ a \in {Appearance(t, pair, p) :
                               pair \in {x \in pairRows[t] : p \in {x.players[1], x.players[2]}}}
    BY DEF AppearancesOf
  <1>1. PICK pair \in pairRows[t] :
          p \in {pair.players[1], pair.players[2]} /\ a = Appearance(t, pair, p)
    BY <1>0
  <1>2. PICK i \in DOMAIN lineups[t] : RowOf(pair, lineups[t][i])
    BY <1>1 DEF HistoryInv, LineupsKnown, RowsMatch
  <1>3. PICK m : m = SlotOf(pair, p)
    OBVIOUS
  <1>4. m \in {1, 2} /\ 3 - m \in {1, 2} /\ pair.players[m] = p
    BY <1>1, <1>3 DEF SlotOf
  <1>5. a = [tournament |-> t, partner |-> pair.players[3 - m], points |-> pair.points[m]]
    BY <1>1, <1>3 DEF Appearance
  <1>6. /\ pair.points = lineups[t][i].points
        /\ people[p].matchKey = lineups[t][i].keys[m]
        /\ pair.players[3 - m] \in DOMAIN people
        /\ people[pair.players[3 - m]].matchKey = lineups[t][i].keys[3 - m]
    BY <1>2, <1>4 DEF RowOf
  <1>7. t \in Standing
    BY <1>0 DEF Standing, Listable
  <1>8. EnteredAt(a, i, m) /\ lineups[a.tournament][i].keys[m] = people[p].matchKey
    BY <1>2, <1>4, <1>5, <1>6, <1>7 DEF EnteredAt
  <1> QED BY <1>8

LEMMA KeyOf ==
  ASSUME HistoryInv, NEW t \in DOMAIN catalogue
  PROVE  SortKey(t) \in SortKeys
  <1>1. t \in TournamentId /\ catalogue[t].publishedAt \in Days
    BY DEF HistoryInv, ListInv, CatalogueInv
  <1>2. t \in Nat /\ catalogue[t].publishedAt \in Nat
    BY <1>1, TournamentListConstants DEF Days
  <1> QED BY <1>2 DEF SortKey, SortKeys

LEMMA AppearancesApart ==
  ASSUME HistoryInv, NEW p \in DOMAIN people
  PROVE  Separate(AppearancesOf(p))
  <1> DEFINE S == AppearancesOf(p)
             in == [a \in S |-> a.tournament]
  <1>1. \A a \in S : a.tournament \in Standing
    BY AppearancesEntered DEF EnteredAt
  <1>2. \A t \in Standing : t \in DOMAIN catalogue /\ SortKey(t) \in SortKeys
    BY KeyOf DEF Standing
  <1>3. ASSUME NEW a \in S, NEW b \in S, a.tournament = b.tournament PROVE a = b
    <2>1. PICK i, m : EnteredAt(a, i, m) /\ lineups[a.tournament][i].keys[m] = people[p].matchKey
      BY AppearancesEntered
    <2>2. PICK j, n : EnteredAt(b, j, n) /\ lineups[b.tournament][j].keys[n] = people[p].matchKey
      BY AppearancesEntered
    <2>3. lineups[a.tournament] \in Entries
      BY <1>1, <1>2 DEF HistoryInv, LineupsKnown
    <2>4. i = j /\ m = n
      BY <1>3, <2>1, <2>2, <2>3, PlayerHistoryConstants DEF EnteredAt
    <2>5. a.points = b.points /\ a.partner = b.partner
      BY <1>3, <2>1, <2>2, <2>4 DEF EnteredAt, HistoryInv, SheetsKnown, PeopleTable
    <2> QED BY <1>3, <2>1, <2>2, <2>5 DEF EnteredAt
  <1>4. IsFiniteSet(S)
    <2>1. in \in Injection(S, DOMAIN catalogue)
      BY <1>1, <1>2, <1>3 DEF Injection, IsInjective
    <2>2. IsFiniteSet(DOMAIN catalogue)
      BY DEF HistoryInv, ListInv, CatalogueInv
    <2> HIDE DEF S, in
    <2> QED BY <2>1, <2>2, FS_Injection
  <1> QED BY <1>1, <1>2, <1>3, <1>4 DEF Separate

LEMMA NoneIsMissing ==
  ASSUME HistoryInv, NEW p \in DOMAIN people, NEW t \in Standing,
         EnteredAs(lineups[t], people[p].matchKey) # {}
  PROVE  \E a \in AppearancesOf(p) : a.tournament = t
  <1>1. PICK i \in DOMAIN lineups[t], m \in {1, 2} : lineups[t][i].keys[m] = people[p].matchKey
    BY EnteredIs
  <1>2. t \in DOMAIN catalogue /\ RowsMatch(t)
    BY DEF Standing, HistoryInv, LineupsKnown
  <1>3. PICK pair \in pairRows[t] : RowOf(pair, lineups[t][i])
    BY <1>2 DEF RowsMatch
  <1>4. pair.players[m] = p
    BY <1>1, <1>3 DEF RowOf, HistoryInv, SheetsKnown, PeopleTable
  <1>5. p \in {pair.players[1], pair.players[2]}
    BY <1>4
  <1>6. Listable(t)
    <2>1. catalogue[t].publishedAt \in Nat
      BY <1>2 DEF HistoryInv, ListInv, CatalogueInv, Days
    <2> QED BY <2>1, PlayerHistoryConstants DEF Listable, Standing
  <1>7. Appearance(t, pair, p) \in AppearancesOf(p)
    BY <1>2, <1>5, <1>6 DEF AppearancesOf
  <1>8. Appearance(t, pair, p).tournament = t
    BY DEF Appearance
  <1> QED BY <1>7, <1>8

LEMMA AppearancesInv ==
  ASSUME HistoryInv, appearancesFor
  PROVE  HistoryInv'
  <1> DEFINE p == visit.player
             S == AppearancesOf(p)
             key == people[p].matchKey
  <1>1. /\ UNCHANGED <<catalogue, people, latest, imports, pairRows, lineups, events>> /\ UNCHANGED listing
        /\ visit.step = "reading"
    BY DEF appearancesFor, listing
  <1>2. p \in DOMAIN people
    BY <1>1 DEF HistoryInv, VisitInv
  <1>3. PICK rows : rows = newestFirst(S) /\ visit' = [visit EXCEPT !.appearances = rows]
    BY DEF appearancesFor
  <1>4. NewestOnes(rows, S)
    BY <1>2, <1>3, AppearancesApart, AppearancesSorted
  <1>5. ASSUME NEW a \in S
        PROVE  a.tournament \in Standing /\ a.partner \in DOMAIN people /\ AsEntered(a, key)
    <2>1. PICK i, m : EnteredAt(a, i, m) /\ lineups[a.tournament][i].keys[m] = key
      BY <1>2, AppearancesEntered
    <2>2. [points |-> lineups[a.tournament][i].points[m], partner |-> lineups[a.tournament][i].keys[3 - m]]
            \in EnteredAs(lineups[a.tournament], key)
      BY <2>1, EnteredIs DEF EnteredAt
    <2> QED BY <2>1, <2>2 DEF EnteredAt, AsEntered
  <1> HIDE DEF S, key
  <1>6. RowsTrue(rows, key)
    <2>1. \A i \in DOMAIN rows : rows[i] \in S
      BY <1>4 DEF NewestOnes
    <2>2. \A i, j \in DOMAIN rows :
            i < j => Precedes(SortKey(rows[j].tournament), SortKey(rows[i].tournament))
      BY <1>4 DEF NewestOnes
    <2>3. ASSUME NEW i \in DOMAIN rows, NEW j \in DOMAIN rows, i < j
          PROVE  events[rows[i].tournament] # events[rows[j].tournament]
      <3>1. rows[i].tournament \in Standing /\ rows[j].tournament \in Standing
        BY <1>5, <2>1
      <3>2. SortKey(rows[i].tournament) \in SortKeys
        <4>1. rows[i].tournament \in DOMAIN catalogue
          BY <3>1 DEF Standing
        <4> QED BY <4>1, KeyOf
      <3>3. rows[i].tournament # rows[j].tournament
        BY <2>2, <2>3, <3>2, Ordered
      <3> QED BY <3>1, <3>3 DEF HistoryInv, OneStands
    <2>4. ASSUME NEW t \in visit.standing \cap Standing, EnteredAs(lineups[t], key) # {}
          PROVE  \E i \in DOMAIN rows : rows[i].tournament = t
      <3>1. PICK a \in S : a.tournament = t
        BY <1>2, <2>4, NoneIsMissing DEF S, key
      <3> QED BY <1>4, <3>1 DEF NewestOnes
    <2>5. \A i \in DOMAIN rows : rows[i].tournament \in DOMAIN catalogue
      BY <1>5, <2>1 DEF Standing
    <2> QED BY <1>5, <2>1, <2>2, <2>3, <2>4, <2>5 DEF RowsTrue
  <1>7. /\ visit' = [f \in VisitFields |-> visit'[f]]
        /\ visit'.step = "reading" /\ visit'.player = p
        /\ visit'.standing = visit.standing
        /\ visit'.appearances = rows /\ visit'.points = visit.points
    BY <1>1, <1>3 DEF HistoryInv, VisitInv, VisitFields
  <1>8. VisitInv'
    BY <1>1, <1>6, <1>7, RowsStayTrue DEF HistoryInv, VisitInv, key
  <1> QED BY <1>1, <1>8, RecordStays, ListStays DEF HistoryInv

\* Whatever sheets are imported, and whoever they give whose ranking id to, and whatever is
\* published or replaced while a page is read (SC-008, FR-007, FR-025, FR-214): a page is one
\* person's, with all of his tournaments that stand, newest first, one for an event.
THEOREM PageIsOnePersons == HistorySpec => []HistoryIsOnePersons
  <1>1. ListInit /\ HistoryInit => HistoryInv
    BY HistoryInitInv
  <1>2. HistoryInv /\ [HistoryNext]_<<listing, archive>> => HistoryInv'
    <2> SUFFICES ASSUME HistoryInv, [HistoryNext]_<<listing, archive>> PROVE HistoryInv'
      OBVIOUS
    <2>1. CASE upsertMany
      BY <2>1, UpsertManyInv
    <2>2. CASE upsertSnapshots
      BY <2>2, UpsertSnapshotsInv
    <2>3. CASE publishPairs
      BY <2>3, PublishPairsInv
    <2>4. CASE replacePairs
      BY <2>4, ReplacePairsInv
    <2>5. CASE DayPasses /\ UNCHANGED archive
      BY <2>5, DayPassesInv
    <2>6. CASE findById
      BY <2>6, FindByIdInv
    <2>7. CASE appearancesFor
      BY <2>7, AppearancesInv
    <2>8. CASE latestPointsFor
      BY <2>8, LatestPointsInv
    <2>9. CASE answerPlayer
      BY <2>9, AnswerInv
    <2>10. CASE UNCHANGED <<listing, archive>>
      <3>1. /\ UNCHANGED <<catalogue, people, latest, imports, pairRows, lineups, events>>
            /\ UNCHANGED listing /\ visit' = visit
        BY <2>10 DEF listing, archive
      <3> QED BY <3>1, RecordStays, ListStays, VisitFrame DEF HistoryInv
    <2> QED BY <2>1, <2>2, <2>3, <2>4, <2>5, <2>6, <2>7, <2>8, <2>9, <2>10 DEF HistoryNext
  <1>3. HistoryInv => HistoryIsOnePersons
    <2> SUFFICES ASSUME HistoryInv, visit.step = "answered" PROVE HistoryIsOnePersons
      BY DEF HistoryIsOnePersons
    <2> DEFINE key == people[visit.player].matchKey
               rows == visit.appearances
    <2>1. RowsTrue(rows, key) /\ PointsTrue(visit.points, key)
      BY DEF HistoryInv, VisitInv
    <2> HIDE DEF key, rows
    <2>2. \A i \in DOMAIN rows :
            [points |-> rows[i].points, partner |-> people[rows[i].partner].matchKey]
              \in EnteredAs(lineups[rows[i].tournament], key)
      BY <2>1 DEF RowsTrue, AsEntered
    <2>3. \A t \in visit.standing \cap Standing : EnteredAs(lineups[t], key) # {} => t \in Listed
      BY <2>1 DEF RowsTrue, Listed, rows
    <2>4. \A n \in visit.points : \E i \in DOMAIN imports :
            \E row \in Range(imports[i]) : row.key = key /\ row.points = n
      BY <2>1 DEF PointsTrue, Imported, Range
    <2>5. \A i, j \in DOMAIN rows :
            i < j => /\ Precedes(SortKey(rows[j].tournament), SortKey(rows[i].tournament))
                     /\ events[rows[i].tournament] # events[rows[j].tournament]
      BY <2>1 DEF RowsTrue
    <2> QED BY <2>2, <2>3, <2>4, <2>5 DEF HistoryIsOnePersons, key, rows
  <1> QED BY <1>1, <1>2, <1>3, PTL DEF HistorySpec
===============================================================================
