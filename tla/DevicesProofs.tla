---------------------------- MODULE DevicesProofs -----------------------------
(***************************************************************************)
(* The inductive invariant of Devices, one lemma per action, and what it   *)
(* gives: a voter is one device, and a device is one voter, for any number *)
(* of browsers, tabs, groups and submissions.                              *)
(***************************************************************************)
EXTENDS Devices, TLAPS

Identity == {NoVoter} \cup Forgotten \cup Voter

TypeOK ==
  /\ voters \subseteq Voter
  /\ posts \in [Post -> [tab : Tab, group : Group, cookie : Identity, voter : {NoVoter} \cup Voter,
                         pc : {"unsent", "over"} \cup Serving \cup Answers, awaited : BOOLEAN]]
  /\ jar \in [Device -> Identity]
  /\ DOMAIN ballots \subseteq Group \X Voter
  /\ \A x \in DOMAIN ballots : ballots[x] \in Post

\* An id that is in use anywhere has a row, or is of a row that is no longer there.
Known == {NoVoter} \cup Forgotten \cup voters

\* The server takes a post for the voter of its cookie, and creates one for who has none.
PostKnows(p) ==
  posts[p].pc # "unsent" =>
    /\ posts[p].cookie \in Known /\ posts[p].voter \in Known
    /\ posts[p].cookie \in voters => posts[p].voter \in {NoVoter, posts[p].cookie}
    /\ posts[p].pc \in {"sent", "mint"} => posts[p].voter = NoVoter
    /\ posts[p].pc = "mint" => Unrecognised(p)
    /\ posts[p].pc \in {"check", "insert", "count", "CREATED"} => posts[p].voter \in voters

\* A ballot is in the group of its post and under the voter of it.
BallotKnows(x) ==
  /\ posts[ballots[x]].pc \in {"count", "CREATED", "INTERNAL_ERROR", "over"}
  /\ x = <<posts[ballots[x]].group, posts[ballots[x]].voter>>
  /\ posts[ballots[x]].voter \in voters

\* An identity a browser has, or has sent, or was given.
Holds(d, i) ==
  /\ i # NoVoter
  /\ \/ jar[d] = i
     \/ \E p \in Post : /\ posts[p].pc # "unsent" /\ Sender(p) = d
                        /\ i \in {posts[p].cookie, posts[p].voter}

\* A browser that did not split sends what it has; a post that is not recognised is the
\* only one of its browser, whose ballots are its own until its answer arrives.
OneVoter(d) ==
  /\ \A p \in Post : UnderWay(p) /\ Sender(p) = d =>
       /\ posts[p].cookie = jar[d]
       /\ Unrecognised(p) => \A q \in Post : UnderWay(q) /\ Sender(q) = d => q = p
  /\ \A x \in BallotsOf(d) :
       \/ x[2] = jar[d]
       \/ Unrecognised(ballots[x]) /\ posts[ballots[x]].pc \in {"count", "CREATED"}

IInv ==
  /\ TypeOK
  /\ \A p \in Post : PostKnows(p)
  /\ \A x \in DOMAIN ballots : BallotKnows(x)
  /\ \A d \in Device : jar[d] \in Known
  /\ \A d, e \in Device : \A i \in Identity : Holds(d, i) /\ Holds(e, i) => d = e
  /\ \A d \in Device \ split : OneVoter(d)

-------------------------------------------------------------------------------
\* What the properties are made of.

\* Ids that are known stay known, and no voter is created with one of them.
LEMMA KnownApart ==
  ASSUME TypeOK, NEW v \in Voter \ voters
  PROVE  v \notin Known /\ v \in Identity /\ v # NoVoter
  BY DevicesConstants DEF TypeOK, Known, Identity

\* Who holds an id knows it.
LEMMA HeldIsKnown ==
  ASSUME TypeOK, \A p \in Post : PostKnows(p), \A d \in Device : jar[d] \in Known,
         NEW d \in Device, NEW i, Holds(d, i)
  PROVE  i \in Known
  BY DEF Holds, PostKnows

-------------------------------------------------------------------------------
\* One lemma per action.

\* A post moves on or is answered, and nothing else changes but what splits.
LEMMA ServeInv ==
  ASSUME IInv, NEW p \in Post, NEW step \in {"over", "mint", "insert", "CREATED"} \cup Errors,
         Serve(p, step), UNCHANGED <<tables, jar>>, split \subseteq split',
         UnderWay(p),
         step = "mint" => posts[p].pc = "sent" /\ Unrecognised(p),
         step = "insert" => posts[p].pc = "check",
         step = "CREATED" => posts[p].pc = "count",
         posts[p].pc \in {"count", "CREATED", "INTERNAL_ERROR"} =>
           step \in {"CREATED", "INTERNAL_ERROR", "over"},
         posts[p].pc \in {"count", "CREATED"} /\ Unrecognised(p) =>
           step = "CREATED" \/ Sender(p) \in split'
  PROVE  IInv'
  <1> USE DEF IInv, tables
  <1>1. /\ posts'[p] = [posts[p] EXCEPT !.pc = step]
        /\ \A q \in Post \ {p} : posts'[q] = posts[q]
        /\ posts[p] \in [tab : Tab, group : Group, cookie : Identity, voter : {NoVoter} \cup Voter,
                         pc : {"unsent", "over"} \cup Serving \cup Answers, awaited : BOOLEAN]
    BY DEF Serve, TypeOK
  <1>2. /\ posts'[p].pc = step /\ posts[p].pc # "unsent" /\ posts[p].pc # "over"
        /\ \A q \in Post : /\ posts'[q].tab = posts[q].tab /\ posts'[q].group = posts[q].group
                           /\ posts'[q].cookie = posts[q].cookie /\ posts'[q].voter = posts[q].voter
                           /\ (posts'[q].pc = "unsent") <=> (posts[q].pc = "unsent")
                           /\ q # p => posts'[q].pc = posts[q].pc
    BY <1>1 DEF UnderWay, Serving, Answers, Errors
  <1>3. \A q \in Post : /\ Sender(q)' = Sender(q) /\ (Unrecognised(q)' <=> Unrecognised(q))
                        /\ UnderWay(q)' => UnderWay(q)
    BY <1>2 DEF Sender, Unrecognised, UnderWay
  <1>4. TypeOK'
    BY DEF TypeOK, Serve, Serving, Answers, Errors
  <1>5. \A q \in Post : PostKnows(q)'
    BY <1>2, <1>3 DEF PostKnows, Known, Errors
  <1>6. \A x \in DOMAIN ballots' : BallotKnows(x)'
    BY <1>2 DEF BallotKnows, TypeOK
  <1>7. \A d \in Device : jar'[d] \in Known'
    BY DEF Known
  <1>8. \A d, e \in Device : \A i \in Identity : Holds(d, i)' /\ Holds(e, i)' => d = e
    <2>1. \A d, i : Holds(d, i)' => Holds(d, i)
      BY <1>2, <1>3 DEF Holds
    <2> QED BY <2>1
  <1>9. \A d \in (Device \ split)' : OneVoter(d)'
    <2> SUFFICES ASSUME NEW d \in Device, d \notin split' PROVE OneVoter(d)'
      OBVIOUS
    <2>1. OneVoter(d)
      OBVIOUS
    <2>2. ASSUME NEW q \in Post, UnderWay(q)', Sender(q)' = d
          PROVE  /\ posts'[q].cookie = jar'[d]
                 /\ Unrecognised(q)' => \A r \in Post : UnderWay(r)' /\ Sender(r)' = d => r = q
      BY <1>2, <1>3, <2>1, <2>2 DEF OneVoter
    <2>3. ASSUME NEW x \in BallotsOf(d)'
          PROVE  \/ x[2] = jar'[d]
                 \/ Unrecognised(ballots[x])' /\ posts'[ballots'[x]].pc \in {"count", "CREATED"}
      <3>1. x \in BallotsOf(d) /\ ballots[x] \in Post
        BY <1>3 DEF BallotsOf, TypeOK
      <3>2. CASE ballots[x] = p
        BY <1>2, <1>3, <2>1, <3>1, <3>2 DEF OneVoter, BallotsOf
      <3>3. CASE ballots[x] # p
        BY <1>2, <1>3, <2>1, <3>1, <3>3 DEF OneVoter
      <3> QED BY <3>2, <3>3
    <2> QED BY <2>2, <2>3 DEF OneVoter
  <1> QED BY <1>4, <1>5, <1>6, <1>7, <1>8, <1>9

\* Rendering a page, closing the window and nothing at all leave what is known alone.
LEMMA QuietInv ==
  ASSUME IInv, UNCHANGED <<tables, posts, jar, split>>
  PROVE  IInv'
  <1> USE DEF IInv, tables
  <1>1. TypeOK'
    BY DEF TypeOK
  <1>2. \A p \in Post : PostKnows(p)'
    BY DEF PostKnows, Known, Unrecognised
  <1>3. \A x \in DOMAIN ballots' : BallotKnows(x)'
    BY DEF BallotKnows
  <1>4. \A d \in Device : jar'[d] \in Known'
    BY DEF Known
  <1>5. \A d, e \in Device : \A i \in Identity : Holds(d, i)' /\ Holds(e, i)' => d = e
    <2>1. \A d, i : Holds(d, i)' => Holds(d, i)
      BY DEF Holds, Sender
    <2> QED BY <2>1
  <1>6. \A d \in (Device \ split)' : OneVoter(d)'
    <2>1. \A d : OneVoter(d) => OneVoter(d)'
      BY DEF OneVoter, UnderWay, Sender, Unrecognised, BallotsOf
    <2> QED BY <2>1
  <1> QED BY <1>1, <1>2, <1>3, <1>4, <1>5, <1>6

\* A form that loses its connection may split its browser if the server does not
\* recognise it, and only then.
LEMMA LoseInv ==
  ASSUME IInv, NEW p \in Post, Lose(p)
  PROVE  IInv'
  <1> USE DEF IInv, tables
  <1>1. /\ UNCHANGED <<voters, ballots, jar>>
        /\ posts' = [posts EXCEPT ![p].awaited = FALSE]
        /\ split \subseteq split'
    BY DEF Lose
  <1>2. \A q \in Post : /\ posts'[q].tab = posts[q].tab /\ posts'[q].group = posts[q].group
                        /\ posts'[q].cookie = posts[q].cookie /\ posts'[q].voter = posts[q].voter
                        /\ posts'[q].pc = posts[q].pc
    BY <1>1 DEF TypeOK
  <1>3. \A q \in Post : /\ Sender(q)' = Sender(q) /\ (Unrecognised(q)' <=> Unrecognised(q))
                        /\ (UnderWay(q)' <=> UnderWay(q))
    BY <1>1, <1>2 DEF Sender, Unrecognised, UnderWay
  <1>4. TypeOK'
    BY <1>1 DEF TypeOK
  <1>5. \A q \in Post : PostKnows(q)'
    BY <1>1, <1>2, <1>3 DEF PostKnows, Known
  <1>6. \A x \in DOMAIN ballots' : BallotKnows(x)'
    BY <1>1, <1>2 DEF BallotKnows, TypeOK
  <1>7. \A d \in Device : jar'[d] \in Known'
    BY <1>1 DEF Known
  <1>8. \A d, e \in Device : \A i \in Identity : Holds(d, i)' /\ Holds(e, i)' => d = e
    <2>1. \A d, i : Holds(d, i)' => Holds(d, i)
      BY <1>1, <1>2, <1>3 DEF Holds
    <2> QED BY <2>1
  <1>9. \A d \in (Device \ split)' : OneVoter(d)'
    <2> SUFFICES ASSUME NEW d \in Device, d \notin split' PROVE OneVoter(d)'
      OBVIOUS
    <2>1. OneVoter(d)
      BY <1>1
    <2>2. BallotsOf(d)' = BallotsOf(d) /\ \A x \in BallotsOf(d) : ballots[x] \in Post
      BY <1>1, <1>3 DEF BallotsOf, TypeOK
    <2>3. \A q \in Post : UnderWay(q)' /\ Sender(q)' = d =>
            /\ posts'[q].cookie = jar'[d]
            /\ Unrecognised(q)' => \A r \in Post : UnderWay(r)' /\ Sender(r)' = d => r = q
      BY <1>1, <1>2, <1>3, <2>1 DEF OneVoter
    <2>4. \A x \in BallotsOf(d)' :
            \/ x[2] = jar'[d]
            \/ Unrecognised(ballots[x])' /\ posts'[ballots'[x]].pc \in {"count", "CREATED"}
      BY <1>1, <1>2, <1>3, <2>1, <2>2 DEF OneVoter
    <2> QED BY <2>3, <2>4 DEF OneVoter
  <1> QED BY <1>4, <1>5, <1>6, <1>7, <1>8, <1>9

\* A cookie whose row is there makes the post its voter's.
LEMMA RecogniseInv ==
  ASSUME IInv, NEW p \in Post, Recognise(p)
  PROVE  IInv'
  <1> USE DEF IInv, tables
  <1>1. CASE posts[p].cookie \notin voters
    <2>1. Serve(p, "mint") /\ posts[p].pc = "sent" /\ Unrecognised(p) /\ UnderWay(p)
      BY <1>1 DEF Recognise, Unrecognised, UnderWay, Serving
    <2>2. UNCHANGED <<tables, jar, split>>
      BY DEF Recognise, browser
    <2> QED BY <2>1, <2>2, ServeInv
  <1>2. CASE posts[p].cookie \in voters
    <2> DEFINE knows == [posts EXCEPT ![p].pc = "check", ![p].voter = posts[p].cookie]
    <2>1. /\ voters' = voters /\ ballots' = ballots /\ jar' = jar /\ split' = split
          /\ posts[p].pc = "sent"
      BY <1>2 DEF Recognise, browser
    <2>0. posts' = knows
      BY <1>2 DEF Recognise
    <2>2. /\ \A q \in Post \ {p} : posts'[q] = posts[q]
          /\ posts'[p] = [posts[p] EXCEPT !.pc = "check", !.voter = posts[p].cookie]
          /\ posts[p] \in [tab : Tab, group : Group, cookie : Identity, voter : {NoVoter} \cup Voter,
                          pc : {"unsent", "over"} \cup Serving \cup Answers, awaited : BOOLEAN]
      BY <2>0 DEF TypeOK
    <2>3. /\ posts'[p].voter = posts[p].cookie /\ posts'[p].pc = "check"
          /\ \A q \in Post : /\ posts'[q].tab = posts[q].tab /\ posts'[q].group = posts[q].group
                             /\ posts'[q].cookie = posts[q].cookie
      BY <2>2
    <2>4. \A q \in Post : /\ Sender(q)' = Sender(q) /\ (Unrecognised(q)' <=> Unrecognised(q))
                          /\ (UnderWay(q)' <=> UnderWay(q))
      <3>1. \A q \in Post : Sender(q)' = Sender(q) /\ (Unrecognised(q)' <=> Unrecognised(q))
        BY <2>1, <2>3 DEF Sender, Unrecognised
      <3>2. UnderWay(p)' /\ UnderWay(p)
        BY <2>1, <2>3 DEF UnderWay, Serving
      <3>3. \A q \in Post \ {p} : UnderWay(q)' <=> UnderWay(q)
        BY <2>2 DEF UnderWay
      <3> QED BY <3>1, <3>2, <3>3
    <2>5. TypeOK'
      BY <1>2, <2>0, <2>1 DEF TypeOK, Serving
    <2>6. \A q \in Post : PostKnows(q)'
      <3>1. PostKnows(p)'
        BY <1>2, <2>1, <2>3 DEF PostKnows, Known
      <3>2. \A q \in Post \ {p} : PostKnows(q)'
        BY <2>1, <2>2 DEF PostKnows, Known, Unrecognised
      <3> QED BY <3>1, <3>2
    <2>7. \A x \in DOMAIN ballots' : BallotKnows(x)'
      BY <2>1, <2>2 DEF BallotKnows, TypeOK
    <2>8. \A d \in Device : jar'[d] \in Known'
      BY <2>1 DEF Known
    <2>9. \A d, e \in Device : \A i \in Identity : Holds(d, i)' /\ Holds(e, i)' => d = e
      <3>1. \A d, i : Holds(d, i)' => Holds(d, i)
        <4> SUFFICES ASSUME NEW d, NEW i, Holds(d, i)' PROVE Holds(d, i)
          OBVIOUS
        <4>1. \A q \in Post : posts'[q].voter = posts[q].voter \/ q = p
          BY <2>2
        <4>2. posts[p].pc # "unsent" /\ \A q \in Post : (posts'[q].pc = "unsent") <=> (posts[q].pc = "unsent")
          BY <2>1, <2>2, <2>3
        <4> QED BY <2>1, <2>3, <2>4, <4>1, <4>2 DEF Holds
      <3> QED BY <3>1
    <2>10. \A d \in (Device \ split)' : OneVoter(d)'
      <3> SUFFICES ASSUME NEW d \in Device, d \notin split' PROVE OneVoter(d)'
        OBVIOUS
      <3>1. OneVoter(d)
        BY <2>1
      <3>2. BallotsOf(d)' = BallotsOf(d) /\ \A x \in BallotsOf(d) : ballots[x] \in Post /\ ballots[x] # p
        BY <2>1, <2>4 DEF BallotsOf, TypeOK, BallotKnows
      <3>3. \A q \in Post : UnderWay(q)' /\ Sender(q)' = d =>
              /\ posts'[q].cookie = jar'[d]
              /\ Unrecognised(q)' => \A r \in Post : UnderWay(r)' /\ Sender(r)' = d => r = q
        BY <2>1, <2>3, <2>4, <3>1 DEF OneVoter
      <3>4. \A x \in BallotsOf(d)' :
              \/ x[2] = jar'[d]
              \/ Unrecognised(ballots[x])' /\ posts'[ballots'[x]].pc \in {"count", "CREATED"}
        BY <2>1, <2>2, <2>4, <3>1, <3>2 DEF OneVoter
      <3> QED BY <3>3, <3>4 DEF OneVoter
    <2> QED BY <2>5, <2>6, <2>7, <2>8, <2>9, <2>10
  <1> QED BY <1>1, <1>2

\* A voter that is created is one nobody holds, and its post stays unrecognised.
LEMMA MintInv ==
  ASSUME IInv, NEW p \in Post, Mint(p)
  PROVE  IInv'
  <1> USE DEF IInv, tables
  <1>0. PICK v \in Voter \ voters :
          /\ voters' = voters \cup {v}
          /\ posts' = [posts EXCEPT ![p].pc = "check", ![p].voter = v]
    BY DEF Mint
  <1>1. voters' = voters \cup {v}
    BY <1>0
  <1>2. ballots' = ballots /\ jar' = jar /\ split' = split /\ posts[p].pc = "mint"
    BY DEF Mint, browser
  <1>3. \A q \in Post : /\ posts'[q].tab = posts[q].tab /\ posts'[q].group = posts[q].group
                        /\ posts'[q].cookie = posts[q].cookie
                        /\ q # p => posts'[q].voter = posts[q].voter /\ posts'[q].pc = posts[q].pc
    BY <1>0 DEF TypeOK
  <1>4. posts'[p].voter = v /\ posts'[p].pc = "check"
    BY <1>0 DEF TypeOK
  <1>5. v \notin Known /\ v # NoVoter /\ Unrecognised(p)
    BY <1>2, KnownApart DEF PostKnows
  <1>6. \A q \in Post : /\ Sender(q)' = Sender(q) /\ (UnderWay(q)' <=> UnderWay(q))
                        /\ posts[q].pc # "unsent" => (Unrecognised(q)' <=> Unrecognised(q))
    BY <1>1, <1>2, <1>3, <1>4, <1>5 DEF Sender, Unrecognised, UnderWay, Serving, PostKnows
  <1>7. TypeOK'
    BY <1>0, <1>1, <1>2 DEF TypeOK, Serving
  <1>8. \A q \in Post : PostKnows(q)'
    BY <1>1, <1>2, <1>3, <1>4, <1>5, <1>6 DEF PostKnows, Known, Unrecognised
  <1>9. \A x \in DOMAIN ballots' : BallotKnows(x)'
    BY <1>1, <1>2, <1>3 DEF BallotKnows, TypeOK
  <1>10. \A d \in Device : jar'[d] \in Known'
    BY <1>1, <1>2 DEF Known
  <1>11. \A d, e \in Device : \A i \in Identity : Holds(d, i)' /\ Holds(e, i)' => d = e
    <2>1. \A d, i : Holds(d, i)' => Holds(d, i) \/ (i = v /\ Sender(p) = d)
      <3> SUFFICES ASSUME NEW d, NEW i, Holds(d, i)', i # v \/ Sender(p) # d PROVE Holds(d, i)
        OBVIOUS
      <3>1. CASE jar[d] = i
        BY <1>2, <3>1 DEF Holds
      <3>2. ASSUME NEW q \in Post, posts'[q].pc # "unsent", Sender(q)' = d,
                   i \in {posts'[q].cookie, posts'[q].voter}
            PROVE  Holds(d, i)
        <4>1. CASE q = p
          BY <1>2, <1>3, <1>4, <1>6, <3>2, <4>1 DEF Holds
        <4>2. CASE q # p
          BY <1>3, <1>6, <3>2, <4>2 DEF Holds
        <4> QED BY <4>1, <4>2
      <3> QED BY <1>2, <3>1, <3>2 DEF Holds
    <2>2. \A d \in Device : ~Holds(d, v)
      BY <1>5, HeldIsKnown
    <2> QED BY <2>1, <2>2
  <1>12. \A d \in (Device \ split)' : OneVoter(d)'
    <2> SUFFICES ASSUME NEW d \in Device, d \notin split' PROVE OneVoter(d)'
      OBVIOUS
    <2>1. OneVoter(d)
      BY <1>2
    <2>2. BallotsOf(d)' = BallotsOf(d) /\ \A x \in BallotsOf(d) : ballots[x] \in Post /\ ballots[x] # p
      BY <1>2, <1>6 DEF BallotsOf, TypeOK, BallotKnows
    <2>3. \A q \in Post : UnderWay(q)' /\ Sender(q)' = d =>
            /\ posts'[q].cookie = jar'[d]
            /\ Unrecognised(q)' => \A r \in Post : UnderWay(r)' /\ Sender(r)' = d => r = q
      BY <1>2, <1>3, <1>6, <2>1 DEF OneVoter, UnderWay, Serving, Answers, Errors
    <2>4. \A x \in BallotsOf(d)' :
            \/ x[2] = jar'[d]
            \/ Unrecognised(ballots[x])' /\ posts'[ballots'[x]].pc \in {"count", "CREATED"}
      BY <1>2, <1>3, <1>6, <2>1, <2>2 DEF OneVoter
    <2> QED BY <2>3, <2>4 DEF OneVoter
  <1> QED BY <1>7, <1>8, <1>9, <1>10, <1>11, <1>12

\* A post is sent with the cookie of its browser; the browser splits if one of its posts
\* was under way that the server does not recognise.
LEMMA SubmitInv ==
  ASSUME IInv, NEW t \in Tab, NEW g \in Group, NEW p \in Post, Submit(t, g, p)
  PROVE  IInv'
  <1> USE DEF IInv, tables
  <1> DEFINE d0 == DeviceOf[t]
  <1>1. /\ voters' = voters /\ ballots' = ballots /\ jar' = jar /\ split \subseteq split'
        /\ posts[p].pc = "unsent"
        /\ d0 \notin split' => \A q \in Post : UnderWay(q) /\ Sender(q) = d0 => ~Unrecognised(q)
    BY DEF Submit
  <1>2. /\ posts' = [posts EXCEPT ![p] =
             [tab |-> t, group |-> g, cookie |-> jar[d0], voter |-> NoVoter,
              pc |-> "sent", awaited |-> TRUE]]
        /\ d0 \in Device /\ jar[d0] \in Identity /\ NoVoter \in Known
    BY DevicesConstants DEF Submit, TypeOK, Known
  <1>3. /\ \A q \in Post \ {p} : posts'[q] = posts[q]
        /\ posts'[p] = [tab |-> t, group |-> g, cookie |-> jar[d0], voter |-> NoVoter,
                        pc |-> "sent", awaited |-> TRUE]
    BY <1>2 DEF TypeOK
  <1>4. TypeOK'
    BY <1>1, <1>2 DEF TypeOK, Serving
  <1>5. \A q \in Post : PostKnows(q)'
    <2>1. PostKnows(p)'
      BY <1>1, <1>2, <1>3 DEF PostKnows, Known
    <2>2. \A q \in Post \ {p} : PostKnows(q)'
      BY <1>1, <1>3 DEF PostKnows, Known, Unrecognised
    <2> QED BY <2>1, <2>2
  <1>6. \A x \in DOMAIN ballots : ballots[x] \in Post \ {p}
    BY <1>1 DEF TypeOK, BallotKnows
  <1>7. \A x \in DOMAIN ballots' : BallotKnows(x)'
    BY <1>1, <1>3, <1>6 DEF BallotKnows
  <1>8. \A d \in Device : jar'[d] \in Known'
    BY <1>1 DEF Known
  <1>9. /\ \A q \in Post \ {p} : /\ Sender(q)' = Sender(q) /\ (Unrecognised(q)' <=> Unrecognised(q))
                                 /\ (UnderWay(q)' <=> UnderWay(q))
        /\ Sender(p)' = d0 /\ (Unrecognised(p)' <=> jar[d0] \notin voters)
    BY <1>1, <1>3 DEF Sender, Unrecognised, UnderWay
  <1>10. \A d, e \in Device : \A i \in Identity : Holds(d, i)' /\ Holds(e, i)' => d = e
    <2>1. ASSUME NEW d, NEW i, Holds(d, i)' PROVE Holds(d, i)
      <3>1. CASE jar[d] = i
        BY <1>1, <2>1, <3>1 DEF Holds
      <3>2. ASSUME NEW q \in Post, posts'[q].pc # "unsent", Sender(q)' = d,
                   i \in {posts'[q].cookie, posts'[q].voter}
            PROVE  Holds(d, i)
        <4>1. CASE q = p
          BY <1>3, <1>9, <2>1, <3>2, <4>1 DEF Holds
        <4>2. CASE q # p
          BY <1>3, <1>9, <2>1, <3>2, <4>2 DEF Holds
        <4> QED BY <4>1, <4>2
      <3> QED BY <1>1, <2>1, <3>1, <3>2 DEF Holds
    <2> QED BY <2>1
  <1>11. \A d \in (Device \ split)' : OneVoter(d)'
    <2> SUFFICES ASSUME NEW d \in Device, d \notin split' PROVE OneVoter(d)'
      OBVIOUS
    <2>1. OneVoter(d)
      BY <1>1
    <2>2. BallotsOf(d)' = BallotsOf(d) /\ \A x \in BallotsOf(d) : ballots[x] \in Post \ {p}
      BY <1>1, <1>6, <1>9 DEF BallotsOf
    <2>3. ASSUME NEW q \in Post, UnderWay(q)', Sender(q)' = d
          PROVE  /\ posts'[q].cookie = jar'[d]
                 /\ Unrecognised(q)' => \A r \in Post : UnderWay(r)' /\ Sender(r)' = d => r = q
      <3>1. CASE q = p
        <4>1. d = d0 /\ posts'[q].cookie = jar'[d]
          BY <1>1, <1>3, <1>9, <2>3, <3>1
        <4>2. \A r \in Post \ {p} : UnderWay(r)' /\ Sender(r)' = d =>
                ~Unrecognised(r) /\ posts[r].cookie = jar[d]
          BY <1>1, <1>9, <2>1, <4>1 DEF OneVoter
        <4> QED BY <1>9, <3>1, <4>1, <4>2 DEF Unrecognised
      <3>2. CASE q # p
        <4>1. posts'[q].cookie = jar'[d] /\ UnderWay(q) /\ Sender(q) = d
          BY <1>1, <1>3, <1>9, <2>1, <2>3, <3>2 DEF OneVoter
        <4>2. Unrecognised(q) => d # d0
          BY <1>1, <4>1
        <4> QED BY <1>9, <2>1, <3>2, <4>1, <4>2 DEF OneVoter
      <3> QED BY <3>1, <3>2
    <2>4. \A x \in BallotsOf(d)' :
            \/ x[2] = jar'[d]
            \/ Unrecognised(ballots[x])' /\ posts'[ballots'[x]].pc \in {"count", "CREATED"}
      BY <1>1, <1>3, <1>9, <2>1, <2>2 DEF OneVoter
    <2> QED BY <2>3, <2>4 DEF OneVoter
  <1> QED BY <1>4, <1>5, <1>7, <1>8, <1>10, <1>11

\* A browser takes the voter its post was given: the one its ballots are under, as that
\* post was its only one.
LEMMA DeliverInv ==
  ASSUME IInv, NEW p \in Post, Deliver(p)
  PROVE  IInv'
  <1> USE DEF IInv, tables
  <1>1. /\ voters' = voters /\ ballots' = ballots /\ split' = split
        /\ posts[p].pc \in Answers /\ posts[p].pc # "unsent" /\ UnderWay(p)
        /\ PostKnows(p) /\ Sender(p) \in Device
    BY DevicesConstants DEF Deliver, UnderWay, Answers, Errors, TypeOK, Sender
  <1>2. Serve(p, "over")
    BY DEF Deliver
  <1>3. CASE ~(posts[p].pc = "CREATED" /\ Minted(p))
    <2>1. jar' = jar
      BY <1>3 DEF Deliver, TypeOK
    <2>2. posts[p].pc = "CREATED" => ~Unrecognised(p)
      BY <1>1, <1>3, DevicesConstants DEF PostKnows, Minted, Unrecognised, TypeOK
    <2>3. posts[p].pc \notin {"sent", "check", "count"}
      BY <1>1 DEF Answers, Errors
    <2> QED BY <1>1, <1>2, <2>1, <2>2, <2>3, ServeInv
  <1>4. CASE posts[p].pc = "CREATED" /\ Minted(p)
    <2> DEFINE d0 == Sender(p)  v == posts[p].voter
    <2>1. jar' = [jar EXCEPT ![d0] = v]
      BY <1>4 DEF Deliver
    <2>2. /\ v \in voters /\ v # NoVoter /\ Unrecognised(p) /\ Holds(d0, v)
      BY <1>1, <1>4 DEF PostKnows, Minted, Unrecognised, Holds
    <2>3. jar'[d0] = v /\ \A d \in Device \ {d0} : jar'[d] = jar[d]
      BY <1>1, <2>1 DEF TypeOK
    <2>4. /\ \A q \in Post \ {p} : posts'[q] = posts[q]
          /\ posts'[p] = [posts[p] EXCEPT !.pc = "over"]
          /\ posts[p] \in [tab : Tab, group : Group, cookie : Identity, voter : {NoVoter} \cup Voter,
                           pc : {"unsent", "over"} \cup Serving \cup Answers, awaited : BOOLEAN]
      BY <1>2 DEF Serve, TypeOK
    <2>5. /\ posts'[p].pc = "over"
          /\ \A q \in Post : /\ posts'[q].tab = posts[q].tab /\ posts'[q].group = posts[q].group
                             /\ posts'[q].cookie = posts[q].cookie /\ posts'[q].voter = posts[q].voter
                             /\ (posts'[q].pc = "unsent") <=> (posts[q].pc = "unsent")
                             /\ q # p => posts'[q].pc = posts[q].pc
      BY <1>1, <2>4
    <2>6. \A q \in Post : /\ Sender(q)' = Sender(q) /\ (Unrecognised(q)' <=> Unrecognised(q))
                          /\ UnderWay(q)' => UnderWay(q) /\ q # p
      BY <1>1, <2>5 DEF Sender, Unrecognised, UnderWay, Serving, Answers, Errors
    <2>7. TypeOK'
      <3>1. v \in Identity
        BY <2>2 DEF TypeOK, Identity
      <3> QED BY <1>1, <1>2, <2>1, <3>1 DEF TypeOK, Serve
    <2>8. \A q \in Post : PostKnows(q)'
      BY <1>1, <2>5, <2>6 DEF PostKnows, Known
    <2>9. \A x \in DOMAIN ballots' : BallotKnows(x)'
      BY <1>1, <2>5 DEF BallotKnows, TypeOK
    <2>10. \A d \in Device : jar'[d] \in Known'
      BY <1>1, <2>2, <2>3 DEF Known
    <2>11. \A d, e \in Device : \A i \in Identity : Holds(d, i)' /\ Holds(e, i)' => d = e
      <3>1. ASSUME NEW d \in Device, NEW i, Holds(d, i)' PROVE Holds(d, i)
        <4>1. CASE jar'[d] = i
          BY <2>2, <2>3, <3>1, <4>1 DEF Holds
        <4>2. CASE jar'[d] # i
          BY <2>5, <2>6, <3>1, <4>2 DEF Holds
        <4> QED BY <4>1, <4>2
      <3> QED BY <3>1
    <2>12. \A d \in (Device \ split)' : OneVoter(d)'
      <3> SUFFICES ASSUME NEW d \in Device, d \notin split' PROVE OneVoter(d)'
        OBVIOUS
      <3>1. OneVoter(d)
        BY <1>1
      <3>2. BallotsOf(d)' = BallotsOf(d) /\ \A x \in BallotsOf(d) : ballots[x] \in Post /\ BallotKnows(x)
        BY <1>1, <2>6 DEF BallotsOf, TypeOK
      <3>3. CASE d # d0
        <4>1. \A x \in BallotsOf(d) : ballots[x] # p
          BY <3>3 DEF BallotsOf
        <4>2. \A q \in Post : UnderWay(q)' /\ Sender(q)' = d =>
                /\ posts'[q].cookie = jar'[d]
                /\ Unrecognised(q)' => \A r \in Post : UnderWay(r)' /\ Sender(r)' = d => r = q
          BY <2>3, <2>5, <2>6, <3>1, <3>3 DEF OneVoter
        <4>3. \A x \in BallotsOf(d)' :
                \/ x[2] = jar'[d]
                \/ Unrecognised(ballots[x])' /\ posts'[ballots'[x]].pc \in {"count", "CREATED"}
          BY <1>1, <2>3, <2>5, <2>6, <3>1, <3>2, <3>3, <4>1 DEF OneVoter
        <4> QED BY <4>2, <4>3 DEF OneVoter
      <3>4. CASE d = d0
        <4>1. /\ posts[p].cookie = jar[d]
              /\ \A q \in Post : UnderWay(q) /\ Sender(q) = d => q = p
          BY <1>1, <2>2, <3>1, <3>4 DEF OneVoter
        <4>2. \A q \in Post : ~(UnderWay(q)' /\ Sender(q)' = d)
          BY <2>6, <4>1
        <4>3. ASSUME NEW x \in BallotsOf(d)
              PROVE  x[2] = v
          <5>1. x[2] \in voters /\ x[2] = posts[ballots[x]].voter /\ ballots[x] \in Post
            BY <3>2, <4>3 DEF BallotKnows
          <5>2. x[2] # jar[d]
            BY <2>2, <4>1, <5>1 DEF Unrecognised
          <5>3. UnderWay(ballots[x]) /\ Sender(ballots[x]) = d
            BY <3>1, <4>3, <5>2 DEF OneVoter, UnderWay, Serving, Answers, BallotsOf
          <5> QED BY <4>1, <5>1, <5>3
        <4> QED BY <2>3, <3>2, <3>4, <4>2, <4>3 DEF OneVoter
      <3> QED BY <3>3, <3>4
    <2> QED BY <2>7, <2>8, <2>9, <2>10, <2>11, <2>12
  <1> QED BY <1>3, <1>4

\* A ballot is stored under the voter of its post: the cookie's, or one just created.
LEMMA InsertInv ==
  ASSUME IInv, NEW p \in Post, Insert(p)
  PROVE  IInv'
  <1> USE DEF IInv, tables
  <1> DEFINE x0 == <<posts[p].group, posts[p].voter>>
  <1>1. /\ voters' = voters /\ jar' = jar /\ split' = split
        /\ posts[p].pc = "insert" /\ UnderWay(p) /\ PostKnows(p)
    BY DEF Insert, browser, UnderWay, Serving
  <1>2. CASE x0 \in DOMAIN ballots
    <2>1. Serve(p, "ALREADY_VOTED") /\ ballots' = ballots
      BY <1>2 DEF Insert
    <2> QED BY <1>1, <2>1, ServeInv DEF Errors
  <1>3. CASE x0 \notin DOMAIN ballots
    <2>0. /\ Serve(p, "count")
          /\ ballots' = [y \in DOMAIN ballots \cup {x0} |-> IF y = x0 THEN p ELSE ballots[y]]
      BY <1>3 DEF Insert
    <2>1. /\ DOMAIN ballots' = DOMAIN ballots \cup {x0}
          /\ ballots'[x0] = p /\ \A x \in DOMAIN ballots : ballots'[x] = ballots[x]
      BY <1>3, <2>0
    <2>2. /\ \A q \in Post \ {p} : posts'[q] = posts[q]
          /\ posts'[p] = [posts[p] EXCEPT !.pc = "count"]
          /\ posts[p] \in [tab : Tab, group : Group, cookie : Identity, voter : {NoVoter} \cup Voter,
                           pc : {"unsent", "over"} \cup Serving \cup Answers, awaited : BOOLEAN]
      BY <2>0 DEF Serve, TypeOK
    <2>3. /\ posts'[p].pc = "count"
          /\ \A q \in Post : /\ posts'[q].tab = posts[q].tab /\ posts'[q].group = posts[q].group
                             /\ posts'[q].cookie = posts[q].cookie /\ posts'[q].voter = posts[q].voter
                             /\ (posts'[q].pc = "unsent") <=> (posts[q].pc = "unsent")
                             /\ q # p => posts'[q].pc = posts[q].pc
      BY <1>1, <2>2
    <2>4. \A q \in Post : /\ Sender(q)' = Sender(q) /\ (Unrecognised(q)' <=> Unrecognised(q))
                          /\ UnderWay(q)' => UnderWay(q)
      BY <1>1, <2>3 DEF Sender, Unrecognised, UnderWay
    <2>5. /\ posts[p].voter \in voters /\ posts[p].voter # NoVoter
          /\ x0 \in Group \X Voter /\ x0[2] = posts[p].voter
      BY <1>1, <2>2, DevicesConstants DEF PostKnows, TypeOK
    <2>6. \A x \in DOMAIN ballots : ballots[x] \in Post \ {p}
      BY <1>1 DEF TypeOK, BallotKnows
    <2>7. TypeOK'
      <3>1. posts' \in [Post -> [tab : Tab, group : Group, cookie : Identity,
                                 voter : {NoVoter} \cup Voter,
                                 pc : {"unsent", "over"} \cup Serving \cup Answers, awaited : BOOLEAN]]
        BY <2>0 DEF Serve, TypeOK, Serving
      <3>2. DOMAIN ballots' \subseteq Group \X Voter /\ \A x \in DOMAIN ballots' : ballots'[x] \in Post
        BY <2>1, <2>5 DEF TypeOK
      <3> QED BY <1>1, <3>1, <3>2 DEF TypeOK
    <2>8. \A q \in Post : PostKnows(q)'
      BY <1>1, <2>3, <2>4 DEF PostKnows, Known
    <2>9. \A x \in DOMAIN ballots' : BallotKnows(x)'
      BY <1>1, <2>1, <2>3, <2>5, <2>6 DEF BallotKnows
    <2>10. \A d \in Device : jar'[d] \in Known'
      BY <1>1 DEF Known
    <2>11. \A d, e \in Device : \A i \in Identity : Holds(d, i)' /\ Holds(e, i)' => d = e
      <3>1. \A d, i : Holds(d, i)' => Holds(d, i)
        BY <1>1, <2>3, <2>4 DEF Holds
      <3> QED BY <3>1
    <2>12. \A d \in (Device \ split)' : OneVoter(d)'
      <3> SUFFICES ASSUME NEW d \in Device, d \notin split' PROVE OneVoter(d)'
        OBVIOUS
      <3>1. OneVoter(d)
        BY <1>1
      <3>2. \A q \in Post : UnderWay(q)' /\ Sender(q)' = d =>
              /\ posts'[q].cookie = jar'[d]
              /\ Unrecognised(q)' => \A r \in Post : UnderWay(r)' /\ Sender(r)' = d => r = q
        BY <1>1, <2>3, <2>4, <3>1 DEF OneVoter
      <3>3. ASSUME NEW x \in BallotsOf(d)'
            PROVE  \/ x[2] = jar'[d]
                   \/ Unrecognised(ballots[x])' /\ posts'[ballots'[x]].pc \in {"count", "CREATED"}
        <4>1. CASE x = x0
          <5>1. Sender(p) = d
            BY <2>1, <2>4, <3>3, <4>1 DEF BallotsOf
          <5>2. CASE Unrecognised(p)
            BY <2>1, <2>3, <2>4, <4>1, <5>2
          <5>3. CASE ~Unrecognised(p)
            BY <1>1, <2>5, <3>1, <4>1, <5>1, <5>3 DEF Unrecognised, PostKnows, OneVoter
          <5> QED BY <5>2, <5>3
        <4>2. CASE x # x0
          <5>1. x \in BallotsOf(d) /\ ballots'[x] = ballots[x] /\ ballots[x] \in Post \ {p}
            BY <2>1, <2>4, <2>6, <3>3, <4>2 DEF BallotsOf
          <5> QED BY <1>1, <2>3, <2>4, <3>1, <5>1 DEF OneVoter
        <4> QED BY <4>1, <4>2
      <3> QED BY <3>2, <3>3 DEF OneVoter
    <2> QED BY <2>7, <2>8, <2>9, <2>10, <2>11, <2>12
  <1> QED BY <1>2, <1>3

\* An answer without a cookie to a post that was given a voter splits its browser.
LEMMA FailInv ==
  ASSUME IInv, NEW p \in Post, FailPost(p)
  PROVE  IInv'
  <1>1. /\ Serve(p, "INTERNAL_ERROR") /\ UNCHANGED <<tables, jar>> /\ split \subseteq split'
        /\ posts[p].pc \in Serving /\ UnderWay(p)
    BY DEF FailPost, browser, UnderWay
  <1>2. posts[p].pc = "count" /\ Unrecognised(p) => Sender(p) \in split'
    BY <1>1, DevicesConstants
       DEF FailPost, IInv, TypeOK, PostKnows, Unrecognised, Minted, Serving
  <1>3. posts[p].pc # "CREATED"
    BY <1>1 DEF Serving
  <1> QED BY <1>1, <1>2, <1>3, ServeInv DEF Errors

-------------------------------------------------------------------------------
LEMMA InitInv ==
  ASSUME Init
  PROVE  IInv
  <1> USE DEF Init
  <1>1. /\ Unsent \in [tab : Tab, group : Group, cookie : Identity, voter : {NoVoter} \cup Voter,
                       pc : {"unsent", "over"} \cup Serving \cup Answers, awaited : BOOLEAN]
        /\ Unsent.pc = "unsent"
    BY DevicesConstants DEF Unsent, Identity
  <1>2. DOMAIN ballots = {}
    OBVIOUS
  <1>3. TypeOK
    <2>1. posts \in [Post -> [tab : Tab, group : Group, cookie : Identity,
                              voter : {NoVoter} \cup Voter,
                              pc : {"unsent", "over"} \cup Serving \cup Answers, awaited : BOOLEAN]]
      BY <1>1
    <2>2. jar \in [Device -> Identity]
      BY DEF Identity
    <2> QED BY <1>2, <2>1, <2>2 DEF TypeOK
  <1>4. \A p \in Post : posts[p].pc = "unsent" /\ ~UnderWay(p) /\ PostKnows(p)
    BY <1>1 DEF UnderWay, PostKnows, Serving, Answers, Errors
  <1>5. \A d \in Device : jar[d] \in Known
    BY DEF Known
  <1>6. \A d, e \in Device : \A i \in Identity : Holds(d, i) /\ Holds(e, i) => d = e
    BY <1>4 DEF Holds
  <1>7. \A d \in Device \ split : OneVoter(d)
    BY <1>2, <1>4 DEF OneVoter, BallotsOf
  <1> QED BY <1>2, <1>3, <1>4, <1>5, <1>6, <1>7 DEF IInv

\* Whatever browsers, posts and the server do, IInv holds.
THEOREM Invariance == Spec => []IInv
  <1>1. Init => IInv
    BY InitInv
  <1>2. IInv /\ [Next]_vars => IInv'
    <2> SUFFICES ASSUME IInv, [Next]_vars PROVE IInv'
      OBVIOUS
    <2>1. ASSUME NEW t \in Tab, NEW g \in Group, NEW p \in Post, Submit(t, g, p) PROVE IInv'
      BY <2>1, SubmitInv
    <2>2. ASSUME NEW p \in Post, Route(p) PROVE IInv'
      <3>1. CASE Enforce(p)
        BY <3>1, ServeInv DEF Enforce, browser, UnderWay, Serving, Errors
      <3>2. CASE Recognise(p)
        BY <3>2, RecogniseInv
      <3>3. CASE Mint(p)
        BY <3>3, MintInv
      <3>4. CASE CheckWindow(p)
        <4>1. CASE open
          BY <3>4, <4>1, ServeInv DEF CheckWindow, browser, UnderWay, Serving
        <4>2. CASE ~open
          BY <3>4, <4>2, ServeInv DEF CheckWindow, browser, UnderWay, Serving, Errors
        <4> QED BY <4>1, <4>2
      <3>5. CASE Insert(p)
        BY <3>5, InsertInv
      <3>6. CASE Count(p)
        BY <3>6, ServeInv DEF Count, browser, UnderWay, Serving
      <3>7. CASE FailPost(p)
        BY <3>7, FailInv
      <3> QED BY <2>2, <3>1, <3>2, <3>3, <3>4, <3>5, <3>6, <3>7 DEF Route
    <2>3. ASSUME NEW p \in Post, Deliver(p) PROVE IInv'
      BY <2>3, DeliverInv
    <2>4. ASSUME NEW p \in Post, Lose(p) PROVE IInv'
      BY <2>4, LoseInv
    <2>5. ASSUME NEW t \in Tab, Refresh(t) \/ Reload(t) PROVE IInv'
      BY <2>5, QuietInv DEF Refresh, Reload
    <2>6. CASE CloseWindow
      BY <2>6, QuietInv DEF CloseWindow, browser
    <2>7. CASE UNCHANGED vars
      BY <2>7, QuietInv DEF vars, browser
    <2> QED BY <2>1, <2>2, <2>3, <2>4, <2>5, <2>6, <2>7 DEF Next
  <1> QED BY <1>1, <1>2, PTL DEF Spec

\* No two browsers come to be one voter, by a cookie or by a ballot (voters.ts mints one
\* per post it does not recognise, voter-cookie.ts hands it to the browser of that post).
THEOREM NobodyVotesForAnother == Spec => []VoterIsOneDevice
  <1>1. IInv => VoterIsOneDevice
    <2> SUFFICES ASSUME IInv PROVE VoterIsOneDevice
      OBVIOUS
    <2> USE DEF IInv
    <2>1. ASSUME NEW d \in Device, NEW e \in Device, d # e, jar[d] = jar[e]
          PROVE  jar[d] = NoVoter
      BY <2>1 DEF Holds, TypeOK
    <2>2. ASSUME NEW x \in DOMAIN ballots, NEW y \in DOMAIN ballots, x[2] = y[2]
          PROVE  Sender(ballots[x]) = Sender(ballots[y])
      <3>1. ASSUME NEW z \in DOMAIN ballots
            PROVE  /\ Sender(ballots[z]) \in Device
                   /\ z[2] \in Identity /\ Holds(Sender(ballots[z]), z[2])
        <4>1. ballots[z] \in Post /\ BallotKnows(z)
          BY DEF TypeOK
        <4>2. /\ z[2] = posts[ballots[z]].voter /\ z[2] \in voters
              /\ posts[ballots[z]].pc # "unsent"
          BY <4>1 DEF BallotKnows
        <4>3. z[2] \in Identity /\ z[2] # NoVoter
          BY <4>2, DevicesConstants DEF TypeOK, Identity
        <4>4. Sender(ballots[z]) \in Device
          BY <4>1, DevicesConstants DEF TypeOK, Sender
        <4> QED BY <4>1, <4>2, <4>3, <4>4 DEF Holds
      <3> QED BY <2>2, <3>1
    <2> QED BY <2>1, <2>2 DEF VoterIsOneDevice
  <1> QED BY <1>1, Invariance, PTL

\* A browser that waited for the voter it was being given is one voter, once per group.
THEOREM OneVoteADevice == Spec => []DeviceIsOneVoter
  <1>1. IInv => DeviceIsOneVoter
    <2> SUFFICES ASSUME IInv, NEW d \in Device \ split
                 PROVE  /\ \A x \in BallotsOf(d) : x[2] = jar[d] \/ UnderWay(ballots[x])
                        /\ \A x, y \in BallotsOf(d) : x[1] = y[1] => x = y
      BY DEF DeviceIsOneVoter
    <2> USE DEF IInv
    <2>1. OneVoter(d) /\ \A x \in BallotsOf(d) : BallotKnows(x) /\ ballots[x] \in Post
      BY DEF BallotsOf, TypeOK
    <2>2. ASSUME NEW x \in BallotsOf(d), x[2] # jar[d]
          PROVE  /\ UnderWay(ballots[x]) /\ Sender(ballots[x]) = d /\ Unrecognised(ballots[x])
                 /\ jar[d] \notin voters
      BY <2>1, <2>2 DEF OneVoter, UnderWay, Serving, Answers, BallotsOf, Unrecognised
    <2>3. ASSUME NEW x \in BallotsOf(d), NEW y \in BallotsOf(d), x[1] = y[1]
          PROVE  x[2] = y[2]
      <3>1. x[2] \in voters /\ y[2] \in voters
        BY <2>1 DEF BallotKnows
      <3>2. CASE x[2] = jar[d]
        BY <2>2, <3>1, <3>2
      <3>3. CASE x[2] # jar[d]
        <4>1. y[2] # jar[d]
          BY <2>2, <3>1, <3>3
        <4>2. ballots[x] = ballots[y]
          BY <2>1, <2>2, <3>3, <4>1 DEF OneVoter
        <4> QED BY <2>1, <4>2 DEF BallotKnows
      <3> QED BY <3>2, <3>3
    <2>4. \A x, y \in BallotsOf(d) : x[1] = y[1] => x = y
      BY <2>1, <2>3 DEF BallotKnows
    <2> QED BY <2>2, <2>4
  <1> QED BY <1>1, Invariance, PTL
===============================================================================
