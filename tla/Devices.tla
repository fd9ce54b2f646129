-------------------------------- MODULE Devices --------------------------------
(***************************************************************************)
(* Who a device is when it votes: the form of each group on a page         *)
(* (apps/web/components/BallotForm.tsx), the one route that mints a voter   *)
(* (app/api/v1/groups/[groupId]/ballots/route.ts) and the cookie it sets    *)
(* (src/server/voter-cookie.ts).                                           *)
(*                                                                         *)
(* A page has a form per group and each form posts on its own; the tabs of *)
(* a browser share its cookie.  A post carries the cookie the browser has  *)
(* when it is sent, and the browser keeps the one of the answer when it    *)
(* arrives.  The ballot itself is taken from module BallotBox: here it is  *)
(* checked, inserted and counted, of one tournament that is not replaced.  *)
(***************************************************************************)
EXTENDS Integers, FiniteSets

CONSTANTS
  Device,                \* browsers
  Tab,                   \* pages of the tournament, open in one of them
  DeviceOf,              \* the browser of each tab
  Group,                 \* the groups of the tournament
  Post,                  \* submissions
  Voter,                 \* ids a voter may be given
  NoVoter,               \* null
  Forgotten              \* signed ids whose row is no longer there

ASSUME DevicesConstants ==
  /\ Tab # {} /\ Group # {}
  /\ DeviceOf \in [Tab -> Device]
  /\ NoVoter \notin Voter \cup Forgotten
  /\ Voter \cap Forgotten = {}

VARIABLES
  open,                  \* the voting window is open
  voters,                \* ids of the rows of voters
  ballots,               \* the post of each ballot, by group and voter
  posts,                 \* each submission
  jar,                   \* the voter cookie of each browser
  page,                  \* what each tab was last rendered with
  forms,                 \* the forms of each tab: their status, or the post under way
  refreshing,            \* tabs that have called router.refresh
  split                  \* history: browsers that may have become two voters

tables == <<voters, ballots>>
browser == <<jar, page, forms, refreshing>>
vars == <<open, tables, posts, browser, split>>

Errors == {"RATE_LIMITED", "VOTING_CLOSED", "ALREADY_VOTED", "INTERNAL_ERROR"}
Answers == Errors \cup {"CREATED"}
Serving == {"sent", "mint", "check", "insert", "count"}

\* The status of a form that is not submitting; two of them are idle with an error shown.
Idle == {"idle", "refused", "failed"}

Unsent == [tab |-> CHOOSE t \in Tab : TRUE, group |-> CHOOSE g \in Group : TRUE,
           cookie |-> NoVoter, voter |-> NoVoter, pc |-> "unsent", awaited |-> FALSE]

Sender(p) == DeviceOf[posts[p].tab]
UnderWay(p) == posts[p].pc \in Serving \cup Answers
Minted(p) == posts[p].voter \notin {NoVoter, posts[p].cookie}

\* A post the server does not recognise the sender of.
Unrecognised(p) == posts[p].cookie \notin voters

Own(g, v) == <<g, v>> \in DOMAIN ballots
VotedGroups(v) == {g \in Group : Own(g, v)}

\* The form of a group is on the page unless its vote is, or voting is over.
HasForm(p, g) == g \notin p.voted /\ p.open

Serve(p, step) == posts' = [posts EXCEPT ![p].pc = step]

-------------------------------------------------------------------------------
Init ==
  /\ open = TRUE
  /\ voters = {}
  /\ ballots = [x \in {} |-> NoVoter]
  /\ posts = [p \in Post |-> Unsent]
  /\ jar \in [Device -> {NoVoter} \cup Forgotten]
  /\ \A d, e \in Device : d # e /\ jar[d] = jar[e] => jar[d] = NoVoter
  /\ page = [t \in Tab |-> [voted |-> {}, open |-> TRUE]]
  /\ forms = [t \in Tab |-> [g \in Group |-> "idle"]]
  /\ refreshing = {}
  /\ split = {}

-------------------------------------------------------------------------------
(***************************************************************************)
(* The form: submit.                                                       *)
(***************************************************************************)
Submit(t, g, p) ==
  /\ posts[p].pc = "unsent"
  /\ HasForm(page[t], g) /\ forms[t][g] \in Idle
  /\ forms' = [forms EXCEPT ![t][g] = p]
  /\ posts' = [posts EXCEPT ![p] =
       [tab |-> t, group |-> g, cookie |-> jar[DeviceOf[t]], voter |-> NoVoter,
        pc |-> "sent", awaited |-> TRUE]]
  /\ split' = split \cup
       {d \in {DeviceOf[t]} :
          \E q \in Post : UnderWay(q) /\ Sender(q) = d /\ Unrecognised(q)}
  /\ UNCHANGED <<open, tables, jar, page, refreshing>>

Shown(p, status) ==
  LET t == posts[p].tab  g == posts[p].group IN
  forms' = IF forms[t][g] = p THEN [forms EXCEPT ![t][g] = status] ELSE forms

\* The answer arrives: the browser keeps its cookie, the form its outcome.
Deliver_NoRefresh(p) ==
  /\ posts[p].pc \in Answers /\ posts[p].awaited
  /\ Serve(p, "over")
  /\ IF posts[p].pc = "CREATED"
     THEN /\ Shown(p, "done")
          /\ jar' = [jar EXCEPT ![Sender(p)] = IF Minted(p) THEN posts[p].voter ELSE @]
     ELSE /\ Shown(p, IF posts[p].pc = "VOTING_CLOSED" THEN "refused" ELSE "failed")
          /\ UNCHANGED jar
  /\ UNCHANGED <<open, tables, page, refreshing, split>>

Deliver(p) ==
  /\ posts[p].pc \in Answers /\ posts[p].awaited
  /\ Serve(p, "over")
  /\ IF posts[p].pc = "CREATED"
     THEN /\ Shown(p, "done")
          /\ jar' = [jar EXCEPT ![Sender(p)] = IF Minted(p) THEN posts[p].voter ELSE @]
          /\ refreshing' = refreshing \cup {posts[p].tab}
     ELSE /\ Shown(p, IF posts[p].pc = "VOTING_CLOSED" THEN "refused" ELSE "failed")
          /\ UNCHANGED <<jar, refreshing>>
  /\ UNCHANGED <<open, tables, page, split>>

\* The connection is lost: the form fails, and the server may carry on.
Lose(p) ==
  /\ UnderWay(p) /\ posts[p].awaited
  /\ posts' = [posts EXCEPT ![p].awaited = FALSE]
  /\ Shown(p, "failed")
  /\ split' = split \cup {d \in {Sender(p)} : Unrecognised(p)}
  /\ UNCHANGED <<open, tables, jar, page, refreshing>>

\* The page as the server renders it for the browser's cookie.
Rendered(t) ==
  [voted |-> IF jar[DeviceOf[t]] \in voters THEN VotedGroups(jar[DeviceOf[t]]) ELSE {},
   open  |-> open]

\* router.refresh: forms that stay on the page keep their state.
Refresh(t) ==
  /\ t \in refreshing
  /\ refreshing' = refreshing \ {t}
  /\ page' = [page EXCEPT ![t] = Rendered(t)]
  /\ forms' = [forms EXCEPT ![t] =
       [g \in Group |-> IF HasForm(page[t], g) /\ HasForm(page'[t], g)
                        THEN forms[t][g] ELSE "idle"]]
  /\ UNCHANGED <<open, tables, posts, jar, split>>

\* The visitor loads the page again, having waited for his answers or given them up.
Reload(t) ==
  /\ \A p \in Post : UnderWay(p) /\ posts[p].tab = t => ~posts[p].awaited
  /\ refreshing' = refreshing \ {t}
  /\ page' = [page EXCEPT ![t] = Rendered(t)]
  /\ forms' = [forms EXCEPT ![t] = [g \in Group |-> "idle"]]
  /\ UNCHANGED <<open, tables, posts, jar, split>>

-------------------------------------------------------------------------------
(***************************************************************************)
(* The route: enforce, requireVoter, castBallot.                           *)
(***************************************************************************)
Enforce(p) ==
  /\ posts[p].pc = "sent"
  /\ Serve(p, "RATE_LIMITED")
  /\ UNCHANGED <<open, tables, browser, split>>

\* recogniseVoter: the cookie verifies and its row is there.
Recognise_Unchecked(p) ==
  /\ posts[p].pc = "sent"
  /\ posts' = [posts EXCEPT ![p].pc = "mint"]
  /\ UNCHANGED <<open, tables, browser, split>>

Recognise(p) ==
  /\ posts[p].pc = "sent"
  /\ IF posts[p].cookie \in voters
     THEN posts' = [posts EXCEPT ![p].pc = "check", ![p].voter = posts[p].cookie]
     ELSE Serve(p, "mint")
  /\ UNCHANGED <<open, tables, browser, split>>

\* voters.create: the database picks an id that no row has.
Mint_Reused(p) ==
  /\ posts[p].pc = "mint"
  /\ \E v \in Voter :
       /\ voters' = voters \cup {v}
       /\ posts' = [posts EXCEPT ![p].pc = "check", ![p].voter = v]
  /\ UNCHANGED <<open, ballots, browser, split>>

Mint(p) ==
  /\ posts[p].pc = "mint"
  /\ \E v \in Voter \ voters :
       /\ voters' = voters \cup {v}
       /\ posts' = [posts EXCEPT ![p].pc = "check", ![p].voter = v]
  /\ UNCHANGED <<open, ballots, browser, split>>

CheckWindow(p) ==
  /\ posts[p].pc = "check"
  /\ Serve(p, IF open THEN "insert" ELSE "VOTING_CLOSED")
  /\ UNCHANGED <<open, tables, browser, split>>

Insert(p) ==
  /\ posts[p].pc = "insert"
  /\ LET x == <<posts[p].group, posts[p].voter>> IN
     IF x \in DOMAIN ballots
     THEN Serve(p, "ALREADY_VOTED") /\ UNCHANGED ballots
     ELSE /\ Serve(p, "count")
          /\ ballots' = [y \in DOMAIN ballots \cup {x} |-> IF y = x THEN p ELSE ballots[y]]
  /\ UNCHANGED <<open, voters, browser, split>>

Count(p) ==
  /\ posts[p].pc = "count"
  /\ Serve(p, "CREATED")
  /\ UNCHANGED <<open, tables, browser, split>>

\* Any query may fail; an error carries no cookie, whatever has been stored.
FailPost(p) ==
  /\ posts[p].pc \in Serving
  /\ Serve(p, "INTERNAL_ERROR")
  /\ split' = split \cup {d \in {Sender(p)} : posts[p].pc = "count" /\ Minted(p)}
  /\ UNCHANGED <<open, tables, browser>>

CloseWindow ==
  /\ open
  /\ open' = FALSE
  /\ UNCHANGED <<tables, posts, browser, split>>

-------------------------------------------------------------------------------
Route(p) ==
  \/ Enforce(p) \/ Recognise(p) \/ Mint(p) \/ CheckWindow(p) \/ Insert(p) \/ Count(p)
  \/ FailPost(p)

Next ==
  \/ \E t \in Tab, g \in Group, p \in Post : Submit(t, g, p)
  \/ \E p \in Post : Route(p) \/ Deliver(p) \/ Lose(p)
  \/ \E t \in Tab : Refresh(t) \/ Reload(t)
  \/ CloseWindow

Spec == Init /\ [][Next]_vars

(***************************************************************************)
(* The server runs every post to an answer, the browser takes in what      *)
(* arrives and renders what it asked for.  Nobody has to reload, to vote   *)
(* or to try again, and nothing has to fail.                               *)
(***************************************************************************)
Fairness ==
  /\ \A p \in Post : WF_vars(Route(p)) /\ WF_vars(Deliver(p))
  /\ \A t \in Tab : WF_vars(Refresh(t))

FairSpec == Spec /\ Fairness

-------------------------------------------------------------------------------
(***************************************************************************)
(* Properties.                                                             *)
(***************************************************************************)

BallotsOf(d) == {x \in DOMAIN ballots : Sender(ballots[x]) = d}

(***************************************************************************)
(* A device is one voter, once per group (FR-012, FR-013): its ballots are *)
(* all under the cookie it has, except one whose answer is on its way.  It *)
(* is stated of devices that never sent a post while one of theirs the     *)
(* server did not recognise was under way, nor lost the answer to one.     *)
(***************************************************************************)
DeviceIsOneVoter ==
  \A d \in Device \ split :
    /\ \A x \in BallotsOf(d) : x[2] = jar[d] \/ UnderWay(ballots[x])
    /\ \A x, y \in BallotsOf(d) : x[1] = y[1] => x = y

\* No identity is handed to two devices: not by a cookie, and not by a ballot.
VoterIsOneDevice ==
  /\ \A d, e \in Device : d # e /\ jar[d] = jar[e] => jar[d] = NoVoter
  /\ \A x, y \in DOMAIN ballots :
       x[2] = y[2] => Sender(ballots[x]) = Sender(ballots[y])

\* A vote the form reports as recorded comes to be shown on its page (FR-014, FR-020).
RecordedIsShown ==
  \A t \in Tab, g \in Group :
    forms[t][g] = "done" ~> g \in page[t].voted \/ DeviceOf[t] \in split

\* FR-014, of every device: whatever it was told was recorded is its own.
OwnBallotsShown ==
  \A x \in DOMAIN ballots :
    posts[ballots[x]].pc = "over" /\ posts[ballots[x]].awaited
      => x[2] = jar[Sender(ballots[x])]

===============================================================================
