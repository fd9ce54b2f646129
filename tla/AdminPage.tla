------------------------------ MODULE AdminPage ------------------------------
(***************************************************************************)
(* The organiser's page (apps/web/app/admin): a payload that is typed, or  *)
(* filled from a draft, is previewed and then published.  Every request is *)
(* two actions, its sending and its answer, between which the page goes on *)
(* taking the clicks and keys that are not disabled.  What the server does *)
(* with a payload is in Addresses and Lineup; here an answer is a success  *)
(* or a failure.  Messages, issues and warnings are left out.              *)
(***************************************************************************)
EXTENDS LineupDraft

CONSTANTS
  Slug,                  \* addresses of tournaments that may be open
  Typed,                 \* payloads typed by hand
  Garbled,               \* a text that does not parse
  Replies,               \* the reader's replies: [ok, rows]
  DraftNames,            \* names typed into the draft, of which Null is one that is cleared
  StartsLocal,           \* starts, likewise
  CellEdits,             \* edits of a cell: [cell, value]
  MaxRows,               \* bound on the rows a draft is ever given
  MaxLoads               \* bound on the lists of tournaments on their way

ASSUME StartsAreTimes == StartsLocal \subseteq Int \cup {Null}

VARIABLE page

NoRequest == [payload |-> Null, mode |-> "publish", slug |-> Null, shown |-> Null]

\* late and typed are history: whether a key was typed during the last preview, and
\* whether the payload is what was typed rather than the draft's.
FreshPage ==
  [signedIn |-> FALSE, mode |-> "publish", target |-> Null, open |-> {},
   payload |-> Null, draft |-> Null, preview |-> Null, busy |-> "none",
   request |-> NoRequest, uploading |-> FALSE, loads |-> 0,
   late |-> FALSE, typed |-> FALSE]

AdminInit == page = FreshPage

\* The controls that are disabled while a request of the page itself is on its way.
Enabled == page.signedIn /\ page.busy = "none"

\* A request as it is sent, with the preview on display if that is what it confirms.
Asked(p, shown) ==
  [payload |-> p.payload, mode |-> p.mode, slug |-> p.target, shown |-> shown]

-------------------------------------------------------------------------------
SignIn ==
  /\ ~page.signedIn /\ page.busy = "none"
  /\ page' = [page EXCEPT !.busy = "signin"]

SignInAnswered ==
  /\ page.busy = "signin"
  /\ \E ok \in BOOLEAN : page' = [page EXCEPT !.signedIn = ok, !.busy = "none"]

\* Leaving the page discards all of it.
Leave == page # FreshPage /\ page' = FreshPage

-------------------------------------------------------------------------------
(***************************************************************************)
(* The payload and the draft.                                              *)
(***************************************************************************)

\* The text area is never disabled.
EditPayload_KeepPreview(text) ==
  /\ page.signedIn
  /\ text # page.payload
  /\ page' = [page EXCEPT !.payload = text,
                          !.typed = TRUE, !.late = @ \/ page.busy = "preview"]

EditPayload(text) ==
  /\ page.signedIn
  /\ text # page.payload
  /\ page' = [page EXCEPT !.payload = text, !.preview = Null,
                          !.typed = TRUE, !.late = @ \/ page.busy = "preview"]

\* choose: an image of a right type and size is sent; any other changes nothing.
ChooseImage ==
  /\ Enabled /\ ~page.uploading
  /\ page' = [page EXCEPT !.uploading = TRUE]

acceptExtraction_PayloadKept(p, rows) ==
  [p EXCEPT !.draft = createLineupDraft(normalizeExtraction(rows)),
            !.preview = Null, !.typed = FALSE]

acceptExtraction(p, rows) ==
  [p EXCEPT !.draft = createLineupDraft(normalizeExtraction(rows)), !.payload = Null,
            !.preview = Null, !.typed = FALSE]

\* extractLineup answers, whatever else the page is doing: a failure of any of its checks
\* or of the reader leaves the draft as it was.
ImageAnswered ==
  /\ page.uploading
  /\ \E reply \in Replies :
       LET read == IF Readable(reply) THEN acceptExtraction(page, reply.rows) ELSE page
       IN  page' = [read EXCEPT !.uploading = FALSE]

editDraft(p, next) ==
  [p EXCEPT !.draft = next, !.preview = Null, !.typed = FALSE,
            !.payload = IF isLineupDraftComplete(next) THEN toLineupPayload(next) ELSE Null]

EditFields ==
  /\ Enabled /\ page.draft # Null
  /\ LET d == page.draft IN
     \/ \E name \in DraftNames :
          name # d.name /\ page' = editDraft(page, [d EXCEPT !.name = name])
     \/ \E local \in StartsLocal :
          local # d.startsAtLocal /\ page' = editDraft(page, [d EXCEPT !.startsAtLocal = local])

EditTable ==
  /\ Enabled /\ page.draft # Null
  /\ LET d == page.draft IN
     \/ \E s \in SourceIndexes(d), e \in CellEdits :
          page' = editDraft(page, editCell(d, s, e.cell, e.value))
     \/ nextIndex(d) < MaxRows /\ page' = editDraft(page, addRow(d))
     \/ \E s \in SourceIndexes(d) : page' = editDraft(page, removeRow(d, s))

-------------------------------------------------------------------------------
(***************************************************************************)
(* What is done with it: a new tournament, or the replacement of one.      *)
(***************************************************************************)
ChooseMode(mode) ==
  /\ Enabled /\ mode # page.mode
  /\ mode = "replace" => page.loads < MaxLoads
  /\ page' = [page EXCEPT !.mode = mode, !.preview = Null,
                          !.loads = IF mode = "replace" THEN @ + 1 ELSE @]

\* loadOpenTournaments: a failure changes nothing.
OpenTournamentsAnswered ==
  /\ page.loads > 0
  /\ \/ page' = [page EXCEPT !.loads = @ - 1]
     \/ \E tournaments \in SUBSET Slug :
          page' = [page EXCEPT !.loads = @ - 1, !.open = tournaments,
                     !.target = IF @ \in tournaments THEN @ ELSE Null]

ChooseTarget(slug) ==
  /\ Enabled /\ page.mode = "replace" /\ page.open # {}
  /\ slug \in page.open \cup {Null} /\ slug # page.target
  /\ page' = [page EXCEPT !.target = slug, !.preview = Null]

-------------------------------------------------------------------------------
RunPreview ==
  /\ Enabled
  /\ page.payload \notin {Null, Garbled}
  /\ page.mode = "replace" => page.target # Null
  /\ page' = [page EXCEPT !.busy = "preview", !.late = FALSE,
                          !.request = Asked(page, Null)]

PreviewAnswered ==
  /\ page.busy = "preview"
  /\ \E displayed \in {Null, [payload |-> page.request.payload, mode |-> page.request.mode,
                              slug |-> page.request.slug]} :
       page' = [page EXCEPT !.preview = displayed, !.busy = "none", !.request = NoRequest]

\* The button exists while a preview does.
Publish ==
  /\ Enabled /\ page.preview # Null
  /\ page.payload \notin {Null, Garbled}
  /\ page' = [page EXCEPT !.busy = "publish",
                          !.request = Asked(page, page.preview)]

\* The mode is still that of the request; a replacement reads the open tournaments again.
PublishAnswered ==
  /\ page.busy = "publish"
  /\ \/ page' = [page EXCEPT !.busy = "none", !.request = NoRequest]
     \/ LET done == [page EXCEPT !.busy = "none", !.request = NoRequest, !.preview = Null,
                                 !.payload = Null, !.draft = Null, !.typed = FALSE]
        IN  \/ page.mode = "publish" /\ page' = done
            \/ /\ page.mode = "replace" /\ page.loads < MaxLoads
               /\ page' = [done EXCEPT !.target = Null, !.loads = @ + 1]

SyncRankings == Enabled /\ page' = [page EXCEPT !.busy = "sync"]
SyncAnswered == page.busy = "sync" /\ page' = [page EXCEPT !.busy = "none"]

-------------------------------------------------------------------------------
AdminNext ==
  \/ SignIn \/ SignInAnswered \/ Leave
  \/ \E text \in Typed \cup {Garbled, Null} : EditPayload(text)
  \/ ChooseImage \/ ImageAnswered \/ EditFields \/ EditTable
  \/ \E mode \in {"publish", "replace"} : ChooseMode(mode)
  \/ OpenTournamentsAnswered
  \/ \E slug \in Slug \cup {Null} : ChooseTarget(slug)
  \/ RunPreview \/ PreviewAnswered \/ Publish \/ PublishAnswered
  \/ SyncRankings \/ SyncAnswered

AdminSpec == AdminInit /\ [][AdminNext]_page

-------------------------------------------------------------------------------
(***************************************************************************)
(* Properties.                                                             *)
(***************************************************************************)
Publishing == page.busy = "publish"
AsShown == Publishing => page.request.payload = page.request.shown.payload

(***************************************************************************)
(* What is published is what the organiser confirmed (FR-002, FR-111): the *)
(* payload, the mode and the tournament to replace are those of the        *)
(* preview on display, whatever was edited, chosen or answered since it    *)
(* was asked for.  Two cases apart: a key typed into the payload while the *)
(* preview was on its way (NothingUnpreviewed), and a tournament that is   *)
(* no longer open, for which no address is sent.                           *)
(***************************************************************************)
ConfirmedWasPreviewed ==
  Publishing =>
    /\ page.late \/ AsShown
    /\ page.request.mode = page.request.shown.mode
    /\ page.mode = "replace" => page.request.slug \in {page.request.shown.slug, Null}

\* No payload is published that was not previewed: "any edit to the payload retracts" the
\* preview, which makes "paste-and-publish ... structurally impossible" (page.tsx, header).
NothingUnpreviewed == AsShown

(***************************************************************************)
(* The draft is no second source of truth (page.tsx, at the draft): unless *)
(* it has been typed over, the payload is the whole draft, row by row as   *)
(* it is displayed, or nothing while a cell is unknown, and nothing with   *)
(* no draft.  Its start reads in Lisbon as it was typed, or, where the     *)
(* clocks skip that time, an hour later.                                   *)
(***************************************************************************)
Cells(row) == {row.names[1], row.names[2], row.points[1], row.points[2], row.totalPoints, row.club}
Known(d) == /\ Null \notin {d.name, d.startsAtLocal} /\ d.rows # <<>>
            /\ \A i \in DOMAIN d.rows : Null \notin Cells(d.rows[i])

Exists(local) == \E i \in {local, local - Hour} : formatStartsAt(i) = local

DraftIsPayload ==
  ~page.typed =>
    /\ page.payload # Null <=> page.draft # Null /\ Known(page.draft)
    /\ page.payload # Null =>
         LET d == page.draft
             p == page.payload
         IN  /\ p.name = d.name /\ DOMAIN p.pairs = DOMAIN d.rows
             /\ \A i \in DOMAIN d.rows, k \in {1, 2} :
                  /\ p.pairs[i].players[k] = [name |-> d.rows[i].names[k], points |-> d.rows[i].points[k]]
                  /\ p.pairs[i].totalPoints = d.rows[i].totalPoints
             /\ formatStartsAt(p.startsAt) =
                  IF Exists(d.startsAtLocal) THEN d.startsAtLocal ELSE d.startsAtLocal + Hour
===============================================================================
