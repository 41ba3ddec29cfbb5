------------------------------ MODULE VideoCaptions ------------------------------
(***************************************************************************)
(* The captions and the thumbnails of a video in the sheet over the        *)
(* library (library/components/video-detail-dialog.tsx): the list of its   *)
(* subtitles, the file that is uploaded, the search whose results are      *)
(* attached, and the choice of a thumbnail.  The sheet stays mounted and   *)
(* goes on to other videos; the query cache keeps a list per video.        *)
(***************************************************************************)
EXTENDS FiniteSets

CONSTANTS
  Videos,
  Texts,  \* subtitles
  None,   \* no video
  Slots   \* bound: mutations open at once

VARIABLES
  db,    \* the server: video -> its subtitles
  seen,  \* the query cache: video -> the list as last read and its marks
  ui,    \* the React state; query, label: whether something is typed there
  net,   \* slot -> the mutation in it; video -> the request for its list
  told   \* history: subtitles each video ever had

vars == <<db, seen, ui, net, told>>

Idle == [kind |-> "idle"]
Request == [kind |-> "fetch", read |-> {}, step |-> "sent", old |-> FALSE]
Unread == [loaded |-> FALSE, subtitles |-> {}, stale |-> TRUE, old |-> FALSE]

Init ==
  /\ db \in [Videos -> SUBSET Texts]
  /\ \A v, w \in Videos : v # w => db[v] \cap db[w] = {}
  /\ seen = [v \in Videos |-> Unread]
  /\ ui = [video |-> None, open |-> FALSE, query |-> FALSE, searchEnabled |-> FALSE, label |-> FALSE]
  /\ net = [x \in Slots \cup Videos |-> Idle]
  /\ told = db

----------------------------------------------------------------------------
(* The list *)

\* A list that is shown again is asked for again if it is stale.
Show(v) ==
  /\ ui' = [ui EXCEPT !.video = v, !.open = TRUE]
  /\ net' = [net EXCEPT ![v] = IF seen[v].stale /\ @ = Idle THEN Request ELSE @]
  /\ UNCHANGED <<db, seen, told>>

Fetched(v) ==
  /\ net[v] # Idle /\ net[v].step = "sent"
  /\ net' = [net EXCEPT ![v] = [@ EXCEPT !.read = db[v], !.step = "done"]]
  /\ UNCHANGED <<db, seen, ui, told>>

Arrives(v) ==
  /\ net[v] # Idle /\ net[v].step = "done"
  /\ seen' = [seen EXCEPT ![v] = [loaded |-> TRUE, subtitles |-> net[v].read,
                                   stale |-> FALSE, old |-> net[v].old]]
  /\ net' = [net EXCEPT ![v] = Idle]
  /\ UNCHANGED <<db, ui, told>>

\* Mutant: until the list has come, the one before is shown.
listedMeanwhile == UNION {seen[v].subtitles : v \in Videos}
listed == seen[ui.video].subtitles

----------------------------------------------------------------------------
(* The handlers *)

isPending(kind) == \E s \in Slots : net[s].kind = kind

OnScreen(next) == ui' = next /\ UNCHANGED <<db, seen, net, told>>

mutateAsync(s, kind, what) ==
  /\ net[s] = Idle /\ ~isPending(kind)
  /\ net' = [net EXCEPT ![s] = [kind |-> kind, id |-> ui.video, what |-> what, step |-> "sent"]]
  /\ UNCHANGED <<db, seen, ui, told>>

handleSelectThumbnail(s) == mutateAsync(s, "select", None)
handleUploadThumbnail(s) == mutateAsync(s, "thumbnail", None)

\* The button of each mutation waits for that mutation.
AttachedSubtitles(s) == \E sub \in listed : mutateAsync(s, "remove", sub)
UploadSubtitle(s) ==
  \/ \E label \in BOOLEAN : OnScreen([ui EXCEPT !.label = label])
  \/ mutateAsync(s, "upload", None)

\* What is typed is searched for with Enter or the button.
SearchSubtitles ==
  \/ \E query \in BOOLEAN : OnScreen([ui EXCEPT !.query = query, !.searchEnabled = FALSE])
  \/ ui.query /\ OnScreen([ui EXCEPT !.searchEnabled = TRUE])
SearchResults(s) == ui.searchEnabled /\ ui.query /\ mutateAsync(s, "attach", None)

ThumbnailSelector(s) == handleUploadThumbnail(s) \/ handleSelectThumbnail(s)

CaptionTab(s) == AttachedSubtitles(s) \/ UploadSubtitle(s) \/ SearchSubtitles \/ SearchResults(s)

----------------------------------------------------------------------------
(* Answers *)

\* A subtitle that is uploaded or attached is a new one, of whatever name.
ServerDoes(s) ==
  /\ net[s] # Idle /\ net[s].step = "sent"
  /\ LET v == net[s].id IN
     CASE net[s].kind \in {"upload", "attach"} ->
            \E sub \in Texts \ UNION {told[w] : w \in Videos} :
              /\ db' = [db EXCEPT ![v] = @ \cup {sub}]
              /\ told' = [told EXCEPT ![v] = @ \cup {sub}]
       [] net[s].kind = "remove" ->
            db' = [db EXCEPT ![v] = @ \ {net[s].what}] /\ UNCHANGED told
       [] OTHER -> UNCHANGED <<db, told>>
  /\ net' = [net EXCEPT ![s].step = "done"]
  /\ UNCHANGED <<seen, ui>>

\* Mutant: the list of the video shown is invalidated.
Invalidated(s) == ui.video

InvalidatesOf(s) == net[s].id

\* What is under way for the list of v after a change of it: the list that is shown
\* is asked for again, dropping the request under way unless that is the first; one
\* that runs on may bring what was there before (old).
Refetch(v) ==
  IF v = ui.video /\ (seen[v].loaded \/ net[v] = Idle) THEN Request
  ELSE IF net[v] # Idle THEN [net[v] EXCEPT !.old = @ \/ net[v].step = "done"] ELSE Idle

\* The list of the video is stale; the label is emptied, whichever video it is typed
\* for by now.
Succeeds(s) ==
  LET v == InvalidatesOf(s)
      hits == net[s].kind \in {"upload", "attach", "remove"} IN
  /\ net[s] # Idle /\ net[s].step = "done"
  /\ seen' = IF hits THEN [seen EXCEPT ![v].stale = TRUE] ELSE seen
  /\ net' = [x \in Slots \cup Videos |->
               IF x = s THEN Idle ELSE IF hits /\ x = v THEN Refetch(v) ELSE net[x]]
  /\ ui' = IF net[s].kind = "upload" THEN [ui EXCEPT !.label = FALSE] ELSE ui
  /\ UNCHANGED <<db, told>>

\* The server refuses: an error is shown.
Fails(s) ==
  /\ net[s] # Idle /\ net[s].step = "sent"
  /\ net' = [net EXCEPT ![s] = Idle]
  /\ UNCHANGED <<db, seen, ui, told>>

Next ==
  \/ \E v \in Videos : (~ui.open /\ Show(v)) \/ Fetched(v) \/ Arrives(v)
  \/ ui.open /\ OnScreen([ui EXCEPT !.open = FALSE])
  \/ \E s \in Slots : ui.open /\ (ThumbnailSelector(s) \/ CaptionTab(s))
  \/ \E s \in Slots : ServerDoes(s) \/ Succeeds(s) \/ Fails(s)

Spec == Init /\ [][Next]_vars

----------------------------------------------------------------------------
(* Properties *)

TypeOK ==
  /\ db \in [Videos -> SUBSET Texts]
  /\ seen \in [Videos -> [loaded: BOOLEAN, subtitles: SUBSET Texts, stale: BOOLEAN, old: BOOLEAN]]
  /\ ui \in [video: Videos \cup {None}, open: BOOLEAN, query: BOOLEAN,
             searchEnabled: BOOLEAN, label: BOOLEAN]
  /\ \A v \in Videos : net[v] \in {Idle} \cup
       [kind: {"fetch"}, read: SUBSET Texts, step: {"sent", "done"}, old: BOOLEAN]
  /\ \A s \in Slots : net[s] \in {Idle} \cup
       [kind: {"select", "thumbnail", "remove", "upload", "attach"}, id: Videos,
        what: Texts \cup {None}, step: {"sent", "done"}]
  /\ told \in [Videos -> SUBSET Texts]

\* A subtitle is removed from the video it belongs to, also when the sheet has gone
\* on to a video whose list has not come yet.
RemovesItsOwn == \A s \in Slots : net[s].kind = "remove" => net[s].what \in told[net[s].id]

\* When nothing is open the list shown is the server's, also when the video was
\* changed while another was shown, and the answers came in any order; but for a list
\* that was read before a change and came after it, on a request that was not dropped.
ListIsShown ==
  ui.open /\ seen[ui.video].loaded /\ ~seen[ui.video].old /\ (\A x \in Slots \cup Videos : net[x] = Idle)
    => seen[ui.video].subtitles = db[ui.video]

=============================================================================
