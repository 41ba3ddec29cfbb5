------------------------------ MODULE VideoDetail ------------------------------
(***************************************************************************)
(* One video looked at: in the sheet over the library                      *)
(* (library/components/video-detail-dialog.tsx, library/page.tsx) or on    *)
(* its own page (library/[id]/page.tsx).  Both ask for the video again     *)
(* every three seconds while a job they show is active.  The sheet stays   *)
(* mounted: it keeps its state, and goes on asking, when it is closed or   *)
(* shows another video.  Of the video, whether jobs are active is kept;    *)
(* what else the mutations change, and the draft of a title, is left out.  *)
(***************************************************************************)
EXTENDS FiniteSets

CONSTANTS
  Videos,
  None,  \* no video
  Slots  \* bound: mutations open at once

VARIABLES
  db,    \* the server: video -> whether jobs are active, whether it is gone
  seen,  \* the query cache: video -> its jobs as last read
  ui,    \* the React state; where is the sheet or the page
  net    \* slot -> the mutation in it; video -> the request for its detail

vars == <<db, seen, ui, net>>

Idle == [kind |-> "idle"]
Request == [kind |-> "fetch", read |-> "nothing"]
Jobs == {"active", "ended"}

Init ==
  /\ db \in [Videos -> [jobs: Jobs, gone: {FALSE}]]
  /\ seen = [v \in Videos |-> "nothing"]
  /\ \/ /\ ui = [where |-> "sheet", video |-> None, open |-> FALSE]
        /\ net = [x \in Slots \cup Videos |-> Idle]
     \/ \E v \in Videos :
          /\ ui = [where |-> "page", video |-> v, open |-> TRUE]
          /\ net = [x \in Slots \cup Videos |-> IF x = v THEN Request ELSE Idle]

----------------------------------------------------------------------------
(* The query of the video shown *)

\* Mutant: the sheet polls while it is open only.
hasActiveJobsWhenOpen == ui.open /\ ui.video # None /\ seen[ui.video] = "active"

hasActiveJobs == ui.video # None /\ seen[ui.video] = "active"

\* refetchInterval: the sheet polls for the video it showed last, open or not.
Poll ==
  /\ hasActiveJobs /\ net[ui.video] = Idle
  /\ net' = [net EXCEPT ![ui.video] = Request]
  /\ UNCHANGED <<db, seen, ui>>

\* A video that is gone is answered with an error: the data stay as they are.
Fetched(v) ==
  /\ net[v] = Request /\ ~db[v].gone
  /\ net' = [net EXCEPT ![v].read = db[v].jobs]
  /\ UNCHANGED <<db, seen, ui>>

Arrives(v) ==
  /\ net[v] # Idle /\ net[v].read # "nothing"
  /\ seen' = [seen EXCEPT ![v] = net[v].read]
  /\ net' = [net EXCEPT ![v] = Idle]
  /\ UNCHANGED <<db, ui>>

FetchFails(v) ==
  /\ net[v] # Idle
  /\ net' = [net EXCEPT ![v] = Idle]
  /\ UNCHANGED <<db, seen, ui>>

----------------------------------------------------------------------------
(* The handlers *)

OnScreen(next) == ui' = next /\ UNCHANGED <<db, seen, net>>

Open(kinds) == {s \in Slots : net[s].kind \in kinds}
isPending(kinds) == Open(kinds) # {}

mutateAsync(s, kind) ==
  /\ net[s] = Idle
  /\ net' = [net EXCEPT ![s] = [kind |-> kind, id |-> ui.video, done |-> FALSE]]
  /\ UNCHANGED <<db, seen, ui>>

\* onRowClick and View Details of the library: the video is asked for when it is
\* shown, unless its data are fresh.
setDetailVideoId(v) ==
  /\ ui' = [ui EXCEPT !.video = v, !.open = TRUE]
  /\ \/ net' = [net EXCEPT ![v] = IF @ = Idle THEN Request ELSE @]
     \/ seen[v] # "nothing" /\ UNCHANGED net
  /\ UNCHANGED <<db, seen>>

handleTitleSave(s) == mutateAsync(s, "update")
handleEdit(s) == mutateAsync(s, "update")

\* The switch shares the sheet's update mutation but sends its own field only.
handleToggleDownload(s) == mutateAsync(s, "download")
handleDelete(s) == mutateAsync(s, "delete")
handleRetranscode(s) == mutateAsync(s, "retranscode")

\* Of the page: the same calls without asking first.
pageDelete(s) == mutateAsync(s, "delete")
pageRetranscode(s) == mutateAsync(s, "retranscode")

----------------------------------------------------------------------------
(* What the sheet and the page let the user do *)

\* The Save button waits for an update under way, the Enter key does not.
TitleField(s) ==
  \E key \in {"Enter", "Save"} :
    (key = "Save" => ~isPending({"update", "download"})) /\ handleTitleSave(s)

DownloadSwitch(s) == ~isPending({"update", "download"}) /\ handleToggleDownload(s)

BottomActions(s) ==
  \/ ~isPending({"delete"}) /\ handleDelete(s)
  \/ ~isPending({"retranscode"}) /\ ~hasActiveJobs /\ handleRetranscode(s)

VideoDetailDialog(s) ==
  \/ seen[ui.video] # "nothing" /\
       (TitleField(s) \/ DownloadSwitch(s) \/ BottomActions(s))
  \/ OnScreen([ui EXCEPT !.open = FALSE])

EditDialog(s) == ~isPending({"update"}) /\ handleEdit(s)

\* Here the jobs that are active do not keep the button from being pressed.
Toolbar(s) ==
  \/ EditDialog(s)
  \/ ~isPending({"retranscode"}) /\ pageRetranscode(s)
  \/ ~isPending({"delete"}) /\ pageDelete(s)

----------------------------------------------------------------------------
(* Answers *)

ServerDoes(s) ==
  /\ net[s] # Idle /\ ~net[s].done /\ ~db[net[s].id].gone
  /\ db' = [db EXCEPT ![net[s].id] =
              [jobs |-> IF net[s].kind = "retranscode" THEN "active" ELSE @.jobs,
               gone |-> net[s].kind = "delete"]]
  /\ net' = [net EXCEPT ![s].done = TRUE]
  /\ UNCHANGED <<seen, ui>>

\* A success asks again for the video shown, dropping the request under way unless
\* that is the first: an update or a delete whichever it is about, the others if
\* they are about this one.  A delete closes the sheet, whichever video it shows.
Succeeds(s) ==
  LET kind == net[s].kind
      refetch == ui.video # None /\
                   (kind \in {"update", "download", "delete"} \/ net[s].id = ui.video) IN
  /\ net[s] # Idle /\ net[s].done
  /\ ui' = [ui EXCEPT !.open = @ /\ kind # "delete"]
  /\ net' = [x \in Slots \cup Videos |->
               IF x = s THEN Idle
               ELSE IF refetch /\ x = ui.video /\ (seen[x] # "nothing" \/ net[x] = Idle)
                    THEN Request ELSE net[x]]
  /\ UNCHANGED <<db, seen>>

Fails(s) ==
  /\ net[s] # Idle
  /\ net' = [net EXCEPT ![s] = Idle]
  /\ UNCHANGED <<db, seen, ui>>

\* The workers finish with the jobs of a video.
JobsEnd(v) ==
  /\ db[v].jobs = "active"
  /\ db' = [db EXCEPT ![v].jobs = "ended"]
  /\ UNCHANGED <<seen, ui, net>>

Next ==
  \/ Poll
  \/ \E v \in Videos :
       \/ ui.where = "sheet" /\ ~ui.open /\ setDetailVideoId(v)
       \/ Fetched(v) \/ Arrives(v) \/ FetchFails(v) \/ JobsEnd(v)
  \/ \E s \in Slots :
       \/ ui.where = "sheet" /\ ui.open /\ VideoDetailDialog(s)
       \/ ui.where = "page" /\ ui.open /\ seen[ui.video] # "nothing" /\ Toolbar(s)
       \/ ServerDoes(s) \/ Succeeds(s) \/ Fails(s)

\* The interval's timer and the requests get on.
Fairness == WF_vars(Poll) /\ \A v \in Videos : WF_vars(Fetched(v) \/ Arrives(v))

Spec == Init /\ [][Next]_vars /\ Fairness

----------------------------------------------------------------------------
(* Properties *)

\* The variables have the values they may have.
TypeOK ==
  /\ db \in [Videos -> [jobs: Jobs, gone: BOOLEAN]]
  /\ seen \in [Videos -> Jobs \cup {"nothing"}]
  /\ ui \in [where: {"sheet", "page"}, video: Videos \cup {None}, open: BOOLEAN]
  /\ \A v \in Videos : net[v] \in {Idle} \cup [kind: {"fetch"}, read: Jobs \cup {"nothing"}]
  /\ \A s \in Slots : net[s] \in {Idle} \cup
       [kind: {"update", "download", "delete", "retranscode"},
        id: Videos, done: BOOLEAN]

\* When the jobs of the video shown have ended for good, the sheet or page stops
\* showing them as active: polling does not stop too soon, whatever else is open
\* (requests that fail, and those a later success drops, aside).
JobsEndShown ==
  \A v \in Videos :
    /\ <>[](ui.video = v /\ db[v].jobs = "ended" /\ ~db[v].gone)
    /\ <>[][\A s \in Slots : ~Succeeds(s)]_vars
    /\ <>[][~FetchFails(v)]_vars
    => <>[](seen[v] # "active")

=============================================================================
