------------------------------ MODULE VideoShown ------------------------------
(***************************************************************************)
(* A video and its transcode jobs as the user sees them: on the sheet over *)
(* the library (library/components/video-detail-dialog.tsx), on the page   *)
(* of the video (library/[id]/page.tsx) and, in public, on the watch page  *)
(* (watch/[slug]/page.tsx), while the workers of the server write the rows *)
(* that are read.  Each screen is what it renders of the data last read.   *)
(* Last, what the embedded player (internal/handler/embed.go) asks for.    *)
(***************************************************************************)
EXTENDS Integers

CONSTANTS
  JobIds,
  Percents,     \* how far ffmpeg says it is with a resolution
  Renditions,   \* resolutions of the preset
  MaxAttempts   \* of a job

VARIABLES
  db,    \* the rows: the video's status and playlist; per job also what its worker does
  seen,  \* the data last read, or Nothing
  ui,    \* the screen, its tab, and whether the last read failed
  net,   \* the answer under way
  told   \* history: job -> the resolutions done when progress was last reported

vars == <<db, seen, ui, net, told>>

Nothing == [read |-> FALSE]
JobStatus == {"absent", "pending", "processing", "completed", "failed"}

\* Progress is counted in parts of Renditions to a percent; at is the resolution
\* the worker is at, 0 when none has the job.
NewJob == [status |-> "absent", progress |-> 0, attempts |-> 0,
           error |-> FALSE, ended |-> FALSE, at |-> 0]

Init ==
  /\ db = [status |-> "uploaded", playlist |-> FALSE, request |-> FALSE, finish |-> "no",
           jobs |-> [j \in JobIds |-> NewJob]]
  /\ seen = Nothing /\ net = Nothing
  /\ \E where \in {"sheet", "page", "watch"} :
       ui = [where |-> where, tab |-> "overview", error |-> FALSE]
  /\ told = [j \in JobIds |-> 0]

----------------------------------------------------------------------------
(* The rows *)

Job(j) == db.jobs[j]
SetJob(j, row) == db' = [db EXCEPT !.jobs[j] = row] /\ UNCHANGED <<seen, ui, net>>

\* Upload and Retranscode put the jobs in first and set the status last.
Create(j) ==
  /\ Job(j).status = "absent"
  /\ db' = [db EXCEPT !.jobs[j].status = "pending", !.request = TRUE]
  /\ UNCHANGED <<seen, ui, net, told>>
SetProcessing ==
  /\ db.request
  /\ db' = [db EXCEPT !.status = "processing", !.request = FALSE]
  /\ UNCHANGED <<seen, ui, net, told>>

ClaimPending(j) ==
  /\ Job(j).status = "pending"
  /\ SetJob(j, [Job(j) EXCEPT !.status = "processing", !.attempts = @ + 1, !.at = 1])
  /\ told' = [told EXCEPT ![j] = 0]

\* What a callback writes: the resolutions done as a part of one, plus a part of the
\* percentage.
reported(done, percent) == done + percent

progressCb(j, percent) ==
  /\ Job(j).at \in 1..Renditions
  /\ SetJob(j, [Job(j) EXCEPT !.progress = reported(Job(j).at - 1, percent)])
  /\ told' = [told EXCEPT ![j] = Job(j).at - 1]

NextResolution(j) ==
  /\ Job(j).at \in 1..(Renditions - 1)
  /\ SetJob(j, [Job(j) EXCEPT !.at = @ + 1]) /\ UNCHANGED told

AllCompleteForVideo(jobs) ==
  /\ \E j \in JobIds : jobs[j].status # "absent"
  /\ \A j \in JobIds : jobs[j].status \in {"absent", "completed"}

\* The worker whose job was the last goes on to finish the video.
Complete(j) ==
  LET jobs == [db.jobs EXCEPT ![j] = [@ EXCEPT !.status = "completed", !.progress = 100 * Renditions,
                                               !.ended = TRUE, !.at = 0]] IN
  /\ Job(j).at = Renditions
  /\ db' = [db EXCEPT !.jobs = jobs,
                      !.finish = IF AllCompleteForVideo(jobs) THEN "status" ELSE @]
  /\ UNCHANGED <<seen, ui, net, told>>

\* Mutant of Fail: every failure gets an end.
FailAlwaysEnds(j) ==
  LET again == Job(j).attempts < MaxAttempts IN
  /\ Job(j).at # 0
  /\ SetJob(j, [Job(j) EXCEPT !.status = IF again THEN "pending" ELSE "failed",
                              !.error = TRUE, !.ended = TRUE, !.at = 0])
  /\ UNCHANGED told

\* An attempt that fails leaves its error, and the progress, in the row.
Fail(j) ==
  LET again == Job(j).attempts < MaxAttempts IN
  /\ Job(j).at # 0
  /\ SetJob(j, [Job(j) EXCEPT !.status = IF again THEN "pending" ELSE "failed",
                              !.error = TRUE, !.ended = ~again, !.at = 0])
  /\ UNCHANGED told

\* The process ends, or Complete or Fail cannot be written.
WorkerGone(j) ==
  /\ Job(j).at # 0
  /\ SetJob(j, [Job(j) EXCEPT !.at = 0]) /\ UNCHANGED told

\* The status is ready before there is a playlist, which may fail to be stored.
FinishVideo ==
  /\ \/ /\ db.finish = "status"
        /\ db' = [db EXCEPT !.status = "ready", !.finish = "playlist"]
     \/ /\ db.finish = "playlist"
        /\ \E stored \in BOOLEAN :
             db' = [db EXCEPT !.playlist = @ \/ stored, !.finish = "no"]
  /\ UNCHANGED <<seen, ui, net, told>>

----------------------------------------------------------------------------
(* Reading: Get selects the video and then its jobs, GetPublic the video only *)

Columns(j) == [status |-> Job(j).status, progress |-> Job(j).progress,
               attempts |-> Job(j).attempts, error |-> Job(j).error, ended |-> Job(j).ended]
AsVideo == [read |-> TRUE, status |-> db.status, playlist |-> db.playlist, jobs |-> Nothing]

\* An error is forgotten when the read is tried again, unless data are shown.
Tried == ui' = [ui EXCEPT !.error = @ /\ seen # Nothing]

GetVideo ==
  /\ net = Nothing /\ ui.where # "watch" /\ net' = AsVideo /\ Tried
  /\ UNCHANGED <<db, seen, told>>
GetJobs ==
  /\ net # Nothing /\ net.jobs = Nothing /\ ui.where # "watch"
  /\ net' = [net EXCEPT !.jobs = [j \in JobIds |-> Columns(j)]]
  /\ UNCHANGED <<db, seen, ui, told>>
GetPublic ==
  /\ net = Nothing /\ ui.where = "watch" /\ db.status = "ready" /\ net' = AsVideo /\ Tried
  /\ UNCHANGED <<db, seen, told>>

Arrives ==
  /\ net # Nothing /\ (net.jobs = Nothing => ui.where = "watch")
  /\ seen' = net /\ net' = Nothing /\ ui' = [ui EXCEPT !.error = FALSE]
  /\ UNCHANGED <<db, told>>

\* The data read before stay.
ReadFails ==
  /\ net' = Nothing /\ ui' = [ui EXCEPT !.error = TRUE]
  /\ UNCHANGED <<db, seen, told>>

Tabs ==
  /\ ui.where = "sheet" /\ seen # Nothing
  /\ \E tab \in {"overview", "caption", "chapters"} : ui' = [ui EXCEPT !.tab = tab]
  /\ UNCHANGED <<db, seen, net, told>>

Next ==
  \/ \E j \in JobIds :
       \/ Create(j) \/ ClaimPending(j) \/ NextResolution(j) \/ Complete(j) \/ Fail(j) \/ WorkerGone(j)
       \/ \E percent \in Percents : progressCb(j, percent)
  \/ SetProcessing \/ FinishVideo
  \/ GetVideo \/ GetJobs \/ GetPublic \/ Arrives \/ ReadFails \/ Tabs

Spec == Init /\ [][Next]_vars

----------------------------------------------------------------------------
(* The screens *)

Active == {"pending", "processing"}
JOB_BADGE ==
  [pending |-> "Pending", processing |-> "Processing", completed |-> "Completed", failed |-> "Failed"]

\* A badge per status, a bar for an active job, an error for a failed one.
TranscodeJobs ==
  {[job |-> j, badge |-> JOB_BADGE[seen.jobs[j].status],
    error |-> seen.jobs[j].status = "failed" /\ seen.jobs[j].error,
    bar |-> IF seen.jobs[j].status \in Active THEN seen.jobs[j].progress ELSE -1]
     : j \in {i \in JobIds : seen.jobs[i].status # "absent"}}

\* The page has the same list with times: when a job completed, if it did.
PageJobs == {[shown |-> entry, completedAt |-> seen.jobs[entry.job].ended] : entry \in TranscodeJobs}

\* Mutant of PlayerPreview: the status is enough.
PreviewWhenReady == ui.tab = "overview" /\ seen.status = "ready"

PlayerPreview == ui.tab = "overview" /\ seen.status = "ready" /\ seen.playlist

\* What the sheet, the page and the watch page show.  The sheet goes on loading when
\* nothing could be read, the watch page shows an error in the place of the video.
Sheet ==
  IF seen = Nothing THEN [is |-> "loading"]
  ELSE [is |-> "sheet", badge |-> seen.status, player |-> PlayerPreview,
        jobs |-> IF ui.tab = "overview" THEN TranscodeJobs ELSE {}]

\* The page's cards above the jobs: of the video's row the status.
Overview == [status |-> seen.status]
Page ==
  IF seen = Nothing THEN [is |-> IF ui.error THEN "Video Not Found" ELSE "loading"]
  ELSE [is |-> "page", overview |-> Overview, jobs |-> PageJobs]
WatchPage ==
  IF ui.error THEN [is |-> "Video Not Found"]
  ELSE IF seen = Nothing THEN [is |-> "loading"]
  ELSE [is |-> "watch", player |-> TRUE]

----------------------------------------------------------------------------
(* The embedded player *)

\* Where generateMasterPlaylist puts the playlist: under the video's id and a hash of it.
VideoOutputDir == <<"transcoded", "hash_id">>
masterPath == <<VideoOutputDir, "playlist.m3u8">>
Stored == IF db.playlist THEN {masterPath} ELSE {}

\* The page's URL of the playlist, and the file a request under it is answered with.
playlistURL == "master.m3u8"
Stream(filePath) == <<<<"transcoded", "id">>, filePath>>

----------------------------------------------------------------------------
(* Properties *)

Data == [read: {TRUE}, status: {"uploaded", "processing", "ready"}, playlist: BOOLEAN]

\* The variables have the values they may have; what a callback reports is within
\* what the column admits (CHECK progress BETWEEN 0 AND 100).
TypeOK ==
  /\ db.status \in {"uploaded", "processing", "ready"} /\ db.playlist \in BOOLEAN
  /\ db.request \in BOOLEAN /\ db.finish \in {"no", "status", "playlist"}
  /\ db.jobs \in [JobIds -> [status: JobStatus, progress: 0..(100 * Renditions),
                             attempts: 0..MaxAttempts, error: BOOLEAN, ended: BOOLEAN,
                             at: 0..Renditions]]
  /\ ui \in [where: {"sheet", "page", "watch"}, error: BOOLEAN,
             tab: {"overview", "caption", "chapters"}]
  /\ told \in [JobIds -> 0..Renditions]

\* An error, or an end, that is on the screen is of a job that is over for good: what
\* a failed attempt leaves in the row is not shown while the job is tried again.
FinalIsFinal ==
  /\ ui.where = "sheet" => \A entry \in IF Sheet.is = "sheet" THEN Sheet.jobs ELSE {} :
       entry.error => Job(entry.job).status = "failed"
  /\ ui.where = "page" => \A entry \in IF Page.is = "page" THEN Page.jobs ELSE {} :
       /\ entry.shown.error => Job(entry.shown.job).status = "failed"
       /\ entry.completedAt => Job(entry.shown.job).status \in {"completed", "failed"}

\* The player of the sheet has a playlist to play, although the status is ready before
\* there is one.  The watch page's may not have it yet, but a job of the video is done.
PreviewIsPlayable ==
  /\ ui.where = "sheet" /\ Sheet.is = "sheet" /\ Sheet.player => db.playlist
  /\ ui.where = "watch" /\ WatchPage.is = "watch" /\ WatchPage.player
       => \E j \in JobIds : Job(j).status = "completed"

\* A job that reported progress with its later resolutions has at least the part of
\* the earlier ones: docs/content/docs/transcoding.mdx, "Report progress (0-100%)".
ProgressIsOfTheWhole ==
  \A j \in JobIds : Job(j).status = "processing" => Job(j).progress >= 100 * told[j]

\* Once a video has its playlist the embedded player can stream it, as
\* docs/content/docs/api-reference.mdx says: "HLS stream serving for embedded player".
EmbedStreams == db.playlist => Stream(playlistURL) \in Stored

=============================================================================
