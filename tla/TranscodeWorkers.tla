-------------------------- MODULE TranscodeWorkers --------------------------
(***************************************************************************)
(* The worker pool of internal/transcoder/worker.go: each goroutine claims *)
(* a job, runs processJob on it call by call, and claims the next one.     *)
(* Cancelling the pool's context (Stop) makes every database call fail and *)
(* kills ffmpeg; storage writes do not look at the context.  Probing, the  *)
(* progress column, metrics and the webhooks transcode.started and         *)
(* transcode.completed change nothing any other step reads; left out.      *)
(***************************************************************************)
EXTENDS Store

VARIABLES
  server,      \* "up", "stopping" (pool context cancelled) or "down" (no process)
  worker,      \* worker -> where it is in run/processJob, and its locals
  readyEvents, \* video -> how often video.ready was fired (history)
  failedEvents \* job -> how often transcode.failed was fired (history)

events == <<readyEvents, failedEvents>>
workerVars == <<worker, events>>

\* job: the claimed row; i: index into the preset's resolutions; mixed: another
\* ffmpeg wrote this rendition's directory meanwhile; snap: jobs GetByVideoID returned.
IdleWorker == [pc |-> "idle", job |-> 0, i |-> 0, mixed |-> FALSE, snap |-> {}]
ExitedWorker == [IdleWorker EXCEPT !.pc = "exited"]

\* processJob up to the call of Complete or Fail, and after Complete.
Holding == {"video", "preset", "reject", "encode", "encoding", "fail", "complete"}
Finishing == {"check", "ready", "list", "playlist", "master", "announce"}

WorkerInit ==
  /\ server = "up"
  /\ worker = [w \in Workers |-> IdleWorker]
  /\ readyEvents = [v \in Videos |-> 0]
  /\ failedEvents = [j \in JobIds |-> 0]

WorkerRow == [pc : {"idle", "exited", "notify"} \cup Holding \cup Finishing,
              job : JobIds \cup {0}, i : Nat, mixed : BOOLEAN, snap : SUBSET JobIds]

WorkerTypeOK ==
  /\ server \in {"up", "stopping", "down"}
  /\ worker \in [Workers -> WorkerRow]
  /\ readyEvents \in [Videos -> Nat]
  /\ failedEvents \in [JobIds -> Nat]

----------------------------------------------------------------------------
At(w, pc) == worker[w].pc = pc
Goto(w, pc) == worker' = [worker EXCEPT ![w].pc = pc]
BackToIdle(w) == worker' = [worker EXCEPT ![w] = IdleWorker]

VideoOf(w) == jobs[worker[w].job].video
PresetOf(w) == jobs[worker[w].job].preset
HeightAt(w) == Resolutions[PresetOf(w)][worker[w].i]

\* Outcomes of a call that is given the pool's context.
Cancelled == server = "stopping"
CallOK == ~Cancelled /\ UNCHANGED faults
CallFails == \/ Cancelled /\ UNCHANGED faults
             \/ ~Cancelled /\ Fault

----------------------------------------------------------------------------
(* run *)

NoWork(w) ==
  /\ At(w, "idle") /\ server = "up"
  /\ WithStatus("pending") = {}
  /\ UNCHANGED <<storeVars, workerVars, server>>

Claim(w) ==
  /\ At(w, "idle") /\ server = "up" /\ CallOK
  /\ \E j \in JobIds :
       /\ ClaimRow(w, j)
       /\ worker' = [worker EXCEPT ![w] = [IdleWorker EXCEPT !.pc = "video", !.job = j]]
  /\ UNCHANGED <<created, videos, presets, disk, server, events>>

\* The claim commits, but the connection or the context is gone before the reply:
\* run sees an error, sleeps and goes on without the job.
ClaimReplyLost(w) ==
  /\ At(w, "idle") /\ CallFails
  /\ \E j \in JobIds : ClaimRow(w, j)
  /\ worker' = [worker EXCEPT ![w] = IF Cancelled THEN ExitedWorker ELSE IdleWorker]
  /\ UNCHANGED <<created, videos, presets, disk, server, events>>

LeaveRun(w) ==
  /\ At(w, "idle") /\ Cancelled
  /\ worker' = [worker EXCEPT ![w] = ExitedWorker]
  /\ UNCHANGED <<storeVars, server, events>>

----------------------------------------------------------------------------
(* processJob, to the end of the job *)

LookupVideo(w) ==
  /\ At(w, "video")
  /\ \/ CallOK /\ Goto(w, IF Visible(VideoOf(w)) THEN "preset" ELSE "reject")
     \/ CallFails /\ Goto(w, "reject")
  /\ UNCHANGED <<jobs, created, videos, presets, disk, server, events>>

LookupPreset(w) ==
  /\ At(w, "preset")
  /\ \/ /\ CallOK
        /\ IF PresetOf(w) \in presets
             THEN worker' = [worker EXCEPT ![w].pc = "encode", ![w].i = 1]
             ELSE Goto(w, "reject")
     \/ CallFails /\ Goto(w, "reject")
  /\ UNCHANGED <<jobs, created, videos, presets, disk, server, events>>

\* Other ffmpeg processes writing the directory w is about to write.
SameDirectory(w) ==
  {x \in Workers \ {w} : At(x, "encoding") /\ VideoOf(x) = VideoOf(w)
                                           /\ HeightAt(x) = HeightAt(w)}

\* ffmpeg -y starts to overwrite {video}/{height}/: what was there is intact no more.
StartEncode(w) ==
  /\ At(w, "encode") /\ ~Cancelled
  /\ worker' = [x \in Workers |->
       IF x = w THEN [worker[x] EXCEPT !.pc = "encoding", !.mixed = SameDirectory(w) # {}]
       ELSE [worker[x] EXCEPT !.mixed = worker[x].mixed \/ x \in SameDirectory(w)]]
  /\ disk' = [disk EXCEPT ![VideoOf(w)].intact = @ \ {HeightAt(w)}]
  /\ UNCHANGED <<jobs, created, videos, presets, faults, server, events>>

LastResolution(w) == worker[w].i = Len(Resolutions[PresetOf(w)])

FinishEncode(w) ==
  /\ At(w, "encoding")
  /\ disk' = [disk EXCEPT ![VideoOf(w)].intact =
                IF worker[w].mixed THEN @ ELSE @ \cup {HeightAt(w)}]
  /\ worker' = [worker EXCEPT ![w] =
       IF LastResolution(w) THEN [worker[w] EXCEPT !.pc = "complete"]
       ELSE [worker[w] EXCEPT !.pc = "encode", !.i = worker[w].i + 1]]
  /\ UNCHANGED <<jobs, created, videos, presets, faults, server, events>>

\* Mutant of EncodeFails: the error does not end processJob.
EncodeErrorIgnored(w) ==
  /\ At(w, "encode") \/ At(w, "encoding")
  /\ Goto(w, "complete")
  /\ UNCHANGED <<storeVars, server, events>>

\* ffmpeg does not start, exits with an error, or is killed with the context.
EncodeFails(w) ==
  /\ At(w, "encode") \/ At(w, "encoding")
  /\ Goto(w, "fail")
  /\ UNCHANGED <<storeVars, server, events>>

\* Mutant of RecordFailure: it is tried until it succeeds.
RecordFailureInsists(w) ==
  /\ At(w, "fail") \/ At(w, "reject")
  /\ CallOK /\ FailRow(worker[w].job)
  /\ IF At(w, "fail") THEN Goto(w, "notify") ELSE BackToIdle(w)
  /\ UNCHANGED <<created, videos, presets, disk, server, events>>

\* `_ = jobRepo.Fail(...)`: its own error is dropped and the row keeps its status.
\* A job whose video or preset is not found goes back without an event.
RecordFailure(w) ==
  /\ At(w, "fail") \/ At(w, "reject")
  /\ \/ CallOK /\ FailRow(worker[w].job)
     \/ CallFails /\ UNCHANGED jobs
  /\ IF At(w, "fail") THEN Goto(w, "notify") ELSE BackToIdle(w)
  /\ UNCHANGED <<created, videos, presets, disk, server, events>>

\* transcode.failed, after every failed attempt; the row may be claimed again by now.
NotifyFailure(w) ==
  /\ At(w, "notify")
  /\ \/ CallOK /\ failedEvents' = [failedEvents EXCEPT ![worker[w].job] = @ + 1]
     \/ CallFails /\ UNCHANGED failedEvents
  /\ BackToIdle(w)
  /\ UNCHANGED <<jobs, created, videos, presets, disk, server, readyEvents>>

RecordComplete(w) ==
  /\ At(w, "complete")
  /\ \/ CallOK /\ CompleteRow(worker[w].job) /\ Goto(w, "check")
     \/ CallFails /\ UNCHANGED jobs /\ BackToIdle(w)
  /\ UNCHANGED <<created, videos, presets, disk, server, events>>

----------------------------------------------------------------------------
(* processJob, after Complete: whoever sees all jobs done finishes the video *)

\* Mutant of SeesAllDone: only the job inserted last finishes its video.
SeesAllDoneAsNewest(w) ==
  /\ AllCompleteForVideo(VideoOf(w))
  /\ \A k \in JobsOf(VideoOf(w)) : k <= worker[w].job

SeesAllDone(w) == AllCompleteForVideo(VideoOf(w))

CheckAllDone(w) ==
  /\ At(w, "check")
  /\ \/ /\ CallOK
        /\ IF SeesAllDone(w) THEN Goto(w, "ready") ELSE BackToIdle(w)
     \/ CallFails /\ BackToIdle(w)
  /\ UNCHANGED <<jobs, created, videos, presets, disk, server, events>>

MarkReady(w) ==
  /\ At(w, "ready")
  /\ \/ CallOK /\ UpdateStatus(VideoOf(w), "ready")
     \/ CallFails /\ UNCHANGED videos
  /\ Goto(w, "list")
  /\ UNCHANGED <<jobs, created, presets, disk, server, events>>

\* generateMasterPlaylist reads the jobs ...
ListJobs(w) ==
  /\ At(w, "list")
  /\ \/ /\ CallOK
        /\ worker' = [worker EXCEPT ![w].pc = "playlist",
                                    ![w].snap = CompletedJobsOf(VideoOf(w))]
     \/ CallFails /\ Goto(w, "announce")
  /\ UNCHANGED <<jobs, created, videos, presets, disk, server, events>>

\* Mutant of PutPlaylist: the file is not written.
PutPlaylistSkipped(w) ==
  /\ At(w, "playlist") /\ CallOK
  /\ Goto(w, "master")
  /\ UNCHANGED <<jobs, created, videos, presets, disk, server, events>>

\* ... skips those whose preset it cannot read, and stores what is left, also when
\* the context was cancelled meanwhile.  A storage error is dropped.
PutPlaylist(w) ==
  /\ At(w, "playlist")
  /\ \/ \E read \in SUBSET worker[w].snap :
          /\ IF read = worker[w].snap THEN CallOK ELSE CallFails
          /\ disk' = [disk EXCEPT ![VideoOf(w)].master = TRUE,
                        ![VideoOf(w)].listed = UNION {HeightsOf(jobs[j].preset) : j \in read}]
     \/ Fault /\ UNCHANGED disk
  /\ Goto(w, "master")
  /\ UNCHANGED <<jobs, created, videos, presets, server, events>>

RecordPlaylist(w) ==
  /\ At(w, "master")
  /\ \/ CallOK /\ SetMasterPlaylist(VideoOf(w))
     \/ CallFails /\ UNCHANGED videos
  /\ Goto(w, "announce")
  /\ UNCHANGED <<jobs, created, presets, disk, server, events>>

\* Thumbnail, preview, banner and meta.json, then the event video.ready, which
\* reaches no webhook when Fire cannot list them.
Announce(w) ==
  /\ At(w, "announce")
  /\ \/ CallOK /\ readyEvents' = [readyEvents EXCEPT ![VideoOf(w)] = @ + 1]
     \/ CallFails /\ UNCHANGED readyEvents
  /\ BackToIdle(w)
  /\ UNCHANGED <<jobs, created, videos, presets, disk, server, failedEvents>>

ProcessJob(w) ==
  \/ LookupVideo(w) \/ LookupPreset(w)
  \/ StartEncode(w) \/ FinishEncode(w) \/ EncodeFails(w)
  \/ RecordFailure(w) \/ NotifyFailure(w) \/ RecordComplete(w)
  \/ CheckAllDone(w) \/ MarkReady(w) \/ ListJobs(w) \/ PutPlaylist(w)
  \/ RecordPlaylist(w) \/ Announce(w)

WorkerStep(w) ==
  NoWork(w) \/ Claim(w) \/ ClaimReplyLost(w) \/ LeaveRun(w) \/ ProcessJob(w)

=============================================================================
