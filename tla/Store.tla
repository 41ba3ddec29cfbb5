------------------------------- MODULE Store -------------------------------
(***************************************************************************)
(* What the transcoding pipeline shares: the PostgreSQL tables             *)
(* transcode_jobs, videos and encoding_presets, and the storage backend.   *)
(* Every statement of internal/repository runs in a transaction of its     *)
(* own, so each is one operator here and one step of whoever calls it.     *)
(* Columns no property tells apart (titles, sizes, durations, progress,    *)
(* error texts) are left out.                                              *)
(***************************************************************************)
EXTENDS Naturals, Sequences, FiniteSets

CONSTANTS
  Videos,         \* ids of videos that may be uploaded
  Presets,        \* ids of encoding presets
  DefaultPresets, \* presets with is_default and is_active
  Height,         \* heights of renditions; a rendition's directory is its height
  Resolutions,    \* preset -> the heights it encodes, in order
  Workers,        \* worker ids of the pool
  MaxAttempts,    \* column default of transcode_jobs.max_attempts
  MaxJobs,        \* bound: rows ever inserted into transcode_jobs
  MaxFaults,      \* bound: database, storage or request-timeout errors
  None

ASSUME BoundsAssumption ==
  /\ MaxAttempts \in Nat \ {0}
  /\ MaxJobs \in Nat
  /\ MaxFaults \in Nat

ASSUME PresetsAssumption ==
  /\ DefaultPresets \in SUBSET Presets
  /\ Resolutions \in [Presets -> Seq(Height)]
  /\ \A p \in Presets : Resolutions[p] # <<>>

ASSUME WorkersAssumption == IsFiniteSet(Workers)

ASSUME NoneAssumption == None \notin Videos \cup Presets \cup Workers

VARIABLES
  jobs,     \* transcode_jobs: a row's number is its rank in created_at
  created,  \* how many rows were inserted
  videos,   \* videos: status, deleted_at # NULL, master_playlist # NULL
  presets,  \* encoding_presets: the rows there are
  disk,     \* storage: source file, intact rendition directories, master playlist
            \* and the heights it lists
  faults    \* faults still to happen

storeVars == <<jobs, created, videos, presets, disk, faults>>

JobIds == 1 .. MaxJobs
JobStatus == {"absent", "pending", "processing", "completed", "failed"}
VideoStatus == {"absent", "uploaded", "processing", "ready", "deleted"}

JobRow == [status : JobStatus, video : Videos \cup {None}, preset : Presets \cup {None},
           attempts : 0 .. MaxAttempts, worker : Workers \cup {None}]
VideoRow == [status : VideoStatus, deleted : BOOLEAN, master : BOOLEAN]
Files == [source : BOOLEAN, intact : SUBSET Height, master : BOOLEAN, listed : SUBSET Height]

NoJob == [status |-> "absent", video |-> None, preset |-> None, attempts |-> 0, worker |-> None]
NoVideo == [status |-> "absent", deleted |-> FALSE, master |-> FALSE]
NoFiles == [source |-> FALSE, intact |-> {}, master |-> FALSE, listed |-> {}]

StoreInit ==
  /\ jobs = [j \in JobIds |-> NoJob]
  /\ created = 0
  /\ videos = [v \in Videos |-> NoVideo]
  /\ presets = Presets
  /\ disk = [v \in Videos |-> NoFiles]
  /\ faults = MaxFaults

StoreTypeOK ==
  /\ jobs \in [JobIds -> JobRow]
  /\ created \in 0 .. MaxJobs
  /\ videos \in [Videos -> VideoRow]
  /\ presets \in SUBSET Presets
  /\ disk \in [Videos -> Files]
  /\ faults \in 0 .. MaxFaults

----------------------------------------------------------------------------
(* JobRepository *)

JobsOf(v) == {j \in JobIds : jobs[j].video = v}
WithStatus(s) == {j \in JobIds : jobs[j].status = s}

HeightsOf(p) == {Resolutions[p][i] : i \in DOMAIN Resolutions[p]}

\* Mutant of InsertJob: no foreign key on preset_id.
InsertJobNoForeignKey(v, p) ==
  /\ created < MaxJobs
  /\ created' = created + 1
  /\ jobs' = [jobs EXCEPT ![created + 1] =
                [NoJob EXCEPT !.status = "pending", !.video = v, !.preset = p]]

\* Create: the row gets the column defaults; the foreign key wants the preset.
InsertJob(v, p) ==
  /\ p \in presets
  /\ created < MaxJobs
  /\ created' = created + 1
  /\ jobs' = [jobs EXCEPT ![created + 1] =
                [NoJob EXCEPT !.status = "pending", !.video = v, !.preset = p]]

\* Mutant of ClaimRow: the subquery asks for status <> 'failed'.
ClaimRowAnyStatus(w, j) ==
  /\ j \in 1 .. created \ WithStatus("failed")
  /\ jobs' = [jobs EXCEPT ![j].status = "processing", ![j].worker = w,
                          ![j].attempts = @ + 1]

\* Mutant of ClaimRow: a pending row is one without a worker.
ClaimRowFresh(w, j) ==
  /\ j \in WithStatus("pending") /\ jobs[j].worker = None
  /\ \A k \in WithStatus("pending") : jobs[k].worker = None => j <= k
  /\ jobs' = [jobs EXCEPT ![j].status = "processing", ![j].worker = w,
                          ![j].attempts = @ + 1]

\* ClaimPending: the oldest pending row; SKIP LOCKED makes the claim one step.
ClaimRow(w, j) ==
  /\ j \in WithStatus("pending")
  /\ \A k \in WithStatus("pending") : j <= k
  /\ jobs' = [jobs EXCEPT ![j].status = "processing", ![j].worker = w,
                          ![j].attempts = @ + 1]

\* Complete: by id alone, whatever the row's status.
CompleteRow(j) == jobs' = [jobs EXCEPT ![j].status = "completed"]

\* Mutants of FailRow: one attempt too many; attempts start again.
FailRowOffByOne(j) ==
  jobs' = [jobs EXCEPT ![j].status =
             IF jobs[j].attempts <= MaxAttempts THEN "pending" ELSE "failed"]
FailRowResets(j) == jobs' = [jobs EXCEPT ![j].status = "pending", ![j].attempts = 0]

\* Fail: by id alone; back to pending while attempts remain, and worker_id stays.
FailRow(j) ==
  jobs' = [jobs EXCEPT ![j].status =
             IF jobs[j].attempts < MaxAttempts THEN "pending" ELSE "failed"]

\* AllCompleteForVideo: no row outside completed (nothing ever writes cancelled).
AllCompleteForVideo(v) == \A j \in JobsOf(v) : jobs[j].status = "completed"

\* Mutant of CompletedJobsOf: the loop does not look at the status.
AllJobsOf(v) == JobsOf(v)

\* GetByVideoID, of which only the completed rows are used.
CompletedJobsOf(v) == {j \in JobsOf(v) : jobs[j].status = "completed"}

----------------------------------------------------------------------------
(* VideoRepository *)

CreateVideo(v) == videos' = [videos EXCEPT ![v].status = "uploaded"]

\* GetByID returns a row only while deleted_at is NULL.
Visible(v) == videos[v].status # "absent" /\ ~videos[v].deleted

\* UpdateStatus and SetMasterPlaylist: by id alone, deleted rows included.
UpdateStatus(v, s) == videos' = [videos EXCEPT ![v].status = s]
SetMasterPlaylist(v) == videos' = [videos EXCEPT ![v].master = TRUE]

SoftDelete(v) ==
  /\ Visible(v)
  /\ videos' = [videos EXCEPT ![v].status = "deleted", ![v].deleted = TRUE]

----------------------------------------------------------------------------
(* PresetRepository.Delete refuses a preset that some job row names. *)

DeletePreset(p) ==
  /\ p \in presets
  /\ \A j \in JobIds : jobs[j].preset # p
  /\ presets' = presets \ {p}

\* A call to the database or the storage that fails for a reason of its own.
Fault == faults > 0 /\ faults' = faults - 1

=============================================================================
