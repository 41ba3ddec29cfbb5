-------------------------- MODULE TranscodePipeline --------------------------
(***************************************************************************)
(* The server process: the worker pool and the requests on videos of one   *)
(* instance over the shared store, with the process's start, graceful      *)
(* stop, exit and crash (server/main.go).  Rows and files survive the      *)
(* process; the workers' and the requests' progress does not.              *)
(*                                                                         *)
(* The requests are those of internal/service/video_service.go that write  *)
(* what the workers read: Upload, Retranscode and Delete, one step per     *)
(* call.  Each runs in the goroutine of its HTTP request (here a client),  *)
(* so requests interleave with the workers and with each other.  A fault   *)
(* is a database error, the router's 60 s timeout or the client's          *)
(* disconnection: the next call fails and the handler returns, leaving     *)
(* what it has written.  Presets are enqueued in any order (the code takes *)
(* sort_order), and a preset named twice in one request counts once.       *)
(*                                                                         *)
(* Then what should hold of it, and what its documents say of it that does *)
(* not hold.                                                               *)
(***************************************************************************)
EXTENDS TranscodeWorkers

CONSTANTS
  Clients,            \* goroutines serving requests
  RetranscodeChoices, \* bound: preset_ids a Retranscode may name; {} asks for the defaults
  MayStop,            \* SIGTERM may arrive
  MayCrash,           \* the process may be killed
  MaxRestarts,        \* bound: starts after the first
  DeletableVideos,    \* bound: videos a user may delete
  DeletablePresets    \* bound: presets an admin may delete

ASSUME PipelineAssumption ==
  /\ MayStop \in BOOLEAN /\ MayCrash \in BOOLEAN
  /\ MaxRestarts \in Nat
  /\ DeletableVideos \subseteq Videos /\ DeletablePresets \subseteq Presets

VARIABLES
  request,  \* client -> the request it is serving
  restarts  \* starts still to happen

IdleClient == [op |-> "none", pc |-> "idle", video |-> None, todo |-> {}]

RequestInit == request = [c \in Clients |-> IdleClient]

RequestRow == [op : {"none", "upload", "retranscode"},
               pc : {"idle", "create", "presets", "enqueue", "status"},
               video : Videos \cup {None}, todo : SUBSET Presets]

RequestTypeOK == request \in [Clients -> RequestRow]

Serving(c, op, pc) == request[c].op = op /\ request[c].pc = pc
GotoPc(c, pc) == request' = [request EXCEPT ![c].pc = pc]
Return(c) == request' = [request EXCEPT ![c] = IdleClient]

----------------------------------------------------------------------------
(* Upload: the source file, then the row, then a job per default preset,     *)
(* then the status.                                                          *)

\* The new video's id is fresh: no row has it and no file lies under it.
UploadStore(c, v) ==
  /\ request[c].pc = "idle"
  /\ videos[v].status = "absent" /\ ~disk[v].source
  /\ disk' = [disk EXCEPT ![v].source = TRUE]
  /\ request' = [request EXCEPT ![c] =
                   [op |-> "upload", pc |-> "create", video |-> v, todo |-> {}]]
  /\ UNCHANGED <<jobs, created, videos, presets, faults>>

\* When the row cannot be created the source file is removed again.
UploadCreate(c) ==
  /\ Serving(c, "upload", "create")
  /\ \/ /\ CreateVideo(request[c].video)
        /\ GotoPc(c, "presets")
        /\ UNCHANGED <<disk, faults>>
     \/ /\ Fault
        /\ disk' = [disk EXCEPT ![request[c].video].source = FALSE]
        /\ Return(c)
        /\ UNCHANGED videos
  /\ UNCHANGED <<jobs, created, presets>>

\* Without default presets there is nothing to enqueue and no status to set.
UploadListDefaults(c) ==
  /\ Serving(c, "upload", "presets")
  /\ \/ /\ IF DefaultPresets \cap presets = {} THEN Return(c)
           ELSE request' = [request EXCEPT ![c].pc = "enqueue",
                                           ![c].todo = DefaultPresets \cap presets]
        /\ UNCHANGED faults
     \/ Fault /\ Return(c)
  /\ UNCHANGED <<jobs, created, videos, presets, disk>>

----------------------------------------------------------------------------
(* Retranscode: only presets that exist are enqueued, possibly none; the     *)
(* status is set to processing in any case.                                  *)

RetranscodeStart(c, v, ids) ==
  /\ request[c].pc = "idle"
  /\ Visible(v)
  /\ LET found == (IF ids = {} THEN DefaultPresets ELSE ids) \cap presets
     IN request' = [request EXCEPT ![c] =
          [op |-> "retranscode", pc |-> IF found = {} THEN "status" ELSE "enqueue",
           video |-> v, todo |-> found]]
  /\ UNCHANGED storeVars

----------------------------------------------------------------------------
(* What Upload and Retranscode share. *)

\* Inserting fails when the preset was deleted since it was read (foreign key).
Enqueue(c) ==
  /\ request[c].pc = "enqueue"
  /\ \E p \in request[c].todo :
       \/ /\ InsertJob(request[c].video, p)
          /\ request' = [request EXCEPT ![c].todo = @ \ {p},
               ![c].pc = IF request[c].todo = {p} THEN "status" ELSE "enqueue"]
          /\ UNCHANGED faults
       \/ /\ \/ p \notin presets /\ UNCHANGED faults
             \/ Fault
          /\ Return(c)
          /\ UNCHANGED <<jobs, created>>
  /\ UNCHANGED <<videos, presets, disk>>

\* `_ = UpdateStatus(processing)`, after the jobs are there for the workers to take.
SetProcessing(c) ==
  /\ request[c].pc = "status"
  /\ \/ UpdateStatus(request[c].video, "processing") /\ UNCHANGED faults
     \/ Fault /\ UNCHANGED videos
  /\ Return(c)
  /\ UNCHANGED <<jobs, created, presets, disk>>

----------------------------------------------------------------------------
(* Delete.  The handler's Get before SoftDelete adds nothing to the guard.   *)

DeleteVideo(v) ==
  /\ SoftDelete(v)
  /\ UNCHANGED <<jobs, created, presets, disk, faults, request>>

RemovePreset(p) ==
  /\ DeletePreset(p)
  /\ UNCHANGED <<jobs, created, videos, disk, faults, request>>

Serve(c) == UploadCreate(c) \/ UploadListDefaults(c) \/ Enqueue(c) \/ SetProcessing(c)

----------------------------------------------------------------------------
(* The process *)

vars == <<storeVars, workerVars, server, request, restarts>>

Init ==
  /\ StoreInit
  /\ WorkerInit
  /\ RequestInit
  /\ restarts = MaxRestarts

\* SIGINT or SIGTERM: pool.Stop cancels the workers' context and waits for them;
\* meanwhile the HTTP server goes on serving.
Stop ==
  /\ MayStop /\ server = "up"
  /\ server' = "stopping"
  /\ UNCHANGED <<storeVars, workerVars, request, restarts>>

\* The process and all that runs in it are gone.
ProcessGone ==
  /\ server' = "down"
  /\ worker' = [w \in Workers |-> ExitedWorker]
  /\ request' = [c \in Clients |-> IdleClient]
  /\ UNCHANGED <<storeVars, events, restarts>>

\* wg.Wait returned: Shutdown makes ListenAndServe return, and main with it,
\* whatever requests are still being served.
Exit ==
  /\ server = "stopping"
  /\ \A w \in Workers : At(w, "exited")
  /\ ProcessGone

Crash ==
  /\ MayCrash /\ server # "down"
  /\ ProcessGone

\* A new process starts its pool; it does not look at what the old one left.
Restart ==
  /\ server = "down" /\ restarts > 0
  /\ restarts' = restarts - 1
  /\ server' = "up"
  /\ worker' = [w \in Workers |-> IdleWorker]
  /\ UNCHANGED <<storeVars, events, request>>

----------------------------------------------------------------------------
PoolStep(w) == WorkerStep(w) /\ UNCHANGED <<request, restarts>>

RequestStep ==
  /\ server # "down"
  /\ \/ \E c \in Clients, v \in Videos : UploadStore(c, v)
     \/ \E c \in Clients, v \in Videos, ids \in RetranscodeChoices : RetranscodeStart(c, v, ids)
     \/ \E c \in Clients : Serve(c)
     \/ \E v \in DeletableVideos : DeleteVideo(v)
     \/ \E p \in DeletablePresets : RemovePreset(p)
  /\ UNCHANGED <<workerVars, server, restarts>>

Next ==
  \/ \E w \in Workers : PoolStep(w)
  \/ RequestStep
  \/ Stop \/ Exit \/ Crash \/ Restart

Spec == Init /\ [][Next]_vars

\* Goroutines are scheduled, the database and the storage answer, ffmpeg ends:
\* a worker and a request go on, and the process exits when it can.
Fairness ==
  /\ \A w \in Workers : WF_vars(PoolStep(w))
  /\ \A c \in Clients : WF_vars(server # "down" /\ Serve(c)
                                /\ UNCHANGED <<workerVars, server, restarts>>)
  /\ WF_vars(Exit)

FairSpec == Spec /\ Fairness

----------------------------------------------------------------------------
(* Properties *)

\* Every variable stays in its type.
TypeOK ==
  /\ StoreTypeOK /\ WorkerTypeOK /\ RequestTypeOK
  /\ restarts \in 0 .. MaxRestarts

----------------------------------------------------------------------------
(* Jobs *)

Holds(w, j) == worker[w].pc \in Holding /\ worker[w].job = j
Finishes(w, v) == worker[w].pc \in Finishing /\ VideoOf(w) = v

\* No two workers are ever inside processJob with the same job, also after
\* retries, crashes and restarts (ClaimPending, Fail; worker.go 83-99).
OneWorkerPerJob ==
  \A j \in JobIds, w1, w2 \in Workers : Holds(w1, j) /\ Holds(w2, j) => w1 = w2

\* The row of a job in a worker's hands says so: nobody else completes, fails or
\* re-queues it meanwhile, though Complete and Fail ask only for its id.
HeldRowIsClaimed ==
  \A w \in Workers, j \in JobIds :
    Holds(w, j) => jobs[j].status = "processing" /\ jobs[j].worker = w

\* A job waits only while it has attempts left and fails only when it has none
\* (job_repo.go Fail), however claims, failures and lost replies interleave.
RetriesExhausted ==
  \A j \in JobIds :
    /\ jobs[j].status = "pending" => jobs[j].attempts < MaxAttempts
    /\ jobs[j].status = "failed" => jobs[j].attempts = MaxAttempts
    /\ jobs[j].status = "completed" => jobs[j].attempts > 0

\* A completed or failed row is never written again: no late worker revives it.
TerminalJobsStay ==
  [][\A j \in JobIds : jobs[j].status \in {"completed", "failed"} => jobs'[j] = jobs[j]]_vars

\* The row a job refers to exists: its preset survives DeletePreset racing with
\* the request that enqueues it, its video was created, and its source stored.
ReferencesHold ==
  \A j \in 1 .. created :
    /\ jobs[j].preset \in presets
    /\ videos[jobs[j].video].status # "absent"
    /\ disk[jobs[j].video].source

\* A job that waits is eventually completed or given up, or the pool is stopped: FIFO
\* claims and bounded attempts let no job starve behind one that keeps failing.
PendingIsSettled ==
  \A j \in JobIds :
    jobs[j].status = "pending" ~> jobs[j].status \in {"completed", "failed"} \/ server # "up"

HolderOf(j) ==
  IF \E w \in Workers : Holds(w, j) THEN CHOOSE w \in Workers : Holds(w, j) ELSE None

\* The queue the workers and requests implement.
Queue == INSTANCE JobQueue WITH
  status <- [j \in JobIds |-> jobs[j].status],
  attempts <- [j \in JobIds |-> jobs[j].attempts],
  holder <- [j \in JobIds |-> HolderOf(j)]

\* Every step of the pipeline is a step of the abstract queue or none.
ImplementsQueue == Queue!Spec

----------------------------------------------------------------------------
(* Renditions and playlists *)

\* Every rendition of a completed job lies intact in storage, unless another job of
\* the video that writes the same directory has been started.
CompletedHasRenditions ==
  \A j \in WithStatus("completed") :
    \A h \in HeightsOf(jobs[j].preset) \ disk[jobs[j].video].intact :
      \E k \in JobsOf(jobs[j].video) \ {j} :
        h \in HeightsOf(jobs[k].preset) /\ jobs[k].attempts > 0

\* The stored master playlist names only renditions of completed jobs, whichever
\* finisher wrote it last.
PlaylistListsCompleted ==
  \A v \in Videos : \A h \in disk[v].listed :
    \E j \in JobsOf(v) : jobs[j].status = "completed" /\ h \in HeightsOf(jobs[j].preset)

\* A video's master_playlist names a file that is there, as long as no call failed
\* (worker.go 270-271 drops the error of Put); stops and crashes do no harm.
PlaylistPathHasFile ==
  faults = MaxFaults => \A v \in Videos : videos[v].master => disk[v].master

----------------------------------------------------------------------------
(* Finishing a video *)

\* Each completed job announces its video at most once, so a video is announced only
\* when some job of it has completed (worker.go 203-221).
ReadyEventsBounded ==
  \A v \in Videos :
    readyEvents[v] + Cardinality({w \in Workers : Finishes(w, v)})
      <= Cardinality({j \in JobsOf(v) : jobs[j].status = "completed"})

\* When all jobs of a video are completed, somebody has announced it or is about to:
\* two workers that complete the last two jobs at once cannot both leave it to the
\* other.  (Until a fault, a stop or a crash.)
Undisturbed == faults = MaxFaults /\ server = "up" /\ restarts = MaxRestarts
SomeoneFinishes ==
  Undisturbed =>
    \A v \in Videos :
      JobsOf(v) # {} /\ AllCompleteForVideo(v)
        => readyEvents[v] > 0 \/ \E w \in Workers : Finishes(w, v)

----------------------------------------------------------------------------
(* The end of the process *)

\* After SIGTERM the process ends: no worker waits for another or for a call that
\* is never answered.
ShutdownCompletes == server = "stopping" ~> server = "down"

----------------------------------------------------------------------------
(* What the documents say and the code does not do *)

AtRest(v) ==
  /\ \A w \in Workers : worker[w].job # 0 => VideoOf(w) # v
  /\ \A c \in Clients : request[c].video # v

\* transcoding.mdx 62: on SIGTERM the pool waits for the workers to finish their
\* current jobs before exiting; so no job is left "processing".
StopLeavesNoJobProcessing ==
  server = "down" => WithStatus("processing") = {}

\* transcoding.mdx 106-111: when all jobs for the video are done its status becomes
\* ready; so a video nobody works on any more, with all jobs completed, is ready.
SettledVideoIsReady ==
  \A v \in Videos :
    AtRest(v) /\ Visible(v) /\ JobsOf(v) # {} /\ AllCompleteForVideo(v)
      => videos[v].status = "ready"

\* transcoding.mdx: playlist.m3u8 is the master playlist of all resolutions; so a
\* video nobody works on any more has all its completed jobs' renditions in it.
SettledPlaylistIsComplete ==
  \A v \in Videos :
    AtRest(v) /\ videos[v].status = "ready"
      => \A j \in CompletedJobsOf(v) : HeightsOf(jobs[j].preset) \subseteq disk[v].listed

=============================================================================
