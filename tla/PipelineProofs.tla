--------------------------- MODULE PipelineProofs ---------------------------
(***************************************************************************)
(* Proofs about the transcoding pipeline, for any number of videos,        *)
(* presets, workers, requests, attempts, jobs, faults and restarts: first  *)
(* about the queue and its workers, then about what they make of a video,  *)
(* the rows and files its jobs refer to, its renditions, its playlist and  *)
(* who finishes it.                                                        *)
(***************************************************************************)
EXTENDS TranscodePipeline, FiniteSetTheorems, TLAPS

----------------------------------------------------------------------------
(* The inductive invariant *)

\* The rows up to created are those there are, and a claimed one was attempted.
RowOK(j) ==
  /\ j <= created <=> jobs[j].status # "absent"
  /\ j <= created => jobs[j].video \in Videos /\ jobs[j].preset \in Presets
  /\ jobs[j].status = "absent" => jobs[j].attempts = 0 /\ jobs[j].video = None
  /\ jobs[j].status = "processing" => jobs[j].attempts > 0

\* A busy worker's job exists, and so does the resolution it encodes.
WorkerOK(w) ==
  /\ worker[w].snap \subseteq 1 .. created
  /\ worker[w].pc \notin {"idle", "exited"} => worker[w].job \in 1 .. created
  /\ worker[w].pc \in {"encode", "encoding"}
       => worker[w].i \in 1 .. Len(Resolutions[PresetOf(w)])

ClientOK(c) == request[c].pc # "idle" => request[c].video \in Videos

QueueInv ==
  /\ \A j \in JobIds : RowOK(j)
  /\ \A w \in Workers : WorkerOK(w)
  /\ HeldRowIsClaimed
  /\ RetriesExhausted

IInv == TypeOK /\ QueueInv /\ (\A c \in Clients : ClientOK(c))

\* The invariant holds at the start.
LEMMA InitIInv == Init => IInv
<1> SUFFICES ASSUME Init PROVE IInv
  OBVIOUS
<1> USE DEF Init
<1>1. TypeOK
  BY BoundsAssumption, PresetsAssumption, PipelineAssumption
  DEF StoreInit, WorkerInit, RequestInit, TypeOK, StoreTypeOK, WorkerTypeOK, RequestTypeOK, RequestRow,
      JobRow, VideoRow, Files, WorkerRow, JobStatus, VideoStatus, NoJob, NoVideo, NoFiles,
      IdleWorker, IdleClient, JobIds
<1>2. QueueInv
  BY BoundsAssumption
  DEF StoreInit, WorkerInit, QueueInv, RowOK, WorkerOK, HeldRowIsClaimed, Holds, Holding,
      RetriesExhausted, NoJob, IdleWorker, JobIds
<1>3. \A c \in Clients : ClientOK(c)
  BY DEF RequestInit, IdleClient, ClientOK
<1> QED
  BY <1>1, <1>2, <1>3 DEF IInv

----------------------------------------------------------------------------
(* What a step may do to rows and workers without disturbing QueueInv *)

\* Only w moves; the others keep what the invariant looks at.
OnlyMoves(w) ==
  \A x \in Workers \ {w} :
    /\ worker'[x].pc = worker[x].pc /\ worker'[x].job = worker[x].job
    /\ worker'[x].i = worker[x].i /\ worker'[x].snap = worker[x].snap

\* w goes on with its job or leaves it.
KeepsOrDrops(w) ==
  worker'[w].pc \in Holding => worker[w].pc \in Holding /\ worker'[w].job = worker[w].job

\* The workers that do not move stay legal, as rows keep their presets.
LEMMA OthersOK ==
  ASSUME TypeOK, QueueInv, NEW w \in Workers, OnlyMoves(w), WorkerOK(w)', UNCHANGED created,
         \A k \in JobIds : jobs'[k].preset = jobs[k].preset
  PROVE  \A x \in Workers : WorkerOK(x)'
<1> SUFFICES ASSUME NEW x \in Workers, x # w PROVE WorkerOK(x)'
  OBVIOUS
<1>1. /\ WorkerOK(x)
      /\ worker'[x].pc = worker[x].pc /\ worker'[x].job = worker[x].job
      /\ worker'[x].i = worker[x].i /\ worker'[x].snap = worker[x].snap
  BY DEF QueueInv, OnlyMoves
<1>2. worker[x].job \in 1 .. created => worker[x].job \in JobIds
  BY BoundsAssumption DEF JobIds, TypeOK, StoreTypeOK
<1>3. worker[x].job \in JobIds => PresetOf(x)' = PresetOf(x)
  BY <1>1 DEF PresetOf
<1> QED
  BY <1>1, <1>2, <1>3 DEF WorkerOK

\* A worker that goes on or drops its job, writing no row, keeps the invariant.
LEMMA MoveQueueInv ==
  ASSUME TypeOK, QueueInv, NEW w \in Workers, OnlyMoves(w), KeepsOrDrops(w), WorkerOK(w)',
         UNCHANGED <<jobs, created>>
  PROVE  QueueInv'
<1>1. \A j \in JobIds : RowOK(j)'
  BY DEF QueueInv, RowOK
<1>2. \A x \in Workers : WorkerOK(x)'
  BY OthersOK
<1>3. HeldRowIsClaimed'
  BY DEF QueueInv, OnlyMoves, KeepsOrDrops, HeldRowIsClaimed, Holds
<1>4. RetriesExhausted'
  BY DEF QueueInv, RetriesExhausted
<1> QED
  BY <1>1, <1>2, <1>3, <1>4 DEF QueueInv

\* Nothing the queue's invariant looks at changes.
LEMMA FrameQueueInv ==
  ASSUME QueueInv, UNCHANGED <<jobs, created, worker>>
  PROVE  QueueInv'
BY DEF QueueInv, RowOK, WorkerOK, PresetOf, HeldRowIsClaimed, Holds, RetriesExhausted

\* No worker is left with a job.
LEMMA EmptyQueueInv ==
  ASSUME QueueInv, UNCHANGED <<jobs, created>>,
         \A w \in Workers : worker'[w].pc \in {"idle", "exited"} /\ worker'[w].snap = {}
  PROVE  QueueInv'
BY DEF QueueInv, RowOK, WorkerOK, HeldRowIsClaimed, Holds, Holding, RetriesExhausted

\* ClaimPending's row: of no worker before, of w after.
LEMMA ClaimRowEffect ==
  ASSUME TypeOK, QueueInv, NEW w \in Workers, NEW j \in JobIds, ClaimRow(w, j)
  PROVE  /\ jobs' \in [JobIds -> JobRow]
         /\ \A k \in JobIds : k # j => jobs'[k] = jobs[k]
         /\ jobs[j].status = "pending" /\ jobs'[j].status = "processing"
         /\ jobs'[j].video = jobs[j].video /\ jobs'[j].preset = jobs[j].preset
         /\ jobs'[j].attempts = jobs[j].attempts + 1 /\ jobs'[j].worker = w
         /\ j <= created
BY BoundsAssumption
DEF QueueInv, RowOK, TypeOK, StoreTypeOK, JobRow, JobStatus, RetriesExhausted, ClaimRow, WithStatus

\* A claim keeps the invariant, whether its worker learns of it or not.
LEMMA ClaimQueueInv ==
  ASSUME TypeOK, QueueInv, NEW w \in Workers, NEW j \in JobIds, ClaimRow(w, j),
         worker[w].pc = "idle", OnlyMoves(w), WorkerOK(w)', UNCHANGED created,
         worker'[w].pc \in Holding => worker'[w].job = j
  PROVE  QueueInv'
<1>e. /\ jobs' \in [JobIds -> JobRow]
      /\ \A k \in JobIds : k # j => jobs'[k] = jobs[k]
      /\ jobs[j].status = "pending" /\ jobs'[j].status = "processing"
      /\ jobs'[j].video = jobs[j].video /\ jobs'[j].preset = jobs[j].preset
      /\ jobs'[j].attempts = jobs[j].attempts + 1 /\ jobs'[j].worker = w
      /\ j <= created
  BY ClaimRowEffect
<1>1. ASSUME NEW k \in JobIds PROVE RowOK(k)'
  BY <1>e DEF QueueInv, RowOK, TypeOK, StoreTypeOK, JobRow
<1>2. \A x \in Workers : WorkerOK(x)'
  BY <1>e, OthersOK
<1>3. HeldRowIsClaimed'
  BY <1>e DEF QueueInv, OnlyMoves, HeldRowIsClaimed, Holds, Holding
<1>4. RetriesExhausted'
  BY <1>e DEF QueueInv, RetriesExhausted
<1> QED
  BY <1>1, <1>2, <1>3, <1>4 DEF QueueInv

\* Complete and Fail write the row of the worker that holds it, which drops it.
DropsRow(w) ==
  LET j == worker[w].job IN
    /\ worker[w].pc \in Holding /\ worker'[w].pc \notin Holding
    /\ \/ CompleteRow(j)
       \/ FailRow(j)

\* The row such a worker writes is its own: nobody has changed it since the claim.
LEMMA DropsRowEffect ==
  ASSUME TypeOK, QueueInv, NEW w \in Workers, DropsRow(w), NEW j, j = worker[w].job
  PROVE  /\ jobs' \in [JobIds -> JobRow]
         /\ j \in JobIds /\ j <= created
         /\ \A k \in JobIds : k # j => jobs'[k] = jobs[k]
         /\ jobs[j].status = "processing" /\ jobs[j].worker = w
         /\ jobs'[j].video = jobs[j].video /\ jobs'[j].preset = jobs[j].preset
         /\ jobs'[j].attempts = jobs[j].attempts
         /\ \/ jobs'[j].status = "completed"
            \/ jobs'[j].status = "pending" /\ jobs[j].attempts < MaxAttempts
            \/ jobs'[j].status = "failed" /\ jobs[j].attempts = MaxAttempts
<1>1. j \in JobIds /\ j <= created
  BY BoundsAssumption DEF DropsRow, Holding, QueueInv, WorkerOK, JobIds, TypeOK, StoreTypeOK
<1>2. jobs[j].status = "processing" /\ jobs[j].worker = w
  BY <1>1 DEF DropsRow, QueueInv, HeldRowIsClaimed, Holds
<1>3. jobs \in [JobIds -> JobRow]
  BY DEF TypeOK, StoreTypeOK
<1>4. CASE CompleteRow(j)
  BY <1>1, <1>2, <1>3, <1>4 DEF CompleteRow, JobRow, JobStatus
<1>5. CASE FailRow(j)
  BY <1>1, <1>2, <1>3, <1>5, BoundsAssumption DEF FailRow, JobRow, JobStatus
<1> QED
  BY <1>4, <1>5 DEF DropsRow

\* Complete and Fail keep the invariant.
LEMMA DropsQueueInv ==
  ASSUME TypeOK, QueueInv, NEW w \in Workers, DropsRow(w), OnlyMoves(w), WorkerOK(w)',
         UNCHANGED created
  PROVE  QueueInv'
<1> DEFINE j == worker[w].job
<1>e. /\ jobs' \in [JobIds -> JobRow]
      /\ j \in JobIds /\ j <= created
      /\ \A k \in JobIds : k # j => jobs'[k] = jobs[k]
      /\ jobs[j].status = "processing" /\ jobs[j].worker = w
      /\ jobs'[j].video = jobs[j].video /\ jobs'[j].preset = jobs[j].preset
      /\ jobs'[j].attempts = jobs[j].attempts
      /\ \/ jobs'[j].status = "completed"
         \/ jobs'[j].status = "pending" /\ jobs[j].attempts < MaxAttempts
         \/ jobs'[j].status = "failed" /\ jobs[j].attempts = MaxAttempts
  BY DropsRowEffect
<1> HIDE DEF j
<1>1. ASSUME NEW k \in JobIds PROVE RowOK(k)'
  BY <1>e DEF QueueInv, RowOK, TypeOK, StoreTypeOK, JobRow
<1>2. \A x \in Workers : WorkerOK(x)'
  BY <1>e, OthersOK
<1>3. HeldRowIsClaimed'
  <2>1. \A x \in Workers : Holds(x, j) => x = w
    BY <1>e DEF QueueInv, HeldRowIsClaimed
  <2> QED
    BY <2>1, <1>e DEF QueueInv, OnlyMoves, DropsRow, HeldRowIsClaimed, Holds
<1>4. RetriesExhausted'
  BY <1>e DEF QueueInv, RowOK, RetriesExhausted, TypeOK, StoreTypeOK, JobRow
<1> QED
  BY <1>1, <1>2, <1>3, <1>4 DEF QueueInv

----------------------------------------------------------------------------
(* What a step of worker w does to the queue, and what a step of a request does *)

Takes(w) ==
  \E j \in JobIds :
    /\ ClaimRow(w, j) /\ worker[w].pc = "idle" /\ OnlyMoves(w)
    /\ worker'[w].pc \in Holding => worker'[w].job = j

Drops(w) == DropsRow(w) /\ OnlyMoves(w)

Quiet(w) == UNCHANGED jobs /\ OnlyMoves(w) /\ KeepsOrDrops(w)

OnlyDrops == \A w \in Workers, j \in JobIds : Holds(w, j)' => Holds(w, j)

Inserts == \E v \in Videos, p \in Presets : InsertJob(v, p)

----------------------------------------------------------------------------
(* How a worker's record changes *)

PCs == {"idle", "exited", "notify"} \cup Holding \cup Finishing

\* Goto changes the program counter of one worker.
LEMMA GotoEffect ==
  ASSUME TypeOK, NEW w \in Workers, NEW pc \in PCs, Goto(w, pc)
  PROVE  /\ worker' \in [Workers -> WorkerRow] /\ OnlyMoves(w)
         /\ worker'[w].pc = pc /\ worker'[w].job = worker[w].job
         /\ worker'[w].i = worker[w].i /\ worker'[w].snap = worker[w].snap
BY DEF TypeOK, WorkerTypeOK, WorkerRow, PCs, Goto, OnlyMoves

\* A worker that goes back to the loop, or leaves it, is legal.
LEMMA IdleEffect ==
  ASSUME TypeOK, NEW w \in Workers,
         \/ BackToIdle(w)
         \/ worker' = [worker EXCEPT ![w] = ExitedWorker]
  PROVE  /\ worker' \in [Workers -> WorkerRow] /\ OnlyMoves(w)
         /\ worker'[w].pc \in {"idle", "exited"} /\ WorkerOK(w)'
<1>1. IdleWorker \in WorkerRow /\ IdleWorker.pc = "idle" /\ IdleWorker.snap = {}
  BY DEF IdleWorker, WorkerRow
<1>2. ExitedWorker \in WorkerRow /\ ExitedWorker.pc = "exited" /\ ExitedWorker.snap = {}
  BY DEF IdleWorker, ExitedWorker, WorkerRow
<1>3. worker \in [Workers -> WorkerRow]
  BY DEF TypeOK, WorkerTypeOK
<1> QED
  BY <1>1, <1>2, <1>3 DEF BackToIdle, OnlyMoves, WorkerOK

\* w goes to another call of processJob with the job it has, or drops it.
LEMMA GotoOK ==
  ASSUME TypeOK, QueueInv, NEW w \in Workers, NEW pc \in PCs \ {"encode", "encoding"}, Goto(w, pc),
         worker[w].pc \notin {"idle", "exited"}, UNCHANGED created
  PROVE  WorkerOK(w)'
BY GotoEffect DEF QueueInv, WorkerOK

\* A call's outcome leaves the fault counter in its range.
LEMMA FaultsOK ==
  ASSUME TypeOK, CallOK \/ CallFails PROVE faults' \in 0 .. MaxFaults
BY BoundsAssumption DEF TypeOK, StoreTypeOK, CallOK, CallFails, Fault

----------------------------------------------------------------------------
(* The workers' actions *)

\* Claim.
LEMMA ClaimStep ==
  ASSUME IInv, NEW w \in Workers, Claim(w), UNCHANGED <<request, restarts>>
  PROVE  IInv' /\ Takes(w)
<1>0. TypeOK /\ QueueInv
  BY DEF IInv
<1>1. PICK j \in JobIds :
        /\ ClaimRow(w, j)
        /\ worker' = [worker EXCEPT ![w] = [IdleWorker EXCEPT !.pc = "video", !.job = j]]
  BY DEF Claim
<1>2. UNCHANGED <<created, videos, presets, disk, faults, server, readyEvents, failedEvents>>
  BY DEF Claim, CallOK, events
<1>3. /\ worker' \in [Workers -> WorkerRow] /\ OnlyMoves(w)
      /\ worker'[w].pc = "video" /\ worker'[w].job = j /\ worker'[w].snap = {}
  BY <1>0, <1>1 DEF TypeOK, WorkerTypeOK, WorkerRow, IdleWorker, Holding, OnlyMoves
<1>4. jobs' \in [JobIds -> JobRow] /\ j \in 1 .. created
  BY <1>0, <1>1, ClaimRowEffect DEF JobIds, TypeOK, StoreTypeOK
<1>5. WorkerOK(w)'
  BY <1>2, <1>3, <1>4 DEF WorkerOK
<1>6. worker[w].pc = "idle"
  BY DEF Claim, At
<1>7. QueueInv'
  BY <1>0, <1>1, <1>2, <1>3, <1>5, <1>6, ClaimQueueInv
<1>8. TypeOK'
  BY <1>0, <1>2, <1>3, <1>4 DEF TypeOK, StoreTypeOK, WorkerTypeOK, RequestTypeOK
<1> QED
  BY <1>1, <1>3, <1>6, <1>7, <1>8 DEF IInv, ClientOK, Takes

\* A claim whose reply is lost: the row is claimed for a worker that holds nothing.
LEMMA ClaimReplyLostStep ==
  ASSUME IInv, NEW w \in Workers, ClaimReplyLost(w), UNCHANGED <<request, restarts>>
  PROVE  IInv' /\ Takes(w)
<1>0. TypeOK /\ QueueInv
  BY DEF IInv
<1>1. PICK j \in JobIds : ClaimRow(w, j)
  BY DEF ClaimReplyLost
<1>2. UNCHANGED <<created, videos, presets, disk, server, readyEvents, failedEvents>>
  BY DEF ClaimReplyLost, events
<1>3. /\ worker' \in [Workers -> WorkerRow] /\ OnlyMoves(w)
      /\ worker'[w].pc \in {"idle", "exited"} /\ WorkerOK(w)'
  BY <1>0, IdleEffect DEF ClaimReplyLost, BackToIdle
<1>4. jobs' \in [JobIds -> JobRow]
  BY <1>0, <1>1, ClaimRowEffect
<1>5. worker[w].pc = "idle"
  BY DEF ClaimReplyLost, At
<1>6. worker'[w].pc \notin Holding
  BY <1>3 DEF Holding
<1>7. QueueInv'
  BY <1>0, <1>1, <1>2, <1>3, <1>5, <1>6, ClaimQueueInv
<1>8. faults' \in 0 .. MaxFaults
  BY <1>0, FaultsOK DEF ClaimReplyLost
<1>9. TypeOK'
  BY <1>0, <1>2, <1>3, <1>4, <1>8 DEF TypeOK, StoreTypeOK, WorkerTypeOK, RequestTypeOK
<1> QED
  BY <1>1, <1>3, <1>5, <1>6, <1>7, <1>9 DEF IInv, ClientOK, Takes

\* A step of w that writes no row of the queue and leaves w's record legal.
LEMMA PlainStep ==
  ASSUME IInv, NEW w \in Workers, OnlyMoves(w), KeepsOrDrops(w), WorkerOK(w)',
         worker' \in [Workers -> WorkerRow], faults' \in 0 .. MaxFaults,
         videos' \in [Videos -> VideoRow], disk' \in [Videos -> Files],
         readyEvents' \in [Videos -> Nat], failedEvents' \in [JobIds -> Nat],
         UNCHANGED <<jobs, created, presets, server, request, restarts>>
  PROVE  IInv' /\ Quiet(w)
<1>1. QueueInv'
  BY MoveQueueInv DEF IInv
<1>2. TypeOK'
  BY DEF IInv, TypeOK, StoreTypeOK, WorkerTypeOK, RequestTypeOK
<1> QED
  BY <1>1, <1>2 DEF IInv, ClientOK, Quiet

\* The steps of processJob that write neither table nor file.
LEMMA WalkStep ==
  ASSUME IInv, NEW w \in Workers, UNCHANGED <<request, restarts>>,
         LookupVideo(w) \/ EncodeFails(w) \/ CheckAllDone(w) \/ LeaveRun(w)
  PROVE  IInv' /\ Quiet(w)
<1>0. TypeOK /\ QueueInv
  BY DEF IInv
<1>1. UNCHANGED <<jobs, created, videos, presets, disk, server, readyEvents, failedEvents>>
  BY DEF LookupVideo, EncodeFails, CheckAllDone, LeaveRun, storeVars, events
<1>2. faults' \in 0 .. MaxFaults
  BY <1>0, FaultsOK DEF LookupVideo, EncodeFails, CheckAllDone, LeaveRun, storeVars, TypeOK, StoreTypeOK
<1>3. \/ /\ worker[w].pc \in Holding
         /\ Goto(w, "preset") \/ Goto(w, "reject") \/ Goto(w, "fail")
      \/ /\ worker[w].pc = "check"
         /\ Goto(w, "ready")
      \/ BackToIdle(w)
      \/ worker' = [worker EXCEPT ![w] = ExitedWorker]
  BY DEF LookupVideo, EncodeFails, CheckAllDone, LeaveRun, At, Holding
<1>4. /\ worker' \in [Workers -> WorkerRow] /\ OnlyMoves(w)
      /\ KeepsOrDrops(w) /\ WorkerOK(w)'
  <2>1. CASE worker[w].pc \in Holding /\ (Goto(w, "preset") \/ Goto(w, "reject") \/ Goto(w, "fail"))
    BY <2>1, <1>0, <1>1, GotoEffect, GotoOK DEF PCs, Holding, KeepsOrDrops
  <2>2. CASE worker[w].pc = "check" /\ Goto(w, "ready")
    BY <2>2, <1>0, <1>1, GotoEffect, GotoOK DEF PCs, Holding, Finishing, KeepsOrDrops
  <2>3. CASE BackToIdle(w) \/ worker' = [worker EXCEPT ![w] = ExitedWorker]
    BY <2>3, <1>0, IdleEffect DEF KeepsOrDrops, Holding
  <2> QED
    BY <1>3, <2>1, <2>2, <2>3
<1> QED
  BY <1>0, <1>1, <1>2, <1>4, PlainStep DEF TypeOK, StoreTypeOK, WorkerTypeOK

\* A held job's preset is one of those the pool was given.
LEMMA JobOfWorker ==
  ASSUME TypeOK, QueueInv, NEW w \in Workers, worker[w].pc \notin {"idle", "exited"}
  PROVE  worker[w].job \in JobIds /\ VideoOf(w) \in Videos /\ PresetOf(w) \in Presets
<1>1. worker[w].job \in 1 .. created /\ worker[w].job \in JobIds
  BY BoundsAssumption DEF QueueInv, WorkerOK, TypeOK, StoreTypeOK, JobIds
<1>2. RowOK(worker[w].job)
  BY <1>1 DEF QueueInv
<1> QED
  BY <1>1, <1>2 DEF RowOK, VideoOf, PresetOf

\* LookupPreset starts at the preset's first resolution, which exists.
LEMMA LookupPresetStep ==
  ASSUME IInv, NEW w \in Workers, LookupPreset(w), UNCHANGED <<request, restarts>>
  PROVE  IInv' /\ Quiet(w)
<1>0. TypeOK /\ QueueInv
  BY DEF IInv
<1>1. UNCHANGED <<jobs, created, videos, presets, disk, server, readyEvents, failedEvents>>
  BY DEF LookupPreset, events
<1>2. faults' \in 0 .. MaxFaults
  BY <1>0, FaultsOK DEF LookupPreset
<1>3. worker[w].pc = "preset"
  BY DEF LookupPreset, At
<1>4. /\ worker' \in [Workers -> WorkerRow] /\ OnlyMoves(w)
      /\ KeepsOrDrops(w) /\ WorkerOK(w)'
  <2>1. CASE Goto(w, "reject")
    BY <2>1, <1>0, <1>1, <1>3, GotoEffect, GotoOK DEF PCs, Holding, KeepsOrDrops
  <2>2. CASE worker' = [worker EXCEPT ![w].pc = "encode", ![w].i = 1]
    <3>1. /\ worker' \in [Workers -> WorkerRow] /\ OnlyMoves(w)
          /\ worker'[w].pc = "encode" /\ worker'[w].i = 1
          /\ worker'[w].job = worker[w].job /\ worker'[w].snap = worker[w].snap
      BY <2>2, <1>0 DEF TypeOK, WorkerTypeOK, WorkerRow, OnlyMoves, Holding
    <3>2. PresetOf(w)' = PresetOf(w) /\ PresetOf(w) \in Presets
      BY <3>1, <1>0, <1>1, <1>3, JobOfWorker DEF PresetOf
    <3>3. 1 \in 1 .. Len(Resolutions[PresetOf(w)])
      BY <3>2, PresetsAssumption
    <3> QED
      BY <3>1, <3>2, <3>3, <1>0, <1>1, <1>3 DEF KeepsOrDrops, Holding, QueueInv, WorkerOK
  <2> QED
    BY <2>1, <2>2 DEF LookupPreset
<1> QED
  BY <1>0, <1>1, <1>2, <1>4, PlainStep DEF TypeOK, StoreTypeOK, WorkerTypeOK

\* StartEncode, which also marks the other writers of the directory.
LEMMA StartEncodeStep ==
  ASSUME IInv, NEW w \in Workers, StartEncode(w), UNCHANGED <<request, restarts>>
  PROVE  IInv' /\ Quiet(w)
<1>0. TypeOK /\ QueueInv
  BY DEF IInv
<1>1. UNCHANGED <<jobs, created, videos, presets, faults, server, readyEvents, failedEvents>>
  BY DEF StartEncode, events
<1>3. worker[w].pc = "encode"
  BY DEF StartEncode, At
<1>4. /\ worker' \in [Workers -> WorkerRow] /\ OnlyMoves(w)
      /\ worker'[w].pc = "encoding" /\ worker'[w].i = worker[w].i
      /\ worker'[w].job = worker[w].job /\ worker'[w].snap = worker[w].snap
  <2> DEFINE S == SameDirectory(w)
  <2>1. worker' = [x \in Workers |->
       IF x = w THEN [worker[x] EXCEPT !.pc = "encoding", !.mixed = S # {}]
       ELSE [worker[x] EXCEPT !.mixed = worker[x].mixed \/ x \in S]]
    BY DEF StartEncode
  <2> HIDE DEF S
  <2>2. worker \in [Workers -> WorkerRow]
    BY <1>0 DEF TypeOK, WorkerTypeOK
  <2>3. \A r \in WorkerRow, b \in BOOLEAN :
          /\ [r EXCEPT !.mixed = b] \in WorkerRow
          /\ [r EXCEPT !.pc = "encoding", !.mixed = b] \in WorkerRow
    BY DEF WorkerRow, Holding
  <2>4. worker' \in [Workers -> WorkerRow]
    BY <2>1, <2>2, <2>3 DEF WorkerRow
  <2> QED
    BY <2>1, <2>2, <2>4 DEF OnlyMoves, WorkerRow
<1>5. KeepsOrDrops(w) /\ WorkerOK(w)'
  BY <1>0, <1>1, <1>3, <1>4 DEF KeepsOrDrops, Holding, QueueInv, WorkerOK, PresetOf
<1>6. disk' \in [Videos -> Files]
  BY <1>0, <1>3, JobOfWorker DEF StartEncode, TypeOK, StoreTypeOK, Files
<1> QED
  BY <1>0, <1>1, <1>4, <1>5, <1>6, PlainStep DEF TypeOK, StoreTypeOK, WorkerTypeOK

\* FinishEncode goes to the next resolution only if there is one.
LEMMA FinishEncodeStep ==
  ASSUME IInv, NEW w \in Workers, FinishEncode(w), UNCHANGED <<request, restarts>>
  PROVE  IInv' /\ Quiet(w)
<1>0. TypeOK /\ QueueInv
  BY DEF IInv
<1>1. UNCHANGED <<jobs, created, videos, presets, faults, server, readyEvents, failedEvents>>
  BY DEF FinishEncode, events
<1>2. worker[w].pc = "encoding"
  BY DEF FinishEncode, At
<1>3. /\ VideoOf(w) \in Videos /\ PresetOf(w) \in Presets
      /\ worker[w].i \in 1 .. Len(Resolutions[PresetOf(w)])
      /\ Resolutions[PresetOf(w)] \in Seq(Height)
  BY <1>0, <1>2, JobOfWorker, PresetsAssumption DEF QueueInv, WorkerOK
<1>4. HeightAt(w) \in Height
  BY <1>3 DEF HeightAt
<1>5. /\ worker' \in [Workers -> WorkerRow] /\ OnlyMoves(w)
      /\ worker'[w].job = worker[w].job /\ worker'[w].snap = worker[w].snap
      /\ \/ worker'[w].pc = "complete"
         \/ /\ worker'[w].pc = "encode" /\ worker'[w].i = worker[w].i + 1
            /\ worker[w].i # Len(Resolutions[PresetOf(w)])
  <2>1. worker \in [Workers -> WorkerRow]
    BY <1>0 DEF TypeOK, WorkerTypeOK
  <2>2. CASE worker' = [worker EXCEPT ![w] = [worker[w] EXCEPT !.pc = "complete"]]
    BY <2>1, <2>2 DEF WorkerRow, OnlyMoves, Holding
  <2>3. CASE /\ worker' = [worker EXCEPT ![w] =
                  [worker[w] EXCEPT !.pc = "encode", !.i = worker[w].i + 1]]
             /\ worker[w].i # Len(Resolutions[PresetOf(w)])
    <3>1. \A r \in WorkerRow, n \in Nat :
            LET q == [r EXCEPT !.pc = "encode", !.i = n] IN
              /\ q \in WorkerRow /\ q.pc = "encode" /\ q.i = n
              /\ q.job = r.job /\ q.snap = r.snap
      BY DEF WorkerRow, Holding
    <3>2. worker[w] \in WorkerRow /\ worker[w].i + 1 \in Nat
      BY <2>1 DEF WorkerRow
    <3> QED
      BY <2>1, <2>3, <3>1, <3>2 DEF OnlyMoves
  <2> QED
    <3>1. CASE LastResolution(w)
      BY <3>1, <2>2 DEF FinishEncode
    <3>2. CASE ~LastResolution(w)
      BY <3>2, <2>3 DEF FinishEncode, LastResolution
    <3> QED
      BY <3>1, <3>2
<1>6. PresetOf(w)' = PresetOf(w)
  BY <1>1, <1>5 DEF PresetOf
<1>7. KeepsOrDrops(w) /\ WorkerOK(w)'
  BY <1>0, <1>1, <1>2, <1>3, <1>5, <1>6 DEF KeepsOrDrops, Holding, QueueInv, WorkerOK
<1>8. disk' \in [Videos -> Files]
  BY <1>0, <1>3, <1>4 DEF FinishEncode, TypeOK, StoreTypeOK, Files
<1> QED
  BY <1>0, <1>1, <1>5, <1>7, <1>8, PlainStep DEF TypeOK, StoreTypeOK, WorkerTypeOK

\* Fail, or its error dropped.
LEMMA RecordFailureStep ==
  ASSUME IInv, NEW w \in Workers, RecordFailure(w), UNCHANGED <<request, restarts>>
  PROVE  IInv' /\ (Quiet(w) \/ Drops(w))
<1>0. TypeOK /\ QueueInv
  BY DEF IInv
<1>1. UNCHANGED <<created, videos, presets, disk, server, readyEvents, failedEvents>>
  BY DEF RecordFailure, events
<1>2. faults' \in 0 .. MaxFaults
  BY <1>0, FaultsOK DEF RecordFailure
<1>3. worker[w].pc \in {"fail", "reject"} /\ (Goto(w, "notify") \/ BackToIdle(w))
  BY DEF RecordFailure, At
<1>4. /\ worker' \in [Workers -> WorkerRow] /\ OnlyMoves(w)
      /\ worker'[w].pc \notin Holding /\ WorkerOK(w)'
  <2>1. CASE Goto(w, "notify")
    BY <2>1, <1>0, <1>1, <1>3, GotoEffect, GotoOK DEF PCs, Holding
  <2>2. CASE BackToIdle(w)
    BY <2>2, <1>0, IdleEffect DEF Holding
  <2> QED
    BY <1>3, <2>1, <2>2
<1>5. CASE UNCHANGED jobs
  BY <1>0, <1>1, <1>2, <1>4, <1>5, PlainStep DEF KeepsOrDrops, TypeOK, StoreTypeOK, WorkerTypeOK
<1>6. CASE FailRow(worker[w].job)
  <2>1. DropsRow(w)
    BY <1>3, <1>4, <1>6 DEF DropsRow, Holding
  <2>2. QueueInv'
    BY <2>1, <1>0, <1>1, <1>4, DropsQueueInv
  <2>3. jobs' \in [JobIds -> JobRow]
    BY <2>1, <1>0, DropsRowEffect
  <2>4. TypeOK'
    BY <2>3, <1>0, <1>1, <1>2, <1>4 DEF TypeOK, StoreTypeOK, WorkerTypeOK, RequestTypeOK
  <2> QED
    BY <1>4, <2>1, <2>2, <2>4 DEF IInv, ClientOK, Drops
<1> QED
  BY <1>5, <1>6 DEF RecordFailure

\* Complete, or the job left as it is.
LEMMA RecordCompleteStep ==
  ASSUME IInv, NEW w \in Workers, RecordComplete(w), UNCHANGED <<request, restarts>>
  PROVE  IInv' /\ (Quiet(w) \/ Drops(w))
<1>0. TypeOK /\ QueueInv
  BY DEF IInv
<1>1. UNCHANGED <<created, videos, presets, disk, server, readyEvents, failedEvents>>
  BY DEF RecordComplete, events
<1>2. faults' \in 0 .. MaxFaults
  BY <1>0, FaultsOK DEF RecordComplete
<1>3. worker[w].pc = "complete"
  BY DEF RecordComplete, At
<1>4. CASE UNCHANGED jobs /\ BackToIdle(w)
  BY <1>0, <1>1, <1>2, <1>4, IdleEffect, PlainStep
  DEF KeepsOrDrops, Holding, TypeOK, StoreTypeOK, WorkerTypeOK
<1>5. CASE CompleteRow(worker[w].job) /\ Goto(w, "check")
  <2>1. /\ worker' \in [Workers -> WorkerRow] /\ OnlyMoves(w)
        /\ worker'[w].pc \notin Holding /\ WorkerOK(w)'
    BY <1>0, <1>1, <1>3, <1>5, GotoEffect, GotoOK DEF PCs, Holding, Finishing
  <2>2. DropsRow(w)
    BY <2>1, <1>3, <1>5 DEF DropsRow, Holding
  <2>3. QueueInv'
    BY <2>1, <2>2, <1>0, <1>1, DropsQueueInv
  <2>4. jobs' \in [JobIds -> JobRow]
    BY <2>2, <1>0, DropsRowEffect
  <2>5. TypeOK'
    BY <2>1, <2>4, <1>0, <1>1, <1>2 DEF TypeOK, StoreTypeOK, WorkerTypeOK, RequestTypeOK
  <2> QED
    BY <2>1, <2>2, <2>3, <2>5 DEF IInv, ClientOK, Drops
<1> QED
  BY <1>4, <1>5 DEF RecordComplete

\* The event transcode.failed.
LEMMA NotifyFailureStep ==
  ASSUME IInv, NEW w \in Workers, NotifyFailure(w), UNCHANGED <<request, restarts>>
  PROVE  IInv' /\ Quiet(w)
<1>0. TypeOK /\ QueueInv
  BY DEF IInv
<1>1. UNCHANGED <<jobs, created, videos, presets, disk, server, readyEvents>>
  BY DEF NotifyFailure
<1>2. faults' \in 0 .. MaxFaults
  BY <1>0, FaultsOK DEF NotifyFailure
<1>3. failedEvents' \in [JobIds -> Nat]
  BY <1>0 DEF NotifyFailure, TypeOK, WorkerTypeOK
<1>4. BackToIdle(w)
  BY DEF NotifyFailure
<1> QED
  BY <1>0, <1>1, <1>2, <1>3, <1>4, IdleEffect, PlainStep
  DEF KeepsOrDrops, Holding, TypeOK, StoreTypeOK, WorkerTypeOK

\* The statements on the video's row, by a finisher or a request.
LEMMA VideoWrites ==
  ASSUME TypeOK, NEW v \in Videos, NEW s \in VideoStatus,
         \/ UpdateStatus(v, s)
         \/ SetMasterPlaylist(v)
         \/ CreateVideo(v)
         \/ SoftDelete(v)
         \/ UNCHANGED videos
  PROVE  videos' \in [Videos -> VideoRow]
<1>1. videos \in [Videos -> VideoRow]
  BY DEF TypeOK, StoreTypeOK
<1>2. CASE UpdateStatus(v, s) \/ UNCHANGED videos
  BY <1>1, <1>2 DEF VideoRow, UpdateStatus
<1>3. CASE SetMasterPlaylist(v)
  BY <1>1, <1>3 DEF VideoRow, SetMasterPlaylist
<1>4. CASE CreateVideo(v)
  BY <1>1, <1>4 DEF VideoRow, VideoStatus, CreateVideo
<1>5. CASE SoftDelete(v)
  BY <1>1, <1>5 DEF VideoRow, VideoStatus, SoftDelete
<1> QED
  BY <1>2, <1>3, <1>4, <1>5

\* A finisher's writes to its video's row.
LEMMA RowWritesStep ==
  ASSUME IInv, NEW w \in Workers, MarkReady(w) \/ RecordPlaylist(w), UNCHANGED <<request, restarts>>
  PROVE  IInv' /\ Quiet(w)
<1>0. TypeOK /\ QueueInv
  BY DEF IInv
<1>1. UNCHANGED <<jobs, created, presets, disk, server, readyEvents, failedEvents>>
  BY DEF MarkReady, RecordPlaylist, events
<1>2. faults' \in 0 .. MaxFaults
  BY <1>0, FaultsOK DEF MarkReady, RecordPlaylist
<1>3. worker[w].pc \in {"ready", "master"} /\ (Goto(w, "list") \/ Goto(w, "announce"))
  BY DEF MarkReady, RecordPlaylist, At
<1>4. videos' \in [Videos -> VideoRow]
  BY <1>0, <1>3, JobOfWorker, VideoWrites DEF MarkReady, RecordPlaylist, VideoStatus
<1>5. /\ worker' \in [Workers -> WorkerRow] /\ OnlyMoves(w)
      /\ KeepsOrDrops(w) /\ WorkerOK(w)'
  BY <1>0, <1>1, <1>3, GotoEffect, GotoOK DEF PCs, Holding, Finishing, KeepsOrDrops
<1> QED
  BY <1>0, <1>1, <1>2, <1>4, <1>5, PlainStep DEF TypeOK, StoreTypeOK, WorkerTypeOK

\* The finisher's snapshot names rows that exist.
LEMMA ListJobsStep ==
  ASSUME IInv, NEW w \in Workers, ListJobs(w), UNCHANGED <<request, restarts>>
  PROVE  IInv' /\ Quiet(w)
<1>0. TypeOK /\ QueueInv
  BY DEF IInv
<1>1. UNCHANGED <<jobs, created, videos, presets, disk, server, readyEvents, failedEvents>>
  BY DEF ListJobs, events
<1>2. faults' \in 0 .. MaxFaults
  BY <1>0, FaultsOK DEF ListJobs
<1>3. worker[w].pc = "list"
  BY DEF ListJobs, At
<1>4. /\ worker' \in [Workers -> WorkerRow] /\ OnlyMoves(w)
      /\ KeepsOrDrops(w) /\ WorkerOK(w)'
  <2>1. CASE Goto(w, "announce")
    BY <2>1, <1>0, <1>1, <1>3, GotoEffect, GotoOK DEF PCs, Holding, Finishing, KeepsOrDrops
  <2>2. CASE worker' = [worker EXCEPT ![w].pc = "playlist", ![w].snap = CompletedJobsOf(VideoOf(w))]
    <3> DEFINE S == CompletedJobsOf(VideoOf(w))
    <3>1. S \subseteq JobIds /\ S \subseteq 1 .. created
      BY <1>0 DEF CompletedJobsOf, JobsOf, QueueInv, RowOK, TypeOK, StoreTypeOK, JobIds
    <3> HIDE DEF S
    <3>2. /\ worker' \in [Workers -> WorkerRow] /\ OnlyMoves(w)
          /\ worker'[w].pc = "playlist" /\ worker'[w].job = worker[w].job /\ worker'[w].snap = S
      <4>1. worker' = [worker EXCEPT ![w].pc = "playlist", ![w].snap = S]
        BY <2>2 DEF S
      <4> QED
        BY <4>1, <3>1, <1>0 DEF TypeOK, WorkerTypeOK, WorkerRow, OnlyMoves, Finishing
    <3> QED
      BY <3>1, <3>2, <1>0, <1>1, <1>3 DEF KeepsOrDrops, Holding, QueueInv, WorkerOK
  <2> QED
    BY <2>1, <2>2 DEF ListJobs
<1> QED
  BY <1>0, <1>1, <1>2, <1>4, PlainStep DEF TypeOK, StoreTypeOK, WorkerTypeOK

\* The playlist lists heights of presets that rows name.
LEMMA PutPlaylistStep ==
  ASSUME IInv, NEW w \in Workers, PutPlaylist(w), UNCHANGED <<request, restarts>>
  PROVE  IInv' /\ Quiet(w)
<1>0. TypeOK /\ QueueInv
  BY DEF IInv
<1>1. UNCHANGED <<jobs, created, videos, presets, server, readyEvents, failedEvents>>
  BY DEF PutPlaylist, events
<1>2. faults' \in 0 .. MaxFaults
  BY <1>0, FaultsOK, BoundsAssumption DEF PutPlaylist, Fault, TypeOK, StoreTypeOK
<1>3. worker[w].pc = "playlist" /\ Goto(w, "master")
  BY DEF PutPlaylist, At
<1>4. disk' \in [Videos -> Files]
  <2>1. CASE UNCHANGED disk
    BY <2>1, <1>0 DEF TypeOK, StoreTypeOK
  <2>2. ASSUME NEW read \in SUBSET worker[w].snap,
               disk' = [disk EXCEPT ![VideoOf(w)].master = TRUE,
                          ![VideoOf(w)].listed = UNION {HeightsOf(jobs[j].preset) : j \in read}]
        PROVE  disk' \in [Videos -> Files]
    <3> DEFINE L == UNION {HeightsOf(jobs[j].preset) : j \in read}
    <3>1. \A p \in Presets : HeightsOf(p) \subseteq Height
      BY PresetsAssumption DEF HeightsOf
    <3>2. \A j \in read : jobs[j].preset \in Presets
      BY <1>0, BoundsAssumption DEF QueueInv, WorkerOK, RowOK, JobIds, TypeOK, StoreTypeOK
    <3>3. L \subseteq Height
      BY <3>1, <3>2
    <3>4. disk' = [disk EXCEPT ![VideoOf(w)].master = TRUE, ![VideoOf(w)].listed = L]
      BY <2>2
    <3> HIDE DEF L
    <3> QED
      BY <3>3, <3>4, <1>0 DEF TypeOK, StoreTypeOK, Files
  <2> QED
    BY <2>1, <2>2 DEF PutPlaylist
<1>5. /\ worker' \in [Workers -> WorkerRow] /\ OnlyMoves(w)
      /\ KeepsOrDrops(w) /\ WorkerOK(w)'
  BY <1>0, <1>1, <1>3, GotoEffect, GotoOK DEF PCs, Holding, Finishing, KeepsOrDrops
<1> QED
  BY <1>0, <1>1, <1>2, <1>4, <1>5, PlainStep DEF TypeOK, StoreTypeOK, WorkerTypeOK

\* The event video.ready.
LEMMA AnnounceStep ==
  ASSUME IInv, NEW w \in Workers, Announce(w), UNCHANGED <<request, restarts>>
  PROVE  IInv' /\ Quiet(w)
<1>0. TypeOK /\ QueueInv
  BY DEF IInv
<1>1. UNCHANGED <<jobs, created, videos, presets, disk, server, failedEvents>>
  BY DEF Announce
<1>2. faults' \in 0 .. MaxFaults
  BY <1>0, FaultsOK DEF Announce
<1>3. readyEvents' \in [Videos -> Nat]
  BY <1>0 DEF Announce, TypeOK, WorkerTypeOK
<1>4. BackToIdle(w)
  BY DEF Announce
<1> QED
  BY <1>0, <1>1, <1>2, <1>3, <1>4, IdleEffect, PlainStep
  DEF KeepsOrDrops, Holding, TypeOK, StoreTypeOK, WorkerTypeOK

\* Whatever a worker does keeps the invariant.
LEMMA PoolStepIInv ==
  ASSUME IInv, NEW w \in Workers, PoolStep(w)
  PROVE  IInv' /\ (Quiet(w) \/ Takes(w) \/ Drops(w))
<1>1. UNCHANGED <<request, restarts>>
  BY DEF PoolStep
<1>2. CASE NoWork(w)
  BY <1>1, <1>2, FrameQueueInv
  DEF Quiet, OnlyMoves, KeepsOrDrops, NoWork, storeVars, workerVars, events, IInv, ClientOK, TypeOK, StoreTypeOK, WorkerTypeOK, RequestTypeOK
<1>3. CASE LookupVideo(w) \/ EncodeFails(w) \/ CheckAllDone(w) \/ LeaveRun(w)
  BY <1>1, <1>3, WalkStep
<1>4. CASE Claim(w) \/ ClaimReplyLost(w)
  BY <1>1, <1>4, ClaimStep, ClaimReplyLostStep
<1>5. CASE LookupPreset(w) \/ StartEncode(w) \/ FinishEncode(w)
  BY <1>1, <1>5, LookupPresetStep, StartEncodeStep, FinishEncodeStep
<1>6. CASE RecordFailure(w) \/ NotifyFailure(w) \/ RecordComplete(w)
  BY <1>1, <1>6, RecordFailureStep, NotifyFailureStep, RecordCompleteStep
<1>7. CASE MarkReady(w) \/ RecordPlaylist(w) \/ ListJobs(w) \/ PutPlaylist(w) \/ Announce(w)
  BY <1>1, <1>7, RowWritesStep, ListJobsStep, PutPlaylistStep, AnnounceStep
<1> QED
  BY <1>2, <1>3, <1>4, <1>5, <1>6, <1>7 DEF PoolStep, WorkerStep, ProcessJob

----------------------------------------------------------------------------
(* The requests' actions *)

\* A request that writes no row of the queue.
LEMMA RequestFrame ==
  ASSUME IInv, request' \in [Clients -> RequestRow], \A c \in Clients : ClientOK(c)',
         presets' \in SUBSET Presets, faults' \in 0 .. MaxFaults,
         videos' \in [Videos -> VideoRow], disk' \in [Videos -> Files],
         UNCHANGED <<jobs, created, workerVars, server, restarts>>
  PROVE  IInv' /\ UNCHANGED jobs
<1>1. QueueInv'
  BY FrameQueueInv DEF IInv, workerVars
<1>2. TypeOK'
  BY DEF IInv, TypeOK, StoreTypeOK, WorkerTypeOK, RequestTypeOK, RequestRow, workerVars, events
<1> QED
  BY <1>1, <1>2 DEF IInv

\* A request moves on or returns.
LEMMA RequestMoves ==
  ASSUME IInv, NEW c \in Clients, Return(c) \/ GotoPc(c, "presets"),
         request[c].pc # "idle"
  PROVE  request' \in [Clients -> RequestRow] /\ \A d \in Clients : ClientOK(d)'
<1>1. request \in [Clients -> RequestRow] /\ \A d \in Clients : ClientOK(d)
  BY DEF IInv, TypeOK, RequestTypeOK, RequestRow
<1>2. IdleClient \in RequestRow /\ IdleClient.pc = "idle"
  BY DEF IdleClient, RequestRow
<1>3. CASE Return(c)
  BY <1>1, <1>2, <1>3 DEF Return, ClientOK
<1>4. CASE GotoPc(c, "presets")
  BY <1>1, <1>4 DEF GotoPc, ClientOK, RequestRow
<1> QED
  BY <1>3, <1>4

\* The same for a request's call.
LEMMA FaultOK ==
  ASSUME TypeOK, UNCHANGED faults \/ Fault PROVE faults' \in 0 .. MaxFaults
BY BoundsAssumption DEF TypeOK, StoreTypeOK, Fault

\* Upload's source file.
LEMMA UploadStoreStep ==
  ASSUME IInv, NEW c \in Clients, NEW v \in Videos, UploadStore(c, v),
         UNCHANGED <<workerVars, server, restarts>>
  PROVE  IInv' /\ UNCHANGED jobs
<1>1. request' \in [Clients -> RequestRow] /\ \A d \in Clients : ClientOK(d)'
  BY DEF IInv, TypeOK, RequestTypeOK, RequestRow, UploadStore, ClientOK
<1>2. disk' \in [Videos -> Files]
  BY DEF IInv, TypeOK, StoreTypeOK, Files, UploadStore
<1> QED
  BY <1>1, <1>2, RequestFrame DEF UploadStore, IInv, TypeOK, StoreTypeOK

\* Upload's row, or the source removed again.
LEMMA UploadCreateStep ==
  ASSUME IInv, NEW c \in Clients, UploadCreate(c), UNCHANGED <<workerVars, server, restarts>>
  PROVE  IInv' /\ UNCHANGED jobs
<1>1. /\ request[c].pc = "create" /\ request[c].video \in Videos
      /\ UNCHANGED <<jobs, created, presets>>
  BY DEF UploadCreate, Serving, IInv, ClientOK
<1>2. request' \in [Clients -> RequestRow] /\ \A d \in Clients : ClientOK(d)'
  BY <1>1, RequestMoves DEF UploadCreate
<1>3. faults' \in 0 .. MaxFaults
  BY FaultOK DEF UploadCreate, IInv
<1>4. videos' \in [Videos -> VideoRow]
  BY <1>1, VideoWrites DEF UploadCreate, IInv, VideoStatus
<1>5. disk' \in [Videos -> Files]
  <2>1. disk \in [Videos -> Files]
    BY DEF IInv, TypeOK, StoreTypeOK
  <2>2. disk' = disk \/ disk' = [disk EXCEPT ![request[c].video].source = FALSE]
    BY DEF UploadCreate
  <2> QED
    BY <1>1, <2>1, <2>2 DEF Files
<1> QED
  BY <1>1, <1>2, <1>3, <1>4, <1>5, RequestFrame DEF IInv, TypeOK, StoreTypeOK

\* Upload's list of presets.
LEMMA UploadListDefaultsStep ==
  ASSUME IInv, NEW c \in Clients, UploadListDefaults(c), UNCHANGED <<workerVars, server, restarts>>
  PROVE  IInv' /\ UNCHANGED jobs
<1>1. /\ request[c].pc = "presets" /\ UNCHANGED <<jobs, created, presets, videos, disk>>
  BY DEF UploadListDefaults, Serving
<1>2. request' \in [Clients -> RequestRow] /\ \A d \in Clients : ClientOK(d)'
  <2>1. CASE Return(c)
    BY <2>1, <1>1, RequestMoves
  <2>2. CASE request' = [request EXCEPT ![c].pc = "enqueue", ![c].todo = DefaultPresets \cap presets]
    <3>1. DefaultPresets \cap presets \in SUBSET Presets
      BY DEF IInv, TypeOK, StoreTypeOK
    <3> QED
      BY <2>2, <3>1, <1>1 DEF IInv, TypeOK, RequestTypeOK, RequestRow, ClientOK
  <2> QED
    BY <2>1, <2>2 DEF UploadListDefaults
<1>3. faults' \in 0 .. MaxFaults
  BY FaultOK DEF UploadListDefaults, IInv
<1> QED
  BY <1>1, <1>2, <1>3, RequestFrame DEF IInv, TypeOK, StoreTypeOK

\* Retranscode's list of presets.
LEMMA RetranscodeStartStep ==
  ASSUME IInv, NEW c \in Clients, NEW v \in Videos, NEW ids, RetranscodeStart(c, v, ids),
         UNCHANGED <<workerVars, server, restarts>>
  PROVE  IInv' /\ UNCHANGED jobs
<1> DEFINE found == (IF ids = {} THEN DefaultPresets ELSE ids) \cap presets
<1>1. found \in SUBSET Presets
  BY DEF IInv, TypeOK, StoreTypeOK
<1>2. request' = [request EXCEPT ![c] =
          [op |-> "retranscode", pc |-> IF found = {} THEN "status" ELSE "enqueue",
           video |-> v, todo |-> found]]
  BY DEF RetranscodeStart
<1>3. UNCHANGED storeVars
  BY DEF RetranscodeStart
<1> HIDE DEF found
<1>4. request' \in [Clients -> RequestRow] /\ \A d \in Clients : ClientOK(d)'
  BY <1>1, <1>2 DEF IInv, TypeOK, RequestTypeOK, RequestRow, ClientOK
<1> QED
  BY <1>3, <1>4, RequestFrame DEF storeVars, IInv, TypeOK, StoreTypeOK

\* The status both write last.
LEMMA SetProcessingStep ==
  ASSUME IInv, NEW c \in Clients, SetProcessing(c), UNCHANGED <<workerVars, server, restarts>>
  PROVE  IInv' /\ UNCHANGED jobs
<1>1. /\ request[c].pc = "status" /\ request[c].video \in Videos
      /\ Return(c) /\ UNCHANGED <<jobs, created, presets, disk>>
  BY DEF SetProcessing, IInv, ClientOK
<1>2. request' \in [Clients -> RequestRow] /\ \A d \in Clients : ClientOK(d)'
  BY <1>1, RequestMoves
<1>3. faults' \in 0 .. MaxFaults
  BY FaultOK DEF SetProcessing, IInv
<1>4. videos' \in [Videos -> VideoRow]
  BY <1>1, VideoWrites DEF SetProcessing, IInv, VideoStatus
<1> QED
  BY <1>1, <1>2, <1>3, <1>4, RequestFrame DEF IInv, TypeOK, StoreTypeOK

\* Deletion of a video or a preset.
LEMMA RemovalStep ==
  ASSUME IInv, UNCHANGED <<workerVars, server, restarts>>,
         \/ \E v \in Videos : DeleteVideo(v)
         \/ \E p \in Presets : RemovePreset(p)
  PROVE  IInv' /\ UNCHANGED jobs
<1>1. UNCHANGED <<jobs, created, disk, faults, request>> /\ presets' \in SUBSET Presets
  BY DEF DeleteVideo, RemovePreset, DeletePreset, IInv, TypeOK, StoreTypeOK
<1>2. videos' \in [Videos -> VideoRow]
  <2>1. CASE \E v \in Videos : DeleteVideo(v)
    BY <2>1, VideoWrites DEF DeleteVideo, IInv, VideoStatus
  <2>2. CASE \E p \in Presets : RemovePreset(p)
    BY <2>2 DEF RemovePreset, IInv, TypeOK, StoreTypeOK
  <2> QED
    BY <2>1, <2>2
<1>3. request' \in [Clients -> RequestRow] /\ \A d \in Clients : ClientOK(d)'
  BY <1>1 DEF IInv, TypeOK, RequestTypeOK, RequestRow, ClientOK
<1> QED
  BY <1>1, <1>2, <1>3, RequestFrame DEF IInv, TypeOK, StoreTypeOK

\* Enqueue inserts the next row, which no worker has.
LEMMA InsertRowEffect ==
  ASSUME TypeOK, NEW v \in Videos, NEW p, InsertJob(v, p)
  PROVE  /\ created + 1 \in JobIds /\ created' = created + 1
         /\ jobs' \in [JobIds -> JobRow]
         /\ \A k \in JobIds : k # created + 1 => jobs'[k] = jobs[k]
         /\ jobs'[created + 1].status = "pending" /\ jobs'[created + 1].attempts = 0
         /\ jobs'[created + 1].video = v /\ jobs'[created + 1].preset = p
<1>1. created + 1 \in JobIds /\ created' = created + 1
  BY BoundsAssumption DEF InsertJob, TypeOK, StoreTypeOK, JobIds
<1>2. jobs \in [JobIds -> JobRow] /\ p \in Presets
  BY DEF InsertJob, TypeOK, StoreTypeOK
<1>3. NoJob \in JobRow /\ NoJob.attempts = 0
  BY BoundsAssumption DEF NoJob, JobRow, JobStatus
<1>4. \A r \in JobRow :
        LET q == [r EXCEPT !.status = "pending", !.video = v, !.preset = p] IN
          /\ q \in JobRow /\ q.status = "pending" /\ q.attempts = r.attempts
          /\ q.video = v /\ q.preset = p
  BY <1>2 DEF JobRow, JobStatus
<1>5. jobs' = [jobs EXCEPT ![created + 1] =
                 [NoJob EXCEPT !.status = "pending", !.video = v, !.preset = p]]
  BY DEF InsertJob
<1> QED
  BY <1>1, <1>2, <1>3, <1>4, <1>5

\* A new row, or the request's end at an error.
LEMMA EnqueueStep ==
  ASSUME IInv, NEW c \in Clients, Enqueue(c), UNCHANGED <<workerVars, server, restarts>>
  PROVE  IInv' /\ (UNCHANGED jobs \/ Inserts)
<1>0. TypeOK /\ QueueInv
  BY DEF IInv
<1>1. /\ request[c].pc = "enqueue" /\ request[c].video \in Videos
      /\ UNCHANGED <<videos, presets, disk, worker>>
  BY DEF Enqueue, IInv, ClientOK, workerVars
<1>2. CASE Return(c) /\ UNCHANGED <<jobs, created>> /\ (UNCHANGED faults \/ Fault)
  <2>1. request' \in [Clients -> RequestRow] /\ \A d \in Clients : ClientOK(d)'
    BY <1>1, <1>2, RequestMoves
  <2>2. faults' \in 0 .. MaxFaults
    BY <1>0, <1>2, FaultOK
  <2> QED
    BY <1>0, <1>1, <1>2, <2>1, <2>2, RequestFrame DEF TypeOK, StoreTypeOK
<1>3. ASSUME NEW p \in request[c].todo, InsertJob(request[c].video, p), UNCHANGED faults,
             request' = [request EXCEPT ![c].todo = @ \ {p},
               ![c].pc = IF request[c].todo = {p} THEN "status" ELSE "enqueue"]
      PROVE  IInv' /\ Inserts
  <2> DEFINE n == created + 1
             v == request[c].video
  <2>1. /\ n \in JobIds /\ created' = n
        /\ jobs' \in [JobIds -> JobRow]
        /\ \A k \in JobIds : k # n => jobs'[k] = jobs[k]
        /\ jobs'[n].status = "pending" /\ jobs'[n].attempts = 0
        /\ jobs'[n].video = v /\ jobs'[n].preset = p
    BY <1>0, <1>1, <1>3, InsertRowEffect
  <2>2. p \in Presets
    BY <1>0, <1>3 DEF InsertJob, TypeOK, StoreTypeOK
  <2>3. request' \in [Clients -> RequestRow] /\ \A d \in Clients : ClientOK(d)'
    <3>1. request \in [Clients -> RequestRow] /\ \A d \in Clients : ClientOK(d)
      BY DEF IInv, TypeOK, RequestTypeOK, RequestRow
    <3>2. PICK S \in SUBSET Presets, pc \in {"status", "enqueue"} :
            request' = [request EXCEPT ![c].todo = S, ![c].pc = pc]
      <4>1. request[c].todo \ {p} \in SUBSET Presets
        BY <3>1 DEF RequestRow
      <4> QED
        BY <1>3, <4>1
    <3> QED
      BY <1>1, <3>1, <3>2 DEF RequestRow, ClientOK
  <2>4. \A k \in JobIds : RowOK(k)'
    BY <1>0, <1>1, <2>1, <2>2 DEF QueueInv, RowOK, TypeOK, StoreTypeOK, JobIds
  <2>5. ASSUME NEW w \in Workers PROVE WorkerOK(w)'
    <3>1. WorkerOK(w) /\ 1 .. created \subseteq JobIds /\ 1 .. created \subseteq 1 .. n
      BY <1>0, BoundsAssumption DEF QueueInv, TypeOK, StoreTypeOK, JobIds
    <3>2. worker[w].job \in 1 .. created => PresetOf(w)' = PresetOf(w)
      BY <1>0, <1>1, <2>1, <3>1 DEF PresetOf, TypeOK, StoreTypeOK
    <3> QED
      BY <1>1, <2>1, <3>1, <3>2 DEF WorkerOK
  <2>6. HeldRowIsClaimed'
    <3>1. jobs[n].status # "processing"
      BY <1>0, <2>1 DEF QueueInv, RowOK, TypeOK, StoreTypeOK
    <3> QED
      BY <1>0, <1>1, <2>1, <3>1 DEF QueueInv, HeldRowIsClaimed, Holds
  <2>7. RetriesExhausted'
    BY <1>0, <2>1, BoundsAssumption DEF QueueInv, RetriesExhausted
  <2>8. TypeOK'
    <3>1. created' \in 0 .. MaxJobs
      BY <2>1, BoundsAssumption DEF JobIds
    <3> QED
      BY <1>0, <1>1, <1>3, <2>1, <2>3, <3>1
      DEF TypeOK, StoreTypeOK, WorkerTypeOK, RequestTypeOK, RequestRow, workerVars, events
  <2> QED
    BY <1>1, <1>3, <2>2, <2>3, <2>4, <2>5, <2>6, <2>7, <2>8 DEF IInv, QueueInv, Inserts
<1> QED
  BY <1>2, <1>3 DEF Enqueue

\* Whatever a request does keeps the invariant.
LEMMA RequestStepIInv ==
  ASSUME IInv, RequestStep
  PROVE  IInv' /\ UNCHANGED worker /\ (UNCHANGED jobs \/ Inserts)
<1>1. UNCHANGED <<workerVars, server, restarts>> /\ UNCHANGED worker
  BY DEF RequestStep, workerVars
<1>2. CASE \E c \in Clients, v \in Videos : UploadStore(c, v)
  BY <1>1, <1>2, UploadStoreStep
<1>3. CASE \E c \in Clients, v \in Videos, ids \in RetranscodeChoices : RetranscodeStart(c, v, ids)
  BY <1>1, <1>3, RetranscodeStartStep
<1>4. CASE \E c \in Clients : Serve(c)
  BY <1>1, <1>4, UploadCreateStep, UploadListDefaultsStep, EnqueueStep, SetProcessingStep DEF Serve
<1>5. CASE \/ \E v \in DeletableVideos : DeleteVideo(v)
           \/ \E p \in DeletablePresets : RemovePreset(p)
  BY <1>1, <1>5, RemovalStep, PipelineAssumption
<1> QED
  BY <1>2, <1>3, <1>4, <1>5 DEF RequestStep

----------------------------------------------------------------------------
(* The process's actions *)

\* The process's start, stop, exit and crash keep it.
LEMMA ProcessIInv ==
  ASSUME IInv, Stop \/ Exit \/ Crash \/ Restart
  PROVE  IInv' /\ UNCHANGED jobs /\ OnlyDrops
<1>1. UNCHANGED storeVars /\ UNCHANGED events
  BY DEF Stop, Exit, Crash, Restart, ProcessGone, workerVars
<1>2. server' \in {"up", "stopping", "down"} /\ restarts' \in 0 .. MaxRestarts
  BY PipelineAssumption DEF Stop, Exit, Crash, Restart, ProcessGone, IInv, TypeOK
<1>3. request' \in [Clients -> RequestRow] /\ \A c \in Clients : ClientOK(c)'
  BY DEF Stop, Exit, Crash, Restart, ProcessGone, IdleClient, RequestRow, ClientOK, IInv, TypeOK,
         RequestTypeOK
<1>4. QueueInv' /\ worker' \in [Workers -> WorkerRow] /\ OnlyDrops
  <2>1. CASE Stop
    BY <2>1, <1>1, FrameQueueInv
    DEF Stop, storeVars, workerVars, IInv, TypeOK, WorkerTypeOK, OnlyDrops, Holds
  <2>2. CASE Exit \/ Crash \/ Restart
    <3>1. \/ worker' = [w \in Workers |-> ExitedWorker]
          \/ worker' = [w \in Workers |-> IdleWorker]
      BY <2>2 DEF Exit, Crash, Restart, ProcessGone
    <3>2. /\ IdleWorker \in WorkerRow /\ IdleWorker.pc = "idle" /\ IdleWorker.snap = {}
          /\ ExitedWorker \in WorkerRow /\ ExitedWorker.pc = "exited" /\ ExitedWorker.snap = {}
      BY DEF IdleWorker, ExitedWorker, WorkerRow
    <3> QED
      BY <3>1, <3>2, <1>1, EmptyQueueInv DEF storeVars, IInv, OnlyDrops, Holds, Holding
  <2> QED
    BY <2>1, <2>2
<1>5. TypeOK'
  BY <1>1, <1>2, <1>3, <1>4
  DEF IInv, TypeOK, StoreTypeOK, WorkerTypeOK, RequestTypeOK, RequestRow, storeVars, events
<1> QED
  BY <1>1, <1>3, <1>4, <1>5 DEF IInv, storeVars

\* The four ways a step touches the queue.
QueueStep ==
  \/ UNCHANGED jobs /\ OnlyDrops
  \/ \E w \in Workers : Takes(w) \/ Drops(w)
  \/ UNCHANGED worker /\ Inserts

\* Every step keeps the invariant and touches the queue in one of the four ways.
LEMMA NextIInv == IInv /\ [Next]_vars => IInv' /\ QueueStep
<1> SUFFICES ASSUME IInv, [Next]_vars PROVE IInv' /\ QueueStep
  OBVIOUS
<1>0. UNCHANGED worker => OnlyDrops
  BY DEF OnlyDrops, Holds
<1>1. CASE UNCHANGED vars
  BY <1>0, <1>1, FrameQueueInv
  DEF vars, storeVars, workerVars, events, IInv, ClientOK, TypeOK, StoreTypeOK, WorkerTypeOK,
      RequestTypeOK, QueueStep
<1>2. ASSUME NEW w \in Workers, PoolStep(w) PROVE IInv' /\ QueueStep
  <2>1. Quiet(w) => OnlyDrops
    BY DEF Quiet, OnlyMoves, KeepsOrDrops, OnlyDrops, Holds
  <2> QED
    BY <1>2, <2>1, PoolStepIInv DEF QueueStep, Quiet
<1>3. CASE RequestStep
  BY <1>0, <1>3, RequestStepIInv DEF QueueStep
<1>4. CASE Stop \/ Exit \/ Crash \/ Restart
  BY <1>4, ProcessIInv DEF QueueStep
<1> QED
  BY <1>1, <1>2, <1>3, <1>4 DEF Next

----------------------------------------------------------------------------
(* The theorems *)

\* The invariant holds in every state of every run.
THEOREM InvariantHolds == Spec => []IInv
BY InitIInv, NextIInv, PTL DEF Spec

\* Every variable stays in its type, however many workers, requests and faults.
THEOREM TypesHold == Spec => []TypeOK
<1>1. IInv => TypeOK
  BY DEF IInv
<1> QED
  BY <1>1, InvariantHolds, PTL

\* A job in a worker's hands is claimed by that worker in the table: nobody else's
\* Complete or Fail touches it (ClaimPending's SKIP LOCKED is all that is needed).
THEOREM ClaimsHold == Spec => []HeldRowIsClaimed
<1>1. IInv => HeldRowIsClaimed
  BY DEF IInv, QueueInv
<1> QED
  BY <1>1, InvariantHolds, PTL

\* No two workers run the same job at once, through retries, crashes and restarts.
THEOREM JobsAreExclusive == Spec => []OneWorkerPerJob
<1>1. IInv => OneWorkerPerJob
  BY DEF IInv, QueueInv, HeldRowIsClaimed, OneWorkerPerJob
<1> QED
  BY <1>1, InvariantHolds, PTL

\* A job waits only with attempts left and fails only without.
THEOREM RetriesAreCounted == Spec => []RetriesExhausted
<1>1. IInv => RetriesExhausted
  BY DEF IInv, QueueInv
<1> QED
  BY <1>1, InvariantHolds, PTL

\* A completed or failed job is never touched again.
LEMMA TerminalStep ==
  ASSUME IInv, QueueStep, NEW j \in JobIds, jobs[j].status \in {"completed", "failed"}
  PROVE  jobs'[j] = jobs[j]
<1>0. TypeOK /\ QueueInv
  BY DEF IInv
<1>1. ASSUME NEW w \in Workers, Takes(w) PROVE jobs'[j] = jobs[j]
  BY <1>0, <1>1, ClaimRowEffect DEF Takes
<1>2. ASSUME NEW w \in Workers, Drops(w) PROVE jobs'[j] = jobs[j]
  BY <1>0, <1>2, DropsRowEffect DEF Drops
<1>3. CASE Inserts
  <2>1. RowOK(j)
    BY <1>0 DEF QueueInv
  <2>2. j # created + 1
    BY <1>0, <2>1 DEF RowOK, TypeOK, StoreTypeOK, JobIds
  <2> QED
    BY <1>0, <1>3, <2>2, InsertRowEffect DEF Inserts
<1> QED
  BY <1>1, <1>2, <1>3 DEF QueueStep

\* No late worker, of this process or an earlier one, revives a job that is done
\* or given up.
THEOREM FinishedJobsStay == Spec => TerminalJobsStay
<1>1. IInv /\ [Next]_vars
        => [\A j \in JobIds : jobs[j].status \in {"completed", "failed"} => jobs'[j] = jobs[j]]_vars
  BY NextIInv, TerminalStep
<1> QED
  BY <1>1, InvariantHolds, PTL DEF Spec, TerminalJobsStay

----------------------------------------------------------------------------
(* Every step is a step of the abstract queue *)

\* A job's holder is the worker that has it, if one has.
LEMMA HolderMeaning ==
  ASSUME QueueInv, NEW j \in JobIds
  PROVE  /\ \A w \in Workers : Holds(w, j) <=> HolderOf(j) = w
         /\ HolderOf(j) = None <=> \A w \in Workers : ~Holds(w, j)
         /\ HolderOf(j) \in Workers \cup {None}
BY NoneAssumption DEF HolderOf, QueueInv, HeldRowIsClaimed

\* The same after a step.
LEMMA HolderMeaningAfter ==
  ASSUME QueueInv', NEW j \in JobIds
  PROVE  /\ \A w \in Workers : Holds(w, j)' <=> HolderOf(j)' = w
         /\ HolderOf(j)' = None <=> \A w \in Workers : ~Holds(w, j)'
         /\ HolderOf(j)' \in Workers \cup {None}
BY NoneAssumption DEF HolderOf, QueueInv, HeldRowIsClaimed

\* The queue starts empty.
LEMMA InitRefines == Init => Queue!Init
<1> SUFFICES ASSUME Init PROVE Queue!Init
  OBVIOUS
<1>1. \A j \in JobIds : HolderOf(j) = None
  BY DEF Init, WorkerInit, IdleWorker, HolderOf, Holds, Holding
<1> QED
  BY <1>1 DEF Init, StoreInit, NoJob, Queue!Init

\* Workers vanish, or nothing happens.
LEMMA DropsRefine ==
  ASSUME IInv, IInv', UNCHANGED jobs, OnlyDrops
  PROVE  Queue!Next
<1> DEFINE S == {j \in JobIds : HolderOf(j) # None /\ HolderOf(j)' = None}
<1>1. ASSUME NEW j \in JobIds
      PROVE  HolderOf(j)' = IF j \in S THEN None ELSE HolderOf(j)
  BY <1>1, HolderMeaning, HolderMeaningAfter DEF IInv, OnlyDrops
<1>2. Queue!Strand(S)
  BY <1>1 DEF Queue!Strand
<1>3. S \in SUBSET JobIds
  OBVIOUS
<1> QED
  BY <1>2, <1>3 DEF Queue!Next

\* A claim takes the job, for the worker or, its reply lost, for nobody.
LEMMA TakesRefine ==
  ASSUME IInv, IInv', NEW w \in Workers, Takes(w)
  PROVE  Queue!Next
<1>1. PICK j \in JobIds :
        /\ ClaimRow(w, j) /\ worker[w].pc = "idle" /\ OnlyMoves(w)
        /\ worker'[w].pc \in Holding => worker'[w].job = j
  BY DEF Takes
<1>2. /\ jobs' \in [JobIds -> JobRow]
      /\ \A k \in JobIds : k # j => jobs'[k] = jobs[k]
      /\ jobs[j].status = "pending" /\ jobs'[j].status = "processing"
      /\ jobs'[j].attempts = jobs[j].attempts + 1
  BY <1>1, ClaimRowEffect DEF IInv
<1>3. \A x \in Workers : ~Holds(x, j)
  BY <1>2 DEF IInv, QueueInv, HeldRowIsClaimed
<1>4. \A k \in JobIds : ~Holds(w, k)
  BY <1>1 DEF Holds, Holding
<1>5. \A x \in Workers, k \in JobIds : k # j => (Holds(x, k)' <=> Holds(x, k))
  BY <1>1, <1>4 DEF OnlyMoves, Holds
<1>6. \A x \in Workers \ {w} : ~Holds(x, j)'
  BY <1>1, <1>3 DEF OnlyMoves, Holds
<1>7. \A k \in JobIds : k # j => HolderOf(k)' = HolderOf(k)
  BY <1>5, HolderMeaning, HolderMeaningAfter DEF IInv
<1>8. PICK h \in {w, None} : HolderOf(j) = None /\ HolderOf(j)' = h
  BY <1>3, <1>6, HolderMeaning, HolderMeaningAfter DEF IInv
<1>9. \A k \in JobIds : HolderOf(k) # w
  BY <1>4, HolderMeaning DEF IInv
<1>10. Queue!Take(j, h)
  BY <1>2, <1>7, <1>8, <1>9 DEF Queue!Take
<1> QED
  BY <1>8, <1>10 DEF Queue!Next

\* Complete succeeds the job, Fail gives it back.
LEMMA DropsRowRefine ==
  ASSUME IInv, IInv', NEW w \in Workers, Drops(w)
  PROVE  Queue!Next
<1>0. PICK j : j = worker[w].job
  OBVIOUS
<1>1. /\ jobs' \in [JobIds -> JobRow]
      /\ j \in JobIds
      /\ \A k \in JobIds : k # j => jobs'[k] = jobs[k]
      /\ jobs'[j].attempts = jobs[j].attempts
  BY <1>0, DropsRowEffect DEF IInv, Drops
<1>2. \/ jobs'[j].status = "completed"
      \/ jobs'[j].status = IF jobs[j].attempts < MaxAttempts THEN "pending" ELSE "failed"
  BY <1>0, <1>1, DropsRowEffect, BoundsAssumption DEF IInv, Drops, TypeOK, StoreTypeOK, JobRow
<1>3. Holds(w, j) /\ \A k \in JobIds : ~Holds(w, k)'
  BY <1>0 DEF Drops, DropsRow, Holds
<1>4. \A k \in JobIds : Holds(w, k) => k = j
  BY <1>0 DEF Holds
<1>5. \A x \in Workers, k \in JobIds : x # w => (Holds(x, k)' <=> Holds(x, k))
  BY DEF Drops, OnlyMoves, Holds
<1>6. HolderOf(j) # None /\ HolderOf(j)' = None
  <2>1. \A x \in Workers : x # w => ~Holds(x, j)
    BY <1>1, <1>3 DEF IInv, QueueInv, HeldRowIsClaimed
  <2> QED
    BY <1>1, <1>3, <1>5, <2>1, HolderMeaning, HolderMeaningAfter, NoneAssumption DEF IInv
<1>7. \A k \in JobIds : k # j => HolderOf(k)' = HolderOf(k)
  BY <1>3, <1>4, <1>5, HolderMeaning, HolderMeaningAfter DEF IInv
<1>8. Queue!Succeed(j) \/ Queue!GiveBack(j)
  BY <1>1, <1>2, <1>6, <1>7 DEF Queue!Succeed, Queue!GiveBack
<1> QED
  BY <1>1, <1>8 DEF Queue!Next

\* A new row is a job submitted.
LEMMA InsertsRefine ==
  ASSUME IInv, IInv', UNCHANGED worker, Inserts
  PROVE  Queue!Next
<1>0. PICK n : n = created + 1
  OBVIOUS
<1>1. /\ n \in JobIds
      /\ \A k \in JobIds : k # n => jobs'[k] = jobs[k]
      /\ jobs'[n].status = "pending" /\ jobs'[n].attempts = 0
  BY <1>0, InsertRowEffect DEF IInv, Inserts
<1>2. jobs[n].status = "absent" /\ jobs[n].attempts = 0
  BY <1>0, <1>1 DEF IInv, TypeOK, StoreTypeOK, QueueInv, RowOK
<1>3. \A k \in JobIds : HolderOf(k)' = HolderOf(k)
  <2>1. \A x \in Workers, k \in JobIds : Holds(x, k)' <=> Holds(x, k)
    BY DEF Holds
  <2> QED
    BY <2>1, HolderMeaning, HolderMeaningAfter DEF IInv
<1>4. Queue!Submit(n)
  BY <1>1, <1>2, <1>3 DEF Queue!Submit
<1> QED
  BY <1>1, <1>4 DEF Queue!Next

\* The pipeline implements the abstract queue, its losses included: every step of
\* workers, requests, stop, crash and restart is one of the queue's steps or none.
THEOREM PipelineImplementsQueue == Spec => ImplementsQueue
<1>1. IInv /\ IInv' /\ [Next]_vars => [Queue!Next]_Queue!vars
  BY NextIInv, DropsRefine, TakesRefine, DropsRowRefine, InsertsRefine DEF QueueStep
<1> QED
  BY <1>1, InitRefines, InvariantHolds, PTL DEF Spec, ImplementsQueue, Queue!Spec

----------------------------------------------------------------------------
(* What every step does to the rows of the queue *)

\* A row keeps its video and its preset, its attempts only grow, and completed it stays.
RowsGrow ==
  \A j \in 1 .. created :
    /\ jobs'[j].video = jobs[j].video /\ jobs'[j].preset = jobs[j].preset
    /\ jobs'[j].attempts >= jobs[j].attempts
    /\ jobs[j].status = "completed" => jobs'[j].status = "completed"

\* The rows there are have legal columns.
LEMMA RowTypes ==
  ASSUME IInv, NEW j \in 1 .. created
  PROVE  /\ j \in JobIds /\ jobs[j] \in JobRow
         /\ jobs[j].video \in Videos /\ jobs[j].preset \in Presets
         /\ jobs[j].status # "absent" /\ jobs[j].attempts \in Nat
         /\ jobs[j].status = "processing" => jobs[j].attempts > 0
<1>1. j \in JobIds
  BY BoundsAssumption DEF IInv, TypeOK, StoreTypeOK, JobIds
<1>2. RowOK(j) /\ jobs[j] \in JobRow
  BY <1>1 DEF IInv, QueueInv, TypeOK, StoreTypeOK
<1> QED
  BY <1>1, <1>2 DEF RowOK, JobRow

\* A claim, Complete or Fail writes one row and only its status, worker and attempts.
LEMMA OneRowGrows ==
  ASSUME IInv, NEW n \in JobIds, \A k \in JobIds : k # n => jobs'[k] = jobs[k],
         jobs'[n].video = jobs[n].video, jobs'[n].preset = jobs[n].preset,
         jobs'[n].attempts \in {jobs[n].attempts, jobs[n].attempts + 1},
         jobs[n].status # "completed"
  PROVE  RowsGrow
<1> SUFFICES ASSUME NEW j \in 1 .. created
             PROVE  /\ jobs'[j].video = jobs[j].video /\ jobs'[j].preset = jobs[j].preset
                    /\ jobs'[j].attempts >= jobs[j].attempts
                    /\ jobs[j].status = "completed" => jobs'[j].status = "completed"
  BY DEF RowsGrow
<1>1. j \in JobIds /\ jobs[j].attempts \in Nat
  BY RowTypes
<1> QED
  BY <1>1

\* Every step of the queue: a claim, Complete or Fail, an insertion, or none.
LEMMA QueueGrows ==
  ASSUME IInv, QueueStep
  PROVE  RowsGrow
<1>0. TypeOK /\ QueueInv
  BY DEF IInv
<1>1. CASE UNCHANGED jobs
  BY <1>1, RowTypes DEF RowsGrow
<1>2. ASSUME NEW w \in Workers, Takes(w) PROVE RowsGrow
  <2>1. PICK j \in JobIds : ClaimRow(w, j)
    BY <1>2 DEF Takes
  <2> QED
    BY <2>1, <1>0, ClaimRowEffect, OneRowGrows
<1>3. ASSUME NEW w \in Workers, Drops(w) PROVE RowsGrow
  <2>1. PICK j : j = worker[w].job
    OBVIOUS
  <2> QED
    BY <2>1, <1>0, <1>3, DropsRowEffect, OneRowGrows DEF Drops
<1>4. CASE Inserts
  <2>1. PICK v \in Videos, p \in Presets : InsertJob(v, p)
    BY <1>4 DEF Inserts
  <2>2. \A k \in JobIds : k # created + 1 => jobs'[k] = jobs[k]
    BY <2>1, <1>0, InsertRowEffect
  <2>3. \A j \in 1 .. created : jobs'[j] = jobs[j]
    BY <2>2, <1>0, RowTypes DEF TypeOK, StoreTypeOK
  <2> QED
    BY <2>3, RowTypes DEF RowsGrow
<1> QED
  BY <1>1, <1>2, <1>3, <1>4 DEF QueueStep

\* The video and the preset of a job in a worker's hands stay what they are.
LEMMA WorkersJob ==
  ASSUME IInv, NEW w \in Workers, worker[w].pc \notin {"idle", "exited"}
  PROVE  /\ worker[w].job \in 1 .. created /\ worker[w].job \in JobIds
         /\ VideoOf(w) \in Videos /\ PresetOf(w) \in Presets
         /\ RowsGrow /\ worker'[w].job = worker[w].job =>
              VideoOf(w)' = VideoOf(w) /\ PresetOf(w)' = PresetOf(w)
<1>1. worker[w].job \in 1 .. created
  BY DEF IInv, QueueInv, WorkerOK
<1> QED
  BY <1>1, JobOfWorker DEF IInv, VideoOf, PresetOf, RowsGrow

----------------------------------------------------------------------------
(* References: the invariant *)

\* A video that has a row has its source, which UploadCreate removes only as long as
\* the row is not there; the request that brings both is the only one of its kind.
VideosHaveSources ==
  /\ \A v \in Videos : videos[v].status # "absent" => disk[v].source
  /\ \A c \in Clients : Serving(c, "upload", "create") =>
       /\ disk[request[c].video].source
       /\ videos[request[c].video].status = "absent"
       /\ \A d \in Clients : Serving(d, "upload", "create") /\ request[d].video = request[c].video => d = c
  /\ \A c \in Clients : request[c].pc \in {"presets", "enqueue", "status"} =>
       videos[request[c].video].status # "absent"

RefInv == ReferencesHold /\ VideosHaveSources

\* At the start nothing refers to anything.
LEMMA InitRefInv == Init => RefInv
<1> SUFFICES ASSUME Init PROVE RefInv
  OBVIOUS
<1>1. created = 0 /\ \A v \in Videos : videos[v].status = "absent"
  BY DEF Init, StoreInit, NoVideo
<1>2. \A c \in Clients : request[c].pc = "idle"
  BY DEF Init, RequestInit, IdleClient
<1> QED
  BY <1>1, <1>2 DEF RefInv, ReferencesHold, VideosHaveSources, Serving

\* What a step may do to videos and sources that no request is at.
KeepsVideos ==
  \A v \in Videos :
    /\ videos'[v].status = "absent" <=> videos[v].status = "absent"
    /\ disk'[v].source = disk[v].source

\* They survive a step that keeps videos, sources and presets and at most ends requests.
LEMMA FrameRefInv ==
  ASSUME IInv, RefInv, RowsGrow, KeepsVideos, created' = created, presets' = presets,
         \A c \in Clients : request'[c] = request[c] \/ request'[c].pc = "idle"
  PROVE  RefInv'
<1>1. ReferencesHold'
  BY RowTypes DEF RefInv, ReferencesHold, RowsGrow, KeepsVideos
<1>2. \A c \in Clients : request[c].pc # "idle" => request[c].video \in Videos
  BY DEF IInv, ClientOK
<1>3. VideosHaveSources'
  BY <1>2 DEF RefInv, VideosHaveSources, KeepsVideos, Serving
<1> QED
  BY <1>1, <1>3 DEF RefInv

\* A worker writes the status and the playlist of a video that is there, and its
\* renditions.
LEMMA PoolKeepsVideos ==
  ASSUME IInv, ReferencesHold, NEW w \in Workers, WorkerStep(w)
  PROVE  KeepsVideos /\ created' = created /\ presets' = presets
<1>0. videos \in [Videos -> VideoRow] /\ disk \in [Videos -> Files]
  BY DEF IInv, TypeOK, StoreTypeOK
<1>1. CASE UNCHANGED <<created, videos, presets, disk>>
  BY <1>1 DEF KeepsVideos
<1>2. CASE worker[w].pc \notin {"idle", "exited"}
  <2>1. VideoOf(w) \in Videos /\ videos[VideoOf(w)].status # "absent"
    BY <1>2, WorkersJob DEF ReferencesHold, VideoOf
  <2>2. CASE MarkReady(w) \/ RecordPlaylist(w)
    <3>1. UNCHANGED <<created, presets, disk>>
      BY <2>2 DEF MarkReady, RecordPlaylist
    <3>2. videos' = videos \/ UpdateStatus(VideoOf(w), "ready") \/ SetMasterPlaylist(VideoOf(w))
      BY <2>2 DEF MarkReady, RecordPlaylist
    <3>3. \A v \in Videos : videos'[v].status = "absent" <=> videos[v].status = "absent"
      BY <3>2, <2>1, <1>0 DEF UpdateStatus, SetMasterPlaylist, VideoRow
    <3> QED
      BY <3>1, <3>3 DEF KeepsVideos
  <2>3. CASE StartEncode(w) \/ FinishEncode(w)
    <3>1. UNCHANGED <<created, videos, presets>>
      BY <2>3 DEF StartEncode, FinishEncode
    <3>2. PICK S : disk' = [disk EXCEPT ![VideoOf(w)].intact = S]
      BY <2>3 DEF StartEncode, FinishEncode
    <3>3. \A v \in Videos : disk'[v].source = disk[v].source
      BY <3>2, <1>0 DEF Files
    <3> QED
      BY <3>1, <3>3 DEF KeepsVideos
  <2>4. CASE PutPlaylist(w)
    <3>1. UNCHANGED <<created, videos, presets>>
      BY <2>4 DEF PutPlaylist
    <3>2. PICK S : disk' = disk \/ disk' = [disk EXCEPT ![VideoOf(w)].master = TRUE, ![VideoOf(w)].listed = S]
      BY <2>4 DEF PutPlaylist
    <3>3. \A v \in Videos : disk'[v].source = disk[v].source
      BY <3>2, <1>0 DEF Files
    <3> QED
      BY <3>1, <3>3 DEF KeepsVideos
  <2>5. CASE UNCHANGED <<created, videos, presets, disk>>
    BY <2>5 DEF KeepsVideos
  <2> QED
    BY <2>2, <2>3, <2>4, <2>5
    DEF WorkerStep, NoWork, Claim, ClaimReplyLost, LeaveRun, ProcessJob, LookupVideo, LookupPreset,
        EncodeFails, RecordFailure, NotifyFailure, RecordComplete, CheckAllDone, ListJobs, Announce, storeVars
<1>3. CASE worker[w].pc \in {"idle", "exited"}
  <2>1. ~ProcessJob(w)
    BY <1>3 DEF ProcessJob, LookupVideo, LookupPreset, StartEncode, FinishEncode, EncodeFails, RecordFailure,
                NotifyFailure, RecordComplete, CheckAllDone, MarkReady, ListJobs, PutPlaylist,
                RecordPlaylist, Announce, At
  <2> QED
    BY <2>1, <1>1 DEF WorkerStep, NoWork, Claim, ClaimReplyLost, LeaveRun, storeVars
<1> QED
  BY <1>2, <1>3

\* The pool writes neither sources nor presets, and changes of videos only what is no reference.
LEMMA PoolRefInv ==
  ASSUME IInv, RefInv, QueueStep, NEW w \in Workers, PoolStep(w)
  PROVE  RefInv'
BY QueueGrows, PoolKeepsVideos, FrameRefInv DEF PoolStep, RefInv

\* The process's start, stop, exit and crash leave tables and files alone.
LEMMA ProcessRefInv ==
  ASSUME IInv, RefInv, QueueStep, Stop \/ Exit \/ Crash \/ Restart
  PROVE  RefInv'
<1>1. UNCHANGED storeVars
  BY DEF Stop, Exit, Crash, Restart, ProcessGone
<1>2. request' = request \/ request' = [c \in Clients |-> IdleClient]
  BY DEF Stop, Exit, Crash, Restart, ProcessGone
<1>3. \A c \in Clients : request'[c] = request[c] \/ request'[c].pc = "idle"
  BY <1>2 DEF IdleClient
<1> QED
  BY <1>1, <1>3, QueueGrows, FrameRefInv DEF storeVars, KeepsVideos

----------------------------------------------------------------------------
(* References: the requests *)

\* An upload stores the source first.
LEMMA UploadStoreRef ==
  ASSUME IInv, RefInv, NEW c \in Clients, NEW v \in Videos, UploadStore(c, v)
  PROVE  RefInv'
<1>0. /\ disk \in [Videos -> Files] /\ request \in [Clients -> RequestRow]
      /\ UNCHANGED <<jobs, created, videos, presets>>
      /\ videos[v].status = "absent" /\ ~disk[v].source
  BY DEF IInv, TypeOK, StoreTypeOK, RequestTypeOK, UploadStore
<1>1. \A x \in Videos : disk[x].source => disk'[x].source
  BY <1>0 DEF UploadStore, Files
<1>2. disk'[v].source
  BY <1>0 DEF UploadStore, Files
<1>3. /\ \A d \in Clients : d # c => request'[d] = request[d]
      /\ request'[c].op = "upload" /\ request'[c].pc = "create" /\ request'[c].video = v
  BY <1>0 DEF UploadStore
<1>4. \A d \in Clients : Serving(d, "upload", "create") => request[d].video # v
  BY <1>0 DEF RefInv, VideosHaveSources
<1>5. \A d \in Clients : request[d].pc # "idle" => request[d].video \in Videos
  BY DEF IInv, ClientOK
<1>6. ReferencesHold'
  BY <1>0, <1>1, RowTypes DEF RefInv, ReferencesHold
<1>7. VideosHaveSources'
  <2>1. \A x \in Videos : videos'[x].status # "absent" => disk'[x].source
    BY <1>0, <1>1 DEF RefInv, VideosHaveSources
  <2>2. ASSUME NEW d \in Clients, Serving(d, "upload", "create")'
        PROVE  /\ disk'[request'[d].video].source
               /\ videos'[request'[d].video].status = "absent"
               /\ \A e \in Clients : Serving(e, "upload", "create")' /\ request'[e].video = request'[d].video
                    => e = d
    <3>1. CASE d = c
      BY <3>1, <1>0, <1>2, <1>3, <1>4 DEF Serving
    <3>2. CASE d # c
      <4>1. Serving(d, "upload", "create") /\ request[d].video \in Videos
        BY <3>2, <2>2, <1>3, <1>5 DEF Serving
      <4> QED
        BY <4>1, <3>2, <1>0, <1>1, <1>3, <1>4 DEF Serving, RefInv, VideosHaveSources
    <3> QED
      BY <3>1, <3>2
  <2>3. ASSUME NEW d \in Clients, request'[d].pc \in {"presets", "enqueue", "status"}
        PROVE  videos'[request'[d].video].status # "absent"
    BY <2>3, <1>0, <1>3 DEF RefInv, VideosHaveSources
  <2> QED
    BY <2>1, <2>2, <2>3 DEF VideosHaveSources
<1> QED
  BY <1>6, <1>7 DEF RefInv

\* The row is created, or the source, which nothing refers to, removed.
LEMMA UploadCreateRef ==
  ASSUME IInv, RefInv, NEW c \in Clients, UploadCreate(c)
  PROVE  RefInv'
<1> DEFINE v == request[c].video
<1>0. /\ disk \in [Videos -> Files] /\ videos \in [Videos -> VideoRow]
      /\ request \in [Clients -> RequestRow] /\ v \in Videos
      /\ UNCHANGED <<jobs, created, presets>> /\ Serving(c, "upload", "create")
  BY DEF IInv, TypeOK, StoreTypeOK, RequestTypeOK, UploadCreate, Serving, ClientOK
<1>1. /\ videos[v].status = "absent" /\ disk[v].source
      /\ \A d \in Clients : Serving(d, "upload", "create") /\ request[d].video = v => d = c
  BY <1>0 DEF RefInv, VideosHaveSources
<1>2. \A d \in Clients : request[d].pc # "idle" => request[d].video \in Videos
  BY DEF IInv, ClientOK
<1>3. CASE CreateVideo(v) /\ GotoPc(c, "presets") /\ UNCHANGED disk
  <2>1. /\ \A x \in Videos : x # v => videos'[x] = videos[x]
        /\ videos'[v].status = "uploaded"
    BY <1>0, <1>3 DEF CreateVideo, VideoRow
  <2>2. /\ \A d \in Clients : d # c => request'[d] = request[d]
        /\ request'[c].pc = "presets" /\ request'[c].video = v
    BY <1>0, <1>3 DEF GotoPc, RequestRow
  <2>3. ReferencesHold'
    BY <1>0, <1>1, <1>3, <2>1, RowTypes DEF RefInv, ReferencesHold
  <2>4. VideosHaveSources'
    BY <1>0, <1>1, <1>2, <1>3, <2>1, <2>2 DEF RefInv, VideosHaveSources, Serving
  <2> QED
    BY <2>3, <2>4 DEF RefInv
<1>4. CASE disk' = [disk EXCEPT ![v].source = FALSE] /\ Return(c) /\ UNCHANGED videos
  <2>1. \A x \in Videos : x # v => disk'[x] = disk[x]
    BY <1>0, <1>4
  <2>2. /\ \A d \in Clients : d # c => request'[d] = request[d]
        /\ request'[c].pc = "idle"
    BY <1>0, <1>4 DEF Return, IdleClient
  <2>3. ReferencesHold'
    BY <1>0, <1>1, <1>4, <2>1, RowTypes DEF RefInv, ReferencesHold
  <2>4. VideosHaveSources'
    BY <1>0, <1>1, <1>2, <1>4, <2>1, <2>2 DEF RefInv, VideosHaveSources, Serving
  <2> QED
    BY <2>3, <2>4 DEF RefInv
<1> QED
  BY <1>3, <1>4 DEF UploadCreate

\* A request that goes on with a video that is there, or returns.
LEMMA RequestGoesRef ==
  ASSUME IInv, RefInv, NEW c \in Clients, NEW r, RowsGrow, KeepsVideos, created' = created,
         presets' = presets, request' = [request EXCEPT ![c] = r],
         \/ r.pc = "idle"
         \/ r.pc \in {"enqueue", "status"} /\ r.video \in Videos /\ videos[r.video].status # "absent"
  PROVE  RefInv'
<1>1. ReferencesHold'
  BY RowTypes DEF RefInv, ReferencesHold, RowsGrow, KeepsVideos
<1>2. \A d \in Clients : request[d].pc # "idle" => request[d].video \in Videos
  BY DEF IInv, ClientOK
<1>3. request'[c] = r /\ \A d \in Clients : d # c => request'[d] = request[d]
  BY DEF IInv, TypeOK, RequestTypeOK
<1>4. VideosHaveSources'
  BY <1>2, <1>3 DEF RefInv, VideosHaveSources, KeepsVideos, Serving
<1> QED
  BY <1>1, <1>4 DEF RefInv

\* Requests that go on write neither the tables nor the files they refer to.
LEMMA GoesOnRef ==
  ASSUME IInv, RefInv, NEW c \in Clients,
         UploadListDefaults(c) \/ SetProcessing(c)
           \/ \E v \in Videos, ids \in RetranscodeChoices : RetranscodeStart(c, v, ids)
  PROVE  RefInv'
<1>0. /\ videos \in [Videos -> VideoRow] /\ request \in [Clients -> RequestRow]
      /\ request[c].pc # "idle" => request[c].video \in Videos
  BY DEF IInv, TypeOK, StoreTypeOK, RequestTypeOK, ClientOK
<1>1. UNCHANGED <<jobs, created, presets, disk>>
  BY DEF UploadListDefaults, SetProcessing, RetranscodeStart, storeVars
<1>2. RowsGrow
  BY <1>1, RowTypes DEF RowsGrow
<1>3. KeepsVideos
  <2>1. CASE UNCHANGED videos
    BY <2>1, <1>1 DEF KeepsVideos
  <2>2. CASE SetProcessing(c) /\ UpdateStatus(request[c].video, "processing")
    <3>1. request[c].video \in Videos /\ videos[request[c].video].status # "absent"
      BY <2>2, <1>0 DEF SetProcessing, RefInv, VideosHaveSources
    <3>2. \A v \in Videos : videos'[v].status = "absent" <=> videos[v].status = "absent"
      BY <2>2, <3>1, <1>0 DEF UpdateStatus, VideoRow
    <3> QED
      BY <3>2, <1>1 DEF KeepsVideos
  <2> QED
    BY <2>1, <2>2 DEF UploadListDefaults, SetProcessing, RetranscodeStart, storeVars
<1>4. CASE Return(c)
  <2>1. PICK r : r.pc = "idle" /\ request' = [request EXCEPT ![c] = r]
    BY <1>4 DEF Return, IdleClient
  <2> QED
    BY <1>1, <1>2, <1>3, <2>1, RequestGoesRef
<1>5. CASE /\ request[c].pc = "presets"
           /\ request' = [request EXCEPT ![c].pc = "enqueue", ![c].todo = DefaultPresets \cap presets]
  <2> DEFINE r == [request[c] EXCEPT !.pc = "enqueue", !.todo = DefaultPresets \cap presets]
  <2>1. request' = [request EXCEPT ![c] = r] /\ r.pc = "enqueue" /\ r.video = request[c].video
    BY <1>0, <1>5 DEF RequestRow
  <2>2. request[c].video \in Videos /\ videos[request[c].video].status # "absent"
    BY <1>0, <1>5 DEF RefInv, VideosHaveSources
  <2> HIDE DEF r
  <2> QED
    BY <1>1, <1>2, <1>3, <2>1, <2>2, RequestGoesRef
<1>6. ASSUME NEW v \in Videos, NEW ids \in RetranscodeChoices, RetranscodeStart(c, v, ids)
      PROVE  RefInv'
  <2>1. PICK r : /\ request' = [request EXCEPT ![c] = r]
                 /\ r.pc \in {"enqueue", "status"} /\ r.video = v
    <3> DEFINE found == (IF ids = {} THEN DefaultPresets ELSE ids) \cap presets
               q == [op |-> "retranscode", pc |-> IF found = {} THEN "status" ELSE "enqueue",
                     video |-> v, todo |-> found]
    <3>1. request' = [request EXCEPT ![c] = q]
      BY <1>6 DEF RetranscodeStart
    <3>2. q.pc \in {"enqueue", "status"} /\ q.video = v
      OBVIOUS
    <3> QED
      BY <3>1, <3>2
  <2>2. videos[v].status # "absent"
    BY <1>6 DEF RetranscodeStart, Visible
  <2> QED
    BY <1>1, <1>2, <1>3, <2>1, <2>2, RequestGoesRef
<1> QED
  BY <1>4, <1>5, <1>6 DEF UploadListDefaults, SetProcessing, Serving

\* The new row's preset is there, as the foreign key demands, and so is its video.
LEMMA EnqueueRef ==
  ASSUME IInv, RefInv, QueueStep, NEW c \in Clients, Enqueue(c)
  PROVE  RefInv'
<1> DEFINE v == request[c].video
<1>0. /\ videos \in [Videos -> VideoRow] /\ request \in [Clients -> RequestRow]
      /\ request[c].pc = "enqueue" /\ v \in Videos /\ videos[v].status # "absent"
      /\ disk[v].source
      /\ UNCHANGED <<videos, presets, disk>>
  BY DEF IInv, TypeOK, StoreTypeOK, RequestTypeOK, ClientOK, Enqueue, RefInv, VideosHaveSources
<1>1. RowsGrow /\ KeepsVideos
  BY <1>0, QueueGrows DEF KeepsVideos
<1>2. CASE Return(c) /\ UNCHANGED created
  <2>1. PICK r : r.pc = "idle" /\ request' = [request EXCEPT ![c] = r]
    BY <1>2 DEF Return, IdleClient
  <2> QED
    BY <1>0, <1>1, <1>2, <2>1, RequestGoesRef
<1>3. ASSUME NEW p \in request[c].todo, InsertJob(v, p),
             request' = [request EXCEPT ![c].todo = @ \ {p},
               ![c].pc = IF request[c].todo = {p} THEN "status" ELSE "enqueue"]
      PROVE  RefInv'
  <2>0. TypeOK /\ p \in presets
    BY <1>3 DEF IInv, InsertJob
  <2>1. /\ created' = created + 1 /\ jobs'[created + 1].video = v /\ jobs'[created + 1].preset = p
        /\ \A k \in JobIds : k # created + 1 => jobs'[k] = jobs[k]
    BY <1>0, <1>3, <2>0, InsertRowEffect
  <2>2. \A k \in 1 .. created' : k = created + 1 \/ k \in 1 .. created
    BY <2>0, <2>1 DEF TypeOK, StoreTypeOK
  <2>3. \A k \in 1 .. created : jobs'[k].video = jobs[k].video /\ jobs'[k].preset = jobs[k].preset
    BY <1>1 DEF RowsGrow
  <2>4. ReferencesHold'
    BY <1>0, <2>0, <2>1, <2>2, <2>3 DEF RefInv, ReferencesHold
  <2>5. /\ \A d \in Clients : d # c => request'[d] = request[d]
        /\ request'[c].video = v /\ request'[c].pc \in {"status", "enqueue"}
    BY <1>0, <1>3 DEF RequestRow
  <2>6. \A d \in Clients : request[d].pc # "idle" => request[d].video \in Videos
    BY DEF IInv, ClientOK
  <2>7. VideosHaveSources'
    BY <1>0, <2>5, <2>6 DEF RefInv, VideosHaveSources, Serving
  <2> QED
    BY <2>4, <2>7 DEF RefInv
<1> QED
  BY <1>2, <1>3 DEF Enqueue

\* A deleted video keeps its row, and a preset some row names is not deleted.
LEMMA RemovalRef ==
  ASSUME IInv, RefInv,
         \/ \E v \in Videos : DeleteVideo(v)
         \/ \E p \in Presets : RemovePreset(p)
  PROVE  RefInv'
<1>1. UNCHANGED <<jobs, created, disk, request>>
  BY DEF DeleteVideo, RemovePreset
<1>2. RowsGrow
  BY <1>1, RowTypes DEF RowsGrow
<1>3. CASE \E v \in Videos : DeleteVideo(v)
  <2>1. \A v \in Videos : videos'[v].status = "absent" <=> videos[v].status = "absent"
    BY <1>3 DEF DeleteVideo, SoftDelete, Visible, IInv, TypeOK, StoreTypeOK, VideoRow
  <2>2. UNCHANGED presets
    BY <1>3 DEF DeleteVideo
  <2> QED
    BY <1>1, <1>2, <2>1, <2>2, FrameRefInv DEF KeepsVideos
<1>4. ASSUME NEW p \in Presets, RemovePreset(p) PROVE RefInv'
  <2>1. UNCHANGED videos /\ presets' = presets \ {p} /\ \A j \in JobIds : jobs[j].preset # p
    BY <1>4 DEF RemovePreset, DeletePreset
  <2>2. ReferencesHold'
    BY <1>1, <2>1, RowTypes DEF RefInv, ReferencesHold
  <2>3. VideosHaveSources'
    BY <1>1, <2>1 DEF RefInv, VideosHaveSources, Serving
  <2> QED
    BY <2>2, <2>3 DEF RefInv
<1> QED
  BY <1>3, <1>4

\* Every step keeps the references.
LEMMA NextRefInv == IInv /\ RefInv /\ [Next]_vars => RefInv'
<1> SUFFICES ASSUME IInv, RefInv, [Next]_vars PROVE RefInv'
  OBVIOUS
<1>0. QueueStep
  BY NextIInv
<1>1. CASE UNCHANGED vars
  BY <1>1 DEF vars, storeVars, RefInv, ReferencesHold, VideosHaveSources, Serving
<1>2. ASSUME NEW w \in Workers, PoolStep(w) PROVE RefInv'
  BY <1>0, <1>2, PoolRefInv
<1>3. CASE RequestStep
  <2>1. CASE \E c \in Clients, v \in Videos : UploadStore(c, v)
    BY <2>1, UploadStoreRef
  <2>2. CASE \E c \in Clients, v \in Videos, ids \in RetranscodeChoices : RetranscodeStart(c, v, ids)
    BY <2>2, GoesOnRef
  <2>3. CASE \E c \in Clients : Serve(c)
    BY <2>3, <1>0, UploadCreateRef, GoesOnRef, EnqueueRef DEF Serve
  <2>4. CASE \/ \E v \in DeletableVideos : DeleteVideo(v)
             \/ \E p \in DeletablePresets : RemovePreset(p)
    BY <2>4, RemovalRef, PipelineAssumption
  <2> QED
    BY <1>3, <2>1, <2>2, <2>3, <2>4 DEF RequestStep
<1>4. CASE Stop \/ Exit \/ Crash \/ Restart
  BY <1>0, <1>4, ProcessRefInv
<1> QED
  BY <1>1, <1>2, <1>3, <1>4 DEF Next

\* The preset, the video and the source file a job refers to are there, for as long as
\* the job's row is: DeletePreset cannot come between a request's reading of a preset
\* and its job, and Upload's clean-up removes no source that a row names.
THEOREM ReferencesKept == Spec => []ReferencesHold
<1>1. Spec => []RefInv
  BY InitRefInv, NextRefInv, InvariantHolds, PTL DEF Spec
<1>2. RefInv => ReferencesHold
  BY DEF RefInv
<1> QED
  BY <1>1, <1>2, PTL

----------------------------------------------------------------------------
(* What steps outside the pool leave alone *)

Outside == RequestStep \/ Stop \/ Exit \/ Crash \/ Restart \/ UNCHANGED vars

\* Requests write no rendition and no playlist, and workers they leave alone; the end
\* of the process leaves no worker with a job.
LEMMA OutsideEffect ==
  ASSUME IInv, Outside
  PROVE  /\ \A v \in Videos : /\ disk'[v].master = disk[v].master
                              /\ disk'[v].listed = disk[v].listed
                              /\ disk'[v].intact = disk[v].intact
                              /\ videos'[v].master = videos[v].master
         /\ \A w \in Workers : worker'[w] = worker[w] \/ worker'[w].pc \in {"idle", "exited"}
         /\ faults' = MaxFaults => faults = MaxFaults
         /\ UNCHANGED readyEvents /\ RowsGrow
<1>0. /\ videos \in [Videos -> VideoRow] /\ disk \in [Videos -> Files]
      /\ faults \in 0 .. MaxFaults /\ MaxFaults \in Nat
      /\ \A c \in Clients : ClientOK(c)
  BY BoundsAssumption DEF IInv, TypeOK, StoreTypeOK
<1>1. [Next]_vars /\ QueueStep /\ RowsGrow
  BY NextIInv, QueueGrows DEF Outside, Next
<1>2. CASE Stop \/ Exit \/ Crash \/ Restart \/ UNCHANGED vars
  <2>1. UNCHANGED <<storeVars, readyEvents>>
    BY <1>2 DEF Stop, Exit, Crash, Restart, ProcessGone, workerVars, events, vars
  <2>2. \/ worker' = worker
        \/ worker' = [w \in Workers |-> ExitedWorker]
        \/ worker' = [w \in Workers |-> IdleWorker]
    BY <1>2 DEF Stop, Exit, Crash, Restart, ProcessGone, workerVars, vars
  <2>3. ExitedWorker.pc = "exited" /\ IdleWorker.pc = "idle"
    BY DEF ExitedWorker, IdleWorker
  <2>4. \A w \in Workers : worker'[w] = worker[w] \/ worker'[w].pc \in {"idle", "exited"}
    BY <2>2, <2>3
  <2> QED
    BY <1>1, <2>1, <2>4 DEF storeVars
<1>3. CASE RequestStep
  <2>1. UNCHANGED <<worker, readyEvents>>
    BY <1>3 DEF RequestStep, workerVars, events
  <2>2. faults' = faults \/ Fault
    BY <1>3 DEF RequestStep, UploadStore, RetranscodeStart, Serve, UploadCreate, UploadListDefaults,
                Enqueue, SetProcessing, DeleteVideo, RemovePreset, storeVars
  <2>3. faults' = MaxFaults => faults = MaxFaults
    BY <2>2, <1>0 DEF Fault
  <2>4. \A v \in Videos : /\ disk'[v].master = disk[v].master
                          /\ disk'[v].listed = disk[v].listed
                          /\ disk'[v].intact = disk[v].intact
    <3>1. \/ disk' = disk
          \/ \E v \in Videos, b \in BOOLEAN : disk' = [disk EXCEPT ![v].source = b]
      BY <1>3, <1>0 DEF RequestStep, UploadStore, RetranscodeStart, Serve, UploadCreate, UploadListDefaults,
                Enqueue, SetProcessing, DeleteVideo, RemovePreset, storeVars, Serving, ClientOK
    <3> QED
      BY <3>1, <1>0 DEF Files
  <2>5. \A v \in Videos : videos'[v].master = videos[v].master
    <3>1. \/ videos' = videos
          \/ \E v \in Videos, s \in VideoStatus : UpdateStatus(v, s)
          \/ \E v \in Videos : SoftDelete(v)
      <4>1. ASSUME NEW c \in Clients, Serve(c)
            PROVE  videos' = videos \/ \E v \in Videos, s \in VideoStatus : UpdateStatus(v, s)
        <5>1. CASE UNCHANGED videos
          BY <5>1
        <5>2. CASE UpdateStatus(request[c].video, "uploaded") \/ UpdateStatus(request[c].video, "processing")
          <6>1. request[c].video \in Videos
            BY <4>1, <5>2, <1>0 DEF Serve, UploadCreate, UploadListDefaults, Enqueue, SetProcessing,
                                    Serving, ClientOK
          <6> QED
            BY <5>2, <6>1 DEF VideoStatus
        <5> QED
          BY <4>1, <5>1, <5>2 DEF Serve, UploadCreate, UploadListDefaults, Enqueue, SetProcessing,
                                  CreateVideo, UpdateStatus
      <4> QED
        BY <1>3, <4>1, PipelineAssumption
        DEF RequestStep, UploadStore, RetranscodeStart, DeleteVideo, RemovePreset, storeVars
    <3>2. ASSUME NEW v \in Videos, NEW s \in VideoStatus, UpdateStatus(v, s)
          PROVE  \A x \in Videos : videos'[x].master = videos[x].master
      BY <3>2, <1>0 DEF VideoRow, UpdateStatus
    <3>3. ASSUME NEW v \in Videos, SoftDelete(v)
          PROVE  \A x \in Videos : videos'[x].master = videos[x].master
      BY <3>3, <1>0 DEF VideoRow, SoftDelete
    <3> QED
      BY <3>1, <3>2, <3>3
  <2> QED
    BY <1>1, <2>1, <2>3, <2>4, <2>5
<1> QED
  BY <1>2, <1>3 DEF Outside

\* A worker's step moves that worker only, and its calls' failures are used up.
LEMMA PoolEffect ==
  ASSUME IInv, NEW w \in Workers, PoolStep(w)
  PROVE  /\ OnlyMoves(w) /\ RowsGrow
         /\ faults' = MaxFaults => faults = MaxFaults
         /\ worker \in [Workers -> WorkerRow] /\ worker' \in [Workers -> WorkerRow]
<1>1. QueueStep /\ OnlyMoves(w) /\ IInv'
  BY PoolStepIInv, NextIInv DEF Next, Quiet, Takes, Drops
<1>2. RowsGrow
  BY <1>1, QueueGrows
<1>3. faults \in 0 .. MaxFaults /\ MaxFaults \in Nat
  BY BoundsAssumption DEF IInv, TypeOK, StoreTypeOK
<1>4. faults' = faults \/ Fault
  BY DEF PoolStep, WorkerStep, ProcessJob, NoWork, Claim, ClaimReplyLost, LeaveRun, LookupVideo,
         LookupPreset, StartEncode, FinishEncode, EncodeFails, RecordFailure, NotifyFailure,
         RecordComplete, CheckAllDone, MarkReady, ListJobs, PutPlaylist, RecordPlaylist, Announce,
         CallOK, CallFails, storeVars
<1>5. worker \in [Workers -> WorkerRow] /\ worker' \in [Workers -> WorkerRow]
  BY <1>1 DEF IInv, TypeOK, WorkerTypeOK
<1> QED
  BY <1>1, <1>2, <1>3, <1>4, <1>5 DEF Fault

----------------------------------------------------------------------------
(* Playlists: the invariant *)

\* What a finisher has read of the jobs stays true until it writes the playlist, and
\* without faults what it has written is there when it records the path.
FinisherOK(w) ==
  /\ worker[w].pc = "playlist" => worker[w].snap \subseteq CompletedJobsOf(VideoOf(w))
  /\ worker[w].pc = "master" /\ faults = MaxFaults => disk[VideoOf(w)].master

PlaylistInv ==
  /\ PlaylistListsCompleted /\ PlaylistPathHasFile
  /\ \A w \in Workers : FinisherOK(w)

\* At the start no playlist is written and nobody finishes.
LEMMA InitPlaylistInv == Init => PlaylistInv
BY DEF Init, StoreInit, WorkerInit, NoFiles, NoVideo, IdleWorker, PlaylistInv, PlaylistListsCompleted,
       PlaylistPathHasFile, FinisherOK

\* A completed job stays one of its video's, with its preset.
LEMMA CompletedStay ==
  ASSUME IInv, RowsGrow, NEW v, NEW j \in CompletedJobsOf(v)
  PROVE  j \in CompletedJobsOf(v)' /\ jobs'[j].preset = jobs[j].preset
<1>1. j \in JobIds /\ jobs[j].status = "completed" /\ jobs[j].video = v
  BY DEF CompletedJobsOf, JobsOf
<1>2. RowOK(j) /\ created \in Nat
  BY <1>1 DEF IInv, QueueInv, TypeOK, StoreTypeOK
<1>3. j \in 1 .. created
  BY <1>1, <1>2 DEF RowOK, JobIds
<1> QED
  BY <1>1, <1>3 DEF RowsGrow, CompletedJobsOf, JobsOf

\* What is listed was completed, and stays so.
LEMMA ListedStay ==
  ASSUME IInv, RowsGrow, NEW v, NEW h,
         \E j \in JobsOf(v) : jobs[j].status = "completed" /\ h \in HeightsOf(jobs[j].preset)
  PROVE  \E j \in JobsOf(v)' : jobs'[j].status = "completed" /\ h \in HeightsOf(jobs'[j].preset)
<1>1. PICK j \in CompletedJobsOf(v) : h \in HeightsOf(jobs[j].preset)
  BY DEF CompletedJobsOf
<1> QED
  BY <1>1, CompletedStay DEF CompletedJobsOf

\* A finisher that stays where it is keeps what it has read.
LEMMA FinisherStays ==
  ASSUME IInv, RowsGrow, NEW x \in Workers, FinisherOK(x),
         worker'[x].pc = worker[x].pc, worker'[x].job = worker[x].job, worker'[x].snap = worker[x].snap,
         \A v \in Videos : disk[v].master => disk'[v].master,
         faults' = MaxFaults => faults = MaxFaults
  PROVE  FinisherOK(x)'
<1>1. CASE worker[x].pc \in {"playlist", "master"}
  <2>1. VideoOf(x) \in Videos /\ VideoOf(x)' = VideoOf(x)
    BY <1>1, WorkersJob
  <2>2. CompletedJobsOf(VideoOf(x)) \subseteq CompletedJobsOf(VideoOf(x))'
    BY <2>1, CompletedStay DEF CompletedJobsOf, JobsOf
  <2> QED
    BY <2>1, <2>2 DEF FinisherOK
<1>2. CASE worker[x].pc \notin {"playlist", "master"}
  BY <1>2 DEF FinisherOK
<1> QED
  BY <1>1, <1>2

\* Playlists and their paths stay.
LEMMA PlaylistFrame ==
  ASSUME IInv, PlaylistInv, RowsGrow, faults' = MaxFaults => faults = MaxFaults,
         \A v \in Videos : disk'[v].master = disk[v].master /\ disk'[v].listed = disk[v].listed
                           /\ videos'[v].master = videos[v].master
  PROVE  PlaylistListsCompleted' /\ PlaylistPathHasFile'
<1>1. PlaylistListsCompleted'
  BY ListedStay DEF PlaylistInv, PlaylistListsCompleted
<1> QED
  BY <1>1 DEF PlaylistInv, PlaylistPathHasFile

\* Steps of others than the finisher keep the invariant of the playlists.
LEMMA OutsidePlaylist ==
  ASSUME IInv, PlaylistInv, Outside
  PROVE  PlaylistInv'
<1>1. PlaylistListsCompleted' /\ PlaylistPathHasFile'
  BY OutsideEffect, PlaylistFrame
<1>2. ASSUME NEW w \in Workers PROVE FinisherOK(w)'
  <2>1. CASE worker'[w] = worker[w]
    BY <2>1, OutsideEffect, FinisherStays DEF PlaylistInv
  <2>2. CASE worker'[w].pc \in {"idle", "exited"}
    BY <2>2 DEF FinisherOK
  <2> QED
    BY <2>1, <2>2, OutsideEffect
<1> QED
  BY <1>1, <1>2 DEF PlaylistInv

\* The workers' steps away from the playlist.
LEMMA AwayFromPlaylist ==
  ASSUME IInv, NEW w \in Workers, PoolStep(w),
         ~ListJobs(w), ~PutPlaylist(w), ~RecordPlaylist(w)
  PROVE  /\ \A v \in Videos : disk'[v].master = disk[v].master /\ disk'[v].listed = disk[v].listed
                              /\ videos'[v].master = videos[v].master
         /\ worker'[w].pc \in {"playlist", "master"} => worker' = worker
<1>0. /\ videos \in [Videos -> VideoRow] /\ disk \in [Videos -> Files]
      /\ worker \in [Workers -> WorkerRow]
  BY DEF IInv, TypeOK, StoreTypeOK, WorkerTypeOK
<1>1. CASE StartEncode(w) \/ FinishEncode(w)
  <2>1. VideoOf(w) \in Videos /\ worker[w].pc \in {"encode", "encoding"}
    BY <1>1, WorkersJob DEF StartEncode, FinishEncode, At
  <2>2. UNCHANGED videos /\ \E S : disk' = [disk EXCEPT ![VideoOf(w)].intact = S]
    BY <1>1 DEF StartEncode, FinishEncode
  <2>3. \A v \in Videos : disk'[v].master = disk[v].master /\ disk'[v].listed = disk[v].listed
    BY <2>2, <1>0 DEF Files
  <2>4. worker'[w].pc \in {"encode", "encoding", "complete"}
    BY <1>1, <1>0 DEF StartEncode, FinishEncode, WorkerRow
  <2> QED
    BY <2>2, <2>3, <2>4
<1>2. CASE MarkReady(w)
  <2>1. UNCHANGED disk /\ (UNCHANGED videos \/ UpdateStatus(VideoOf(w), "ready"))
    BY <1>2 DEF MarkReady
  <2>2. \A v \in Videos : videos'[v].master = videos[v].master
    BY <2>1, <1>0 DEF UpdateStatus, VideoRow
  <2>3. worker'[w].pc = "list"
    BY <1>2, <1>0 DEF MarkReady, Goto
  <2> QED
    BY <2>1, <2>2, <2>3
<1>3. CASE NoWork(w)
  BY <1>3 DEF NoWork, storeVars, workerVars
<1>4. CASE \/ Claim(w) \/ ClaimReplyLost(w) \/ LeaveRun(w) \/ LookupVideo(w) \/ LookupPreset(w)
           \/ EncodeFails(w) \/ RecordFailure(w) \/ NotifyFailure(w) \/ RecordComplete(w)
           \/ CheckAllDone(w) \/ Announce(w)
  <2>1. UNCHANGED <<videos, disk>>
    BY <1>4 DEF Claim, ClaimReplyLost, LeaveRun, LookupVideo, LookupPreset, EncodeFails, RecordFailure,
                NotifyFailure, RecordComplete, CheckAllDone, Announce, storeVars
  <2>2. CASE Claim(w)
    <3>1. PICK j \in JobIds : worker' = [worker EXCEPT ![w] = [IdleWorker EXCEPT !.pc = "video", !.job = j]]
      BY <2>2 DEF Claim
    <3>2. [IdleWorker EXCEPT !.pc = "video", !.job = j].pc = "video"
      BY DEF IdleWorker
    <3> QED
      BY <2>1, <3>1, <3>2, <1>0
  <2>3. CASE LookupPreset(w)
    <3>1. worker' = [worker EXCEPT ![w].pc = "encode", ![w].i = 1] \/ Goto(w, "reject")
      BY <2>3 DEF LookupPreset
    <3> QED
      BY <2>1, <3>1, <1>0 DEF Goto, WorkerRow
  <2>4. CASE ~Claim(w) /\ ~LookupPreset(w)
    <3>1. \/ \E r : worker' = [worker EXCEPT ![w] = r] /\ r.pc \in {"idle", "exited"}
          \/ \E pc \in {"preset", "reject", "fail", "notify", "check", "ready"} : Goto(w, pc)
      <4>1. IdleWorker.pc = "idle" /\ ExitedWorker.pc = "exited"
        BY DEF IdleWorker, ExitedWorker
      <4>2. \/ worker' = [worker EXCEPT ![w] = IdleWorker]
            \/ worker' = [worker EXCEPT ![w] = ExitedWorker]
            \/ \E pc \in {"preset", "reject", "fail", "notify", "check", "ready"} : Goto(w, pc)
        BY <1>4, <2>4 DEF ClaimReplyLost, LeaveRun, LookupVideo, EncodeFails, RecordFailure, NotifyFailure,
                          RecordComplete, CheckAllDone, Announce, BackToIdle
      <4> QED
        BY <4>1, <4>2
    <3> QED
      BY <2>1, <3>1, <1>0 DEF Goto, WorkerRow
  <2> QED
    BY <2>1, <2>2, <2>3, <2>4
<1> QED
  BY <1>1, <1>2, <1>3, <1>4 DEF PoolStep, WorkerStep, ProcessJob

\* The other finishers stay as they are, and w's own step decides.
LEMMA FinishersStay ==
  ASSUME IInv, PlaylistInv, NEW w \in Workers, PoolStep(w), FinisherOK(w)',
         \A v \in Videos : disk[v].master => disk'[v].master
  PROVE  \A x \in Workers : FinisherOK(x)'
<1> SUFFICES ASSUME NEW x \in Workers, x # w PROVE FinisherOK(x)'
  OBVIOUS
<1> QED
  BY PoolEffect, FinisherStays DEF PlaylistInv, OnlyMoves

\* The finisher lists jobs that are completed.
LEMMA ListJobsPlaylist ==
  ASSUME IInv, PlaylistInv, NEW w \in Workers, PoolStep(w), ListJobs(w)
  PROVE  PlaylistInv'
<1>0. worker \in [Workers -> WorkerRow] /\ UNCHANGED <<jobs, videos, disk>>
  BY DEF IInv, TypeOK, WorkerTypeOK, ListJobs
<1>1. FinisherOK(w)'
  <2>1. CASE Goto(w, "announce")
    BY <2>1, <1>0 DEF Goto, FinisherOK, WorkerRow
  <2>2. CASE worker' = [worker EXCEPT ![w].pc = "playlist", ![w].snap = CompletedJobsOf(VideoOf(w))]
    <3>1. PICK S : S = CompletedJobsOf(VideoOf(w))
      OBVIOUS
    <3>2. worker' = [worker EXCEPT ![w].pc = "playlist", ![w].snap = S]
      BY <2>2, <3>1
    <3>3. worker'[w].pc = "playlist" /\ worker'[w].snap = S /\ worker'[w].job = worker[w].job
      BY <3>2, <1>0 DEF WorkerRow
    <3>4. CompletedJobsOf(VideoOf(w))' = S
      BY <3>1, <3>3, <1>0 DEF CompletedJobsOf, JobsOf, VideoOf
    <3> QED
      BY <3>3, <3>4 DEF FinisherOK
  <2> QED
    BY <2>1, <2>2 DEF ListJobs
<1>2. PlaylistListsCompleted' /\ PlaylistPathHasFile'
  BY <1>0, PoolEffect, PlaylistFrame
<1> QED
  BY <1>0, <1>1, <1>2, FinishersStay DEF PlaylistInv

\* The playlist written has the entries of the jobs listed.
LEMMA PutPlaylistPlaylist ==
  ASSUME IInv, PlaylistInv, NEW w \in Workers, PoolStep(w), PutPlaylist(w)
  PROVE  PlaylistInv'
<1> DEFINE v == VideoOf(w)
<1>0. /\ worker \in [Workers -> WorkerRow] /\ disk \in [Videos -> Files] /\ UNCHANGED <<jobs, videos>>
      /\ faults \in 0 .. MaxFaults /\ MaxFaults \in Nat
      /\ worker[w].pc = "playlist" /\ Goto(w, "master")
  BY BoundsAssumption DEF IInv, TypeOK, StoreTypeOK, WorkerTypeOK, PutPlaylist, At
<1>1. /\ worker'[w].pc = "master" /\ worker'[w].job = worker[w].job
  BY <1>0 DEF Goto, WorkerRow
<1>2. v \in Videos /\ v' = v
  BY <1>0, <1>1, PoolEffect, WorkersJob
<1>3. CASE Fault /\ UNCHANGED disk
  <2>1. faults' # MaxFaults
    BY <1>0, <1>3 DEF Fault
  <2>2. FinisherOK(w)'
    BY <2>1, <1>1 DEF FinisherOK
  <2>3. PlaylistListsCompleted' /\ PlaylistPathHasFile'
    BY <1>0, <1>3, PoolEffect, PlaylistFrame
  <2> QED
    BY <1>3, <2>2, <2>3, FinishersStay DEF PlaylistInv
<1>4. ASSUME NEW read \in SUBSET worker[w].snap,
             disk' = [disk EXCEPT ![v].master = TRUE,
                        ![v].listed = UNION {HeightsOf(jobs[j].preset) : j \in read}]
      PROVE  PlaylistInv'
  <2>1. PICK L : L = UNION {HeightsOf(jobs[j].preset) : j \in read}
    OBVIOUS
  <2>2. disk' = [disk EXCEPT ![v].master = TRUE, ![v].listed = L]
    BY <1>4, <2>1
  <2> HIDE DEF v
  <2>3. /\ disk'[v].master /\ disk'[v].listed = L
        /\ \A x \in Videos : x # v => disk'[x] = disk[x]
    BY <2>2, <1>0, <1>2 DEF Files
  <2>4. \A x \in Videos : disk[x].master => disk'[x].master
    BY <2>3
  <2>5. FinisherOK(w)'
    BY <2>3, <1>1, <1>2 DEF FinisherOK, v
  <2>6. \A j \in read : j \in JobsOf(v) /\ jobs[j].status = "completed"
    BY <1>0 DEF PlaylistInv, FinisherOK, CompletedJobsOf, v
  <2>7. \A h \in L : \E j \in JobsOf(v) : jobs[j].status = "completed" /\ h \in HeightsOf(jobs[j].preset)
    BY <2>1, <2>6
  <2>8. PlaylistListsCompleted'
    BY <1>0, <1>2, <2>3, <2>7, ListedStay, PoolEffect DEF PlaylistInv, PlaylistListsCompleted, JobsOf
  <2>9. PlaylistPathHasFile'
    BY <1>0, <2>4, PoolEffect DEF PlaylistInv, PlaylistPathHasFile
  <2> QED
    BY <2>4, <2>5, <2>8, <2>9, FinishersStay DEF PlaylistInv
<1> QED
  BY <1>3, <1>4 DEF PutPlaylist

\* The path recorded is that of the playlist written.
LEMMA RecordPlaylistPlaylist ==
  ASSUME IInv, PlaylistInv, NEW w \in Workers, PoolStep(w), RecordPlaylist(w)
  PROVE  PlaylistInv'
<1> DEFINE v == VideoOf(w)
<1>0. /\ worker \in [Workers -> WorkerRow] /\ videos \in [Videos -> VideoRow] /\ UNCHANGED <<jobs, disk>>
      /\ worker[w].pc = "master" /\ Goto(w, "announce") /\ v \in Videos
  BY WorkersJob DEF IInv, TypeOK, StoreTypeOK, WorkerTypeOK, RecordPlaylist, At
<1>1. FinisherOK(w)'
  BY <1>0 DEF Goto, WorkerRow, FinisherOK
<1>2. PlaylistListsCompleted'
  BY <1>0, ListedStay, PoolEffect DEF PlaylistInv, PlaylistListsCompleted
<1>3. PlaylistPathHasFile'
  <2>1. CASE UNCHANGED videos
    BY <1>0, <2>1, PoolEffect DEF PlaylistInv, PlaylistPathHasFile
  <2>2. CASE SetMasterPlaylist(v)
    <3>1. \A x \in Videos : videos'[x].master => videos[x].master \/ x = v
      BY <1>0, <2>2 DEF SetMasterPlaylist, VideoRow
    <3>2. faults = MaxFaults => disk[v].master
      BY <1>0 DEF PlaylistInv, FinisherOK
    <3> QED
      BY <1>0, <3>1, <3>2, PoolEffect DEF PlaylistInv, PlaylistPathHasFile
  <2> QED
    BY <2>1, <2>2 DEF RecordPlaylist
<1> QED
  BY <1>0, <1>1, <1>2, <1>3, FinishersStay DEF PlaylistInv

\* Every step keeps the invariant of the playlists.
LEMMA NextPlaylistInv == IInv /\ PlaylistInv /\ [Next]_vars => PlaylistInv'
<1> SUFFICES ASSUME IInv, PlaylistInv, [Next]_vars PROVE PlaylistInv'
  OBVIOUS
<1>1. CASE Outside
  BY <1>1, OutsidePlaylist
<1>2. ASSUME NEW w \in Workers, PoolStep(w) PROVE PlaylistInv'
  <2>1. CASE ListJobs(w) \/ PutPlaylist(w) \/ RecordPlaylist(w)
    BY <1>2, <2>1, ListJobsPlaylist, PutPlaylistPlaylist, RecordPlaylistPlaylist
  <2>2. CASE ~ListJobs(w) /\ ~PutPlaylist(w) /\ ~RecordPlaylist(w)
    <3>1. /\ \A v \in Videos : disk'[v].master = disk[v].master /\ disk'[v].listed = disk[v].listed
                              /\ videos'[v].master = videos[v].master
          /\ worker'[w].pc \in {"playlist", "master"} => worker' = worker
      BY <1>2, <2>2, AwayFromPlaylist
    <3>2. PlaylistListsCompleted' /\ PlaylistPathHasFile'
      BY <1>2, <3>1, PoolEffect, PlaylistFrame
    <3>3. FinisherOK(w)'
      <4>1. CASE worker' = worker
        BY <1>2, <3>1, <4>1, PoolEffect, FinisherStays DEF PlaylistInv
      <4>2. CASE worker'[w].pc \notin {"playlist", "master"}
        BY <4>2 DEF FinisherOK
      <4> QED
        BY <3>1, <4>1, <4>2
    <3> QED
      BY <1>2, <3>1, <3>2, <3>3, FinishersStay DEF PlaylistInv
  <2> QED
    BY <2>1, <2>2
<1> QED
  BY <1>1, <1>2 DEF Next, Outside

\* A stored playlist never names a rendition no completed job made, whichever of two
\* finishers of the video wrote it last and whatever became of the jobs since it was read.
THEOREM PlaylistsListCompleted == Spec => []PlaylistListsCompleted
<1>1. Spec => []PlaylistInv
  BY InitPlaylistInv, NextPlaylistInv, InvariantHolds, PTL DEF Spec
<1>2. PlaylistInv => PlaylistListsCompleted
  BY DEF PlaylistInv
<1> QED
  BY <1>1, <1>2, PTL

\* Until a call to the storage or the database fails, a video that has the path of its
\* playlist has the playlist, also when the pool was stopped between the two writes.
THEOREM PlaylistPathsHold == Spec => []PlaylistPathHasFile
<1>1. Spec => []PlaylistInv
  BY InitPlaylistInv, NextPlaylistInv, InvariantHolds, PTL DEF Spec
<1>2. PlaylistInv => PlaylistPathHasFile
  BY DEF PlaylistInv
<1> QED
  BY <1>1, <1>2, PTL

----------------------------------------------------------------------------
(* Renditions: the invariant *)

\* Another job of j's video that writes the directory h too has been started.
Excused(j, h) ==
  \E k \in JobsOf(jobs[j].video) \ {j} : h \in HeightsOf(jobs[k].preset) /\ jobs[k].attempts > 0

Stored(j, h) == h \in disk[jobs[j].video].intact \/ Excused(j, h)

\* A worker has stored the resolutions it is past, except one whose directory it is
\* writing again; and a directory two write at once is excused for both.
EncoderOK(w) ==
  /\ worker[w].pc \in {"encode", "encoding"} =>
       \A n \in 1 .. worker[w].i - 1 :
         \/ Stored(worker[w].job, Resolutions[PresetOf(w)][n])
         \/ worker[w].pc = "encoding" /\ Resolutions[PresetOf(w)][n] = HeightAt(w)
  /\ worker[w].pc = "encoding" /\ worker[w].mixed => Excused(worker[w].job, HeightAt(w))
  /\ worker[w].pc = "complete" => \A h \in HeightsOf(PresetOf(w)) : Stored(worker[w].job, h)

CompletedStored ==
  \A j \in JobIds : jobs[j].status = "completed" =>
    \A h \in HeightsOf(jobs[j].preset) : Stored(j, h)

RenditionInv == CompletedStored /\ \A w \in Workers : EncoderOK(w)

\* At the start there is nothing to store.
LEMMA InitRenditionInv == Init => RenditionInv
BY DEF Init, StoreInit, WorkerInit, NoJob, IdleWorker, RenditionInv, CompletedStored, EncoderOK

\* An excuse stays, as rows and attempts do.
LEMMA ExcuseStays ==
  ASSUME IInv, IInv', RowsGrow, NEW j \in 1 .. created, NEW h, Excused(j, h)
  PROVE  Excused(j, h)'
<1>1. PICK k \in JobsOf(jobs[j].video) \ {j} : h \in HeightsOf(jobs[k].preset) /\ jobs[k].attempts > 0
  BY DEF Excused
<1>2. k \in JobIds /\ jobs[k].video = jobs[j].video /\ k # j
  BY <1>1 DEF JobsOf
<1>3. RowOK(k) /\ created \in Nat /\ jobs[k].attempts # 0
  BY <1>1, <1>2 DEF IInv, QueueInv, TypeOK, StoreTypeOK
<1>4. k \in 1 .. created
  BY <1>2, <1>3 DEF RowOK, JobIds
<1>5. jobs[k].attempts \in Nat
  BY <1>4, RowTypes
<1>6. jobs'[k].attempts >= jobs[k].attempts /\ jobs'[k].attempts \in Nat
  BY <1>2, <1>4, BoundsAssumption DEF RowsGrow, IInv, TypeOK, StoreTypeOK, JobRow
<1> QED
  BY <1>1, <1>2, <1>4, <1>5, <1>6 DEF Excused, JobsOf, RowsGrow

\* No rendition is lost without an excuse.
KeepsOf(j) == \A h : Stored(j, h) => Stored(j, h)'
KeepsStored == \A j \in 1 .. created : KeepsOf(j)

\* A rendition that is stored stays so while its files do.
LEMMA IntactKeepsStored ==
  ASSUME IInv, IInv', RowsGrow, \A v \in Videos : disk[v].intact \subseteq disk'[v].intact
  PROVE  KeepsStored
<1> SUFFICES ASSUME NEW j \in 1 .. created, NEW h, Stored(j, h) PROVE Stored(j, h)'
  BY DEF KeepsStored, KeepsOf
<1>1. jobs[j].video \in Videos /\ jobs'[j].video = jobs[j].video
  BY RowTypes DEF RowsGrow
<1>2. Excused(j, h) => Excused(j, h)'
  BY ExcuseStays
<1> QED
  BY <1>1, <1>2 DEF Stored

\* Only Complete completes a job.
LEMMA NewlyCompleted ==
  ASSUME IInv, [Next]_vars, NEW j \in JobIds,
         jobs'[j].status = "completed", jobs[j].status # "completed"
  PROVE  \E w \in Workers : RecordComplete(w) /\ worker[w].job = j
<1>0. TypeOK /\ QueueInv
  BY DEF IInv
<1>1. QueueStep /\ jobs' # jobs
  BY NextIInv
<1>2. ASSUME NEW w \in Workers, PoolStep(w) PROVE \E x \in Workers : RecordComplete(x) /\ worker[x].job = j
  <2>1. CASE Claim(w) \/ ClaimReplyLost(w)
    <3>1. PICK k \in JobIds : ClaimRow(w, k)
      BY <2>1 DEF Claim, ClaimReplyLost
    <3> QED
      BY <3>1, <1>0, ClaimRowEffect
  <2>2. CASE RecordFailure(w)
    <3>1. FailRow(worker[w].job) /\ worker[w].pc \in {"fail", "reject"}
      BY <2>2, <1>1 DEF RecordFailure, At
    <3>2. worker[w].job \in JobIds /\ jobs \in [JobIds -> JobRow]
      BY <3>1, <1>0, JobOfWorker DEF TypeOK, StoreTypeOK
    <3> QED
      BY <3>1, <3>2 DEF FailRow, JobRow
  <2>3. CASE RecordComplete(w)
    <3>1. CompleteRow(worker[w].job) /\ worker[w].pc = "complete"
      BY <2>3, <1>1 DEF RecordComplete, At
    <3>2. worker[w].job \in JobIds /\ jobs \in [JobIds -> JobRow]
      BY <3>1, <1>0, JobOfWorker DEF TypeOK, StoreTypeOK
    <3> QED
      BY <2>3, <3>1, <3>2 DEF CompleteRow
  <2>4. CASE UNCHANGED jobs
    BY <1>1, <2>4
  <2> QED
    BY <1>2, <2>1, <2>2, <2>3, <2>4
    DEF PoolStep, WorkerStep, ProcessJob, NoWork, LeaveRun, LookupVideo, LookupPreset, StartEncode,
        FinishEncode, EncodeFails, NotifyFailure, CheckAllDone, MarkReady, ListJobs, PutPlaylist,
        RecordPlaylist, Announce, storeVars
<1>3. CASE RequestStep
  <2>1. Inserts
    BY <1>1, <1>3, RequestStepIInv
  <2> QED
    BY <2>1, <1>0, InsertRowEffect DEF Inserts
<1>4. CASE Stop \/ Exit \/ Crash \/ Restart \/ UNCHANGED vars
  BY <1>1, <1>4 DEF Stop, Exit, Crash, Restart, ProcessGone, storeVars, vars
<1> QED
  BY <1>2, <1>3, <1>4 DEF Next

\* A job is completed by the worker that has stored all its renditions.
LEMMA CompletedStoredStays ==
  ASSUME IInv, RenditionInv, [Next]_vars, KeepsStored
  PROVE  CompletedStored'
<1> SUFFICES ASSUME NEW j \in JobIds, jobs'[j].status = "completed",
                    NEW h \in HeightsOf(jobs'[j].preset)
             PROVE  Stored(j, h)'
  BY DEF CompletedStored
<1>0. RowsGrow /\ created \in Nat
  BY NextIInv, QueueGrows DEF IInv, TypeOK, StoreTypeOK
<1>1. CASE jobs[j].status = "completed"
  <2>1. j \in 1 .. created
    BY <1>0, <1>1 DEF IInv, QueueInv, RowOK, JobIds
  <2> QED
    BY <1>0, <1>1, <2>1 DEF RowsGrow, KeepsStored, KeepsOf, RenditionInv, CompletedStored
<1>2. CASE jobs[j].status # "completed"
  <2>1. PICK w \in Workers : RecordComplete(w) /\ worker[w].job = j
    BY <1>2, NewlyCompleted
  <2>2. worker[w].pc = "complete" /\ j \in 1 .. created
    BY <2>1, WorkersJob DEF RecordComplete, At
  <2>3. h \in HeightsOf(PresetOf(w))
    BY <1>0, <2>1, <2>2 DEF RowsGrow, PresetOf
  <2> QED
    BY <2>1, <2>2, <2>3 DEF RenditionInv, EncoderOK, KeepsStored, KeepsOf
<1> QED
  BY <1>1, <1>2

\* A worker that stays where it is keeps what it has stored.
LEMMA EncoderStays ==
  ASSUME IInv, IInv', RowsGrow, NEW x \in Workers, EncoderOK(x),
         \A j \in 1 .. created : j = worker[x].job => KeepsOf(j),
         worker'[x].pc = worker[x].pc, worker'[x].job = worker[x].job, worker'[x].i = worker[x].i,
         worker[x].pc = "encoding" /\ worker'[x].mixed /\ ~worker[x].mixed
           => Excused(worker[x].job, HeightAt(x))'
  PROVE  EncoderOK(x)'
<1>1. CASE worker[x].pc \in {"encode", "encoding", "complete"}
  <2>1. PICK j, g, r : j = worker[x].job /\ g = HeightAt(x) /\ r = Resolutions[PresetOf(x)]
    OBVIOUS
  <2>2. j \in 1 .. created /\ PresetOf(x)' = PresetOf(x)
    BY <1>1, <2>1, WorkersJob
  <2>3. worker'[x].job = j /\ HeightAt(x)' = g /\ Resolutions[PresetOf(x)'] = r
    BY <2>1, <2>2 DEF HeightAt
  <2>4. \A h : Stored(j, h) => Stored(j, h)'
    BY <2>1, <2>2 DEF KeepsOf
  <2>5. ASSUME worker[x].pc \in {"encode", "encoding"}, NEW n \in 1 .. worker[x].i - 1,
               NEW h, h = r[n]
        PROVE  Stored(j, h)' \/ (worker[x].pc = "encoding" /\ h = g)
    BY <2>1, <2>4, <2>5 DEF EncoderOK
  <2>6. ASSUME worker[x].pc = "encoding", worker'[x].mixed PROVE Excused(j, g)'
    <3>1. CASE worker[x].mixed
      BY <2>1, <2>2, <2>6, <3>1, ExcuseStays DEF EncoderOK
    <3>2. CASE ~worker[x].mixed
      BY <2>1, <2>3, <2>6, <3>2 DEF Excused, JobsOf
    <3> QED
      BY <3>1, <3>2
  <2>7. ASSUME worker[x].pc = "complete", NEW h \in HeightsOf(PresetOf(x)) PROVE Stored(j, h)'
    BY <2>1, <2>4, <2>7 DEF EncoderOK
  <2> QED
    BY <2>2, <2>3, <2>5, <2>6, <2>7 DEF EncoderOK, Stored, Excused, JobsOf
<1>2. CASE worker[x].pc \notin {"encode", "encoding", "complete"}
  BY <1>2 DEF EncoderOK
<1> QED
  BY <1>1, <1>2

\* Steps outside the encoder keep the invariant of the renditions.
LEMMA OutsideRenditions ==
  ASSUME IInv, RenditionInv, Outside
  PROVE  RenditionInv'
<1>1. [Next]_vars /\ IInv' /\ RowsGrow
  BY NextIInv, OutsideEffect DEF Outside, Next
<1>2. KeepsStored
  BY <1>1, OutsideEffect, IntactKeepsStored
<1>3. ASSUME NEW w \in Workers PROVE EncoderOK(w)'
  <2>1. CASE worker'[w] = worker[w]
    BY <1>1, <1>2, <2>1, EncoderStays DEF RenditionInv, KeepsStored
  <2>2. CASE worker'[w].pc \in {"idle", "exited"}
    BY <2>2 DEF EncoderOK
  <2> QED
    BY <2>1, <2>2, OutsideEffect
<1> QED
  BY <1>1, <1>2, <1>3, CompletedStoredStays DEF RenditionInv

\* The others go on as they were.
LEMMA EncodersStay ==
  ASSUME IInv, RenditionInv, NEW w \in Workers, PoolStep(w), KeepsStored, EncoderOK(w)',
         \A x \in Workers : x # w => worker'[x].mixed = worker[x].mixed
  PROVE  RenditionInv'
<1>1. [Next]_vars /\ IInv' /\ RowsGrow /\ OnlyMoves(w)
  BY NextIInv, PoolEffect DEF Next
<1>2. ASSUME NEW x \in Workers, x # w PROVE EncoderOK(x)'
  BY <1>1, <1>2, EncoderStays DEF RenditionInv, KeepsStored, OnlyMoves
<1> QED
  BY <1>1, <1>2, CompletedStoredStays DEF RenditionInv

\* What ffmpeg has written of a directory nobody else wrote meanwhile is intact.
LEMMA FinishEncodeRenditions ==
  ASSUME IInv, RenditionInv, NEW w \in Workers, PoolStep(w), FinishEncode(w)
  PROVE  RenditionInv'
<1>0. /\ worker \in [Workers -> WorkerRow] /\ disk \in [Videos -> Files]
      /\ worker[w].pc = "encoding" /\ UNCHANGED jobs /\ IInv' /\ RowsGrow
  BY PoolEffect, NextIInv DEF IInv, TypeOK, StoreTypeOK, WorkerTypeOK, FinishEncode, At, Next
<1>1. PICK j, g, r, v : /\ j = worker[w].job /\ g = HeightAt(w) /\ r = Resolutions[PresetOf(w)]
                        /\ v = VideoOf(w)
  OBVIOUS
<1>2. /\ j \in 1 .. created /\ v \in Videos /\ v = jobs[j].video
      /\ PresetOf(w) \in Presets /\ r \in Seq(Height)
      /\ worker[w].i \in 1 .. Len(r) /\ g = r[worker[w].i]
  BY <1>0, <1>1, WorkersJob, PresetsAssumption DEF IInv, QueueInv, WorkerOK, HeightAt, VideoOf
<1>3. disk' = [disk EXCEPT ![v].intact = IF worker[w].mixed THEN @ ELSE @ \cup {g}]
  BY <1>1 DEF FinishEncode
<1>4. \A x \in Videos : disk[x].intact \subseteq disk'[x].intact
  BY <1>0, <1>3 DEF Files
<1>5. KeepsStored
  BY <1>0, <1>4, IntactKeepsStored
<1>6. Stored(j, g)'
  <2>1. CASE worker[w].mixed
    BY <1>0, <1>1, <1>2, <2>1, ExcuseStays DEF RenditionInv, EncoderOK, Stored
  <2>2. CASE ~worker[w].mixed
    <3>1. g \in disk'[v].intact
      BY <1>0, <1>2, <1>3, <2>2 DEF Files
    <3> QED
      BY <1>0, <1>2, <3>1 DEF Stored
  <2> QED
    BY <2>1, <2>2
<1>7. ASSUME NEW n \in 1 .. worker[w].i, NEW h, h = r[n] PROVE Stored(j, h)'
  <2>1. worker[w].i \in Nat
    BY <1>2
  <2>2. CASE n = worker[w].i
    BY <1>2, <1>6, <1>7, <2>2
  <2>3. CASE n \in 1 .. worker[w].i - 1
    <3>1. Stored(j, h) \/ h = g
      BY <1>0, <1>1, <1>7, <2>3 DEF RenditionInv, EncoderOK
    <3> QED
      BY <1>2, <1>5, <1>6, <3>1 DEF KeepsStored, KeepsOf
  <2> QED
    BY <2>1, <2>2, <2>3
<1>8. EncoderOK(w)'
  <2>1. CASE worker' = [worker EXCEPT ![w] = [worker[w] EXCEPT !.pc = "complete"]] /\ worker[w].i = Len(r)
    <3>1. worker'[w].pc = "complete" /\ worker'[w].job = j
      BY <1>0, <1>1, <2>1 DEF WorkerRow
    <3>2. PresetOf(w)' = PresetOf(w)
      BY <1>0, <1>1, <3>1 DEF PresetOf
    <3>3. ASSUME NEW h \in HeightsOf(PresetOf(w)) PROVE Stored(j, h)'
      <4>1. PICK n \in 1 .. Len(r) : h = r[n]
        BY <1>1, <1>2 DEF HeightsOf
      <4> QED
        BY <1>7, <2>1, <4>1
    <3> QED
      BY <3>1, <3>2, <3>3 DEF EncoderOK, Stored, Excused, JobsOf
  <2>2. CASE worker' = [worker EXCEPT ![w] = [worker[w] EXCEPT !.pc = "encode", !.i = worker[w].i + 1]]
    <3>1. worker'[w].pc = "encode" /\ worker'[w].job = j /\ worker'[w].i = worker[w].i + 1
      BY <1>0, <1>1, <2>2 DEF WorkerRow
    <3>2. Resolutions[PresetOf(w)'] = r
      BY <1>0, <1>1, <3>1 DEF PresetOf
    <3>3. worker'[w].i - 1 = worker[w].i
      BY <1>2, <3>1
    <3> QED
      BY <1>7, <3>1, <3>2, <3>3 DEF EncoderOK, Stored, Excused, JobsOf
  <2>3. CASE LastResolution(w)
    BY <1>1, <2>1, <2>3 DEF FinishEncode, LastResolution
  <2>4. CASE ~LastResolution(w)
    BY <1>1, <2>2, <2>4 DEF FinishEncode, LastResolution
  <2> QED
    BY <2>3, <2>4
<1>9. \A x \in Workers : x # w => worker'[x].mixed = worker[x].mixed
  BY <1>0 DEF FinishEncode
<1> QED
  BY <1>5, <1>8, <1>9, EncodersStay

\* Overwriting a rendition excuses every other job of the video that has it, for the
\* job that does so has been started; and no other worker has that job.
LEMMA StartEncodeRenditions ==
  ASSUME IInv, RenditionInv, NEW w \in Workers, PoolStep(w), StartEncode(w)
  PROVE  RenditionInv'
<1>0. /\ worker \in [Workers -> WorkerRow] /\ disk \in [Videos -> Files]
      /\ worker[w].pc = "encode" /\ UNCHANGED <<jobs, created>> /\ IInv' /\ RowsGrow /\ OnlyMoves(w)
  BY PoolEffect, NextIInv DEF IInv, TypeOK, StoreTypeOK, WorkerTypeOK, StartEncode, At, Next
<1>1. PICK j, g, r, v : /\ j = worker[w].job /\ g = HeightAt(w) /\ r = Resolutions[PresetOf(w)]
                        /\ v = VideoOf(w)
  OBVIOUS
<1>2. /\ j \in 1 .. created /\ j \in JobIds /\ v \in Videos /\ v = jobs[j].video
      /\ PresetOf(w) \in Presets /\ r \in Seq(Height)
      /\ worker[w].i \in 1 .. Len(r) /\ g = r[worker[w].i]
  BY <1>0, <1>1, WorkersJob, PresetsAssumption DEF IInv, QueueInv, WorkerOK, HeightAt, VideoOf
<1>3. disk' = [disk EXCEPT ![v].intact = @ \ {g}]
  BY <1>1 DEF StartEncode
<1>4. jobs[j].status = "processing" /\ jobs[j].attempts > 0
  BY <1>0, <1>1, <1>2, RowTypes DEF IInv, QueueInv, HeldRowIsClaimed, Holds, Holding
<1>5. g \in HeightsOf(jobs[j].preset)
  BY <1>1, <1>2 DEF HeightsOf, PresetOf
<1>6. ASSUME NEW k \in 1 .. created, k # j PROVE KeepsOf(k)
  <2> SUFFICES ASSUME NEW h, Stored(k, h) PROVE Stored(k, h)'
    BY DEF KeepsOf
  <2>1. jobs[k].video \in Videos
    BY RowTypes
  <2>2. CASE Excused(k, h)
    BY <1>0, <2>2, ExcuseStays DEF Stored
  <2>3. CASE h \in disk[jobs[k].video].intact /\ (jobs[k].video # v \/ h # g)
    <3>1. h \in disk'[jobs[k].video].intact
      BY <1>0, <1>2, <1>3, <2>1, <2>3 DEF Files
    <3> QED
      BY <1>0, <3>1 DEF Stored
  <2>4. CASE jobs[k].video = v /\ h = g
    BY <1>0, <1>2, <1>4, <1>5, <1>6, <2>4 DEF Stored, Excused, JobsOf
  <2> QED
    BY <2>2, <2>3, <2>4 DEF Stored
<1>7. ASSUME NEW h, Stored(j, h), h # g PROVE Stored(j, h)'
  <2>1. h \in disk[v].intact => h \in disk'[v].intact
    BY <1>0, <1>2, <1>3, <1>7 DEF Files
  <2>2. Excused(j, h) => Excused(j, h)'
    BY <1>0, <1>2, ExcuseStays
  <2> QED
    BY <1>0, <1>2, <1>7, <2>1, <2>2 DEF Stored
<1>8. CompletedStored'
  <2> SUFFICES ASSUME NEW k \in JobIds, jobs[k].status = "completed", NEW h \in HeightsOf(jobs[k].preset)
               PROVE  Stored(k, h)'
    BY <1>0 DEF CompletedStored
  <2>1. k # j /\ k \in 1 .. created
    BY <1>4 DEF IInv, QueueInv, RowOK, JobIds, TypeOK, StoreTypeOK
  <2> QED
    BY <1>6, <2>1 DEF RenditionInv, CompletedStored, KeepsOf
<1> DEFINE S == SameDirectory(w)
<1>9. worker' = [x \in Workers |->
       IF x = w THEN [worker[x] EXCEPT !.pc = "encoding", !.mixed = S # {}]
       ELSE [worker[x] EXCEPT !.mixed = worker[x].mixed \/ x \in S]]
  BY DEF StartEncode
<1>10. \A x \in S : /\ x \in Workers /\ x # w /\ worker[x].pc = "encoding"
                    /\ VideoOf(x) = v /\ HeightAt(x) = g
  BY <1>1 DEF SameDirectory, At
<1> HIDE DEF S
<1>11. \A x \in S : worker[x].job # j
  BY <1>0, <1>1, <1>2, <1>10 DEF IInv, QueueInv, HeldRowIsClaimed, Holds, Holding
<1>12. ASSUME NEW x \in Workers, x # w PROVE EncoderOK(x)'
  <2>1. worker'[x].mixed <=> worker[x].mixed \/ x \in S
    <3>1. worker'[x] = [worker[x] EXCEPT !.mixed = worker[x].mixed \/ x \in S]
      BY <1>9, <1>12
    <3>2. \A q \in WorkerRow, b \in BOOLEAN : [q EXCEPT !.mixed = b].mixed = b
      BY DEF WorkerRow
    <3> QED
      BY <1>0, <3>1, <3>2
  <2>2. CASE worker[x].pc \notin {"encode", "encoding", "complete"}
    BY <1>0, <1>12, <2>2 DEF OnlyMoves, EncoderOK
  <2>3. CASE worker[x].pc \in {"encode", "encoding", "complete"}
    <3>1. PICK k, f : k = worker[x].job /\ f = HeightAt(x)
      OBVIOUS
    <3>2. k \in 1 .. created /\ k # j
      BY <1>0, <1>1, <1>2, <1>12, <2>3, <3>1, WorkersJob
      DEF IInv, QueueInv, HeldRowIsClaimed, Holds, Holding
    <3>3. x \in S => Excused(k, f)'
      BY <1>0, <1>2, <1>4, <1>5, <1>10, <3>1, <3>2 DEF Excused, JobsOf, VideoOf
    <3>4. worker'[x].job = k /\ HeightAt(x)' = f
      BY <1>0, <1>12, <3>1 DEF OnlyMoves, HeightAt, PresetOf
    <3>5. x \in S => Excused(worker[x].job, HeightAt(x))'
      BY <1>0, <3>3, <3>4 DEF Excused, JobsOf
    <3> QED
      BY <1>0, <1>6, <1>12, <2>1, <3>1, <3>2, <3>5, EncoderStays DEF OnlyMoves, RenditionInv
  <2> QED
    BY <2>2, <2>3
<1>13. EncoderOK(w)'
  <2>1. /\ worker'[w].pc = "encoding" /\ worker'[w].job = j /\ worker'[w].i = worker[w].i
        /\ worker'[w].mixed => S # {}
    <3>1. PICK b \in BOOLEAN : b <=> S # {}
      OBVIOUS
    <3>2. worker'[w] = [worker[w] EXCEPT !.pc = "encoding", !.mixed = b]
      BY <1>9, <3>1
    <3> QED
      BY <1>0, <1>1, <3>1, <3>2 DEF WorkerRow
  <2>2. Resolutions[PresetOf(w)'] = r /\ HeightAt(w)' = g
    BY <1>0, <1>1, <1>2, <2>1 DEF PresetOf, HeightAt
  <2>3. ASSUME NEW n \in 1 .. worker[w].i - 1, NEW h, h = r[n] PROVE Stored(j, h)' \/ h = g
    BY <1>0, <1>1, <1>7, <2>3 DEF RenditionInv, EncoderOK
  <2>4. ASSUME NEW x \in S PROVE Excused(j, g)'
    <3>1. PICK k : k = worker[x].job
      OBVIOUS
    <3>2. k \in 1 .. created /\ k \in JobIds /\ k # j /\ jobs[k].video = v /\ jobs[k].status = "processing"
      <4>1. x \in Workers /\ worker[x].pc = "encoding" /\ jobs[k].video = v /\ k # j
        BY <1>10, <1>11, <3>1 DEF VideoOf
      <4>2. k \in 1 .. created /\ k \in JobIds
        BY <3>1, <4>1, WorkersJob
      <4>3. Holds(x, k)
        BY <3>1, <4>1 DEF Holds, Holding
      <4> QED
        BY <4>1, <4>2, <4>3 DEF IInv, QueueInv, HeldRowIsClaimed
    <3>3. g \in HeightsOf(jobs[k].preset)
      <4>1. /\ worker[x].i \in 1 .. Len(Resolutions[PresetOf(x)]) /\ PresetOf(x) = jobs[k].preset
            /\ PresetOf(x) \in Presets /\ Resolutions[PresetOf(x)] \in Seq(Height)
        BY <1>10, <3>1, WorkersJob, PresetsAssumption DEF IInv, QueueInv, WorkerOK, PresetOf
      <4> QED
        BY <1>10, <4>1 DEF HeightsOf, HeightAt
    <3>4. jobs[k].attempts > 0
      BY <3>2, RowTypes
    <3> QED
      BY <1>0, <1>2, <3>2, <3>3, <3>4 DEF Excused, JobsOf
  <2> QED
    BY <2>1, <2>2, <2>3, <2>4 DEF EncoderOK, Stored, Excused, JobsOf
<1> QED
  BY <1>8, <1>12, <1>13 DEF RenditionInv

\* The workers' other steps.
LEMMA AwayFromEncoder ==
  ASSUME IInv, NEW w \in Workers, PoolStep(w), ~StartEncode(w), ~FinishEncode(w)
  PROVE  /\ \A v \in Videos : disk[v].intact \subseteq disk'[v].intact
         /\ \/ worker' = worker
            \/ /\ \A x \in Workers : x # w => worker'[x] = worker[x]
               /\ \/ worker'[w].pc \notin {"encode", "encoding", "complete"}
                  \/ worker'[w].pc = "encode" /\ worker'[w].i = 1
<1>0. disk \in [Videos -> Files] /\ worker \in [Workers -> WorkerRow]
  BY DEF IInv, TypeOK, StoreTypeOK, WorkerTypeOK
<1>1. CASE PutPlaylist(w)
  <2>1. VideoOf(w) \in Videos
    BY <1>1, WorkersJob DEF PutPlaylist, At
  <2>2. disk' = disk \/ \E L : disk' = [disk EXCEPT ![VideoOf(w)].master = TRUE, ![VideoOf(w)].listed = L]
    BY <1>1 DEF PutPlaylist
  <2>3. \A v \in Videos : disk[v].intact \subseteq disk'[v].intact
    BY <1>0, <2>1, <2>2 DEF Files
  <2>4. worker' = [worker EXCEPT ![w].pc = "master"]
    BY <1>1 DEF PutPlaylist, Goto
  <2> QED
    BY <1>0, <2>3, <2>4 DEF WorkerRow
<1>2. CASE NoWork(w)
  BY <1>2 DEF NoWork, storeVars, workerVars
<1>3. CASE ~PutPlaylist(w) /\ ~NoWork(w)
  <2>1. UNCHANGED disk
    BY <1>3 DEF PoolStep, WorkerStep, ProcessJob, Claim, ClaimReplyLost, LeaveRun, LookupVideo, LookupPreset,
                EncodeFails, RecordFailure, NotifyFailure, RecordComplete, CheckAllDone, MarkReady, ListJobs,
                RecordPlaylist, Announce, storeVars
  <2>2. CASE Claim(w)
    <3>1. PICK j \in JobIds : worker' = [worker EXCEPT ![w] = [IdleWorker EXCEPT !.pc = "video", !.job = j]]
      BY <2>2 DEF Claim
    <3>2. [IdleWorker EXCEPT !.pc = "video", !.job = j].pc = "video"
      BY DEF IdleWorker
    <3> QED
      BY <1>0, <2>1, <3>1, <3>2
  <2>3. CASE LookupPreset(w)
    <3>1. worker' = [worker EXCEPT ![w].pc = "encode", ![w].i = 1] \/ Goto(w, "reject")
      BY <2>3 DEF LookupPreset
    <3> QED
      BY <1>0, <2>1, <3>1 DEF Goto, WorkerRow
  <2>4. CASE ListJobs(w)
    <3>1. \/ Goto(w, "announce")
          \/ \E S : worker' = [worker EXCEPT ![w].pc = "playlist", ![w].snap = S]
      BY <2>4 DEF ListJobs
    <3> QED
      BY <1>0, <2>1, <3>1 DEF Goto, WorkerRow
  <2>5. CASE ~Claim(w) /\ ~LookupPreset(w) /\ ~ListJobs(w)
    <3>1. \/ \E r : worker' = [worker EXCEPT ![w] = r] /\ r.pc \in {"idle", "exited"}
          \/ \E pc \in PCs \ {"encode", "encoding", "complete"} : Goto(w, pc)
      <4>1. IdleWorker.pc = "idle" /\ ExitedWorker.pc = "exited"
        BY DEF IdleWorker, ExitedWorker
      <4>2. \/ worker' = [worker EXCEPT ![w] = IdleWorker]
            \/ worker' = [worker EXCEPT ![w] = ExitedWorker]
            \/ \E pc \in {"preset", "reject", "fail", "notify", "check", "ready", "list", "announce"} : Goto(w, pc)
        BY <1>3, <2>5 DEF PoolStep, WorkerStep, ProcessJob, ClaimReplyLost, LeaveRun, LookupVideo, EncodeFails,
                          RecordFailure, NotifyFailure, RecordComplete, CheckAllDone, MarkReady,
                          RecordPlaylist, Announce, BackToIdle
      <4> QED
        BY <4>1, <4>2 DEF PCs, Holding, Finishing
    <3> QED
      BY <1>0, <2>1, <3>1 DEF Goto, WorkerRow
  <2> QED
    BY <2>2, <2>3, <2>4, <2>5
<1> QED
  BY <1>1, <1>2, <1>3

\* Every step keeps the invariant of the renditions.
LEMMA NextRenditionInv == IInv /\ RenditionInv /\ [Next]_vars => RenditionInv'
<1> SUFFICES ASSUME IInv, RenditionInv, [Next]_vars PROVE RenditionInv'
  OBVIOUS
<1>0. IInv'
  BY NextIInv
<1>1. CASE Outside
  BY <1>1, OutsideRenditions
<1>2. ASSUME NEW w \in Workers, PoolStep(w) PROVE RenditionInv'
  <2>1. CASE StartEncode(w) \/ FinishEncode(w)
    BY <1>2, <2>1, StartEncodeRenditions, FinishEncodeRenditions
  <2>2. CASE ~StartEncode(w) /\ ~FinishEncode(w)
    <3>1. /\ \A v \in Videos : disk[v].intact \subseteq disk'[v].intact
          /\ \/ worker' = worker
             \/ /\ \A x \in Workers : x # w => worker'[x] = worker[x]
                /\ \/ worker'[w].pc \notin {"encode", "encoding", "complete"}
                   \/ worker'[w].pc = "encode" /\ worker'[w].i = 1
      BY <1>2, <2>2, AwayFromEncoder
    <3>2. KeepsStored /\ RowsGrow
      BY <1>0, <1>2, <3>1, PoolEffect, IntactKeepsStored
    <3>3. EncoderOK(w)'
      <4>1. CASE worker' = worker
        BY <1>0, <3>2, <4>1, EncoderStays DEF RenditionInv, KeepsStored
      <4>2. CASE worker'[w].pc \notin {"encode", "encoding", "complete"}
        BY <4>2 DEF EncoderOK
      <4>3. CASE worker'[w].pc = "encode" /\ worker'[w].i = 1
        <5>1. 1 .. worker'[w].i - 1 = {}
          BY <4>3
        <5> QED
          BY <4>3, <5>1 DEF EncoderOK
      <4> QED
        BY <3>1, <4>1, <4>2, <4>3
    <3>4. \A x \in Workers : x # w => worker'[x].mixed = worker[x].mixed
      BY <3>1
    <3> QED
      BY <1>2, <3>2, <3>3, <3>4, EncodersStay
  <2> QED
    BY <2>1, <2>2
<1> QED
  BY <1>1, <1>2 DEF Next, Outside

\* A completed job's renditions lie intact in storage unless another job of the video
\* that writes the same directory was started: no retry of the job itself, no failed
\* attempt of an earlier process and no job of another video touches them.
THEOREM RenditionsStored == Spec => []CompletedHasRenditions
<1>1. Spec => []RenditionInv
  BY InitRenditionInv, NextRenditionInv, InvariantHolds, PTL DEF Spec
<1>2. RenditionInv => CompletedHasRenditions
  BY DEF RenditionInv, CompletedStored, CompletedHasRenditions, Stored, Excused, WithStatus
<1> QED
  BY <1>1, <1>2, PTL

----------------------------------------------------------------------------
(* Finishing a video: counting *)

\* Three ways to keep m + |F| within |C|: nothing more on the left, one more finisher
\* for one more completed job, and an event for a finisher.
LEMMA BoundKept ==
  ASSUME NEW F, NEW G \in SUBSET F, NEW D, NEW C \in SUBSET D, NEW m \in Nat, NEW n \in Nat,
         IsFiniteSet(F), IsFiniteSet(D), n <= m, m + Cardinality(F) <= Cardinality(C)
  PROVE  n + Cardinality(G) <= Cardinality(D)
<1>1. IsFiniteSet(G) /\ IsFiniteSet(C)
  BY FS_Subset
<1>2. Cardinality(G) <= Cardinality(F) /\ Cardinality(C) <= Cardinality(D)
  BY FS_Subset
<1>3. /\ Cardinality(F) \in Nat /\ Cardinality(G) \in Nat
      /\ Cardinality(C) \in Nat /\ Cardinality(D) \in Nat
  BY <1>1, FS_CardinalityType
<1> QED
  BY <1>2, <1>3

\* One worker more finishes the video, and one job more is completed.
LEMMA BoundGrows ==
  ASSUME NEW F, NEW w, NEW G \in SUBSET (F \cup {w}), NEW D, NEW j, NEW C, j \notin C, C \cup {j} \subseteq D,
         NEW m \in Nat, IsFiniteSet(F), IsFiniteSet(D), m + Cardinality(F) <= Cardinality(C)
  PROVE  m + Cardinality(G) <= Cardinality(D)
<1>1. IsFiniteSet(C)
  BY FS_Subset
<1>2. /\ IsFiniteSet(F \cup {w}) /\ IsFiniteSet(C \cup {j})
      /\ Cardinality(C \cup {j}) = Cardinality(C) + 1
      /\ Cardinality(F \cup {w}) = Cardinality(F) \/ Cardinality(F \cup {w}) = Cardinality(F) + 1
  BY <1>1, FS_AddElement
<1>3. IsFiniteSet(G) /\ Cardinality(G) <= Cardinality(F \cup {w}) /\ Cardinality(C \cup {j}) <= Cardinality(D)
  BY <1>2, FS_Subset
<1>4. /\ Cardinality(F) \in Nat /\ Cardinality(G) \in Nat
      /\ Cardinality(C) \in Nat /\ Cardinality(D) \in Nat
  BY <1>1, <1>3, FS_CardinalityType
<1> QED
  BY <1>2, <1>3, <1>4

\* One event more is fired, and one worker less may fire one.
LEMMA BoundTraded ==
  ASSUME NEW F, NEW w \in F, NEW G \in SUBSET (F \ {w}), NEW D, NEW C \in SUBSET D,
         NEW m \in Nat, IsFiniteSet(F), IsFiniteSet(D), m + Cardinality(F) <= Cardinality(C)
  PROVE  m + 1 + Cardinality(G) <= Cardinality(D)
<1>1. IsFiniteSet(F \ {w}) /\ Cardinality(F \ {w}) = Cardinality(F) - 1
  BY FS_RemoveElement
<1>2. IsFiniteSet(G) /\ IsFiniteSet(C)
  BY <1>1, FS_Subset
<1>3. Cardinality(G) <= Cardinality(F \ {w}) /\ Cardinality(C) <= Cardinality(D)
  BY <1>1, FS_Subset
<1>4. /\ Cardinality(F) \in Nat /\ Cardinality(G) \in Nat
      /\ Cardinality(C) \in Nat /\ Cardinality(D) \in Nat
  BY <1>2, FS_CardinalityType
<1> QED
  BY <1>1, <1>3, <1>4

----------------------------------------------------------------------------
(* Finishing a video: who does it *)

Finishers(v) == {w \in Workers : Finishes(w, v)}

\* A worker finishes a video only after it has completed a job of it.
LEMMA FinisherStarts ==
  ASSUME IInv, NEW w \in Workers, PoolStep(w), worker'[w].pc \in Finishing
  PROVE  /\ worker'[w].job = worker[w].job
         /\ \/ worker[w].pc \in Finishing
            \/ RecordComplete(w) /\ CompleteRow(worker[w].job)
<1>0. worker \in [Workers -> WorkerRow]
  BY DEF IInv, TypeOK, WorkerTypeOK
<1>1. CASE NoWork(w)
  BY <1>1 DEF NoWork, workerVars
<1>2. CASE \/ Claim(w) \/ LookupPreset(w) \/ StartEncode(w) \/ FinishEncode(w)
  <2>1. CASE Claim(w)
    <3>1. PICK j \in JobIds : worker' = [worker EXCEPT ![w] = [IdleWorker EXCEPT !.pc = "video", !.job = j]]
      BY <2>1 DEF Claim
    <3>2. [IdleWorker EXCEPT !.pc = "video", !.job = j].pc = "video"
      BY DEF IdleWorker
    <3> QED
      BY <1>0, <3>1, <3>2 DEF Finishing
  <2>2. CASE LookupPreset(w)
    <3>1. worker' = [worker EXCEPT ![w].pc = "encode", ![w].i = 1] \/ Goto(w, "reject")
      BY <2>2 DEF LookupPreset
    <3> QED
      BY <1>0, <3>1 DEF Goto, WorkerRow, Finishing
  <2>3. CASE StartEncode(w) \/ FinishEncode(w)
    <3>1. worker'[w].pc \in {"encode", "encoding", "complete"}
      BY <2>3, <1>0 DEF StartEncode, FinishEncode, WorkerRow
    <3> QED
      BY <3>1 DEF Finishing
  <2> QED
    BY <1>2, <2>1, <2>2, <2>3
<1>3. CASE ListJobs(w)
  <2>1. /\ worker[w].pc = "list"
        /\ \/ Goto(w, "announce")
           \/ \E S : worker' = [worker EXCEPT ![w].pc = "playlist", ![w].snap = S]
    BY <1>3 DEF ListJobs, At
  <2> QED
    BY <1>0, <2>1 DEF Goto, WorkerRow, Finishing
<1>4. CASE CheckAllDone(w) \/ MarkReady(w) \/ PutPlaylist(w) \/ RecordPlaylist(w)
  <2>1. /\ worker[w].pc \in Finishing
        /\ BackToIdle(w) \/ \E pc \in PCs : Goto(w, pc)
    BY <1>4 DEF CheckAllDone, MarkReady, PutPlaylist, RecordPlaylist, At, Finishing, PCs
  <2>2. IdleWorker.pc = "idle"
    BY DEF IdleWorker
  <2> QED
    BY <1>0, <2>1, <2>2 DEF Goto, BackToIdle, WorkerRow, Finishing
<1>5. CASE RecordComplete(w)
  <2>1. BackToIdle(w) \/ (CompleteRow(worker[w].job) /\ Goto(w, "check"))
    BY <1>5 DEF RecordComplete
  <2>2. IdleWorker.pc = "idle"
    BY DEF IdleWorker
  <2> QED
    BY <1>0, <1>5, <2>1, <2>2 DEF Goto, BackToIdle, WorkerRow, Finishing
<1>6. CASE \/ ClaimReplyLost(w) \/ LeaveRun(w) \/ LookupVideo(w) \/ EncodeFails(w)
           \/ RecordFailure(w) \/ NotifyFailure(w) \/ Announce(w)
  <2>1. \/ worker' = [worker EXCEPT ![w] = IdleWorker]
        \/ worker' = [worker EXCEPT ![w] = ExitedWorker]
        \/ \E pc \in {"preset", "reject", "fail", "notify"} : Goto(w, pc)
    BY <1>6 DEF ClaimReplyLost, LeaveRun, LookupVideo, EncodeFails, RecordFailure, NotifyFailure,
                Announce, BackToIdle
  <2>2. IdleWorker.pc = "idle" /\ ExitedWorker.pc = "exited"
    BY DEF IdleWorker, ExitedWorker
  <2> QED
    BY <1>0, <2>1, <2>2 DEF Goto, WorkerRow, Finishing
<1> QED
  BY <1>1, <1>2, <1>3, <1>4, <1>5, <1>6 DEF PoolStep, WorkerStep, ProcessJob

\* The other workers finish what they finished.
LEMMA FinishersFrame ==
  ASSUME IInv, NEW x \in Workers, NEW v \in Videos, RowsGrow,
         worker'[x].pc = worker[x].pc, worker'[x].job = worker[x].job
  PROVE  Finishes(x, v)' <=> Finishes(x, v)
<1>1. CASE worker[x].pc \in Finishing
  <2>1. VideoOf(x)' = VideoOf(x)
    BY <1>1, WorkersJob DEF Finishing
  <2> QED
    BY <2>1 DEF Finishes
<1>2. CASE worker[x].pc \notin Finishing
  BY <1>2 DEF Finishes
<1> QED
  BY <1>1, <1>2

\* A worker that goes on finishing finishes the same video.
LEMMA FinisherGoesOn ==
  ASSUME IInv, NEW w \in Workers, NEW v \in Videos, RowsGrow, Finishes(w, v)',
         worker'[w].job = worker[w].job, worker[w].pc \in Finishing
  PROVE  Finishes(w, v)
<1>1. VideoOf(w)' = VideoOf(w)
  BY WorkersJob DEF Finishing
<1> QED
  BY <1>1 DEF Finishes

\* There are finitely many finishers and jobs, and completed jobs only grow.
LEMMA BoundSets ==
  ASSUME IInv, RowsGrow, NEW v \in Videos
  PROVE  /\ IsFiniteSet(Finishers(v)) /\ IsFiniteSet(CompletedJobsOf(v)')
         /\ CompletedJobsOf(v) \subseteq CompletedJobsOf(v)'
<1>1. IsFiniteSet(Finishers(v))
  <2>1. Finishers(v) \in SUBSET Workers
    BY DEF Finishers
  <2> QED
    BY <2>1, WorkersAssumption, FS_Subset
<1>2. IsFiniteSet(CompletedJobsOf(v)')
  <2>1. IsFiniteSet(JobIds)
    BY BoundsAssumption, FS_Interval DEF JobIds
  <2>2. CompletedJobsOf(v)' \in SUBSET JobIds
    BY DEF CompletedJobsOf, JobsOf
  <2> QED
    BY <2>1, <2>2, FS_Subset
<1>3. CompletedJobsOf(v) \subseteq CompletedJobsOf(v)'
  BY CompletedStay
<1> QED
  BY <1>1, <1>2, <1>3

Bounded(v) == readyEvents[v] + Cardinality(Finishers(v)) <= Cardinality(CompletedJobsOf(v))

\* The bound is that of each video.
LEMMA BoundedMeaning == ReadyEventsBounded <=> \A v \in Videos : Bounded(v)
BY DEF ReadyEventsBounded, Bounded, Finishers, CompletedJobsOf

\* At the start no event was sent.
LEMMA InitBounded == Init => ReadyEventsBounded
<1> SUFFICES ASSUME Init, NEW v \in Videos PROVE Bounded(v)
  BY BoundedMeaning
<1>1. readyEvents[v] = 0 /\ Finishers(v) = {} /\ CompletedJobsOf(v) = {}
  BY DEF Init, StoreInit, WorkerInit, IdleWorker, NoJob, Finishers, Finishes, Finishing, CompletedJobsOf, JobsOf
<1> QED
  BY <1>1, FS_EmptySet DEF Bounded

\* No event and no finisher more.
LEMMA BoundedFrame ==
  ASSUME IInv, IInv', RowsGrow, NEW v \in Videos, Bounded(v), readyEvents'[v] = readyEvents[v],
         \A w \in Workers : Finishes(w, v)' => Finishes(w, v)
  PROVE  Bounded(v)'
<1>1. Finishers(v)' \in SUBSET Finishers(v)
  BY DEF Finishers
<1>2. readyEvents[v] \in Nat
  BY DEF IInv, TypeOK, WorkerTypeOK
<1> QED
  BY <1>1, <1>2, BoundSets, BoundKept DEF Bounded

\* A step that touches neither events nor who may finish keeps the bound.
LEMMA OutsideBounded ==
  ASSUME IInv, Outside, NEW v \in Videos, Bounded(v)
  PROVE  Bounded(v)'
<1>1. IInv'
  BY NextIInv DEF Outside, Next
<1>2. ASSUME NEW w \in Workers, Finishes(w, v)' PROVE Finishes(w, v)
  <2>1. worker'[w] = worker[w]
    BY <1>2, OutsideEffect DEF Finishes, Finishing
  <2> QED
    BY <1>2, <2>1, OutsideEffect, FinishersFrame
<1> QED
  BY <1>1, <1>2, OutsideEffect, BoundedFrame

\* A completed job brings a finisher, a finisher at its end an event.
LEMMA PoolBounded ==
  ASSUME IInv, NEW w \in Workers, PoolStep(w), NEW v \in Videos, Bounded(v)
  PROVE  Bounded(v)'
<1>0. /\ IInv' /\ RowsGrow /\ OnlyMoves(w) /\ readyEvents \in [Videos -> Nat]
      /\ worker \in [Workers -> WorkerRow]
  BY NextIInv, PoolEffect DEF Next, IInv, TypeOK, WorkerTypeOK
<1>1. \A x \in Workers : x # w => (Finishes(x, v)' <=> Finishes(x, v))
  BY <1>0, FinishersFrame DEF OnlyMoves
<1>2. CASE Announce(w) /\ readyEvents' = [readyEvents EXCEPT ![VideoOf(w)] = @ + 1]
  <2>1. worker[w].pc = "announce" /\ worker'[w].pc = "idle"
    BY <1>0, <1>2 DEF Announce, At, BackToIdle, IdleWorker
  <2>2. VideoOf(w) \in Videos /\ ~Finishes(w, v)'
    BY <2>1, WorkersJob DEF Finishes, Finishing
  <2>3. CASE v = VideoOf(w)
    <3>1. w \in Finishers(v) /\ Finishers(v)' \in SUBSET (Finishers(v) \ {w})
      BY <1>1, <2>1, <2>2, <2>3 DEF Finishers, Finishes, Finishing
    <3>2. readyEvents[v] \in Nat /\ readyEvents'[v] = readyEvents[v] + 1
      BY <1>0, <1>2, <2>3
    <3> QED
      BY <1>0, <3>1, <3>2, BoundSets, BoundTraded DEF Bounded
  <2>4. CASE v # VideoOf(w)
    <3>1. readyEvents'[v] = readyEvents[v]
      BY <1>0, <1>2, <2>4
    <3> QED
      BY <1>0, <1>1, <2>2, <3>1, BoundedFrame
  <2> QED
    BY <2>3, <2>4
<1>3. CASE RecordComplete(w) /\ CompleteRow(worker[w].job) /\ v = VideoOf(w)
  <2>1. PICK j : j = worker[w].job
    OBVIOUS
  <2>2. worker[w].pc = "complete" /\ readyEvents' = readyEvents
    BY <1>3 DEF RecordComplete, At, events
  <2>3. j \in JobIds /\ j \in 1 .. created /\ jobs[j].video = v
    BY <1>3, <2>1, <2>2, WorkersJob DEF VideoOf
  <2>4. jobs[j].status = "processing"
    BY <2>1, <2>2, <2>3 DEF IInv, QueueInv, HeldRowIsClaimed, Holds, Holding
  <2>5. jobs'[j].status = "completed" /\ jobs'[j].video = v
    BY <1>0, <1>3, <2>1, <2>3 DEF CompleteRow, RowsGrow, IInv, TypeOK, StoreTypeOK, JobRow
  <2>6. j \notin CompletedJobsOf(v) /\ CompletedJobsOf(v) \cup {j} \subseteq CompletedJobsOf(v)'
    BY <1>0, <2>3, <2>4, <2>5, BoundSets DEF CompletedJobsOf, JobsOf
  <2>7. Finishers(v)' \in SUBSET (Finishers(v) \cup {w})
    BY <1>1 DEF Finishers
  <2>8. readyEvents[v] \in Nat
    BY <1>0
  <2> QED
    BY <1>0, <2>2, <2>6, <2>7, <2>8, BoundSets, BoundGrows DEF Bounded
<1>4. CASE /\ ~(Announce(w) /\ readyEvents' = [readyEvents EXCEPT ![VideoOf(w)] = @ + 1])
           /\ ~(RecordComplete(w) /\ CompleteRow(worker[w].job) /\ v = VideoOf(w))
  <2>1. readyEvents' = readyEvents
    BY <1>4 DEF PoolStep, WorkerStep, ProcessJob, NoWork, Claim, ClaimReplyLost, LeaveRun, LookupVideo,
         LookupPreset, StartEncode, FinishEncode, EncodeFails, RecordFailure, NotifyFailure,
         RecordComplete, CheckAllDone, MarkReady, ListJobs, PutPlaylist, RecordPlaylist, Announce,
         workerVars, events
  <2>2. Finishes(w, v)' => Finishes(w, v)
    <3> SUFFICES ASSUME Finishes(w, v)' PROVE Finishes(w, v)
      OBVIOUS
    <3>1. worker'[w].pc \in Finishing /\ VideoOf(w)' = v
      BY DEF Finishes
    <3>2. CASE worker[w].pc \in Finishing
      BY <1>0, <3>1, <3>2, FinisherStarts, FinisherGoesOn
    <3>3. CASE RecordComplete(w) /\ CompleteRow(worker[w].job)
      <4>1. worker[w].pc = "complete"
        BY <3>3 DEF RecordComplete, At
      <4>2. VideoOf(w)' = VideoOf(w)
        BY <1>0, <3>1, <4>1, FinisherStarts, WorkersJob
      <4> QED
        BY <1>4, <3>1, <3>3, <4>2
    <3> QED
      BY <3>1, <3>2, <3>3, FinisherStarts
  <2> QED
    BY <1>0, <1>1, <2>1, <2>2, BoundedFrame
<1> QED
  BY <1>2, <1>3, <1>4

\* Every step keeps the bound.
LEMMA NextBounded == IInv /\ ReadyEventsBounded /\ [Next]_vars => ReadyEventsBounded'
<1> SUFFICES ASSUME IInv, ReadyEventsBounded, [Next]_vars, NEW v \in Videos PROVE Bounded(v)'
  BY BoundedMeaning DEF ReadyEventsBounded, Bounded, Finishers, CompletedJobsOf
<1>1. Bounded(v)
  BY BoundedMeaning
<1> QED
  BY <1>1, OutsideBounded, PoolBounded DEF Next, Outside

\* A video is announced, over all workers, processes and retries, at most once per
\* completed job of it.
THEOREM ReadyEventsCounted == Spec => []ReadyEventsBounded
BY InitBounded, NextBounded, InvariantHolds, PTL DEF Spec

----------------------------------------------------------------------------
(* Finishing a video: somebody does *)

\* The video has jobs and all of them are completed; it is announced or about to be.
AllDone(v) == JobsOf(v) # {} /\ AllCompleteForVideo(v)
Taken(v) == readyEvents[v] > 0 \/ \E w \in Workers : Finishes(w, v)

\* Faults and restarts are used up, and a server once stopped comes up only by a restart.
LEMMA UndisturbedStep ==
  ASSUME IInv, [Next]_vars, Undisturbed'
  PROVE  /\ Undisturbed
         /\ (\E w \in Workers : PoolStep(w)) \/ UNCHANGED <<worker, readyEvents>>
<1>0. restarts \in 0 .. MaxRestarts /\ MaxRestarts \in Nat /\ server' = "up" /\ restarts' = MaxRestarts
  BY PipelineAssumption DEF IInv, TypeOK, Undisturbed
<1>1. faults = MaxFaults
  BY OutsideEffect, PoolEffect DEF Next, Outside, Undisturbed
<1>2. CASE Stop \/ Exit \/ Crash \/ Restart
  BY <1>0, <1>2 DEF Stop, Exit, Crash, Restart, ProcessGone
<1>3. ASSUME NEW w \in Workers, PoolStep(w) PROVE UNCHANGED <<server, restarts>>
  BY <1>3 DEF PoolStep, WorkerStep, ProcessJob, NoWork, Claim, ClaimReplyLost, LeaveRun, LookupVideo,
       LookupPreset, StartEncode, FinishEncode, EncodeFails, RecordFailure, NotifyFailure,
       RecordComplete, CheckAllDone, MarkReady, ListJobs, PutPlaylist, RecordPlaylist, Announce
<1>4. CASE RequestStep
  BY <1>0, <1>1, <1>4 DEF RequestStep, workerVars, events, Undisturbed
<1>5. CASE UNCHANGED vars
  BY <1>0, <1>1, <1>5 DEF vars, workerVars, events, Undisturbed
<1> QED
  BY <1>0, <1>1, <1>2, <1>3, <1>4, <1>5 DEF Next, Undisturbed

\* A finisher goes on, as no call fails and it sees all jobs done, to its event.
LEMMA FinisherMoves ==
  ASSUME IInv, NEW w \in Workers, PoolStep(w), Undisturbed, Undisturbed', NEW v \in Videos,
         Finishes(w, v), AllCompleteForVideo(v)
  PROVE  Taken(v)'
<1>0. /\ RowsGrow /\ worker \in [Workers -> WorkerRow] /\ readyEvents \in [Videos -> Nat]
      /\ worker[w].pc \in Finishing /\ VideoOf(w) = v
  BY PoolEffect DEF IInv, TypeOK, WorkerTypeOK, Finishes
<1>1. ~CallFails /\ ~Fault
  <2>1. faults \in 0 .. MaxFaults /\ MaxFaults \in Nat
    BY BoundsAssumption DEF IInv, TypeOK, StoreTypeOK
  <2>2. ~Fault
    BY <2>1 DEF Fault, Undisturbed
  <2> QED
    BY <2>2 DEF CallFails, Cancelled, Undisturbed
<1>2. CASE Announce(w)
  <2>1. readyEvents' = [readyEvents EXCEPT ![v] = @ + 1]
    BY <1>0, <1>1, <1>2 DEF Announce
  <2>2. readyEvents'[v] > 0
    BY <1>0, <2>1
  <2> QED
    BY <2>2 DEF Taken
<1>3. ASSUME worker'[w].pc \in Finishing, worker'[w].job = worker[w].job PROVE Taken(v)'
  <2>1. VideoOf(w)' = v
    BY <1>0, <1>3, WorkersJob DEF Finishing
  <2> QED
    BY <1>3, <2>1 DEF Taken, Finishes
<1>4. CASE CheckAllDone(w) \/ MarkReady(w) \/ PutPlaylist(w) \/ RecordPlaylist(w)
  <2>1. \E pc \in Finishing : Goto(w, pc)
    BY <1>0, <1>1, <1>4 DEF CheckAllDone, SeesAllDone, MarkReady, PutPlaylist, RecordPlaylist, Finishing
  <2> QED
    BY <1>0, <1>3, <2>1 DEF Goto, WorkerRow
<1>5. CASE ListJobs(w)
  <2>1. \E S : worker' = [worker EXCEPT ![w].pc = "playlist", ![w].snap = S]
    BY <1>1, <1>5 DEF ListJobs
  <2>2. worker'[w].pc = "playlist" /\ worker'[w].job = worker[w].job
    BY <1>0, <2>1 DEF WorkerRow
  <2> QED
    BY <1>3, <2>2 DEF Finishing
<1> QED
  BY <1>0, <1>2, <1>4, <1>5
  DEF PoolStep, WorkerStep, ProcessJob, NoWork, Claim, ClaimReplyLost, LeaveRun, LookupVideo, LookupPreset,
      StartEncode, FinishEncode, EncodeFails, RecordFailure, NotifyFailure, RecordComplete, At, Finishing

\* Once all jobs are completed, whoever is to announce the video still is, or has.
LEMMA TakenStays ==
  ASSUME IInv, [Next]_vars, Undisturbed', NEW v \in Videos, AllCompleteForVideo(v), Taken(v)
  PROVE  Taken(v)'
<1>0. /\ Undisturbed /\ RowsGrow /\ readyEvents \in [Videos -> Nat]
      /\ (\E w \in Workers : PoolStep(w)) \/ UNCHANGED <<worker, readyEvents>>
  BY UndisturbedStep, NextIInv, QueueGrows DEF IInv, TypeOK, WorkerTypeOK
<1>1. CASE readyEvents[v] > 0
  <2>1. \/ readyEvents' = readyEvents
        \/ \E x : readyEvents' = [readyEvents EXCEPT ![x] = @ + 1]
    BY <1>0 DEF PoolStep, WorkerStep, ProcessJob, NoWork, Claim, ClaimReplyLost, LeaveRun, LookupVideo,
         LookupPreset, StartEncode, FinishEncode, EncodeFails, RecordFailure, NotifyFailure,
         RecordComplete, CheckAllDone, MarkReady, ListJobs, PutPlaylist, RecordPlaylist, Announce,
         workerVars, events
  <2>2. readyEvents'[v] > 0
    BY <1>0, <1>1, <2>1
  <2> QED
    BY <2>2 DEF Taken
<1>2. ASSUME NEW w \in Workers, Finishes(w, v) PROVE Taken(v)'
  <2>1. CASE UNCHANGED worker
    BY <1>0, <1>2, <2>1, FinishersFrame DEF Taken
  <2>2. ASSUME NEW x \in Workers, PoolStep(x) PROVE Taken(v)'
    <3>1. CASE x = w
      BY <1>0, <1>2, <2>2, <3>1, FinisherMoves
    <3>2. CASE x # w
      <4>1. worker'[w].pc = worker[w].pc /\ worker'[w].job = worker[w].job
        BY <2>2, <3>2, PoolEffect DEF OnlyMoves
      <4> QED
        BY <1>0, <1>2, <4>1, FinishersFrame DEF Taken
    <3> QED
      BY <3>1, <3>2
  <2> QED
    BY <1>0, <2>1, <2>2
<1> QED
  BY <1>1, <1>2 DEF Taken

\* The last job of a video is completed by a worker that then looks at all of them.
LEMMA NewlyDone ==
  ASSUME IInv, [Next]_vars, NEW v \in Videos, AllDone(v)', ~AllDone(v)
  PROVE  Taken(v)'
<1>0. /\ RowsGrow /\ created \in Nat /\ worker \in [Workers -> WorkerRow]
      /\ \A j \in JobIds : RowOK(j)
  BY NextIInv, QueueGrows DEF IInv, QueueInv, TypeOK, StoreTypeOK, WorkerTypeOK
<1>1. PICK j \in JobIds : /\ jobs'[j].status = "completed" /\ jobs'[j].video = v
                          /\ jobs[j].status # "completed"
  <2>1. CASE JobsOf(v) = {}
    <3>1. PICK j \in JobIds : jobs'[j].video = v /\ jobs'[j].status = "completed"
      BY DEF AllDone, JobsOf, AllCompleteForVideo
    <3>2. jobs[j].video # v
      BY <2>1 DEF JobsOf
    <3>3. jobs[j].status # "completed"
      BY <1>0, <3>1, <3>2 DEF RowsGrow, RowOK, JobIds
    <3> QED
      BY <3>1, <3>3
  <2>2. CASE JobsOf(v) # {}
    <3>1. PICK j \in JobIds : jobs[j].video = v /\ jobs[j].status # "completed"
      BY <2>2 DEF AllDone, JobsOf, AllCompleteForVideo
    <3>2. j \in 1 .. created
      BY <1>0, <3>1, NoneAssumption DEF RowOK, JobIds
    <3>3. jobs'[j].video = v
      BY <1>0, <3>1, <3>2 DEF RowsGrow
    <3> QED
      BY <3>1, <3>3 DEF AllDone, JobsOf, AllCompleteForVideo
  <2> QED
    BY <2>1, <2>2
<1>2. PICK w \in Workers : RecordComplete(w) /\ worker[w].job = j
  BY <1>1, NewlyCompleted
<1>3. Goto(w, "check")
  BY <1>1, <1>2 DEF RecordComplete
<1>4. worker'[w].pc = "check" /\ worker'[w].job = j
  BY <1>0, <1>2, <1>3 DEF Goto, WorkerRow
<1> QED
  BY <1>1, <1>4 DEF Taken, Finishes, Finishing, VideoOf

\* Every step keeps somebody who finishes the video.
LEMMA NextSomeone == IInv /\ SomeoneFinishes /\ [Next]_vars => SomeoneFinishes'
<1> SUFFICES ASSUME IInv, SomeoneFinishes, [Next]_vars, Undisturbed', NEW v \in Videos, AllDone(v)'
             PROVE  Taken(v)'
  BY DEF SomeoneFinishes, AllDone, Taken
<1>1. CASE AllDone(v)
  <2>1. Taken(v)
    BY <1>1, UndisturbedStep DEF SomeoneFinishes, AllDone, Taken
  <2> QED
    BY <1>1, <2>1, TakenStays DEF AllDone
<1>2. CASE ~AllDone(v)
  BY <1>2, NewlyDone
<1> QED
  BY <1>1, <1>2

\* Of any number of workers that complete a video's last jobs at once, some one sees all
\* of them completed and announces the video: Complete commits before its worker looks.
THEOREM VideosAreFinished == Spec => []SomeoneFinishes
<1>1. Init => SomeoneFinishes
  BY DEF Init, StoreInit, NoJob, SomeoneFinishes, JobsOf, AllCompleteForVideo
<1> QED
  BY <1>1, NextSomeone, InvariantHolds, PTL DEF Spec

=============================================================================
