------------------------------ MODULE JobQueue ------------------------------
(***************************************************************************)
(* What the transcoding queue promises (docs/content/docs/transcoding.mdx, *)
(* Job Lifecycle): a job is worked on by one worker at a time, each        *)
(* attempt ends in success or is given back while attempts remain, and     *)
(* finished jobs stay finished.  It also says what the implementation does *)
(* not promise: a worker may vanish, and its job then stays "processing".  *)
(***************************************************************************)
EXTENDS Naturals

CONSTANTS JobIds, Workers, MaxAttempts, None

VARIABLES
  status,    \* job -> where it is in its life
  attempts,  \* job -> how often it was claimed
  holder     \* job -> the worker running it, or None

vars == <<status, attempts, holder>>

Init ==
  /\ status = [j \in JobIds |-> "absent"]
  /\ attempts = [j \in JobIds |-> 0]
  /\ holder = [j \in JobIds |-> None]

Submit(j) ==
  /\ status[j] = "absent"
  /\ status' = [status EXCEPT ![j] = "pending"]
  /\ UNCHANGED <<attempts, holder>>

\* A worker with no job takes one; h = None: the claim was made and its reply lost.
Take(j, h) ==
  /\ status[j] = "pending" /\ holder[j] = None
  /\ \A k \in JobIds : h # None => holder[k] # h
  /\ status' = [status EXCEPT ![j] = "processing"]
  /\ attempts' = [attempts EXCEPT ![j] = @ + 1]
  /\ holder' = [holder EXCEPT ![j] = h]

Succeed(j) ==
  /\ holder[j] # None
  /\ status' = [status EXCEPT ![j] = "completed"]
  /\ holder' = [holder EXCEPT ![j] = None]
  /\ UNCHANGED attempts

\* An attempt failed: the last one for good.
GiveBack(j) ==
  /\ holder[j] # None
  /\ status' = [status EXCEPT ![j] = IF attempts[j] < MaxAttempts THEN "pending" ELSE "failed"]
  /\ holder' = [holder EXCEPT ![j] = None]
  /\ UNCHANGED attempts

\* Workers vanish, alone or all with their process.
Strand(S) ==
  /\ \A j \in S : holder[j] # None
  /\ holder' = [j \in JobIds |-> IF j \in S THEN None ELSE holder[j]]
  /\ UNCHANGED <<status, attempts>>

Next ==
  \/ \E j \in JobIds : Submit(j) \/ Succeed(j) \/ GiveBack(j)
  \/ \E j \in JobIds, h \in Workers \cup {None} : Take(j, h)
  \/ \E S \in SUBSET JobIds : Strand(S)

Spec == Init /\ [][Next]_vars

=============================================================================
