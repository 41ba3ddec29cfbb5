----------------------------- MODULE MCBackground -----------------------------
(***************************************************************************)
(* Instance of what runs in the server beside the worker pool for TLC: the *)
(* rate limiter, the deliveries of webhooks and the reader of ffmpeg's     *)
(* output.  They share no state: the part chosen at the start moves, the   *)
(* other two rest.                                                         *)
(***************************************************************************)
EXTENDS RateLimiter

CONSTANTS
  Hooks, Events, Editors, MaxSecrets,      \* those of the webhooks
  MaxAsked,                                \* bound: secrets, and two for each event
  MaxOutput, PipeSize, MaxToken, TailSize  \* those of ffmpeg

ASSUME SecretsAssumption == MaxSecrets \in Nat
ASSUME EncoderAssumption ==
  {MaxOutput, PipeSize, MaxToken} \subseteq Nat /\ TailSize \in Nat \ {0}

VARIABLES
  part,                                                              \* which of the three it is
  hooks, secrets, asks, shown, mixed, edits,                         \* those of the webhooks
  sending, rows, tried, accepted, errors,
  output, proc, pipe, reader, lines, run                             \* those of ffmpeg

hookVars ==
  <<hooks, secrets, asks, shown, mixed, edits, sending, rows, tried, accepted, errors>>
runVars == <<output, proc, pipe, reader, lines, run>>
backgroundVars == <<part, vars, hookVars, runVars>>

\* What ffmpeg may write: up to MaxOutput bytes.
Texts == UNION {[1 .. n -> {"x", "t", "r", "n"}] : n \in 0 .. MaxOutput}

Webhooks == INSTANCE WebhookDelivery WITH faults <- errors
Encoder == INSTANCE FFmpegRun WITH Outputs <- Texts

BackgroundInit ==
  /\ part \in {"limiter", "webhooks", "ffmpeg"}
  /\ Init /\ Webhooks!Init
  /\ Encoder!Init /\ (part # "ffmpeg" => output = <<>>)

\* Many secrets with few events, or few with many.
Fired == {e \in Events : \E h \in Hooks : sending[<<e, h>>].pc # "none"}
Asked == secrets + 2 * Cardinality(Fired)

BackgroundNext ==
  /\ \/ part = "limiter" /\ Next /\ UNCHANGED <<hookVars, runVars>>
     \/ part = "webhooks" /\ Webhooks!Next /\ Asked' <= MaxAsked /\ UNCHANGED <<vars, runVars>>
     \/ part = "ffmpeg" /\ Encoder!Next /\ UNCHANGED <<vars, hookVars>>
  /\ UNCHANGED part

\* The fairness of each part, where it is the one that moves.
LimiterGoesOn ==
  /\ WF_vars(part = "limiter" /\ Tick) /\ WF_vars(part = "limiter" /\ Cleanup)
  /\ WF_vars(part = "limiter" /\ WatchRead) /\ WF_vars(part = "limiter" /\ WatchApply)
DeliveriesGoOn ==
  \A d \in Webhooks!Deliveries : WF_hookVars(part = "webhooks" /\ Webhooks!Deliver(d))
EncoderGoesOn ==
  /\ WF_runVars(part = "ffmpeg" /\ (Encoder!Write \/ Encoder!Exit))
  /\ WF_runVars(part = "ffmpeg" /\ Encoder!Reads)
  /\ WF_runVars(part = "ffmpeg" /\ (Encoder!StderrWait \/ Encoder!Wait))

BackgroundSpec ==
  BackgroundInit /\ [][BackgroundNext]_backgroundVars
    /\ LimiterGoesOn /\ DeliveriesGoOn /\ EncoderGoesOn

----------------------------------------------------------------------------
(* Properties: those of the limiter, and *)

\* In each part the variables have the values they may have.
TypesOK ==
  /\ part = "limiter" => TypeOK
  /\ part = "webhooks" => Webhooks!TypeOK
  /\ part = "ffmpeg" => Encoder!TypeOK

\* What the owner of a webhook was shown last is what its events are signed with, unless
\* several secrets or a lost answer mixed up which one that is.
ShownSecretIsStored == part = "webhooks" => Webhooks!ShownSecretIsStored

\* A delivery ends when it succeeded or was tried often enough, and the log says what
\* the receiver saw.
DeliveriesAreTold ==
  part = "webhooks" => Webhooks!EndedMeansDeliveredOrExhausted /\ Webhooks!LogAgreesWithReceiver

\* However ffmpeg's output is cut into reads, its lines are seen.
LinesRead == part = "ffmpeg" => Encoder!LinesRead

\* What runs in the background gets done: once no more requests, changes and events come,
\* clients are forgotten and the limit is that of the setting, every delivery has ended,
\* and so has a run of ffmpeg whose lines are not too long.
WorkIsDone ==
  <>[](CASE part = "limiter" -> Settled
         [] part = "webhooks" -> Webhooks!Settled
         [] part = "ffmpeg" -> Encoder!Settled)

=============================================================================
