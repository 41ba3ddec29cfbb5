----------------------------- MODULE MCPipeline -----------------------------
(***************************************************************************)
(* Small instances of the pipeline for TLC: presets p1 (720 and 360) and   *)
(* p2 (1080), two workers, two attempts per job.                           *)
(***************************************************************************)
EXTENDS TranscodePipeline, TLC

CONSTANTS v1, v2, p1, p2

TwoPresets == [p \in {p1, p2} |-> IF p = p1 THEN <<720, 360>> ELSE <<1080>>]
\* Both presets write the directory 720.
SameHeight == [p \in {p1, p2} |-> IF p = p1 THEN <<720>> ELSE <<360, 720>>]

\* Workers are interchangeable: no action or property tells one from another.
WorkerSymmetry == Permutations(Workers)

NoRetranscode == {}
OnePreset == {{p2}}

=============================================================================
