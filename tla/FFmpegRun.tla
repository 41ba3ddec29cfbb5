------------------------------ MODULE FFmpegRun ------------------------------
(***************************************************************************)
(* One run of ffmpeg and the reader of its stderr                          *)
(* (internal/transcoder/ffmpeg.go, progress.go).  ffmpeg writes lines into *)
(* a pipe that holds a few bytes, a bufio.Scanner with scanCRLF as its     *)
(* split function takes them out, and Transcode waits for the reader and   *)
(* then for ffmpeg.  A byte is "r" or "n", which end lines, "t", which     *)
(* stands for time=, or another.                                           *)
(***************************************************************************)
EXTENDS Naturals, SequencesExt

CONSTANTS
  Outputs,  \* what ffmpeg may write
  PipeSize, \* bytes the pipe holds
  MaxToken, \* bytes the scanner's buffer may hold
  TailSize  \* lines kept for the error message

VARIABLES
  output,  \* what this ffmpeg writes
  proc,    \* whether ffmpeg runs, and how much it has written (written)
  pipe,    \* bytes written and not read
  reader,  \* the scanner: its state and the bytes it holds; tail and progress
  lines,   \* lines the scanner has returned, without empty ones (history)
  run      \* where Transcode is

vars == <<output, proc, pipe, reader, lines, run>>

Init ==
  /\ output \in Outputs
  /\ proc = [on |-> TRUE, written |-> 0]
  /\ pipe = <<>>
  /\ reader = [pc |-> "scan", buf |-> <<>>, tail |-> <<>>, reports |-> 0]
  /\ lines = <<>>
  /\ run = "drain"

----------------------------------------------------------------------------
(* ffmpeg *)

Write ==
  /\ proc.on /\ proc.written < Len(output) /\ Len(pipe) < PipeSize
  /\ proc' = [proc EXCEPT !.written = @ + 1]
  /\ pipe' = Append(pipe, output[proc.written + 1])
  /\ UNCHANGED <<output, reader, lines, run>>

Exit ==
  /\ proc.on /\ proc.written = Len(output)
  /\ proc' = [proc EXCEPT !.on = FALSE]
  /\ UNCHANGED <<output, pipe, reader, lines, run>>

\* The context ends, or ffmpeg fails before it has written everything.
Killed ==
  /\ proc.on
  /\ proc' = [proc EXCEPT !.on = FALSE]
  /\ UNCHANGED <<output, pipe, reader, lines, run>>

----------------------------------------------------------------------------
(* The reader *)

Ends == {"r", "n"}

\* The result of scanCRLF: how far to go on (0: more is needed), and the token.
NoToken == [advance |-> 0, token |-> <<>>]

\* Mutant of scanCRLF: what comes after the last end of a line is left.
scanCRLFLines(data, atEOF) ==
  LET ends == {i \in 1 .. Len(data) : data[i] \in Ends} IN
  IF ends = {} THEN NoToken
  ELSE LET i == CHOOSE j \in ends : \A k \in ends : j <= k IN
       [advance |-> i, token |-> SubSeq(data, 1, i - 1)]
\* Mutant of scanCRLF: what there is is taken for a line.
scanCRLFShort(data, atEOF) == [advance |-> Len(data), token |-> data]

\* A line ends at \r, \n or both; a \r at the end of the data waits for what follows.
scanCRLF(data, atEOF) ==
  LET ends == {i \in 1 .. Len(data) : data[i] \in Ends}
      first == CHOOSE i \in ends : \A j \in ends : i <= j
      both == data[first] = "r" /\ first < Len(data) /\ data[first + 1] = "n"
  IN  IF ends = {} THEN IF atEOF THEN [advance |-> Len(data), token |-> data] ELSE NoToken
      ELSE IF data[first] = "r" /\ first = Len(data) /\ ~atEOF THEN NoToken
      ELSE [advance |-> IF both THEN first + 1 ELSE first, token |-> SubSeq(data, 1, first - 1)]

atEOF == ~proc.on /\ pipe = <<>>
Split == IF reader.buf = <<>> THEN NoToken ELSE scanCRLF(reader.buf, reader.pc = "eof")

\* A line with the time is progress; of the others the last are kept; an empty one is
\* neither.
Taken(r, line) ==
  IF line = <<>> THEN r
  ELSE IF Contains(line, "t") THEN [r EXCEPT !.reports = @ + 1]
  ELSE [r EXCEPT !.tail = IF Len(@) >= TailSize THEN Append(Tail(@), line) ELSE Append(@, line)]

Scan ==
  /\ reader.pc \in {"scan", "eof"} /\ Split.advance > 0
  /\ reader' = Taken([reader EXCEPT !.buf = SubSeq(@, Split.advance + 1, Len(@))], Split.token)
  /\ lines' = IF Split.token = <<>> THEN lines ELSE Append(lines, Split.token)
  /\ UNCHANGED <<output, proc, pipe, run>>

\* A full buffer without a line in it ends the scan, whatever there is still to read.
TooLong ==
  /\ reader.pc = "scan" /\ Split.advance = 0 /\ Len(reader.buf) >= MaxToken
  /\ reader' = [reader EXCEPT !.pc = "stopped"]
  /\ UNCHANGED <<output, proc, pipe, lines, run>>

Read ==
  /\ reader.pc = "scan" /\ Split.advance = 0 /\ Len(reader.buf) < MaxToken
  /\ \/ \E n \in 1 .. Len(pipe) :
          /\ Len(reader.buf) + n <= MaxToken
          /\ reader' = [reader EXCEPT !.buf = @ \o SubSeq(pipe, 1, n)]
          /\ pipe' = SubSeq(pipe, n + 1, Len(pipe))
     \/ atEOF /\ reader' = [reader EXCEPT !.pc = "eof"] /\ UNCHANGED pipe
  /\ UNCHANGED <<output, proc, lines, run>>

ScanEnds ==
  /\ reader.pc = "eof" /\ Split.advance = 0
  /\ reader' = [reader EXCEPT !.pc = "ended"]
  /\ UNCHANGED <<output, proc, pipe, lines, run>>

----------------------------------------------------------------------------
(* Transcode *)

\* Mutant of drained: ffmpeg is waited for first.
drainedNot == FALSE
drained == reader.pc \in {"stopped", "ended"}

StderrWait == run = "drain" /\ drained /\ run' = "wait" /\ UNCHANGED <<output, proc, pipe, reader, lines>>
Wait == run = "wait" /\ ~proc.on /\ run' = "done" /\ UNCHANGED <<output, proc, pipe, reader, lines>>

Reads == Scan \/ TooLong \/ Read \/ ScanEnds
Next == Write \/ Exit \/ Killed \/ Reads \/ StderrWait \/ Wait

Spec == Init /\ [][Next]_vars

\* ffmpeg goes on as long as it can write, and both goroutines run.
FairSpec ==
  Spec /\ WF_vars(Write \/ Exit) /\ WF_vars(Reads) /\ WF_vars(StderrWait \/ Wait)

----------------------------------------------------------------------------
(* Properties *)

\* Every variable stays in its type.
TypeOK ==
  /\ output \in Outputs
  /\ proc \in [on : BOOLEAN, written : 0 .. Len(output)]
  /\ Len(pipe) <= PipeSize
  /\ reader.pc \in {"scan", "eof", "stopped", "ended"} /\ Len(reader.buf) <= MaxToken
  /\ Len(reader.tail) <= TailSize /\ reader.reports \in Nat
  /\ run \in {"drain", "wait", "done"}

\* The n-th number of a set.
UpTo(S, i) == {j \in S : j <= i}
Nth(S, n) == CHOOSE i \in S : Cardinality(UpTo(S, i)) = n

\* The lines of a text that are not empty: its longest pieces without an end of a line.
Starts(text) ==
  {i \in 1 .. Len(text) : text[i] \notin Ends /\ (i > 1 => text[i - 1] \in Ends)}
LineEnd(text, i) ==
  CHOOSE j \in i .. Len(text) :
    /\ \A k \in i .. j : text[k] \notin Ends
    /\ j < Len(text) => text[j + 1] \in Ends
LinesOf(text) ==
  [n \in 1 .. Cardinality(Starts(text)) |->
     LET i == Nth(Starts(text), n) IN SubSeq(text, i, LineEnd(text, i))]

\* Which of some lines are not progress.
Messages(ls) == {n \in DOMAIN ls : ~Contains(ls[n], "t")}

\* However ffmpeg's output is cut into reads, the reader sees its lines: those returned
\* begin the lines written, once the output has ended and no line was too long they are
\* all of them, and the message kept for an error is their last ones without progress
\* (progress.go 15-109).
LinesRead ==
  LET written == LinesOf(SubSeq(output, 1, proc.written))
      messages == Messages(lines)
      kept == Len(reader.tail)
  IN  /\ IsPrefix(lines, written)
      /\ reader.pc = "ended" => lines = written
      /\ reader.reports + Cardinality(messages) = Len(lines)
      /\ kept = IF Cardinality(messages) < TailSize THEN Cardinality(messages) ELSE TailSize
      /\ \A n \in 1 .. kept : reader.tail[n] = lines[Nth(messages, Cardinality(messages) - kept + n)]

\* A line that does not fit into the scanner's buffer.
LongLine == \E n \in 1 .. Len(LinesOf(output)) : Len(LinesOf(output)[n]) >= MaxToken

\* Transcode has come to an end, however little the pipe holds, if no line is too long.
\* After one that is the scan stops, and ffmpeg may wait for ever for somebody to read,
\* and Transcode for ffmpeg.
Settled == run = "done" \/ LongLine

=============================================================================
