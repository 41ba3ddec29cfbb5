------------------------------ MODULE StoredFiles ------------------------------
(***************************************************************************)
(* Files beside the rows that name them: a user's avatar, stored under the *)
(* user's id and one of several extensions (internal/handler/profile.go),  *)
(* and subtitle tracks, each stored under a name of its own                *)
(* (internal/handler/subtitles.go), in the local backend                   *)
(* (internal/storage/local.go).  No transaction spans both: a request may  *)
(* break off between any two steps, and two may overlap.  What a file      *)
(* holds is not told apart, only whether all of it is there.               *)
(***************************************************************************)
EXTENDS FiniteSets, TLAPS

CONSTANTS
  Exts,    \* extensions an avatar may have
  Tracks,  \* subtitles, named by the paths of their files
  Slots,   \* bound: requests served at once
  None

VARIABLES
  files,   \* path -> "none", "part" or "whole"
  avatar,  \* users.avatar_url: an extension, or None
  rows,    \* table video_subtitles
  reqs,    \* slot -> its request
  mess     \* history: what no later request has put right, of the avatar and of tracks

vars == <<files, avatar, rows, reqs, mess>>

\* rest: the paths still to delete; alone: nothing else was done to the avatar since it
\* began (history).
Request(pc, path, rest) == [pc |-> pc, path |-> path, rest |-> rest, alone |-> TRUE]
Idle == Request("idle", None, {})
AvatarPcs == {"put", "name", "clean", "remove"}
Requests ==
  [pc : AvatarPcs \cup {"idle", "track", "create", "file", "row"},
   path : Exts \cup Tracks \cup {None}, rest : SUBSET Exts, alone : BOOLEAN]

Init ==
  /\ files = [p \in Exts \cup Tracks |-> "none"]
  /\ avatar = None
  /\ rows = {}
  /\ reqs = [s \in Slots |-> Idle]
  /\ mess = {}

Goes(s, pc) == reqs' = [reqs EXCEPT ![s].pc = pc]

\* A request about the avatar begins, perhaps beside another one.
Begins(s, r) ==
  LET others == {t \in Slots : reqs[t].pc \in AvatarPcs} IN
  /\ reqs[s].pc = "idle"
  /\ reqs' = [t \in Slots |->
       IF t = s THEN [r EXCEPT !.alone = others = {}]
       ELSE IF t \in others THEN [reqs[t] EXCEPT !.alone = FALSE] ELSE reqs[t]]
  /\ mess' = IF others = {} THEN mess ELSE mess \cup {"overlap"}

----------------------------------------------------------------------------
(* The local backend *)

\* A file is emptied or created, then filled; what is written into one that was deleted
\* meanwhile is lost.
PutBegins(p) == files' = [files EXCEPT ![p] = "part"]
PutEnds(p) == files' = [files EXCEPT ![p] = IF @ = "none" THEN "none" ELSE "whole"]

----------------------------------------------------------------------------
(* The avatar *)

UploadAvatar(s) ==
  \E e \in Exts :
    /\ Begins(s, Request("put", e, {}))
    /\ PutBegins(e)
    /\ UNCHANGED <<avatar, rows>>

UploadAvatarStored(s) ==
  /\ reqs[s].pc = "put"
  /\ PutEnds(reqs[s].path) /\ Goes(s, "name")
  /\ UNCHANGED <<avatar, rows, mess>>

\* Mutant of others: files are left that have the extension of an earlier upload.
othersNone(e) == {}
others(e) == Exts \ {e}

\* The row names the new file; then the files with other extensions go.
UpdateAvatar(s) ==
  /\ reqs[s].pc = "name"
  /\ avatar' = reqs[s].path
  /\ reqs' = [reqs EXCEPT ![s].pc = "clean", ![s].rest = others(reqs[s].path)]
  /\ UNCHANGED <<files, rows, mess>>

\* An error of the backend is ignored.
DeleteNext(s, pc) ==
  /\ reqs[s].pc = pc
  /\ \E e \in reqs[s].rest :
       /\ reqs' = [reqs EXCEPT ![s].rest = @ \ {e}]
       /\ \/ files' = [files EXCEPT ![e] = "none"] /\ UNCHANGED mess
          \/ files[e] # "none" /\ mess' = mess \cup {"left"} /\ UNCHANGED files
  /\ UNCHANGED <<avatar, rows>>
CleanUp(s) == DeleteNext(s, "clean")

\* An upload that ran alone puts right what was wrong before, unless it left a file.
UploadAvatarEnds(s) ==
  /\ reqs[s].pc = "clean" /\ reqs[s].rest = {}
  /\ mess' = IF reqs[s].alone /\ \A e \in others(reqs[s].path) : files[e] = "none"
             THEN mess \cap Tracks ELSE mess
  /\ reqs' = [reqs EXCEPT ![s] = Idle]
  /\ UNCHANGED <<files, avatar, rows>>

DeleteAvatar(s) ==
  /\ Begins(s, Request("remove", None, Exts))
  /\ UNCHANGED <<files, avatar, rows>>
RemoveFile(s) == DeleteNext(s, "remove")
ClearAvatar(s) ==
  /\ reqs[s].pc = "remove" /\ reqs[s].rest = {}
  /\ avatar' = None
  /\ reqs' = [reqs EXCEPT ![s] = Idle]
  /\ UNCHANGED <<files, rows, mess>>

----------------------------------------------------------------------------
(* Subtitles *)

Busy(t) == \E s \in Slots : reqs[s].path = t

\* A name is used once.
UploadSubtitle(s) ==
  \E t \in Tracks \ (rows \cup mess) :
    /\ reqs[s].pc = "idle" /\ files[t] = "none" /\ ~Busy(t)
    /\ reqs' = [reqs EXCEPT ![s] = Request("track", t, {})]
    /\ PutBegins(t)
    /\ UNCHANGED <<avatar, rows, mess>>

SubtitleStored(s) ==
  /\ reqs[s].pc = "track"
  /\ PutEnds(reqs[s].path) /\ Goes(s, "create")
  /\ UNCHANGED <<avatar, rows, mess>>

\* Mutant of stored: the row does not wait for the file.
storedSoon(s) == reqs[s].pc \in {"track", "create"}
stored(s) == reqs[s].pc = "create"
CreateSubtitle(s) ==
  /\ stored(s)
  /\ rows' = rows \cup {reqs[s].path}
  /\ reqs' = [reqs EXCEPT ![s] = Idle]
  /\ UNCHANGED <<files, avatar, mess>>

\* The row is read, the file is deleted and then the row; an error of the backend is
\* ignored.
DeleteSubtitle(s) ==
  /\ reqs[s].pc = "idle"
  /\ \E t \in rows : reqs' = [reqs EXCEPT ![s] = Request("file", t, {})]
  /\ UNCHANGED <<files, avatar, rows, mess>>
DeleteSubtitleFile(s) ==
  /\ reqs[s].pc = "file"
  /\ \/ files' = [files EXCEPT ![reqs[s].path] = "none"] /\ UNCHANGED mess
     \/ mess' = mess \cup {reqs[s].path} /\ UNCHANGED files
  /\ Goes(s, "row")
  /\ UNCHANGED <<avatar, rows>>
DeleteSubtitleRow(s) ==
  /\ reqs[s].pc = "row"
  /\ rows' = rows \ {reqs[s].path}
  /\ reqs' = [reqs EXCEPT ![s] = Idle]
  /\ UNCHANGED <<files, avatar, mess>>

----------------------------------------------------------------------------
\* An error of the backend or the database, or the end of the process.
BreaksOff(s) ==
  /\ reqs[s].pc # "idle"
  /\ mess' = mess \cup CASE reqs[s].pc \in {"put", "remove"} -> {reqs[s].pc}
                          [] reqs[s].pc \in {"name", "clean"} -> {"left"}
                          [] OTHER -> {reqs[s].path}
  /\ reqs' = [reqs EXCEPT ![s] = Idle]
  /\ UNCHANGED <<files, avatar, rows>>

Next ==
  \E s \in Slots :
    \/ UploadAvatar(s) \/ UploadAvatarStored(s) \/ UpdateAvatar(s) \/ CleanUp(s) \/ UploadAvatarEnds(s)
    \/ DeleteAvatar(s) \/ RemoveFile(s) \/ ClearAvatar(s)
    \/ UploadSubtitle(s) \/ SubtitleStored(s) \/ CreateSubtitle(s)
    \/ DeleteSubtitle(s) \/ DeleteSubtitleFile(s) \/ DeleteSubtitleRow(s)
    \/ BreaksOff(s)

Spec == Init /\ [][Next]_vars

----------------------------------------------------------------------------
(* Properties *)

\* Every variable stays in its type.
TypeOK ==
  /\ files \in [Exts \cup Tracks -> {"none", "part", "whole"}]
  /\ avatar \in Exts \cup {None} /\ rows \subseteq Tracks
  /\ reqs \in [Slots -> Requests]
  /\ mess \subseteq {"overlap", "put", "remove", "left"} \cup Tracks

\* A user whose avatar is set has its file, unless an upload and another request about
\* it overlapped or a removal broke off: an upload that breaks off leaves at worst a
\* part of a file of the same type.  Where nothing broke off there is no other file,
\* and the next upload that runs alone puts right what went wrong before (profile.go
\* 58-124).
AvatarHasFile ==
  /\ avatar # None /\ files[avatar] = "none" =>
       mess \cap {"overlap", "remove"} # {} \/ \E s \in Slots : reqs[s].pc = "remove"
  /\ avatar # None /\ files[avatar] = "part" =>
       mess \cap {"overlap", "put"} # {} \/ \E s \in Slots : reqs[s].pc = "put"
  /\ mess \subseteq Tracks /\ (\A s \in Slots : reqs[s].pc \notin AvatarPcs) =>
       \A e \in Exts : files[e] = IF e = avatar THEN "whole" ELSE "none"

\* A subtitle has the whole file and a file its subtitle, unless a request about it is
\* under way or one broke off (subtitles.go 320-383).
SubtitlesHaveFiles ==
  \A t \in Tracks : ~Busy(t) /\ t \notin mess =>
    files[t] = IF t \in rows THEN "whole" ELSE "none"

\* What is served of a subtitle is all of it: a row never names a part of a file.
NoPartServed == \A t \in rows : files[t] # "part"

----------------------------------------------------------------------------
(* The inductive invariant *)

\* The files' names tell what they are: ids and random names, an extension, a word.
NamesApart ==
  /\ None \notin Exts \cup Tracks /\ Exts \cap Tracks = {}
  /\ {"overlap", "put", "remove", "left"} \cap Tracks = {}

About(s) == reqs[s].pc \in AvatarPcs

\* A request about the avatar has an extension, one about a subtitle a track.
PathOK(s) ==
  /\ reqs[s].pc \in {"idle", "remove"} => reqs[s].path = None
  /\ reqs[s].pc \in {"put", "name", "clean"} => reqs[s].path \in Exts
  /\ reqs[s].pc \in {"track", "create", "file", "row"} => reqs[s].path \in Tracks

\* A file is written, or whole, where its request says so, and gone where it was deleted.
TrackOK(s) ==
  /\ reqs[s].pc \in {"track", "create"} =>
       /\ reqs[s].path \notin rows
       /\ files[reqs[s].path] = IF reqs[s].pc = "track" THEN "part" ELSE "whole"
       /\ \A u \in Slots \ {s} : reqs[u].path # reqs[s].path
  /\ reqs[s].pc = "row" => files[reqs[s].path] = "none" \/ reqs[s].path \in mess

TracksOK == (\A s \in Slots : TrackOK(s)) /\ SubtitlesHaveFiles /\ NoPartServed

\* Whoever is not alone is noted to overlap; whoever is finds what it left.
UploadOK(s) ==
  /\ ~reqs[s].alone => "overlap" \in mess
  /\ reqs[s].alone =>
       /\ \A u \in Slots \ {s} : ~About(u)
       /\ reqs[s].pc = "put" => files[reqs[s].path] = "part"
       /\ reqs[s].pc \in {"name", "clean"} => files[reqs[s].path] = "whole"
       /\ reqs[s].pc = "clean" => avatar = reqs[s].path /\ reqs[s].rest \subseteq others(reqs[s].path)

UploadsOK == \A s \in Slots : About(s) => UploadOK(s)

\* A file is missing only where one was removed, and a part only where one is put.
GoneOK ==
  avatar # None /\ files[avatar] = "none" =>
    mess \cap {"overlap", "remove"} # {} \/ \E s \in Slots : reqs[s].pc = "remove"
PartsOK ==
  \A e \in Exts : files[e] = "part" =>
    mess \cap {"overlap", "put"} # {} \/ \E s \in Slots : reqs[s].pc = "put" /\ reqs[s].path = e

\* Where nothing went wrong, what is not as the row says is what a request has yet to do.
AsNamed(e) == files[e] = IF e = avatar THEN "whole" ELSE "none"
ExactBut(s, e) ==
  /\ reqs[s].pc \in {"put", "name"} => e = reqs[s].path \/ AsNamed(e)
  /\ reqs[s].pc = "clean" => e \in reqs[s].rest \/ AsNamed(e)
  /\ reqs[s].pc = "remove" => e \in reqs[s].rest \/ files[e] = "none"
ExactOK ==
  mess \subseteq Tracks => \A e \in Exts :
    /\ (\A s \in Slots : ~About(s)) => AsNamed(e)
    /\ \A s \in Slots : About(s) => ExactBut(s, e)

AvatarOK == UploadsOK /\ GoneOK /\ PartsOK /\ ExactOK

FilesInv == TypeOK /\ (\A s \in Slots : PathOK(s)) /\ TracksOK /\ AvatarOK

----------------------------------------------------------------------------
(* Proofs *)

AvatarStep(s) ==
  \/ UploadAvatar(s) \/ UploadAvatarStored(s) \/ UpdateAvatar(s) \/ CleanUp(s) \/ UploadAvatarEnds(s)
  \/ DeleteAvatar(s) \/ RemoveFile(s) \/ ClearAvatar(s)
TrackStep(s) ==
  \/ UploadSubtitle(s) \/ SubtitleStored(s) \/ CreateSubtitle(s)
  \/ DeleteSubtitle(s) \/ DeleteSubtitleFile(s) \/ DeleteSubtitleRow(s)

\* What a request is when it begins.
LEMMA RequestTyped ==
  ASSUME NEW pc \in AvatarPcs \cup {"idle", "track", "file"},
         NEW path \in Exts \cup Tracks \cup {None}, NEW rest \in SUBSET Exts
  PROVE  /\ Request(pc, path, rest) \in Requests
         /\ Request(pc, path, rest).pc = pc
         /\ Request(pc, path, rest).path = path
         /\ Request(pc, path, rest).rest = rest
  BY DEF Request, Requests

\* A request about the avatar begins: what it is then, and what the others are.
LEMMA BeginsEffect ==
  ASSUME TypeOK, NEW s \in Slots, NEW r \in Requests, Begins(s, r)
  PROVE  /\ reqs[s].pc = "idle"
         /\ reqs'[s].pc = r.pc /\ reqs'[s].path = r.path /\ reqs'[s].rest = r.rest
         /\ \A u \in Slots \ {s} :
              reqs'[u].pc = reqs[u].pc /\ reqs'[u].path = reqs[u].path /\ reqs'[u].rest = reqs[u].rest
         /\ \A u \in Slots \ {s} : ~About(u) => reqs'[u] = reqs[u]
         /\ \/ /\ \A u \in Slots : ~About(u)
               /\ mess' = mess /\ reqs'[s].alone
            \/ /\ \E u \in Slots : About(u)
               /\ mess' = mess \cup {"overlap"} /\ ~reqs'[s].alone
               /\ \A u \in Slots : About(u) => ~reqs'[u].alone
  <1> DEFINE o == {t \in Slots : reqs[t].pc \in AvatarPcs}
  <1>1. /\ reqs[s].pc = "idle"
        /\ reqs' = [t \in Slots |->
             IF t = s THEN [r EXCEPT !.alone = o = {}]
             ELSE IF t \in o THEN [reqs[t] EXCEPT !.alone = FALSE] ELSE reqs[t]]
        /\ mess' = IF o = {} THEN mess ELSE mess \cup {"overlap"}
    BY DEF Begins
  <1>2. PICK b \in BOOLEAN : b = (o = {})
    OBVIOUS
  <1>3. /\ reqs'[s].pc = r.pc /\ reqs'[s].path = r.path /\ reqs'[s].rest = r.rest
        /\ reqs'[s].alone = b
    BY <1>1, <1>2 DEF Requests
  <1>4. ASSUME NEW u \in Slots \ {s}
        PROVE  reqs'[u] = IF u \in o THEN [reqs[u] EXCEPT !.alone = FALSE] ELSE reqs[u]
    BY <1>1
  <1>5. ASSUME NEW u \in Slots \ {s}
        PROVE  /\ reqs'[u].pc = reqs[u].pc /\ reqs'[u].path = reqs[u].path /\ reqs'[u].rest = reqs[u].rest
               /\ ~About(u) => reqs'[u] = reqs[u]
               /\ About(u) => ~reqs'[u].alone
    <2>1. reqs[u] \in Requests
      BY DEF TypeOK
    <2>2. CASE u \in o
      BY <1>4, <2>1, <2>2 DEF Requests, About
    <2>3. CASE u \notin o
      BY <1>4, <2>3 DEF About
    <2> QED
      BY <2>2, <2>3
  <1>6. ~About(s)
    BY <1>1 DEF About, AvatarPcs
  <1>7. CASE o = {}
    BY <1>1, <1>2, <1>3, <1>5, <1>6, <1>7 DEF About
  <1>8. CASE o # {}
    <2>1. \E u \in Slots : About(u)
      BY <1>8 DEF About
    <2>2. mess' = mess \cup {"overlap"} /\ ~reqs'[s].alone
      BY <1>1, <1>2, <1>3, <1>8
    <2> QED
      BY <1>1, <1>3, <1>5, <1>6, <2>1, <2>2
  <1> QED
    BY <1>7, <1>8

\* A step keeps the types and what the paths of requests are.
LEMMA StepTypes ==
  ASSUME NamesApart, TypeOK, \A u \in Slots : PathOK(u), Next
  PROVE  TypeOK' /\ \A u \in Slots : PathOK(u)'
  <1>0. PICK s \in Slots : AvatarStep(s) \/ TrackStep(s) \/ BreaksOff(s)
    BY DEF Next, AvatarStep, TrackStep
  <1>i. Idle \in Requests /\ Idle.pc = "idle" /\ Idle.path = None
    BY RequestTyped DEF Idle
  <1>r. reqs \in [Slots -> Requests] /\ reqs[s] \in Requests
    BY DEF TypeOK
  <1>p. reqs[s].path \in Exts \cup Tracks \cup {None} /\ reqs[s].rest \in SUBSET Exts
    BY <1>r DEF Requests
  <1>1. ASSUME NEW q \in Requests, reqs' = [reqs EXCEPT ![s] = q],
               /\ q.pc \in {"idle", "remove"} => q.path = None
               /\ q.pc \in {"put", "name", "clean"} => q.path \in Exts
               /\ q.pc \in {"track", "create", "file", "row"} => q.path \in Tracks
        PROVE  reqs' \in [Slots -> Requests] /\ \A u \in Slots : PathOK(u)'
    BY <1>1, <1>r DEF PathOK, Requests
  <1>2. ASSUME NEW p \in Exts \cup Tracks, NEW v \in {"none", "part", "whole"},
               files' = [files EXCEPT ![p] = v]
        PROVE  files' \in [Exts \cup Tracks -> {"none", "part", "whole"}]
    BY <1>2 DEF TypeOK
  <1>3. ASSUME NEW p \in Exts \cup Tracks, PutEnds(p)
        PROVE  files' \in [Exts \cup Tracks -> {"none", "part", "whole"}]
    <2>1. PICK v \in {"none", "part", "whole"} : v = IF files[p] = "none" THEN "none" ELSE "whole"
      OBVIOUS
    <2>2. files' = [files EXCEPT ![p] = v]
      BY <1>3, <2>1 DEF PutEnds
    <2> QED
      BY <1>2, <2>2
  <1>4. ASSUME NEW r \in Requests, Begins(s, r),
               \/ r.pc = "put" /\ r.path \in Exts
               \/ r.pc = "remove" /\ r.path = None
        PROVE  reqs' \in [Slots -> Requests] /\ (\A u \in Slots : PathOK(u)')
               /\ mess' \subseteq {"overlap", "put", "remove", "left"} \cup Tracks
    <2>1. ASSUME NEW q \in Requests, NEW b \in BOOLEAN
          PROVE  [q EXCEPT !.alone = b] \in Requests
      BY DEF Requests
    <2>3. reqs' \in [Slots -> Requests]
      BY <1>4, <1>r, <2>1 DEF Begins
    <2>4. /\ reqs'[s].pc = r.pc /\ reqs'[s].path = r.path
          /\ \A u \in Slots \ {s} : reqs'[u].pc = reqs[u].pc /\ reqs'[u].path = reqs[u].path
      BY <1>4, BeginsEffect
    <2>5. \A u \in Slots : PathOK(u)'
      BY <1>4, <2>4 DEF PathOK, AvatarPcs
    <2>6. mess' \subseteq {"overlap", "put", "remove", "left"} \cup Tracks
      BY <1>4 DEF Begins, TypeOK
    <2> QED
      BY <2>3, <2>5, <2>6
  <1>5. ASSUME NEW pc \in {"name", "create", "row"}, reqs' = [reqs EXCEPT ![s].pc = pc],
               pc = "name" => reqs[s].path \in Exts, pc # "name" => reqs[s].path \in Tracks
        PROVE  reqs' \in [Slots -> Requests] /\ \A u \in Slots : PathOK(u)'
    <2>1. PICK q \in Requests : q = [reqs[s] EXCEPT !.pc = pc]
      BY <1>r DEF Requests, AvatarPcs
    <2>2. reqs' = [reqs EXCEPT ![s] = q] /\ q.pc = pc /\ q.path = reqs[s].path
      BY <1>5, <1>r, <2>1 DEF Requests
    <2> QED
      BY <1>1, <1>5, <2>2
  <1>6. reqs' = [reqs EXCEPT ![s] = Idle] => reqs' \in [Slots -> Requests] /\ \A u \in Slots : PathOK(u)'
    BY <1>1, <1>i
  <1>7. CASE UploadAvatar(s)
    <2>1. PICK e \in Exts : /\ Begins(s, Request("put", e, {}))
                            /\ PutBegins(e) /\ UNCHANGED <<avatar, rows>>
      BY <1>7 DEF UploadAvatar
    <2>2. PICK r \in Requests : r = Request("put", e, {}) /\ r.pc = "put" /\ r.path = e
      BY RequestTyped DEF AvatarPcs
    <2>3. Begins(s, r)
      BY <2>1, <2>2
    <2>4. files' \in [Exts \cup Tracks -> {"none", "part", "whole"}]
      BY <1>2, <2>1 DEF PutBegins
    <2>5. reqs' \in [Slots -> Requests] /\ (\A u \in Slots : PathOK(u)')
          /\ mess' \subseteq {"overlap", "put", "remove", "left"} \cup Tracks
      BY <1>4, <2>2, <2>3
    <2> QED
      BY <2>1, <2>4, <2>5 DEF TypeOK
  <1>8. CASE UploadAvatarStored(s)
    <2>1. reqs[s].path \in Exts
      BY <1>8 DEF UploadAvatarStored, PathOK
    <2> QED
      BY <1>3, <1>5, <1>8, <2>1 DEF UploadAvatarStored, Goes, TypeOK
  <1>9. CASE UpdateAvatar(s)
    <2>1. reqs[s].path \in Exts /\ others(reqs[s].path) \in SUBSET Exts
      BY <1>9 DEF UpdateAvatar, PathOK, others
    <2>2. PICK rest \in SUBSET Exts : rest = others(reqs[s].path)
      BY <2>1
    <2>3. PICK q \in Requests : q = [reqs[s] EXCEPT !.pc = "clean", !.rest = rest]
      BY <1>r DEF Requests, AvatarPcs
    <2>4. reqs' = [reqs EXCEPT ![s] = q] /\ q.pc = "clean" /\ q.path = reqs[s].path
      BY <1>9, <1>r, <2>2, <2>3 DEF UpdateAvatar, Requests
    <2>5. reqs' \in [Slots -> Requests] /\ \A u \in Slots : PathOK(u)'
      BY <1>1, <2>1, <2>4
    <2> QED
      BY <1>9, <2>1, <2>5 DEF UpdateAvatar, TypeOK
  <1>10. ASSUME NEW pc \in {"clean", "remove"}, DeleteNext(s, pc)
         PROVE  TypeOK' /\ \A u \in Slots : PathOK(u)'
    <2>1. PICK e \in reqs[s].rest :
            /\ reqs' = [reqs EXCEPT ![s].rest = @ \ {e}]
            /\ \/ files' = [files EXCEPT ![e] = "none"] /\ UNCHANGED mess
               \/ files[e] # "none" /\ mess' = mess \cup {"left"} /\ UNCHANGED files
      BY <1>10 DEF DeleteNext
    <2>2. PICK rest \in SUBSET Exts : rest = reqs[s].rest \ {e}
      BY <1>p
    <2>3. PICK q \in Requests : q = [reqs[s] EXCEPT !.rest = rest]
      BY <1>r DEF Requests
    <2>4. reqs' = [reqs EXCEPT ![s] = q] /\ q.pc = reqs[s].pc /\ q.path = reqs[s].path
      BY <1>r, <2>1, <2>2, <2>3 DEF Requests
    <2>5. reqs' \in [Slots -> Requests] /\ \A u \in Slots : PathOK(u)'
      BY <1>1, <2>4 DEF PathOK
    <2>6. files' \in [Exts \cup Tracks -> {"none", "part", "whole"}]
      <3>1. e \in Exts \cup Tracks
        BY <1>p, <2>1
      <3>2. CASE files' = [files EXCEPT ![e] = "none"]
        BY <1>2, <3>1, <3>2
      <3>3. CASE UNCHANGED files
        BY <3>3 DEF TypeOK
      <3> QED
        BY <2>1, <3>2, <3>3
    <2>7. mess' \subseteq {"overlap", "put", "remove", "left"} \cup Tracks
      BY <2>1 DEF TypeOK
    <2> QED
      BY <1>10, <2>5, <2>6, <2>7 DEF DeleteNext, TypeOK
  <1>11. CASE CleanUp(s) \/ RemoveFile(s)
    BY <1>10, <1>11 DEF CleanUp, RemoveFile
  <1>12. CASE UploadAvatarEnds(s)
    <2>1. mess' \subseteq {"overlap", "put", "remove", "left"} \cup Tracks
      BY <1>12 DEF UploadAvatarEnds, TypeOK
    <2> QED
      BY <1>6, <1>12, <2>1 DEF UploadAvatarEnds, TypeOK
  <1>13. CASE DeleteAvatar(s)
    <2>1. PICK r \in Requests : r = Request("remove", None, Exts) /\ r.pc = "remove" /\ r.path = None
      BY RequestTyped DEF AvatarPcs
    <2>2. Begins(s, r)
      BY <1>13, <2>1 DEF DeleteAvatar
    <2>3. reqs' \in [Slots -> Requests] /\ (\A u \in Slots : PathOK(u)')
          /\ mess' \subseteq {"overlap", "put", "remove", "left"} \cup Tracks
      BY <1>4, <2>1, <2>2
    <2> QED
      BY <1>13, <2>3 DEF DeleteAvatar, TypeOK
  <1>14. CASE ClearAvatar(s)
    BY <1>6, <1>14 DEF ClearAvatar, TypeOK
  <1>15. CASE UploadSubtitle(s)
    <2>1. PICK t \in Tracks :
            /\ reqs' = [reqs EXCEPT ![s] = Request("track", t, {})]
            /\ PutBegins(t) /\ UNCHANGED <<avatar, rows, mess>>
      BY <1>15 DEF UploadSubtitle
    <2>2. PICK q \in Requests : q = Request("track", t, {}) /\ q.pc = "track" /\ q.path = t
      BY RequestTyped
    <2>3. reqs' = [reqs EXCEPT ![s] = q]
      BY <2>1, <2>2
    <2>4. reqs' \in [Slots -> Requests] /\ \A u \in Slots : PathOK(u)'
      BY <1>1, <2>2, <2>3
    <2>5. files' \in [Exts \cup Tracks -> {"none", "part", "whole"}]
      BY <1>2, <2>1 DEF PutBegins
    <2> QED
      BY <2>1, <2>4, <2>5 DEF TypeOK
  <1>16. CASE SubtitleStored(s)
    <2>1. reqs[s].path \in Tracks
      BY <1>16 DEF SubtitleStored, PathOK
    <2> QED
      BY <1>3, <1>5, <1>16, <2>1 DEF SubtitleStored, Goes, TypeOK
  <1>17. CASE CreateSubtitle(s)
    BY <1>6, <1>17 DEF CreateSubtitle, stored, TypeOK, PathOK
  <1>18. CASE DeleteSubtitle(s)
    <2>1. PICK t \in rows : reqs' = [reqs EXCEPT ![s] = Request("file", t, {})]
      BY <1>18 DEF DeleteSubtitle
    <2>t. t \in Tracks
      BY DEF TypeOK
    <2>2. PICK q \in Requests : q = Request("file", t, {}) /\ q.pc = "file" /\ q.path = t
      BY <2>t, RequestTyped
    <2>3. reqs' = [reqs EXCEPT ![s] = q]
      BY <2>1, <2>2
    <2>4. reqs' \in [Slots -> Requests] /\ \A u \in Slots : PathOK(u)'
      BY <1>1, <2>2, <2>3, <2>t
    <2> QED
      BY <1>18, <2>4 DEF DeleteSubtitle, TypeOK
  <1>19. CASE DeleteSubtitleFile(s)
    <2>1. reqs[s].path \in Tracks
      BY <1>19 DEF DeleteSubtitleFile, PathOK
    <2>2. reqs' \in [Slots -> Requests] /\ \A u \in Slots : PathOK(u)'
      BY <1>5, <1>19, <2>1 DEF DeleteSubtitleFile, Goes
    <2>3. files' \in [Exts \cup Tracks -> {"none", "part", "whole"}]
      <3>1. CASE files' = [files EXCEPT ![reqs[s].path] = "none"]
        BY <1>2, <2>1, <3>1
      <3>2. CASE UNCHANGED files
        BY <3>2 DEF TypeOK
      <3> QED
        BY <1>19, <3>1, <3>2 DEF DeleteSubtitleFile
    <2>4. mess' \subseteq {"overlap", "put", "remove", "left"} \cup Tracks
      BY <1>19, <2>1 DEF DeleteSubtitleFile, TypeOK
    <2> QED
      BY <1>19, <2>2, <2>3, <2>4 DEF DeleteSubtitleFile, TypeOK
  <1>20. CASE DeleteSubtitleRow(s)
    BY <1>6, <1>20 DEF DeleteSubtitleRow, TypeOK
  <1>21. CASE BreaksOff(s)
    <2>1. mess' \subseteq {"overlap", "put", "remove", "left"} \cup Tracks
      <3>1. CASE reqs[s].pc \in {"put", "remove", "name", "clean"}
        BY <1>21, <3>1 DEF BreaksOff, TypeOK
      <3>2. CASE reqs[s].pc \in {"track", "create", "file", "row"}
        <4>1. mess' = mess \cup {reqs[s].path} /\ reqs[s].path \in Tracks
          BY <1>21, <3>2 DEF BreaksOff, PathOK
        <4> QED
          BY <4>1 DEF TypeOK
      <3> QED
        BY <1>21, <1>r, <3>1, <3>2 DEF BreaksOff, Requests, AvatarPcs
    <2> QED
      BY <1>6, <1>21, <2>1 DEF BreaksOff, TypeOK
  <1> QED
    BY <1>0, <1>7, <1>8, <1>9, <1>11, <1>12, <1>13, <1>14, <1>15, <1>16, <1>17, <1>18, <1>19, <1>20, <1>21
       DEF AvatarStep, TrackStep

\* What a request does that is not about a subtitle, seen from the subtitles: their rows
\* and files stay, and so do the requests about them.
LEMMA TracksAside ==
  ASSUME NamesApart, TypeOK, TypeOK', TracksOK,
         \A u \in Slots : PathOK(u) /\ PathOK(u)',
         rows' = rows,
         \A t \in Tracks : files'[t] = files[t] /\ (t \in mess <=> t \in mess'),
         \A u \in Slots : reqs'[u].path \in Tracks \/ reqs[u].path \in Tracks =>
                            reqs'[u].path = reqs[u].path /\ reqs'[u].pc = reqs[u].pc
  PROVE  TracksOK'
  <1>1. ASSUME NEW u \in Slots PROVE TrackOK(u)'
    <2>1. CASE reqs'[u].path \in Tracks
      <3>1. reqs[u].path = reqs'[u].path /\ reqs[u].pc = reqs'[u].pc
        BY <2>1
      <3>2. \A v \in Slots \ {u} : reqs[v].path # reqs[u].path => reqs'[v].path # reqs[u].path
        BY <2>1
      <3> QED
        BY <2>1, <3>1, <3>2 DEF TracksOK, TrackOK
    <2>2. CASE reqs'[u].path \notin Tracks
      BY <2>2 DEF TrackOK, PathOK
    <2> QED
      BY <2>1, <2>2
  <1>2. ASSUME NEW t \in Tracks PROVE Busy(t)' <=> Busy(t)
    BY DEF Busy
  <1>3. SubtitlesHaveFiles'
    BY <1>2 DEF TracksOK, SubtitlesHaveFiles
  <1>4. NoPartServed'
    BY DEF TracksOK, NoPartServed, TypeOK
  <1> QED
    BY <1>1, <1>3, <1>4 DEF TracksOK

\* A step of a request about a subtitle keeps what is true of them.
LEMMA TrackStepTracks ==
  ASSUME NamesApart, TypeOK, TypeOK', TracksOK, \A u \in Slots : PathOK(u) /\ PathOK(u)',
         NEW s \in Slots,
         \/ TrackStep(s)
         \/ BreaksOff(s) /\ reqs[s].path \in Tracks
  PROVE  TracksOK'
  <1> USE DEF TypeOK, Requests
  <1>p. ASSUME NEW u \in Slots, NEW v \in Slots \ {u}, reqs[u].pc \in {"track", "create"}
        PROVE  /\ reqs[v].path # reqs[u].path /\ reqs[u].path \in Tracks
               /\ reqs[u].path \notin rows
    BY <1>p DEF TracksOK, TrackOK, PathOK
  <1>1. CASE UploadSubtitle(s)
    <2>1. PICK t \in Tracks :
            /\ t \notin rows /\ t \notin mess /\ reqs[s].pc = "idle" /\ ~Busy(t)
            /\ reqs' = [reqs EXCEPT ![s] = Request("track", t, {})]
            /\ PutBegins(t) /\ UNCHANGED <<avatar, rows, mess>>
      BY <1>1 DEF UploadSubtitle
    <2>2. /\ reqs'[s].pc = "track" /\ reqs'[s].path = t
          /\ \A u \in Slots \ {s} : reqs'[u] = reqs[u]
      BY <2>1 DEF Request
    <2>3. files'[t] = "part" /\ \A x \in Tracks \ {t} : files'[x] = files[x]
      BY <2>1 DEF PutBegins
    <2>4. \A u \in Slots : reqs[u].path # t
      BY <2>1 DEF Busy
    <2>5. ASSUME NEW u \in Slots PROVE TrackOK(u)'
      <3>1. CASE u = s
        BY <2>1, <2>2, <2>3, <2>4, <3>1 DEF TrackOK
      <3>2. CASE u # s
        BY <2>1, <2>2, <2>3, <2>4, <3>2 DEF TrackOK, TracksOK, PathOK
      <3> QED
        BY <3>1, <3>2
    <2>6. SubtitlesHaveFiles'
      <3>1. ASSUME NEW x \in Tracks, ~Busy(x)', x \notin mess'
            PROVE  files'[x] = IF x \in rows' THEN "whole" ELSE "none"
        <4>1. x # t
          BY <2>2, <3>1 DEF Busy
        <4>2. reqs[s].path # x
          BY <2>1 DEF PathOK, NamesApart
        <4>3. ~Busy(x)
          BY <2>2, <3>1, <4>2 DEF Busy
        <4> QED
          BY <2>1, <2>3, <3>1, <4>1, <4>3 DEF TracksOK, SubtitlesHaveFiles
      <3> QED
        BY <3>1 DEF SubtitlesHaveFiles
    <2>7. NoPartServed'
      BY <2>1, <2>3 DEF TracksOK, NoPartServed
    <2> QED
      BY <2>5, <2>6, <2>7 DEF TracksOK
  <1>2. CASE SubtitleStored(s)
    <2>1. PICK p \in Tracks : p = reqs[s].path
      BY <1>2 DEF SubtitleStored, PathOK
    <2>2. p \notin rows /\ files[p] = "part" /\ \A u \in Slots \ {s} : reqs[u].path # p
      BY <1>2, <2>1 DEF SubtitleStored, TracksOK, TrackOK
    <2>3. files'[p] = "whole" /\ \A x \in Tracks \ {p} : files'[x] = files[x]
      BY <1>2, <2>1, <2>2 DEF SubtitleStored, PutEnds
    <2>4. /\ reqs'[s].pc = "create" /\ reqs'[s].path = p
          /\ \A u \in Slots \ {s} : reqs'[u] = reqs[u]
          /\ rows' = rows /\ mess' = mess
      BY <1>2, <2>1 DEF SubtitleStored, Goes
    <2>5. ASSUME NEW u \in Slots PROVE TrackOK(u)'
      <3>1. CASE u = s
        BY <2>2, <2>3, <2>4, <3>1 DEF TrackOK
      <3>2. CASE u # s
        BY <2>1, <2>2, <2>3, <2>4, <3>2 DEF TrackOK, TracksOK, PathOK
      <3> QED
        BY <3>1, <3>2
    <2>6. SubtitlesHaveFiles'
      BY <2>1, <2>3, <2>4 DEF TracksOK, SubtitlesHaveFiles, Busy
    <2>7. NoPartServed'
      BY <2>2, <2>3, <2>4 DEF TracksOK, NoPartServed
    <2> QED
      BY <2>5, <2>6, <2>7 DEF TracksOK
  \* The request is over, and what it was about may be told from its row and file.
  <1>i. ASSUME NEW p \in Tracks, p = reqs[s].path, reqs' = [reqs EXCEPT ![s] = Idle],
               \A x \in Tracks \ {p} :
                 files'[x] = files[x] /\ (x \in rows' <=> x \in rows) /\ (x \in mess' <=> x \in mess),
               files'[p] = files[p], p \in mess => p \in mess', p \in rows' => files[p] # "part",
               p \in mess' \/ files[p] = (IF p \in rows' THEN "whole" ELSE "none"),
               p \in rows' => p \in rows \/ reqs[s].pc = "create"
        PROVE  TracksOK'
    <2>1. /\ reqs'[s].pc = "idle" /\ reqs'[s].path = None
          /\ \A u \in Slots \ {s} : reqs'[u] = reqs[u]
      BY <1>i DEF Idle, Request
    <2>2. None \notin Tracks
      BY DEF NamesApart
    <2>3. ASSUME NEW u \in Slots PROVE TrackOK(u)'
      <3>1. CASE u = s
        BY <2>1, <3>1 DEF TrackOK
      <3>2. CASE u # s /\ reqs[u].pc \in {"track", "create"}
        <4>1. reqs[u].path \in Tracks \ {p} /\ reqs[u].path \notin rows
          BY <1>p, <1>i, <3>2
        <4>2. \A v \in Slots \ {u} : reqs'[v].path # reqs'[u].path
          BY <1>p, <2>1, <2>2, <3>2, <4>1
        <4> QED
          BY <1>i, <2>1, <3>2, <4>1, <4>2 DEF TracksOK, TrackOK
      <3>3. CASE u # s /\ reqs[u].pc \notin {"track", "create"}
        BY <1>i, <2>1, <3>3 DEF TracksOK, TrackOK, PathOK
      <3> QED
        BY <3>1, <3>2, <3>3
    <2>4. \A x \in Tracks \ {p} : Busy(x)' <=> Busy(x)
      BY <1>i, <2>1, <2>2 DEF Busy
    <2>5. SubtitlesHaveFiles'
      BY <1>i, <2>4 DEF TracksOK, SubtitlesHaveFiles
    <2>6. NoPartServed'
      BY <1>i DEF TracksOK, NoPartServed
    <2> QED
      BY <2>3, <2>5, <2>6 DEF TracksOK
  <1>3. CASE CreateSubtitle(s)
    <2>1. PICK p \in Tracks : p = reqs[s].path
      BY <1>3 DEF CreateSubtitle, stored, PathOK
    <2>2. files[p] = "whole"
      BY <1>3, <2>1 DEF CreateSubtitle, stored, TracksOK, TrackOK
    <2> QED
      BY <1>3, <1>i, <2>1, <2>2 DEF CreateSubtitle, stored
  <1>4. CASE DeleteSubtitle(s)
    <2>1. PICK t \in rows : reqs' = [reqs EXCEPT ![s] = Request("file", t, {})]
      BY <1>4 DEF DeleteSubtitle
    <2>2. /\ reqs'[s].pc = "file" /\ reqs'[s].path = t
          /\ \A u \in Slots \ {s} : reqs'[u] = reqs[u]
      BY <2>1 DEF Request
    <2>3. reqs[s].pc = "idle" /\ files' = files /\ rows' = rows /\ mess' = mess
      BY <1>4 DEF DeleteSubtitle
    <2>4. ASSUME NEW u \in Slots PROVE TrackOK(u)'
      <3>1. CASE u = s
        BY <2>2, <3>1 DEF TrackOK
      <3>2. CASE u # s
        BY <2>1, <2>2, <2>3, <3>2 DEF TrackOK, TracksOK
      <3> QED
        BY <3>1, <3>2
    <2>5. reqs[s].path \notin Tracks
      BY <2>3 DEF PathOK, NamesApart
    <2>6. SubtitlesHaveFiles'
      BY <2>2, <2>3, <2>5 DEF TracksOK, SubtitlesHaveFiles, Busy
    <2>7. NoPartServed'
      BY <2>3 DEF TracksOK, NoPartServed
    <2> QED
      BY <2>4, <2>6, <2>7 DEF TracksOK
  <1>5. CASE DeleteSubtitleFile(s)
    <2>1. PICK p \in Tracks : p = reqs[s].path
      BY <1>5 DEF DeleteSubtitleFile, PathOK
    <2>2. /\ reqs'[s].pc = "row" /\ reqs'[s].path = p
          /\ \A u \in Slots \ {s} : reqs'[u] = reqs[u]
          /\ rows' = rows /\ reqs[s].pc = "file"
      BY <1>5, <2>1 DEF DeleteSubtitleFile, Goes
    <2>3. /\ \A x \in Tracks \ {p} : files'[x] = files[x] /\ (x \in mess' <=> x \in mess)
          /\ \/ files'[p] = "none" /\ mess' = mess
             \/ files'[p] = files[p] /\ p \in mess'
      BY <1>5, <2>1 DEF DeleteSubtitleFile
    <2>4. ASSUME NEW u \in Slots PROVE TrackOK(u)'
      <3>1. CASE u = s
        BY <2>2, <2>3, <3>1 DEF TrackOK
      <3>2. CASE u # s /\ reqs[u].pc \in {"track", "create"}
        <4>1. reqs[u].path \in Tracks \ {p}
          BY <1>p, <2>1, <3>2
        <4> QED
          BY <2>1, <2>2, <2>3, <3>2, <4>1 DEF TracksOK, TrackOK
      <3>3. CASE u # s /\ reqs[u].pc \notin {"track", "create"}
        BY <2>2, <2>3, <3>3 DEF TracksOK, TrackOK, PathOK
      <3> QED
        BY <3>1, <3>2, <3>3
    <2>5. SubtitlesHaveFiles'
      BY <2>1, <2>2, <2>3 DEF TracksOK, SubtitlesHaveFiles, Busy
    <2>6. NoPartServed'
      BY <2>1, <2>2, <2>3 DEF TracksOK, NoPartServed
    <2> QED
      BY <2>4, <2>5, <2>6 DEF TracksOK
  <1>6. CASE DeleteSubtitleRow(s)
    <2>1. PICK p \in Tracks : p = reqs[s].path
      BY <1>6 DEF DeleteSubtitleRow, PathOK
    <2>2. files[p] = "none" \/ p \in mess
      BY <1>6, <2>1 DEF DeleteSubtitleRow, TracksOK, TrackOK
    <2> QED
      BY <1>6, <1>i, <2>1, <2>2 DEF DeleteSubtitleRow
  <1>7. CASE BreaksOff(s) /\ reqs[s].path \in Tracks
    <2>1. PICK p \in Tracks : p = reqs[s].path
      BY <1>7
    <2>2. reqs[s].pc \notin {"put", "remove", "name", "clean"}
      BY <1>7 DEF PathOK, NamesApart
    <2>3. mess' = mess \cup {p} /\ reqs' = [reqs EXCEPT ![s] = Idle] /\ files' = files /\ rows' = rows
      BY <1>7, <2>1, <2>2 DEF BreaksOff
    <2>4. p \in rows => files[p] # "part"
      BY DEF TracksOK, NoPartServed
    <2> QED
      BY <1>i, <2>1, <2>3, <2>4
  <1> QED
    BY <1>1, <1>2, <1>3, <1>4, <1>5, <1>6, <1>7 DEF TrackStep

\* What a request about a subtitle does, seen from the avatar: nothing.
LEMMA AvatarAside ==
  ASSUME NamesApart, TypeOK, AvatarOK, \A u \in Slots : PathOK(u),
         avatar' = avatar, \A e \in Exts : files'[e] = files[e],
         mess \subseteq mess', mess' \ Tracks = mess \ Tracks,
         \A u \in Slots : (About(u)' <=> About(u)) /\ (About(u) => reqs'[u] = reqs[u])
  PROVE  AvatarOK'
  <1>1. /\ mess' \subseteq Tracks => mess \subseteq Tracks
        /\ \A w \in {"overlap", "put", "remove"} : w \in mess' <=> w \in mess
    BY DEF NamesApart
  <1>2. UploadsOK'
    <2>1. ASSUME NEW u \in Slots, About(u)' PROVE UploadOK(u)'
      <3>1. About(u) /\ reqs'[u] = reqs[u] /\ UploadOK(u)
        BY <2>1 DEF AvatarOK, UploadsOK
      <3>2. reqs[u].alone => \A v \in Slots \ {u} : ~About(v)'
        BY <3>1 DEF UploadOK
      <3>3. reqs[u].pc \in {"put", "name", "clean"} => files'[reqs[u].path] = files[reqs[u].path]
        BY DEF PathOK
      <3> QED
        BY <1>1, <3>1, <3>2, <3>3 DEF UploadOK
    <2> QED
      BY <2>1 DEF UploadsOK
  <1>3. GoneOK'
    BY <1>1 DEF AvatarOK, GoneOK, About, AvatarPcs, TypeOK
  <1>4. PartsOK'
    BY <1>1 DEF AvatarOK, PartsOK, About, AvatarPcs
  <1>5. ExactOK'
    <2>1. ASSUME NEW e \in Exts PROVE AsNamed(e)' <=> AsNamed(e)
      BY DEF AsNamed
    <2>2. ASSUME NEW e \in Exts, NEW u \in Slots, About(u), ExactBut(u, e) PROVE ExactBut(u, e)'
      BY <2>1, <2>2 DEF ExactBut
    <2> QED
      BY <1>1, <2>1, <2>2 DEF AvatarOK, ExactOK
  <1> QED
    BY <1>2, <1>3, <1>4, <1>5 DEF AvatarOK

\* Where a request about the avatar is not the only one, that is noted.
LEMMA OnlyOrOverlap ==
  ASSUME UploadsOK, NEW s \in Slots, NEW u \in Slots \ {s}, About(s), About(u)
  PROVE  "overlap" \in mess
  BY DEF UploadsOK, UploadOK

\* The beginning of a request about the avatar beside another one makes no promise.
LEMMA BeginsBeside ==
  ASSUME NamesApart, TypeOK, TypeOK', AvatarOK, NEW s \in Slots,
         "overlap" \in mess', \A u \in Slots : About(u)' => ~reqs'[u].alone
  PROVE  AvatarOK'
  <1>1. UploadsOK'
    BY DEF UploadsOK, UploadOK
  <1>2. GoneOK' /\ PartsOK'
    BY DEF GoneOK, PartsOK
  <1>3. ExactOK'
    BY DEF ExactOK, NamesApart
  <1> QED
    BY <1>1, <1>2, <1>3 DEF AvatarOK

\* A step of a request about the avatar keeps what is true of it.
LEMMA AvatarStepAvatar ==
  ASSUME NamesApart, TypeOK, TypeOK', \A u \in Slots : PathOK(u) /\ PathOK(u)', AvatarOK,
         NEW s \in Slots,
         \/ AvatarStep(s)
         \/ BreaksOff(s) /\ About(s)
  PROVE  AvatarOK'
  <1>t. \A u \in Slots : reqs[u] \in Requests /\ reqs'[u] \in Requests
    BY DEF TypeOK
  <1>o. ASSUME NEW u \in Slots, NEW v \in Slots \ {u}, About(u), About(v) PROVE "overlap" \in mess
    BY <1>o, OnlyOrOverlap DEF AvatarOK
  <1>e. "overlap" \notin Tracks /\ "put" \notin Tracks /\ "remove" \notin Tracks /\ "left" \notin Tracks
    BY DEF NamesApart
  <1>a. ASSUME NEW u \in Slots PROVE About(u) <=> reqs[u].pc \in {"put", "name", "clean", "remove"}
    BY DEF About, AvatarPcs
  <1>b. ASSUME NEW u \in Slots PROVE About(u)' <=> reqs'[u].pc \in {"put", "name", "clean", "remove"}
    BY DEF About, AvatarPcs
  \* Another request goes on as it is: it is not alone, which is noted.
  <1>u. ASSUME About(s), \A u \in Slots \ {s} : reqs'[u] = reqs[u],
               "overlap" \in mess => "overlap" \in mess',
               About(s)' => UploadOK(s)'
        PROVE  UploadsOK'
    <2>1. ASSUME NEW u \in Slots \ {s}, About(u)' PROVE UploadOK(u)'
      <3>1. About(u) /\ reqs'[u] = reqs[u]
        BY <1>u, <2>1 DEF About
      <3>2. "overlap" \in mess' /\ ~reqs[u].alone
        BY <1>u, <1>o, <3>1 DEF AvatarOK, UploadsOK, UploadOK
      <3> QED
        BY <3>1, <3>2 DEF UploadOK
    <2> QED
      BY <1>u, <2>1 DEF UploadsOK
  \* Where nothing went wrong, s is the only one.
  <1>x. ASSUME About(s), \A u \in Slots \ {s} : reqs'[u] = reqs[u], mess \subseteq Tracks
        PROVE  reqs[s].alone /\ \A u \in Slots \ {s} : ~About(u) /\ ~About(u)'
    <2>1. reqs[s].alone
      BY <1>x, <1>e DEF AvatarOK, UploadsOK, UploadOK
    <2> QED
      BY <1>x, <2>1 DEF AvatarOK, UploadsOK, UploadOK, About
  <1>1. CASE UploadAvatar(s)
    <2>1. PICK e \in Exts : Begins(s, Request("put", e, {})) /\ PutBegins(e) /\ avatar' = avatar
      BY <1>1 DEF UploadAvatar
    <2>2. PICK r \in Requests : r = Request("put", e, {}) /\ r.pc = "put" /\ r.path = e
      BY RequestTyped DEF AvatarPcs
    <2>3. Begins(s, r)
      BY <2>1, <2>2
    <2>4. /\ reqs[s].pc = "idle" /\ reqs'[s].pc = "put" /\ reqs'[s].path = e
          /\ \A u \in Slots \ {s} : ~About(u) => reqs'[u] = reqs[u]
          /\ \A u \in Slots \ {s} : reqs'[u].pc = reqs[u].pc
      BY <2>2, <2>3, BeginsEffect
    <2>5. files'[e] = "part" /\ \A x \in Exts \ {e} : files'[x] = files[x]
      BY <2>1 DEF PutBegins, TypeOK
    <2>6. CASE /\ \A u \in Slots : ~About(u)
               /\ mess' = mess /\ reqs'[s].alone
      <3>1. \A u \in Slots \ {s} : reqs'[u] = reqs[u] /\ ~About(u)'
        BY <2>4, <2>6 DEF About
      <3>2. UploadsOK'
        BY <2>4, <2>5, <2>6, <3>1 DEF UploadsOK, UploadOK
      <3>3. GoneOK'
        BY <1>a, <2>1, <2>4, <2>5, <2>6 DEF AvatarOK, GoneOK, TypeOK
      <3>4. PartsOK'
        BY <1>a, <2>4, <2>5, <2>6 DEF AvatarOK, PartsOK
      <3>5. ExactOK'
        <4>1. ASSUME NEW x \in Exts, mess' \subseteq Tracks PROVE ExactBut(s, x)'
          BY <2>1, <2>4, <2>5, <2>6, <4>1 DEF AvatarOK, ExactOK, ExactBut, AsNamed
        <4>2. About(s)'
          BY <1>b, <2>4
        <4> QED
          BY <3>1, <4>1, <4>2 DEF ExactOK
      <3> QED
        BY <3>2, <3>3, <3>4, <3>5 DEF AvatarOK
    <2>7. CASE /\ mess' = mess \cup {"overlap"} /\ ~reqs'[s].alone
               /\ \A u \in Slots : About(u) => ~reqs'[u].alone
      <3>1. ASSUME NEW u \in Slots, About(u)' PROVE ~reqs'[u].alone
        BY <2>4, <2>7, <3>1 DEF About
      <3> QED
        BY <2>7, <3>1, BeginsBeside
    <2> QED
      BY <2>3, <2>6, <2>7, BeginsEffect
  <1>2. CASE DeleteAvatar(s)
    <2>1. PICK r \in Requests : /\ r = Request("remove", None, Exts)
                                /\ r.pc = "remove" /\ r.path = None /\ r.rest = Exts
      BY RequestTyped DEF AvatarPcs
    <2>2. Begins(s, r) /\ files' = files /\ avatar' = avatar
      BY <1>2, <2>1 DEF DeleteAvatar
    <2>4. /\ reqs[s].pc = "idle" /\ reqs'[s].pc = "remove" /\ reqs'[s].rest = Exts
          /\ \A u \in Slots \ {s} : ~About(u) => reqs'[u] = reqs[u]
          /\ \A u \in Slots \ {s} : reqs'[u].pc = reqs[u].pc
      BY <2>1, <2>2, BeginsEffect
    <2>6. CASE /\ \A u \in Slots : ~About(u)
               /\ mess' = mess /\ reqs'[s].alone
      <3>1. \A u \in Slots \ {s} : reqs'[u] = reqs[u] /\ ~About(u)'
        BY <2>4, <2>6 DEF About
      <3>2. UploadsOK'
        BY <2>4, <2>6, <3>1 DEF UploadsOK, UploadOK
      <3>3. GoneOK'
        BY <2>4 DEF GoneOK
      <3>4. PartsOK'
        BY <1>a, <2>2, <2>4, <2>6 DEF AvatarOK, PartsOK
      <3>5. ExactOK'
        <4>1. About(s)' /\ \A x \in Exts : ExactBut(s, x)'
          BY <1>b, <2>4 DEF ExactBut
        <4> QED
          BY <3>1, <4>1 DEF ExactOK
      <3> QED
        BY <3>2, <3>3, <3>4, <3>5 DEF AvatarOK
    <2>7. CASE /\ mess' = mess \cup {"overlap"} /\ ~reqs'[s].alone
               /\ \A u \in Slots : About(u) => ~reqs'[u].alone
      <3>1. ASSUME NEW u \in Slots, About(u)' PROVE ~reqs'[u].alone
        BY <2>4, <2>7, <3>1 DEF About
      <3> QED
        BY <2>7, <3>1, BeginsBeside
    <2> QED
      BY <2>2, <2>6, <2>7, BeginsEffect
  <1>3. CASE UploadAvatarStored(s)
    <2>1. PICK p \in Exts : p = reqs[s].path
      BY <1>3 DEF UploadAvatarStored, PathOK
    <2>2. /\ reqs[s].pc = "put" /\ reqs'[s].pc = "name" /\ reqs'[s].path = p
          /\ reqs'[s].alone = reqs[s].alone
          /\ \A u \in Slots \ {s} : reqs'[u] = reqs[u]
          /\ mess' = mess /\ avatar' = avatar
      BY <1>3, <1>t, <2>1 DEF UploadAvatarStored, Goes, TypeOK, Requests
    <2>3. /\ files'[p] = IF files[p] = "none" THEN "none" ELSE "whole"
          /\ \A x \in Exts \ {p} : files'[x] = files[x]
      BY <1>3, <2>1 DEF UploadAvatarStored, PutEnds, TypeOK
    <2>4. About(s) /\ About(s)'
      BY <1>a, <1>b, <2>2
    <2>5. UploadOK(s)'
      <3>1. UploadOK(s)
        BY <2>4 DEF AvatarOK, UploadsOK
      <3>2. reqs[s].alone => \A u \in Slots \ {s} : ~About(u)'
        BY <2>2, <3>1 DEF UploadOK, About
      <3> QED
        BY <2>1, <2>2, <2>3, <3>1, <3>2 DEF UploadOK
    <2>6. UploadsOK'
      BY <1>u, <2>2, <2>4, <2>5
    <2>7. GoneOK'
      <3>1. ASSUME avatar # None, files'[avatar] = "none" PROVE files[avatar] = "none"
        BY <2>3, <3>1 DEF TypeOK
      <3> QED
        BY <2>2, <3>1 DEF AvatarOK, GoneOK
    <2>8. PartsOK'
      BY <2>1, <2>2, <2>3 DEF AvatarOK, PartsOK
    <2>9. ExactOK'
      <3>1. ASSUME mess' \subseteq Tracks, NEW x \in Exts
            PROVE  ExactBut(s, x)' /\ \A u \in Slots \ {s} : ~About(u)'
        BY <1>x, <2>1, <2>2, <2>3, <2>4, <3>1 DEF AvatarOK, ExactOK, ExactBut, AsNamed
      <3> QED
        BY <2>4, <3>1 DEF ExactOK
    <2> QED
      BY <2>6, <2>7, <2>8, <2>9 DEF AvatarOK
  <1>4. CASE UpdateAvatar(s)
    <2>1. PICK p \in Exts : p = reqs[s].path
      BY <1>4 DEF UpdateAvatar, PathOK
    <2>2. /\ reqs[s].pc = "name" /\ reqs'[s].pc = "clean" /\ reqs'[s].path = p
          /\ reqs'[s].rest = others(p) /\ reqs'[s].alone = reqs[s].alone
          /\ \A u \in Slots \ {s} : reqs'[u] = reqs[u]
          /\ mess' = mess /\ files' = files /\ avatar' = p
      BY <1>4, <1>t, <2>1 DEF UpdateAvatar, TypeOK, Requests
    <2>4. About(s) /\ About(s)'
      BY <1>a, <1>b, <2>2
    <2>s. UploadOK(s)
      BY <2>4 DEF AvatarOK, UploadsOK
    <2>5. UploadOK(s)'
      <3>2. reqs[s].alone => \A u \in Slots \ {s} : ~About(u)'
        BY <2>2, <2>s DEF UploadOK, About
      <3> QED
        BY <2>1, <2>2, <2>s, <3>2 DEF UploadOK
    <2>6. UploadsOK'
      BY <1>u, <2>2, <2>4, <2>5
    <2>7. GoneOK'
      BY <2>1, <2>2, <2>s DEF GoneOK, UploadOK
    <2>8. PartsOK'
      BY <2>2 DEF AvatarOK, PartsOK
    <2>9. ExactOK'
      <3>1. ASSUME mess' \subseteq Tracks, NEW x \in Exts
            PROVE  ExactBut(s, x)' /\ \A u \in Slots \ {s} : ~About(u)'
        BY <1>x, <2>1, <2>2, <2>4, <2>s, <3>1 DEF ExactBut, AsNamed, UploadOK, others
      <3> QED
        BY <2>4, <3>1 DEF ExactOK
    <2> QED
      BY <2>6, <2>7, <2>8, <2>9 DEF AvatarOK
  <1>5. CASE CleanUp(s) \/ RemoveFile(s)
    <2>1. PICK e \in reqs[s].rest :
            /\ reqs' = [reqs EXCEPT ![s].rest = @ \ {e}]
            /\ \/ files' = [files EXCEPT ![e] = "none"] /\ UNCHANGED mess
               \/ files[e] # "none" /\ mess' = mess \cup {"left"} /\ UNCHANGED files
      BY <1>5 DEF CleanUp, RemoveFile, DeleteNext
    <2>e. e \in Exts
      BY <1>t, <2>1 DEF Requests
    <2>2. /\ reqs[s].pc \in {"clean", "remove"} /\ avatar' = avatar
          /\ reqs'[s].pc = reqs[s].pc /\ reqs'[s].path = reqs[s].path
          /\ reqs'[s].rest = reqs[s].rest \ {e} /\ reqs'[s].alone = reqs[s].alone
          /\ \A u \in Slots \ {s} : reqs'[u] = reqs[u]
      BY <1>5, <1>t, <2>1 DEF CleanUp, RemoveFile, DeleteNext, TypeOK, Requests
    <2>3. /\ \A x \in Exts \ {e} : files'[x] = files[x]
          /\ \/ files'[e] = "none" /\ mess' = mess
             \/ files'[e] = files[e] /\ files[e] # "none" /\ mess' = mess \cup {"left"}
      BY <2>1, <2>e DEF TypeOK
    <2>4. About(s) /\ About(s)'
      BY <1>a, <1>b, <2>2
    <2>s. UploadOK(s)
      BY <2>4 DEF AvatarOK, UploadsOK
    <2>c. reqs[s].alone /\ reqs[s].pc = "clean" =>
            avatar = reqs[s].path /\ reqs[s].path \in Exts /\ e # reqs[s].path
      BY <2>s, <2>1 DEF UploadOK, PathOK, others
    <2>5. UploadOK(s)'
      <3>2. reqs[s].alone => \A u \in Slots \ {s} : ~About(u)'
        BY <2>2, <2>s DEF UploadOK, About
      <3> QED
        BY <2>2, <2>3, <2>c, <2>s, <3>2 DEF UploadOK
    <2>6. UploadsOK'
      BY <1>u, <2>2, <2>3, <2>4, <2>5
    <2>7. GoneOK'
      <3>1. CASE reqs[s].pc = "remove"
        BY <2>2, <3>1 DEF GoneOK
      <3>2. CASE reqs[s].pc = "clean" /\ ~reqs[s].alone
        BY <2>3, <2>s, <3>2 DEF GoneOK, UploadOK
      <3>3. CASE reqs[s].pc = "clean" /\ reqs[s].alone
        <4>1. files'[avatar] = files[avatar]
          BY <2>3, <2>c, <3>3
        <4> QED
          BY <2>2, <2>3, <4>1 DEF AvatarOK, GoneOK
      <3> QED
        BY <2>2, <3>1, <3>2, <3>3
    <2>8. PartsOK'
      <3>1. ASSUME NEW x \in Exts, files'[x] = "part" PROVE files[x] = "part"
        BY <2>3, <3>1
      <3> QED
        BY <2>2, <2>3, <3>1 DEF AvatarOK, PartsOK
    <2>9. ExactOK'
      <3>1. ASSUME mess' \subseteq Tracks, NEW x \in Exts
            PROVE  ExactBut(s, x)' /\ \A u \in Slots \ {s} : ~About(u)'
        <4>1. mess' = mess /\ files'[e] = "none"
          BY <1>e, <2>3, <3>1
        <4>2. reqs[s].alone /\ (\A u \in Slots \ {s} : ~About(u)') /\ ExactBut(s, x)
          BY <1>x, <2>2, <2>4, <3>1, <4>1 DEF AvatarOK, ExactOK
        <4>3. CASE x = e
          BY <2>2, <2>c, <4>1, <4>2, <4>3 DEF ExactBut, AsNamed
        <4>4. CASE x # e
          BY <2>2, <2>3, <4>2, <4>4 DEF ExactBut, AsNamed
        <4> QED
          BY <4>2, <4>3, <4>4
      <3> QED
        BY <2>4, <3>1 DEF ExactOK
    <2> QED
      BY <2>6, <2>7, <2>8, <2>9 DEF AvatarOK
  \* The end of a request: what it is then, and what the others are.
  <1>i. ASSUME reqs' = [reqs EXCEPT ![s] = Idle]
        PROVE  ~About(s)' /\ reqs'[s].pc = "idle" /\ \A u \in Slots \ {s} : reqs'[u] = reqs[u]
    BY <1>b, <1>i DEF TypeOK, Idle, Request
  <1>6. CASE UploadAvatarEnds(s)
    <2>1. PICK p \in Exts : p = reqs[s].path
      BY <1>6 DEF UploadAvatarEnds, PathOK
    <2>2. /\ reqs[s].pc = "clean" /\ reqs[s].rest = {} /\ files' = files /\ avatar' = avatar
          /\ ~About(s)' /\ reqs'[s].pc = "idle" /\ \A u \in Slots \ {s} : reqs'[u] = reqs[u]
      BY <1>6, <1>i DEF UploadAvatarEnds
    <2>4. About(s) /\ UploadOK(s)
      BY <1>a, <2>2 DEF AvatarOK, UploadsOK
    <2>5. CASE reqs[s].alone /\ \A e \in others(p) : files[e] = "none"
      <3>1. mess' = mess \cap Tracks /\ avatar = p /\ files[p] = "whole"
        BY <1>6, <2>1, <2>2, <2>4, <2>5 DEF UploadAvatarEnds, UploadOK
      <3>2. \A u \in Slots : ~About(u)'
        BY <2>2, <2>4, <2>5 DEF UploadOK, About
      <3>3. \A e \in Exts : AsNamed(e)' /\ files'[e] # "part"
        BY <2>2, <2>5, <3>1 DEF AsNamed, others
      <3>4. UploadsOK'
        BY <3>2 DEF UploadsOK
      <3>5. GoneOK' /\ PartsOK'
        BY <2>2, <3>1, <3>3 DEF GoneOK, PartsOK
      <3>6. ExactOK'
        BY <3>2, <3>3 DEF ExactOK
      <3> QED
        BY <3>4, <3>5, <3>6 DEF AvatarOK
    <2>6. CASE ~(reqs[s].alone /\ \A e \in others(p) : files[e] = "none")
      <3>1. mess' = mess
        BY <1>6, <2>1, <2>6 DEF UploadAvatarEnds
      <3>2. UploadsOK'
        BY <1>u, <2>2, <2>4, <3>1
      <3>3. GoneOK'
        BY <2>2, <3>1 DEF AvatarOK, GoneOK
      <3>4. PartsOK'
        BY <2>2, <3>1 DEF AvatarOK, PartsOK
      <3>5. ExactOK'
        <4>1. ASSUME mess' \subseteq Tracks, NEW x \in Exts
              PROVE  AsNamed(x)' /\ \A u \in Slots : ~About(u)'
          BY <1>x, <2>2, <2>4, <3>1, <4>1 DEF AvatarOK, ExactOK, ExactBut, AsNamed
        <4> QED
          BY <4>1 DEF ExactOK
      <3> QED
        BY <3>2, <3>3, <3>4, <3>5 DEF AvatarOK
    <2> QED
      BY <2>5, <2>6
  <1>7. CASE ClearAvatar(s)
    <2>2. /\ reqs[s].pc = "remove" /\ reqs[s].rest = {} /\ files' = files /\ avatar' = None /\ mess' = mess
          /\ ~About(s)' /\ reqs'[s].pc = "idle" /\ \A u \in Slots \ {s} : reqs'[u] = reqs[u]
      BY <1>7, <1>i DEF ClearAvatar
    <2>4. About(s)
      BY <1>a, <2>2
    <2>5. UploadsOK'
      BY <1>u, <2>2, <2>4
    <2>6. GoneOK'
      BY <2>2 DEF GoneOK
    <2>7. PartsOK'
      BY <2>2 DEF AvatarOK, PartsOK
    <2>8. ExactOK'
      <3>1. ASSUME mess' \subseteq Tracks, NEW x \in Exts
            PROVE  AsNamed(x)' /\ \A u \in Slots : ~About(u)'
        <4>1. files[x] = "none" /\ x # None
          BY <2>2, <2>4, <3>1 DEF AvatarOK, ExactOK, ExactBut, NamesApart
        <4> QED
          BY <1>x, <2>2, <2>4, <3>1, <4>1 DEF AsNamed
      <3> QED
        BY <3>1 DEF ExactOK
    <2> QED
      BY <2>5, <2>6, <2>7, <2>8 DEF AvatarOK
  <1>8. CASE BreaksOff(s) /\ About(s)
    <2>1. /\ files' = files /\ avatar' = avatar
          /\ ~About(s)' /\ reqs'[s].pc = "idle" /\ \A u \in Slots \ {s} : reqs'[u] = reqs[u]
      BY <1>8, <1>i DEF BreaksOff
    <2>2. /\ mess' = mess \cup (IF reqs[s].pc \in {"put", "remove"} THEN {reqs[s].pc} ELSE {"left"})
          /\ reqs[s].pc \in {"put", "name", "clean", "remove"}
      BY <1>8, <1>a DEF BreaksOff
    <2>3. UploadsOK'
      BY <1>8, <1>u, <2>1, <2>2
    <2>4. GoneOK'
      BY <2>1, <2>2 DEF AvatarOK, GoneOK
    <2>5. PartsOK'
      BY <2>1, <2>2 DEF AvatarOK, PartsOK
    <2>6. ExactOK'
      BY <1>e, <2>2 DEF ExactOK
    <2> QED
      BY <2>3, <2>4, <2>5, <2>6 DEF AvatarOK
  <1> QED
    BY <1>1, <1>2, <1>3, <1>4, <1>5, <1>6, <1>7, <1>8 DEF AvatarStep

\* A step of a request about the avatar leaves the subtitles alone.
LEMMA AvatarStepTracks ==
  ASSUME NamesApart, TypeOK, TypeOK', TracksOK, \A u \in Slots : PathOK(u) /\ PathOK(u)',
         NEW s \in Slots,
         \/ AvatarStep(s)
         \/ BreaksOff(s) /\ About(s)
  PROVE  TracksOK'
  <1>t. \A u \in Slots : reqs[u] \in Requests /\ reqs'[u] \in Requests
    BY DEF TypeOK
  <1>e. /\ "overlap" \notin Tracks /\ "put" \notin Tracks /\ "remove" \notin Tracks
        /\ "left" \notin Tracks /\ None \notin Tracks /\ \A p \in Exts, t \in Tracks : p # t
    BY DEF NamesApart
  <1>1. ASSUME rows' = rows, \A t \in Tracks : files'[t] = files[t] /\ (t \in mess <=> t \in mess'),
               reqs[s].path \notin Tracks, reqs'[s].path \notin Tracks,
               \A u \in Slots \ {s} : reqs'[u].pc = reqs[u].pc /\ reqs'[u].path = reqs[u].path
        PROVE  TracksOK'
    <2>1. \A u \in Slots : reqs'[u].path \in Tracks \/ reqs[u].path \in Tracks =>
                            reqs'[u].path = reqs[u].path /\ reqs'[u].pc = reqs[u].pc
      BY <1>1
    <2> QED
      BY <1>1, <2>1, TracksAside
  <1>2. ASSUME NEW r \in Requests, Begins(s, r), r.path \notin Tracks
        PROVE  /\ reqs[s].path \notin Tracks /\ reqs'[s].path \notin Tracks
               /\ \A u \in Slots \ {s} : reqs'[u].pc = reqs[u].pc /\ reqs'[u].path = reqs[u].path
               /\ \A t \in Tracks : t \in mess <=> t \in mess'
    <2>1. /\ reqs[s].pc = "idle" /\ reqs'[s].path = r.path
          /\ \A u \in Slots \ {s} : reqs'[u].pc = reqs[u].pc /\ reqs'[u].path = reqs[u].path
      BY <1>2, BeginsEffect
    <2>2. \A t \in Tracks : t \in mess <=> t \in mess'
      BY <1>2, <1>e DEF Begins
    <2> QED
      BY <1>2, <1>e, <2>1, <2>2 DEF PathOK
  <1>3. CASE UploadAvatar(s)
    <2>1. PICK e \in Exts : Begins(s, Request("put", e, {})) /\ PutBegins(e) /\ rows' = rows
      BY <1>3 DEF UploadAvatar
    <2>2. PICK r \in Requests : r = Request("put", e, {}) /\ r.path = e
      BY RequestTyped DEF AvatarPcs
    <2>3. \A t \in Tracks : files'[t] = files[t]
      BY <1>e, <2>1 DEF PutBegins, TypeOK
    <2> QED
      BY <1>1, <1>2, <1>e, <2>1, <2>2, <2>3
  <1>4. CASE DeleteAvatar(s)
    <2>1. PICK r \in Requests : r = Request("remove", None, Exts) /\ r.path = None
      BY RequestTyped DEF AvatarPcs
    <2> QED
      BY <1>1, <1>2, <1>4, <1>e, <2>1 DEF DeleteAvatar
  <1>5. CASE UploadAvatarStored(s)
    <2>1. PICK p \in Exts : p = reqs[s].path
      BY <1>5 DEF UploadAvatarStored, PathOK
    <2>2. /\ reqs'[s].path = p /\ \A u \in Slots \ {s} : reqs'[u] = reqs[u]
          /\ \A t \in Tracks : files'[t] = files[t]
          /\ rows' = rows /\ mess' = mess
      BY <1>5, <1>t, <1>e, <2>1 DEF UploadAvatarStored, Goes, PutEnds, TypeOK, Requests
    <2> QED
      BY <1>1, <1>e, <2>1, <2>2
  <1>6. CASE UpdateAvatar(s)
    <2>1. PICK p \in Exts : p = reqs[s].path
      BY <1>6 DEF UpdateAvatar, PathOK
    <2>2. /\ reqs'[s].path = p /\ \A u \in Slots \ {s} : reqs'[u] = reqs[u]
          /\ files' = files /\ rows' = rows /\ mess' = mess
      BY <1>6, <1>t, <2>1 DEF UpdateAvatar, TypeOK, Requests
    <2> QED
      BY <1>1, <1>e, <2>1, <2>2
  <1>7. CASE CleanUp(s) \/ RemoveFile(s)
    <2>1. PICK e \in reqs[s].rest :
            /\ reqs' = [reqs EXCEPT ![s].rest = @ \ {e}]
            /\ \/ files' = [files EXCEPT ![e] = "none"] /\ UNCHANGED mess
               \/ mess' = mess \cup {"left"} /\ UNCHANGED files
      BY <1>7 DEF CleanUp, RemoveFile, DeleteNext
    <2>2. e \in Exts
      BY <1>t, <2>1 DEF Requests
    <2>3. \A t \in Tracks : files'[t] = files[t] /\ (t \in mess <=> t \in mess')
      BY <1>e, <2>1, <2>2 DEF TypeOK
    <2>4. /\ reqs'[s].path = reqs[s].path /\ \A u \in Slots \ {s} : reqs'[u] = reqs[u]
          /\ rows' = rows /\ reqs[s].pc \in {"clean", "remove"}
      BY <1>7, <1>t, <2>1 DEF CleanUp, RemoveFile, DeleteNext, TypeOK, Requests
    <2> QED
      BY <1>1, <1>e, <2>3, <2>4 DEF PathOK
  <1>8. CASE UploadAvatarEnds(s) \/ ClearAvatar(s) \/ (BreaksOff(s) /\ About(s))
    <2>1. /\ reqs'[s].path = None /\ \A u \in Slots \ {s} : reqs'[u] = reqs[u]
          /\ files' = files /\ rows' = rows
      BY <1>8 DEF UploadAvatarEnds, ClearAvatar, BreaksOff, TypeOK, Idle, Request
    <2>2. reqs[s].pc \in {"put", "name", "clean", "remove"}
      BY <1>8 DEF UploadAvatarEnds, ClearAvatar, About, AvatarPcs
    <2>3. \A t \in Tracks : t \in mess <=> t \in mess'
      BY <1>8, <1>e, <2>2 DEF UploadAvatarEnds, ClearAvatar, BreaksOff
    <2> QED
      BY <1>1, <1>e, <2>1, <2>2, <2>3 DEF PathOK
  <1> QED
    BY <1>3, <1>4, <1>5, <1>6, <1>7, <1>8 DEF AvatarStep

\* The inductive invariant holds at first.
LEMMA InitFilesInv ==
  ASSUME NamesApart, Init
  PROVE  FilesInv
  <1>1. \A s \in Slots : reqs[s] = Idle /\ reqs[s].pc = "idle" /\ reqs[s].path = None
    BY DEF Init, Idle, Request
  <1>2. TypeOK
    BY RequestTyped DEF Init, TypeOK, Idle
  <1>3. \A s \in Slots : PathOK(s)
    BY <1>1 DEF PathOK
  <1>4. TracksOK
    BY <1>1 DEF Init, TracksOK, TrackOK, SubtitlesHaveFiles, NoPartServed
  <1>5. AvatarOK
    <2>1. \A s \in Slots : ~About(s)
      BY <1>1 DEF About, AvatarPcs
    <2>2. \A e \in Exts : AsNamed(e)
      BY DEF Init, AsNamed, NamesApart
    <2> QED
      BY <2>1, <2>2 DEF Init, AvatarOK, UploadsOK, GoneOK, PartsOK, ExactOK
  <1> QED
    BY <1>2, <1>3, <1>4, <1>5 DEF FilesInv

\* Every step keeps it.
LEMMA NextFilesInv ==
  ASSUME NamesApart, FilesInv, [Next]_vars
  PROVE  FilesInv'
  <1>1. CASE Next
    <2>1. TypeOK' /\ \A u \in Slots : PathOK(u)'
      BY <1>1, StepTypes DEF FilesInv
    <2>0. PICK s \in Slots : AvatarStep(s) \/ TrackStep(s) \/ BreaksOff(s)
      BY <1>1 DEF Next, AvatarStep, TrackStep
    <2>t. /\ \A u \in Slots : reqs[u] \in Requests /\ reqs'[u] \in Requests
          /\ TypeOK /\ \A u \in Slots : PathOK(u)
      BY <2>1 DEF FilesInv, TypeOK
    <2>2. CASE TrackStep(s) \/ (BreaksOff(s) /\ reqs[s].path \in Tracks)
      <3>1. TracksOK'
        BY <2>1, <2>2, TrackStepTracks DEF FilesInv
      <3>2. /\ avatar' = avatar /\ \A e \in Exts : files'[e] = files[e]
            /\ mess \subseteq mess' /\ mess' \ Tracks = mess \ Tracks
        <4>1. \A p \in Tracks, e \in Exts : p # e
          BY DEF NamesApart
        <4>2. CASE UploadSubtitle(s)
          BY <2>t, <4>1, <4>2 DEF UploadSubtitle, PutBegins, TypeOK
        <4>3. CASE SubtitleStored(s)
          <5>1. PICK p \in Tracks : p = reqs[s].path
            BY <2>t, <4>3 DEF SubtitleStored, PathOK
          <5> QED
            BY <2>t, <4>1, <4>3, <5>1 DEF SubtitleStored, PutEnds, TypeOK
        <4>4. CASE DeleteSubtitleFile(s)
          <5>1. PICK p \in Tracks : p = reqs[s].path
            BY <2>t, <4>4 DEF DeleteSubtitleFile, PathOK
          <5> QED
            BY <2>t, <4>1, <4>4, <5>1 DEF DeleteSubtitleFile, TypeOK
        <4>5. CASE CreateSubtitle(s) \/ DeleteSubtitle(s) \/ DeleteSubtitleRow(s)
          BY <4>5 DEF CreateSubtitle, DeleteSubtitle, DeleteSubtitleRow
        <4>6. CASE BreaksOff(s) /\ reqs[s].path \in Tracks
          BY <2>t, <4>6 DEF BreaksOff, PathOK, NamesApart
        <4> QED
          BY <2>2, <4>2, <4>3, <4>4, <4>5, <4>6 DEF TrackStep
      <3>3. ASSUME NEW u \in Slots
            PROVE  (About(u)' <=> About(u)) /\ (About(u) => reqs'[u] = reqs[u])
        <4>1. u # s => reqs'[u] = reqs[u]
          BY <2>2, <2>t DEF TrackStep, UploadSubtitle, SubtitleStored, CreateSubtitle,
             DeleteSubtitle, DeleteSubtitleFile, DeleteSubtitleRow, BreaksOff, Goes, TypeOK
        <4>2. reqs[s].pc \notin AvatarPcs
          BY <2>2, <2>t DEF TrackStep, UploadSubtitle, SubtitleStored, CreateSubtitle, stored,
             DeleteSubtitle, DeleteSubtitleFile, DeleteSubtitleRow, PathOK, NamesApart, AvatarPcs
        <4>3. reqs'[s].pc \in {"track", "create", "file", "row", "idle"}
          BY <2>2, <2>t DEF TrackStep, UploadSubtitle, SubtitleStored, CreateSubtitle,
             DeleteSubtitle, DeleteSubtitleFile, DeleteSubtitleRow, BreaksOff, Goes, TypeOK,
             Requests, Idle, Request
        <4> QED
          BY <4>1, <4>2, <4>3 DEF About, AvatarPcs
      <3>4. AvatarOK'
        BY <2>t, <3>2, <3>3, AvatarAside DEF FilesInv
      <3> QED
        BY <2>1, <3>1, <3>4 DEF FilesInv
    <2>3. CASE AvatarStep(s) \/ (BreaksOff(s) /\ About(s))
      <3>1. AvatarOK'
        BY <2>1, <2>3, AvatarStepAvatar DEF FilesInv
      <3>2. TracksOK'
        BY <2>1, <2>3, AvatarStepTracks DEF FilesInv
      <3> QED
        BY <2>1, <3>1, <3>2 DEF FilesInv
    <2>4. BreaksOff(s) => About(s) \/ reqs[s].path \in Tracks
      BY <2>t DEF BreaksOff, About, AvatarPcs, Requests, PathOK
    <2> QED
      BY <2>0, <2>2, <2>3, <2>4
  <1>2. CASE UNCHANGED vars
    BY <1>2 DEF vars, FilesInv, TypeOK, PathOK, TracksOK, TrackOK, SubtitlesHaveFiles, Busy,
       NoPartServed, AvatarOK, UploadsOK, UploadOK, About, GoneOK, PartsOK, ExactOK, ExactBut, AsNamed
  <1> QED
    BY <1>1, <1>2

\* What the invariant says of the avatar's file is what the property says of it.
LEMMA AvatarFollows ==
  ASSUME FilesInv
  PROVE  AvatarHasFile
  <1>1. avatar # None => avatar \in Exts
    BY DEF FilesInv, TypeOK
  <1>2. mess \subseteq Tracks /\ (\A s \in Slots : reqs[s].pc \notin AvatarPcs) =>
          \A e \in Exts : files[e] = IF e = avatar THEN "whole" ELSE "none"
    BY DEF FilesInv, AvatarOK, ExactOK, About, AsNamed
  <1> QED
    BY <1>1, <1>2 DEF FilesInv, AvatarOK, GoneOK, PartsOK, AvatarHasFile

\* Every variable stays in its type.
THEOREM FilesTyped ==
  ASSUME NamesApart
  PROVE  Spec => []TypeOK
  <1>1. Init => FilesInv
    BY InitFilesInv
  <1>2. FilesInv /\ [Next]_vars => FilesInv'
    BY NextFilesInv
  <1>3. FilesInv => TypeOK
    BY DEF FilesInv
  <1> QED
    BY <1>1, <1>2, <1>3, PTL DEF Spec

\* However many types, uploads and removals of the avatar there are: one that is set has its
\* whole file, unless one overlapped or broke off (profile.go 58-124).
THEOREM AvatarsHaveFiles ==
  ASSUME NamesApart
  PROVE  Spec => []AvatarHasFile
  <1>1. Init => FilesInv
    BY InitFilesInv
  <1>2. FilesInv /\ [Next]_vars => FilesInv'
    BY NextFilesInv
  <1>3. FilesInv => AvatarHasFile
    BY AvatarFollows
  <1> QED
    BY <1>1, <1>2, <1>3, PTL DEF Spec

\* However many subtitles are uploaded and deleted at once: one that no request is about
\* has the whole file if it has a row, and none if it has not (subtitles.go 320-383).
THEOREM TracksHaveFiles ==
  ASSUME NamesApart
  PROVE  Spec => []SubtitlesHaveFiles
  <1>1. Init => FilesInv
    BY InitFilesInv
  <1>2. FilesInv /\ [Next]_vars => FilesInv'
    BY NextFilesInv
  <1>3. FilesInv => SubtitlesHaveFiles
    BY DEF FilesInv, TracksOK
  <1> QED
    BY <1>1, <1>2, <1>3, PTL DEF Spec

\* No row of a subtitle ever names a part of a file.
THEOREM PartsUnserved ==
  ASSUME NamesApart
  PROVE  Spec => []NoPartServed
  <1>1. Init => FilesInv
    BY InitFilesInv
  <1>2. FilesInv /\ [Next]_vars => FilesInv'
    BY NextFilesInv
  <1>3. FilesInv => NoPartServed
    BY DEF FilesInv, TracksOK
  <1> QED
    BY <1>1, <1>2, <1>3, PTL DEF Spec

=============================================================================
