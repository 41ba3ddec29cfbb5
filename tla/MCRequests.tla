------------------------------ MODULE MCRequests ------------------------------
(***************************************************************************)
(* Instance of the start of the server, of the accounts and of the files   *)
(* beside rows for TLC.  They share no state here: the part chosen at the  *)
(* start moves, the others rest.                                           *)
(***************************************************************************)
EXTENDS ServerStart, TLC

CONSTANTS
  Ids, Mails, Slots, None,  \* those of the accounts
  Exts, Tracks              \* those of the files

VARIABLES
  part,                                  \* which of them it is
  users, reqs,                           \* those of the accounts
  files, avatar, rows, fileReqs, mess    \* those of the files

\* Nothing is called None, and no path has a word's name.
ASSUME NamesAssumption ==
  /\ None \notin Ids \cup Mails \cup Exts \cup Tracks
  /\ {"overlap", "put", "remove", "left"} \cap Tracks = {}

userVars == <<users, reqs>>
fileVars == <<files, avatar, rows, fileReqs, mess>>
requestVars == <<part, vars, userVars, fileVars>>

NoPaths == {}

Accounts == INSTANCE UserAccounts
Avatars == INSTANCE StoredFiles WITH reqs <- fileReqs, Tracks <- NoPaths
Subtitles == INSTANCE StoredFiles WITH reqs <- fileReqs, Exts <- NoPaths

RequestsInit ==
  /\ part \in {"start", "accounts", "avatar", "subtitles"}
  /\ Init
  /\ Accounts!Init /\ (part # "accounts" => \A i \in Ids : ~Accounts!Exists(i))
  /\ IF part = "subtitles" THEN Subtitles!Init ELSE Avatars!Init

RequestsNext ==
  /\ \/ part = "start" /\ Next /\ UNCHANGED <<userVars, fileVars>>
     \/ part = "accounts" /\ Accounts!Next /\ UNCHANGED <<vars, fileVars>>
     \/ part = "avatar" /\ Avatars!Next /\ UNCHANGED <<vars, userVars>>
     \/ part = "subtitles" /\ Subtitles!Next /\ UNCHANGED <<vars, userVars>>
  /\ UNCHANGED part

RequestsSpec == RequestsInit /\ [][RequestsNext]_requestVars

RequestSymmetry == Permutations(Slots) \cup Permutations(Mails)

----------------------------------------------------------------------------
(* Properties: those of the start, and *)

\* In each part the variables have the values they may have.
TypesOK ==
  /\ part = "start" => TypeOK
  /\ part = "accounts" => Accounts!TypeOK
  /\ part = "avatar" => Avatars!TypeOK
  /\ part = "subtitles" => Subtitles!TypeOK

\* An email and a Google account are one user's; tokens are given to a user who is
\* active, and by Google to the user of that account; and a request changes of a user
\* what it asks for, or what changed since it read the user.
AccountsHold ==
  /\ [](part = "accounts" =>
          Accounts!OneUserEach /\ Accounts!OnlyActiveSignIn /\ Accounts!OwnerSignsIn)
  /\ Accounts!UpdatesKept

\* A row names a file that is there, and a file has its row.
RowsHaveFiles ==
  /\ part = "avatar" => Avatars!AvatarHasFile
  /\ part = "subtitles" => Subtitles!SubtitlesHaveFiles /\ Subtitles!NoPartServed

=============================================================================
